--------------------------- MODULE VirtualService ---------------------------
(***************************************************************************)
(* SetVirtualServiceWeights (internal/controller/virtualservice.go): get   *)
(* the VirtualService, walk over the routes of its first http entry, put   *)
(* the document back.  Several calls may be under way, from controllers    *)
(* that overlap during a restart, while others edit the document; the API  *)
(* server refuses a document whose version is not the stored one.          *)
(*                                                                         *)
(* A document is the sequence spec.http (<<>> when it is missing); each    *)
(* entry is its sequence of routes, or NoRoute when it is not a map or has *)
(* no list of routes.  A route is a destination host and a weight; a route *)
(* without a host, or that is no map, counts as one to some other host.    *)
(***************************************************************************)
EXTENDS Integers, Sequences

CONSTANTS
  Writers,         \* the calls that may overlap
  Hosts,           \* destination hosts, Stable and Canary among them
  Stable, Canary,  \* stableServiceRef, canaryServiceRef
  Targets,         \* the canary weights that are asked for
  Docs,            \* the documents others apply
  Absent,          \* there is no VirtualService
  NoRoute,         \* an http entry without routes
  NoSplit          \* what a document without routes says about traffic

Route == [host : Hosts, weight : Int]

Document == Seq(Seq(Route) \cup {NoRoute})

\* spec.http[0].route is there.
Usable(doc) == doc # Absent /\ doc # <<>> /\ doc[1] # NoRoute

\* Each of the two hosts has one route.
WellFormed(doc) ==
  Usable(doc) =>
    \A h \in {Stable, Canary} :
      \E i \in DOMAIN doc[1] : \A j \in DOMAIN doc[1] :
        doc[1][j].host = h <=> j = i

ASSUME HostsAssumption ==
  Stable \in Hosts /\ Canary \in Hosts /\ Stable # Canary

ASSUME TargetsAssumption == Targets \subseteq Int

ASSUME DocsAssumption ==
  /\ Docs \subseteq Document \cup {Absent}
  /\ \A doc \in Docs : WellFormed(doc)

ASSUME ShapesAssumption ==
  /\ NoRoute \notin Seq(Route)
  /\ Absent \notin Document
  /\ NoSplit \notin [stable : Int, canary : Int]

VARIABLES
  doc,    \* the stored VirtualService
  call    \* the call each writer is in

vars == <<doc, call>>

-----------------------------------------------------------------------------

\* Mutant: stable keeps its weight.
RoutesCanaryOnly(routes, stable, canary) ==
  [i \in DOMAIN routes |->
     IF routes[i].host = Canary THEN [routes[i] EXCEPT !.weight = canary]
     ELSE routes[i]]

\* The loop over the routes.
Routes(routes, stable, canary) ==
  [i \in DOMAIN routes |->
     CASE routes[i].host = Stable -> [routes[i] EXCEPT !.weight = stable]
       [] routes[i].host = Canary -> [routes[i] EXCEPT !.weight = canary]
       [] OTHER -> routes[i]]

\* The document with the two weights set in its first entry.
Patch(d, stable, canary) == [d EXCEPT ![1] = Routes(d[1], stable, canary)]

\* A writer that is not in a call.
NoCall == [pc |-> "idle", copy |-> Absent, fresh |-> FALSE]

CallType == [pc : {"idle", "update"}, copy : Document \cup {Absent},
             fresh : BOOLEAN]

\* Type correctness; a writer about to update holds a document.
TypeOK ==
  /\ doc \in Document \cup {Absent}
  /\ call \in [Writers -> CallType]

Init ==
  /\ doc \in Docs
  /\ call = [w \in Writers |-> NoCall]

\* A write that changes the document outdates every other copy of it.
Store(new, others) ==
  /\ doc' = new
  /\ call' = [w \in Writers |->
                [others[w] EXCEPT !.fresh = others[w].fresh /\ new = doc]]

\* The Get and the edit of the copy.
Get(w, canary) ==
  /\ call[w].pc = "idle" /\ Usable(doc)
  /\ call' = [call EXCEPT ![w] =
       [pc |-> "update", copy |-> Patch(doc, 100 - canary, canary),
        fresh |-> TRUE]]
  /\ UNCHANGED doc

\* No VirtualService, or none with routes: an error, and nothing is written.
GetFails(w) ==
  /\ call[w].pc = "idle" /\ ~Usable(doc)
  /\ UNCHANGED vars

\* Mutant: the document is put back whatever became of the stored one.
UpdateAnyway(w) ==
  /\ call[w].pc = "update"
  /\ Store(call[w].copy, [call EXCEPT ![w] = NoCall])

Update(w) ==
  /\ call[w].pc = "update" /\ call[w].fresh
  /\ Store(call[w].copy, [call EXCEPT ![w] = NoCall])

\* The update is refused or fails, or the controller stops.
UpdateFails(w) ==
  /\ call[w].pc = "update"
  /\ call' = [call EXCEPT ![w] = NoCall]
  /\ UNCHANGED doc

\* Somebody else applies, edits or deletes the VirtualService.
Edit(new) == new # doc /\ Store(new, call)

Next ==
  \/ \E w \in Writers :
       \/ \E canary \in Targets : Get(w, canary)
       \/ GetFails(w) \/ Update(w) \/ UpdateFails(w)
  \/ \E new \in Docs : Edit(new)

Spec == Init /\ [][Next]_vars

-----------------------------------------------------------------------------
(* Properties. *)

\* Everything of a document but the two weights the controller sets.
Rest(d) == IF Usable(d) THEN Patch(d, 0, 0) ELSE d

\* A controller's write keeps what others have configured, also what they
\* configured while the call was under way: the other routes, the other http
\* entries and the order.
RestKept == [][
  \A w \in Writers :
    call[w].pc = "update" /\ call'[w].pc = "idle" => Rest(doc') = Rest(doc)]_vars

\* The weight of a host's route.
WeightOf(routes, h) ==
  routes[CHOOSE i \in DOMAIN routes : routes[i].host = h].weight

SplitOf(d) ==
  IF Usable(d)
  THEN [stable |-> WeightOf(d[1], Stable), canary |-> WeightOf(d[1], Canary)]
  ELSE NoSplit

Register == INSTANCE TrafficSplit WITH
  split <- SplitOf(doc), Others <- {SplitOf(d) : d \in Docs}

\* Where each host has one route, overlapping calls and edits act on the two
\* shares like single writes of a register: a mixture of two calls is never in
\* force, and no call brings back a VirtualService that was deleted.
IsRegister == Register!Spec
=============================================================================
