------------------------ MODULE VirtualServiceProofs ------------------------
(***************************************************************************)
(* Proofs about VirtualService for every set of documents in which the two *)
(* hosts have one route each, any number of writers and any weights.       *)
(***************************************************************************)
EXTENDS VirtualService, SequenceTheorems, TLAPS

-----------------------------------------------------------------------------
(* The loop over the routes and the patched document. *)

\* The loop keeps the number of routes and their hosts, and sets the weights of
\* the two hosts.
LEMMA RoutesFacts ==
  ASSUME NEW routes \in Seq(Route), NEW s \in Int, NEW c \in Int
  PROVE  /\ Routes(routes, s, c) \in Seq(Route)
         /\ DOMAIN Routes(routes, s, c) = DOMAIN routes
         /\ \A i \in DOMAIN routes :
              /\ Routes(routes, s, c)[i].host = routes[i].host
              /\ routes[i].host = Stable => Routes(routes, s, c)[i].weight = s
              /\ routes[i].host = Canary => Routes(routes, s, c)[i].weight = c
<1> DEFINE R == Routes(routes, s, c)
<1>1. DOMAIN routes = 1..Len(routes) /\ Len(routes) \in Nat
  OBVIOUS
<1>2. ASSUME NEW i \in DOMAIN routes
      PROVE  /\ R[i] \in Route
             /\ R[i].host = routes[i].host
             /\ routes[i].host = Stable => R[i].weight = s
             /\ routes[i].host = Canary => R[i].weight = c
  <2>1. routes[i] \in Route
    BY <1>1
  <2>2. R[i] = CASE routes[i].host = Stable -> [routes[i] EXCEPT !.weight = s]
                 [] routes[i].host = Canary -> [routes[i] EXCEPT !.weight = c]
                 [] OTHER -> routes[i]
    BY DEF Routes
  <2>3. CASE routes[i].host = Stable
    BY <2>1, <2>2, <2>3, HostsAssumption DEF Route
  <2>4. CASE routes[i].host = Canary
    BY <2>1, <2>2, <2>4, HostsAssumption DEF Route
  <2>5. CASE routes[i].host \notin {Stable, Canary}
    BY <2>1, <2>2, <2>5 DEF Route
  <2> QED BY <2>3, <2>4, <2>5
<1>3. DOMAIN R = DOMAIN routes
  BY DEF Routes
<1>4. R = [i \in 1..Len(routes) |-> R[i]]
  BY <1>1 DEF Routes
<1>5. R \in Seq(Route)
  BY <1>1, <1>2, <1>4, IsASeq
<1> QED BY <1>2, <1>3, <1>5

\* A usable document is a sequence that begins with a list of routes.
LEMMA UsableFacts ==
  ASSUME NEW d \in Document \cup {Absent}, Usable(d)
  PROVE  /\ d \in Document
         /\ 1 \in DOMAIN d
         /\ d[1] \in Seq(Route)
<1>1. d \in Document /\ d # <<>>
  BY DEF Usable
<1>2. Len(d) \in Nat /\ Len(d) # 0 /\ DOMAIN d = 1..Len(d)
  BY <1>1, EmptySeq DEF Document
<1>3. d[1] \in Seq(Route) \cup {NoRoute}
  BY <1>1, <1>2 DEF Document
<1> QED BY <1>1, <1>2, <1>3 DEF Usable

\* A patched document is a usable document with the routes of the loop.
LEMMA PatchFacts ==
  ASSUME NEW d \in Document \cup {Absent}, Usable(d),
         NEW s \in Int, NEW c \in Int
  PROVE  /\ Patch(d, s, c) \in Document
         /\ Usable(Patch(d, s, c))
         /\ Patch(d, s, c)[1] = Routes(d[1], s, c)
         /\ WellFormed(d) => WellFormed(Patch(d, s, c))
<1> DEFINE P == Patch(d, s, c)
           R == Routes(d[1], s, c)
<1>1. /\ d \in Document /\ 1 \in DOMAIN d /\ d[1] \in Seq(Route)
      /\ R \in Seq(Route)
  BY UsableFacts, RoutesFacts
<1>2. /\ DOMAIN P = DOMAIN d
      /\ P[1] = R
      /\ \A i \in DOMAIN d : i # 1 => P[i] = d[i]
  BY <1>1 DEF Patch, Document
<1>3. P \in Document
  BY <1>1 DEF Patch, Document
<1>4. P # Absent /\ P # <<>> /\ P[1] # NoRoute
  BY <1>1, <1>2, <1>3, ShapesAssumption
<1>5. ASSUME WellFormed(d) PROVE WellFormed(P)
  <2>1. \A h \in {Stable, Canary} :
          \E i \in DOMAIN d[1] : \A j \in DOMAIN d[1] :
            d[1][j].host = h <=> j = i
    BY <1>5 DEF WellFormed
  <2>2. DOMAIN R = DOMAIN d[1] /\ \A j \in DOMAIN d[1] : R[j].host = d[1][j].host
    BY <1>1, RoutesFacts
  <2>3. \A h \in {Stable, Canary} :
          \E i \in DOMAIN R : \A j \in DOMAIN R : R[j].host = h <=> j = i
    BY <2>1, <2>2
  <2> QED BY <1>2, <2>3 DEF WellFormed
<1> QED BY <1>2, <1>3, <1>4, <1>5 DEF Usable

\* The weight of a host that has one route is the weight of that route.
LEMMA WeightOfUnique ==
  ASSUME NEW routes, NEW h, NEW i \in DOMAIN routes,
         \A j \in DOMAIN routes : routes[j].host = h <=> j = i
  PROVE  WeightOf(routes, h) = routes[i].weight
<1>1. (CHOOSE j \in DOMAIN routes : routes[j].host = h) = i
  OBVIOUS
<1> QED BY <1>1 DEF WeightOf

\* The split of a patched document is the one that was asked for.
LEMMA PatchSplit ==
  ASSUME NEW d \in Document \cup {Absent}, Usable(d), WellFormed(d),
         NEW c \in Int
  PROVE  SplitOf(Patch(d, 100 - c, c)) = Register!Share(c)
<1> DEFINE P == Patch(d, 100 - c, c)
           R == Routes(d[1], 100 - c, c)
<1>0. 100 - c \in Int
  OBVIOUS
<1>1. Usable(P) /\ P[1] = R /\ WellFormed(P)
  BY <1>0, PatchFacts
<1>2. /\ DOMAIN R = DOMAIN d[1]
      /\ \A i \in DOMAIN d[1] :
           /\ R[i].host = d[1][i].host
           /\ d[1][i].host = Stable => R[i].weight = 100 - c
           /\ d[1][i].host = Canary => R[i].weight = c
  BY <1>0, UsableFacts, RoutesFacts
<1>3. ASSUME NEW h \in {Stable, Canary}
      PROVE  \E i \in DOMAIN R : R[i].host = h /\ WeightOf(R, h) = R[i].weight
  <2>1. PICK i \in DOMAIN R : \A j \in DOMAIN R : R[j].host = h <=> j = i
    BY <1>1, <1>3 DEF WellFormed
  <2>2. WeightOf(R, h) = R[i].weight
    BY <2>1, WeightOfUnique
  <2> QED BY <2>1, <2>2
<1>4. WeightOf(R, Stable) = 100 - c /\ WeightOf(R, Canary) = c
  BY <1>2, <1>3
<1> QED BY <1>1, <1>4 DEF SplitOf, Register!Share

\* Setting the weights changes nothing else.
LEMMA PatchRest ==
  ASSUME NEW d \in Document \cup {Absent}, Usable(d),
         NEW s \in Int, NEW c \in Int
  PROVE  Rest(Patch(d, s, c)) = Rest(d)
<1> DEFINE P == Patch(d, s, c)
           R == Routes(d[1], s, c)
<1>1. /\ d \in Document /\ 1 \in DOMAIN d /\ d[1] \in Seq(Route)
      /\ Usable(P) /\ P[1] = R
  BY UsableFacts, PatchFacts
<1>2. Routes(R, 0, 0) = Routes(d[1], 0, 0)
  <2>1. DOMAIN R = DOMAIN d[1]
    BY <1>1, RoutesFacts
  <2>2. ASSUME NEW i \in DOMAIN d[1]
        PROVE  Routes(R, 0, 0)[i] = Routes(d[1], 0, 0)[i]
    <3>1. d[1][i] \in Route
      BY <1>1
    <3>2. R[i] = CASE d[1][i].host = Stable -> [d[1][i] EXCEPT !.weight = s]
                   [] d[1][i].host = Canary -> [d[1][i] EXCEPT !.weight = c]
                   [] OTHER -> d[1][i]
      BY DEF Routes
    <3>3. Routes(R, 0, 0)[i] =
            CASE R[i].host = Stable -> [R[i] EXCEPT !.weight = 0]
              [] R[i].host = Canary -> [R[i] EXCEPT !.weight = 0]
              [] OTHER -> R[i]
      BY <2>1 DEF Routes
    <3>4. Routes(d[1], 0, 0)[i] =
            CASE d[1][i].host = Stable -> [d[1][i] EXCEPT !.weight = 0]
              [] d[1][i].host = Canary -> [d[1][i] EXCEPT !.weight = 0]
              [] OTHER -> d[1][i]
      BY DEF Routes
    <3>5. CASE d[1][i].host = Stable
      BY <3>1, <3>2, <3>3, <3>4, <3>5, HostsAssumption DEF Route
    <3>6. CASE d[1][i].host = Canary
      BY <3>1, <3>2, <3>3, <3>4, <3>6, HostsAssumption DEF Route
    <3>7. CASE d[1][i].host \notin {Stable, Canary}
      BY <3>2, <3>3, <3>4, <3>7
    <3> QED BY <3>5, <3>6, <3>7
  <2>3. /\ Routes(R, 0, 0) = [i \in DOMAIN d[1] |-> Routes(R, 0, 0)[i]]
        /\ Routes(d[1], 0, 0) = [i \in DOMAIN d[1] |-> Routes(d[1], 0, 0)[i]]
    BY <2>1 DEF Routes
  <2> QED BY <2>2, <2>3
<1>3. [P EXCEPT ![1] = Routes(P[1], 0, 0)] = [d EXCEPT ![1] = Routes(d[1], 0, 0)]
  BY <1>1, <1>2 DEF Patch
<1> QED BY <1>1, <1>3 DEF Rest, Patch

-----------------------------------------------------------------------------
(* The inductive invariant. *)

\* A copy that is still fresh is the stored document with the weights set.
FreshCopies ==
  \A w \in Writers :
    call[w].pc = "update" /\ call[w].fresh =>
      /\ Usable(doc)
      /\ \E c \in Targets : call[w].copy = Patch(doc, 100 - c, c)

Inv == TypeOK /\ WellFormed(doc) /\ FreshCopies

\* The invariant holds at the start.
LEMMA InvInit == Init => Inv
<1> SUFFICES ASSUME Init PROVE Inv
  OBVIOUS
<1>1. doc \in Document \cup {Absent} /\ WellFormed(doc)
  BY DocsAssumption DEF Init
<1>2. NoCall \in CallType /\ NoCall.pc = "idle"
  BY DEF NoCall, CallType
<1>3. call \in [Writers -> CallType] /\ \A w \in Writers : call[w].pc = "idle"
  BY <1>2 DEF Init
<1> QED BY <1>1, <1>3 DEF Inv, TypeOK, FreshCopies

\* Storing a document keeps the invariant, with every writer in its call or
\* out of it: copies stay fresh only when nothing changes.
LEMMA StoreInv ==
  ASSUME Inv, NEW new \in Document \cup {Absent}, WellFormed(new),
         NEW others \in [Writers -> CallType],
         \A w \in Writers : others[w] \in {call[w], NoCall},
         Store(new, others)
  PROVE  Inv'
<1>1. ASSUME NEW w \in Writers
      PROVE  /\ call'[w] \in CallType
             /\ call'[w].pc = others[w].pc /\ call'[w].copy = others[w].copy
             /\ call'[w].fresh => others[w].fresh /\ new = doc
  BY DEF Store, CallType
<1>2. TypeOK'
  BY <1>1 DEF Store, TypeOK
<1>3. WellFormed(doc')
  BY DEF Store
<1>4. FreshCopies'
  <2> SUFFICES ASSUME NEW w \in Writers, call'[w].pc = "update", call'[w].fresh
               PROVE  /\ Usable(doc')
                      /\ \E c \in Targets :
                           call'[w].copy = Patch(doc', 100 - c, c)
    BY DEF FreshCopies
  <2>1. new = doc /\ others[w].fresh /\ others[w].pc = "update"
    BY <1>1
  <2>2. others[w] = call[w]
    BY <2>1 DEF NoCall
  <2> QED BY <1>1, <2>1, <2>2 DEF Store, Inv, FreshCopies
<1> QED BY <1>2, <1>3, <1>4 DEF Inv

\* What an update stores: the document as it was, with the weights set.
LEMMA UpdateStores ==
  ASSUME Inv, NEW w \in Writers, Update(w)
  PROVE  /\ doc' \in Document /\ WellFormed(doc')
         /\ SplitOf(doc) # NoSplit
         /\ \E c \in Targets : SplitOf(doc') = Register!Share(c)
         /\ Rest(doc') = Rest(doc)
<1>1. PICK c \in Targets : Usable(doc) /\ doc' = Patch(doc, 100 - c, c)
  BY DEF Update, Store, Inv, FreshCopies
<1>2. c \in Int /\ 100 - c \in Int
  BY TargetsAssumption
<1>3. doc \in Document \cup {Absent} /\ WellFormed(doc)
  BY DEF Inv, TypeOK
<1>4. doc' \in Document /\ WellFormed(doc')
  BY <1>1, <1>2, <1>3, PatchFacts
<1>5. SplitOf(doc') = Register!Share(c)
  BY <1>1, <1>2, <1>3, PatchSplit
<1>6. Rest(doc') = Rest(doc)
  BY <1>1, <1>2, <1>3, PatchRest
<1>7. SplitOf(doc) # NoSplit
  <2>1. ASSUME NEW h \in {Stable, Canary} PROVE WeightOf(doc[1], h) \in Int
    <3>1. PICK i \in DOMAIN doc[1] : \A j \in DOMAIN doc[1] :
            doc[1][j].host = h <=> j = i
      BY <1>1, <1>3 DEF WellFormed
    <3>2. doc[1] \in Seq(Route)
      BY <1>1, <1>3, UsableFacts
    <3>3. doc[1][i] \in Route
      BY <3>2
    <3>4. doc[1][i].weight \in Int
      BY <3>3 DEF Route
    <3> QED BY <3>1, <3>4, WeightOfUnique
  <2>2. SplitOf(doc) \in [stable : Int, canary : Int]
    BY <1>1, <2>1 DEF SplitOf
  <2> QED BY <2>2, ShapesAssumption
<1> QED BY <1>4, <1>5, <1>6, <1>7

\* Every step keeps the invariant.
LEMMA InvStep == Inv /\ [Next]_vars => Inv'
<1> SUFFICES ASSUME Inv, [Next]_vars PROVE Inv'
  OBVIOUS
<1>c. call \in [Writers -> CallType]
  BY DEF Inv, TypeOK
<1>n. NoCall \in CallType /\ NoCall.pc = "idle"
  BY DEF NoCall, CallType
<1>1. ASSUME NEW w \in Writers, NEW c \in Targets, Get(w, c) PROVE Inv'
  <2>1. c \in Int /\ 100 - c \in Int
    BY TargetsAssumption
  <2>2. Patch(doc, 100 - c, c) \in Document
    BY <1>1, <2>1, PatchFacts DEF Get, Inv, TypeOK
  <2>3. call' \in [Writers -> CallType]
    BY <1>1, <1>c, <2>2 DEF Get, CallType
  <2>4. /\ call'[w] = [pc |-> "update", copy |-> Patch(doc, 100 - c, c),
                       fresh |-> TRUE]
        /\ \A v \in Writers : v # w => call'[v] = call[v]
        /\ doc' = doc
    BY <1>1, <1>c DEF Get
  <2>5. FreshCopies'
    BY <1>1, <2>4 DEF Get, Inv, FreshCopies
  <2>6. WellFormed(doc')
    BY <2>4 DEF Inv
  <2> QED BY <2>3, <2>4, <2>5, <2>6 DEF Inv, TypeOK
<1>2. ASSUME NEW w \in Writers, Update(w) PROVE Inv'
  <2> DEFINE others == [call EXCEPT ![w] = NoCall]
  <2>1. others \in [Writers -> CallType]
        /\ \A v \in Writers : others[v] \in {call[v], NoCall}
    BY <1>c, <1>n
  <2>2. doc' \in Document /\ WellFormed(doc')
    BY <1>2, UpdateStores
  <2>3. Store(call[w].copy, others) /\ doc' = call[w].copy
    BY <1>2 DEF Update, Store
  <2>4. WellFormed(call[w].copy) /\ call[w].copy \in Document \cup {Absent}
    BY <2>2, <2>3
  <2> QED BY <2>1, <2>3, <2>4, StoreInv
<1>3. ASSUME NEW w \in Writers, UpdateFails(w) PROVE Inv'
  <2>1. /\ call' \in [Writers -> CallType] /\ doc' = doc
        /\ \A v \in Writers : call'[v] \in {call[v], NoCall}
    BY <1>3, <1>c, <1>n DEF UpdateFails
  <2> QED BY <2>1, <1>n DEF Inv, TypeOK, FreshCopies
<1>4. ASSUME NEW new \in Docs, Edit(new) PROVE Inv'
  BY <1>4, <1>c, StoreInv, DocsAssumption DEF Edit
<1>5. CASE UNCHANGED vars \/ \E w \in Writers : GetFails(w)
  BY <1>5 DEF GetFails, vars, Inv, TypeOK, FreshCopies
<1> QED BY <1>1, <1>2, <1>3, <1>4, <1>5 DEF Next

\* The invariant holds in every reachable state.
LEMMA InvHolds == Spec => []Inv
BY InvInit, InvStep, PTL DEF Spec

-----------------------------------------------------------------------------
(* The theorems. *)

\* Type correctness of the document and of the calls under way.
THEOREM TypeCorrect == Spec => []TypeOK
<1>1. Inv => TypeOK
  BY DEF Inv
<1> QED BY <1>1, InvHolds, PTL

\* The list of routes, read, patched and put back by any number of overlapping
\* calls of SetVirtualServiceWeights, implements the register of two shares
\* that the reconcile loop relies on.
THEOREM ImplementsRegister == Spec => IsRegister
<1>1. Init => Register!Init
  BY DEF Init, Register!Init
<1>2. Inv /\ [Next]_vars => [Register!Next]_(SplitOf(doc))
  <2> SUFFICES ASSUME Inv, [Next]_vars
               PROVE  Register!Next \/ SplitOf(doc)' = SplitOf(doc)
    OBVIOUS
  <2>1. ASSUME NEW w \in Writers, Update(w) PROVE Register!Next
    BY <2>1, UpdateStores DEF Register!Next, Register!Write
  <2>2. ASSUME NEW new \in Docs, Edit(new) PROVE Register!Next
    BY <2>2 DEF Edit, Store, Register!Next, Register!Configure
  <2>3. ASSUME doc' = doc PROVE SplitOf(doc)' = SplitOf(doc)
    BY <2>3
  <2> QED BY <2>1, <2>2, <2>3 DEF Next, Get, GetFails, UpdateFails, vars
<1> QED BY <1>1, <1>2, InvHolds, PTL DEF Spec, IsRegister, Register!Spec

\* No call of SetVirtualServiceWeights loses what somebody else configured.
THEOREM OthersKept == Spec => RestKept
<1>1. ASSUME Inv, [Next]_vars, NEW w \in Writers,
             call[w].pc = "update", call'[w].pc = "idle"
      PROVE  Rest(doc') = Rest(doc)
  <2>c. call \in [Writers -> CallType]
    BY <1>1 DEF Inv, TypeOK
  <2>1. ASSUME NEW v \in Writers, Update(v) PROVE Rest(doc') = Rest(doc)
    BY <1>1, <2>1, UpdateStores
  <2>2. ASSUME NEW new \in Docs, Edit(new) PROVE FALSE
    <3>1. call'[w].pc = call[w].pc
      BY <2>2, <2>c DEF Edit, Store, CallType
    <3> QED BY <1>1, <3>1
  <2>3. ASSUME doc' = doc PROVE Rest(doc') = Rest(doc)
    BY <2>3
  <2> QED BY <1>1, <2>1, <2>2, <2>3 DEF Next, Get, GetFails, UpdateFails, vars
<1>2. Inv /\ [Next]_vars =>
        \A w \in Writers : call[w].pc = "update" /\ call'[w].pc = "idle"
                              => Rest(doc') = Rest(doc)
  BY <1>1
<1> QED BY <1>2, InvHolds, PTL DEF Spec, RestKept
=============================================================================
