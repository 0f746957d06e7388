------------------------------ MODULE Statctl ------------------------------
(***************************************************************************)
(* The statctl processes of several users, and the CanaryRollouts they     *)
(* read and write (cmd/statctl/main.go, commands.go): a command parses its *)
(* line, reads the rollout, edits the copy and puts it back, or fails at   *)
(* any of these points, while other users and the controller write the     *)
(* same rollout and the user may press Ctrl-C.                             *)
(*                                                                         *)
(* A client's pc names the call it waits for.  The API server refuses an   *)
(* Update whose copy is not the stored version any more; `stale' is the    *)
(* resource version's part of the copy.  A call's answer may be lost after *)
(* the server has carried it out.                                          *)
(***************************************************************************)
EXTENDS CommandLine

CONSTANTS
  Clients,    \* statctl processes, one after another per member
  Keys,       \* the rollouts that may exist
  Plans,      \* the specs but for paused and abort
  Statuses,   \* what the controller reports
  NewStatus,  \* the zero status
  Absent      \* no such rollout

SpecType == [plan : Plans, paused : BOOLEAN, abort : BOOLEAN]

Rollouts == [spec : SpecType, status : Statuses] \cup {Absent}

\* The specs of the manifests.
Applied == {Files[file].spec : file \in {f \in DOMAIN Files : Files[f] # None}}

ASSUME StatctlAssumption ==
  /\ NewStatus \in Statuses
  /\ Applied \subseteq SpecType
  /\ Absent \notin [spec : SpecType, status : Statuses]

\* What apply may create is among the rollouts that may exist.
ASSUME KeysAssumption ==
  \A run \in Invocations :
    run.cmd = "apply" => run.target.key \in Keys \cup {None}

VARIABLES
  store,      \* the rollouts in the API servers
  client      \* the processes

vars == <<store, client>>

\* cmd, key  what runs, and on which rollout;
\* meant     the rollout the line names;
\* spec      what the command will write: the edited copy, or the manifest;
\* stale     the stored rollout has changed since the copy was read;
\* cancelled Ctrl-C was pressed;
\* exit      how the last run of this member ended.
Started == [pc |-> "idle", cmd |-> "list", key |-> None, meant |-> None,
            spec |-> None, stale |-> FALSE, cancelled |-> FALSE, exit |-> ""]

\* Type correctness; only existing keys are ever written, and a client that
\* waits for a write has something to write.
TypeOK ==
  /\ store \in [Keys -> Rollouts]
  /\ \A c \in Clients :
       /\ client[c].pc \in {"idle", "list", "get", "create", "update",
                            "delete", "watch"}
       /\ client[c].cmd \in Commands
       /\ client[c].spec \in SpecType \cup {None}
       /\ client[c].pc \in {"create", "update"} =>
            client[c].spec \in SpecType /\ client[c].key \in Keys
       /\ client[c].stale \in BOOLEAN /\ client[c].cancelled \in BOOLEAN
       /\ client[c].exit \in {"", "ok", "error"}

Init ==
  /\ store \in [Keys ->
       {Absent} \cup {[spec |-> spec, status |-> NewStatus] : spec \in Applied}]
  /\ client = [c \in Clients |-> Started]

-----------------------------------------------------------------------------

At(rollouts, key) == IF key \in Keys THEN rollouts[key] ELSE Absent

Stored(key) == At(store, key)

\* The process of c goes on as `new'; every copy of a rollout that this step
\* changes is outdated.
Becomes(c, new) ==
  client' = [d \in Clients |->
    IF d = c THEN new
    ELSE [client[d] EXCEPT
            !.stale = \/ @
                      \/ /\ client[d].pc = "update"
                         /\ store'[client[d].key] # store[client[d].key]]]

\* main: an error after Ctrl-C is not reported and not an exit status.
Ended(c, failed) ==
  [Started EXCEPT
    !.exit = IF failed /\ ~client[c].cancelled THEN "error" ELSE "ok"]

Waits(c, calls) == client[c].pc \in calls /\ ~client[c].cancelled

FirstCall(cmd) ==
  IF cmd \in {"list", "delete", "watch"} THEN cmd ELSE "get"

\* A user runs a command; a bad line, manifest or kubeconfig ends it at once.
Run(c) ==
  /\ client[c].pc = "idle"
  /\ UNCHANGED store
  /\ \E run \in Invocations :
       Becomes(c,
         [Started EXCEPT
           !.cmd = run.cmd, !.key = run.target.key, !.meant = run.meant.key,
           !.spec = run.target.spec,
           !.pc = IF run.target.key = None THEN "idle" ELSE FirstCall(run.cmd),
           !.exit = IF run.target.key = None THEN "error" ELSE ""])

-----------------------------------------------------------------------------
(* Answers to reads. *)

\* list prints what is there, also nothing.
Listed(c) ==
  /\ Waits(c, {"list"})
  /\ UNCHANGED store
  /\ Becomes(c, Ended(c, FALSE))

\* What a command makes of the spec it has read.
Edited(c, spec) ==
  CASE client[c].cmd = "pause" -> [spec EXCEPT !.paused = TRUE]
    [] client[c].cmd = "resume" -> [spec EXCEPT !.paused = FALSE,
                                                !.abort = FALSE]
    [] client[c].cmd = "abort" -> [spec EXCEPT !.abort = TRUE]
    [] client[c].cmd = "apply" -> client[c].spec

GetFound(c) ==
  LET found == Stored(client[c].key) IN
  /\ Waits(c, {"get"}) /\ found # Absent
  /\ UNCHANGED store
  /\ Becomes(c,
       IF client[c].cmd = "get" THEN Ended(c, FALSE)
       ELSE [client[c] EXCEPT !.pc = "update", !.spec = Edited(c, found.spec),
                              !.stale = FALSE])

\* Mutant: every command takes NotFound for the order to create.
GetAbsentCreates(c) ==
  /\ Waits(c, {"get"}) /\ Stored(client[c].key) = Absent
  /\ UNCHANGED store
  /\ Becomes(c, [client[c] EXCEPT !.pc = "create"])

\* NotFound is an error for every command but apply.
GetAbsent(c) ==
  /\ Waits(c, {"get"}) /\ Stored(client[c].key) = Absent
  /\ UNCHANGED store
  /\ Becomes(c, IF client[c].cmd = "apply"
                THEN [client[c] EXCEPT !.pc = "create"]
                ELSE Ended(c, TRUE))

-----------------------------------------------------------------------------
(* Writes: what the server does with them, and what the client hears. *)

Put(key, rollout) == store' = [store EXCEPT ![key] = rollout]

\* Create stores the manifest; the status it may have is dropped.
Creates(c) ==
  /\ client[c].pc = "create" /\ Stored(client[c].key) = Absent
  /\ Put(client[c].key, [spec |-> client[c].spec, status |-> NewStatus])

\* Mutant: the copy is put back without its resource version.
UpdatesAnyway(c) ==
  /\ client[c].pc = "update" /\ Stored(client[c].key) # Absent
  /\ Put(client[c].key, [store[client[c].key] EXCEPT !.spec = client[c].spec])

\* Update writes the spec; the status is a subresource that it cannot reach.
Updates(c) ==
  /\ client[c].pc = "update" /\ ~client[c].stale
  /\ Put(client[c].key, [store[client[c].key] EXCEPT !.spec = client[c].spec])

\* Delete needs no copy and no version.
Deletes(c) ==
  /\ client[c].pc = "delete" /\ Stored(client[c].key) # Absent
  /\ Put(client[c].key, Absent)

Writes(c) == Creates(c) \/ Updates(c) \/ Deletes(c)

\* The server carries the write out and says so.
Written(c) ==
  /\ ~client[c].cancelled
  /\ Writes(c)
  /\ Becomes(c, Ended(c, FALSE))

\* It does, but the answer is lost, or comes after Ctrl-C.
AnswerLost(c) == Writes(c) /\ Becomes(c, Ended(c, TRUE))

\* AlreadyExists, Conflict or NotFound: somebody else came first.
Beaten(c) ==
  \/ client[c].pc = "create" /\ Stored(client[c].key) # Absent
  \/ client[c].pc = "update" /\ client[c].stale
  \/ client[c].pc = "delete" /\ Stored(client[c].key) = Absent

\* Mutant: the error of a refused write is dropped.
RefusedQuietly(c) ==
  Beaten(c) /\ UNCHANGED store /\ Becomes(c, Ended(c, FALSE))

\* A refusal is an error; nothing is tried again.
Refused(c) ==
  Beaten(c) /\ UNCHANGED store /\ Becomes(c, Ended(c, TRUE))

\* A call does not reach the server, is denied or is cancelled.
CallFails(c) ==
  /\ client[c].pc \notin {"idle", "watch"}
  /\ UNCHANGED store
  /\ Becomes(c, Ended(c, TRUE))

-----------------------------------------------------------------------------

\* Ctrl-C cancels the context: a call in flight comes back with an error.
Interrupt(c) ==
  /\ client[c].pc # "idle" /\ ~client[c].cancelled
  /\ UNCHANGED store
  /\ Becomes(c, [client[c] EXCEPT !.cancelled = TRUE])

\* watch (whose screen is the subject of module Watch) ends in no other way.
WatchEnds(c) ==
  /\ client[c].pc = "watch" /\ client[c].cancelled
  /\ UNCHANGED store
  /\ Becomes(c, Ended(c, FALSE))

\* The controller's status update, itself one against the version it has read.
Report(key) ==
  /\ store[key] # Absent
  /\ \E status \in Statuses :
       Put(key, [store[key] EXCEPT !.status = status])
  /\ client' = [d \in Clients |->
       [client[d] EXCEPT
          !.stale = \/ @
                    \/ /\ client[d].pc = "update" /\ client[d].key = key
                       /\ store'[key] # store[key]]]

Step(c) ==
  \/ Run(c) \/ Listed(c) \/ GetFound(c) \/ GetAbsent(c)
  \/ Written(c) \/ AnswerLost(c) \/ Refused(c) \/ CallFails(c)
  \/ Interrupt(c) \/ WatchEnds(c)

Next == (\E c \in Clients : Step(c)) \/ (\E key \in Keys : Report(key))

Spec == Init /\ [][Next]_vars

-----------------------------------------------------------------------------
(* Properties. *)

\* A command acts on the rollout its line names, in the cluster and namespace
\* the line, the manifest and the environment select, wherever the flags stand
\* and however they are written; and a line that names one is not refused.
\* (splitArgs and parse.)
RightTarget == \A c \in Clients : client[c].key = client[c].meant

\* What a command that wrote is for.
Goal(cmd, rollout, spec) ==
  CASE cmd = "pause"  -> rollout # Absent /\ rollout.spec.paused
    [] cmd = "resume" -> /\ rollout # Absent
                         /\ ~rollout.spec.paused /\ ~rollout.spec.abort
    [] cmd = "abort"  -> rollout # Absent /\ rollout.spec.abort
    [] cmd = "apply"  -> rollout # Absent /\ rollout.spec = spec
    [] cmd = "delete" -> rollout = Absent
    [] OTHER          -> TRUE

\* Exit status 0 of a command that was not interrupted means that the rollout
\* the user named is as the command promises, at that moment.
\* (patchRollout, cmdApply, cmdDelete and the end of main.)
ExitMeansDone == [][
  \A c \in Clients :
    LET before == client[c] IN
    before.pc # "idle" /\ client'[c].exit = "ok" /\ ~before.cancelled
      => Goal(before.cmd, At(store', before.meant), before.spec)]_vars

\* Each rollout is one register: no command and no report undoes what another
\* one has stored meanwhile.  (The Update of patchRollout and cmdApply.)
Store(key) ==
  INSTANCE RolloutStore WITH
    rollout <- store[key],
    Manifests <- Applied

IsStore ==
  /\ \A key \in Keys : Store(key)!Init
  /\ [][\A key \in Keys : Store(key)!Next \/ UNCHANGED store[key]]_store

=============================================================================
