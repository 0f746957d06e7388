---------------------------- MODULE RolloutStore ----------------------------
(***************************************************************************)
(* What the CanaryRollout in the API server is to everybody who uses it:   *)
(* one register that each writer changes in one atomic step, and each only *)
(* in its own part.  Users create it, apply a manifest over the spec, set  *)
(* paused and abort one at a time, and delete it; the controller writes    *)
(* the status and nothing else.                                            *)
(*                                                                         *)
(* Every writer of the program is a read followed by a write; that nobody  *)
(* puts back what another one changed in between is what implementing this *)
(* module means.  Statctl does it for the commands, Reconciler for the     *)
(* controller.                                                             *)
(***************************************************************************)

CONSTANTS
  Absent,     \* no such rollout
  Manifests,  \* the specs users apply: [plan, paused, abort]
  Statuses,   \* what the controller reports
  NewStatus   \* the zero status of a new rollout

VARIABLE rollout   \* Absent, or [spec, status]

Exists == rollout # Absent

Init ==
  \/ rollout = Absent
  \/ \E spec \in Manifests : rollout = [spec |-> spec, status |-> NewStatus]

Create(spec) ==
  ~Exists /\ rollout' = [spec |-> spec, status |-> NewStatus]

Apply(spec) == Exists /\ rollout' = [rollout EXCEPT !.spec = spec]

Pause == Exists /\ rollout' = [rollout EXCEPT !.spec.paused = TRUE]

Resume ==
  Exists /\ rollout' = [rollout EXCEPT !.spec.paused = FALSE,
                                       !.spec.abort = FALSE]

Abort == Exists /\ rollout' = [rollout EXCEPT !.spec.abort = TRUE]

Delete == Exists /\ rollout' = Absent

WriteStatus(status) == Exists /\ rollout' = [rollout EXCEPT !.status = status]

Next ==
  \/ \E spec \in Manifests : Create(spec) \/ Apply(spec)
  \/ Pause \/ Resume \/ Abort \/ Delete
  \/ \E status \in Statuses : WriteStatus(status)

Spec == Init /\ [][Next]_rollout

=============================================================================
