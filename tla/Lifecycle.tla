----------------------------- MODULE Lifecycle -----------------------------
(***************************************************************************)
(* The life of one rollout as its users see it: the two flags they set and *)
(* the phase and step they read.  It has no traffic, no pods, no clock and *)
(* no cache: every change happens to the stored rollout at once.  That     *)
(* Reconciler implements it says that reconciles of outdated copies,       *)
(* refused updates and restarts never show in the phases.                  *)
(*                                                                         *)
(* Running and Failed are both phases of a rollout at work: a Failed one   *)
(* is not over, but goes on as soon as its pods are ready.                 *)
(***************************************************************************)
EXTENDS Integers

CONSTANT None       \* there is no rollout

VARIABLE life       \* [phase, step, paused, abort] or None

Life(phase, step, paused, abort) ==
  [phase |-> phase, step |-> step, paused |-> paused, abort |-> abort]

Created(paused, abort) == Life("", 0, paused, abort)

Init == life = Created(FALSE, FALSE)

-----------------------------------------------------------------------------
(* The users. *)

Create(paused, abort) == life = None /\ life' = Created(paused, abort)

Delete == life # None /\ life' = None

Edit(paused, abort) ==
  /\ life # None
  /\ life' = Life(life.phase, life.step, paused, abort)

-----------------------------------------------------------------------------
(* The controller. *)

Over == life.phase \in {"Promoted", "Aborted"}

\* Nothing asks the rollout to stand still.
Free == life # None /\ ~Over /\ ~life.paused /\ ~life.abort

Working == Free /\ life.phase \in {"Running", "Failed"}

Becomes(phase, step) == life' = Life(phase, step, life.paused, life.abort)

Begin == Free /\ life.phase \in {"", "Pending"} /\ Becomes("Running", 0)

Pause ==
  /\ life # None /\ ~Over
  /\ life.paused /\ ~life.abort
  /\ Becomes("Paused", life.step)

Resume == Free /\ life.phase = "Paused" /\ Becomes("Running", life.step)

\* A step's weight is applied; a failed rollout recovers.
Work == Working /\ Becomes("Running", life.step)

Advance == Working /\ Becomes("Running", life.step + 1)

\* After the last step, or because the steps became fewer.
Promote ==
  Working /\ \E step \in {life.step, life.step + 1} : Becomes("Promoted", step)

Fail == Working /\ Becomes("Failed", life.step)

\* On request, also after the promotion, or because the analysis says so.
Abort ==
  /\ life # None /\ life.phase # "Aborted"
  /\ life.abort \/ Working
  /\ Becomes("Aborted", life.step)

Users ==
  \/ Delete
  \/ \E paused, abort \in BOOLEAN : Create(paused, abort) \/ Edit(paused, abort)

Controller ==
  Begin \/ Pause \/ Resume \/ Work \/ Advance \/ Promote \/ Fail \/ Abort

Next == Users \/ Controller

Spec == Init /\ [][Next]_life

=============================================================================
