--------------------------- MODULE CanaryRollout ---------------------------
(***************************************************************************)
(* The CanaryRollout custom resource (api/v1alpha1/types.go) and the pure  *)
(* parts of the reconcile loop: what a copy of the resource says about     *)
(* itself and how a reconcile edits the copy it holds.                     *)
(*                                                                         *)
(* A rollout is one flat record: the spec fields a user edits (plan,       *)
(* paused, abort) and the status fields the controller writes.  `plan'     *)
(* stands for the part of the spec that never changes but by a full        *)
(* apply: the steps, the analysed metrics (<<>> when spec.analysis is nil, *)
(* whose Metrics list has MinItems 1) and whether prometheusURL is set.    *)
(*                                                                         *)
(* status.lastTransitionTime is kept as `age', the time elapsed since it,  *)
(* saturating at MaxAge.  A status.analysisState slice is a function from  *)
(* metric to decision with "none" where the slice has no entry; the        *)
(* likelihood ratios behind the decisions are the subject of module SPRT.  *)
(***************************************************************************)
EXTENDS AnalysisState

CONSTANTS
  Plans,      \* the specs a user may apply
  MaxAge,     \* ages saturate here: past every timer of the instance
  NotFound    \* what reading an absent rollout returns

Phases == {"", "Pending", "Running", "Paused", "Promoted", "Aborted", "Failed"}

\* A step of spec.steps: neither field is range-checked by the CRD.
CanaryStep == [weight : Int, pause : Int]

PlanType == [steps : Seq(CanaryStep), metrics : Seq(Metrics), prom : BOOLEAN]

Rollout == [plan : Plans, paused : BOOLEAN, abort : BOOLEAN,
            phase : Phases, step : Nat, weight : Int, age : 0..MaxAge,
            analysis : [Metrics -> Decisions]]

MaybeRollout == Rollout \cup {NotFound}

ASSUME PlansAssumption ==
  /\ Plans \subseteq PlanType
  /\ \A p \in Plans : p.steps # <<>>

ASSUME MaxAgeAssumption == MaxAge \in Nat

ASSUME NotFoundAssumption == NotFound \notin Rollout

-----------------------------------------------------------------------------

\* A rollout that was just created: the zero status, whose zero timestamp is
\* older than every timeout.
NewRollout(plan, paused, abort) ==
  [plan |-> plan, paused |-> paused, abort |-> abort,
   phase |-> "", step |-> 0, weight |-> 0, age |-> MaxAge,
   analysis |-> NoAnalysis]

\* One unit of time passes for a copy of the rollout.
Aged(v) ==
  IF v = NotFound THEN v
  ELSE [v EXCEPT !.age = IF v.age < MaxAge THEN v.age + 1 ELSE v.age]

\* setStatus up to its Update: the in-memory copy gets the new phase, step and
\* weight, and a fresh transition time.
SetStatus(cr, phase, step, weight) ==
  [cr EXCEPT !.phase = phase, !.step = step, !.weight = weight, !.age = 0]

-----------------------------------------------------------------------------
(* The conditions Reconcile tests, in its order. *)

\* Mutants: each early return dropped.
TerminalOnPromotion(cr) == cr.phase = "Promoted" /\ ~cr.abort
TerminalOnAbort(cr) == cr.phase = "Aborted"

\* Nothing is left to do: the two early returns on terminal phases.
Terminal(cr) ==
  \/ cr.phase = "Aborted"
  \/ cr.phase = "Promoted" /\ ~cr.abort

MustAbort(cr) == ~Terminal(cr) /\ cr.abort

\* Mutant: the pause is looked at before the terminal phases.
MustPauseAnyway(cr) == ~cr.abort /\ cr.paused

MustPause(cr) == ~Terminal(cr) /\ ~cr.abort /\ cr.paused

\* The rollout is past abort and pause and walks along its steps.
Advancing(cr) ==
  /\ ~Terminal(cr) /\ ~cr.abort /\ ~cr.paused
  /\ cr.phase \notin {"Paused", "", "Pending"}

InSteps(cr) == Advancing(cr) /\ cr.step < Len(cr.plan.steps)

\* spec.steps is indexed from 0.
CurrentStep(cr) == cr.plan.steps[cr.step + 1]

HasAnalysis(plan) == plan.metrics # <<>>

AnalysisRuns(plan) == plan.prom /\ HasAnalysis(plan)

\* Mutant: the gate waits for the absence of a rollback, not for a promotion.
GateNotRefused(cr) == \A m \in Metrics : cr.analysis[m] # "rollback"

\* The SPRT gate lets the rollout leave its step.
GateOpen(cr) ==
  CurrentStep(cr).pause > 0 /\ HasAnalysis(cr.plan) => AllPromote(cr.analysis)

=============================================================================
