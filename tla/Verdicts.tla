------------------------------ MODULE Verdicts ------------------------------
(***************************************************************************)
(* What the analyser promises the reconcile loop, and all the loop may     *)
(* assume: the stored verdicts change one whole cycle at a time, a step is *)
(* left when all of them promote, and nothing follows a rollback.          *)
(*                                                                         *)
(* SPRT implements this module with queries, counters and evidence;        *)
(* Reconciler implements it with the traffic and the phases around it.     *)
(* That both do is what makes the verdicts that Reconciler takes from thin *)
(* air those of SPRT.  It speaks of one list of metrics and of steps that  *)
(* are held (pauseSeconds > 0), where the gate applies.                    *)
(***************************************************************************)
EXTENDS AnalysisState

CONSTANT List       \* spec.analysis.metrics

VARIABLE decision   \* the decisions of status.analysisState

Init == decision = NoAnalysis

\* A cycle's result is stored.
Cycle(outcome) ==
  /\ ~HasRollback(decision)
  /\ decision' = UpdatedState(List, decision, outcome)

\* The cycle lets the step end, which forgets its verdicts.
Advance(outcome) ==
  /\ AllPromote(UpdatedState(List, decision, outcome))
  /\ decision' = NoAnalysis

\* A cycle that changes no decision is a stuttering step.
Next ==
  /\ decision' # decision
  /\ \E outcome \in Outcomes : Cycle(outcome) \/ Advance(outcome)

Spec == Init /\ [][Next]_decision

=============================================================================
