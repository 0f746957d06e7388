--------------------------- MODULE AnalysisState ---------------------------
(***************************************************************************)
(* What status.analysisState decides: the verdicts of several metrics and  *)
(* how one cycle of RunSPRT (internal/controller/metrics_analyzer.go)      *)
(* combines them.                                                          *)
(*                                                                         *)
(* A slice is a function from metric to decision with "none" where the     *)
(* slice has no entry.  `list' is spec.analysis.metrics: its order matters *)
(* because the cycle stops at the first rollback.                          *)
(***************************************************************************)
EXTENDS Integers, Sequences

CONSTANT Metrics    \* the names of the metrics that may be analysed

Decisions == {"none", "pending", "promote", "rollback"}

NoAnalysis == [m \in Metrics |-> "none"]

\* What one cycle of the test may say of each metric still open.
Outcomes == [Metrics -> {"pending", "promote", "rollback"}]

\* The gate's loop over status.analysisState: not empty and every entry decided
\* "promote".
AllPromote(analysis) ==
  /\ \E m \in Metrics : analysis[m] # "none"
  /\ \A m \in Metrics : analysis[m] \in {"none", "promote"}

HasRollback(analysis) == \E m \in Metrics : analysis[m] = "rollback"

Decided(d) == d \in {"promote", "rollback"}

\* The decision of one metric after the cycle: a terminal one is kept, another
\* becomes what the test `outcome' says.
NextDecision(old, outcome) == IF Decided(old) THEN old ELSE outcome

\* The positions of the list at which the cycle stops: a metric that was still
\* open crosses the upper bound.
RollbackAt(list, old, outcome) ==
  {i \in DOMAIN list : ~Decided(old[list[i]]) /\ outcome[list[i]] = "rollback"}

\* Mutant: a rollback needs every metric.
RollsBackTogether(list, old, outcome) ==
  RollbackAt(list, old, outcome) = DOMAIN list

RollsBack(list, old, outcome) == RollbackAt(list, old, outcome) # {}

\* The returned slice: it lists the metrics of the spec only, and ends with the
\* first one that rolls back.
UpdatedState(list, old, outcome) ==
  [m \in Metrics |->
     IF \E i \in DOMAIN list :
          /\ list[i] = m
          /\ \A j \in RollbackAt(list, old, outcome) : i <= j
     THEN NextDecision(old[m], outcome[m])
     ELSE "none"]

=============================================================================
