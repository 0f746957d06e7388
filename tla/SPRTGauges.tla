----------------------------- MODULE SPRTGauges -----------------------------
(***************************************************************************)
(* SPRT with the series that internal/controller/metrics.go exports of it: *)
(* statgate_sprt_observations, published while a cycle walks over the      *)
(* metrics, before anybody knows whether its result will be stored.        *)
(***************************************************************************)
EXTENDS SPRT

VARIABLES
  exported,   \* statgate_sprt_observations, -1 where it has no series
  began       \* (history) the canary's counters when the current step began

gvars == <<vars, exported, began>>

NoSeries == [m \in Metrics |-> -1]

GInit == Init /\ exported = NoSeries /\ began = total

\* recordSPRTMetricState, for every metric the cycle has tested.
Publish ==
  \E rate \in Rates :
    /\ ObserveFinite(rate) \/ ObserveInfinite(rate)
    /\ exported' = [exported EXCEPT ![Current] = cycle'.slice[Current].obs]
    /\ UNCHANGED began

\* resetSPRTMetricSeries for the metrics of the spec.
DropSeries ==
  exported' = [m \in Metrics |->
                 IF \E i \in DOMAIN List : List[i] = m THEN -1
                 ELSE exported[m]]

\* The series are dropped before the update that may not succeed.
GAdvance ==
  /\ \/ AdvanceStep /\ began' = total
     \/ Promotable /\ Lose /\ UNCHANGED began
  /\ DropSeries

\* The registry of the new process is empty.
GControllerRestart ==
  ControllerRestart /\ exported' = NoSeries /\ UNCHANGED began

GRestart == Restart /\ began' = total' /\ UNCHANGED exported

\* What publishes nothing.
Silent ==
  /\ \/ \E m \in Metrics, fails \in BOOLEAN : Request(m, fails)
     \/ StartCycle \/ KeepDecided
     \/ QueryTotal \/ QueryFails \/ SkipMetric \/ ResetMetric
     \/ Persist \/ Lose
  /\ UNCHANGED <<exported, began>>

GNext == Publish \/ GAdvance \/ GControllerRestart \/ GRestart \/ Silent

GSpec == GInit /\ [][GNext]_gvars

\* The exported number of observations counts requests of the current step, as
\* long as the canary was not restarted.
\* (metrics.go: "... (since the current step started)".)
ObservedInStep ==
  restarts = 0 => \A m \in Metrics : exported[m] <= total[m] - began[m]

=============================================================================
