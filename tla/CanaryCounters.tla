--------------------------- MODULE CanaryCounters ---------------------------
(***************************************************************************)
(* What the analyser needs of the service under rollout: two cumulative    *)
(* counters, of requests and of failed requests among them, that grow      *)
(* together or go back to zero together.  SPRT's canary has these two      *)
(* actions for each metric; DemoApp implements them.                       *)
(***************************************************************************)
EXTENDS Naturals

VARIABLES total, failures

Init == total = 0 /\ failures = 0

\* A request is counted, as a failure if it is one.
Request ==
  /\ total' = total + 1
  /\ failures' \in {failures, failures + 1}

\* The process starts again.
Restart == total' = 0 /\ failures' = 0

Spec == Init /\ [][Request \/ Restart]_<<total, failures>>

=============================================================================
