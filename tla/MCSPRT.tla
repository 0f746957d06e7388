------------------------------- MODULE MCSPRT -------------------------------
(***************************************************************************)
(* SPRT with a tolerant metric that needs two requests and a strict one    *)
(* that needs one; with a low and a high baseline (a failure weighs more   *)
(* against the low one, a success more against the high one) and with a    *)
(* stable that always fails.                                               *)
(***************************************************************************)
EXTENDS SPRT

CONSTANTS m1, m2, low, high, one

TwoMetrics == <<m1, m2>>

Base == [r \in Rates |-> IF r = low THEN <<3, -1>> ELSE <<1, -2>>]

RateGain == [p \in Metrics \X Rates |->
               IF p[1] = m1 THEN Base[p[2]][1] ELSE Base[p[2]][1] + 1]

RateLoss == [p \in Metrics \X Rates |->
               IF p[1] = m1 THEN Base[p[2]][2] ELSE Base[p[2]][2] - 1]

Requests == [m \in Metrics |-> IF m = m1 THEN 2 ELSE 1]

OneMetric == <<m1>>
ManyRequests == [m \in Metrics |-> 5]

MinusTwo == -2
=============================================================================
