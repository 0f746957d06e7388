---------------------------- MODULE MCReconciler ----------------------------
(***************************************************************************)
(* Instances of Reconciler for TLC: the plans its users apply.  A tick is  *)
(* shorter than every pause and than the readiness timeout, so ages 0, 1   *)
(* and 2 tell "running", "just elapsed" and "long elapsed" apart.          *)
(***************************************************************************)
EXTENDS Reconciler

CONSTANTS m1, m2

Step(weight, pause) == [weight |-> weight, pause |-> pause]

Plan(steps, metrics, prom) ==
  [steps |-> steps, metrics |-> metrics, prom |-> prom]

\* Two gated steps, two metrics.
Gated == Plan(<<Step(50, 1), Step(100, 1)>>, <<m1, m2>>, TRUE)

\* The same with one metric.
Gated1 == Plan(<<Step(50, 1), Step(100, 1)>>, <<m1>>, TRUE)

\* One metric, and a last step that is not held: its gate is skipped.
GatedOnce == Plan(<<Step(50, 1), Step(100, 0)>>, <<m1>>, TRUE)

\* The timer alone; the last step is not held.
Timed == Plan(<<Step(50, 1), Step(100, 0)>>, <<>>, FALSE)

\* Fewer steps, another weight, no analysis.
Shorter == Plan(<<Step(20, 1)>>, <<>>, FALSE)

GatedPlans == {Gated}
Gated1Plans == {Gated1}
TimedPlans == {Timed}
LivePlans == {GatedOnce}
EditedPlans == {Gated1, Shorter}

=============================================================================
