------------------------------ MODULE MCWatch ------------------------------
(***************************************************************************)
(* Watch for TLC: a plan with analysis, the same with tighter bounds and   *)
(* one without analysis and with fewer steps, so that dashboards grow,     *)
(* shrink and change their bounds; ratios below, at, between and above     *)
(* both pairs of bounds.                                                   *)
(***************************************************************************)
EXTENDS Watch

CONSTANT m1

Plan(steps, metrics, lower, upper) ==
  [steps |-> steps, metrics |-> metrics, prom |-> TRUE,
   lower |-> lower, upper |-> upper]

ErrorRate == [name |-> m1, delta |-> 5]

Wide == Plan(<<[weight |-> 50], [weight |-> 100]>>, <<ErrorRate>>, -29, 43)
Tight == Plan(<<[weight |-> 50], [weight |-> 100]>>, <<ErrorRate>>, -7, 7)
Short == Plan(<<[weight |-> 20]>>, <<>>, 0, 0)

SomeManifests ==
  {[plan |-> p, paused |-> FALSE, abort |-> FALSE] : p \in {Wide, Tight, Short}}

Status(phase, step, message, entry) ==
  [phase |-> phase, step |-> step, weight |-> 50, message |-> message,
   analysis |-> [m \in {m1} |-> entry]]

Zeros == Status("", 0, "", Absent)

Entry(llr, plan) ==
  [llr |-> llr, obs |-> 100, failed |-> 3, baseline |-> 97,
   decision |-> Verdict(llr, plan)]

Ratios == {-60, -29, -8, -1, 0, 7, 43, 60}

SomeStatuses ==
  {Zeros, Status("Pending", 0, "waiting", Absent),
   Status("Promoted", 2, "done", Absent)}
  \cup {Status("Running", 0, "step", Entry(llr, Wide)) : llr \in Ratios}
  \cup {Status("Aborted", 1, "rollback", Entry(llr, Tight)) : llr \in {7}}
=============================================================================
