SPECIFICATION Spec
CONSTANTS
  m1 = m1
  m2 = m2
  Metrics = {m1}
  Plans <- Gated1Plans
  MaxAge = 2
  NotFound = NotFound
  ReadinessTimeout = 1
  MaxLag = 1
  Faults = {"vs"}
  UserOps = {}
INVARIANTS AbortedMeansStable
