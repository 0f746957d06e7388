SPECIFICATION Spec
CONSTANTS
  m1 = m1
  m2 = m2
  Metrics = {m1}
  Plans <- TimedPlans
  MaxAge = 2
  NotFound = NotFound
  ReadinessTimeout = 1
  MaxLag = 1
  Faults = {}
  UserOps = {"abort", "resume"}
INVARIANTS SettledWeightIsTraffic
