SPECIFICATION FairSpec
CONSTANTS
  m1 = m1
  m2 = m2
  Metrics = {m1}
  Plans <- LivePlans
  MaxAge = 1
  NotFound = NotFound
  ReadinessTimeout = 0
  MaxLag = 1
  Faults = {"vs", "status", "prom", "pods", "crash"}
  UserOps = {"pause", "abort"}
PROPERTIES AppliedBeforeReported AbortHonoured RolloutEnds UnreadyFails
