SPECIFICATION Spec
CONSTANTS
  m1 = m1
  m2 = m2
  Metrics = {m1}
  Plans <- EditedPlans
  MaxAge = 1
  NotFound = NotFound
  ReadinessTimeout = 1
  MaxLag = 1
  Faults = {"crash"}
  UserOps = {"apply", "delete"}
INVARIANTS AbortedMeansStable
PROPERTIES PauseHonoured StepEarned IsLifecycle SharesStore
