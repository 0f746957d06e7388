SPECIFICATION Spec
CONSTANTS
  m1 = m1
  m2 = m2
  Metrics = {m1, m2}
  Plans <- GatedPlans
  MaxAge = 2
  NotFound = NotFound
  ReadinessTimeout = 1
  MaxLag = 1
  Faults = {"vs", "status", "prom", "crash", "pods"}
  UserOps = {"pause", "resume", "abort"}
INVARIANTS TypeOK RollbackPersisted ExposureBounded WeightInForce
PROPERTIES StepEarned TerminalPhases UserAbortComplete FollowsAnalyser
