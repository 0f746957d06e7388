SPECIFICATION FairSpec
CONSTANTS
  r1 = r1
  r2 = r2
  o1 = o1
  Malformed = Malformed
  Requests = {r1, r2}
  Ids = {o1}
  Config <- SpikeAndRamp
  Attempts = 2
  MaxTime = 2
  MaxRestarts = 1
INVARIANTS PoolOpen DeletedOnce CountedAsAnswered
PROPERTIES IsCanary Settles
CHECK_DEADLOCK FALSE
