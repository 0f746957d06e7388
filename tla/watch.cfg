SPECIFICATION FairSpec
CONSTANTS
  m1 = m1
  Absent = Absent
  Metrics = {m1}
  Manifests <- SomeManifests
  Statuses <- SomeStatuses
  NewStatus <- Zeros
INVARIANTS BarTellsVerdict
PROPERTIES Fresh
