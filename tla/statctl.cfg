SPECIFICATION Spec
CONSTANTS
  prod = prod
  a = a
  b = b
  file1 = file1
  file2 = file2
  bad = bad
  config = config
  one = one
  c1 = c1
  plan1 = plan1
  plan2 = plan2
  e1 = e1
  e2 = e2
  None = None
  Absent = Absent
  Words <- SomeWords
  Numbers = {one}
  Lines <- SomeLines
  Files <- SomeFiles
  Kubeconfigs <- Configs
  EnvConfig = None
  HomeConfig = config
  Clients = {e1, e2}
  Keys <- SomeKeys
  Plans = {plan1, plan2}
  Statuses = {1, 2}
  NewStatus = 1
SYMMETRY Symmetry
INVARIANTS TypeOK RightTarget
PROPERTIES ExitMeansDone IsStore
