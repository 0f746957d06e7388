SPECIFICATION Spec
CONSTANTS
  stable = stable
  canary = canary
  mirror = mirror
  Writers = {w1, w2}
  Hosts = {stable, canary, mirror}
  Stable = stable
  Canary = canary
  Targets = {0, 50, 100}
  Docs <- MCDocs
  Absent = Absent
  NoRoute = NoRoute
  NoSplit = NoSplit
PROPERTIES RestKept IsRegister
