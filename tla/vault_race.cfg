SPECIFICATION Spec
CONSTANTS
  j1 = j1
  k1 = k1
  k2 = k2
  f1 = f1
  f2 = f2
  h1 = h1
  h2 = h2
  Conns = {k1, k2}
  Configs = {f1, f2}
  Jobs = {j1}
  Handlers = {h1, h2}
  Absent = Absent
  MaxSaved = 1
  MaxVersions = 3
  MaxFaults = 2
INVARIANTS
  NoDanglingJob
