SPECIFICATION Spec
CONSTANTS
  a = a
  b = b
  c = c
  p = p
  q = q
  i1 = i1
  i2 = i2
  i3 = i3
  i4 = i4
  Runs = {a, b, c}
  Procs = {p, q}
  ProcOf <- TwoProcesses
  Reusers = {b, c}
  Policy <- Refreshing
  StartupAttempts = 2
  Ids = {i1, i2, i3}
  Faults = {"prune", "unserved"}
  NoId = NoId
  NoRun = NoRun
CHECK_DEADLOCK FALSE
SYMMETRY Symmetry
INVARIANTS TypeOK NoLeak PolicyHonoured
PROPERTY RemovedByItsOwner
