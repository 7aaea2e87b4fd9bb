SPECIFICATION Spec
CONSTANTS
  a = a
  b = b
  c = c
  p = p
  q = q
  i1 = i1
  i2 = i2
  i3 = i3
  i4 = i4
  Runs = {b, c}
  Procs = {p, q}
  ProcOf <- ReuseOnly
  Reusers = {b, c}
  Policy <- Defaults
  StartupAttempts = 1
  Ids = {i1, i2}
  Faults = {}
  NoId = NoId
  NoRun = NoRun
CHECK_DEADLOCK FALSE
PROPERTY ReusedStays
