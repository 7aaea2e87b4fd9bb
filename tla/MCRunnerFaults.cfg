SPECIFICATION FairSpec
CONSTANTS
  a = a
  b = b
  c = c
  p = p
  q = q
  i1 = i1
  i2 = i2
  i3 = i3
  i4 = i4
  Runs = {a, b}
  Procs = {p}
  ProcOf <- OneProcess
  Reusers = {b}
  Policy <- Defaults
  StartupAttempts = 2
  Ids = {i1, i2, i3}
  Faults = {"rm", "lost"}
  NoId = NoId
  NoRun = NoRun
CHECK_DEADLOCK FALSE
PROPERTIES RunEnds Swept
