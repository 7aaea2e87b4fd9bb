SPECIFICATION Spec
CONSTANTS
  t1 = t1
  t2 = t2
  r1 = r1
  r2 = r2
  Threads = {t1}
  Endpoints = {"tcp"}
  Env = "tcp"
  WindowsEngines = {}
  Session = "session"
  Projects = {"projA", "projB"}
  Ryuks = {r1}
  MaxTries = 2
  Faults = {"slow"}
  MaxLate = 1
  Absent = Absent
  Skipped = Skipped
  NoThread = NoThread
CHECK_DEADLOCK FALSE
INVARIANT FiltersAcknowledged
