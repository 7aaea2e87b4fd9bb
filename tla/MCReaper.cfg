SPECIFICATION FairSpec
CONSTANTS
  t1 = t1
  t2 = t2
  r1 = r1
  r2 = r2
  Threads = {t1, t2}
  Endpoints = {"tcp", "npipe"}
  Env = "tcp"
  WindowsEngines = {"npipe"}
  Session = "session"
  Projects = {"projA"}
  Ryuks = {r1, r2}
  MaxTries = 2
  Faults = {"garble"}
  MaxLate = 1
  Absent = Absent
  Skipped = Skipped
  NoThread = NoThread
CHECK_DEADLOCK FALSE
INVARIANTS TypeOK Watched FiltersAcknowledged OrphanKnowsNothing
PROPERTY CrashSafe
