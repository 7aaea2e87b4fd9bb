SPECIFICATION ResourcesSpec
CONSTANTS
  Slots = {h1, h2}
  Threads = {t1, t2}
  Void = Void
  c1 = c1
  c2 = c2
  x = x
  n1 = n1
  n2 = n2
  d1 = d1
  d2 = d2
  p1 = p1
  p2 = p2
  NoContainer = NoContainer
  Bridge = Bridge
  NoOne = NoOne
  None = None
  Started <- MCStarted
  Adopted <- MCAdopted
  Faults = {"rm"}
  Names = {"x"}
  Configs = {1, 2}
  MaxIds = 2
  Daemons = {d1, d2}
  Nets = {n1, n2}
  DaemonOf <- MCDaemonOf
  NameOf <- MCNameOf
  Ports = {p1, p2}
  Requests <- MCRequests
  MaxSidecars = 2
  Projects = {"p", "q"}
  Services = {"a", "b"}
  Targets = {"a", "b"}
  StackNets = {"n", "m"}
  Placements <- MCPlacements
  MaxRelays = 2
  MaxFaults = 1
  Modules <- MCModules
  MaxSets = 3
  MaxStarts = 2
  Chains <- MCChains
  Timeouts = {0, 2, 99}
  Poll = 1
  Io = 1
  ProbeCap = 4
  MaxTime = 8
  MaxLog = 2
CHECK_DEADLOCK FALSE
INVARIANTS Types OwnedOnce PassedWasMet OneBudget NothingStrays StackStaysWhole HandleTrue ServerReady
PROPERTIES OwnerSteps
