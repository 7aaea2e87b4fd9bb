SPECIFICATION Spec
CONSTANTS
  Chains <- MCChains
  Timeouts = {0, 2, 99}
  Poll = 1
  Io = 1
  ProbeCap = 4
  MaxTime = 8
  MaxLog = 2
CHECK_DEADLOCK FALSE
INVARIANT LoggedIsFound
