SPECIFICATION FairSpec
CONSTANTS
  MaxInput = 5
  Flushes = FALSE
  Window = 1
  Faults = {"stop", "throw", "exit", "zero"}
  Runs = {1, 2}
  Endless = {2}
  MaxIn = 1
  MaxOut = 2
  Room = 1
CHECK_DEADLOCK FALSE
INVARIANTS TypeOK Contract
PROPERTIES ExpirySteps Returns EchoComplete
