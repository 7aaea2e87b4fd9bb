SPECIFICATION FairSpec
CONSTANTS
  MaxInput = 5
  Flushes = TRUE
  Window = 1
  Faults = {}
CHECK_DEADLOCK FALSE
PROPERTY EchoComplete
