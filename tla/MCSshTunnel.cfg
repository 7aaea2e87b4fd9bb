SPECIFICATION FairSpec
CONSTANTS
  c1 = c1
  c2 = c2
  Conns = {c1, c2}
  Obliging = {c1}
  Ports = {8080}
  Units <- LongAndShort
  Cap = 1
  Window = 1
  Faults = {"conn", "fatal", "refused", "denied"}
CHECK_DEADLOCK FALSE
INVARIANTS TypeOK WholeStreams SessionExclusive
PROPERTIES Isolated DestructorReturns
