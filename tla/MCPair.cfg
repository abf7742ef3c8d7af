SPECIFICATION Spec
CONSTANTS
  Clients = {b1, b2, p1}
  Polling = {p1}
  None = None
  Capacity = 2
  MaxLine = 2
INVARIANTS
  TypeOK
  MutualWaitOnlyOnEmptyLine
PROPERTIES
  DepartureIsNoticed
  SpokenIsHeard
  NobodyIsLeftWaiting
CHECK_DEADLOCK FALSE
