SPECIFICATION Spec
CONSTANTS
  Clients = {c1, c2}
  Handles = {s1, s2}
  InvalidSocket = InvalidSocket
  Sender = Sender
  NoThread = NoThread
  Window = 1
  MaxHosts = 2
  BufMessages = 2
  MaxMessages <- Messages
  Talker = c1
  TalkerMessages = 2
  OtherMessages = 1
  Leavers = {}
SYMMETRY Symmetry
INVARIANTS
  TypeOK
  MutexDiscipline
  BufferIsUnflushedTail
  ClientOrder
  StreamIsContiguous
  HostsAreCurrent
PROPERTIES
  CloseLosesOnlyUnread
  ImplementsQueue
CHECK_DEADLOCK FALSE
