SPECIFICATION Spec
CONSTANTS
  Clients = {c1, c2, c3}
  Handles = {s1, s2}
  InvalidSocket = InvalidSocket
  Sender = Sender
  NoThread = NoThread
  Window = 1
  MaxHosts = 2
  BufMessages = 1
  MaxMessages <- Messages
  Talker = c1
  TalkerMessages = 1
  OtherMessages = 0
  Leavers = {c1, c2, c3}
SYMMETRY Symmetry
INVARIANTS
  EveryConnectionHasASlot
  HostsAreCurrent
CHECK_DEADLOCK FALSE
