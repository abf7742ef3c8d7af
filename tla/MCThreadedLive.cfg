SPECIFICATION FairSpec
CONSTANTS
  Clients = {c1, c2}
  Handles = {s1}
  InvalidSocket = InvalidSocket
  Sender = Sender
  NoThread = NoThread
  Window = 1
  MaxHosts = 2
  BufMessages = 2
  MaxMessages <- Messages
  Talker = c1
  TalkerMessages = 1
  OtherMessages = 1
  Leavers = {c2}
PROPERTIES
  AppendedIsFlushed
  DepartedClientIsReaped
CHECK_DEADLOCK FALSE
