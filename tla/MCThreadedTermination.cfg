SPECIFICATION FairSpec
CONSTANTS
  Clients = {c1}
  Handles = {s1}
  InvalidSocket = InvalidSocket
  Sender = Sender
  NoThread = NoThread
  Window = 1
  MaxHosts = 1
  BufMessages = 1
  MaxMessages <- Messages
  Talker = c1
  TalkerMessages = 1
  OtherMessages = 1
  Leavers = {c1}
PROPERTY ClientSeesTermination
CHECK_DEADLOCK FALSE
