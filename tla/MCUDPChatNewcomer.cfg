SPECIFICATION Spec
CONSTANTS
  Ports = {p1, p2}
  Reset = Reset
  Buffer = 2
  MaxDatagrams <- Datagrams
  Talker = p1
  TalkerDatagrams = 2
  OtherDatagrams = 2
INVARIANT OnlyOthersAreTold
CHECK_DEADLOCK FALSE
