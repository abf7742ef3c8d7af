SPECIFICATION Spec
CONSTANTS
  Server = server
  Client = client
  Capacity = 1
  MaxLaunches <- Launches
  ServerLaunches = 2
  ClientLaunches = 1
  MaxFailures = 1
  Leavers = {server, client}
INVARIANTS
  TypeOK
  ThreadDiscipline
CHECK_DEADLOCK FALSE
