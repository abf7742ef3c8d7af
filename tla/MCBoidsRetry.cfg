SPECIFICATION FairSpec
CONSTANTS
  Server = server
  Client = client
  Capacity = 1
  MaxLaunches <- Launches
  ServerLaunches = 1
  ClientLaunches = 1
  MaxFailures = 1
  Leavers = {client}
PROPERTY RetrySucceeds
CHECK_DEADLOCK FALSE
