SPECIFICATION FairSpec
CONSTANTS
  Server = server
  Client = client
  Capacity = 1
  MaxLaunches <- Launches
  ServerLaunches = 1
  ClientLaunches = 2
  MaxFailures = 0
  Leavers = {client}
PROPERTY FlocksAreShown
CHECK_DEADLOCK FALSE
