SPECIFICATION Spec
CONSTANTS
  Server = Server
  Client = Client
  Nothing = Nothing
  Reckoned = Reckoned
  Budgets <- SmallBudgets
INVARIANTS
  TypeOK
  LastPositionIsShown
  SessionHolds
PROPERTIES
  PeersAgree
CHECK_DEADLOCK FALSE
