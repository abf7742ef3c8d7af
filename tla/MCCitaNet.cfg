SPECIFICATION Spec
CONSTANTS
  Endpoints <- MCEndpoints
  Traveller = a1
  Others = {a2, a3}
  RequestIDs = {r1, r2}
  Cut = cut
  MaxHandled = 4
SYMMETRY Symmetry
INVARIANTS
  TypeOK
  RegistryFollowsRequests
  EveryoneLearnsOfNewcomers
  AnswersFollowRequests
  AwaitingIsUnacknowledged
  LoneClientIsSafe
  NeverMoreThanTwo
CHECK_DEADLOCK FALSE
