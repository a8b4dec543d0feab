SPECIFICATION Spec
CONSTANTS
  Pushes = {"yes", "no"}
  MaxRequests = 3
  Environments <- Both
  CanFail = TRUE
INVARIANTS
  StartsAgain
  AuthorizationSurvives
  NothingLost
PROPERTY
  SwitchTakesEffect
CHECK_DEADLOCK FALSE
