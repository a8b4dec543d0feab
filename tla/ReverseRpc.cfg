SPECIFICATION Spec
CONSTANTS
  Calls = {a, b}
  MaxConns = 2
  QueueSize = 1
  MaxFrames = 1
  CanPanic = TRUE
INVARIANTS
  OneAnswer
  StreamComplete
  OwnSession

  
CHECK_DEADLOCK FALSE
