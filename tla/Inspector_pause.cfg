SPECIFICATION Spec
CONSTANTS
  MaxMessages = 2
  MaxConnects = 1
  Kinds = {"pause", "evaluate"}
INVARIANT PauseReachesLoop
CHECK_DEADLOCK FALSE
