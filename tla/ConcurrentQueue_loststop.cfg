SPECIFICATION Spec
CONSTANTS
  Pushers = {parent}
  Owner = worker
  MaxPush = 1
PROPERTY TerminateEndsLoop
CHECK_DEADLOCK FALSE
