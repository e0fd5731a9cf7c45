SPECIFICATION Spec
CONSTANTS
  Pushers = {parent}
  Owner = worker
  MaxPush = 4
INVARIANTS
  TypeOK
  NoStrandedMessage
  TerminatedStaysDown
PROPERTIES
  EveryMessagePopped
  StopEndsLoop
\* A queue nobody pushes to, and one that is terminated, stop legitimately.
CHECK_DEADLOCK FALSE
