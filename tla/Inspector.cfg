SPECIFICATION Spec
CONSTANTS
  MaxMessages = 2
  MaxConnects = 2
  Kinds = {"pause", "resume", "evaluate", "invalid"}
INVARIANTS
  TypeOK
  HandledInOrder
  LeftOnlyAfterRefusal
PROPERTIES
  EveryMessageHandled
  ResumeEndsPause
  WaitingEnds
  NewFrontendGetsSession
\* Without a frontend or an event of the application nothing has to happen.
CHECK_DEADLOCK FALSE
