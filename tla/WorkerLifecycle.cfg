SPECIFICATION Spec
CONSTANTS
  MaxPosts = 2
  MaxSends = 1
  HasTimers = TRUE
INVARIANTS
  TypeOK
  RegistryFollowsThread
  WrapperKeptWhileRunning
PROPERTIES
  ImplementsMailbox
  TerminateEndsWorker
  HandlerCloseEndsWorker
  QueuedIsDelivered
\* A worker that is closed, terminated or idle stops legitimately.
CHECK_DEADLOCK FALSE
