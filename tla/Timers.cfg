SPECIFICATION Spec
CONSTANT MaxTimers = 2
INVARIANTS
  TypeOK
  ContextMatchesTimer
  EntryIsLive
PROPERTIES
  ClearedNeverRuns
  TimeoutRuns
\* Once the runtime is destroyed and every timer is gone nothing happens.
CHECK_DEADLOCK FALSE
