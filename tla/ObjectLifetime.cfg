SPECIFICATION Spec
CONSTANTS
  Addrs = {o1}
  Background = {t1, t2}
  MaxNative = 3
  MaxBlocks = 2
  MaxCasts = 1
INVARIANTS
  TypeOK
  CountIsExact
  ProtectTracksOwners
\* A process whose isolate is gone, or that crashed, may have nothing to do.
CHECK_DEADLOCK FALSE
