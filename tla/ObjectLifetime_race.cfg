SPECIFICATION Spec
CONSTANTS
  Addrs = {o1}
  Background = {t1}
  MaxNative = 2
  MaxBlocks = 1
  MaxCasts = 0
PROPERTIES
  KeptWhileOwned
CHECK_DEADLOCK FALSE
