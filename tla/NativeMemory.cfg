SPECIFICATION Spec
CONSTANTS
  Addrs = {a1, a2}
  Objs = {s1, s2, s3}
  MaxViews = 2
SYMMETRY Symmetry
INVARIANTS
  TypeOK
  OneOwner
  ViewsKeepTheirBlock
\* After the last handle was visited nothing is left to do.
CHECK_DEADLOCK FALSE
