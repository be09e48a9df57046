CONSTANTS
  Procs = {p1}
  Turn = {t1}
  Convs = {k1, k2}
  Bare = bare
  Limit = 0
  MarketLimit = 0
  None = none
  MaxDone = 2
SPECIFICATION Spec
INVARIANT OwnThread

CHECK_DEADLOCK FALSE
