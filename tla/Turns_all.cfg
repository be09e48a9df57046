CONSTANTS
  Procs = {p1, p2}
  Turn = {t1, t2}
  Convs = {k1}
  Bare = bare
  Limit = 1
  MarketLimit = 1
  None = none
  MaxDone = 1
SPECIFICATION FairSpec
INVARIANTS TypeOK QuotaBounded MessagesCounted
PROPERTY TurnEnds
CHECK_DEADLOCK FALSE
