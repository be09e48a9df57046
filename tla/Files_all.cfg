CONSTANTS
  Names = {n1}
  Turns = {t1}
  MaxFiles = 2
SPECIFICATION FairSpec
INVARIANTS TypeOK OriginalGoneByRemoval
 
CHECK_DEADLOCK FALSE
