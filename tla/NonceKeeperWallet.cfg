CONSTANTS
  Tasks = {t1, t2, t3}
  Jobs = {j1, j2}
  MaxRuns = 2
SPECIFICATION FairSpec
INVARIANTS
  NoncesAreConsecutive
  NothingReplaced
PROPERTY SentIsMined
CHECK_DEADLOCK FALSE
