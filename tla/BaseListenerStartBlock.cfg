CONSTANTS
  Ids = {o1}
  Confirmations = 0
  MaxBlocks = 6
  MaxPolls = 1
SPECIFICATION FairSpec
PROPERTY EveryBlockIsCovered
CHECK_DEADLOCK FALSE
