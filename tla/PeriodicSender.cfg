SPECIFICATION FairSpec
CONSTANTS
  MaxSends = 6
  MaxStarts = 3
INVARIANTS CountsRight AcknowledgedIsKept
PROPERTY StaleGeneratorEnds
CHECK_DEADLOCK FALSE
