CONSTANTS
  Ids = {r1, r2}
  None = none
  MaxBlocks = 3
  MaxStarts = 2
SPECIFICATION FairSpec
INVARIANTS
  NoNonceGap
  ScannedOnce
  NothingForgotten
  SentOnce
PROPERTIES
  RequestsAreSubmitted
  InterruptEndsIt
CHECK_DEADLOCK FALSE
