CONSTANTS
  Orders = {large, small}
  Large = large
  Chains = {base, ink}
  base = base
  ink = ink
  Legs <- MCLegs
  Funds <- MCFunds
  Configured = 1
  Copies <- MCCopies
  CopiesOfSmall = 2
  Money = 2
  Confirmations = 0
  MaxBlocks = 3
  MaxStarts = 2
SPECIFICATION FairSpec
INVARIANTS
  OnlyFilledIsRecorded
  
  SavedIsNotHandledAgain
PROPERTY EveryOrderIsHandled
CHECK_DEADLOCK FALSE
