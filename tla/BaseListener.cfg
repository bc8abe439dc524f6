CONSTANTS
  Ids = {o1, o2}
  Confirmations = 1
  MaxBlocks = 6
  MaxPolls = 2
SPECIFICATION FairSpec
INVARIANTS
  NothingPassedOver
  OnlyConfirmedIsPolled
  ProcessedIsNotRepeated
  HandledOnce
PROPERTIES
  EventsAreHandled
CHECK_DEADLOCK FALSE
