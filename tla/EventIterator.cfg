CONSTANTS
  Logs = {l1, l2, l3, l4}
  NoEvent = noEvent
  Capacity = 2
  Answers <- MCAnswers
  MaxQueries = 2
SPECIFICATION FairSpec
INVARIANT NoGoroutineIsLeft
PROPERTIES
  ImplementsLogStream
  EveryQueryEnds
CHECK_DEADLOCK FALSE
