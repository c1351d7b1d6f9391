SPECIFICATION FairSpec
CONSTANTS
  Streams = {"s1", "s2"}
  Workers = {w1}
  Rounds = 2
  Indexes = {0, 1}
  MaxCalls <- MCMaxCalls
INVARIANTS
  ConversationWhole
  QueueIsAwaited
  ReportsAreFair
PROPERTIES EveryStreamEnds
CHECK_DEADLOCK FALSE
