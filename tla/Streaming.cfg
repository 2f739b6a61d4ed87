SPECIFICATION FairSpec
CONSTANTS
  MaxSpans = 3
  MaxLen = 2
  Batching = TRUE
  MaxBatch = 2
  MaxStreams = 3
INVARIANTS
  TypeOK
  NothingVanishes
  CountsAddUp
  NoStreamAfterClose
PROPERTIES
  WaitingTakesNothing
  ChannelImplemented
  SpansLeave
  ThreadsEnd
