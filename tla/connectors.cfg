SPECIFICATION FairSpec
CONSTANTS
  MinId <- MostNegative
  MaxId = 3
  Pairs <- EachKind
  Datasets <- Few
  Limits = {1, 3}
  Cap = 2
  MaxChunk = 2
  MaxReply = 3
  MaxFaults = 2
INVARIANTS
  TypeOK
  PagesKeepContract
  NothingSkipped
  NothingTwice
  CheckpointStored
PROPERTIES
  EveryScanEnds
CHECK_DEADLOCK FALSE
