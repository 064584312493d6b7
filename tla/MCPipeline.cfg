SPECIFICATION FairSpec
CONSTANTS
  NShards = 2
  Capacity = 2
  Instruments = {0, 1, 3}
  MaxEvents = 5
  MaxBatch = 3
INVARIANTS RoutedInOrder QueuesDrained FailedStartIsIdle
PROPERTIES ShutsDown StallEnds StartDecided
CHECK_DEADLOCK FALSE
