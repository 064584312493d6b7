SPECIFICATION MCSpec
CONSTANTS
  Threads = {t1, t2, t3}
  NSlots = 2
  RingSize = 3
  NoSlot = NoSlot
  MaxEmits = 3
  AccuracyBits = 1
  RangeBits = 4
  Values <- MCValues
  MaxSamples = 3
  Ranks = {25000, 50000, 75000, 99000, 99900}
  Infinity = Infinity
  N = 2
  Width = 2
  Left = 2
  MaxTicks = 2
  MaxUpdates = 2
SYMMETRY Symmetry
INVARIANTS
  Accounted
  ThreadOrder
  PercentilesBound
  SpansAreExact
CHECK_DEADLOCK FALSE
