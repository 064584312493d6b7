SPECIFICATION FairSpec
CONSTANTS
  N = 4
  Values = {a, b}
  NoValue = NoValue
INVARIANTS
  NoSlotRace
  ObjectLifetimes
  RingInv
PROPERTIES
  ImplementsFifo
  EveryItemPopped
CHECK_DEADLOCK FALSE
