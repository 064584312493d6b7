SPECIFICATION MCSpec
CONSTANTS
  Keys = {k1, k2, k3, k4}
  Capacity = 1
  MaxSlots = 8
  Empty = Empty
  Deleted = Deleted
  ClassB = {b1, b2}
  ClassC = {c1, c2}
  SwissKeys <- MCSwissKeys
  Hashes <- MCHashes
  HashBits = 5
  FprintBits = 1
  Width = 4
  SwissCapacity = 8
  MaxCapacity = 16
  NoKey = NoKey
  K = 3
  ColdCap = 3
  PriceMax = 9
  Null = Null
  Prices = {1, 2, 3, 4, 5, 6, 7, 8}
SYMMETRY KeySymmetry
INVARIANTS LinearTableIsSet SwissTableIsSet LevelsAreMap HotIsBest
