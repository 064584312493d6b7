SPECIFICATION Spec
CONSTANTS
  K = 1
  ColdCap = 1
  PriceMax = 9
  Null = Null
  Oids = {o1, o2, o3}
  MAX_ORDERS = 1
  MaxObjects = 4
  NoOrder = NoOrder
  Instruments = {7}
  NoBook = NoBook
  Prices = {1, 2, 3}
  MaxShares = 2
  Replaceable = {"BID"}
SYMMETRY OidSymmetry
INVARIANTS TimePriority BestPrice PoolConserved
PROPERTIES LosesOnlyWhenFull
