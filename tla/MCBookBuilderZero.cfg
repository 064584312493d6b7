SPECIFICATION Spec
CONSTANTS
  K = 1
  ColdCap = 1
  PriceMax = 9
  Null = Null
  Oids = {1, 2, 3}
  MAX_ORDERS = 1
  MaxObjects = 4
  NoOrder = NoOrder
  Instruments = {7}
  NoBook = NoBook
  Prices = {0, 1, 2}
  MaxShares = 2
  Replaceable = {"BID"}
INVARIANTS LevelFound
