CONSTANTS
  PriceMin = 1
  PriceMax = 2
  MaxOrders = 3
  QtyMod = 4
  WordBits = 2
  Prices = {1}
  Qtys = {2}
  Ids = {0, 1, 2}
SPECIFICATION Spec
INVARIANT OccupiedIffOrders
