CONSTANTS
  PriceMin = 1
  PriceMax = 3
  MaxOrders = 3
  QtyMod = 8
  WordBits = 2
  Prices <- MCPrices
  Qtys = {0, 1, 2}
  Ids <- MCIds
SPECIFICATION Spec
INVARIANTS TypeOK ListsWellFormed FreeListIsComplement LevelsTrackOrders BookUncrossed DepthShowsOrders
PROPERTIES MatchProgress ImplementsPriceTime
VIEW LiveState
