CONSTANTS
  PriceMin = 1
  PriceMax = 3
  MaxOrders = 5
  QtyMod = 16
  WordBits = 2
  Names = {"mm_alpha", "carol"}
  Prices <- MCPrices
  Qtys = {0, 2}
  Ids = {1, 2, 3, 4, 5}
  QuoteDeltas <- MCQuoteDeltas
  BaseDeltas = {0, 2}
  SeedUsers <- MCSeedUsers
  SeedOrders <- MCSeedOrders
  QuoteCap = 18
  BaseCap = 6
  IdCap = 5
SPECIFICATION Spec
PROPERTY TradesConserveQuote
VIEW LiveState
