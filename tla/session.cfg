CONSTANTS
  PriceMin = 1
  PriceMax = 3
  MaxOrders = 5
  QtyMod = 16
  WordBits = 2
  Names = {"mm_beta", "carol"}
  Prices = {}
  Qtys = {}
  Ids = {}
  QuoteDeltas = {}
  BaseDeltas = {}
  SeedUsers <- MCSeedUsers
  SeedOrders <- MCSeedOrders
  QuoteCap = 1000
  BaseCap = 1000
  IdCap = 5
  Numbers <- MCNumbers
  CallCap = 2
SPECIFICATION SpecSession
INVARIANT LocksAddUp
PROPERTIES ActsForSignedUp EndsWithInput
CHECK_DEADLOCK FALSE
VIEW LiveState
