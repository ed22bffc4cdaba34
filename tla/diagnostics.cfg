CONSTANTS
  PriceMin = 1
  PriceMax = 2
  MaxOrders = 5
  QtyMod = 16
  WordBits = 2
  Names = {"mm_alpha"}
  Prices = {1, 3}
  Qtys = {1, 2}
  Ids = {1, 2, 3, 4}
  QuoteDeltas = {0}
  BaseDeltas = {0}
  SeedUsers <- MCSeedUsers
  SeedOrders <- MCSeedOrders
  QuoteCap = 100
  BaseCap = 15
  IdCap = 4
  kTradeLogCap = 2
  CallCap = 1
SPECIFICATION SpecRecorded
INVARIANTS CountersAddUp
PROPERTIES LogKeepsPromise LogTellsSubmission
VIEW LiveState
