CONSTANTS
  Books = {"map", "array", "pool"}
  Lines <- MCLines
  kMaxLines = 4
  Prices <- MCPrices
  WindowPrices = {100, 110, 120}
  kMaxOrders = 2
  kCent = 10
  kDepthShown = 2
  kLadderScanLimit = 3
  kDecimals = 2
  None = None
SPECIFICATION FairSpec
INVARIANTS TypeOK PricesReadAndPrint RoundsToTick SharesAddUp CrossedOnlyByNegative LadderShowsBest
PROPERTIES OutcomeTold ScriptEnds
CHECK_DEADLOCK FALSE
