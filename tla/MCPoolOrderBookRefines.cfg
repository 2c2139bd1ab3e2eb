CONSTANTS
  Refs = {r1, r2, r3}
  Prices <- MCPrices
  Qtys <- MCAnyQtys
  SubmitSides <- MCShortSides
  kLevels = 2
  kWordBits = 2
  kTickSize = 2
  kBaseTicks = 10
  kMaxOrders = 2
  None = None
SPECIFICATION FairSpec
PROPERTIES ImplementsPriceTimeBook SubmitReturns
