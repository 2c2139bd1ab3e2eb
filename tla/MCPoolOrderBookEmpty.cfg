CONSTANTS
  Refs = {r1, r2}
  Prices <- MCPrices
  Qtys <- MCQtys
  SubmitSides <- MCSides
  kLevels = 2
  kWordBits = 2
  kTickSize = 2
  kBaseTicks = 10
  kMaxOrders = 1
  None = None
SPECIFICATION Spec
PROPERTY RejectedWhenPoolEmpty
