CONSTANTS
  Refs <- MCRefs
  Prices <- MCPrices
  Qtys <- MCQtys
  SubmitSides <- BookSide
  kLevels = 2
  kWordBits = 2
  kTickSize = 2
  kBaseTicks = 10
  kMaxOrders = 2
  kRefTableSize = 4
  None = None
SPECIFICATION Spec
INVARIANT SomeEntryEmpty
