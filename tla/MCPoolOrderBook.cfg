CONSTANTS
  Refs = {r1, r2, r3, r4}
  Prices <- MCPrices
  Qtys <- MCQtys
  SubmitSides <- MCSides
  kLevels = 2
  kWordBits = 2
  kTickSize = 2
  kBaseTicks = 10
  kMaxOrders = 3
  None = None
SPECIFICATION Spec
INVARIANTS TypeOK SlotsPartitioned QueuesWellLinked IndexAgrees TotalsAgree BitmapAgrees TouchIsBest
SYMMETRY MCSymmetry
