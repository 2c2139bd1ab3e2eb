CONSTANTS
  Refs = {r1, r2, r3, r4}
  Prices <- MCPrices
  Qtys <- MCQtys
  SubmitSides <- MCAllSides
  kLevels = 6
  kWordBits = 2
  kTickSize = 2
  kBaseTicks = 10
  None = None
SPECIFICATION Spec
INVARIANTS TypeOK TakesLevelPrices BitmapAgrees TouchIsBest NotCrossed TouchHasQuantity IndexAgrees
SYMMETRY MCSymmetry
