CONSTANTS
  Refs = {r1, r2}
  Prices <- MCPrices
  Qtys <- MCQtys
  SubmitSides <- MCAllSides
  None = None
SPECIFICATION Spec
PROPERTY ReturnsQuantityResting
