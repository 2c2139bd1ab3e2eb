CONSTANTS
  Refs = {r1, r2, r3, r4}
  Prices <- MCPrices
  Qtys <- MCQtys
  SubmitSides <- MCAllSides
  None = None
SPECIFICATION Spec
INVARIANTS TypeOK NotCrossed NoGhostLevel IndexAgrees RunningSumsAgree
SYMMETRY MCSymmetry
