CONSTANTS
  Refs = {r1, r2, r3, r4}
  Prices <- MCPrices
  Qtys <- MCQtys
  Tradable <- MCTradable
  Capacity = 3
  None = None
SPECIFICATION HSpec
INVARIANT TypeOK
PROPERTY ImplementsAtomicBook
SYMMETRY MCSymmetry
