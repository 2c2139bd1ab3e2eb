CONSTANTS
  Refs = {r1, r2, r3}
  Prices <- MCPrices
  Qtys <- MCQtys
  SubmitSides <- BookSide
  None = None
SPECIFICATION FairSpec
PROPERTIES ImplementsPriceTimeBook SubmitReturns
