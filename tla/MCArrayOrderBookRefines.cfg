CONSTANTS
  Refs = {r1, r2, r3}
  Prices <- MCFewPrices
  Qtys <- MCAnyQtys
  SubmitSides <- BookSide
  kLevels = 4
  kWordBits = 2
  kTickSize = 2
  kBaseTicks = 10
  None = None
SPECIFICATION FairSpec
PROPERTIES ImplementsPriceTimeBook SubmitReturns
