SPECIFICATION Spec
CONSTANTS
  Products <- MCProducts
  Category <- MCCategory
  Risk <- MCRisk
  Liquid <- MCLiquid
  Profiles <- MCProfiles
  Stocks = {"stock a", "stock b"}
  Days <- MCDays
  TrendDays = 2
INVARIANT
  CashProductsAreOffered
CHECK_DEADLOCK FALSE
