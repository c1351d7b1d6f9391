SPECIFICATION FairSpec
CONSTANTS
  Categories = {"stock"}
  Products = {"s1", "s2", "f1"}
  Versions = {1, 2, 3}
  Lists <- MCLists
  CategoryOf <- MCCategoryOf
  Enabled = TRUE
  RunOnStartup = TRUE
  Catalog = {"s1"}
  Workers = {w1, w2, w3}
  ScriptRuns = TRUE
  Views = {"s1", "s2"}
  MaxRestarts = 1
INVARIANTS InflightExact OfferedHasPage AloneConsistent
PROPERTIES NothingStoredIsLost AloneMovesForward CatchesUp
