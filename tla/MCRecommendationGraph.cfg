SPECIFICATION Spec
CONSTANTS
  Products <- MCProducts
  Category <- MCCategory
  Risk <- MCRisk
  Liquid <- MCLiquid
  Profiles <- MCProfiles
  Stocks = {"stock a", "stock b"}
  Days <- MCDays
  TrendDays = 2
INVARIANTS
  DeliveredWithinPlan
  ReleasedOnlyAfterReview
  StaticReviewSuitable
  UnwarnedMeansAgentReviewed
  HeldAnswerIsExplained
  AllocationCoversSections
  AgentInputsAreSound
PROPERTIES
  RevisionOnlyNarrows
  NothingRunsAfterBlock
CHECK_DEADLOCK FALSE
