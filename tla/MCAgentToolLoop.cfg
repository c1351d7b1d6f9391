SPECIFICATION Spec
CONSTANTS
  MaxToolCalls = 4
  MaxValidationRetries = 1
  MaxAttempts = 3
  MaxCalls = 3
  Names <- MCNames
INVARIANTS
  RoundsSuffice
  ConversationWhole
  TraceTellsTheRun
CHECK_DEADLOCK FALSE
