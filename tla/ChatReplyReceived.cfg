SPECIFICATION Spec
CONSTANTS
  Sessions = {s1}
  Questions = {q1}
  MaxPieces = 1
  MaxSpent = 1
  ToolsFail = TRUE
  None = None
INVARIANTS FullReplyReceived
CHECK_DEADLOCK FALSE
