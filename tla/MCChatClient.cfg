SPECIFICATION Spec
CONSTANTS
  Sessions = {s1, s2}
  Questions = {q1, q2}
  MaxPieces = 1
  MaxSpent = 1
  ToolsFail = FALSE
  None = None
SYMMETRY ClientSymmetry
INVARIANTS BusyMeansReplyComing QuestionStaysShown SettledPageIsLog
CHECK_DEADLOCK FALSE
