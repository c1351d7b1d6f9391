SPECIFICATION Spec
CONSTANTS
  Threads = {t1, t2, t3}
  Askers = {t1, t2}
  Sessions = {s1}
  Questions = {q1, q2}
  MaxPieces = 1
  Messages <- MCMessages
  UserText <- MCUserText
  None = None
SYMMETRY TurnSymmetry
INVARIANTS AnswersFollowQuestions AgentSeesQuestion StoredIsShown
