SPECIFICATION Spec
CONSTANTS
  Resources = {r1}
  Emails = {e1, e2}
  MaxSubmits = 2
  MaxRequests = 4
  MaxReloads = 2
  WritesFail = TRUE
  None = None
SYMMETRY SessionSymmetry
INVARIANTS SessionIsOfAccount RefreshingMeansAsked AssessmentsAreSound
PROPERTIES ShownMovesForward
CHECK_DEADLOCK FALSE
