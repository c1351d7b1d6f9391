SPECIFICATION StoreSpec
CONSTANTS
  Threads = {t1, t2, t3}
  Sessions = {s1}
  Messages = {"question1", "question2"}
  UserText = {"question1", "question2"}
  None = None
SYMMETRY StoreSymmetry
INVARIANTS SummaryIsFirstText DeletedLeavesNothing LiveIsListed
PROPERTIES ImplementsLog
