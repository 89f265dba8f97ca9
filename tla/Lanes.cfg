SPECIFICATION Spec
CONSTANTS
  Calls = {c1, c2, c3}
  None = None
  Docs = {d1}
  Kinds = {"read", "edit", "native", "new", "begin", "rollback"}
  Clients = 3
  Limit = 1
  MaxRestarts = 0
  UndoMayFail = TRUE
INVARIANT AnswersTruthful
PROPERTY CallsReturn
PROPERTY FailStop
CHECK_DEADLOCK FALSE
