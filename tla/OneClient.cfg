SPECIFICATION Spec
CONSTANTS
  Calls = {c1, c2, c3, c4}
  None = None
  Docs = {d1, d2}
  Kinds = {"edit", "new", "begin", "commit", "rollback"}
  Clients = 1
  Limit = 2
  MaxRestarts = 1
  UndoMayFail = FALSE
SYMMETRY Symmetric
INVARIANT DepthIsMarks
PROPERTY EditsStayInTransaction
CHECK_DEADLOCK FALSE
