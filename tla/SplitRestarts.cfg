SPECIFICATION Spec
CONSTANTS
  Calls = {c1, c2, c3}
  None = None
  Kinds = {"read", "com", "native"}
  MaxProviders = 2
  MaxAgents = 1
  SaveMayFail = TRUE
SYMMETRY Symmetric
INVARIANT NoBlindRetry
INVARIANT WritersDoNotOverlap
CHECK_DEADLOCK FALSE
