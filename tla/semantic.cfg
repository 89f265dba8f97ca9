SPECIFICATION Spec
CONSTANTS
  p1 = p1
  p2 = p2
  p3 = p3
  Pid = {p1, p2, p3}
  Point = {1, 2}
  Layer = {0, 1}
  DocState = {0, 1}
  Scenarios <- SomeScenarios
INVARIANTS ChainTellsTruth KnownState JournalHasChain
PROPERTIES WayBackKept
CHECK_DEADLOCK FALSE
