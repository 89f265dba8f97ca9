SPECIFICATION Spec
CONSTANTS
  a = a
  b = b
  Foreign = Foreign
  Client = {a, b}
  Setter = {b}
  Size <- MCSizeTwo
  QueueMax = 2
  MaxEdits = 0
  MaxCrashes = 1
  MidBatchSave = FALSE
  MaxClientDeaths = 1
INVARIANTS NoStaleRequest AllOrNothing
PROPERTIES AtomicDrawingSpec Fence
CHECK_DEADLOCK FALSE
