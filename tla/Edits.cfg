SPECIFICATION FairSpec
CONSTANTS
  a = a
  b = b
  Foreign = Foreign
  Client = {a, b}
  Setter = {b}
  Size <- MCSizeTwo
  QueueMax = 1
  MaxEdits = 1
  MaxCrashes = 0
  MidBatchSave = FALSE
  MaxClientDeaths = 0
INVARIANTS RolledBackMeansGone DefiniteReleases
PROPERTIES ClientsFinish
CHECK_DEADLOCK FALSE
