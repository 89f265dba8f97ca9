SPECIFICATION Spec
CONSTANTS
  zero = zero
  walls = walls
  door = door
  sheet = sheet
  c1 = c1
  c2 = c2
  f1 = f1
  Nil = Nil
  Names = {zero, walls}
  Fold <- FoldExact
  Zero = zero
  BlockNames = {door}
  Layouts = {sheet}
  MaxHandle = 2
  Calls = {c1, c2}
  Paths = {f1}
  UndoDepth = 2
  TxDepth = 1
  Scenarios <- MCScenarios
INVARIANTS OneMutator HistoryHonest CleanMeansSaved SnapshotsOfThisDrawing ReferencesResolve
PROPERTIES RetryableIsHarmless TapeSpec
CHECK_DEADLOCK FALSE
