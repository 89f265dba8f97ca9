SPECIFICATION Spec
CONSTANTS
  Docs = {d1, d2}
  Nil = Nil
  Scripts <- SomeScripts
  MaxSwitches = 2
  MaxEdits = 1
INVARIANTS NothingLeftBehind SuccessIsReal StaysInTransaction NoFalseAlarm
CHECK_DEADLOCK FALSE
