SPECIFICATION Spec
CONSTANTS
  Request = {r1, r2}
  Sta = {}
  MaxGenerations = 2
  MaxDeaths = 0
  StopMayFail = FALSE
  MayExit = FALSE
  MaxConcurrent = 2
INVARIANTS OneGenerationExecutes
CHECK_DEADLOCK FALSE
