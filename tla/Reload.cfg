SPECIFICATION FairSpec
CONSTANTS
  Request = {r1, r2, r3}
  Sta = {r1}
  MaxGenerations = 3
  MaxDeaths = 1
  StopMayFail = TRUE
  MayExit = TRUE
  MaxConcurrent = 2
INVARIANTS GateLeadsToWorker
PROPERTIES GateReopens NoRequestCut AuthoritySpec
CHECK_DEADLOCK FALSE
