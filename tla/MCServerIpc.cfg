CONSTANTS
  a1 = a1
  IPs <- OneIP
  MaxClients = 2
  Tries = 2
  Window = 1
  Freeze = 0
  OnTries = TRUE
  ResetTimeout = 2
  Skews <- Hours
  MaxTime = 2
SPECIFICATION LiveSpec
INVARIANTS AttemptsAreBounded BlacklistIsSaved
PROPERTIES FailureDelays BlacklistedLeave
