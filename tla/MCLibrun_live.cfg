SPECIFICATION FairSpec
CONSTANTS
  p1 = p1
  p2 = p2
  NoProc = NoProc
  NoPid = NoPid
  Procs <- OneProc
  Pid <- OwnPid
  MaxClients = 1
  MaxUnique = 1
  ArrSize = 1
  MaxCallers = 1
  Ends <- AllEnds
  Exceeds <- Time
  Faults <- AllFaults
  MaxFaults = 2
CHECK_DEADLOCK FALSE
PROPERTIES
  WaitReturns
  HypervisorStops
