SPECIFICATION Spec
CONSTANTS
  p1 = p1
  p2 = p2
  NoProc = NoProc
  NoPid = NoPid
  Procs <- OneProc
  Pid <- OwnPid
  MaxClients = 1
  MaxUnique = 1
  ArrSize = 1
  MaxCallers = 1
  Ends <- Exit0
  Exceeds <- Time
  Faults <- NoFaults
  MaxFaults = 0
CHECK_DEADLOCK FALSE
PROPERTY LimitIsKept
