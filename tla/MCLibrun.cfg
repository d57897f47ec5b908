SPECIFICATION Spec
CONSTANTS
  p1 = p1
  p2 = p2
  NoProc = NoProc
  NoPid = NoPid
  Procs <- TwoProcs
  Pid <- OnePid
  MaxClients = 1
  MaxUnique = 1
  ArrSize = 1
  MaxCallers = 1
  Ends <- Exit0
  Exceeds <- Time
  Faults <- AllFaults
  MaxFaults = 2
CHECK_DEADLOCK FALSE
SYMMETRY ProcSymmetry
INVARIANTS
  OwnCommands
  FinishedIsExact
  ErrorIsReported
