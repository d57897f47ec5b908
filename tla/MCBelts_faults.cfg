\* Two submissions, every outcome of every request, crashes and restarts.
SPECIFICATION Spec
CONSTANTS
  t1 = t1  t2 = t2  s1 = s1
  Tasks <- TwoTasks
  Known <- TwoTasks
  Slots <- OneSlot
  NoTask = NoTask
  QueueSize = 1
  BeltsSize = 2
  UnpackCount = 1
  Autostart = TRUE
  Faults <- AllFaults
  Crashes = TRUE
  Operator = FALSE
  Uploads = TRUE
  MaxResults = 2
  MaxItems = 2
SYMMETRY TaskSymmetry
INVARIANTS TypeOK NoDuplicates Capacity TakenIsHeld NoLostWakeup
  ThreadOwnsTask UntestedHasThread OneCopy
PROPERTY DoneStays
