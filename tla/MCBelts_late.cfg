\* A task is pushed while the shutdown replaces the pool.
SPECIFICATION Spec
CONSTANTS
  t1 = t1  t2 = t2  s1 = s1
  Tasks <- OneTask
  Known <- OneTask
  Slots <- OneSlot
  NoTask = NoTask
  QueueSize = 1
  BeltsSize = 2
  UnpackCount = 1
  Autostart = TRUE
  Faults <- NoFaults
  Crashes = FALSE
  Operator = FALSE
  Uploads = FALSE
  MaxResults = 1
  MaxItems = 1
INVARIANT AllThreadsFinished
