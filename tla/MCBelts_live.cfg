\* One submission through lost requests, an operator, shutdowns and restarts.
SPECIFICATION LiveSpec
CONSTANTS
  t1 = t1  t2 = t2  s1 = s1
  Tasks <- OneTask
  Known <- OneTask
  Slots <- OneSlot
  NoTask = NoTask
  QueueSize = 1
  BeltsSize = 1
  UnpackCount = 1
  Autostart = TRUE
  Faults <- LostRequests
  Crashes = FALSE
  Operator = TRUE
  Uploads = TRUE
  MaxResults = 1
  MaxItems = 1
PROPERTIES EventuallyDone EventuallySent ShutdownEnds
