\* Two tasks, two uploads, a shutdown.
SPECIFICATION LiveSpec
CONSTANTS
  t1 = t1  t2 = t2
  Tasks <- TwoTasks
  NoTask = NoTask
  MaxThreads = 1
  MaxUploads = 2
INVARIANTS TypeOK OldTestingsAreOver AtMostMaxThreads
PROPERTIES StartReturns ShutdownEnds
\* The server goes down for good, or something undefined happened.
CHECK_DEADLOCK FALSE
