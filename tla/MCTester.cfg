\* Two threads, two tests each, stopped at any moment; three solutions tested
\* five times in all, with room for one directory.
SPECIFICATION MCSpec
CONSTANTS
  w1 = w1  w2 = w2
  Threads <- TwoThreads
  TestsCount = 2
  Bonus = 3
  SolutionErrors <- RuntimeError
  CheckerErrors <- WrongAnswer
  Solutions = {1, 2, 3}
  KeepAlive = 1
  MaxTestings = 5
INVARIANTS InterruptedOnlyByStop VerdictIsExact NewDirsAreSafe
PROPERTIES KeepsPromise StopEnds
\* The threads end and the module stays stopped.
CHECK_DEADLOCK FALSE
