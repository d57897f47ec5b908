\* Versions of a problem and of a checker.
SPECIFICATION LiveSpec
CONSTANTS
  p1 = p1  c1 = c1
  Problems <- MCProblems
  Checkers <- MCCheckers
  None = None
  MaxOffers = 3
  MaxRestarts = 1
INVARIANTS OkMeansStored FilesAreWhole
PROPERTY EventuallyAnswered
\* The web has nothing left to offer and the server waits.
CHECK_DEADLOCK FALSE
