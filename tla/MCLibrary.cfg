\* Lists of three items; every conversion of small inputs.
SPECIFICATION MCSpec
CONSTANTS
  Data = {1, 2}
  MaxItems = 3
  Letters <- MCLetters
  Names = {"a", "b"}
  ConfValues <- MCValues
  Gaps <- MCGaps
  MaxLength = 2
  MaxKeys = 3
  LineLetters <- MCLineLetters
  NumberLetters <- MCNumberLetters
  MaxFile = 4
  MaxNumber = 1200
  Places = 2
  Kept = 1
  Reals <- MCReals
  MaxString = 3
  MaxLong = 10
INVARIANTS Linked ArgsReadBack DataReadsBack ConfReadsBack VerdictIsRight
PROPERTY ImplementsSequence
