SPECIFICATION MCSpec
CONSTANTS
  InputSize = 3
  InputLimit = 2
  PipeSize = 1
  Limit <- MCLimit
  MaxWritten = 2
  Endings <- MCEndings
INVARIANTS
  AnswerIsWhole
  CodeIsTrue
  OutputIsConsumed
  LineIsTrue
  ProgressErrorIsReturned
PROPERTIES
  Returns
  Termination
