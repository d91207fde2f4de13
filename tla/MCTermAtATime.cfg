CONSTANTS
  K = 2
  max_docid = 3
  cycle = 2
  Inputs <- Sequential
SPECIFICATION Spec
INVARIANTS
  AccumulatorHoldsScores
  OwnQueueAnswer
