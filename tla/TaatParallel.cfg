CONSTANTS
  K = 2
  max_docid = 3
  cycle = 16
  Inputs <- Parallel
SPECIFICATION Spec
INVARIANT
  RankedAnswer
