\* Two results out of at most five insertions with four scores.
CONSTANTS
  K = 2
  Doc = {d1, d2}
  Scores = {0, 1, 2, 3}
  MaxCalls = 5
SPECIFICATION SpecClient
INVARIANTS
  ThresholdIsFront
  HoldsTheBest
PROPERTY
  FinalizeLosesNothing
