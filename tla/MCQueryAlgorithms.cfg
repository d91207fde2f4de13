CONSTANTS
  K = 2
  Doc = {0, 1, 2, 3, 4, 5}
  max_docid = 6
  Term <- QTerms
  Ends <- QEnds
  Inputs <- QInputs
  MaxElapsed = 2
SPECIFICATION FairSpec
INVARIANTS
  LookupsIndifferent
  CursorsSkipNothing
  CandidatesComplete
  BlocksBehindPivot
  ClockIsFresh
  BooleanAnswer
PROPERTIES
  AnytimeSpec
  Terminates
