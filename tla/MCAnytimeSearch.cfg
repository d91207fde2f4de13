CONSTANTS
  K = 2
  Doc = {1, 2, 3, 4}
  Cluster = {1, 2}
  Corpora <- MCCorpora
  Plans <- MCPlans
SPECIFICATION FairSpec
INVARIANTS
  TypeOK
  QueueInv
  CoveredIsRankSafe
  NoDuplicates
  DoneIsRankSafe
  SafeAnswerIsExact
PROPERTY
  EventuallyAnswered
