CONSTANTS
  m_universe = 7
  block_size = 2
  Lists <- MCLists
  Indexes = {"ef", "single", "pefuniform", "pefopt"}
  Frequencies <- MCFrequencies
  params <- MCParams
  word_size = 4
  linear_scan_threshold = 1
  fix_cost = 3
  eps1 = 10
  eps2 = 100
  eps3 = 75
SPECIFICATION SpecLists
INVARIANTS
  ShowsPosting
  BlockSearchesEnd
  SequencesAreCursor
  PartitionPays
PROPERTY
  BlocksAreCursor
