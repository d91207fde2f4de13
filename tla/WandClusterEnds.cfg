CONSTANTS
  Inputs <- MCClusters
SPECIFICATION Spec
INVARIANTS
  EveryDocumentInARange
