CONSTANTS
  Inputs <- MCCompressed
SPECIFICATION Spec
INVARIANTS
  CompressedWithoutClusters
