CONSTANTS
  MayThrow = FALSE
  MaxBodies = 1
  BuildCalls <- MCBuildCalls
  Continues <- MCContinues
  ShardMappings <- MCShardMappings
  InvertCalls <- MCInvertCalls
  ReorderCalls <- Uncompressed
  CompressCalls <- MCCompressCalls
  QueueLimits <- MCQueueLimits
SPECIFICATION Spec
INVARIANT
  TermsAreDecoded
