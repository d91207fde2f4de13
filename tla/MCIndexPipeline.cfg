CONSTANTS
  MayThrow = TRUE
  MaxBodies = 3
  BuildCalls <- MCBuildCalls
  Continues <- MCContinues
  ShardMappings <- MCShardMappings
  InvertCalls <- MCInvertCalls
  ReorderCalls <- MCReorderCalls
  CompressCalls <- MCCompressCalls
  QueueLimits <- MCQueueLimits
SPECIFICATION Spec
INVARIANTS
  BoundedMemory
  ForwardIsCollection
  ShardsAreCollection
  IndexIsInversion
  DocumentsAreKept
  SampleFollowsLexicon
  DegreesOfOneThread
  ContainerIsIndex
  ContainerIsCollection
  CommitsInOrder
PROPERTIES
  ProducerGoesOn
  QueueReturns
