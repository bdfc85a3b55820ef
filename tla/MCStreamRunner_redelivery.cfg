SPECIFICATION FairSpec
CONSTANTS
  NumPipelines = 2
  NumEvents = 2
  PoolSize = 2
  Concurrency <- PooledThenSequential
  BatchSize = 1
  Outcomes = {"forward", "fault", "stray"}
  SinkFailure <- PublisherSinks
  FlushFails = TRUE
  Raising = {"on_fault"}
  OnFault = TRUE
  Kills = TRUE
  MaxRuns = 2
INVARIANT TypeOK
INVARIANT HandlerSeesEveryFault
INVARIANT FaultsAccountedFor
INVARIANT FaultsPublishedInOrder
INVARIANT SequentialInRegistrationOrder
PROPERTY KeepsContract
PROPERTY EveryRunEnds
