SPECIFICATION Spec
CONSTANTS
  NumPipelines = 1
  NumEvents = 3
  PoolSize = 1
  Concurrency <- Pooled
  BatchSize = 1
  Outcomes = {"forward"}
  SinkFailure <- SQSSinks
  FlushFails = FALSE
  Raising = {}
  OnFault = FALSE
  Kills = FALSE
  MaxRuns = 1
INVARIANT RestOfBatchMoves
