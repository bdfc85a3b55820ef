SPECIFICATION FairSpec
CONSTANTS
  NumPipelines = 2
  NumEvents = 2
  PoolSize = 2
  Concurrency <- Pooled
  BatchSize = 1
  Outcomes = {"forward"}
  SinkFailure <- PublisherSinks
  FlushFails = FALSE
  Raising = {}
  OnFault = FALSE
  Kills = FALSE
  MaxRuns = 1
PROPERTY UnhandledExceptionStopsProcessing
CHECK_DEADLOCK FALSE
