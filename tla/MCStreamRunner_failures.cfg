SPECIFICATION Spec
CONSTANTS
  NumPipelines = 3
  NumEvents = 2
  PoolSize = 2
  Concurrency <- Pooled
  BatchSize = 2
  Outcomes = {"forward", "filter", "fault", "stray", "error"}
  SinkFailure <- MixedSinks
  FlushFails = FALSE
  Raising = {"on_next", "on_error", "on_completed", "on_fault"}
  OnFault = TRUE
  Kills = TRUE
  MaxRuns = 1
INVARIANT FlushAfterLastLine
INVARIANT LatchCountsOpenLines
INVARIANT DeliveredInOrder
INVARIANT CompletedLineSettledItsBatch
