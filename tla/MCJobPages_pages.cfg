SPECIFICATION FairSpec
CONSTANTS
  k1 = k1
  k2 = k2
  NumJobs = 2
  NumItems = 5
  Limit = 2
  Units <- MixedUnits
  Keys = {k1, k2}
  MaxRetries = 1
  BatchSize = 2
  Guarded = {2}
  MaxBatch = 2
  MaxFailures = 2
INVARIANT TypeOK
INVARIANT CursorBehindWork
INVARIANT EachKeyAnsweredOnce
PROPERTY PublishedOnce
PROPERTY JobEndsOrStalls
