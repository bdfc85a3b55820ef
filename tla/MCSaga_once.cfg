SPECIFICATION Spec
CONSTANTS
  a = a
  b = b
  k1 = k1
  k2 = k2
  s1 = s1
  e1 = e1
  e2 = e2
  e3 = e3
  c1 = c1
  v1 = v1
  v2 = v2
  x1 = x1
  NoSuffix = NoSuffix
  Events = {e1, e3}
  Keys = {k1, k2}
  Suffixes = {s1}
  Kinds = {a, b}
  Kind <- MCKind
  OwnKey <- MCData
  Data <- MCData
  Correlates = {c1}
  Evaluates = {v1, v2}
  Expireds = {x1}
  CorrelateKey <- MCCorrelateKey
  CorrelateSuffix <- MCCorrelateSuffix
  EvaluateSuffix <- MCEvaluateSuffix
  HasExpression = {v1, v2}
  Needed <- BothKinds
  Ttl <- MCTtl
  CorrelateTtl <- NoOwnTtl
  Expires <- MCExpires
  CorrelateExpires = {c1}
  IndexLag = FALSE
  MayFault = FALSE
  MaxDeliveries = 1
  MaxRetries = 1
  MaxRemovals <- RemovalsOfE1
  MaxTime = 1
INVARIANT EmittedOnlyWhenComplete
INVARIANT OneIdPerStoredItem
INVARIANT ExpiryReported
