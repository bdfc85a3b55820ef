SPECIFICATION FairSpec
CONSTANTS
  a = a
  b = b
  k1 = k1
  k2 = k2
  s1 = s1
  e1 = e1
  e2 = e2
  e3 = e3
  c1 = c1
  v1 = v1
  v2 = v2
  x1 = x1
  NoSuffix = NoSuffix
  Events = {e1, e2}
  Keys = {k1}
  Suffixes = {}
  Kinds = {a, b}
  Kind <- MCKind
  OwnKey <- MCData
  Data <- MCData
  Correlates = {}
  Evaluates = {v2}
  Expireds = {}
  CorrelateKey <- MCCorrelateKey
  CorrelateSuffix <- MCCorrelateSuffix
  EvaluateSuffix <- MCEvaluateSuffix
  HasExpression = {v2}
  Needed <- BothKinds
  Ttl <- MCTtl
  CorrelateTtl <- NoOwnTtl
  Expires <- MCExpires
  CorrelateExpires = {}
  IndexLag = TRUE
  MayFault = FALSE
  MaxDeliveries = 1
  MaxRetries = 0
  MaxRemovals <- NoRemovals
  MaxTime = 0
PROPERTY CollectedSagaEmits
