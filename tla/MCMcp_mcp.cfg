SPECIFICATION Spec
CONSTANTS
  Capabilities = {"charge", "refund", "order", "cancel"}
  Kind <- KindOf
  Signature <- SignatureOf
  Async = {"refund"}
  Matches <- UriMatches
  Mirrored = {"amount"}
  PageCap = 2
  Connections = {"c1"}
  Requests <- Sent
  MaxReports = 2
INVARIANTS
  TypeOK
  AnswerEndsTheStream
  PagesComplete
PROPERTY EveryExchangeEnds
