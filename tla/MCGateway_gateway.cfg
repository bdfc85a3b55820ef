SPECIFICATION Spec
CONSTANTS
  Paths = {"/items", "/items/1"}
  DynamicRules = {"item"}
  Matches <- ItemsMatches
  Methods = {"GET", "OPTIONS"}
  Middlewares = {"log", "audit"}
  Shared = {"log"}
  Declared <- Routes
  Handlers = {"read", "write"}
  Own <- OwnChains
  Params <- ParamsOf
  Needs <- NeedsOf
  Subs <- SubsOf
  Callables = {"settings", "user", "session", "fake", "stub"}
  Accepts <- AcceptsOf
  Replacements <- TestReplaces
  Handled = {"NotFoundError"}
  Raised = {"NotFoundError"}
  CorsEnabled = TRUE
  MaxRoutes = 2
  MaxRequests = 2
INVARIANTS
  TypeOK
  RoutedExactly
  ChainRunsOnce
  CachedOnce
  RequestIsCurrent
