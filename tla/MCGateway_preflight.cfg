SPECIFICATION Spec
CONSTANTS
  Paths = {"/items", "/items/1"}
  DynamicRules = {"item"}
  Matches <- ItemsMatches
  Methods = {"GET", "OPTIONS"}
  Middlewares = {"log", "audit"}
  Shared = {}
  Declared <- Routes
  Handlers = {"read", "write"}
  Own <- OwnChains
  Params <- ParamsOf
  Needs <- NeedsOf
  Subs <- SubsOf
  Callables = {"settings", "user", "session", "fake", "stub"}
  Accepts <- AcceptsOf
  Replacements = {}
  Handled = {}
  Raised = {}
  CorsEnabled = TRUE
  MaxRoutes = 1
  MaxRequests = 1
INVARIANT
  CorsOnEveryAnswer
