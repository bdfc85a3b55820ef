-------------------------------- MODULE Gateway --------------------------------
(***************************************************************************)
(* The API Gateway event handler: routes, the middleware chain, parameter  *)
(* validation, dependency injection, exception handlers and the fallbacks  *)
(* for unmatched requests, over a sequence of registrations and requests.  *)
(*                                                                         *)
(* Lambda gives a container one request at a time: everything here is one  *)
(* thread, and what matters is the order of the steps and what outlives a  *)
(* request.  Middlewares, dependencies, handlers and exception handlers    *)
(* are user code: each may answer, raise, or go on.                        *)
(***************************************************************************)
EXTENDS Naturals, Sequences, FiniteSets

CONSTANTS
  Paths,          \* request paths; a path is also the rule of a static route
  DynamicRules,   \* rules with parameters
  Matches,        \* the paths that the regex of a dynamic rule matches
  Methods,        \* HTTP methods
  Middlewares,    \* middlewares of the application and of its routes
  Shared,         \* those of the application
  Handlers,       \* endpoint functions
  Declared,       \* the routes that the application and its routers may register, with the
                  \* cors argument they are given
  Own,            \* per handler, the middlewares of its route
  Params,         \* per handler, the declarations of its parameters
  Needs,          \* per handler, its dependencies
  Subs,           \* per dependency, the dependencies of its callable; get_dependant walks them
                  \* by recursion, which ends
  Callables,      \* dependencies and their overrides
  Accepts,        \* per callable, the dependencies it takes as parameters
  Replacements,   \* the overrides that tests may set: dependency and callable
  Handled,        \* exception classes with a registered handler
  Raised,         \* exception classes that user code raises
  CorsEnabled,    \* the resolver has a CORSConfig
  MaxRoutes, MaxRequests  \* bounds

Rules        == Paths \cup DynamicRules
RouteMethods == Methods \cup {"ANY"}
Dependencies == DOMAIN Subs
Sources      == {"path", "query", "header", "cookie", "body"}

\* A parameter is named after a segment of the rule or not, a scalar or a model, may have a
\* marker (Annotated) and a default.
Declarations ==
  [named : BOOLEAN, type : {"scalar", "model"}, marker : Sources \cup {"none"},
   default : {"none", "text", "other"}]

Use          == [dep : Dependencies, cached : BOOLEAN]

\* The exceptions of the framework and of Python, each with its bases.
Bases ==
  [RequestValidationError    |-> <<"RequestValidationError", "ValidationException", "Exception">>,
   NotFoundError             |-> <<"NotFoundError", "ServiceError", "Exception">>,
   MethodNotAllowedError     |-> <<"MethodNotAllowedError", "ServiceError", "Exception">>,
   UnauthorizedError         |-> <<"UnauthorizedError", "ServiceError", "Exception">>,
   ForbiddenError            |-> <<"ForbiddenError", "ServiceError", "Exception">>,
   DependencyResolutionError |-> <<"DependencyResolutionError", "Exception">>,
   AssertionError            |-> <<"AssertionError", "Exception">>,
   JSONDecodeError           |-> <<"JSONDecodeError", "Exception">>,
   DomainError               |-> <<"DomainError", "Exception">>]
Exceptions == DOMAIN Bases

ASSUME ConstantsAssumption ==
  /\ DynamicRules \cap Paths = {}
  /\ Matches \in [DynamicRules -> SUBSET Paths]
  /\ "ANY" \notin Methods
  /\ Shared \subseteq Middlewares
  /\ Declared \subseteq [method : RouteMethods, rule : Rules, handler : Handlers,
                         cors : {"default", "on", "off"}]
  /\ Own \in [Handlers -> Seq(Middlewares)]
  /\ {"validate", "endpoint"} \cap Middlewares = {}
  /\ Params \in [Handlers -> SUBSET Declarations]
  /\ Needs \in [Handlers -> Seq(Use)]
  /\ Subs \in [Dependencies -> Seq(Use)]
  /\ \E rank \in [Dependencies -> 0 .. Cardinality(Dependencies)] :
       \A d \in Dependencies : \A i \in DOMAIN Subs[d] : rank[Subs[d][i].dep] < rank[d]
  /\ Dependencies \subseteq Callables
  /\ Accepts \in [Callables -> SUBSET Dependencies]
  /\ Replacements \subseteq Dependencies \X Callables
  /\ Raised \subseteq Exceptions
  /\ CorsEnabled \in BOOLEAN
  /\ MaxRoutes \in Nat /\ MaxRequests \in Nat

VARIABLES
  \* the application
  routes,       \* Router._routes: method, rule, handler, cors
  stacks,       \* per route, its middleware stack; empty until built
  static,       \* _static_routes: the route of a method and path, or 0
  dynamic,      \* _dynamic_routes
  pathMethods,  \* _path_methods
  corsMethods,  \* cors_methods
  pending,      \* routes of another Router
  including,    \* the next of them that include_router copies, or 0
  globals,      \* _router_middlewares
  overrides,    \* dependency_overrides
  \* the request
  phase, request, route, allowed,
  cachedRequest,  \* number of the request whose Request is in app.context, or 0
  chain, pos,     \* the middleware stack being called, and the link
  agenda,         \* what solve_dependencies has still to do
  cache,          \* its cache
  exception, response, answer,
  \* history
  known,        \* per route, the application's middlewares at its first request
  entered,      \* middlewares entered by the request
  calls         \* per callable, how often the request called it

tableVars    == <<routes, stacks, static, dynamic, pathMethods, corsMethods, known>>
appVars      == <<tableVars, pending, including, globals, overrides>>
matchVars    == <<request, route, allowed>>
chainVars    == <<chain, pos, entered>>
solveVars    == <<agenda, cache, calls>>
outcomeVars  == <<exception, response>>
localVars    == <<route, allowed, chainVars, solveVars, outcomeVars>>
requestVars  == <<phase, request, localVars, cachedRequest, answer>>
vars         == <<appVars, requestVars>>

\* "refused" is the 405 of the fallback, "405" the default answer to an exception.
Responses == {"own", "custom", "preflight", "refused", "200", "400", "401", "403", "404", "405"}
NoAnswer  == [response |-> "none", allow |-> {}, cors |-> FALSE]
NoRequest == [no |-> 0, method |-> "none", path |-> "none", origin |-> FALSE]

Init ==
  /\ routes = << >> /\ stacks = << >> /\ known = << >>
  /\ static = [k \in RouteMethods \X Paths |-> 0] /\ dynamic = << >>
  /\ pathMethods = [r \in Rules |-> {}] /\ corsMethods = {}
  /\ pending = << >> /\ including = 0 /\ globals = << >>
  /\ overrides = [d \in Dependencies |-> d]
  /\ phase = "idle" /\ request = NoRequest /\ route = 0 /\ allowed = {}
  /\ cachedRequest = 0
  /\ chain = << >> /\ pos = 0 /\ entered = << >>
  /\ agenda = << >> /\ cache = {} /\ calls = [f \in Callables |-> 0]
  /\ exception = "none" /\ response = "none" /\ answer = NoAnswer
-----------------------------------------------------------------------------
(***************************************************************************)
(* Registration.                                                           *)
(***************************************************************************)

\* use, @app.middleware
UseMiddleware(m) ==
  /\ phase = "idle" /\ including = 0
  /\ \A i \in DOMAIN globals : globals[i] # m
  /\ globals' = Append(globals, m)
  /\ UNCHANGED <<tableVars, pending, including, overrides, requestVars>>

\* Mutant: counted after the route is appended.
MutRegisterBeyond(r) ==
  /\ routes' = Append(routes, r)
  /\ stacks' = Append(stacks, << >>) /\ known' = Append(known, << >>)
  /\ pathMethods' = [pathMethods EXCEPT ![r.rule] = @ \cup {r.method}]
  /\ corsMethods' = corsMethods \cup {r.method}
  /\ IF r.rule \in DynamicRules
     THEN dynamic' = Append(dynamic, Len(routes') + 1) /\ UNCHANGED static
     ELSE static' = [static EXCEPT ![<<r.method, r.rule>>] = Len(routes') + 1] /\ UNCHANGED dynamic

\* Router._add_route
Register(r) ==
  /\ routes' = Append(routes, r)
  /\ stacks' = Append(stacks, << >>) /\ known' = Append(known, << >>)
  /\ pathMethods' = [pathMethods EXCEPT ![r.rule] = @ \cup {r.method}]
  /\ corsMethods' = corsMethods \cup {r.method}
  /\ IF r.rule \in DynamicRules
     THEN dynamic' = Append(dynamic, Len(routes) + 1) /\ UNCHANGED static
     ELSE static' = [static EXCEPT ![<<r.method, r.rule>>] = Len(routes) + 1] /\ UNCHANGED dynamic

\* A route without a cors setting of its own has the default: the application's, but no CORS
\* on a route of a Router, which stays so when the application includes it.
Configured(r, default) ==
  [method |-> r.method, rule |-> r.rule, handler |-> r.handler,
   cors |-> r.cors = "on" \/ (r.cors = "default" /\ default)]

AddRoute(r) ==
  /\ phase = "idle" /\ including = 0
  /\ Len(routes) < MaxRoutes
  /\ Register(Configured(r, CorsEnabled))
  /\ UNCHANGED <<pending, including, globals, overrides, requestVars>>

\* A route of a Router that is, or is not yet, included.
AddPending(r) ==
  /\ phase = "idle" /\ including = 0
  /\ Len(routes) + Len(pending) < MaxRoutes
  /\ pending' = Append(pending, r)
  /\ UNCHANGED <<tableVars, including, globals, overrides, requestVars>>

\* include_router copies the routes that the router has by now.
IncludeRouter ==
  /\ phase = "idle" /\ including = 0
  /\ pending # << >> /\ Len(routes) < MaxRoutes
  /\ including' = 1
  /\ UNCHANGED <<tableVars, pending, globals, overrides, requestVars>>

IncludeNext ==
  /\ including # 0
  /\ IF including <= Len(pending)
     THEN Register(Configured(pending[including], FALSE)) /\ including' = including + 1
     ELSE including' = 0 /\ UNCHANGED tableVars
  /\ UNCHANGED <<pending, globals, overrides, requestVars>>

\* A test replaces a dependency.
Override(d, f) ==
  /\ phase = "idle" /\ including = 0
  /\ overrides[d] # f
  /\ overrides' = [overrides EXCEPT ![d] = f]
  /\ UNCHANGED <<tableVars, pending, including, globals, requestVars>>
-----------------------------------------------------------------------------
(***************************************************************************)
(* Routing.                                                                *)
(***************************************************************************)

Fits(i, path) == path \in Matches[routes[dynamic[i]].rule]

\* Router.match: the static route, the static route of any method, or the first dynamic
\* route whose pattern and method fit.
Match(method, path) ==
  LET named == static[method, path]
      any   == static["ANY", path]
      fits  == {i \in DOMAIN dynamic :
                  Fits(i, path) /\ routes[dynamic[i]].method \in {method, "ANY"}}
  IN  CASE named # 0 -> named
        [] named = 0 /\ any # 0 -> any
        [] named = 0 /\ any = 0 /\ fits # {} ->
             dynamic[CHOOSE i \in fits : \A k \in fits : i <= k]
        [] OTHER -> 0

\* Mutant: only the methods of the dynamic routes.
MutAllowedMethodsDynamic(path) ==
  {routes[dynamic[i]].method : i \in {k \in DOMAIN dynamic : Fits(k, path)}}

AllowedMethods(path) ==
  pathMethods[path] \cup {routes[dynamic[i]].method : i \in {k \in DOMAIN dynamic : Fits(k, path)}}

\* Mutant: the context of the last request is kept.
MutResolveKeepsContext(method, path, origin) ==
  /\ phase = "idle" /\ including = 0
  /\ request.no < MaxRequests
  /\ request' = [no |-> request.no + 1, method |-> method, path |-> path, origin |-> origin]
  /\ route' = Match(method, path)
  /\ allowed' = IF route' = 0 THEN AllowedMethods(path) ELSE {}
  /\ known' = IF route' = 0 \/ stacks[route'] # << >> THEN known
              ELSE [known EXCEPT ![route'] = globals]
  /\ phase' = "invoke" /\ entered' = << >> /\ answer' = NoAnswer
  /\ UNCHANGED <<routes, stacks, static, dynamic, pathMethods, corsMethods, pending, including,
                 globals, overrides, cachedRequest, chain, pos, solveVars, outcomeVars>>

\* resolve, up to the call of the route or of the synthetic route.
Resolve(method, path, origin) ==
  /\ phase = "idle" /\ including = 0
  /\ request.no < MaxRequests
  /\ request' = [no |-> request.no + 1, method |-> method, path |-> path, origin |-> origin]
  /\ cachedRequest' = 0
  /\ route' = Match(method, path)
  /\ allowed' = IF route' = 0 THEN AllowedMethods(path) ELSE {}
  /\ known' = IF route' = 0 \/ stacks[route'] # << >> THEN known
              ELSE [known EXCEPT ![route'] = globals]
  /\ phase' = "invoke" /\ entered' = << >> /\ answer' = NoAnswer
  /\ UNCHANGED <<routes, stacks, static, dynamic, pathMethods, corsMethods, pending, including,
                 globals, overrides, chain, pos, solveVars, outcomeVars>>

Chain(own) == <<"validate">> \o globals \o own \o <<"endpoint">>

\* Mutant: the stack is built for every request.
MutInvokeRebuilds ==
  /\ phase = "invoke"
  /\ chain' = Chain(IF route = 0 THEN << >> ELSE Own[routes[route].handler])
  /\ stacks' = IF route = 0 THEN stacks ELSE [stacks EXCEPT ![route] = chain']
  /\ phase' = "down" /\ pos' = 1
  /\ UNCHANGED <<routes, static, dynamic, pathMethods, corsMethods, known, pending, including,
                 globals, overrides, matchVars, cachedRequest, entered, solveVars, outcomeVars,
                 answer>>

\* Route.invoke: a route's stack is built at its first request and then kept; a synthetic
\* route is new for every request.
Invoke ==
  /\ phase = "invoke"
  /\ chain' = CASE route = 0 -> Chain(<< >>)
                [] route # 0 /\ stacks[route] # << >> -> stacks[route]
                [] OTHER -> Chain(Own[routes[route].handler])
  /\ stacks' = IF route = 0 THEN stacks ELSE [stacks EXCEPT ![route] = chain']
  /\ phase' = "down" /\ pos' = 1
  /\ UNCHANGED <<routes, static, dynamic, pathMethods, corsMethods, known, pending, including,
                 globals, overrides, matchVars, cachedRequest, entered, solveVars, outcomeVars,
                 answer>>
-----------------------------------------------------------------------------
(***************************************************************************)
(* The middleware chain, inwards.                                          *)
(***************************************************************************)

Unchanged(rest) == UNCHANGED <<appVars, matchVars, answer, rest>>

Raise(e) == exception' = e /\ phase' = "unwind"

InRule(p, rule) == p.named /\ rule \in DynamicRules

\* analyze_param: the marker, or else the rule and the type, say where a value comes from.
Source(p, rule) ==
  CASE p.marker # "none" -> p.marker
    [] p.marker = "none" /\ InRule(p, rule) -> "path"
    [] p.marker = "none" /\ ~InRule(p, rule) /\ p.type = "scalar" -> "query"
    [] OTHER -> "body"

\* A header's text default is taken as its name.
Required(p, rule) ==
  InRule(p, rule) \/ p.default = "none" \/ (p.marker = "header" /\ p.default = "text")

\* Declarations that get_dependant refuses.
Misfits(p, rule) ==
  /\ InRule(p, rule)
  /\ p.type = "model" \/ p.marker \notin {"none", "path"} \/ (p.marker = "path" /\ p.default # "none")

\* What validation finds: a scalar takes the first of several values of a form field, and
\* none of several in the query or the headers; a model of the query or the headers is built
\* from the values there are, and without any lacks the ones it requires.
Found(p, source, value) ==
  CASE source \in {"query", "header"} /\ p.type = "scalar" /\ value = "several" -> "invalid"
    [] source \in {"query", "header"} /\ p.type = "model" /\ value = "absent" -> "invalid"
    [] value = "several" /\ (source = "body" \/ p.type = "model") -> "valid"
    [] OTHER -> value

\* A required value is missing, or a value does not validate.
ParamErrors(params, rule, given) ==
  {p \in params : LET found == Found(p, Source(p, rule), given[p])
                  IN  found = "invalid" \/ (found = "absent" /\ Required(p, rule))}

\* Several body parameters are the fields of the body, which must be a mapping; a single
\* one is the body itself.
BodyErrors(params, rule, given, shape) ==
  IF params # {} /\ (\E p, q \in params : p # q) /\ shape = "other"
  THEN params
  ELSE ParamErrors(params, rule, given)

\* DependencyMiddleware: the declarations are analysed now; then the parameters from all
\* sources and the body, where a body that is no JSON raises before the errors found so far
\* are reported.
Validate ==
  /\ phase = "down" /\ chain[pos] = "validate"
  /\ LET rule   == IF route = 0 THEN "none" ELSE routes[route].rule
         params == IF route = 0 THEN {} ELSE Params[routes[route].handler]
         body   == {p \in params : Source(p, rule) = "body"}
         next   == phase' = "down" /\ pos' = pos + 1 /\ UNCHANGED exception
     IN  IF \E p \in params : Misfits(p, rule)
         THEN Raise("AssertionError") /\ UNCHANGED pos
         ELSE \E given \in [params -> {"valid", "several", "invalid", "absent"}],
                 shape \in IF body = {} THEN {"mapping"} ELSE {"mapping", "other", "malformed"} :
                CASE shape = "malformed" -> Raise("JSONDecodeError") /\ UNCHANGED pos
                  [] shape # "malformed" /\ ParamErrors(params \ body, rule, given)
                                            \cup BodyErrors(body, rule, given, shape) # {} ->
                       Raise("RequestValidationError") /\ UNCHANGED pos
                  [] OTHER -> next
  /\ Unchanged(<<cachedRequest, chain, entered, solveVars, response>>)

\* app.request: a Request that app.context keeps until it is cleared.
ReadRequest == cachedRequest' = IF cachedRequest = 0 THEN request.no ELSE cachedRequest

\* A middleware calls the next link, answers by itself, or raises.
Enter ==
  /\ phase = "down" /\ chain[pos] \in Middlewares
  /\ entered' = Append(entered, chain[pos])
  /\ ReadRequest
  /\ \/ phase' = "down" /\ pos' = pos + 1 /\ UNCHANGED <<exception, response>>
     \/ phase' = "up" /\ response' = "own" /\ UNCHANGED <<pos, exception>>
     \/ \E e \in Raised : Raise(e) /\ UNCHANGED <<pos, response>>
  /\ Unchanged(<<chain, solveVars>>)

Visits(uses) == [i \in DOMAIN uses |-> [do |-> "solve", use |-> uses[i]]]

\* RouteEndpointInvoker: the dependencies, then the handler.
Endpoint ==
  /\ phase = "down" /\ chain[pos] = "endpoint"
  /\ cache' = {} /\ calls' = [f \in Callables |-> 0]
  /\ IF route = 0
     THEN phase' = "fallback" /\ agenda' = << >>
     ELSE phase' = "solve" /\ agenda' = Visits(Needs[routes[route].handler])
  /\ Unchanged(<<cachedRequest, chainVars, outcomeVars>>)

\* Mutant: the cache is read under the dependency and written under its override.
MutSolveLooksUpOriginal ==
  /\ phase = "solve" /\ agenda # << >> /\ Head(agenda).do = "solve"
  /\ LET use == Head(agenda).use
     IN  agenda' = IF use.cached /\ use.dep \in cache
                   THEN Tail(agenda)
                   ELSE Visits(Subs[use.dep]) \o <<[do |-> "call", use |-> use]>> \o Tail(agenda)
  /\ Unchanged(<<phase, cachedRequest, chainVars, cache, calls, outcomeVars>>)

\* solve_dependencies: the value is in the cache, under its override, or the dependency's own
\* dependencies are solved first.
Solve ==
  /\ phase = "solve" /\ agenda # << >> /\ Head(agenda).do = "solve"
  /\ LET use == Head(agenda).use
     IN  agenda' = IF use.cached /\ overrides[use.dep] \in cache
                   THEN Tail(agenda)
                   ELSE Visits(Subs[use.dep]) \o <<[do |-> "call", use |-> use]>> \o Tail(agenda)
  /\ Unchanged(<<phase, cachedRequest, chainVars, cache, calls, outcomeVars>>)

\* An override gets the values of the dependencies that it replaces the callable of, whether
\* it has such parameters or not.
Takes(use) == {Subs[use.dep][i].dep : i \in DOMAIN Subs[use.dep]} \subseteq Accepts[overrides[use.dep]]

\* resolver.resolve: whatever it raises becomes a DependencyResolutionError.
Call ==
  /\ phase = "solve" /\ agenda # << >> /\ Head(agenda).do = "call"
  /\ LET use    == Head(agenda).use
         target == overrides[use.dep]
     IN  \/ /\ Takes(use)
            /\ calls' = [calls EXCEPT ![target] = @ + 1]
            /\ cache' = IF use.cached THEN cache \cup {target} ELSE cache
            /\ agenda' = Tail(agenda)
            /\ UNCHANGED <<phase, exception>>
         \/ /\ ~Takes(use) \/ Raised # {}
            /\ Raise("DependencyResolutionError") /\ agenda' = << >>
            /\ UNCHANGED <<cache, calls>>
  /\ ReadRequest
  /\ Unchanged(<<chainVars, response>>)

\* The handler returns or raises.
Handle ==
  /\ phase = "solve" /\ agenda = << >>
  /\ ReadRequest
  /\ \/ phase' = "up" /\ response' = "200" /\ UNCHANGED exception
     \/ \E e \in Raised : Raise(e) /\ UNCHANGED response
  /\ Unchanged(<<chainVars, solveVars>>)
-----------------------------------------------------------------------------
(***************************************************************************)
(* Unmatched requests and exceptions.                                      *)
(***************************************************************************)

\* lookup_exception_handler: the first class of the MRO that has a handler.
HasHandler(e) == \E i \in DOMAIN Bases[e] : Bases[e][i] \in Handled

Preflight == CorsEnabled /\ request.method = "OPTIONS"

\* not_found_handler, method_not_allowed_handler.
Fallback ==
  /\ phase = "fallback"
  /\ LET missed == IF allowed = {} THEN "NotFoundError" ELSE "MethodNotAllowedError"
         status == IF allowed = {} THEN "404" ELSE "refused"
     IN  IF Preflight
         THEN phase' = "up" /\ response' = "preflight" /\ UNCHANGED exception
         ELSE \/ phase' = "up" /\ response' = status /\ UNCHANGED exception
              \/ /\ HasHandler(missed)
                 /\ \/ phase' = "up" /\ response' = "custom" /\ UNCHANGED exception
                    \/ \E e \in Raised : Raise(e) /\ UNCHANGED response
  /\ Unchanged(<<cachedRequest, chainVars, solveVars>>)

\* _default_error_response
DefaultResponse(e) ==
  CASE e = "RequestValidationError" -> "400"
    [] e = "MethodNotAllowedError"  -> "405"
    [] e = "NotFoundError"          -> "404"
    [] e = "UnauthorizedError"      -> "401"
    [] e = "ForbiddenError"         -> "403"
    [] OTHER                        -> "none"

\* The locals of a request that has been answered.
Forget ==
  /\ phase' = "idle" /\ route' = 0 /\ allowed' = {}
  /\ chain' = << >> /\ pos' = 0 /\ entered' = << >>
  /\ agenda' = << >> /\ cache' = {} /\ calls' = [f \in Callables |-> 0]
  /\ exception' = "none" /\ response' = "none"

\* Outwards: a middleware passes the response on, replaces it, or raises.
Leave ==
  /\ phase = "up" /\ pos > 0
  /\ \/ /\ pos' = pos - 1
        /\ \/ UNCHANGED response
           \/ pos > 1 /\ chain[pos - 1] \in Middlewares /\ response' = "own"
        /\ UNCHANGED <<phase, exception>>
     \/ /\ pos > 1 /\ chain[pos - 1] \in Middlewares
        /\ pos' = pos - 1
        /\ \E e \in Raised : Raise(e)
        /\ UNCHANGED response
  /\ Unchanged(<<cachedRequest, chain, entered, solveVars>>)

\* An exception leaves the links; a middleware may answer instead.
Unwind ==
  /\ phase = "unwind" /\ pos > 0
  /\ pos' = pos - 1
  /\ \/ UNCHANGED <<phase, exception, response>>
     \/ /\ pos > 1 /\ chain[pos - 1] \in Middlewares
        /\ phase' = "up" /\ exception' = "none" /\ response' = "own"
  /\ Unchanged(<<cachedRequest, chain, entered, solveVars>>)

\* serialize; the fallbacks are serialized without a route and get none of its headers, and
\* only their own answers say which methods are allowed.
Serialize ==
  /\ phase = "up" /\ pos = 0
  /\ answer' = [response |-> response,
                allow |-> CASE response = "refused" -> allowed
                            [] response = "preflight" /\ allowed = {} -> corsMethods
                            [] response = "preflight" /\ allowed # {} -> allowed \cup {"OPTIONS"}
                            [] OTHER -> {},
                cors |-> route # 0 /\ request.origin /\ routes[route].cors]
  /\ cachedRequest' = 0
  /\ Forget
  /\ UNCHANGED <<appVars, request>>

\* _call_route: an exception handler's response, the default one for what the handler or
\* else the route raised, or the exception itself, which leaves resolve with the context
\* as it is.
CallExceptionHandler ==
  /\ phase = "unwind" /\ pos = 0
  /\ \E outcome \in IF HasHandler(exception) THEN {"custom", "none"} \cup Raised
                    ELSE {DefaultResponse(exception)} :
       LET r == IF outcome \in Raised THEN DefaultResponse(outcome) ELSE outcome
       IN  IF r = "none"
           THEN Forget /\ answer' = [NoAnswer EXCEPT !.response = exception]
           ELSE /\ phase' = "up" /\ response' = r /\ exception' = "none"
                /\ UNCHANGED <<route, allowed, chainVars, solveVars, answer>>
  /\ UNCHANGED <<appVars, request, cachedRequest>>

\* Nothing more to register or to request.
Finished ==
  /\ phase = "idle" /\ including = 0 /\ request.no = MaxRequests
  /\ UNCHANGED vars

Registration ==
  \/ \E m \in Shared : UseMiddleware(m)
  \/ \E r \in Declared : AddRoute(r) \/ AddPending(r)
  \/ IncludeRouter \/ IncludeNext
  \/ \E o \in Replacements : Override(o[1], o[2])

Serve ==
  \/ \E m \in Methods, p \in Paths, o \in {FALSE, CorsEnabled} : Resolve(m, p, o)
  \/ Invoke \/ Validate \/ Enter \/ Endpoint \/ Solve \/ Call \/ Handle \/ Fallback
  \/ Leave \/ Unwind \/ CallExceptionHandler \/ Serialize

Next == Registration \/ Serve \/ Finished

Spec == Init /\ [][Next]_vars
===============================================================================
