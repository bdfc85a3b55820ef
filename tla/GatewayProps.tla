------------------------------ MODULE GatewayProps ------------------------------
(***************************************************************************)
(* What is promised of the API Gateway resolver: which requests a route    *)
(* serves, what the others are told, what runs around a handler and how    *)
(* often, and that nothing of a request reaches the next one.              *)
(***************************************************************************)
EXTENDS Gateway

Phases == {"idle", "invoke", "down", "solve", "fallback", "up", "unwind"}
Link   == Middlewares \cup {"validate", "endpoint"}

\* Every table of the router refers to routes that it has, and the chain is only left from
\* one of its links: the maps kept besides the list of routes (Router._add_route) and the
\* stack built from it never point outside it.
TypeOK ==
  /\ routes \in Seq([method : RouteMethods, rule : Rules, handler : Handlers, cors : BOOLEAN])
  /\ pending \in Seq(Declared) /\ including \in Nat
  /\ Len(stacks) = Len(routes) /\ Len(known) = Len(routes)
  /\ \A i \in DOMAIN routes : stacks[i] \in Seq(Link) /\ known[i] \in Seq(Middlewares)
  /\ static \in [RouteMethods \X Paths -> 0 .. Len(routes)]
  /\ dynamic \in Seq(DOMAIN routes)
  /\ pathMethods \in [Rules -> SUBSET corsMethods] /\ corsMethods \subseteq RouteMethods
  /\ globals \in Seq(Middlewares) /\ overrides \in [Dependencies -> Callables]
  /\ phase \in Phases /\ route \in 0 .. Len(routes) /\ allowed \subseteq corsMethods
  /\ cachedRequest \in 0 .. MaxRequests /\ request.no \in 0 .. MaxRequests
  /\ chain \in Seq(Link) /\ pos \in 0 .. Len(chain) /\ entered \in Seq(Middlewares)
  /\ cache \subseteq Callables /\ calls \in [Callables -> Nat]
  /\ exception \in Exceptions \cup {"none"} /\ response \in Responses \cup {"none"}
  /\ (phase = "unwind") = (exception # "none")

Covers(r, path) == r.rule = path \/ (r.rule \in DynamicRules /\ path \in Matches[r.rule])

\* A request is served exactly if some registered or included route covers its path and its
\* method, and by such a route; otherwise the methods it is told to use are those of every
\* route that covers the path, static or dynamic, and it is not found only if none does
\* (Router.match over the maps that _add_route keeps).
RoutedExactly ==
  phase = "invoke" =>
    LET covering == {i \in DOMAIN routes : Covers(routes[i], request.path)}
        serving  == {i \in covering : routes[i].method \in {request.method, "ANY"}}
    IN  IF serving # {}
        THEN route \in serving
        ELSE route = 0 /\ allowed = {routes[i].method : i \in covering}

\* What has been entered when a handler, or the fallback, runs: the application's middlewares
\* and then the route's own, each once, and for all requests of a route the ones that the
\* application had at the first of them, whatever was registered, raised or answered since
\* (Route._build_middleware_stack, Route.invoke).
ChainRunsOnce ==
  phase \in {"solve", "fallback"} =>
    entered = IF route = 0 THEN globals
              ELSE known[route] \o Own[routes[route].handler]

\* The dependencies a handler needs, directly or through others: what is in every set that has
\* the direct ones and, with a use of a dependency, what that dependency uses.
Direct(h) == {Needs[h][i] : i \in DOMAIN Needs[h]}
Closed(S) == \A u \in S : \A i \in DOMAIN Subs[u.dep] : Subs[u.dep][i] \in S
Uses ==
  [h \in Handlers |->
     {u \in Use : \A S \in SUBSET Use : Direct(h) \subseteq S /\ Closed(S) => u \in S}]

\* When a handler runs, every callable that stands for a dependency it needs, by itself or
\* as an override, has been called in this request, and exactly once if all uses of it are
\* cached: no value is left over from another request and none is computed twice.  Two
\* dependencies must not share a callable: the second would be taken from the cache, and what
\* it depends on not be called (solve_dependencies).
CachedOnce ==
  phase = "solve" /\ agenda = << >> =>
    LET uses   == Uses[routes[route].handler]
        needed == {u.dep : u \in uses}
    IN  (\A d, e \in needed : overrides[d] = overrides[e] => d = e) =>
          \A d \in needed :
            /\ calls[overrides[d]] > 0
            /\ [dep |-> d, cached |-> FALSE] \notin uses => calls[overrides[d]] = 1

\* Middlewares, dependencies and handlers see the Request of the event being resolved, also
\* after a request whose exception left resolve before clear_context (app.request).
RequestIsCurrent == phase # "idle" => cachedRequest \in {0, request.no}

\* README.md: "Pass `CORSConfig` to the resolver to add CORS headers and automatic preflight
\* behavior": an answer to a request from an allowed origin has the CORS headers.
CorsOnEveryAnswer ==
  phase = "idle" /\ CorsEnabled /\ request.origin /\ answer.response = "preflight" => answer.cors
===============================================================================
