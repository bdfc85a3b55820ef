------------------------------ MODULE GatewayProofs ------------------------------
(***************************************************************************)
(* Theorems about Gateway for every application, every order of            *)
(* registrations and requests, and any number of middlewares, parameters   *)
(* and dependencies.                                                       *)
(***************************************************************************)
EXTENDS GatewayProps, SequenceTheorems, WellFoundedInduction, TLAPS

\* Middlewares, dependencies and handlers see the Request of the event being resolved, also
\* after a request whose exception left resolve with app.context as it was.
THEOREM RequestsAreCurrent == Spec => []RequestIsCurrent
<1>1. Init => RequestIsCurrent
  BY DEF Init, RequestIsCurrent
<1>2. ASSUME RequestIsCurrent, [Next]_vars PROVE RequestIsCurrent'
  <2>1. CASE Registration \/ Finished \/ UNCHANGED vars
    BY <1>2, <2>1 DEF RequestIsCurrent, Registration, UseMiddleware, AddRoute, AddPending,
       IncludeRouter, IncludeNext, Override, Finished, vars, requestVars
  <2>2. CASE \E m \in Methods, p \in Paths, o \in {FALSE, CorsEnabled} : Resolve(m, p, o)
    BY <2>2 DEF RequestIsCurrent, Resolve
  <2>3. CASE Invoke
    BY <1>2, <2>3 DEF RequestIsCurrent, Invoke, matchVars
  <2>4. CASE Validate \/ Endpoint \/ Solve \/ Fallback \/ Leave \/ Unwind
    BY <1>2, <2>4 DEF RequestIsCurrent, Validate, Endpoint, Solve, Fallback, Leave, Unwind,
       Unchanged, matchVars
  <2>5. CASE Enter \/ Call \/ Handle
    BY <1>2, <2>5 DEF RequestIsCurrent, Enter, Call, Handle, ReadRequest, Unchanged, matchVars
  <2>6. CASE CallExceptionHandler \/ Serialize
    BY <1>2, <2>6 DEF RequestIsCurrent, CallExceptionHandler, Serialize, Forget
  <2>7. QED BY <1>2, <2>1, <2>2, <2>3, <2>4, <2>5, <2>6 DEF Next, Serve
<1>3. QED BY <1>1, <1>2, PTL DEF Spec
-----------------------------------------------------------------------------
(***************************************************************************)
(* The tables of the router.                                               *)
(***************************************************************************)
RouteRecord == [method : RouteMethods, rule : Rules, handler : Handlers, cors : BOOLEAN]

\* R is the list of routes, S the table of the static ones, D the list of the dynamic ones, P
\* the methods of each rule and C those of all routes: each table has exactly the routes that
\* it stands for.
Tables(R, S, D, P, C) ==
  /\ R \in Seq(RouteRecord)
  /\ S \in [RouteMethods \X Paths -> 0 .. Len(R)]
  /\ D \in Seq(1 .. Len(R))
  /\ C \subseteq RouteMethods /\ P \in [Rules -> SUBSET C]
  /\ \A k \in RouteMethods \X Paths : S[k] # 0 => R[S[k]].method = k[1] /\ R[S[k]].rule = k[2]
  /\ \A i \in DOMAIN R : R[i].rule \in Paths => S[<<R[i].method, R[i].rule>>] # 0
  /\ \A k \in DOMAIN D : R[D[k]].rule \in DynamicRules
  /\ \A i \in DOMAIN R : R[i].rule \in DynamicRules => \E k \in DOMAIN D : D[k] = i
  /\ \A i \in DOMAIN R : R[i].method \in P[R[i].rule]
  /\ \A rule \in Rules : \A m \in P[rule] : \E i \in DOMAIN R : R[i].rule = rule /\ R[i].method = m

TableInv == Tables(routes, static, dynamic, pathMethods, corsMethods)

LEMMA LeastExists ==
  ASSUME NEW S, S \subseteq Nat, S # {}
  PROVE  \E i \in S : \A k \in S : i <= k
<1> DEFINE R == {ss \in Nat \X Nat : ss[1] < ss[2]}
<1>1. IsWellFoundedOn(R, Nat)
  BY NatLessThanWellFounded DEF OpToRel
<1> HIDE DEF R
<1>2. PICK i \in S : \A k \in S : <<k, i>> \notin R
  BY <1>1, WFMin
<1>3. \A k \in S : ~(k < i)
  BY <1>2 DEF R
<1>4. QED BY <1>2, <1>3

\* The tables with the suffix 2 have one more route r (Router._add_route).
Grows(R, S, D, P, C, r, R2, S2, D2, P2, C2) ==
  /\ R2 = Append(R, r)
  /\ P2 = [P EXCEPT ![r.rule] = @ \cup {r.method}]
  /\ C2 = C \cup {r.method}
  /\ IF r.rule \in DynamicRules THEN D2 = Append(D, Len(R) + 1) /\ S2 = S
     ELSE S2 = [S EXCEPT ![<<r.method, r.rule>>] = Len(R) + 1] /\ D2 = D

\* A route that is appended enters the table of its rule's kind.
LEMMA TablesGrow ==
  ASSUME NEW R, NEW S, NEW D, NEW P, NEW C, Tables(R, S, D, P, C), NEW r \in RouteRecord,
         NEW R2, NEW S2, NEW D2, NEW P2, NEW C2, Grows(R, S, D, P, C, r, R2, S2, D2, P2, C2)
  PROVE  Tables(R2, S2, D2, P2, C2)
<1>0. PICK n : n = Len(R) + 1
  OBVIOUS
<1>a. /\ R2 = Append(R, r)
      /\ P2 = [P EXCEPT ![r.rule] = @ \cup {r.method}]
      /\ C2 = C \cup {r.method}
      /\ r.rule \in DynamicRules => S2 = S /\ D2 = Append(D, n)
      /\ r.rule \notin DynamicRules => S2 = [S EXCEPT ![<<r.method, r.rule>>] = n] /\ D2 = D
  BY <1>0 DEF Grows
<1>1. PICK l \in Nat : l = Len(R)
  BY LenProperties DEF Tables
<1>2. R \in Seq(RouteRecord) /\ DOMAIN R = 1..l /\ n = l + 1
  BY <1>0, <1>1, LenProperties DEF Tables
<1>3. /\ R2 \in Seq(RouteRecord) /\ Len(R2) = n
      /\ \A i \in 1..l : R2[i] = R[i]
      /\ R2[n] = r
  BY <1>a, <1>1, <1>2, AppendProperties
<1>4. DOMAIN R2 = 1..n
  BY <1>3, LenProperties
<1>5. \A i \in 1..l : R[i] \in RouteRecord
  BY <1>1, <1>2, ElementOfSeq
<1>6. /\ r.method \in RouteMethods /\ r.rule \in Rules
      /\ \A i \in 1..l : R[i].method \in RouteMethods /\ R[i].rule \in Rules
  BY <1>5 DEF RouteRecord
<1>7. \A i \in 1..n : (i \in 1..l /\ R2[i] = R[i]) \/ (i = n /\ R2[i] = r)
  BY <1>1, <1>2, <1>3
<1>8. C2 \subseteq RouteMethods /\ P2 \in [Rules -> SUBSET C2]
  BY <1>a, <1>6 DEF Tables
<1>9. /\ S \in [RouteMethods \X Paths -> 0..l] /\ D \in Seq(1..l)
      /\ P \in [Rules -> SUBSET C]
  BY <1>1 DEF Tables
<1>10. /\ P2[r.rule] = P[r.rule] \cup {r.method}
       /\ \A rule \in Rules : P[rule] \subseteq P2[rule]
       /\ \A rule \in Rules : rule # r.rule => P2[rule] = P[rule]
  BY <1>a, <1>6, <1>9
<1>11. \A i \in DOMAIN R2 : R2[i].method \in P2[R2[i].rule]
  <2>1. ASSUME NEW i \in 1..l PROVE R[i].method \in P2[R[i].rule]
    <3>1. R[i].method \in P[R[i].rule]
      BY <1>2 DEF Tables
    <3>2. QED BY <1>6, <1>10, <3>1
  <2>2. r.method \in P2[r.rule]
    BY <1>6, <1>10
  <2>3. QED BY <1>3, <1>4, <1>7, <2>1, <2>2
<1>12. \A rule \in Rules : \A m \in P2[rule] : \E i \in DOMAIN R2 : R2[i].rule = rule /\ R2[i].method = m
  <2>1. ASSUME NEW rule \in Rules, NEW m \in P2[rule]
        PROVE  \E i \in DOMAIN R2 : R2[i].rule = rule /\ R2[i].method = m
    <3>1. CASE m \in P[rule]
      <4>0. \E i \in DOMAIN R : R[i].rule = rule /\ R[i].method = m
        <5>1. \A x \in P[rule] : \E i \in DOMAIN R : R[i].rule = rule /\ R[i].method = x
          BY <2>1 DEF Tables
        <5>2. QED BY <3>1, <5>1, Zenon
      <4>1. PICK i \in 1..l : R[i].rule = rule /\ R[i].method = m
        BY <1>2, <4>0
      <4>2. i \in DOMAIN R2 /\ R2[i] = R[i]
        BY <1>2, <1>3, <1>4
      <4>3. QED BY <4>1, <4>2
    <3>2. CASE rule = r.rule /\ m = r.method
      <4>1. n \in DOMAIN R2
        BY <1>2, <1>4
      <4>2. QED BY <1>3, <3>2, <4>1
    <3>3. QED BY <1>10, <2>1, <3>1, <3>2
  <2>2. QED BY <2>1
<1>13. CASE r.rule \in DynamicRules
  <2>1. S2 = S /\ D2 = Append(D, n) /\ r.rule \notin Paths
    BY <1>a, <1>13, ConstantsAssumption
  <2>2. PICK d \in Nat : d = Len(D) /\ DOMAIN D = 1..d
    BY <1>9, LenProperties
  <2>3. D \in Seq(1..n)
    <3>1. 1..l \subseteq 1..n
      BY <1>2
    <3>2. QED BY <1>9, <3>1, SeqMonotonic
  <2>4. n \in 1..n
    BY <1>2
  <2>5. /\ D2 \in Seq(1..n) /\ Len(D2) = d + 1
        /\ \A k \in 1..d : D2[k] = D[k]
        /\ D2[d + 1] = n
    BY <2>1, <2>2, <2>3, <2>4, AppendProperties
  <2>6. DOMAIN D2 = 1..(d + 1)
    BY <2>5, LenProperties
  <2>7. \A k \in 1..d : D[k] \in 1..l
    BY <1>9, <2>2, ElementOfSeq
  <2>8. S2 \in [RouteMethods \X Paths -> 0..n]
    BY <1>2, <1>9, <2>1
  <2>9. ASSUME NEW k \in RouteMethods \X Paths, S2[k] # 0
        PROVE  R2[S2[k]].method = k[1] /\ R2[S2[k]].rule = k[2]
    <3>1. S[k] \in 1..l
      BY <1>9, <2>1, <2>9
    <3>2. QED BY <1>3, <2>1, <2>9, <3>1 DEF Tables
  <2>10. \A i \in DOMAIN R2 : R2[i].rule \in Paths => S2[<<R2[i].method, R2[i].rule>>] # 0
    BY <1>2, <1>4, <1>7, <2>1 DEF Tables
  <2>11. \A k \in DOMAIN D2 : R2[D2[k]].rule \in DynamicRules
    <3>1. ASSUME NEW k \in 1..(d + 1) PROVE R2[D2[k]].rule \in DynamicRules
      <4>1. CASE k \in 1..d
        <5>1. R[D[k]].rule \in DynamicRules
          BY <2>2, <4>1 DEF Tables
        <5>2. QED BY <1>3, <2>5, <2>7, <4>1, <5>1
      <4>2. CASE k = d + 1
        BY <1>3, <1>13, <2>5, <4>2
      <4>3. k \in 1..d \/ k = d + 1
        BY <2>2, <3>1
      <4>4. QED BY <4>1, <4>2, <4>3
    <3>2. QED BY <2>6, <3>1
  <2>12. \A i \in DOMAIN R2 : R2[i].rule \in DynamicRules => \E k \in DOMAIN D2 : D2[k] = i
    <3>1. ASSUME NEW i \in 1..l, R[i].rule \in DynamicRules PROVE \E k \in DOMAIN D2 : D2[k] = i
      <4>1. PICK k \in 1..d : D[k] = i
        BY <1>2, <2>2, <3>1 DEF Tables
      <4>2. k \in DOMAIN D2 /\ D2[k] = i
        BY <2>2, <2>5, <2>6, <4>1
      <4>3. QED BY <4>2
    <3>2. \E k \in DOMAIN D2 : D2[k] = n
      <4>1. d + 1 \in DOMAIN D2
        BY <2>2, <2>6
      <4>2. QED BY <2>5, <4>1
    <3>3. QED BY <1>4, <1>7, <3>1, <3>2
  <2>13. QED
    BY <1>3, <1>8, <1>11, <1>12, <2>5, <2>8, <2>9, <2>10, <2>11, <2>12 DEF Tables
<1>14. CASE r.rule \notin DynamicRules
  <2>1. S2 = [S EXCEPT ![<<r.method, r.rule>>] = n] /\ D2 = D /\ r.rule \in Paths
    BY <1>a, <1>6, <1>14 DEF Rules
  <2>2. D2 \in Seq(1..n)
    <3>1. 1..l \subseteq 1..n
      BY <1>2
    <3>2. QED BY <1>9, <2>1, <3>1, SeqMonotonic
  <2>3. /\ S2 \in [RouteMethods \X Paths -> 0..n]
        /\ \A k \in RouteMethods \X Paths :
             S2[k] = IF k = <<r.method, r.rule>> THEN n ELSE S[k]
    <3>1. \A k \in RouteMethods \X Paths : S[k] \in 0..n
      BY <1>2, <1>9
    <3>2. n \in 0..n
      BY <1>2
    <3>3. QED BY <1>9, <2>1, <3>1, <3>2
  <2>4. ASSUME NEW k \in RouteMethods \X Paths, S2[k] # 0
        PROVE  R2[S2[k]].method = k[1] /\ R2[S2[k]].rule = k[2]
    <3>1. CASE k = <<r.method, r.rule>>
      BY <1>3, <2>3, <3>1
    <3>2. CASE k # <<r.method, r.rule>>
      <4>1. S2[k] = S[k] /\ S[k] \in 1..l
        BY <1>9, <2>3, <2>4, <3>2
      <4>2. QED BY <1>3, <2>4, <4>1 DEF Tables
    <3>3. QED BY <3>1, <3>2
  <2>5. \A i \in DOMAIN R2 : R2[i].rule \in Paths => S2[<<R2[i].method, R2[i].rule>>] # 0
    <3>1. ASSUME NEW i \in DOMAIN R2, R2[i].rule \in Paths PROVE S2[<<R2[i].method, R2[i].rule>>] # 0
      <4>1. <<R2[i].method, R2[i].rule>> \in RouteMethods \X Paths
        BY <1>4, <1>6, <1>7, <3>1
      <4>2. n # 0
        BY <1>2
      <4>3. CASE i \in 1..l /\ R2[i] = R[i]
        BY <1>2, <2>3, <3>1, <4>1, <4>2, <4>3 DEF Tables
      <4>4. CASE R2[i] = r
        BY <2>3, <4>1, <4>2, <4>4
      <4>5. QED BY <1>4, <1>7, <4>3, <4>4
    <3>2. QED BY <3>1
  <2>6. \A k \in DOMAIN D2 : D2[k] \in 1..l /\ R2[D2[k]].rule \in DynamicRules
    <3>1. \A k \in DOMAIN D : D[k] \in 1..l
      BY <1>9, ElementOfSeq, LenProperties
    <3>2. QED BY <1>3, <2>1, <3>1 DEF Tables
  <2>7. \A i \in DOMAIN R2 : R2[i].rule \in DynamicRules => \E k \in DOMAIN D2 : D2[k] = i
    BY <1>2, <1>4, <1>7, <1>14, <2>1 DEF Tables
  <2>8. QED
    BY <1>3, <1>8, <1>11, <1>12, <2>2, <2>3, <2>4, <2>5, <2>6, <2>7 DEF Tables
<1>15. QED BY <1>13, <1>14

\* What the registrations leave behind.
RegistryInv ==
  /\ TableInv
  /\ pending \in Seq(Declared) /\ including \in Nat
  /\ including # 0 => phase = "idle"

tables == <<routes, static, dynamic, pathMethods, corsMethods>>

LEMMA DeclaredConfigured ==
  ASSUME NEW r \in Declared, NEW cors \in BOOLEAN
  PROVE  Configured(r, cors) \in RouteRecord
<1>1. r \in [method : RouteMethods, rule : Rules, handler : Handlers,
             cors : {"default", "on", "off"}]
  BY ConstantsAssumption
<1>2. PICK c : c = (r.cors = "on" \/ (r.cors = "default" /\ cors))
  OBVIOUS
<1>3. c \in BOOLEAN
  BY <1>2
<1>4. Configured(r, cors) = [method |-> r.method, rule |-> r.rule, handler |-> r.handler, cors |-> c]
  BY <1>2, Zenon DEF Configured
<1>5. QED BY <1>1, <1>3, <1>4 DEF RouteRecord

LEMMA RegisterKeepsTables ==
  ASSUME TableInv, NEW r \in Declared, NEW cors \in BOOLEAN, Register(Configured(r, cors))
  PROVE  TableInv'
<1>1. PICK c : c = Configured(r, cors)
  OBVIOUS
<1>2. c \in RouteRecord
  BY <1>1, DeclaredConfigured
<1>3. Grows(routes, static, dynamic, pathMethods, corsMethods, c,
            routes', static', dynamic', pathMethods', corsMethods')
  BY <1>1 DEF Register, Grows
<1>4. Tables(routes', static', dynamic', pathMethods', corsMethods')
  BY <1>2, <1>3, TablesGrow DEF TableInv
<1>5. QED BY <1>4 DEF TableInv

\* Only registrations touch the application, and none happens during a request.
LEMMA ServeKeepsTables ==
  ASSUME Serve
  PROVE  tables' = tables /\ pending' = pending /\ including' = including /\ globals' = globals
<1>1. CASE \E m \in Methods, p \in Paths, o \in {FALSE, CorsEnabled} : Resolve(m, p, o)
  BY <1>1 DEF Resolve, tables
<1>2. CASE Invoke
  BY <1>2 DEF Invoke, tables
<1>3. CASE Validate \/ Enter \/ Endpoint \/ Solve \/ Call \/ Handle \/ Fallback \/ Leave \/ Unwind
  BY <1>3 DEF Validate, Enter, Endpoint, Solve, Call, Handle, Fallback, Leave, Unwind, Unchanged,
     appVars, tableVars, tables
<1>4. CASE CallExceptionHandler \/ Serialize
  BY <1>4 DEF CallExceptionHandler, Serialize, appVars, tableVars, tables
<1>5. QED BY <1>1, <1>2, <1>3, <1>4 DEF Serve

LEMMA ServeExcludesIncluding ==
  ASSUME RegistryInv, Serve PROVE including = 0
<1>1. CASE \E m \in Methods, p \in Paths, o \in {FALSE, CorsEnabled} : Resolve(m, p, o)
  BY <1>1 DEF Resolve
<1>2. CASE phase # "idle"
  BY <1>2 DEF RegistryInv
<1>3. QED BY <1>1, <1>2 DEF Serve, Invoke, Validate, Enter, Endpoint, Solve, Call, Handle, Fallback,
     Leave, Unwind, CallExceptionHandler, Serialize

LEMMA RegistryStep ==
  ASSUME RegistryInv, [Next]_vars
  PROVE  RegistryInv'
<1>1. CASE \E m \in Shared : UseMiddleware(m)
  BY <1>1 DEF UseMiddleware, RegistryInv, TableInv, tableVars, requestVars
<1>2. ASSUME NEW r \in Declared, AddRoute(r) PROVE RegistryInv'
  <2>1. TableInv'
    BY <1>2, RegisterKeepsTables, ConstantsAssumption DEF AddRoute, RegistryInv
  <2>2. QED BY <1>2, <2>1 DEF AddRoute, RegistryInv, requestVars
<1>3. ASSUME NEW r \in Declared, AddPending(r) PROVE RegistryInv'
  <2>1. pending' \in Seq(Declared)
    BY <1>3, AppendProperties DEF AddPending, RegistryInv
  <2>2. QED BY <1>3, <2>1 DEF AddPending, RegistryInv, TableInv, tableVars, requestVars
<1>4. CASE IncludeRouter \/ \E o \in Replacements : Override(o[1], o[2])
  BY <1>4 DEF IncludeRouter, Override, RegistryInv, TableInv, tableVars, requestVars
<1>5. CASE IncludeNext
  <2>1. /\ pending' = pending /\ phase' = phase /\ phase = "idle"
        /\ including' \in {0, including + 1}
    BY <1>5 DEF IncludeNext, RegistryInv, requestVars
  <2>2. TableInv'
    <3>1. CASE including <= Len(pending)
      <4>1. including \in 1..Len(pending)
        BY <1>5, <3>1, LenProperties DEF IncludeNext, RegistryInv
      <4>2. PICK r : r = pending[including]
        OBVIOUS
      <4>3. r \in Declared
        BY <4>1, <4>2, ElementOfSeq DEF RegistryInv
      <4>4. Register(Configured(r, FALSE))
        BY <1>5, <3>1, <4>2 DEF IncludeNext
      <4>5. QED BY <4>3, <4>4, RegisterKeepsTables DEF RegistryInv
    <3>2. CASE ~(including <= Len(pending))
      BY <1>5, <3>2 DEF IncludeNext, RegistryInv, TableInv, tableVars
    <3>3. QED BY <3>1, <3>2
  <2>3. QED BY <2>1, <2>2 DEF RegistryInv
<1>6. CASE Serve
  BY <1>6, ServeKeepsTables, ServeExcludesIncluding DEF RegistryInv, TableInv, tables
<1>7. CASE Finished \/ UNCHANGED vars
  BY <1>7 DEF Finished, vars, appVars, tableVars, requestVars, RegistryInv, TableInv
<1>8. QED BY <1>1, <1>2, <1>3, <1>4, <1>5, <1>6, <1>7 DEF Next, Registration

LEMMA RegistryInit == Init => RegistryInv
<1> SUFFICES ASSUME Init PROVE RegistryInv
  OBVIOUS
<1>1. /\ \A S : << >> \in Seq(S)
      /\ Len(<< >>) = 0 /\ DOMAIN << >> = {}
  BY EmptySeq, LenProperties
<1>2. /\ routes = << >> /\ dynamic = << >> /\ corsMethods = {} /\ pending = << >> /\ including = 0
      /\ static = [k \in RouteMethods \X Paths |-> 0]
      /\ pathMethods = [r \in Rules |-> {}]
  BY DEF Init
<1>3. Tables(routes, static, dynamic, pathMethods, corsMethods)
  BY <1>1, <1>2 DEF Tables
<1>4. QED BY <1>1, <1>2, <1>3 DEF RegistryInv, TableInv
-----------------------------------------------------------------------------
(***************************************************************************)
(* Routing.                                                                *)
(***************************************************************************)
Covering(path)        == {i \in DOMAIN routes : Covers(routes[i], path)}
Serving(method, path) == {i \in Covering(path) : routes[i].method \in {method, "ANY"}}
MethodsFor(path)      == {routes[i].method : i \in Covering(path)}

\* The route that is matched serves the request, and there is one if any route does.
LEMMA MatchServes ==
  ASSUME TableInv, NEW method \in Methods, NEW path \in Paths
  PROVE  \/ Match(method, path) \in Serving(method, path)
         \/ Match(method, path) = 0 /\ Serving(method, path) = {}
<1>1. PICK l \in Nat : l = Len(routes) /\ DOMAIN routes = 1..l
  BY LenProperties DEF TableInv, Tables
<1>2. /\ static \in [RouteMethods \X Paths -> 0..l] /\ dynamic \in Seq(1..l)
      /\ routes \in Seq(RouteRecord)
  BY <1>1 DEF TableInv, Tables
<1>3. /\ <<method, path>> \in RouteMethods \X Paths /\ <<"ANY", path>> \in RouteMethods \X Paths
  BY DEF RouteMethods
<1> DEFINE named == static[<<method, path>>]
           any   == static[<<"ANY", path>>]
           fits  == {i \in DOMAIN dynamic :
                       Fits(i, path) /\ routes[dynamic[i]].method \in {method, "ANY"}}
<1>4. CASE named # 0
  <2>1. Match(method, path) = named
    BY <1>4 DEF Match
  <2>2. named \in 1..l /\ routes[named].method = method /\ routes[named].rule = path
    <3>1. named \in 1..l
      BY <1>2, <1>3, <1>4
    <3>2. QED BY <1>3, <1>4, <3>1 DEF TableInv, Tables
  <2>3. QED BY <1>1, <2>1, <2>2 DEF Serving, Covering, Covers
<1>5. CASE named = 0 /\ any # 0
  <2>1. Match(method, path) = any
    BY <1>5 DEF Match
  <2>2. any \in 1..l /\ routes[any].method = "ANY" /\ routes[any].rule = path
    <3>1. any \in 1..l
      BY <1>2, <1>3, <1>5
    <3>2. QED BY <1>3, <1>5, <3>1 DEF TableInv, Tables
  <2>3. QED BY <1>1, <2>1, <2>2 DEF Serving, Covering, Covers
<1>6. CASE named = 0 /\ any = 0 /\ fits # {}
  <2>1. fits \subseteq Nat
    <3>1. DOMAIN dynamic \subseteq Nat
      BY <1>2, LenProperties
    <3>2. QED BY <3>1
  <2>2. \E i \in fits : \A k \in fits : i <= k
    BY <1>6, <2>1, LeastExists
  <2>3. PICK i \in fits : i = CHOOSE x \in fits : \A k \in fits : x <= k
    BY <2>2
  <2>4. Match(method, path) = dynamic[i]
    BY <1>6, <2>3 DEF Match
  <2>5. /\ dynamic[i] \in 1..l /\ path \in Matches[routes[dynamic[i]].rule]
        /\ routes[dynamic[i]].rule \in DynamicRules
        /\ routes[dynamic[i]].method \in {method, "ANY"}
    <3>1. i \in DOMAIN dynamic /\ Fits(i, path) /\ routes[dynamic[i]].method \in {method, "ANY"}
      BY <2>3
    <3>2. dynamic[i] \in 1..l
      BY <1>2, <3>1, ElementOfSeq, LenProperties
    <3>3. QED BY <3>1, <3>2 DEF Fits, TableInv, Tables
  <2>6. QED BY <1>1, <2>4, <2>5 DEF Serving, Covering, Covers
<1>7. CASE named = 0 /\ any = 0 /\ fits = {}
  <2>1. Match(method, path) = 0
    BY <1>7 DEF Match
  <2>2. ASSUME NEW i \in 1..l, Covers(routes[i], path), routes[i].method \in {method, "ANY"}
        PROVE  FALSE
    <3>1. CASE routes[i].rule = path
      <4>1. static[<<routes[i].method, routes[i].rule>>] # 0
        BY <1>1, <2>2, <3>1 DEF TableInv, Tables
      <4>2. QED BY <1>7, <2>2, <3>1, <4>1
    <3>2. CASE routes[i].rule \in DynamicRules /\ path \in Matches[routes[i].rule]
      <4>1. PICK k \in DOMAIN dynamic : dynamic[k] = i
        BY <1>1, <2>2, <3>2 DEF TableInv, Tables
      <4>2. k \in fits
        BY <2>2, <3>2, <4>1 DEF Fits
      <4>3. QED BY <1>7, <4>2
    <3>3. QED BY <2>2, <3>1, <3>2 DEF Covers
  <2>3. QED BY <1>1, <2>1, <2>2 DEF Serving, Covering
<1>8. QED BY <1>4, <1>5, <1>6, <1>7

\* The methods that a request for a path may use are those of the routes that cover it.
LEMMA AllowedAreCovering ==
  ASSUME TableInv, NEW path \in Paths
  PROVE  AllowedMethods(path) = MethodsFor(path)
<1>1. PICK l \in Nat : l = Len(routes) /\ DOMAIN routes = 1..l
  BY LenProperties DEF TableInv, Tables
<1>2. dynamic \in Seq(1..l) /\ path \in Rules
  BY <1>1 DEF TableInv, Tables, Rules
<1>3. ASSUME NEW m \in AllowedMethods(path)
      PROVE  \E i \in Covering(path) : routes[i].method = m
  <2>1. CASE m \in pathMethods[path]
    <3>1. \A x \in pathMethods[path] : \E i \in DOMAIN routes : routes[i].rule = path /\ routes[i].method = x
      BY <1>2 DEF TableInv, Tables
    <3>2. PICK i \in DOMAIN routes : routes[i].rule = path /\ routes[i].method = m
      BY <2>1, <3>1, Zenon
    <3>3. QED BY <3>2 DEF Covering, Covers
  <2>2. CASE m \in {routes[dynamic[i]].method : i \in {k \in DOMAIN dynamic : Fits(k, path)}}
    <3>1. PICK k \in DOMAIN dynamic : Fits(k, path) /\ m = routes[dynamic[k]].method
      BY <2>2
    <3>2. dynamic[k] \in 1..l
      BY <1>2, <3>1, ElementOfSeq, LenProperties
    <3>3. routes[dynamic[k]].rule \in DynamicRules
      BY <3>1 DEF TableInv, Tables
    <3>4. dynamic[k] \in Covering(path)
      BY <1>1, <3>1, <3>2, <3>3 DEF Covering, Covers, Fits
    <3>5. QED BY <3>1, <3>4
  <2>3. QED BY <1>3, <2>1, <2>2 DEF AllowedMethods
<1>4. ASSUME NEW i \in Covering(path)
      PROVE  routes[i].method \in AllowedMethods(path)
  <2>1. i \in DOMAIN routes /\ Covers(routes[i], path)
    BY <1>4 DEF Covering
  <2>2. CASE routes[i].rule = path
    <3>1. routes[i].method \in pathMethods[routes[i].rule]
      BY <2>1 DEF TableInv, Tables
    <3>2. QED BY <2>2, <3>1 DEF AllowedMethods
  <2>3. CASE routes[i].rule \in DynamicRules /\ path \in Matches[routes[i].rule]
    <3>1. PICK k \in DOMAIN dynamic : dynamic[k] = i
      BY <2>1, <2>3 DEF TableInv, Tables
    <3>2. Fits(k, path)
      BY <2>3, <3>1 DEF Fits
    <3>3. QED BY <3>1, <3>2 DEF AllowedMethods
  <2>4. QED BY <2>1, <2>2, <2>3 DEF Covers
<1>5. QED BY <1>3, <1>4 DEF MethodsFor

\* A request is served exactly if a registered or included route covers its path and method,
\* and otherwise told the methods of all routes that cover its path.
THEOREM RequestsAreRouted == Spec => []RoutedExactly
<1>1. Init => RoutedExactly
  BY DEF Init, RoutedExactly
<1>2. ASSUME RegistryInv, RoutedExactly, [Next]_vars PROVE RoutedExactly'
  <2>1. CASE \E m \in Methods, p \in Paths, o \in {FALSE, CorsEnabled} : Resolve(m, p, o)
    <3>1. PICK m \in Methods, p \in Paths, o \in {FALSE, CorsEnabled} : Resolve(m, p, o)
      BY <2>1
    <3>2. /\ route' = Match(m, p) /\ routes' = routes
          /\ allowed' = IF route' = 0 THEN AllowedMethods(p) ELSE {}
          /\ request'.method = m /\ request'.path = p
      BY <3>1 DEF Resolve
    <3>3. Match(m, p) \in Serving(m, p) \/ (Match(m, p) = 0 /\ Serving(m, p) = {})
      BY <1>2, <3>1, MatchServes DEF RegistryInv
    <3>4. AllowedMethods(p) = MethodsFor(p)
      BY <1>2, <3>1, AllowedAreCovering DEF RegistryInv
    <3>5. /\ Covering(p) = {i \in DOMAIN routes' : Covers(routes'[i], request'.path)}
          /\ Serving(m, p) = {i \in Covering(p) : routes'[i].method \in {request'.method, "ANY"}}
      BY <3>2 DEF Covering, Serving
    <3>6. CASE route' \in Serving(m, p)
      BY <3>5, <3>6 DEF RoutedExactly
    <3>7. CASE route' = 0 /\ Serving(m, p) = {}
      <4>1. allowed' = {routes'[i].method : i \in Covering(p)}
        BY <3>2, <3>4, <3>7 DEF MethodsFor
      <4>2. QED BY <3>5, <3>7, <4>1 DEF RoutedExactly
    <3>8. QED BY <3>2, <3>3, <3>6, <3>7
  <2>2. CASE \/ Invoke \/ Validate \/ Enter \/ Endpoint \/ Solve \/ Call \/ Handle \/ Fallback
             \/ Leave \/ Unwind \/ CallExceptionHandler \/ Serialize
    <3>1. phase' # "invoke"
      BY <2>2 DEF Invoke, Validate, Raise, Enter, Endpoint, Solve, Call, Handle, Fallback, Leave,
         Unwind, CallExceptionHandler, Serialize, Forget, Unchanged
    <3>2. QED BY <3>1 DEF RoutedExactly
  <2>3. CASE Registration
    <3>1. phase = "idle" /\ phase' = phase
      BY <1>2, <2>3 DEF RegistryInv, Registration, UseMiddleware, AddRoute, AddPending,
         IncludeRouter, IncludeNext, Override, requestVars
    <3>2. QED BY <3>1 DEF RoutedExactly
  <2>4. CASE Finished \/ UNCHANGED vars
    <3>1. phase' = phase /\ routes' = routes /\ request' = request /\ route' = route /\ allowed' = allowed
      BY <2>4 DEF Finished, vars, appVars, tableVars, requestVars, localVars
    <3>2. QED BY <1>2, <3>1 DEF RoutedExactly
  <2>5. QED BY <1>2, <2>1, <2>2, <2>3, <2>4 DEF Next, Serve
<1>3. QED BY <1>1, <1>2, RegistryInit, RegistryStep, PTL DEF Spec
-----------------------------------------------------------------------------
(***************************************************************************)
(* The middleware chain.                                                   *)
(***************************************************************************)

\* The chain around the middlewares m.
Around(m) == <<"validate">> \o m \o <<"endpoint">>

LEMMA AroundLinks ==
  ASSUME NEW m \in Seq(Middlewares)
  PROVE  /\ Around(m) \in Seq(Link) /\ Len(Around(m)) = Len(m) + 2 /\ Len(m) \in Nat
         /\ Around(m)[1] = "validate" /\ Around(m)[Len(m) + 2] = "endpoint"
         /\ \A i \in 1..Len(m) : Around(m)[i + 1] = m[i] /\ m[i] \in Middlewares
         /\ Around(m) # << >>
<1>1. PICK n \in Nat : n = Len(m)
  BY LenProperties
<1>2. \A i \in 1..n : m[i] \in Middlewares
  BY <1>1, ElementOfSeq
<1>3. /\ m \in Seq(Link)
      /\ <<"validate">> \in Seq(Link) /\ Len(<<"validate">>) = 1 /\ <<"validate">>[1] = "validate"
      /\ <<"endpoint">> \in Seq(Link) /\ Len(<<"endpoint">>) = 1 /\ <<"endpoint">>[1] = "endpoint"
  BY SeqMonotonic DEF Link
<1>4. PICK v : v = <<"validate">> \o m
  OBVIOUS
<1>5. /\ v \in Seq(Link) /\ Len(v) = 1 + n
      /\ \A i \in 1..(1 + n) : v[i] = IF i <= 1 THEN <<"validate">>[i] ELSE m[i - 1]
  BY <1>1, <1>3, <1>4, ConcatProperties
<1>6. /\ v[1] = "validate" /\ \A i \in 1..n : v[i + 1] = m[i]
  <2>1. v[1] = "validate"
    BY <1>3, <1>5
  <2>2. ASSUME NEW i \in 1..n PROVE v[i + 1] = m[i]
    <3>1. i + 1 \in 1..(1 + n) /\ ~(i + 1 <= 1) /\ (i + 1) - 1 = i
      OBVIOUS
    <3>2. QED BY <1>5, <3>1
  <2>3. QED BY <2>1, <2>2
<1>7. PICK c : c = v \o <<"endpoint">>
  OBVIOUS
<1>8. /\ c \in Seq(Link) /\ Len(c) = (1 + n) + 1
      /\ \A i \in 1..((1 + n) + 1) : c[i] = IF i <= 1 + n THEN v[i] ELSE <<"endpoint">>[i - (1 + n)]
  BY <1>3, <1>5, <1>7, ConcatProperties
<1>9. c = Around(m)
  BY <1>4, <1>7 DEF Around
<1>10. c[1] = "validate" /\ c[n + 2] = "endpoint" /\ Len(c) = n + 2 /\ \A i \in 1..n : c[i + 1] = m[i]
  <2>1. c[1] = "validate" /\ Len(c) = n + 2
    BY <1>6, <1>8
  <2>2. c[n + 2] = "endpoint"
    <3>1. n + 2 \in 1..((1 + n) + 1) /\ ~(n + 2 <= 1 + n) /\ (n + 2) - (1 + n) = 1
      OBVIOUS
    <3>2. QED BY <1>3, <1>8, <3>1
  <2>3. ASSUME NEW i \in 1..n PROVE c[i + 1] = m[i]
    <3>1. i + 1 \in 1..((1 + n) + 1) /\ i + 1 <= 1 + n
      OBVIOUS
    <3>2. QED BY <1>6, <1>8, <3>1
  <2>4. QED BY <2>1, <2>2, <2>3
<1>11. c # << >>
  BY <1>10, EmptySeq
<1>12. QED BY <1>1, <1>2, <1>8, <1>9, <1>10, <1>11

\* The stacks T that have been built for the routes R: the application's middlewares K at the
\* first request, then the route's own.
Stacked(R, T, K) ==
  /\ T \in Seq(Seq(Link)) /\ K \in Seq(Seq(Middlewares))
  /\ Len(T) = Len(R) /\ Len(K) = Len(R)
  /\ \A i \in 1..Len(R) : T[i] # << >> => T[i] = Around(K[i] \o Own[R[i].handler])

\* On its way down the chain around m, at link n, the request has entered e.
Descending(c, m, n, e) ==
  /\ c = Around(m) /\ n \in 1..(Len(m) + 2)
  /\ e \in Seq(Middlewares) /\ Len(e) = IF n = 1 THEN 0 ELSE n - 2
  /\ \A i \in 1..Len(e) : e[i] = m[i]

LEMMA DescendStarts ==
  ASSUME NEW m \in Seq(Middlewares) PROVE Descending(Around(m), m, 1, << >>)
<1>1. << >> \in Seq(Middlewares) /\ Len(<< >>) = 0 /\ Len(m) \in Nat
  BY EmptySeq, LenProperties
<1>2. QED BY <1>1 DEF Descending

LEMMA DescendStep ==
  ASSUME NEW m \in Seq(Middlewares), NEW c, NEW n, NEW e, Descending(c, m, n, e)
  PROVE  /\ c[n] = "validate" => Descending(c, m, n + 1, e)
         /\ c[n] \in Middlewares => Descending(c, m, n + 1, Append(e, c[n]))
         /\ c[n] = "endpoint" => e = m
<1>1. PICK l \in Nat : l = Len(m)
  BY LenProperties
<1>2. /\ c = Around(m) /\ n \in 1..(l + 2) /\ c[1] = "validate" /\ c[l + 2] = "endpoint"
      /\ \A i \in 1..l : c[i + 1] = m[i] /\ m[i] \in Middlewares
  BY <1>1, AroundLinks DEF Descending
<1>3. n = 1 \/ n = l + 2 \/ (n - 1 \in 1..l /\ c[n] = m[n - 1])
  <2>1. CASE n # 1 /\ n # l + 2
    <3>1. n - 1 \in 1..l /\ (n - 1) + 1 = n
      BY <1>2, <2>1
    <3>2. c[(n - 1) + 1] = m[n - 1]
      BY <1>2, <3>1
    <3>3. QED BY <3>1, <3>2
  <2>2. QED BY <2>1
<1>4. "validate" \notin Middlewares /\ "endpoint" \notin Middlewares /\ "validate" # "endpoint"
  BY ConstantsAssumption
<1>5. /\ e \in Seq(Middlewares) /\ Len(e) = IF n = 1 THEN 0 ELSE n - 2
      /\ \A i \in 1..Len(e) : e[i] = m[i]
  BY DEF Descending
<1>6. ASSUME c[n] = "validate" PROVE Descending(c, m, n + 1, e)
  <2>1. n = 1
    BY <1>2, <1>3, <1>4, <1>6
  <2>2. n + 1 \in 1..(Len(m) + 2) /\ n + 1 # 1 /\ (n + 1) - 2 = 0
    BY <1>1, <2>1
  <2>3. QED BY <1>2, <1>5, <2>1, <2>2 DEF Descending
<1>7. ASSUME c[n] \in Middlewares PROVE Descending(c, m, n + 1, Append(e, c[n]))
  <2>1. n - 1 \in 1..l /\ c[n] = m[n - 1] /\ n # 1
    BY <1>2, <1>3, <1>4, <1>7
  <2>2. PICK f : f = Append(e, c[n])
    OBVIOUS
  <2>3. PICK k \in Nat : k = Len(e) /\ k = n - 2
    BY <1>5, <2>1
  <2>4. /\ f \in Seq(Middlewares) /\ Len(f) = k + 1
        /\ \A i \in 1..k : f[i] = e[i]
        /\ f[k + 1] = c[n]
    BY <1>5, <1>7, <2>2, <2>3, AppendProperties
  <2>5. \A i \in 1..(k + 1) : f[i] = m[i]
    <3>1. ASSUME NEW i \in 1..(k + 1) PROVE f[i] = m[i]
      <4>1. CASE i \in 1..k
        BY <1>5, <2>3, <2>4, <4>1
      <4>2. CASE i = k + 1
        <5>1. i = n - 1
          BY <1>1, <1>2, <2>1, <2>3, <4>2
        <5>2. QED BY <2>1, <2>4, <4>2, <5>1
      <4>3. i \in 1..k \/ i = k + 1
        BY <2>3, <3>1
      <4>4. QED BY <4>1, <4>2, <4>3
    <3>2. QED BY <3>1
  <2>6. n + 1 \in 1..(Len(m) + 2) /\ n + 1 # 1 /\ (n + 1) - 2 = k + 1
    BY <1>1, <1>2, <2>1, <2>3
  <2>7. Descending(c, m, n + 1, f)
    BY <1>2, <2>4, <2>5, <2>6 DEF Descending
  <2>8. QED BY <2>2, <2>7
<1>8. ASSUME c[n] = "endpoint" PROVE e = m
  <2>1. n = l + 2
    BY <1>2, <1>3, <1>4, <1>8
  <2>2. Len(e) = Len(m)
    BY <1>1, <1>5, <2>1
  <2>3. QED BY <1>5, <2>2, SeqEqual
<1>9. QED BY <1>6, <1>7, <1>8

\* What the request's chain is around.
Inner == IF route = 0 THEN globals ELSE known[route] \o Own[routes[route].handler]

ChainInv ==
  /\ Stacked(routes, stacks, known)
  /\ globals \in Seq(Middlewares)
  /\ phase # "idle" => route \in 0..Len(routes)
  /\ phase = "invoke" =>
       /\ entered = << >>
       /\ route # 0 /\ stacks[route] = << >> => known[route] = globals
  /\ phase = "down" => Descending(chain, Inner, pos, entered)
  /\ phase \in {"solve", "fallback"} => entered = Inner

\* The middlewares of a route that exists.
LEMMA InnerIsSeq ==
  ASSUME TableInv, ChainInv, phase # "idle"
  PROVE  /\ Inner \in Seq(Middlewares)
         /\ route # 0 => /\ route \in 1..Len(routes) /\ known[route] \in Seq(Middlewares)
                         /\ Own[routes[route].handler] \in Seq(Middlewares)
<1>1. CASE route = 0
  BY <1>1 DEF Inner, ChainInv
<1>2. CASE route # 0
  <2>1. route \in 1..Len(routes) /\ Len(known) = Len(routes) /\ known \in Seq(Seq(Middlewares))
        /\ routes \in Seq(RouteRecord)
    BY <1>2, LenProperties DEF ChainInv, Stacked, TableInv, Tables
  <2>2. known[route] \in Seq(Middlewares) /\ routes[route] \in RouteRecord
    BY <2>1, ElementOfSeq
  <2>3. Own[routes[route].handler] \in Seq(Middlewares)
    BY <2>2, ConstantsAssumption DEF RouteRecord
  <2>4. QED BY <1>2, <2>1, <2>2, <2>3, ConcatProperties DEF Inner
<1>3. QED BY <1>1, <1>2

\* A new route has no stack yet.
LEMMA StackedGrows ==
  ASSUME NEW R \in Seq(RouteRecord), NEW T, NEW K, Stacked(R, T, K), NEW r \in RouteRecord
  PROVE  Stacked(Append(R, r), Append(T, << >>), Append(K, << >>))
<1>1. PICK n \in Nat : n = Len(R)
  BY LenProperties
<1>2. /\ T \in Seq(Seq(Link)) /\ K \in Seq(Seq(Middlewares)) /\ Len(T) = n /\ Len(K) = n
      /\ \A i \in 1..n : T[i] # << >> => T[i] = Around(K[i] \o Own[R[i].handler])
  BY <1>1 DEF Stacked
<1>3. PICK R2 : R2 = Append(R, r)
  OBVIOUS
<1>4. PICK T2 : T2 = Append(T, << >>)
  OBVIOUS
<1>5. PICK K2 : K2 = Append(K, << >>)
  OBVIOUS
<1>6. << >> \in Seq(Link) /\ << >> \in Seq(Middlewares)
  BY EmptySeq
<1>7. /\ Len(R2) = n + 1 /\ \A i \in 1..n : R2[i] = R[i]
  BY <1>1, <1>3, AppendProperties
<1>8. /\ T2 \in Seq(Seq(Link)) /\ Len(T2) = n + 1 /\ \A i \in 1..n : T2[i] = T[i]
      /\ T2[n + 1] = << >>
  BY <1>2, <1>4, <1>6, AppendProperties
<1>9. /\ K2 \in Seq(Seq(Middlewares)) /\ Len(K2) = n + 1 /\ \A i \in 1..n : K2[i] = K[i]
  BY <1>2, <1>5, <1>6, AppendProperties
<1>10. ASSUME NEW i \in 1..(n + 1), T2[i] # << >> PROVE T2[i] = Around(K2[i] \o Own[R2[i].handler])
  <2>1. i \in 1..n
    BY <1>8, <1>10
  <2>2. QED BY <1>2, <1>7, <1>8, <1>9, <1>10, <2>1
<1>11. Stacked(R2, T2, K2)
  BY <1>7, <1>8, <1>9, <1>10 DEF Stacked
<1>12. QED BY <1>3, <1>4, <1>5, <1>11

LEMMA RegisterKeepsStacks ==
  ASSUME TableInv, Stacked(routes, stacks, known), NEW r \in Declared, NEW cors \in BOOLEAN,
         Register(Configured(r, cors))
  PROVE  Stacked(routes', stacks', known')
<1>1. PICK c : c = Configured(r, cors)
  OBVIOUS
<1>2. c \in RouteRecord /\ routes \in Seq(RouteRecord)
  BY <1>1, DeclaredConfigured DEF TableInv, Tables
<1>3. routes' = Append(routes, c) /\ stacks' = Append(stacks, << >>) /\ known' = Append(known, << >>)
  BY <1>1 DEF Register
<1>4. QED BY <1>2, <1>3, StackedGrows

LEMMA ChainRegistration ==
  ASSUME RegistryInv, ChainInv, Registration
  PROVE  ChainInv'
<1>1. phase = "idle" /\ phase' = "idle"
  BY DEF RegistryInv, Registration, UseMiddleware, AddRoute, AddPending, IncludeRouter, IncludeNext,
         Override, requestVars
<1>2. globals' \in Seq(Middlewares)
  <2>1. ASSUME NEW m \in Shared, UseMiddleware(m) PROVE globals' \in Seq(Middlewares)
    BY <2>1, AppendProperties, ConstantsAssumption DEF UseMiddleware, ChainInv
  <2>2. CASE ~\E m \in Shared : UseMiddleware(m)
    BY <2>2 DEF ChainInv, Registration, AddRoute, AddPending, IncludeRouter, IncludeNext, Override
  <2>3. QED BY <2>1, <2>2
<1>3. Stacked(routes', stacks', known')
  <2>1. ASSUME NEW r \in Declared, AddRoute(r) PROVE Stacked(routes', stacks', known')
    BY <2>1, RegisterKeepsStacks, ConstantsAssumption DEF AddRoute, RegistryInv, ChainInv
  <2>2. CASE IncludeNext /\ including <= Len(pending)
    <3>1. including \in 1..Len(pending)
      BY <2>2, LenProperties DEF IncludeNext, RegistryInv
    <3>2. PICK r : r = pending[including]
      OBVIOUS
    <3>3. r \in Declared
      BY <3>1, <3>2, ElementOfSeq DEF RegistryInv
    <3>4. Register(Configured(r, FALSE))
      BY <2>2, <3>2 DEF IncludeNext
    <3>5. QED BY <3>3, <3>4, RegisterKeepsStacks DEF RegistryInv, ChainInv
  <2>3. CASE (~\E r \in Declared : AddRoute(r)) /\ ~(IncludeNext /\ including <= Len(pending))
    <3>1. routes' = routes /\ stacks' = stacks /\ known' = known
      BY <2>3 DEF Registration, UseMiddleware, AddPending, IncludeRouter, IncludeNext, Override, tableVars
    <3>2. QED BY <3>1 DEF ChainInv
  <2>4. QED BY <2>1, <2>2, <2>3
<1>4. QED BY <1>1, <1>2, <1>3 DEF ChainInv

\* A request notes the application's middlewares if it is the first one of its route.
LEMMA ChainResolve ==
  ASSUME RegistryInv, ChainInv, NEW m \in Methods, NEW p \in Paths, NEW o, Resolve(m, p, o)
  PROVE  ChainInv'
<1>1. /\ route' = Match(m, p) /\ routes' = routes /\ stacks' = stacks /\ globals' = globals
      /\ phase' = "invoke" /\ entered' = << >>
      /\ known' = IF route' = 0 \/ stacks[route'] # << >> THEN known
                  ELSE [known EXCEPT ![route'] = globals]
  BY DEF Resolve
<1>2. PICK n \in Nat : n = Len(routes) /\ DOMAIN routes = 1..n
  BY LenProperties DEF RegistryInv, TableInv, Tables
<1>3. route' \in 0..n
  <2>1. route' \in Serving(m, p) \/ route' = 0
    BY <1>1, MatchServes DEF RegistryInv
  <2>2. QED BY <1>2, <2>1 DEF Serving, Covering
<1>4. /\ stacks \in Seq(Seq(Link)) /\ known \in Seq(Seq(Middlewares)) /\ globals \in Seq(Middlewares)
      /\ Len(stacks) = n /\ Len(known) = n
      /\ \A i \in 1..n : stacks[i] # << >> => stacks[i] = Around(known[i] \o Own[routes[i].handler])
  BY <1>2 DEF ChainInv, Stacked
<1>5. CASE known' = known /\ (route' = 0 \/ stacks[route'] # << >>)
  BY <1>1, <1>2, <1>3, <1>5 DEF ChainInv
<1>6. CASE ~(route' = 0 \/ stacks[route'] # << >>)
  <2>1. PICK r \in 1..n : r = route'
    BY <1>3, <1>6
  <2>2. /\ known' \in Seq(Seq(Middlewares)) /\ Len(known') = n
        /\ \A i \in 1..n : known'[i] = IF i = r THEN globals ELSE known[i]
    BY <1>1, <1>4, <1>6, <2>1, ExceptSeq
  <2>3. ASSUME NEW i \in 1..n, stacks[i] # << >> PROVE stacks[i] = Around(known'[i] \o Own[routes[i].handler])
    <3>1. i # r
      BY <1>6, <2>1, <2>3
    <3>2. known'[i] = known[i]
      BY <2>2, <3>1
    <3>3. QED BY <1>4, <2>3, <3>2
  <2>4. Stacked(routes', stacks', known')
    BY <1>1, <1>2, <1>4, <2>2, <2>3 DEF Stacked
  <2>5. known'[route'] = globals
    BY <2>1, <2>2
  <2>6. QED BY <1>1, <1>2, <1>3, <1>4, <2>4, <2>5 DEF ChainInv
<1>7. QED BY <1>1, <1>5, <1>6

\* The stack that is called, or built and kept, is the one around the request's middlewares.
LEMMA ChainInvoke ==
  ASSUME RegistryInv, ChainInv, Invoke
  PROVE  ChainInv'
<1>1. /\ phase = "invoke" /\ phase' = "down" /\ pos' = 1 /\ entered' = entered /\ entered = << >>
      /\ routes' = routes /\ known' = known /\ globals' = globals /\ route' = route
      /\ stacks' = IF route = 0 THEN stacks ELSE [stacks EXCEPT ![route] = chain']
  BY DEF Invoke, matchVars, ChainInv
<1>2. PICK m : m = Inner
  OBVIOUS
<1>3. m \in Seq(Middlewares) /\ globals \in Seq(Middlewares) /\ Inner' = m
  BY <1>1, <1>2, InnerIsSeq DEF RegistryInv, ChainInv, Inner
<1>4. chain' = Around(m)
  <2>1. CASE route = 0
    <3>1. chain' = <<"validate">> \o globals \o << >> \o <<"endpoint">>
      BY <2>1 DEF Invoke, Chain
    <3>2. <<"validate">> \o globals \in Seq(Link)
      BY <1>3, SeqMonotonic, ConcatProperties DEF Link
    <3>3. <<"validate">> \o globals \o << >> = <<"validate">> \o globals
      BY <3>2, ConcatEmptySeq
    <3>4. QED BY <1>2, <2>1, <3>1, <3>3 DEF Inner, Around
  <2>2. CASE route # 0 /\ stacks[route] # << >>
    <3>1. chain' = stacks[route]
      BY <2>2 DEF Invoke
    <3>2. route \in 1..Len(routes)
      BY <1>1, <2>2, InnerIsSeq DEF RegistryInv
    <3>3. stacks[route] = Around(known[route] \o Own[routes[route].handler])
      BY <2>2, <3>2 DEF ChainInv, Stacked
    <3>4. QED BY <1>2, <2>2, <3>1, <3>3 DEF Inner
  <2>3. CASE route # 0 /\ stacks[route] = << >>
    <3>1. PICK own : own = Own[routes[route].handler]
      OBVIOUS
    <3>2. own \in Seq(Middlewares) /\ m = globals \o own
      BY <1>1, <1>2, <2>3, <3>1, InnerIsSeq DEF RegistryInv, ChainInv, Inner
    <3>3. chain' = <<"validate">> \o globals \o own \o <<"endpoint">>
      BY <2>3, <3>1 DEF Invoke, Chain
    <3>4. /\ <<"validate">> \in Seq(Link) /\ globals \in Seq(Link) /\ own \in Seq(Link)
      BY <1>3, <3>2, SeqMonotonic DEF Link
    <3>5. (<<"validate">> \o globals) \o own = <<"validate">> \o (globals \o own)
      BY <3>4, ConcatAssociative
    <3>6. QED BY <3>2, <3>3, <3>5 DEF Around
  <2>4. QED BY <2>1, <2>2, <2>3
<1>5. Descending(chain', m, 1, entered)
  BY <1>1, <1>3, <1>4, DescendStarts
<1>6. Stacked(routes, stacks', known)
  <2>1. CASE route = 0
    BY <1>1, <2>1 DEF ChainInv
  <2>2. CASE route # 0
    <3>1. PICK n : n = Len(routes)
      OBVIOUS
    <3>2. /\ stacks \in Seq(Seq(Link)) /\ known \in Seq(Seq(Middlewares))
          /\ Len(stacks) = n /\ Len(known) = n
          /\ \A i \in 1..n : stacks[i] # << >> => stacks[i] = Around(known[i] \o Own[routes[i].handler])
      BY <3>1 DEF ChainInv, Stacked
    <3>3. route \in 1..n /\ chain' \in Seq(Link)
      BY <1>1, <1>3, <1>4, <2>2, <3>1, InnerIsSeq, AroundLinks DEF RegistryInv
    <3>4. /\ stacks' \in Seq(Seq(Link)) /\ Len(stacks') = n
          /\ \A i \in 1..n : stacks'[i] = IF i = route THEN chain' ELSE stacks[i]
      BY <1>1, <2>2, <3>2, <3>3, ExceptSeq
    <3>5. m = known[route] \o Own[routes[route].handler]
      BY <1>2, <2>2 DEF Inner
    <3>6. \A i \in 1..n : stacks'[i] # << >> => stacks'[i] = Around(known[i] \o Own[routes[i].handler])
      BY <1>4, <3>2, <3>4, <3>5
    <3>7. QED BY <3>1, <3>2, <3>4, <3>6 DEF Stacked
  <2>3. QED BY <2>1, <2>2
<1>7. QED BY <1>1, <1>3, <1>5, <1>6 DEF ChainInv

\* The links of the chain, and what follows them.
LEMMA ChainServe ==
  ASSUME RegistryInv, ChainInv,
         \/ Validate \/ Enter \/ Endpoint \/ Solve \/ Call \/ Handle \/ Fallback
         \/ Leave \/ Unwind \/ CallExceptionHandler \/ Serialize
  PROVE  ChainInv'
<1>1. /\ phase # "idle" /\ phase' # "invoke"
      /\ routes' = routes /\ stacks' = stacks /\ known' = known /\ globals' = globals
  <2>1. CASE Validate \/ Enter \/ Endpoint \/ Solve \/ Call \/ Handle \/ Fallback \/ Leave \/ Unwind
    BY <2>1 DEF Validate, Raise, Enter, Endpoint, Solve, Call, Handle, Fallback, Leave, Unwind,
       Unchanged, appVars, tableVars
  <2>2. CASE CallExceptionHandler \/ Serialize
    BY <2>2 DEF CallExceptionHandler, Serialize, Forget, appVars, tableVars
  <2>3. QED BY <2>1, <2>2
<1>2. PICK m : m = Inner
  OBVIOUS
<1>3. m \in Seq(Middlewares)
  BY <1>1, <1>2, InnerIsSeq DEF RegistryInv
<1>4. phase' # "idle" => route' = route
  BY DEF Validate, Enter, Endpoint, Solve, Call, Handle, Fallback, Leave, Unwind, Unchanged, matchVars,
     CallExceptionHandler, Serialize, Forget
<1>5. phase' # "idle" => Inner' = m
  BY <1>1, <1>2, <1>4 DEF Inner
<1>6. phase' = "down" => Descending(chain', m, pos', entered')
  <2>1. CASE Validate
    <3>1. /\ phase = "down" /\ chain[pos] = "validate" /\ chain' = chain /\ entered' = entered
          /\ phase' = "down" => pos' = pos + 1
      BY <2>1 DEF Validate, Raise, Unchanged
    <3>2. Descending(chain, m, pos, entered)
      BY <1>2, <3>1 DEF ChainInv
    <3>3. QED BY <1>3, <3>1, <3>2, DescendStep
  <2>2. CASE Enter
    <3>1. /\ phase = "down" /\ chain[pos] \in Middlewares /\ chain' = chain
          /\ entered' = Append(entered, chain[pos])
          /\ phase' = "down" => pos' = pos + 1
      BY <2>2 DEF Enter, Raise, Unchanged
    <3>2. Descending(chain, m, pos, entered)
      BY <1>2, <3>1 DEF ChainInv
    <3>3. QED BY <1>3, <3>1, <3>2, DescendStep
  <2>3. CASE ~Validate /\ ~Enter
    <3>1. phase' # "down"
      BY <2>3 DEF Endpoint, Solve, Call, Handle, Raise, Fallback, Leave, Unwind, Unchanged,
         CallExceptionHandler, Serialize, Forget
    <3>2. QED BY <3>1
  <2>4. QED BY <2>1, <2>2, <2>3
<1>7. phase' \in {"solve", "fallback"} => entered' = m
  <2>1. CASE Endpoint
    <3>1. phase = "down" /\ chain[pos] = "endpoint" /\ entered' = entered
      BY <2>1 DEF Endpoint, Unchanged, chainVars
    <3>2. Descending(chain, m, pos, entered)
      BY <1>2, <3>1 DEF ChainInv
    <3>3. QED BY <1>3, <3>1, <3>2, DescendStep
  <2>2. CASE Solve \/ Call \/ Handle \/ Fallback
    <3>1. phase \in {"solve", "fallback"} /\ entered' = entered
      BY <2>2 DEF Solve, Call, Handle, Fallback, Unchanged, chainVars
    <3>2. QED BY <1>2, <3>1 DEF ChainInv
  <2>3. CASE ~(Endpoint \/ Solve \/ Call \/ Handle \/ Fallback)
    <3>1. phase' \notin {"solve", "fallback"}
      BY <2>3 DEF Validate, Enter, Raise, Leave, Unwind, Unchanged, CallExceptionHandler, Serialize, Forget
    <3>2. QED BY <3>1
  <2>4. QED BY <2>1, <2>2, <2>3
<1>8. QED BY <1>1, <1>4, <1>5, <1>6, <1>7 DEF ChainInv

LEMMA ChainInit == Init => ChainInv
<1> SUFFICES ASSUME Init PROVE ChainInv
  OBVIOUS
<1>1. \A S : << >> \in Seq(S) /\ Len(<< >>) = 0
  BY EmptySeq
<1>2. routes = << >> /\ stacks = << >> /\ known = << >> /\ globals = << >> /\ phase = "idle"
  BY DEF Init
<1>3. QED BY <1>1, <1>2 DEF ChainInv, Stacked

LEMMA ChainInvariant == Spec => [](RegistryInv /\ ChainInv)
<1>1. ASSUME RegistryInv, ChainInv, [Next]_vars PROVE ChainInv'
  <2>1. CASE \E m \in Methods, p \in Paths, o \in {FALSE, CorsEnabled} : Resolve(m, p, o)
    BY <1>1, <2>1, ChainResolve
  <2>2. CASE Registration
    BY <1>1, <2>2, ChainRegistration
  <2>3. CASE Invoke
    BY <1>1, <2>3, ChainInvoke
  <2>4. CASE \/ Validate \/ Enter \/ Endpoint \/ Solve \/ Call \/ Handle \/ Fallback
             \/ Leave \/ Unwind \/ CallExceptionHandler \/ Serialize
    BY <1>1, <2>4, ChainServe
  <2>5. CASE Finished \/ UNCHANGED vars
    <3>1. /\ routes' = routes /\ stacks' = stacks /\ known' = known /\ globals' = globals
          /\ phase' = phase /\ route' = route /\ chain' = chain /\ pos' = pos /\ entered' = entered
      BY <2>5 DEF Finished, vars, appVars, tableVars, requestVars, localVars, chainVars
    <3>2. Inner' = Inner
      BY <3>1 DEF Inner
    <3>3. QED BY <1>1, <3>1, <3>2 DEF ChainInv
  <2>6. QED BY <1>1, <2>1, <2>2, <2>3, <2>4, <2>5 DEF Next, Serve
<1>2. QED BY <1>1, ChainInit, RegistryInit, RegistryStep, PTL DEF Spec

\* When a handler or a fallback runs, the application's middlewares and then the route's own
\* have been entered, each once and in order, with the application's as they were at the
\* route's first request.
THEOREM ChainsRunOnce == Spec => []ChainRunsOnce
<1>1. ChainInv => ChainRunsOnce
  BY DEF ChainInv, Inner, ChainRunsOnce
<1>2. QED BY <1>1, ChainInvariant, PTL
-----------------------------------------------------------------------------
(***************************************************************************)
(* Dependencies.                                                           *)
(***************************************************************************)
Entry == [do : {"solve", "call"}, use : Use]

\* A dependency has a higher rank than those that its callable depends on.
Descends(rank) ==
  \A d \in Dependencies : \A i \in DOMAIN Subs[d] : rank[Subs[d][i].dep] < rank[d]
Rank == CHOOSE rank \in [Dependencies -> 0 .. Cardinality(Dependencies)] : Descends(rank)

LEMMA RankDescends ==
  /\ \A d \in Dependencies : Rank[d] \in Int
  /\ Descends(Rank)
<1>1. \E rank \in [Dependencies -> 0 .. Cardinality(Dependencies)] : Descends(rank)
  BY ConstantsAssumption DEF Descends
<1>2. Rank \in [Dependencies -> 0 .. Cardinality(Dependencies)] /\ Descends(Rank)
  BY <1>1 DEF Rank
<1>3. QED BY <1>2

LEMMA SubsAreUses ==
  ASSUME NEW d \in Dependencies
  PROVE  /\ Subs[d] \in Seq(Use) /\ Len(Subs[d]) \in Nat /\ DOMAIN Subs[d] = 1 .. Len(Subs[d])
         /\ \A i \in DOMAIN Subs[d] : Subs[d][i] \in Use
<1>1. Subs[d] \in Seq(Use)
  BY ConstantsAssumption
<1>2. QED BY <1>1, ElementOfSeq, LenProperties

LEMMA UseFields ==
  ASSUME NEW u \in Use
  PROVE  u.dep \in Dependencies /\ u.cached \in BOOLEAN
         /\ u = [dep |-> u.dep, cached |-> u.cached]
BY DEF Use

LEMMA UsesAreLeast ==
  ASSUME NEW h \in Handlers
  PROVE  /\ Uses[h] \subseteq Use /\ Direct(h) \subseteq Uses[h] /\ Closed(Uses[h])
         /\ \A S \in SUBSET Use : Direct(h) \subseteq S /\ Closed(S) => Uses[h] \subseteq S
<1>1. PICK U : U = Uses[h]
  OBVIOUS
<1>2. U = {u \in Use : \A S \in SUBSET Use : Direct(h) \subseteq S /\ Closed(S) => u \in S}
  BY <1>1 DEF Uses
<1>3. Direct(h) \subseteq Use
  <2>1. Needs[h] \in Seq(Use)
    BY ConstantsAssumption
  <2>2. \A i \in DOMAIN Needs[h] : Needs[h][i] \in Use
    BY <2>1, ElementOfSeq, LenProperties
  <2>3. QED BY <2>2 DEF Direct
<1>4. Direct(h) \subseteq U
  BY <1>2, <1>3
<1>5. ASSUME NEW u \in U, NEW i \in DOMAIN Subs[u.dep] PROVE Subs[u.dep][i] \in U
  <2>1. u \in Use
    BY <1>2
  <2>2. Subs[u.dep][i] \in Use
    BY <2>1, UseFields, SubsAreUses
  <2>3. ASSUME NEW S \in SUBSET Use, Direct(h) \subseteq S, Closed(S) PROVE Subs[u.dep][i] \in S
    <3>1. u \in S
      BY <1>2, <2>3
    <3>2. QED BY <2>3, <3>1 DEF Closed
  <2>4. QED BY <1>2, <2>2, <2>3
<1>6. Closed(U)
  BY <1>5 DEF Closed
<1>7. \A S \in SUBSET Use : Direct(h) \subseteq S /\ Closed(S) => U \subseteq S
  BY <1>2
<1>8. QED BY <1>1, <1>2, <1>4, <1>6, <1>7

\* What is done before a dependency is called has a lower rank.
Nested(A) ==
  \A i, k \in DOMAIN A : i < k /\ A[k].do = "call" => Rank[A[i].use.dep] < Rank[A[k].use.dep]

\* What handler h has still to solve or to call.
Agenda(A, h) == A \in Seq(Entry) /\ Nested(A) /\ \A i \in DOMAIN A : A[i].use \in Uses[h]

\* No two dependencies of h share a callable of the overrides O.
Unshared(O, h) == \A u, v \in Uses[h] : O[u.dep] = O[v.dep] => u.dep = v.dep

Always(d, h) == [dep |-> d, cached |-> FALSE] \notin Uses[h]

\* By K, the numbers of calls, and C, the cache, each use of h has been called or is on the
\* agenda A, those of a dependency before itself; what is only used from the cache has been
\* called once if it is there, and not at all if not.
Counted(A, K, C, O, h) ==
  /\ \A f \in C : K[f] # 0
  /\ \A u \in Direct(h) : K[O[u.dep]] # 0 \/ \E i \in DOMAIN A : A[i].use.dep = u.dep
  /\ \A u \in Uses[h] : K[O[u.dep]] # 0 =>
       \A j \in DOMAIN Subs[u.dep] : K[O[Subs[u.dep][j].dep]] # 0
  /\ \A k \in DOMAIN A : A[k].do = "call" =>
       \A j \in DOMAIN Subs[A[k].use.dep] :
         \/ K[O[Subs[A[k].use.dep][j].dep]] # 0
         \/ \E i \in DOMAIN A : i < k /\ A[i].use.dep = Subs[A[k].use.dep][j].dep
  /\ \A u \in Uses[h] : Always(u.dep, h) =>
       /\ K[O[u.dep]] \in {0, 1} /\ (K[O[u.dep]] # 0 => O[u.dep] \in C)
       /\ \A k \in DOMAIN A : A[k].do = "call" /\ A[k].use.dep = u.dep => O[u.dep] \notin C

\* Before the call of a dependency, those that it uses have been called or are asked for.
LEMMA CallsWait ==
  ASSUME NEW A, NEW K, NEW C, NEW O, NEW h, Counted(A, K, C, O, h),
         NEW n \in DOMAIN A, A[n].do = "call", NEW j \in DOMAIN Subs[A[n].use.dep],
         NEW d, d = Subs[A[n].use.dep][j].dep
  PROVE  K[O[d]] # 0 \/ \E i \in DOMAIN A : i < n /\ A[i].use.dep = d
BY DEF Counted

\* The first entry of A is done.
Done(A, T) ==
  \E l \in Nat \ {0} :
    /\ A \in Seq(Entry) /\ DOMAIN A = 1 .. l
    /\ T \in Seq(Entry) /\ DOMAIN T = 1 .. (l - 1)
    /\ \A i \in 1 .. (l - 1) : T[i] = A[i + 1]

LEMMA TailIsDone ==
  ASSUME NEW A \in Seq(Entry), A # << >> PROVE Done(A, Tail(A)) /\ Head(A) = A[1]
<1>1. PICK l \in Nat : l = Len(A)
  BY LenProperties
<1>2. l # 0 /\ DOMAIN A = 1 .. l
  BY <1>1, EmptySeq, LenProperties
<1>3. PICK T : T = Tail(A)
  OBVIOUS
<1>4. T \in Seq(Entry) /\ Len(T) = l - 1 /\ \A i \in 1 .. (l - 1) : T[i] = A[i + 1]
  BY <1>1, <1>2, <1>3, HeadTailProperties
<1>5. DOMAIN T = 1 .. (l - 1)
  BY <1>4, LenProperties
<1>6. QED BY <1>2, <1>3, <1>4, <1>5 DEF Done

LEMMA DoneKeepsAgenda ==
  ASSUME NEW A, NEW T, NEW h, Agenda(A, h), Done(A, T) PROVE Agenda(T, h)
<1>1. PICK l \in Nat \ {0} :
        /\ DOMAIN A = 1 .. l /\ T \in Seq(Entry) /\ DOMAIN T = 1 .. (l - 1)
        /\ \A i \in 1 .. (l - 1) : T[i] = A[i + 1]
  BY DEF Done
<1>2. \A i \in 1 .. (l - 1) : i + 1 \in 1 .. l
  OBVIOUS
<1>3. ASSUME NEW i \in 1 .. (l - 1), NEW k \in 1 .. (l - 1), i < k, T[k].do = "call"
      PROVE  Rank[T[i].use.dep] < Rank[T[k].use.dep]
  <2>1. i + 1 \in 1 .. l /\ k + 1 \in 1 .. l /\ i + 1 < k + 1
    BY <1>3
  <2>2. T[i] = A[i + 1] /\ T[k] = A[k + 1]
    BY <1>1
  <2>3. QED BY <1>1, <1>3, <2>1, <2>2 DEF Agenda, Nested
<1>4. \A i \in 1 .. (l - 1) : T[i].use \in Uses[h]
  BY <1>1, <1>2 DEF Agenda
<1>5. QED BY <1>1, <1>3, <1>4 DEF Agenda, Nested

\* The use u at the head of A is replaced by those of its dependency and its call.
Pushed(A, u, Q) ==
  \E l \in Nat \ {0}, m \in Nat :
    /\ A \in Seq(Entry) /\ DOMAIN A = 1 .. l /\ DOMAIN Subs[u.dep] = 1 .. m
    /\ Q \in Seq(Entry) /\ DOMAIN Q = 1 .. (l + m)
    /\ \A i \in 1 .. m : Q[i] = [do |-> "solve", use |-> Subs[u.dep][i]]
    /\ Q[m + 1] = [do |-> "call", use |-> u]
    /\ \A i \in 2 .. l : Q[i + m] = A[i]

LEMMA VisitsArePushed ==
  ASSUME NEW A \in Seq(Entry), A # << >>, NEW u \in Use
  PROVE  Pushed(A, u, Visits(Subs[u.dep]) \o <<[do |-> "call", use |-> u]>> \o Tail(A))
<1>1. PICK S \in Seq(Use), m \in Nat :
        S = Subs[u.dep] /\ m = Len(S) /\ DOMAIN S = 1 .. m /\ \A i \in 1 .. m : S[i] \in Use
  BY UseFields, SubsAreUses
<1>2. PICK l \in Nat \ {0} : l = Len(A) /\ DOMAIN A = 1 .. l
  BY EmptySeq, LenProperties
<1>3. PICK V : V = Visits(S)
  OBVIOUS
<1>4. V = [i \in 1 .. m |-> [do |-> "solve", use |-> S[i]]]
  BY <1>1, <1>3 DEF Visits
<1>5. /\ V \in Seq(Entry) /\ Len(V) = m
      /\ \A i \in 1 .. m : V[i] = [do |-> "solve", use |-> S[i]]
  <2>1. \A i \in 1 .. m : [do |-> "solve", use |-> S[i]] \in Entry
    BY <1>1 DEF Entry
  <2>2. V \in [1 .. m -> Entry]
    BY <1>4, <2>1
  <2>3. QED BY <1>4, <2>2
<1>6. PICK e : e = [do |-> "call", use |-> u]
  OBVIOUS
<1>7. e \in Entry /\ <<e>> \in Seq(Entry) /\ Len(<<e>>) = 1 /\ <<e>>[1] = e
  BY <1>6 DEF Entry
<1>8. PICK W : W = V \o <<e>>
  OBVIOUS
<1>9. /\ W \in Seq(Entry) /\ Len(W) = m + 1
      /\ \A i \in 1 .. (m + 1) : W[i] = IF i <= m THEN V[i] ELSE <<e>>[i - m]
  BY <1>5, <1>7, <1>8, ConcatProperties
<1>10. PICK T : T = Tail(A)
  OBVIOUS
<1>11. T \in Seq(Entry) /\ Len(T) = l - 1 /\ \A i \in 1 .. (l - 1) : T[i] = A[i + 1]
  BY <1>2, <1>10, HeadTailProperties
<1>12. PICK Q : Q = W \o T
  OBVIOUS
<1>13. /\ Q \in Seq(Entry) /\ Len(Q) = (m + 1) + (l - 1)
       /\ \A i \in 1 .. ((m + 1) + (l - 1)) : Q[i] = IF i <= m + 1 THEN W[i] ELSE T[i - (m + 1)]
  <2>0. m + 1 \in Nat /\ l - 1 \in Nat
    OBVIOUS
  <2>1. PICK w \in Nat, t \in Nat : w = m + 1 /\ t = l - 1
    BY <2>0
  <2>2. Len(W) = w /\ Len(T) = t
    BY <1>9, <1>11, <2>1
  <2>3. /\ Q \in Seq(Entry) /\ Len(Q) = w + t
        /\ \A i \in 1 .. (w + t) : Q[i] = IF i <= w THEN W[i] ELSE T[i - w]
    BY <1>9, <1>11, <1>12, <2>2, ConcatProperties
  <2>4. QED BY <2>1, <2>3
<1>14. (m + 1) + (l - 1) = l + m
  BY <1>1, <1>2
<1>15. DOMAIN Q = 1 .. (l + m)
  BY <1>13, <1>14, LenProperties
<1>16. \A i \in 1 .. m : Q[i] = [do |-> "solve", use |-> S[i]]
  <2>1. ASSUME NEW i \in 1 .. m PROVE Q[i] = [do |-> "solve", use |-> S[i]]
    <3>1. i \in 1 .. ((m + 1) + (l - 1)) /\ i <= m + 1 /\ i \in 1 .. (m + 1) /\ i <= m
      BY <1>1, <1>2, <2>1
    <3>2. QED BY <1>5, <1>9, <1>13, <2>1, <3>1
  <2>2. QED BY <2>1
<1>17. Q[m + 1] = e
  <2>1. m + 1 \in 1 .. ((m + 1) + (l - 1)) /\ m + 1 <= m + 1 /\ m + 1 \in 1 .. (m + 1)
        /\ ~(m + 1 <= m) /\ (m + 1) - m = 1
    BY <1>1, <1>2
  <2>2. QED BY <1>7, <1>9, <1>13, <2>1
<1>18. \A i \in 2 .. l : Q[i + m] = A[i]
  <2>1. ASSUME NEW i \in 2 .. l PROVE Q[i + m] = A[i]
    <3>1. i + m \in 1 .. ((m + 1) + (l - 1)) /\ ~(i + m <= m + 1) /\ (i + m) - (m + 1) = i - 1
          /\ i - 1 \in 1 .. (l - 1) /\ (i - 1) + 1 = i
      BY <1>1, <1>2, <2>1
    <3>2. Q[i + m] = T[i - 1]
      BY <1>13, <3>1
    <3>3. T[i - 1] = A[(i - 1) + 1]
      BY <1>11, <3>1
    <3>4. QED BY <3>1, <3>2, <3>3
  <2>2. QED BY <2>1
<1>19. Pushed(A, u, Q)
  <2>1. /\ DOMAIN Subs[u.dep] = 1 .. m
        /\ \A i \in 1 .. m : Q[i] = [do |-> "solve", use |-> Subs[u.dep][i]]
    BY <1>1, <1>16
  <2>2. Q[m + 1] = [do |-> "call", use |-> u]
    BY <1>6, <1>17
  <2>3. A \in Seq(Entry) /\ DOMAIN A = 1 .. l
    BY <1>2
  <2>4. QED BY <1>13, <1>15, <1>18, <2>1, <2>2, <2>3 DEF Pushed
<1>20. QED BY <1>1, <1>3, <1>6, <1>8, <1>10, <1>12, <1>19

LEMMA PushKeepsAgenda ==
  ASSUME NEW h \in Handlers, NEW A, NEW u, NEW Q, Agenda(A, h), u = A[1].use, Pushed(A, u, Q)
  PROVE  Agenda(Q, h)
<1>1. PICK l \in Nat \ {0}, m \in Nat :
        /\ DOMAIN A = 1 .. l /\ DOMAIN Subs[u.dep] = 1 .. m
        /\ Q \in Seq(Entry) /\ DOMAIN Q = 1 .. (l + m)
        /\ \A i \in 1 .. m : Q[i] = [do |-> "solve", use |-> Subs[u.dep][i]]
        /\ Q[m + 1] = [do |-> "call", use |-> u]
        /\ \A i \in 2 .. l : Q[i + m] = A[i]
  BY DEF Pushed
<1>2. u \in Uses[h] /\ u \in Use /\ u.dep \in Dependencies
  <2>1. 1 \in DOMAIN A
    BY <1>1
  <2>2. u \in Uses[h]
    BY <2>1 DEF Agenda
  <2>3. QED BY <2>2, UsesAreLeast, UseFields
<1>3. ASSUME NEW i \in 1 .. (l + m)
      PROVE  \/ i \in 1 .. m /\ Q[i].do = "solve" /\ Q[i].use = Subs[u.dep][i]
             \/ i = m + 1 /\ Q[i].do = "call" /\ Q[i].use = u
             \/ i - m \in 2 .. l /\ Q[i] = A[i - m]
  <2>1. CASE i \in 1 .. m
    <3>1. Q[i] = [do |-> "solve", use |-> Subs[u.dep][i]]
      BY <1>1, <2>1
    <3>2. Q[i].do = "solve" /\ Q[i].use = Subs[u.dep][i]
      BY <3>1
    <3>3. QED BY <2>1, <3>2
  <2>2. CASE i = m + 1
    <3>1. Q[i] = [do |-> "call", use |-> u]
      BY <1>1, <2>2
    <3>2. Q[i].do = "call" /\ Q[i].use = u
      BY <3>1
    <3>3. QED BY <2>2, <3>2
  <2>3. CASE i \notin 1 .. m /\ i # m + 1
    <3>1. i - m \in 2 .. l /\ (i - m) + m = i
      BY <1>1, <1>3, <2>3
    <3>2. QED BY <1>1, <3>1
  <2>4. QED BY <2>1, <2>2, <2>3
<1>4. ASSUME NEW i \in 1 .. (l + m) PROVE Q[i].use \in Uses[h]
  <2>1. CASE i \in 1 .. m /\ Q[i].use = Subs[u.dep][i]
    <3>1. Subs[u.dep][i] \in Uses[h]
      BY <1>1, <1>2, <2>1, UsesAreLeast DEF Closed
    <3>2. QED BY <2>1, <3>1
  <2>2. CASE Q[i].use = u
    BY <1>2, <2>2
  <2>3. CASE i - m \in 2 .. l /\ Q[i] = A[i - m]
    <3>1. i - m \in DOMAIN A
      BY <1>1, <2>3
    <3>2. QED BY <2>3, <3>1 DEF Agenda
  <2>4. QED BY <1>3, <1>4, <2>1, <2>2, <2>3
<1>5. \A i \in 1 .. m : Rank[Subs[u.dep][i].dep] < Rank[u.dep]
  BY <1>1, <1>2, RankDescends DEF Descends
<1>6. \A k \in 2 .. l : A[k].do = "call" => Rank[u.dep] < Rank[A[k].use.dep]
  <2>1. \A k \in 2 .. l : k \in DOMAIN A /\ 1 < k /\ 1 \in DOMAIN A
    BY <1>1
  <2>2. QED BY <2>1 DEF Agenda, Nested
<1>7. \A d \in Dependencies : Rank[d] \in Int
  BY RankDescends
<1>8. ASSUME NEW i \in 1 .. (l + m), NEW k \in 1 .. (l + m), i < k, Q[k].do = "call"
      PROVE  Rank[Q[i].use.dep] < Rank[Q[k].use.dep]
  <2>1. CASE k \in 1 .. m /\ Q[k].do = "solve"
    BY <1>8, <2>1
  <2>2. CASE k = m + 1 /\ Q[k].use = u
    <3>1. i \in 1 .. m
      BY <1>8, <2>2
    <3>2. Q[i] = [do |-> "solve", use |-> Subs[u.dep][i]]
      BY <1>1, <3>1
    <3>3. Q[i].use = Subs[u.dep][i]
      BY <3>2
    <3>4. QED BY <1>5, <2>2, <3>1, <3>3
  <2>3. CASE k - m \in 2 .. l /\ Q[k] = A[k - m]
    <3>1. Rank[u.dep] < Rank[A[k - m].use.dep]
      BY <1>6, <1>8, <2>3
    <3>2. CASE i \in 1 .. m /\ Q[i].use = Subs[u.dep][i]
      <4>1. Rank[Subs[u.dep][i].dep] < Rank[u.dep]
        BY <1>5, <3>2
      <4>2. Subs[u.dep][i].dep \in Dependencies
        BY <1>1, <1>2, <3>2, SubsAreUses, UseFields
      <4>3. A[k - m].use.dep \in Dependencies
        <5>1. A[k - m].use \in Use
          BY <1>4, <1>8, <2>3, UsesAreLeast
        <5>2. QED BY <5>1, UseFields
      <4>4. PICK x \in Int, y \in Int, z \in Int :
              /\ x = Rank[Subs[u.dep][i].dep] /\ y = Rank[u.dep] /\ z = Rank[A[k - m].use.dep]
        BY <1>2, <1>7, <4>2, <4>3
      <4>5. x < z
        BY <3>1, <4>1, <4>4
      <4>6. QED BY <2>3, <3>2, <4>4, <4>5
    <3>3. CASE Q[i].use = u
      BY <2>3, <3>1, <3>3
    <3>4. CASE i - m \in 2 .. l /\ Q[i] = A[i - m]
      <4>1. i - m \in DOMAIN A /\ k - m \in DOMAIN A /\ i - m < k - m
        BY <1>1, <1>8, <2>3, <3>4
      <4>2. QED BY <1>8, <2>3, <3>4, <4>1 DEF Agenda, Nested
    <3>5. QED BY <1>3, <3>2, <3>3, <3>4
  <2>4. QED BY <1>3, <2>1, <2>2, <2>3
<1>9. QED BY <1>1, <1>4, <1>8 DEF Agenda, Nested

LEMMA VisitsAreAgenda ==
  ASSUME NEW h \in Handlers PROVE Agenda(Visits(Needs[h]), h)
<1>1. PICK S \in Seq(Use), m \in Nat :
        S = Needs[h] /\ m = Len(S) /\ DOMAIN S = 1 .. m /\ \A i \in 1 .. m : S[i] \in Use
  <2>1. Needs[h] \in Seq(Use)
    BY ConstantsAssumption
  <2>2. QED BY <2>1, ElementOfSeq, LenProperties
<1>2. PICK V : V = Visits(S)
  OBVIOUS
<1>3. V = [i \in 1 .. m |-> [do |-> "solve", use |-> S[i]]]
  BY <1>1, <1>2 DEF Visits
<1>4. \A i \in 1 .. m : [do |-> "solve", use |-> S[i]] \in Entry
  BY <1>1 DEF Entry
<1>5. V \in [1 .. m -> Entry]
  BY <1>3, <1>4
<1>6. V \in Seq(Entry) /\ DOMAIN V = 1 .. m /\ \A i \in 1 .. m : V[i].use = S[i] /\ V[i].do = "solve"
  BY <1>3, <1>5
<1>7. \A i \in 1 .. m : S[i] \in Uses[h]
  <2>1. \A i \in 1 .. m : S[i] \in Direct(h)
    BY <1>1 DEF Direct
  <2>2. QED BY <2>1, UsesAreLeast
<1>8. Agenda(V, h)
  BY <1>6, <1>7 DEF Agenda, Nested
<1>9. QED BY <1>1, <1>2, <1>8
-----------------------------------------------------------------------------
LEMMA CountingStarts ==
  ASSUME NEW h \in Handlers, NEW O \in [Dependencies -> Callables]
  PROVE  Counted(Visits(Needs[h]), [f \in Callables |-> 0], {}, O, h)
<1>1. PICK A : A = Visits(Needs[h])
  OBVIOUS
<1>2. PICK K : K = [f \in Callables |-> 0]
  OBVIOUS
<1>3. DOMAIN A = DOMAIN Needs[h] /\ \A i \in DOMAIN A : A[i].use = Needs[h][i] /\ A[i].do = "solve"
  BY <1>1 DEF Visits
<1>4. \A u \in Uses[h] : K[O[u.dep]] = 0
  <2>1. \A u \in Uses[h] : O[u.dep] \in Callables
    BY UsesAreLeast, UseFields
  <2>2. QED BY <1>2, <2>1
<1>5. \A u \in Direct(h) : \E i \in DOMAIN A : A[i].use.dep = u.dep
  BY <1>3 DEF Direct
<1>6. Counted(A, K, {}, O, h)
  BY <1>3, <1>4, <1>5 DEF Counted
<1>7. QED BY <1>1, <1>2, <1>6

\* The head of the agenda is found in the cache.
LEMMA SkipKeepsCounted ==
  ASSUME NEW h \in Handlers, NEW A, NEW K, NEW C, NEW O, NEW u, NEW T, Done(A, T),
         Counted(A, K, C, O, h), u = A[1].use, A[1].do = "solve", O[u.dep] \in C
  PROVE  Counted(T, K, C, O, h)
<1>1. PICK l \in Nat \ {0} :
        /\ DOMAIN A = 1 .. l /\ DOMAIN T = 1 .. (l - 1)
        /\ \A i \in 1 .. (l - 1) : T[i] = A[i + 1]
  BY DEF Done
<1>2. K[O[u.dep]] # 0
  BY DEF Counted
<1>3. ASSUME NEW i \in 1 .. l, i # 1 PROVE i - 1 \in 1 .. (l - 1) /\ T[i - 1] = A[i]
  <2>1. i - 1 \in 1 .. (l - 1) /\ (i - 1) + 1 = i
    BY <1>3
  <2>2. QED BY <1>1, <2>1
<1>4. \A k \in 1 .. (l - 1) : k + 1 \in 1 .. l /\ T[k] = A[k + 1]
  BY <1>1
<1>5. ASSUME NEW d, NEW i \in 1 .. l, A[i].use.dep = d
      PROVE  K[O[d]] # 0 \/ (i - 1 \in DOMAIN T /\ T[i - 1].use.dep = d)
  <2>1. CASE i = 1
    BY <1>2, <1>5, <2>1
  <2>2. CASE i # 1
    BY <1>1, <1>3, <1>5, <2>2
  <2>3. QED BY <2>1, <2>2
<1>6. ASSUME NEW v \in Direct(h)
      PROVE  K[O[v.dep]] # 0 \/ \E i \in DOMAIN T : T[i].use.dep = v.dep
  BY <1>1, <1>5 DEF Counted
<1>7. ASSUME NEW k \in DOMAIN T, T[k].do = "call", NEW j \in DOMAIN Subs[T[k].use.dep]
      PROVE  \/ K[O[Subs[T[k].use.dep][j].dep]] # 0
             \/ \E i \in DOMAIN T : i < k /\ T[i].use.dep = Subs[T[k].use.dep][j].dep
  <2>1. k + 1 \in DOMAIN A /\ T[k] = A[k + 1] /\ k \in Nat
    BY <1>1, <1>4, <1>7
  <2>2. PICK d : d = Subs[T[k].use.dep][j].dep
    OBVIOUS
  <2>3. K[O[d]] # 0 \/ \E i \in DOMAIN A : i < k + 1 /\ A[i].use.dep = d
    <3>1. PICK n : n = k + 1
      OBVIOUS
    <3>2. n \in DOMAIN A /\ A[n].do = "call" /\ j \in DOMAIN Subs[A[n].use.dep]
          /\ d = Subs[A[n].use.dep][j].dep
      BY <1>7, <2>1, <2>2, <3>1
    <3>3. K[O[d]] # 0 \/ \E i \in DOMAIN A : i < n /\ A[i].use.dep = d
      BY <3>2, CallsWait
    <3>4. QED BY <3>1, <3>3
  <2>4. ASSUME NEW i \in DOMAIN A, i < k + 1, A[i].use.dep = d
        PROVE  K[O[d]] # 0 \/ (i - 1 \in DOMAIN T /\ i - 1 < k /\ T[i - 1].use.dep = d)
    <3>1. i \in 1 .. l /\ i - 1 < k
      BY <1>1, <2>1, <2>4
    <3>2. QED BY <1>5, <2>4, <3>1
  <2>5. QED BY <2>2, <2>3, <2>4
<1>8. ASSUME NEW v \in Uses[h], Always(v.dep, h)
      PROVE  /\ K[O[v.dep]] \in {0, 1} /\ (K[O[v.dep]] # 0 => O[v.dep] \in C)
             /\ \A k \in DOMAIN T : T[k].do = "call" /\ T[k].use.dep = v.dep => O[v.dep] \notin C
  <2>1. /\ K[O[v.dep]] \in {0, 1} /\ (K[O[v.dep]] # 0 => O[v.dep] \in C)
        /\ \A k \in DOMAIN A : A[k].do = "call" /\ A[k].use.dep = v.dep => O[v.dep] \notin C
    BY <1>8 DEF Counted
  <2>2. ASSUME NEW k \in DOMAIN T, T[k].do = "call", T[k].use.dep = v.dep PROVE O[v.dep] \notin C
    <3>1. k + 1 \in DOMAIN A /\ T[k] = A[k + 1]
      BY <1>1, <1>4, <2>2
    <3>2. A[k + 1].do = "call" /\ A[k + 1].use.dep = v.dep
      BY <2>2, <3>1
    <3>3. QED BY <2>1, <3>1, <3>2
  <2>3. QED BY <2>1, <2>2
<1>9. QED BY <1>6, <1>7, <1>8 DEF Counted

\* The head of the agenda is not in the cache, or is not to be taken from it.
LEMMA PushKeepsCounted ==
  ASSUME NEW h \in Handlers, NEW A, NEW K, NEW C, NEW O, NEW u, NEW Q, Pushed(A, u, Q),
         Agenda(A, h), Counted(A, K, C, O, h), u = A[1].use, A[1].do = "solve",
         ~(u.cached /\ O[u.dep] \in C)
  PROVE  Counted(Q, K, C, O, h)
<1>1. PICK l \in Nat \ {0}, m \in Nat :
        /\ DOMAIN A = 1 .. l /\ DOMAIN Subs[u.dep] = 1 .. m
        /\ Q \in Seq(Entry) /\ DOMAIN Q = 1 .. (l + m)
        /\ \A i \in 1 .. m : Q[i] = [do |-> "solve", use |-> Subs[u.dep][i]]
        /\ Q[m + 1] = [do |-> "call", use |-> u]
        /\ \A i \in 2 .. l : Q[i + m] = A[i]
  BY DEF Pushed
<1>2. u \in Uses[h] /\ u \in Use
  <2>1. 1 \in DOMAIN A
    BY <1>1
  <2>2. u \in Uses[h]
    BY <2>1 DEF Agenda
  <2>3. QED BY <2>2, UsesAreLeast
<1>3. ASSUME NEW i \in 1 .. m
      PROVE  i \in DOMAIN Q /\ Q[i].do = "solve" /\ Q[i].use = Subs[u.dep][i]
  <2>1. Q[i] = [do |-> "solve", use |-> Subs[u.dep][i]]
    BY <1>1, <1>3
  <2>2. Q[i].do = "solve" /\ Q[i].use = Subs[u.dep][i]
    BY <2>1
  <2>3. i \in 1 .. (l + m)
    BY <1>1, <1>3
  <2>4. QED BY <1>1, <2>2, <2>3
<1>4. m + 1 \in DOMAIN Q /\ Q[m + 1].do = "call" /\ Q[m + 1].use = u
  <2>1. Q[m + 1] = [do |-> "call", use |-> u]
    BY <1>1
  <2>2. Q[m + 1].do = "call" /\ Q[m + 1].use = u
    BY <2>1
  <2>3. m + 1 \in 1 .. (l + m)
    BY <1>1
  <2>4. QED BY <1>1, <2>2, <2>3
<1>5. ASSUME NEW d, NEW i \in DOMAIN A, A[i].use.dep = d
      PROVE  \/ i = 1 /\ Q[m + 1].use.dep = d
             \/ i # 1 /\ i + m \in DOMAIN Q /\ Q[i + m].use.dep = d
  <2>1. CASE i = 1
    BY <1>4, <1>5, <2>1
  <2>2. CASE i # 1
    <3>1. i \in 2 .. l /\ i + m \in 1 .. (l + m)
      BY <1>1, <1>5, <2>2
    <3>2. QED BY <1>1, <1>5, <2>2, <3>1
  <2>3. QED BY <2>1, <2>2
<1>6. ASSUME NEW k \in DOMAIN Q, Q[k].do = "call"
      PROVE  \/ k = m + 1
             \/ k - m \in DOMAIN A /\ k - m # 1 /\ Q[k] = A[k - m]
  <2>1. k \in 1 .. (l + m) /\ k \notin 1 .. m
    BY <1>1, <1>3, <1>6
  <2>2. CASE k # m + 1
    <3>1. k - m \in 2 .. l /\ (k - m) + m = k
      BY <1>1, <2>1, <2>2
    <3>2. Q[(k - m) + m] = A[k - m]
      BY <1>1, <3>1
    <3>3. k - m \in 1 .. l /\ k - m # 1
      BY <1>1, <3>1
    <3>4. QED BY <1>1, <3>1, <3>2, <3>3
  <2>3. QED BY <2>2
<1>7. ASSUME NEW v \in Direct(h)
      PROVE  K[O[v.dep]] # 0 \/ \E i \in DOMAIN Q : Q[i].use.dep = v.dep
  <2>1. K[O[v.dep]] # 0 \/ \E i \in DOMAIN A : A[i].use.dep = v.dep
    BY DEF Counted
  <2>2. ASSUME NEW i \in DOMAIN A, A[i].use.dep = v.dep
        PROVE  \E k \in DOMAIN Q : Q[k].use.dep = v.dep
    BY <1>4, <1>5, <2>2
  <2>3. QED BY <2>1, <2>2
<1>8. ASSUME NEW k \in DOMAIN Q, Q[k].do = "call", NEW j \in DOMAIN Subs[Q[k].use.dep]
      PROVE  \/ K[O[Subs[Q[k].use.dep][j].dep]] # 0
             \/ \E i \in DOMAIN Q : i < k /\ Q[i].use.dep = Subs[Q[k].use.dep][j].dep
  <2>1. PICK d : d = Subs[Q[k].use.dep][j].dep
    OBVIOUS
  <2>2. CASE k = m + 1
    <3>1. j \in 1 .. m /\ d = Subs[u.dep][j].dep
      BY <1>1, <1>4, <1>8, <2>1, <2>2
    <3>2. j \in DOMAIN Q /\ Q[j].use.dep = d
      BY <1>3, <3>1
    <3>3. j < k
      BY <2>2, <3>1
    <3>4. QED BY <2>1, <3>2, <3>3
  <2>3. CASE k - m \in DOMAIN A /\ k - m # 1 /\ Q[k] = A[k - m]
    <3>1. K[O[d]] # 0 \/ \E i \in DOMAIN A : i < k - m /\ A[i].use.dep = d
      BY <1>8, <2>1, <2>3 DEF Counted
    <3>2. ASSUME NEW i \in DOMAIN A, i < k - m, A[i].use.dep = d
          PROVE  \E n \in DOMAIN Q : n < k /\ Q[n].use.dep = d
      <4>1. i \in 1 .. l /\ k \in 1 .. (l + m)
        BY <1>1, <1>8, <3>2
      <4>2. m + 1 < k /\ i + m < k
        <5>1. k - m \in 1 .. l /\ k - m # 1
          BY <1>1, <2>3
        <5>2. QED BY <1>1, <3>2, <4>1, <5>1
      <4>3. QED BY <1>4, <1>5, <3>2, <4>2
    <3>3. QED BY <2>1, <3>1, <3>2
  <2>4. QED BY <1>6, <1>8, <2>2, <2>3
<1>9. ASSUME NEW v \in Uses[h], Always(v.dep, h)
      PROVE  /\ K[O[v.dep]] \in {0, 1} /\ (K[O[v.dep]] # 0 => O[v.dep] \in C)
             /\ \A k \in DOMAIN Q : Q[k].do = "call" /\ Q[k].use.dep = v.dep => O[v.dep] \notin C
  <2>1. /\ K[O[v.dep]] \in {0, 1} /\ (K[O[v.dep]] # 0 => O[v.dep] \in C)
        /\ \A k \in DOMAIN A : A[k].do = "call" /\ A[k].use.dep = v.dep => O[v.dep] \notin C
    BY <1>9 DEF Counted
  <2>2. ASSUME NEW k \in DOMAIN Q, Q[k].do = "call", Q[k].use.dep = v.dep PROVE O[v.dep] \notin C
    <3>1. CASE k = m + 1
      <4>1. u.dep = v.dep
        BY <1>4, <2>2, <3>1
      <4>2. u.cached
        <5>1. u.cached \in BOOLEAN /\ u = [dep |-> u.dep, cached |-> u.cached]
          BY <1>2, UseFields
        <5>2. [dep |-> u.dep, cached |-> FALSE] \notin Uses[h]
          BY <1>9, <4>1 DEF Always
        <5>3. u.cached # FALSE
          BY <1>2, <5>1, <5>2
        <5>4. QED BY <5>1, <5>3
      <4>3. QED BY <4>1, <4>2
    <3>2. CASE k - m \in DOMAIN A /\ Q[k] = A[k - m]
      BY <2>1, <2>2, <3>2
    <3>3. QED BY <1>6, <2>2, <3>1, <3>2
  <2>3. QED BY <2>1, <2>2
<1>10. \A f \in C : K[f] # 0
  BY DEF Counted
<1>11. \A v \in Uses[h] : K[O[v.dep]] # 0 =>
         \A j \in DOMAIN Subs[v.dep] : K[O[Subs[v.dep][j].dep]] # 0
  BY DEF Counted
<1>12. QED BY <1>7, <1>8, <1>9, <1>10, <1>11 DEF Counted

\* By K2, f has been called once more than by K.
CalledOnceMore(K, K2, f) ==
  /\ K \in [Callables -> Nat] /\ K2 \in [Callables -> Nat] /\ f \in Callables
  /\ K2[f] = K[f] + 1 /\ \A g \in Callables : g # f => K2[g] = K[g]

\* C2 is the cache after a call of f, whose use is u.
CachedAfter(C, C2, u, f) ==
  C \subseteq Callables /\ C2 = IF u.cached THEN C \cup {f} ELSE C

\* The head of the agenda is called.
LEMMA CallKeepsCounted ==
  ASSUME NEW h \in Handlers, NEW O \in [Dependencies -> Callables], Unshared(O, h),
         NEW A, NEW K, NEW C, NEW u, NEW T, NEW K2, NEW C2,
         Done(A, T), Agenda(A, h), Counted(A, K, C, O, h), u = A[1].use, A[1].do = "call",
         CalledOnceMore(K, K2, O[u.dep]), CachedAfter(C, C2, u, O[u.dep])
  PROVE  Counted(T, K2, C2, O, h)
<1>1. PICK l \in Nat \ {0} :
        /\ DOMAIN A = 1 .. l /\ DOMAIN T = 1 .. (l - 1)
        /\ \A i \in 1 .. (l - 1) : T[i] = A[i + 1]
  BY DEF Done
<1>2. PICK f : f = O[u.dep]
  OBVIOUS
<1>3. u \in Uses[h] /\ u \in Use /\ u.dep \in Dependencies /\ 1 \in DOMAIN A
  <2>1. 1 \in DOMAIN A
    BY <1>1
  <2>2. u \in Uses[h]
    BY <2>1 DEF Agenda
  <2>3. QED BY <2>1, <2>2, UsesAreLeast, UseFields
<1>4. f \in Callables /\ K[f] \in Nat /\ K2[f] = K[f] + 1 /\ K2[f] # 0
  BY <1>2, <1>3 DEF CalledOnceMore
<1>5. \A g \in Callables : (K[g] # 0 => K2[g] # 0) /\ (g # f => K2[g] = K[g])
  BY <1>2, <1>4 DEF CalledOnceMore
<1>6. ASSUME NEW i \in 1 .. l, i # 1 PROVE i - 1 \in 1 .. (l - 1) /\ T[i - 1] = A[i]
  <2>1. i - 1 \in 1 .. (l - 1) /\ (i - 1) + 1 = i
    BY <1>6
  <2>2. QED BY <1>1, <2>1
<1>7. \A k \in 1 .. (l - 1) : k + 1 \in 1 .. l /\ T[k] = A[k + 1]
  BY <1>1
<1>8. ASSUME NEW d, NEW i \in 1 .. l, A[i].use.dep = d
      PROVE  K2[O[d]] # 0 \/ (i - 1 \in DOMAIN T /\ T[i - 1].use.dep = d)
  <2>1. CASE i = 1
    BY <1>2, <1>4, <1>8, <2>1
  <2>2. CASE i # 1
    BY <1>1, <1>6, <1>8, <2>2
  <2>3. QED BY <2>1, <2>2
<1>9. \A v \in Uses[h] : v.dep \in Dependencies /\ O[v.dep] \in Callables
  BY UsesAreLeast, UseFields
<1>10. ASSUME NEW v \in Uses[h], NEW j \in DOMAIN Subs[v.dep]
       PROVE  Subs[v.dep][j] \in Uses[h] /\ O[Subs[v.dep][j].dep] \in Callables
  BY <1>9, <1>10, UsesAreLeast DEF Closed
<1>11. \A g \in C2 : K2[g] # 0
  <2>1. C \subseteq Callables /\ C2 \subseteq C \cup {f}
    BY <1>2 DEF CachedAfter
  <2>2. \A g \in C : K[g] # 0
    BY DEF Counted
  <2>3. QED BY <1>4, <1>5, <2>1, <2>2
<1>12. ASSUME NEW v \in Direct(h)
       PROVE  K2[O[v.dep]] # 0 \/ \E i \in DOMAIN T : T[i].use.dep = v.dep
  <2>1. v \in Uses[h]
    BY UsesAreLeast
  <2>2. K[O[v.dep]] # 0 \/ \E i \in DOMAIN A : A[i].use.dep = v.dep
    BY DEF Counted
  <2>3. CASE K[O[v.dep]] # 0
    BY <1>5, <1>9, <2>1, <2>3
  <2>4. ASSUME NEW i \in DOMAIN A, A[i].use.dep = v.dep
        PROVE  K2[O[v.dep]] # 0 \/ \E k \in DOMAIN T : T[k].use.dep = v.dep
    BY <1>1, <1>8, <2>4
  <2>5. QED BY <2>2, <2>3, <2>4
<1>13. ASSUME NEW v \in Uses[h], K2[O[v.dep]] # 0, NEW j \in DOMAIN Subs[v.dep]
       PROVE  K2[O[Subs[v.dep][j].dep]] # 0
  <2>1. K[O[Subs[v.dep][j].dep]] # 0
    <3>1. CASE O[v.dep] = f
      <4>1. v.dep = u.dep
        BY <1>2, <1>3, <3>1 DEF Unshared
      <4>2. PICK d : d = Subs[v.dep][j].dep
        OBVIOUS
      <4>3. K[O[d]] # 0 \/ \E i \in DOMAIN A : i < 1 /\ A[i].use.dep = d
        BY <1>3, <1>13, <4>1, <4>2 DEF Counted
      <4>4. \A i \in DOMAIN A : ~(i < 1)
        BY <1>1
      <4>5. QED BY <4>2, <4>3, <4>4
    <3>2. CASE O[v.dep] # f
      <4>1. K[O[v.dep]] # 0
        BY <1>5, <1>9, <1>13, <3>2
      <4>2. QED BY <1>13, <4>1 DEF Counted
    <3>3. QED BY <3>1, <3>2
  <2>2. O[Subs[v.dep][j].dep] \in Callables
    BY <1>10, <1>13
  <2>3. QED BY <1>5, <2>1, <2>2
<1>14. ASSUME NEW k \in DOMAIN T, T[k].do = "call", NEW j \in DOMAIN Subs[T[k].use.dep]
       PROVE  \/ K2[O[Subs[T[k].use.dep][j].dep]] # 0
              \/ \E i \in DOMAIN T : i < k /\ T[i].use.dep = Subs[T[k].use.dep][j].dep
  <2>1. k + 1 \in DOMAIN A /\ T[k] = A[k + 1] /\ k \in Nat
    BY <1>1, <1>7, <1>14
  <2>2. PICK d : d = Subs[T[k].use.dep][j].dep
    OBVIOUS
  <2>3. K[O[d]] # 0 \/ \E i \in DOMAIN A : i < k + 1 /\ A[i].use.dep = d
    <3>1. PICK n : n = k + 1
      OBVIOUS
    <3>2. n \in DOMAIN A /\ A[n].do = "call" /\ j \in DOMAIN Subs[A[n].use.dep]
          /\ d = Subs[A[n].use.dep][j].dep
      BY <1>14, <2>1, <2>2, <3>1
    <3>3. K[O[d]] # 0 \/ \E i \in DOMAIN A : i < n /\ A[i].use.dep = d
      BY <3>2, CallsWait
    <3>4. QED BY <3>1, <3>3
  <2>4. O[d] \in Callables
    <3>1. T[k].use \in Uses[h]
      BY <2>1 DEF Agenda
    <3>2. QED BY <1>10, <1>14, <2>2, <3>1
  <2>5. ASSUME NEW i \in DOMAIN A, i < k + 1, A[i].use.dep = d
        PROVE  K2[O[d]] # 0 \/ (i - 1 \in DOMAIN T /\ i - 1 < k /\ T[i - 1].use.dep = d)
    <3>1. i \in 1 .. l /\ i - 1 < k
      BY <1>1, <2>1, <2>5
    <3>2. QED BY <1>8, <2>5, <3>1
  <2>6. QED BY <1>5, <2>2, <2>3, <2>4, <2>5
<1>15. ASSUME NEW v \in Uses[h], Always(v.dep, h)
       PROVE  /\ K2[O[v.dep]] \in {0, 1} /\ (K2[O[v.dep]] # 0 => O[v.dep] \in C2)
              /\ \A k \in DOMAIN T : T[k].do = "call" /\ T[k].use.dep = v.dep => O[v.dep] \notin C2
  <2>1. /\ K[O[v.dep]] \in {0, 1} /\ (K[O[v.dep]] # 0 => O[v.dep] \in C)
        /\ \A k \in DOMAIN A : A[k].do = "call" /\ A[k].use.dep = v.dep => O[v.dep] \notin C
    BY <1>15 DEF Counted
  <2>2. CASE v.dep = u.dep
    <3>1. u.cached
      <4>1. u.cached \in BOOLEAN /\ u = [dep |-> u.dep, cached |-> u.cached]
        BY <1>3, UseFields
      <4>2. [dep |-> u.dep, cached |-> FALSE] \notin Uses[h]
        BY <1>15, <2>2 DEF Always
      <4>3. u.cached # FALSE
        BY <1>3, <4>1, <4>2
      <4>4. QED BY <4>1, <4>3
    <3>2. K[f] = 0
      BY <1>2, <1>3, <2>1, <2>2
    <3>3. K2[f] = 1 /\ f \in C2
      BY <1>2, <1>4, <3>1, <3>2 DEF CachedAfter
    <3>4. ASSUME NEW k \in DOMAIN T, T[k].do = "call", T[k].use.dep = v.dep PROVE FALSE
      <4>1. k + 1 \in DOMAIN A /\ T[k] = A[k + 1] /\ 1 < k + 1
        BY <1>1, <1>7, <3>4
      <4>2. Rank[u.dep] < Rank[A[k + 1].use.dep]
        BY <1>3, <3>4, <4>1 DEF Agenda, Nested
      <4>3. Rank[u.dep] \in Int /\ A[k + 1].use.dep = u.dep
        BY <1>3, <2>2, <3>4, <4>1, RankDescends
      <4>4. QED BY <4>2, <4>3
    <3>5. QED BY <1>2, <2>2, <3>3, <3>4
  <2>3. CASE v.dep # u.dep
    <3>1. O[v.dep] # f
      BY <1>2, <1>3, <2>3 DEF Unshared
    <3>2. K2[O[v.dep]] = K[O[v.dep]] /\ (O[v.dep] \in C2 <=> O[v.dep] \in C)
      BY <1>2, <1>5, <1>9, <3>1 DEF CachedAfter
    <3>3. ASSUME NEW k \in DOMAIN T, T[k].do = "call", T[k].use.dep = v.dep PROVE O[v.dep] \notin C
      <4>1. k + 1 \in DOMAIN A /\ T[k] = A[k + 1]
        BY <1>1, <1>7, <3>3
      <4>2. A[k + 1].do = "call" /\ A[k + 1].use.dep = v.dep
        BY <3>3, <4>1
      <4>3. QED BY <2>1, <4>1, <4>2
    <3>4. QED BY <2>1, <3>2, <3>3
  <2>4. QED BY <2>2, <2>3
<1>16. QED BY <1>11, <1>12, <1>13, <1>14, <1>15 DEF Counted

\* With nothing left to solve or to call, all that the handler needs has been called.
LEMMA AllIsCalled ==
  ASSUME NEW h \in Handlers, NEW O, NEW K, NEW C, Counted(<< >>, K, C, O, h)
  PROVE  \A u \in Uses[h] : K[O[u.dep]] # 0 /\ (Always(u.dep, h) => K[O[u.dep]] = 1)
<1>1. DOMAIN << >> = {}
  OBVIOUS
<1>2. PICK S : S = {u \in Uses[h] : K[O[u.dep]] # 0}
  OBVIOUS
<1>3. Direct(h) \subseteq Uses[h] /\ Closed(Uses[h]) /\ S \in SUBSET Use
  BY <1>2, UsesAreLeast
<1>4. Direct(h) \subseteq S
  BY <1>1, <1>2, <1>3 DEF Counted
<1>5. \A u \in S : \A j \in DOMAIN Subs[u.dep] : Subs[u.dep][j] \in S
  <2>1. ASSUME NEW u \in S, NEW j \in DOMAIN Subs[u.dep] PROVE Subs[u.dep][j] \in S
    <3>1. u \in Uses[h] /\ K[O[u.dep]] # 0
      BY <1>2
    <3>2. Subs[u.dep][j] \in Uses[h]
      BY <1>3, <3>1 DEF Closed
    <3>3. K[O[Subs[u.dep][j].dep]] # 0
      BY <3>1 DEF Counted
    <3>4. QED BY <1>2, <3>2, <3>3
  <2>2. QED BY <2>1
<1>6. Uses[h] \subseteq S
  BY <1>3, <1>4, <1>5, UsesAreLeast DEF Closed
<1>7. \A u \in Uses[h] : K[O[u.dep]] # 0
  BY <1>2, <1>6
<1>8. \A u \in Uses[h] : Always(u.dep, h) => K[O[u.dep]] \in {0, 1}
  BY DEF Counted
<1>9. QED BY <1>7, <1>8
-----------------------------------------------------------------------------
Handler == routes[route].handler

SolveInv ==
  /\ overrides \in [Dependencies -> Callables]
  /\ cache \subseteq Callables /\ calls \in [Callables -> Nat]
  /\ phase = "solve" =>
       /\ route # 0 /\ Agenda(agenda, Handler)
       /\ Unshared(overrides, Handler) => Counted(agenda, calls, cache, overrides, Handler)

LEMMA HandlerServes ==
  ASSUME TableInv, ChainInv, phase # "idle", route # 0
  PROVE  route \in 1 .. Len(routes) /\ Handler \in Handlers
<1>1. route \in 1..Len(routes) /\ routes \in Seq(RouteRecord)
  BY InnerIsSeq DEF TableInv, Tables
<1>2. routes[route] \in RouteRecord
  BY <1>1, ElementOfSeq
<1>3. QED BY <1>1, <1>2 DEF RouteRecord, Handler

\* What is solved starts as what the handler needs.
LEMMA EndpointKeepsSolve ==
  ASSUME TableInv, ChainInv, SolveInv, Endpoint PROVE SolveInv'
<1>1. /\ cache' = {} /\ calls' = [f \in Callables |-> 0] /\ overrides' = overrides
      /\ routes' = routes /\ route' = route /\ phase = "down"
  BY DEF Endpoint, Unchanged, appVars, tableVars, matchVars
<1>2. cache' \subseteq Callables /\ calls' \in [Callables -> Nat]
  BY <1>1
<1>3. CASE route = 0
  BY <1>1, <1>2, <1>3 DEF Endpoint, SolveInv
<1>4. CASE route # 0
  <2>1. PICK h \in Handlers : h = Handler
    BY <1>1, <1>4, HandlerServes
  <2>2. agenda' = Visits(Needs[h]) /\ Handler' = h
    BY <1>1, <1>4, <2>1 DEF Endpoint, Handler
  <2>3. Agenda(agenda', h)
    BY <2>2, VisitsAreAgenda
  <2>4. overrides \in [Dependencies -> Callables]
    BY DEF SolveInv
  <2>5. Counted(agenda', calls', cache', overrides, h)
    BY <1>1, <2>2, <2>4, CountingStarts
  <2>6. QED BY <1>1, <1>2, <1>4, <2>2, <2>3, <2>4, <2>5 DEF SolveInv
<1>5. QED BY <1>3, <1>4

\* The head of a handler's agenda.
LEMMA AgendaHead ==
  ASSUME NEW h \in Handlers, NEW A, Agenda(A, h), A # << >>
  PROVE  /\ A \in Seq(Entry) /\ Head(A) = A[1] /\ A[1].use \in Uses[h] /\ A[1].use \in Use
         /\ A[1].use.dep \in Dependencies
<1>1. A \in Seq(Entry)
  BY DEF Agenda
<1>2. Head(A) = A[1] /\ 1 \in DOMAIN A
  <2>1. Len(A) \in Nat /\ Len(A) # 0
    BY <1>1, EmptySeq, LenProperties
  <2>2. QED BY <1>1, <2>1, TailIsDone, LenProperties
<1>3. A[1].use \in Uses[h]
  BY <1>2 DEF Agenda
<1>4. QED BY <1>1, <1>2, <1>3, UsesAreLeast, UseFields

LEMMA SolveKeepsSolve ==
  ASSUME TableInv, ChainInv, SolveInv, Solve PROVE SolveInv'
<1>1. /\ cache' = cache /\ calls' = calls /\ overrides' = overrides
      /\ routes' = routes /\ route' = route /\ phase = "solve" /\ phase' = phase
  BY DEF Solve, Unchanged, appVars, tableVars, matchVars
<1>2. PICK h \in Handlers : h = Handler
  BY <1>1, HandlerServes DEF SolveInv
<1>3. PICK A : A = agenda
  OBVIOUS
<1>4. /\ Handler' = h /\ route # 0 /\ Agenda(A, h) /\ A # << >> /\ Head(A).do = "solve"
      /\ Unshared(overrides, h) => Counted(A, calls, cache, overrides, h)
  BY <1>1, <1>2, <1>3 DEF Solve, SolveInv, Handler
<1>5. PICK u : u = A[1].use
  OBVIOUS
<1>6. /\ A \in Seq(Entry) /\ Head(A) = A[1] /\ u \in Use /\ A[1].do = "solve"
  BY <1>4, <1>5, AgendaHead
<1>7. Agenda(agenda', h) /\ (Unshared(overrides, h) => Counted(agenda', calls, cache, overrides, h))
  <2>1. CASE u.cached /\ overrides[u.dep] \in cache
    <3>1. PICK T : T = Tail(A)
      OBVIOUS
    <3>2. agenda' = T
      BY <1>3, <1>5, <1>6, <2>1, <3>1 DEF Solve
    <3>3. Done(A, T)
      BY <1>4, <1>6, <3>1, TailIsDone
    <3>4. Agenda(T, h)
      BY <1>4, <3>3, DoneKeepsAgenda
    <3>5. ASSUME Counted(A, calls, cache, overrides, h) PROVE Counted(T, calls, cache, overrides, h)
      BY <1>5, <1>6, <2>1, <3>3, <3>5, SkipKeepsCounted
    <3>6. QED BY <1>4, <3>2, <3>4, <3>5
  <2>2. CASE ~(u.cached /\ overrides[u.dep] \in cache)
    <3>1. PICK Q : Q = Visits(Subs[u.dep]) \o <<[do |-> "call", use |-> u]>> \o Tail(A)
      OBVIOUS
    <3>2. agenda' = Q
      BY <1>3, <1>5, <1>6, <2>2, <3>1 DEF Solve
    <3>3. Pushed(A, u, Q)
      BY <1>4, <1>6, <3>1, VisitsArePushed
    <3>4. Agenda(Q, h)
      BY <1>4, <1>5, <3>3, PushKeepsAgenda
    <3>5. ASSUME Counted(A, calls, cache, overrides, h) PROVE Counted(Q, calls, cache, overrides, h)
      BY <1>4, <1>5, <1>6, <2>2, <3>3, <3>5, PushKeepsCounted
    <3>6. QED BY <1>4, <3>2, <3>4, <3>5
  <2>3. QED BY <2>1, <2>2
<1>8. QED BY <1>1, <1>4, <1>7 DEF SolveInv

LEMMA CallKeepsSolve ==
  ASSUME TableInv, ChainInv, SolveInv, Call PROVE SolveInv'
<1>1. /\ overrides' = overrides /\ routes' = routes /\ route' = route /\ phase = "solve"
  BY DEF Call, Unchanged, appVars, tableVars, matchVars
<1>2. PICK h \in Handlers : h = Handler
  BY <1>1, HandlerServes DEF SolveInv
<1>3. PICK A : A = agenda
  OBVIOUS
<1>4. /\ Handler' = h /\ route # 0 /\ Agenda(A, h) /\ A # << >> /\ Head(A).do = "call"
      /\ Unshared(overrides, h) => Counted(A, calls, cache, overrides, h)
  BY <1>1, <1>2, <1>3 DEF Call, SolveInv, Handler
<1>5. PICK u : u = A[1].use
  OBVIOUS
<1>6. /\ A \in Seq(Entry) /\ Head(A) = A[1] /\ u \in Use /\ A[1].do = "call" /\ u.dep \in Dependencies
  BY <1>4, <1>5, AgendaHead
<1>7. /\ overrides \in [Dependencies -> Callables] /\ cache \subseteq Callables
      /\ calls \in [Callables -> Nat]
  BY DEF SolveInv
<1>8. CASE phase' = "unwind" /\ cache' = cache /\ calls' = calls
  BY <1>1, <1>7, <1>8 DEF SolveInv
<1>9. CASE /\ calls' = [calls EXCEPT ![overrides[u.dep]] = @ + 1]
           /\ cache' = IF u.cached THEN cache \cup {overrides[u.dep]} ELSE cache
           /\ agenda' = Tail(A)
  <2>1. PICK f \in Callables : f = overrides[u.dep]
    BY <1>6, <1>7
  <2>2. PICK T : T = Tail(A)
    OBVIOUS
  <2>3. Done(A, T)
    BY <1>4, <1>6, <2>2, TailIsDone
  <2>4. Agenda(T, h)
    BY <1>4, <2>3, DoneKeepsAgenda
  <2>5. /\ calls' \in [Callables -> Nat] /\ calls'[f] = calls[f] + 1
        /\ \A g \in Callables : g # f => calls'[g] = calls[g]
    BY <1>7, <1>9, <2>1
  <2>6. CalledOnceMore(calls, calls', f)
    BY <1>7, <2>5 DEF CalledOnceMore
  <2>7. CachedAfter(cache, cache', u, f) /\ cache' \subseteq Callables
    BY <1>7, <1>9, <2>1 DEF CachedAfter
  <2>8. ASSUME Unshared(overrides, h) PROVE Counted(T, calls', cache', overrides, h)
    BY <1>4, <1>5, <1>6, <1>7, <2>1, <2>3, <2>6, <2>7, <2>8, CallKeepsCounted
  <2>9. QED BY <1>1, <1>4, <1>7, <1>9, <2>2, <2>4, <2>5, <2>7, <2>8 DEF SolveInv
<1>10. QED BY <1>3, <1>5, <1>6, <1>8, <1>9 DEF Call, Raise

LEMMA SolveStep ==
  ASSUME RegistryInv, ChainInv, SolveInv, [Next]_vars PROVE SolveInv'
<1>1. CASE Registration
  <2>1. phase = "idle" /\ phase' = phase /\ cache' = cache /\ calls' = calls
    BY <1>1 DEF RegistryInv, Registration, UseMiddleware, AddRoute, AddPending, IncludeRouter,
       IncludeNext, Override, requestVars, localVars, solveVars
  <2>2. overrides' \in [Dependencies -> Callables]
    <3>1. ASSUME NEW o \in Replacements, Override(o[1], o[2])
          PROVE  overrides' \in [Dependencies -> Callables]
      <4>1. o[1] \in Dependencies /\ o[2] \in Callables
        BY ConstantsAssumption
      <4>2. QED BY <3>1, <4>1 DEF Override, SolveInv
    <3>2. CASE ~\E o \in Replacements : Override(o[1], o[2])
      BY <1>1, <3>2 DEF Registration, UseMiddleware, AddRoute, AddPending, IncludeRouter,
         IncludeNext, SolveInv
    <3>3. QED BY <3>1, <3>2
  <2>3. QED BY <2>1, <2>2 DEF SolveInv
<1>2. CASE \E m \in Methods, p \in Paths, o \in {FALSE, CorsEnabled} : Resolve(m, p, o)
  BY <1>2 DEF Resolve, SolveInv, solveVars
<1>3. CASE Invoke
  BY <1>3 DEF Invoke, SolveInv, solveVars
<1>4. CASE Validate \/ Enter \/ Handle \/ Fallback \/ Leave \/ Unwind
  BY <1>4 DEF Validate, Enter, Handle, Fallback, Leave, Unwind, Raise, Unchanged, appVars,
     solveVars, SolveInv
<1>5. CASE CallExceptionHandler \/ Serialize
  <2>1. overrides' = overrides /\ phase' # "solve"
    BY <1>5 DEF CallExceptionHandler, Serialize, Forget, appVars
  <2>2. \/ cache' = cache /\ calls' = calls
        \/ cache' = {} /\ calls' = [f \in Callables |-> 0]
    BY <1>5 DEF CallExceptionHandler, Serialize, Forget, solveVars
  <2>3. cache' \subseteq Callables /\ calls' \in [Callables -> Nat]
    BY <2>2 DEF SolveInv
  <2>4. QED BY <2>1, <2>3 DEF SolveInv
<1>6. CASE Endpoint
  BY <1>6, EndpointKeepsSolve DEF RegistryInv
<1>7. CASE Solve
  BY <1>7, SolveKeepsSolve DEF RegistryInv
<1>8. CASE Call
  BY <1>8, CallKeepsSolve DEF RegistryInv
<1>9. CASE Finished \/ UNCHANGED vars
  BY <1>9 DEF Finished, vars, appVars, tableVars, requestVars, localVars, solveVars, SolveInv, Handler
<1>10. QED BY <1>1, <1>2, <1>3, <1>4, <1>5, <1>6, <1>7, <1>8, <1>9 DEF Next, Serve

LEMMA SolveInvariant == Spec => []SolveInv
<1>1. Init => SolveInv
  BY ConstantsAssumption DEF Init, SolveInv
<1>2. QED BY <1>1, SolveStep, ChainInvariant, PTL DEF Spec

\* When a handler runs, every callable that stands for a dependency it needs has been called
\* in this request, and exactly once if it is always taken from the cache, unless two of the
\* dependencies share a callable.
THEOREM DependenciesAreCalled == Spec => []CachedOnce
<1>1. ASSUME RegistryInv, ChainInv, SolveInv PROVE CachedOnce
  <2> SUFFICES ASSUME phase = "solve", agenda = << >>,
                      \A u, v \in Uses[Handler] : overrides[u.dep] = overrides[v.dep] => u.dep = v.dep,
                      NEW u \in Uses[Handler]
               PROVE  /\ calls[overrides[u.dep]] > 0
                      /\ [dep |-> u.dep, cached |-> FALSE] \notin Uses[Handler] =>
                           calls[overrides[u.dep]] = 1
    BY DEF CachedOnce, Handler
  <2>1. PICK h \in Handlers : h = Handler
    BY <1>1, HandlerServes DEF SolveInv, RegistryInv
  <2>2. Counted(<< >>, calls, cache, overrides, h)
    BY <1>1, <2>1 DEF SolveInv, Unshared
  <2>3. calls[overrides[u.dep]] # 0 /\ (Always(u.dep, h) => calls[overrides[u.dep]] = 1)
    BY <2>1, <2>2, AllIsCalled
  <2>4. calls[overrides[u.dep]] \in Nat
    <3>1. u.dep \in Dependencies
      BY <2>1, UsesAreLeast, UseFields
    <3>2. QED BY <1>1, <3>1 DEF SolveInv
  <2>5. QED BY <2>1, <2>3, <2>4 DEF Always
<1>2. QED BY <1>1, ChainInvariant, SolveInvariant, PTL
-----------------------------------------------------------------------------
(***************************************************************************)
(* Types.                                                                  *)
(***************************************************************************)

\* The chain being called ends before it is left.
DownFits ==
  phase = "down" => chain \in Seq(Link) /\ pos \in 0 .. Len(chain) /\ entered \in Seq(Middlewares)

LEMMA ChainsFit == ASSUME RegistryInv, ChainInv PROVE DownFits
<1> SUFFICES ASSUME phase = "down"
             PROVE  chain \in Seq(Link) /\ pos \in 0 .. Len(chain) /\ entered \in Seq(Middlewares)
  BY DEF DownFits
<1>1. PICK m \in Seq(Middlewares) : m = Inner
  BY InnerIsSeq DEF RegistryInv
<1>2. Descending(chain, m, pos, entered)
  BY <1>1 DEF ChainInv
<1>3. Around(m) \in Seq(Link) /\ Len(Around(m)) = Len(m) + 2 /\ Len(m) \in Nat
  BY AroundLinks
<1>4. QED BY <1>2, <1>3 DEF Descending

\* What a request leaves in the registers of the resolver.
RequestInv ==
  /\ phase \in Phases /\ (phase = "idle" => route = 0)
  /\ allowed \subseteq corsMethods
  /\ request.no \in 0 .. MaxRequests /\ cachedRequest \in 0 .. MaxRequests
  /\ chain \in Seq(Link) /\ pos \in 0 .. Len(chain) /\ entered \in Seq(Middlewares)
  /\ exception \in Exceptions \cup {"none"} /\ response \in Responses \cup {"none"}
  /\ phase = "unwind" <=> exception # "none"

LEMMA FrameworkExceptions ==
  /\ "none" \notin Exceptions
  /\ {"AssertionError", "JSONDecodeError", "RequestValidationError", "DependencyResolutionError"}
       \subseteq Exceptions
BY DEF Exceptions, Bases

LEMMA RequestRegistration ==
  ASSUME RegistryInv, RequestInv, Registration PROVE RequestInv'
<1>1. /\ phase' = phase /\ route' = route /\ allowed' = allowed /\ request' = request
      /\ cachedRequest' = cachedRequest /\ chain' = chain /\ pos' = pos /\ entered' = entered
      /\ exception' = exception /\ response' = response
  BY DEF Registration, UseMiddleware, AddRoute, AddPending, IncludeRouter, IncludeNext, Override,
         requestVars, localVars, chainVars, outcomeVars
<1>2. corsMethods \subseteq corsMethods'
  BY DEF Registration, UseMiddleware, AddRoute, AddPending, IncludeRouter, IncludeNext, Override,
         Register, tableVars
<1>3. QED BY <1>1, <1>2 DEF RequestInv

LEMMA RequestResolve ==
  ASSUME RegistryInv, RequestInv, NEW m \in Methods, NEW p \in Paths, NEW o, Resolve(m, p, o)
  PROVE  RequestInv'
<1>1. /\ phase = "idle" /\ phase' = "invoke" /\ request'.no = request.no + 1
      /\ request.no < MaxRequests /\ cachedRequest' = 0 /\ chain' = chain /\ pos' = pos
      /\ entered' = << >> /\ exception' = exception /\ response' = response
      /\ corsMethods' = corsMethods /\ allowed' = IF route' = 0 THEN AllowedMethods(p) ELSE {}
  BY DEF Resolve, outcomeVars
<1>2. request'.no \in 0 .. MaxRequests /\ 0 \in 0 .. MaxRequests
  BY <1>1, ConstantsAssumption DEF RequestInv
<1>3. << >> \in Seq(Middlewares)
  BY EmptySeq
<1>4. AllowedMethods(p) \subseteq corsMethods
  <2>1. pathMethods \in [Rules -> SUBSET corsMethods]
    BY DEF RegistryInv, TableInv, Tables
  <2>2. /\ routes \in Seq(RouteRecord)
        /\ \A i \in DOMAIN routes : routes[i].method \in pathMethods[routes[i].rule]
    BY DEF RegistryInv, TableInv, Tables
  <2>3. \A i \in DOMAIN routes : routes[i] \in RouteRecord
    BY <2>2, ElementOfSeq, LenProperties
  <2>4. \A i \in DOMAIN routes : routes[i].rule \in Rules
    BY <2>3 DEF RouteRecord
  <2>5. \A i \in DOMAIN routes : routes[i].method \in corsMethods
    BY <2>1, <2>2, <2>4
  <2>6. AllowedMethods(p) = {routes[i].method : i \in Covering(p)}
    BY AllowedAreCovering DEF RegistryInv, MethodsFor
  <2>7. QED BY <2>5, <2>6 DEF Covering
<1>5. allowed' \subseteq corsMethods
  BY <1>1, <1>4
<1>6. QED BY <1>1, <1>2, <1>3, <1>5 DEF RequestInv, Phases

\* The chain, inwards and outwards.
LEMMA RequestChain ==
  ASSUME RequestInv, DownFits', Invoke \/ Validate \/ Enter \/ Endpoint \/ Leave \/ Unwind
  PROVE  RequestInv'
<1>1. /\ allowed' = allowed /\ request' = request /\ corsMethods' = corsMethods
      /\ phase # "idle" /\ phase' \in Phases \ {"idle"}
      /\ cachedRequest' \in {cachedRequest, request.no}
  BY DEF Invoke, Validate, Enter, Endpoint, Leave, Unwind, ReadRequest, Raise, Unchanged, appVars,
         tableVars, matchVars, Phases
<1>2. phase' = "unwind" <=> exception' # "none"
  BY FrameworkExceptions, ConstantsAssumption
     DEF Invoke, Validate, Enter, Endpoint, Leave, Unwind, Raise, Unchanged, outcomeVars, RequestInv
<1>3. exception' \in Exceptions \cup {"none"} /\ response' \in Responses \cup {"none"}
  BY FrameworkExceptions, ConstantsAssumption
     DEF Invoke, Validate, Enter, Endpoint, Leave, Unwind, Raise, Unchanged, outcomeVars, RequestInv,
         Responses
<1>4. chain' \in Seq(Link) /\ pos' \in 0 .. Len(chain') /\ entered' \in Seq(Middlewares)
  <2>1. CASE phase' = "down"
    BY <2>1 DEF DownFits
  <2>2. CASE phase' # "down" /\ (Validate \/ Endpoint)
    BY <2>2 DEF Validate, Endpoint, Raise, Unchanged, chainVars, RequestInv
  <2>3. CASE phase' # "down" /\ Enter
    <3>1. chain' = chain /\ pos' = pos /\ entered' = Append(entered, chain[pos])
          /\ chain[pos] \in Middlewares
      BY <2>3 DEF Enter, Raise, Unchanged
    <3>2. QED BY <3>1, AppendProperties DEF RequestInv
  <2>4. CASE Leave \/ Unwind
    <3>1. chain' = chain /\ entered' = entered /\ pos' = pos - 1 /\ pos > 0
      BY <2>4 DEF Leave, Unwind, Unchanged
    <3>2. Len(chain) \in Nat /\ pos \in 0 .. Len(chain)
      BY LenProperties DEF RequestInv
    <3>3. pos - 1 \in 0 .. Len(chain)
      BY <3>1, <3>2
    <3>4. QED BY <3>1, <3>3 DEF RequestInv
  <2>5. CASE Invoke
    BY <2>1, <2>5 DEF Invoke
  <2>6. QED BY <2>1, <2>2, <2>3, <2>4, <2>5
<1>5. QED BY <1>1, <1>2, <1>3, <1>4 DEF RequestInv

\* The dependencies, the handler and the fallbacks.
LEMMA RequestEndpoint ==
  ASSUME RequestInv, Solve \/ Call \/ Handle \/ Fallback PROVE RequestInv'
<1>1. /\ allowed' = allowed /\ request' = request /\ corsMethods' = corsMethods
      /\ phase # "idle" /\ phase # "unwind" /\ phase' \in Phases \ {"idle"}
      /\ cachedRequest' \in {cachedRequest, request.no}
      /\ chain' = chain /\ pos' = pos /\ entered' = entered
  BY DEF Solve, Call, Handle, Fallback, ReadRequest, Raise, Unchanged, appVars, tableVars, matchVars,
         chainVars, Phases
<1>2. phase' = "unwind" <=> exception' # "none"
  BY FrameworkExceptions, ConstantsAssumption
     DEF Solve, Call, Handle, Fallback, Raise, Unchanged, outcomeVars, RequestInv
<1>3. exception' \in Exceptions \cup {"none"} /\ response' \in Responses \cup {"none"}
  BY FrameworkExceptions, ConstantsAssumption
     DEF Solve, Call, Handle, Fallback, Raise, Unchanged, outcomeVars, RequestInv, Responses
<1>4. QED BY <1>1, <1>2, <1>3 DEF RequestInv

\* Answers, exceptions that handlers answer, and those that leave.
LEMMA RequestEnds ==
  ASSUME RequestInv, CallExceptionHandler \/ Serialize PROVE RequestInv'
<1>1. request' = request /\ corsMethods' = corsMethods /\ cachedRequest' \in {cachedRequest, 0}
      /\ 0 \in 0 .. MaxRequests
  BY ConstantsAssumption DEF CallExceptionHandler, Serialize, appVars, tableVars
<1>2. CASE Forget
  <2>1. /\ phase' = "idle" /\ route' = 0 /\ allowed' = {} /\ chain' = << >> /\ pos' = 0
        /\ entered' = << >> /\ exception' = "none" /\ response' = "none"
    BY <1>2 DEF Forget
  <2>2. << >> \in Seq(Link) /\ << >> \in Seq(Middlewares) /\ 0 \in 0 .. Len(<< >>)
    BY EmptySeq
  <2>3. QED BY <1>1, <2>1, <2>2 DEF RequestInv, Phases
<1>3. CASE ~Forget
  <2>1. \A e : DefaultResponse(e) \in Responses \cup {"none"}
    BY DEF DefaultResponse, Responses
  <2>2. PICK outcome \in IF HasHandler(exception) THEN {"custom", "none"} \cup Raised
                         ELSE {DefaultResponse(exception)} :
          LET r == IF outcome \in Raised THEN DefaultResponse(outcome) ELSE outcome
          IN  /\ r # "none" /\ phase' = "up" /\ response' = r /\ exception' = "none"
              /\ UNCHANGED <<route, allowed, chainVars, solveVars, answer>>
    BY <1>3 DEF CallExceptionHandler, Serialize
  <2>3. /\ phase' = "up" /\ exception' = "none" /\ response' \in Responses
        /\ allowed' = allowed /\ chain' = chain /\ pos' = pos /\ entered' = entered
    BY <2>1, <2>2 DEF chainVars, Responses
  <2>4. QED BY <1>1, <2>3 DEF RequestInv, Phases
<1>4. QED BY <1>2, <1>3

LEMMA RequestInvariant == Spec => []RequestInv
<1>1. Init => RequestInv
  <2> SUFFICES ASSUME Init PROVE RequestInv
    OBVIOUS
  <2>1. << >> \in Seq(Link) /\ << >> \in Seq(Middlewares) /\ 0 \in 0 .. Len(<< >>)
        /\ 0 \in 0 .. MaxRequests
    BY EmptySeq, ConstantsAssumption
  <2>2. /\ phase = "idle" /\ route = 0 /\ allowed = {} /\ chain = << >> /\ pos = 0
        /\ entered = << >> /\ exception = "none" /\ response = "none" /\ corsMethods = {}
        /\ request.no = 0 /\ cachedRequest = 0
    BY DEF Init, NoRequest
  <2>3. QED BY <2>1, <2>2 DEF RequestInv, Phases
<1>2. ASSUME RegistryInv, RequestInv, DownFits', [Next]_vars PROVE RequestInv'
  <2>1. CASE Registration
    BY <1>2, <2>1, RequestRegistration
  <2>2. CASE \E m \in Methods, p \in Paths, o \in {FALSE, CorsEnabled} : Resolve(m, p, o)
    BY <1>2, <2>2, RequestResolve
  <2>3. CASE Invoke \/ Validate \/ Enter \/ Endpoint \/ Leave \/ Unwind
    BY <1>2, <2>3, RequestChain
  <2>4. CASE Solve \/ Call \/ Handle \/ Fallback
    BY <1>2, <2>4, RequestEndpoint
  <2>5. CASE CallExceptionHandler \/ Serialize
    BY <1>2, <2>5, RequestEnds
  <2>6. CASE Finished \/ UNCHANGED vars
    BY <1>2, <2>6 DEF Finished, vars, appVars, tableVars, requestVars, localVars, chainVars,
       outcomeVars, RequestInv
  <2>7. QED BY <1>2, <2>1, <2>2, <2>3, <2>4, <2>5, <2>6 DEF Next, Serve
<1>3. RegistryInv /\ ChainInv => DownFits
  BY ChainsFit
<1>4. QED BY <1>1, <1>2, <1>3, ChainInvariant, PTL DEF Spec

\* The tables of the router only refer to routes that it has, and a chain is only left from
\* one of its links.
THEOREM TypeCorrect == Spec => []TypeOK
<1>1. ASSUME RegistryInv, ChainInv, SolveInv, RequestInv PROVE TypeOK
  <2>1. PICK n \in Nat : n = Len(routes) /\ DOMAIN routes = 1 .. n
    BY <1>1, LenProperties DEF RegistryInv, TableInv, Tables
  <2>2. routes \in Seq([method : RouteMethods, rule : Rules, handler : Handlers, cors : BOOLEAN])
    BY <1>1 DEF RegistryInv, TableInv, Tables, RouteRecord
  <2>3. Len(stacks) = n /\ Len(known) = n
    BY <1>1, <2>1 DEF ChainInv, Stacked
  <2>4. \A i \in DOMAIN routes : stacks[i] \in Seq(Link) /\ known[i] \in Seq(Middlewares)
    <3>1. stacks \in Seq(Seq(Link)) /\ known \in Seq(Seq(Middlewares))
      BY <1>1 DEF ChainInv, Stacked
    <3>2. QED BY <2>1, <2>3, <3>1, ElementOfSeq
  <2>5. /\ static \in [RouteMethods \X Paths -> 0 .. Len(routes)]
        /\ dynamic \in Seq(DOMAIN routes)
        /\ pathMethods \in [Rules -> SUBSET corsMethods] /\ corsMethods \subseteq RouteMethods
    BY <1>1, <2>1 DEF RegistryInv, TableInv, Tables
  <2>6. route \in 0 .. Len(routes)
    <3>1. CASE phase = "idle"
      BY <1>1, <2>1, <3>1 DEF RequestInv
    <3>2. CASE phase # "idle"
      BY <1>1, <3>2 DEF ChainInv
    <3>3. QED BY <3>1, <3>2
  <2>7. (phase = "unwind") = (exception # "none")
    BY <1>1 DEF RequestInv
  <2>8. pending \in Seq(Declared) /\ including \in Nat /\ globals \in Seq(Middlewares)
        /\ overrides \in [Dependencies -> Callables]
        /\ cache \subseteq Callables /\ calls \in [Callables -> Nat]
    BY <1>1 DEF RegistryInv, ChainInv, SolveInv
  <2>9. /\ phase \in Phases /\ allowed \subseteq corsMethods
        /\ cachedRequest \in 0 .. MaxRequests /\ request.no \in 0 .. MaxRequests
        /\ chain \in Seq(Link) /\ pos \in 0 .. Len(chain) /\ entered \in Seq(Middlewares)
        /\ exception \in Exceptions \cup {"none"} /\ response \in Responses \cup {"none"}
    BY <1>1 DEF RequestInv
  <2>10. QED BY <2>1, <2>2, <2>3, <2>4, <2>5, <2>6, <2>7, <2>8, <2>9 DEF TypeOK
<1>2. QED BY <1>1, ChainInvariant, SolveInvariant, RequestInvariant, PTL
===============================================================================
