---------------------------- MODULE StreamLineProofs ----------------------------
(***************************************************************************)
(* What a line of StreamRunner does with its items, when it may start,     *)
(* whose handler it calls, where its faults go, and that a run moves       *)
(* forward, for every number of lines, items and threads, every buffer     *)
(* size and every combination of failures.                                 *)
(***************************************************************************)
EXTENDS StreamRunnerProofs

Outcome   == {"none", "filtered", "faulted", "delivered"}
Over      == {"ended", "loaded", "stored", "marked"}

Ascending(s) == \A i, j \in DOMAIN s : i < j => s[i] < s[j]

\* A line p in stage s that has consumed n items, has b in its buffer and delivered d, where
\* f says what happened to each item and F is the set of lines that ended with on_error.
Good(p, s, n, b, f, d, F) ==
  /\ p \in F => s \notin {"ready", "active"}
  /\ s \in Over /\ p \notin F => n = NumEvents /\ b = << >>
  /\ p \notin F => \A e \in Events : e <= n => f[e] # "none" \/ \E i \in DOMAIN b : b[i] = e
  /\ \A e \in Events : f[e] # "none" => e <= n
  /\ Ascending(b) /\ Ascending(d)
  /\ \A i \in DOMAIN b : b[i] <= n /\ f[b[i]] = "none"
  /\ \A i \in DOMAIN d : \A e \in 1..d[i] : f[e] # "none"

\* What happened to the items once the buffer b is delivered.
Deliveries(b, f) ==
  [e \in Events |-> IF \E i \in DOMAIN b : b[i] = e THEN "delivered" ELSE f[e]]

LineInv ==
  /\ \A p \in Pipelines : Good(p, stage[p], pos[p], buf[p], fate[p], bus[p], failed)
  /\ \A p \in Pipelines : stage[p] = "ready" <=> p > taken
-----------------------------------------------------------------------------
(***************************************************************************)
(* The steps of a good line.                                               *)
(***************************************************************************)
LEMMA EmptyIsAscending ==
  << >> \in Seq(Events) /\ DOMAIN << >> = {} /\ Ascending(<< >>)
<1>1. << >> \in Seq(Events) /\ DOMAIN << >> = {}
  BY EmptySeq, LenProperties
<1>2. QED BY <1>1 DEF Ascending

LEMMA BelowEvent == \A x \in Events : x \in Nat /\ x > 0 /\ \A e \in 1..x : e \in Events
  BY ConstantsAssumption DEF Events

LEMMA GoodSettles ==
  ASSUME NEW p, NEW n \in 0..NumEvents, n < NumEvents, NEW b \in Seq(Events),
         NEW f \in [Events -> Outcome], NEW d \in Seq(Events), NEW F,
         Good(p, "active", n, b, f, d, F), NEW v \in Outcome \ {"none"}
  PROVE  Good(p, "active", n + 1, b, [f EXCEPT ![n + 1] = v], d, F)
<1> DEFINE g == [f EXCEPT ![n + 1] = v]
<1>1. /\ n \in Nat /\ NumEvents \in Nat /\ n + 1 \in Events
      /\ \A e \in Events : e \in Nat /\ e > 0 /\ g[e] = IF e = n + 1 THEN v ELSE f[e]
      /\ v # "none"
  BY ConstantsAssumption DEF Events, Outcome
<1>2. /\ \A i \in DOMAIN b : b[i] \in Events
      /\ \A i \in DOMAIN d : d[i] \in Events
  BY ElementOfSeq, LenProperties
<1>3. p \notin F
  BY DEF Good
<1>4. ASSUME NEW e \in Events, e <= n + 1 PROVE g[e] # "none" \/ \E i \in DOMAIN b : b[i] = e
  <2>1. CASE e = n + 1
    BY <1>1, <2>1
  <2>2. CASE e # n + 1
    <3>1. e <= n /\ g[e] = f[e]
      BY <1>1, <1>4, <2>2
    <3>2. QED BY <1>3, <3>1 DEF Good
  <2>3. QED BY <2>1, <2>2
<1>5. \A e \in Events : g[e] # "none" => e <= n + 1
  BY <1>1 DEF Good
<1>6. \A i \in DOMAIN b : b[i] <= n + 1 /\ g[b[i]] = "none"
  BY <1>1, <1>2 DEF Good
<1>7. \A i \in DOMAIN d : \A e \in 1..d[i] : g[e] # "none"
  <2>1. ASSUME NEW i \in DOMAIN d, NEW e \in 1..d[i] PROVE g[e] # "none"
    <3>1. f[e] # "none"
      BY <2>1 DEF Good
    <3>2. e \in Events
      BY <1>2, <2>1, BelowEvent
    <3>3. QED BY <1>1, <3>1, <3>2
  <2>2. QED BY <2>1
<1>8. Ascending(b) /\ Ascending(d)
  BY DEF Good
<1> HIDE DEF g
<1>9. Good(p, "active", n + 1, b, g, d, F)
  BY <1>3, <1>4, <1>5, <1>6, <1>7, <1>8 DEF Good, Over
<1>10. QED BY <1>9 DEF g

LEMMA GoodForwards ==
  ASSUME NEW p, NEW n \in 0..NumEvents, n < NumEvents, NEW b \in Seq(Events),
         NEW f \in [Events -> Outcome], NEW d \in Seq(Events), NEW F,
         Good(p, "active", n, b, f, d, F)
  PROVE  Good(p, "active", n + 1, Append(b, n + 1), f, d, F)
<1> DEFINE c == Append(b, n + 1)
           m == Len(b)
<1>1. /\ n \in Nat /\ NumEvents \in Nat /\ n + 1 \in Events
      /\ \A e \in Events : e \in Nat /\ e > 0
  BY ConstantsAssumption DEF Events
<1>2. m \in Nat /\ DOMAIN b = 1..m /\ \A i \in 1..m : b[i] \in Events
  BY ElementOfSeq, LenProperties
<1>3. /\ c \in Seq(Events) /\ Len(c) = m + 1
      /\ \A i \in 1..m : c[i] = b[i]
      /\ c[m + 1] = n + 1
  BY <1>1, AppendProperties
<1>4. DOMAIN c = 1..(m + 1)
  BY <1>3, LenProperties
<1> HIDE DEF c, m
<1>5. p \notin F /\ f[n + 1] = "none"
  <2>1. ~(n + 1 <= n)
    BY <1>1
  <2>2. QED BY <1>1, <2>1 DEF Good
<1>6. Ascending(c)
  <2>1. ASSUME NEW i \in 1..(m + 1), NEW j \in 1..(m + 1), i < j PROVE c[i] < c[j]
    <3>1. i \in 1..m /\ (j \in 1..m \/ j = m + 1)
      BY <1>2, <2>1
    <3>2. CASE j \in 1..m
      BY <1>2, <1>3, <2>1, <3>1, <3>2 DEF Good, Ascending
    <3>3. CASE j = m + 1
      <4>1. c[i] \in Nat /\ c[i] <= n
        BY <1>1, <1>2, <1>3, <3>1 DEF Good
      <4>2. QED BY <1>1, <1>3, <3>3, <4>1
    <3>4. QED BY <3>1, <3>2, <3>3
  <2>2. QED BY <1>4, <2>1 DEF Ascending
<1>7. \A e \in Events : e <= n + 1 => f[e] # "none" \/ \E i \in DOMAIN c : c[i] = e
  <2>1. ASSUME NEW e \in Events, e <= n + 1, f[e] = "none" PROVE \E i \in DOMAIN c : c[i] = e
    <3>1. CASE e = n + 1
      <4>1. m + 1 \in DOMAIN c
        BY <1>2, <1>4
      <4>2. QED BY <1>3, <3>1, <4>1
    <3>2. CASE e <= n
      <4>1. PICK i \in 1..m : b[i] = e
        BY <1>2, <1>5, <2>1, <3>2 DEF Good
      <4>2. i \in DOMAIN c /\ c[i] = e
        BY <1>2, <1>3, <1>4, <4>1
      <4>3. QED BY <4>2
    <3>3. QED BY <1>1, <2>1, <3>1, <3>2
  <2>2. QED BY <2>1
<1>8. \A i \in DOMAIN c : c[i] <= n + 1 /\ f[c[i]] = "none"
  <2>1. ASSUME NEW i \in 1..(m + 1) PROVE c[i] <= n + 1 /\ f[c[i]] = "none"
    <3>1. CASE i \in 1..m
      <4>1. b[i] \in Nat /\ b[i] <= n /\ f[b[i]] = "none"
        BY <1>1, <1>2, <3>1 DEF Good
      <4>2. QED BY <1>1, <1>3, <3>1, <4>1
    <3>2. CASE i = m + 1
      BY <1>1, <1>3, <1>5, <3>2
    <3>3. QED BY <1>2, <3>1, <3>2
  <2>2. QED BY <1>4, <2>1
<1>9. \A e \in Events : f[e] # "none" => e <= n + 1
  BY <1>1 DEF Good
<1>10. Good(p, "active", n + 1, c, f, d, F)
  BY <1>5, <1>6, <1>7, <1>8, <1>9 DEF Good, Over
<1>11. QED BY <1>10 DEF c

LEMMA GoodDelivers ==
  ASSUME NEW p, NEW n \in 0..NumEvents, NEW b \in Seq(Events),
         NEW f \in [Events -> Outcome], NEW d \in Seq(Events), NEW F,
         Good(p, "active", n, b, f, d, F), NEW s \in {"active", "dead"}
  PROVE  Good(p, s, n, << >>, Deliveries(b, f), d \o b, F)
<1> DEFINE g == Deliveries(b, f)
           c == d \o b
           m == Len(d)
           k == Len(b)
<1>1. /\ n \in Nat /\ \A e \in Events : e \in Nat /\ e > 0
      /\ p \notin F
  BY ConstantsAssumption DEF Events, Good
<1>2. /\ m \in Nat /\ DOMAIN d = 1..m /\ \A i \in 1..m : d[i] \in Events
      /\ k \in Nat /\ DOMAIN b = 1..k /\ \A i \in 1..k : b[i] \in Events
  BY ElementOfSeq, LenProperties
<1>3. /\ c \in Seq(Events) /\ Len(c) = m + k
      /\ \A i \in 1..(m + k) : c[i] = IF i <= m THEN d[i] ELSE b[i - m]
  BY ConcatProperties
<1>4. DOMAIN c = 1..(m + k)
  BY <1>3, LenProperties
<1>5. /\ \A i \in 1..k : g[b[i]] = "delivered"
      /\ \A e \in Events : f[e] # "none" => g[e] # "none"
      /\ \A e \in Events : g[e] # "none" => f[e] # "none" \/ \E i \in 1..k : b[i] = e
  BY <1>2 DEF Deliveries
<1> HIDE DEF g, c, m, k
<1>6. \A e \in Events : e <= n => g[e] # "none"
  BY <1>1, <1>2, <1>5 DEF Good
<1>7. \A e \in Events : g[e] # "none" => e <= n
  BY <1>1, <1>2, <1>5 DEF Good
\* What was delivered before comes before what is delivered now.
<1>8. \A i \in 1..m, j \in 1..k : d[i] < b[j]
  <2>1. ASSUME NEW i \in 1..m, NEW j \in 1..k PROVE d[i] < b[j]
    <3>1. b[j] \notin 1..d[i]
      BY <1>2 DEF Good
    <3>2. b[j] \in Nat /\ b[j] > 0 /\ d[i] \in Nat
      BY <1>1, <1>2
    <3>3. QED BY <3>1, <3>2
  <2>2. QED BY <2>1
<1>9. \A i \in 1..(m + k) : (i \in 1..m /\ c[i] = d[i]) \/ (i - m \in 1..k /\ c[i] = b[i - m])
  BY <1>2, <1>3
<1>10. Ascending(c)
  <2>1. ASSUME NEW i \in 1..(m + k), NEW j \in 1..(m + k), i < j PROVE c[i] < c[j]
    <3>1. CASE i \in 1..m /\ c[i] = d[i] /\ j \in 1..m /\ c[j] = d[j]
      BY <1>2, <2>1, <3>1 DEF Good, Ascending
    <3>2. CASE i \in 1..m /\ c[i] = d[i] /\ j - m \in 1..k /\ c[j] = b[j - m]
      BY <1>8, <3>2
    <3>3. CASE i - m \in 1..k /\ c[i] = b[i - m] /\ j - m \in 1..k /\ c[j] = b[j - m]
      <4>1. i - m < j - m
        BY <1>2, <2>1
      <4>2. QED BY <1>2, <3>3, <4>1 DEF Good, Ascending
    <3>4. ~(i - m \in 1..k /\ j \in 1..m)
      BY <1>2, <2>1
    <3>5. QED BY <1>9, <3>1, <3>2, <3>3, <3>4
  <2>2. QED BY <1>4, <2>1 DEF Ascending
<1>11. ASSUME NEW i \in DOMAIN c, NEW e \in 1..c[i] PROVE g[e] # "none"
  <2>1. CASE i \in 1..m /\ c[i] = d[i]
    <3>1. f[e] # "none" /\ e \in Events
      BY <1>2, <2>1, <1>11, BelowEvent DEF Good
    <3>2. QED BY <1>5, <3>1
  <2>2. CASE i - m \in 1..k /\ c[i] = b[i - m]
    <3>1. b[i - m] \in Events /\ b[i - m] <= n
      BY <1>2, <2>2 DEF Good
    <3>2. e \in Events /\ e <= n
      BY <1>1, <1>11, <2>2, <3>1, ConstantsAssumption DEF Events
    <3>3. QED BY <1>6, <3>2
  <2>3. QED BY <1>4, <1>9, <2>1, <2>2
<1>12. Good(p, s, n, << >>, g, c, F)
  BY <1>1, <1>6, <1>7, <1>10, <1>11, EmptyIsAscending DEF Good, Over
<1>13. QED BY <1>12 DEF g, c

\* A line may die at any time, end with on_error while it is running, end when everything is
\* delivered, and go through mark_completed after that.
LEMMA GoodEnds ==
  ASSUME NEW p, NEW s, NEW n, NEW b, NEW f, NEW d, NEW F, Good(p, s, n, b, f, d, F)
  PROVE  /\ Good(p, "dead", n, b, f, d, F)
         /\ s = "ready" => Good(p, "active", n, b, f, d, F)
         /\ \A t \in {"ended", "dead"} : Good(p, t, n, << >>, f, d, F \cup {p})
         /\ n = NumEvents /\ b = << >> => Good(p, "ended", n, b, f, d, F)
         /\ s \in Over => \A t \in Over : Good(p, t, n, b, f, d, F)
<1>1. Good(p, "dead", n, b, f, d, F)
  BY DEF Good, Over
<1>2. s = "ready" => Good(p, "active", n, b, f, d, F)
  BY DEF Good, Over
<1>3. \A t \in {"ended", "dead"} : Good(p, t, n, << >>, f, d, F \cup {p})
  BY EmptyIsAscending DEF Good, Over
<1>4. n = NumEvents /\ b = << >> => Good(p, "ended", n, b, f, d, F)
  BY DEF Good, Over
<1>5. s \in Over => \A t \in Over : Good(p, t, n, b, f, d, F)
  BY DEF Good, Over
<1>6. QED BY <1>1, <1>2, <1>3, <1>4, <1>5

\* Of the lines that ended with on_error only the line's own membership matters.
LEMMA GoodOther ==
  ASSUME NEW p, NEW q, p # q, NEW s, NEW n, NEW b, NEW f, NEW d, NEW F, Good(q, s, n, b, f, d, F)
  PROVE  Good(q, s, n, b, f, d, F \cup {p})
  BY DEF Good

LEMMA FreshLineInv ==
  ASSUME RenewLines
  PROVE  LineInv'
<1>1. \A p \in Pipelines : stage'[p] = "ready" /\ pos'[p] = 0 /\ buf'[p] = << >>
                           /\ fate'[p] = [e \in Events |-> "none"] /\ bus'[p] = << >>
  BY DEF RenewLines, PerLine, NoFate
<1>2. failed' = {} /\ taken' = 0
  BY DEF RenewLines
<1>3. \A p : Good(p, "ready", 0, << >>, [e \in Events |-> "none"], << >>, {})
  BY EmptyIsAscending, BelowEvent DEF Good, Over
<1>4. \A p \in Pipelines : p > 0
  BY ConstantsAssumption DEF Pipelines
<1>5. QED BY <1>1, <1>2, <1>3, <1>4 DEF LineInv

\* The invoking thread and the platform leave the lines alone, or renew them.
LEMMA LineMain ==
  ASSUME LineInv, Invoke \/ Main \/ Kill \/ Finished \/ UNCHANGED vars
  PROVE  LineInv'
<1>1. CASE Invoke \/ Kill
  BY <1>1, FreshLineInv DEF Invoke, Kill
<1>2. CASE ~Invoke /\ ~Kill
  <2>1. /\ stage' = stage /\ pos' = pos /\ buf' = buf /\ fate' = fate /\ bus' = bus
        /\ failed' = failed /\ taken' = taken
    BY <1>2 DEF Main, Subscribe, SubscribedAll, TrampolineEmpty, Wake, Shutdown, FlushBatch,
                FlushRaises, Return, Finished, vars, poolVars, lineVars, sentVars
  <2>2. QED BY <2>1 DEF LineInv
<1>3. QED BY <1>1, <1>2

\* A line's step changes its own state, which stays good.
LEMMA OwnStep ==
  ASSUME TypeOK, LineInv, NEW p \in Pipelines,
         NEW s \in Stages \ {"ready"}, stage' = [stage EXCEPT ![p] = s],
         NEW n, pos' = [pos EXCEPT ![p] = n],
         NEW b, buf' = [buf EXCEPT ![p] = b],
         NEW f, fate' = [fate EXCEPT ![p] = f],
         NEW d, bus' = [bus EXCEPT ![p] = d],
         failed' \in {failed, failed \cup {p}},
         Good(p, s, n, b, f, d, failed'),
         stage[p] = "ready" => p = taken + 1,
         taken' = IF stage[p] = "ready" THEN taken + 1 ELSE taken
  PROVE  LineInv'
<1>1. ASSUME NEW q \in Pipelines PROVE Good(q, stage'[q], pos'[q], buf'[q], fate'[q], bus'[q], failed')
  <2>1. CASE q = p
    BY <2>1 DEF TypeOK
  <2>2. CASE q # p
    <3>1. Good(q, stage[q], pos[q], buf[q], fate[q], bus[q], failed)
      BY DEF LineInv
    <3>2. Good(q, stage[q], pos[q], buf[q], fate[q], bus[q], failed \cup {p})
      BY <2>2, <3>1, GoodOther
    <3>3. Good(q, stage[q], pos[q], buf[q], fate[q], bus[q], failed')
      BY <3>1, <3>2
    <3>4. QED BY <2>2, <3>3 DEF TypeOK
  <2>3. QED BY <2>1, <2>2
<1>2. ASSUME NEW q \in Pipelines PROVE stage'[q] = "ready" <=> q > taken'
  <2>1. /\ stage[q] = "ready" <=> q > taken
        /\ stage[p] = "ready" <=> p > taken
        /\ q \in Nat /\ p \in Nat /\ taken \in Nat
        /\ stage'[q] = IF q = p THEN s ELSE stage[q]
    BY ConstantsAssumption DEF LineInv, TypeOK, Pipelines
  <2>2. CASE stage[p] = "ready"
    BY <2>1, <2>2
  <2>3. CASE stage[p] # "ready"
    BY <2>1, <2>3
  <2>4. QED BY <2>2, <2>3
<1>3. QED BY <1>1, <1>2 DEF LineInv

LEMMA LineLine ==
  ASSUME TypeOK, LineInv, NEW p \in Pipelines, Line(p)
  PROVE  LineInv'
<1> DEFINE s == stage[p]
           n == pos[p]
           b == buf[p]
           f == fate[p]
           d == bus[p]
<1>1. /\ s \in Stages /\ n \in 0..NumEvents /\ b \in Seq(Events)
      /\ f \in [Events -> Outcome] /\ d \in Seq(Events)
      /\ Good(p, s, n, b, f, d, failed)
      /\ s = "ready" <=> p > taken
      /\ p \in Nat /\ taken \in Nat
  BY ConstantsAssumption DEF TypeOK, LineInv, Outcome, Pipelines
<1>2. /\ pos = [pos EXCEPT ![p] = n] /\ buf = [buf EXCEPT ![p] = b]
      /\ fate = [fate EXCEPT ![p] = f] /\ bus = [bus EXCEPT ![p] = d]
      /\ stage = [stage EXCEPT ![p] = s]
  BY DEF TypeOK
<1>3. CASE Take(p)
  <2>1. /\ stage' = [stage EXCEPT ![p] = "active"] /\ taken' = taken + 1 /\ p = taken + 1
        /\ pos' = pos /\ buf' = buf /\ fate' = fate /\ bus' = bus /\ failed' = failed
    BY <1>3 DEF Take, sentVars
  <2>2. s = "ready"
    BY <1>1, <2>1
  <2>3. Good(p, "active", n, b, f, d, failed')
    BY <1>1, <2>1, <2>2, GoodEnds
  <2>4. QED BY <1>2, <2>1, <2>2, <2>3, OwnStep DEF Stages
<1>4. CASE Filter(p) \/ RecordFault(p)
  <2>1. PICK v \in {"filtered", "faulted"} :
          /\ pos' = [pos EXCEPT ![p] = n + 1]
          /\ fate' = [fate EXCEPT ![p][n + 1] = v]
          /\ s = "active" /\ n < NumEvents
          /\ stage' = stage /\ buf' = buf /\ bus' = bus /\ failed' = failed /\ taken' = taken
    BY <1>4 DEF Filter, RecordFault, Consumes, Item, poolVars
  <2>2. fate' = [fate EXCEPT ![p] = [f EXCEPT ![n + 1] = v]]
    BY <2>1
  <2>3. Good(p, "active", n + 1, b, [f EXCEPT ![n + 1] = v], d, failed')
    BY <1>1, <2>1, GoodSettles DEF Outcome
  <2>4. QED BY <1>2, <2>1, <2>2, <2>3, OwnStep DEF Stages
<1>5. CASE Forward(p)
  <2>1. /\ pos' = [pos EXCEPT ![p] = n + 1] /\ buf' = [buf EXCEPT ![p] = Append(b, n + 1)]
        /\ s = "active" /\ n < NumEvents
        /\ stage' = stage /\ fate' = fate /\ bus' = bus /\ failed' = failed /\ taken' = taken
    BY <1>5 DEF Forward, Consumes, Item, poolVars, sentVars
  <2>2. Good(p, "active", n + 1, Append(b, n + 1), f, d, failed')
    BY <1>1, <2>1, GoodForwards
  <2>3. QED BY <1>2, <2>1, <2>2, OwnStep DEF Stages
<1>6. CASE Deliver(p)
  <2> DEFINE g == Deliveries(b, f)
  <2>1. /\ bus' = [bus EXCEPT ![p] = d \o b] /\ fate' = [fate EXCEPT ![p] = g]
        /\ buf' = [buf EXCEPT ![p] = << >>]
        /\ s = "active" /\ pos' = pos /\ failed' = failed /\ taken' = taken
        /\ stage' \in {stage, [stage EXCEPT ![p] = "dead"]}
    BY <1>6 DEF Deliver, Deliveries, Escape, Die, poolVars
  <2>2. PICK t \in {"active", "dead"} : stage' = [stage EXCEPT ![p] = t]
    BY <1>2, <2>1
  <2>3. Good(p, t, n, << >>, g, d \o b, failed')
    BY <1>1, <2>1, GoodDelivers
  <2>4. QED BY <1>2, <2>1, <2>2, <2>3, OwnStep DEF Stages
<1>7. CASE Stray(p) \/ HandlerRaises(p)
  <2>1. /\ stage' = [stage EXCEPT ![p] = "dead"] /\ s = "active" /\ failed' = failed
        /\ pos' = pos /\ buf' = buf /\ fate' = fate /\ bus' = bus /\ taken' = taken
    BY <1>7 DEF Stray, HandlerRaises, Consumes, Die, poolVars, sentVars
  <2>2. Good(p, "dead", n, b, f, d, failed')
    BY <1>1, <2>1, GoodEnds
  <2>3. QED BY <1>2, <2>1, <2>2, OwnStep DEF Stages
<1>8. CASE MapError(p) \/ DeliverFails(p)
  <2>1. /\ s = "active" /\ pos' = pos /\ fate' = fate /\ bus' = bus /\ taken' = taken
        /\ \/ EndWithError(p)
           \/ stage' = [stage EXCEPT ![p] = "dead"] /\ buf' = buf /\ failed' = failed
    BY <1>8 DEF MapError, DeliverFails, Consumes, Escape, Die, poolVars, sentVars
  <2>2. CASE EndWithError(p)
    <3>1. PICK t \in {"ended", "dead"} : stage' = [stage EXCEPT ![p] = t]
      BY <2>2 DEF EndWithError, Die
    <3>2. buf' = [buf EXCEPT ![p] = << >>] /\ failed' = failed \cup {p}
      BY <2>2 DEF EndWithError
    <3>3. Good(p, t, n, << >>, f, d, failed')
      BY <1>1, <3>2, GoodEnds
    <3>4. QED BY <1>2, <2>1, <3>1, <3>2, <3>3, OwnStep DEF Stages
  <2>3. CASE stage' = [stage EXCEPT ![p] = "dead"] /\ buf' = buf /\ failed' = failed
    <3>1. Good(p, "dead", n, b, f, d, failed')
      BY <1>1, <2>3, GoodEnds
    <3>2. QED BY <1>2, <2>1, <2>3, <3>1, OwnStep DEF Stages
  <2>4. QED BY <2>1, <2>2, <2>3
<1>9. CASE Complete(p)
  <2>1. PICK t \in {"ended", "dead"} : stage' = [stage EXCEPT ![p] = t]
    BY <1>9 DEF Complete, Escape, Die
  <2>2. /\ s = "active" /\ n = NumEvents /\ b = << >> /\ failed' = failed
        /\ pos' = pos /\ buf' = buf /\ fate' = fate /\ bus' = bus /\ taken' = taken
    BY <1>9 DEF Complete, poolVars, sentVars
  <2>3. Good(p, t, n, b, f, d, failed')
    BY <1>1, <2>2, GoodEnds
  <2>4. QED BY <1>2, <2>1, <2>2, <2>3, OwnStep DEF Stages
<1>10. CASE MarkLoad(p) \/ MarkStore(p) \/ MarkUnlock(p)
  <2>1. PICK t \in Over : stage' = [stage EXCEPT ![p] = t]
    BY <1>10 DEF MarkLoad, MarkStore, MarkUnlock, Over
  <2>2. /\ s \in Over /\ failed' = failed
        /\ pos' = pos /\ buf' = buf /\ fate' = fate /\ bus' = bus /\ taken' = taken
    BY <1>10 DEF MarkLoad, MarkStore, MarkUnlock, Over, poolVars, sentVars
  <2>3. Good(p, t, n, b, f, d, failed')
    BY <1>1, <2>1, <2>2, GoodEnds
  <2>4. s # "ready" /\ t \in Stages \ {"ready"}
    BY <2>1, <2>2 DEF Over, Stages
  <2>5. QED BY <1>2, <2>1, <2>2, <2>3, <2>4, OwnStep
<1>11. QED
  BY <1>3, <1>4, <1>5, <1>6, <1>7, <1>8, <1>9, <1>10 DEF Line

LEMMA LineInit == Init => LineInv
<1> SUFFICES ASSUME Init PROVE LineInv
  OBVIOUS
<1>1. /\ \A p \in Pipelines : stage[p] = "ready" /\ pos[p] = 0 /\ buf[p] = << >>
                              /\ fate[p] = [e \in Events |-> "none"] /\ bus[p] = << >>
      /\ failed = {} /\ taken = 0
  BY DEF Init, FreshLines, PerLine, NoFate
<1>2. \A p : Good(p, "ready", 0, << >>, [e \in Events |-> "none"], << >>, {})
  BY EmptyIsAscending, BelowEvent DEF Good, Over
<1>3. \A p \in Pipelines : p > 0
  BY ConstantsAssumption DEF Pipelines
<1>4. QED BY <1>1, <1>2, <1>3 DEF LineInv

LEMMA LineInvariant == Spec => [](TypeOK /\ LatchInv /\ LineInv)
<1>1. TypeOK /\ LineInv /\ [Next]_vars => LineInv'
  BY LineMain, LineLine DEF Next
<1>2. QED BY <1>1, LineInit, TypeCorrect, LatchInvariant, PTL DEF Spec

\* A line delivers its items in order, each once, and none before everything in front of it
\* has been delivered, filtered or recorded as a fault.
THEOREM LinesDeliverInOrder == Spec => []DeliveredInOrder
<1>1. LineInv => DeliveredInOrder
  BY DEF LineInv, Good, Ascending, DeliveredInOrder
<1>2. QED BY <1>1, LineInvariant, PTL

\* A line that completes has dealt with the whole batch, whatever faulted or was filtered.
THEOREM LinesSettleTheirBatch == Spec => []CompletedLineSettledItsBatch
<1>1. TypeOK /\ LineInv => CompletedLineSettledItsBatch
  <2>1. ASSUME TypeOK, LineInv, NEW p \in Pipelines, stage[p] \in Over, p \notin failed,
               NEW e \in Events
        PROVE  fate[p][e] # "none"
    <3>1. Good(p, stage[p], pos[p], buf[p], fate[p], bus[p], failed)
      BY <2>1 DEF LineInv
    <3>2. pos[p] = NumEvents /\ DOMAIN buf[p] = {}
      BY <2>1, <3>1, EmptyIsAscending DEF Good
    <3>3. e <= NumEvents
      BY ConstantsAssumption DEF Events
    <3>4. QED BY <2>1, <3>1, <3>2, <3>3 DEF Good
  <2>2. QED BY <2>1 DEF CompletedLineSettledItsBatch, Over
<1>2. QED BY <1>1, LineInvariant, PTL
-----------------------------------------------------------------------------
(***************************************************************************)
(* The order of the lines without a pool.                                  *)
(***************************************************************************)

\* A line's step changes its own stage, and does not make it wait again.
LEMMA LineStage ==
  ASSUME TypeOK, LatchInv, LineInv, NEW p \in Pipelines, Line(p)
  PROVE  /\ stage[p] \notin {"marked", "dead"} /\ run' = run /\ main # "idle"
         /\ main' \in {main, "raised"}
         /\ \E s \in Stages \ {"ready"} : stage' = [stage EXCEPT ![p] = s]
         /\ stage[p] = "ready" => Take(p)
<1>1. main # "idle"
  BY LinesRunWhenArmed DEF Armed
<1>2. CASE Take(p)
  <2>1. p > taken
    BY <1>2, ConstantsAssumption DEF Take, TypeOK, Pipelines
  <2>2. stage[p] = "ready"
    BY <2>1 DEF LineInv
  <2>3. QED BY <1>1, <1>2, <2>2 DEF Take, mainVars, Stages
<1>3. CASE Filter(p) \/ Forward(p) \/ RecordFault(p)
  <2>1. stage[p] = "active" /\ stage' = stage /\ run' = run /\ main' = main
    BY <1>3 DEF Filter, Forward, RecordFault, Consumes, mainVars
  <2>2. stage = [stage EXCEPT ![p] = "active"]
    BY <2>1 DEF TypeOK
  <2>3. QED BY <1>1, <2>1, <2>2 DEF Stages
<1>4. CASE Stray(p) \/ HandlerRaises(p) \/ MapError(p)
  BY <1>1, <1>4 DEF Stray, HandlerRaises, MapError, Consumes, EndWithError, Die, mainVars, Stages
<1>5. CASE Deliver(p)
  <2>1. /\ stage[p] = "active" /\ run' = run /\ main' \in {main, "raised"}
        /\ stage' \in {stage, [stage EXCEPT ![p] = "dead"]}
    BY <1>5 DEF Deliver, Escape, Die
  <2>2. stage = [stage EXCEPT ![p] = "active"]
    BY <2>1 DEF TypeOK
  <2>3. QED BY <1>1, <2>1, <2>2 DEF Stages
<1>6. CASE DeliverFails(p) \/ Complete(p)
  BY <1>1, <1>6 DEF DeliverFails, Complete, EndWithError, Escape, Die, Stages
<1>7. CASE MarkLoad(p) \/ MarkStore(p) \/ MarkUnlock(p)
  BY <1>1, <1>7 DEF MarkLoad, MarkStore, MarkUnlock, mainVars, Stages
<1>8. QED BY <1>2, <1>3, <1>4, <1>5, <1>6, <1>7 DEF Line

LEMMA SequentialLine ==
  ASSUME TypeOK, LatchInv, LineInv, SequentialInRegistrationOrder, NEW p \in Pipelines, Line(p)
  PROVE  SequentialInRegistrationOrder'
<1>1. /\ stage[p] \notin {"marked", "dead"} /\ run' = run /\ main # "idle"
      /\ stage[p] = "ready" => Take(p)
  BY LineStage
<1>2. PICK s \in Stages \ {"ready"} : stage' = [stage EXCEPT ![p] = s]
  BY LineStage
<1> SUFFICES ASSUME ~Concurrency[run], NEW a \in Pipelines, NEW z \in Pipelines, a < z,
                    stage'[z] # "ready"
             PROVE  stage'[a] \in {"marked", "dead"}
  BY <1>1 DEF SequentialInRegistrationOrder
<1>3. \A x \in Pipelines : x # p => stage'[x] = stage[x]
  BY <1>2 DEF TypeOK
<1>4. stage[z] # "ready" => stage[a] \in {"marked", "dead"}
  BY <1>1 DEF SequentialInRegistrationOrder
<1>5. a # z
  BY ConstantsAssumption DEF Pipelines
<1>6. CASE z # p
  BY <1>1, <1>3, <1>4, <1>6
<1>7. CASE z = p /\ stage[p] # "ready"
  BY <1>3, <1>4, <1>5, <1>7
<1>8. CASE z = p /\ stage[p] = "ready"
  <2>1. Busy = {} /\ z = taken + 1
    BY <1>1, <1>8 DEF Take
  <2>2. ~(a > taken)
    BY <2>1, ConstantsAssumption DEF Pipelines, TypeOK
  <2>3. stage[a] # "ready" /\ stage[a] \in Stages
    BY <2>2 DEF LineInv, TypeOK
  <2>4. stage[a] \in {"marked", "dead"}
    BY <2>1, <2>3 DEF Busy, Stages
  <2>5. QED BY <1>3, <1>5, <1>8, <2>4
<1>9. QED BY <1>6, <1>7, <1>8

LEMMA SequentialStep ==
  ASSUME TypeOK, LatchInv, LineInv, SequentialInRegistrationOrder, [Next]_vars
  PROVE  SequentialInRegistrationOrder'
<1>1. CASE Invoke \/ Kill
  <2>1. \A p \in Pipelines : stage'[p] = "ready"
    BY <1>1 DEF Invoke, Kill, RenewLines, PerLine
  <2>2. QED BY <2>1 DEF SequentialInRegistrationOrder
<1>2. CASE Main \/ Finished \/ UNCHANGED vars
  <2>1. stage' = stage /\ run' = run
    BY <1>2 DEF Main, Subscribe, SubscribedAll, TrampolineEmpty, Wake, Shutdown, FlushBatch,
                FlushRaises, Return, Finished, vars, mainVars, lineVars
  <2>2. main' # "idle" => main # "idle"
    BY <1>2 DEF Main, Subscribe, SubscribedAll, TrampolineEmpty, Wake, Shutdown, FlushBatch,
                FlushRaises, Return, Finished, vars, mainVars
  <2>3. QED BY <2>1, <2>2 DEF SequentialInRegistrationOrder
<1>3. QED BY <1>1, <1>2, SequentialLine DEF Next

\* With concurrency=False a line starts only when the lines registered before it are over.
THEOREM LinesRunInTurn == Spec => []SequentialInRegistrationOrder
<1>1. Init => SequentialInRegistrationOrder
  BY DEF Init, FreshLines, SequentialInRegistrationOrder
<1>2. QED BY <1>1, LineInvariant, SequentialStep, PTL DEF Spec
-----------------------------------------------------------------------------
(***************************************************************************)
(* The handler of the faults.                                              *)
(***************************************************************************)
HandlerOf(r) == IF OnFault THEN r ELSE NoHandler

\* Every subscribed line has the handler of this run in the context it was copied with.
ContextInv ==
  /\ \A p \in Pipelines : p <= subscribed => ctx[p] = HandlerOf(run)
  /\ main = "subscribing" => activeHandler = HandlerOf(run)
  /\ taken <= subscribed
  /\ main # "idle" => run > 0

HandlerInv == ContextInv /\ HandlerSeesEveryFault

LEMMA HandlerMain ==
  ASSUME TypeOK, HandlerInv, Invoke \/ Main \/ Kill \/ Finished \/ UNCHANGED vars
  PROVE  HandlerInv'
<1>1. CASE Invoke \/ Kill
  <2>1. /\ subscribed' = 0 /\ taken' = 0 /\ handled' = {}
        /\ \A p \in Pipelines, e \in Events : fate'[p][e] = "none"
    BY <1>1 DEF Invoke, Kill, RenewLines, PerLine, NoFate
  <2>2. /\ main' = "subscribing" => activeHandler' = HandlerOf(run')
        /\ main' # "idle" => run' > 0
    BY <1>1 DEF Invoke, Kill, HandlerOf, TypeOK
  <2>3. \A p \in Pipelines : ~(p <= 0)
    BY ConstantsAssumption DEF Pipelines
  <2>4. QED BY <2>1, <2>2, <2>3 DEF HandlerInv, ContextInv, HandlerSeesEveryFault
<1>2. CASE Subscribe
  <2>1. /\ main' = main /\ run' = run /\ activeHandler' = activeHandler /\ main = "subscribing"
        /\ taken' = taken /\ handled' = handled /\ fate' = fate /\ subscribed' = subscribed + 1
        /\ ctx' = [ctx EXCEPT ![subscribed + 1] = activeHandler]
    BY <1>2 DEF Subscribe, mainVars, sentVars, faultVars
  <2>2. activeHandler = HandlerOf(run) /\ subscribed \in Nat /\ taken \in Nat
    BY <2>1, ConstantsAssumption DEF HandlerInv, ContextInv, TypeOK
  <2>3. ASSUME NEW p \in Pipelines, p <= subscribed' PROVE ctx'[p] = HandlerOf(run)
    <3>1. CASE p = subscribed + 1
      BY <2>1, <2>2, <3>1 DEF TypeOK
    <3>2. CASE p # subscribed + 1
      <4>1. p <= subscribed
        BY <2>1, <2>2, <2>3, <3>2, ConstantsAssumption DEF Pipelines
      <4>2. QED BY <2>1, <3>2, <4>1 DEF HandlerInv, ContextInv, TypeOK
    <3>3. QED BY <3>1, <3>2
  <2>4. taken' <= subscribed'
    BY <2>1, <2>2 DEF HandlerInv, ContextInv
  <2>5. QED BY <2>1, <2>2, <2>3, <2>4 DEF HandlerInv, ContextInv, HandlerSeesEveryFault
<1>3. CASE SubscribedAll \/ TrampolineEmpty \/ Wake \/ Shutdown \/ FlushBatch \/ FlushRaises
           \/ Return \/ Finished \/ UNCHANGED vars
  <2>1. /\ run' = run /\ subscribed' = subscribed /\ taken' = taken /\ ctx' = ctx
        /\ fate' = fate /\ handled' = handled
        /\ main' = "subscribing" => main = "subscribing" /\ activeHandler' = activeHandler
        /\ main' # "idle" => main # "idle"
    BY <1>3 DEF SubscribedAll, TrampolineEmpty, Wake, Shutdown, FlushBatch, FlushRaises, Return,
                Finished, vars, mainVars, poolVars, sentVars, faultVars
  <2>2. QED BY <2>1 DEF HandlerInv, ContextInv, HandlerSeesEveryFault
<1>4. QED BY <1>1, <1>2, <1>3 DEF Main

\* A line that consumes an item has the handler of this run.
LEMMA ConsumerContext ==
  ASSUME TypeOK, LatchInv, LineInv, HandlerInv, NEW p \in Pipelines, NEW o, Consumes(p, o), Line(p)
  PROVE  /\ ctx[p] = HandlerOf(run)
         /\ \A h \in HandlerCalls(p) : h.run = run
         /\ OnFault => [run |-> run, pipeline |-> p, event |-> Item(p)] \in HandlerCalls(p)
<1>1. ~(p > taken)
  BY DEF Consumes, LineInv
<1>2. p <= subscribed
  BY <1>1, ConstantsAssumption DEF HandlerInv, ContextInv, TypeOK, Pipelines
<1>3. ctx[p] = HandlerOf(run) /\ run \in Nat /\ run > 0
  BY <1>2, LineStage DEF HandlerInv, ContextInv, TypeOK
<1>4. QED BY <1>3 DEF HandlerCalls, HandlerOf, NoHandler

LEMMA HandlerLine ==
  ASSUME TypeOK, LatchInv, LineInv, HandlerInv, NEW p \in Pipelines, Line(p)
  PROVE  HandlerInv'
<1>1. run' = run /\ main # "idle" /\ main' \in {main, "raised"}
  BY LineStage
<1>2. ContextInv'
  <2>1. /\ subscribed' = subscribed /\ ctx' = ctx
        /\ main' = "subscribing" => main = "subscribing" /\ activeHandler' = activeHandler
    BY <1>1 DEF Line, Take, Filter, Forward, RecordFault, Stray, HandlerRaises, MapError, Deliver,
           DeliverFails, Complete, MarkLoad, MarkStore, MarkUnlock, mainVars, poolVars, Escape
  <2>2. taken' <= subscribed'
    BY <2>1 DEF HandlerInv, ContextInv, Line, Take, Filter, Forward, RecordFault, Stray,
           HandlerRaises, MapError, Deliver, DeliverFails, Complete, MarkLoad, MarkStore, MarkUnlock,
           poolVars
  <2>3. QED BY <1>1, <2>1, <2>2 DEF HandlerInv, ContextInv
<1>3. HandlerSeesEveryFault'
  <2>1. CASE RecordFault(p)
    <3>1. /\ fate' = [fate EXCEPT ![p][Item(p)] = "faulted"]
          /\ handled' = handled \cup HandlerCalls(p)
          /\ Consumes(p, "fault")
      BY <2>1 DEF RecordFault
    <3>2. \A q \in Pipelines, e \in Events :
            fate'[q][e] = "faulted" => fate[q][e] = "faulted" \/ (q = p /\ e = Item(p))
      BY <3>1 DEF TypeOK
    <3>3. QED BY <1>1, <3>1, <3>2, ConsumerContext DEF HandlerInv, HandlerSeesEveryFault
  <2>2. CASE HandlerRaises(p)
    <3>1. fate' = fate /\ handled' = handled \cup HandlerCalls(p) /\ Consumes(p, "fault")
      BY <2>2 DEF HandlerRaises, sentVars
    <3>2. QED BY <1>1, <3>1, ConsumerContext DEF HandlerInv, HandlerSeesEveryFault
  <2>3. CASE ~RecordFault(p) /\ ~HandlerRaises(p)
    <3>1. handled' = handled
      BY <2>3 DEF Line, Take, Filter, Forward, Stray, MapError, Deliver, DeliverFails, Complete,
             MarkLoad, MarkStore, MarkUnlock, faultVars
    <3>2. \A q \in Pipelines, e \in Events : fate'[q][e] = "faulted" => fate[q][e] = "faulted"
      <4>1. CASE Filter(p)
        BY <4>1 DEF Filter, TypeOK
      <4>2. CASE Deliver(p)
        BY <4>2 DEF Deliver, TypeOK
      <4>3. CASE ~Filter(p) /\ ~Deliver(p)
        <5>1. fate' = fate
          BY <2>3, <4>3 DEF Line, Take, Forward, Stray, MapError, DeliverFails, Complete,
                 MarkLoad, MarkStore, MarkUnlock, sentVars
        <5>2. QED BY <5>1
      <4>4. QED BY <4>1, <4>2, <4>3
    <3>3. QED BY <1>1, <3>1, <3>2 DEF HandlerInv, HandlerSeesEveryFault
  <2>4. QED BY <2>1, <2>2, <2>3
<1>4. QED BY <1>2, <1>3 DEF HandlerInv

LEMMA HandlerInvariant == Spec => []HandlerInv
<1>1. Init => HandlerInv
  <2>1. Init => ContextInv
    BY ConstantsAssumption DEF Init, FreshLines, ContextInv, Pipelines
  <2>2. Init => HandlerSeesEveryFault
    BY DEF Init, FreshLines, HandlerSeesEveryFault, PerLine, NoFate
  <2>3. QED BY <2>1, <2>2 DEF HandlerInv
<1>2. TypeOK /\ LatchInv /\ LineInv /\ HandlerInv /\ [Next]_vars => HandlerInv'
  BY HandlerMain, HandlerLine DEF Next
<1>3. QED BY <1>1, <1>2, LineInvariant, PTL DEF Spec

\* The on_fault handler of a run sees every fault of that run, and no other run's, although
\* the lines fail on the threads of a pool (the context copied by schedulers.py).
THEOREM HandlersSeeTheirFaults == Spec => []HandlerSeesEveryFault
<1>1. HandlerInv => HandlerSeesEveryFault
  BY DEF HandlerInv
<1>2. QED BY <1>1, HandlerInvariant, PTL
-----------------------------------------------------------------------------
(***************************************************************************)
(* The faults: none is lost, doubled or published out of order, over warm  *)
(* runs, raising flushes and killed containers.                            *)
(***************************************************************************)
\* Of the same line, f was recorded before g.
Before(f, g) ==
  f.pipeline = g.pipeline => f.run < g.run \/ (f.run = g.run /\ f.event < g.event)

Ordered(s)  == \A i, j \in DOMAIN s : i < j => Before(s[i], s[j])
Ahead(s, t) == \A i \in DOMAIN s, j \in DOMAIN t : Before(s[i], t[j])
Apart(s, t) == \A i \in DOMAIN s, j \in DOMAIN t : s[i] # t[j]

\* Each list is ordered, what has left the_faults L for the bus B or for the losses D is older
\* than what is in it, and nothing is both published and lost.
Tidy(L, B, D) ==
  /\ Ordered(L) /\ Ordered(B) /\ Ordered(D)
  /\ Ahead(B, L) /\ Ahead(D, L) /\ Apart(B, D)

FaultOf(r, p, e) == [run |-> r, pipeline |-> p, event |-> e]
Has(s, f)        == \E i \in DOMAIN s : s[i] = f

\* What a list holds was recorded by run r or by an earlier one, and what r itself recorded
\* is, as long as its lines exist, the fate f of an item.
Known(s, r, armed, f) ==
  \A i \in DOMAIN s :
    /\ s[i] \in FaultRecord
    /\ s[i].run <= r
    /\ armed /\ s[i].run = r => f[s[i].pipeline][s[i].event] = "faulted"

\* Every fault of run r is in one of the lists.
Found(L, B, D, r, f) ==
  \A p \in Pipelines, e \in Events : f[p][e] = "faulted" =>
    Has(L, FaultOf(r, p, e)) \/ Has(B, FaultOf(r, p, e)) \/ Has(D, FaultOf(r, p, e))

FaultInv ==
  /\ Tidy(theFaults, faultBus, dropped)
  /\ Known(theFaults, run, Armed, fate)
  /\ Known(faultBus, run, Armed, fate)
  /\ Known(dropped, run, Armed, fate)
  /\ Found(theFaults, faultBus, dropped, run, fate)
  /\ main = "returned" => theFaults = << >>
  /\ main \notin {"idle", "raised"} => \A i \in DOMAIN dropped : dropped[i].run # run
-----------------------------------------------------------------------------
(***************************************************************************)
(* Cutting, joining and extending lists of faults.                         *)
(***************************************************************************)

\* a is the first k faults of s, and z the others.
Cuts(s, k, a, z) ==
  /\ k \in Nat /\ a \in FaultSeq /\ z \in FaultSeq
  /\ DOMAIN a \subseteq Nat /\ DOMAIN z \subseteq Nat
  /\ \A i \in DOMAIN a : i \in DOMAIN s /\ i <= k /\ a[i] = s[i]
  /\ \A j \in DOMAIN z : j + k \in DOMAIN s /\ j > 0 /\ z[j] = s[j + k]
  /\ \A i \in DOMAIN s : \/ i \in DOMAIN a /\ a[i] = s[i]
                         \/ i - k \in DOMAIN z /\ z[i - k] = s[i]

\* c is a followed by b, and a has m faults.
Joins(a, b, c, m) ==
  /\ m \in Nat /\ c \in FaultSeq /\ DOMAIN c \subseteq Nat
  /\ \A i \in DOMAIN c : \/ i \in DOMAIN a /\ c[i] = a[i] /\ i <= m
                         \/ i - m \in DOMAIN b /\ c[i] = b[i - m] /\ i > m
  /\ \A i \in DOMAIN a : i \in DOMAIN c /\ c[i] = a[i]
  /\ \A j \in DOMAIN b : j + m \in DOMAIN c /\ c[j + m] = b[j]

LEMMA CutFaults ==
  ASSUME NEW s \in FaultSeq, NEW k \in 0..Len(s)
  PROVE  Cuts(s, k, SubSeq(s, 1, k), SubSeq(s, k + 1, Len(s)))
<1> DEFINE a == SubSeq(s, 1, k)
           z == SubSeq(s, k + 1, Len(s))
<1>1. /\ s \in Seq(FaultRecord) /\ Len(s) \in Nat /\ DOMAIN s = 1..Len(s)
      /\ \A i \in 1..Len(s) : s[i] \in FaultRecord
  BY LenProperties, ElementOfSeq DEF FaultSeq
<1>2. PICK n \in Nat : n = Len(s)
  BY <1>1
<1>3. k \in Nat /\ k <= n
  BY <1>1, <1>2
<1>4. /\ a \in Seq(FaultRecord) /\ Len(a) = k /\ DOMAIN a = 1..k
      /\ \A i \in 1..k : a[i] = s[i]
  <2>1. \A i \in 1..k : s[i] \in FaultRecord
    BY <1>1, <1>2, <1>3
  <2>2. /\ a \in Seq(FaultRecord) /\ Len(a) = IF 1 <= k THEN k - 1 + 1 ELSE 0
        /\ \A i \in 1..(k - 1 + 1) : a[i] = s[1 + i - 1]
    BY <1>3, <2>1, SubSeqProperties
  <2>3. Len(a) = k /\ \A i \in 1..k : a[i] = s[i]
    BY <1>3, <2>2
  <2>4. QED BY <2>2, <2>3, LenProperties
<1>5. /\ z \in Seq(FaultRecord) /\ DOMAIN z = 1..(n - k)
      /\ \A j \in 1..(n - k) : z[j] = s[j + k]
  <2>1. \A i \in (k + 1)..n : s[i] \in FaultRecord
    BY <1>1, <1>2, <1>3
  <2>2. z = SubSeq(s, k + 1, n)
    BY <1>2
  <2>3. /\ z \in Seq(FaultRecord) /\ Len(z) = IF k + 1 <= n THEN n - (k + 1) + 1 ELSE 0
        /\ \A i \in 1..(n - (k + 1) + 1) : z[i] = s[(k + 1) + i - 1]
    BY <1>3, <2>1, <2>2, SubSeqProperties
  <2>4. Len(z) = n - k
    BY <1>3, <2>3
  <2>5. \A j \in 1..(n - k) : z[j] = s[j + k]
    <3>1. n - (k + 1) + 1 = n - k /\ \A j \in 1..(n - k) : (k + 1) + j - 1 = j + k
      BY <1>3
    <3>2. QED BY <2>3, <3>1
  <2>6. QED BY <2>3, <2>4, <2>5, LenProperties
<1>6. \A i \in DOMAIN a : i \in DOMAIN s /\ i <= k /\ a[i] = s[i]
  BY <1>1, <1>2, <1>3, <1>4
<1>7. \A j \in DOMAIN z : j + k \in DOMAIN s /\ j > 0 /\ z[j] = s[j + k]
  BY <1>1, <1>2, <1>3, <1>5
<1>8. ASSUME NEW i \in DOMAIN s
      PROVE  \/ i \in DOMAIN a /\ a[i] = s[i]
             \/ i - k \in DOMAIN z /\ z[i - k] = s[i]
  <2>1. CASE i <= k
    BY <1>1, <1>2, <1>3, <1>4, <2>1
  <2>2. CASE ~(i <= k)
    <3>1. i - k \in 1..(n - k) /\ (i - k) + k = i
      BY <1>1, <1>2, <1>3, <2>2
    <3>2. QED BY <1>5, <3>1
  <2>3. QED BY <2>1, <2>2
<1>9. DOMAIN a \subseteq Nat /\ DOMAIN z \subseteq Nat
  BY <1>4, <1>5
<1> HIDE DEF a, z
<1>10. Cuts(s, k, a, z)
  BY <1>3, <1>4, <1>5, <1>6, <1>7, <1>8, <1>9 DEF Cuts, FaultSeq
<1>11. QED BY <1>10 DEF a, z

LEMMA JoinFaults ==
  ASSUME NEW a \in FaultSeq, NEW b \in FaultSeq
  PROVE  Joins(a, b, a \o b, Len(a))
<1> DEFINE c == a \o b
<1>1. PICK m \in Nat, n \in Nat : m = Len(a) /\ n = Len(b)
  BY LenProperties DEF FaultSeq
<1>2. DOMAIN a = 1..m /\ DOMAIN b = 1..n /\ a \in Seq(FaultRecord) /\ b \in Seq(FaultRecord)
  BY <1>1, LenProperties DEF FaultSeq
<1>3. /\ c \in Seq(FaultRecord) /\ Len(c) = m + n
      /\ \A i \in 1..(m + n) : c[i] = IF i <= m THEN a[i] ELSE b[i - m]
  BY <1>1, <1>2, ConcatProperties
<1>4. DOMAIN c = 1..(m + n)
  BY <1>3, LenProperties
<1>5. \A i \in DOMAIN c : \/ i \in DOMAIN a /\ c[i] = a[i] /\ i <= m
                          \/ i - m \in DOMAIN b /\ c[i] = b[i - m] /\ i > m
  BY <1>2, <1>3, <1>4
<1>6. \A i \in DOMAIN a : i \in DOMAIN c /\ c[i] = a[i]
  BY <1>2, <1>3, <1>4
<1>7. \A j \in DOMAIN b : j + m \in DOMAIN c /\ c[j + m] = b[j]
  <2>1. \A j \in 1..n : j + m \in 1..(m + n) /\ ~(j + m <= m) /\ (j + m) - m = j
    BY <1>1
  <2>2. QED BY <1>2, <1>3, <1>4, <2>1
<1> HIDE DEF c
<1>8. Joins(a, b, c, m)
  BY <1>3, <1>4, <1>5, <1>6, <1>7 DEF Joins, FaultSeq
<1>9. QED BY <1>1, <1>8 DEF c

\* An ordered list that is cut consists of two ordered lists, the first ahead of the second.
LEMMA OrderedCut ==
  ASSUME NEW s, NEW k, NEW a, NEW z, Cuts(s, k, a, z), Ordered(s)
  PROVE  Ordered(a) /\ Ordered(z) /\ Ahead(a, z)
<1>1. Ordered(a)
  BY DEF Cuts, Ordered
<1>2. Ordered(z)
  <2>1. ASSUME NEW i \in DOMAIN z, NEW j \in DOMAIN z, i < j PROVE Before(z[i], z[j])
    <3>1. i + k < j + k
      BY <2>1 DEF Cuts
    <3>2. Before(s[i + k], s[j + k])
      BY <3>1 DEF Cuts, Ordered
    <3>3. QED BY <3>2 DEF Cuts
  <2>2. QED BY <2>1 DEF Ordered
<1>3. Ahead(a, z)
  <2>1. ASSUME NEW i \in DOMAIN a, NEW j \in DOMAIN z PROVE Before(a[i], z[j])
    <3>1. i < j + k
      BY DEF Cuts
    <3>2. Before(s[i], s[j + k])
      BY <3>1 DEF Cuts, Ordered
    <3>3. QED BY <3>2 DEF Cuts
  <2>2. QED BY <2>1 DEF Ahead
<1>4. QED BY <1>1, <1>2, <1>3

\* Two ordered lists, the first ahead of the second, make an ordered list.
LEMMA OrderedJoin ==
  ASSUME NEW a, NEW b, NEW c, NEW m, Joins(a, b, c, m), Ordered(a), Ordered(b), Ahead(a, b)
  PROVE  Ordered(c)
<1>1. ASSUME NEW i \in DOMAIN c, NEW j \in DOMAIN c, i < j PROVE Before(c[i], c[j])
  <2>1. CASE i \in DOMAIN a /\ c[i] = a[i] /\ j \in DOMAIN a /\ c[j] = a[j]
    BY <1>1, <2>1 DEF Ordered
  <2>2. CASE i \in DOMAIN a /\ c[i] = a[i] /\ j - m \in DOMAIN b /\ c[j] = b[j - m]
    BY <2>2 DEF Ahead
  <2>3. CASE i - m \in DOMAIN b /\ c[i] = b[i - m] /\ j - m \in DOMAIN b /\ c[j] = b[j - m]
    <3>1. i - m < j - m
      BY <1>1 DEF Joins
    <3>2. QED BY <2>3, <3>1 DEF Ordered
  <2>4. ~(i > m /\ j <= m)
    BY <1>1 DEF Joins
  <2>5. QED BY <2>1, <2>2, <2>3, <2>4 DEF Joins
<1>2. QED BY <1>1 DEF Ordered
-----------------------------------------------------------------------------
(***************************************************************************)
(* What the steps do with the three lists.                                 *)
(***************************************************************************)

\* A fault is not before itself.
LEMMA BeforeIsStrict ==
  ASSUME NEW f \in FaultRecord PROVE ~Before(f, f)
<1>1. f.run \in Nat /\ f.event \in Nat
  BY ConstantsAssumption DEF FaultRecord, Events
<1>2. QED BY <1>1 DEF Before

\* Moving the first faults of the list to the bus keeps the lists tidy ...
LEMMA TidyPublished ==
  ASSUME NEW L \in FaultSeq, NEW B \in FaultSeq, NEW D \in FaultSeq, Tidy(L, B, D),
         NEW k, NEW a, NEW z, Cuts(L, k, a, z), NEW c, NEW m, Joins(B, a, c, m)
  PROVE  Tidy(z, c, D)
<1>1. Ordered(a) /\ Ordered(z) /\ Ahead(a, z)
  BY OrderedCut DEF Tidy
<1>2. /\ \A i \in DOMAIN a : i \in DOMAIN L /\ a[i] = L[i]
      /\ \A j \in DOMAIN z : j + k \in DOMAIN L /\ z[j] = L[j + k]
  BY DEF Cuts
<1>3. Ahead(B, a) /\ Ahead(B, z) /\ Ahead(D, a) /\ Ahead(D, z)
  BY <1>2 DEF Tidy, Ahead
<1>4. Ordered(c)
  BY <1>1, <1>3, OrderedJoin DEF Tidy
<1>5. \A i \in DOMAIN c : \/ \E j \in DOMAIN B : c[i] = B[j]
                         \/ \E j \in DOMAIN a : c[i] = a[j]
  BY DEF Joins
<1>6. Ahead(c, z)
  BY <1>1, <1>3, <1>5 DEF Ahead
<1>7. Apart(c, D)
  <2>1. ASSUME NEW j \in DOMAIN a, NEW i \in DOMAIN D PROVE a[j] # D[i]
    <3>1. Before(D[i], a[j])
      BY <1>3 DEF Ahead
    <3>2. D[i] \in FaultRecord
      BY ElementOfSeq, LenProperties DEF FaultSeq
    <3>3. QED BY <3>1, <3>2, BeforeIsStrict
  <2>2. QED BY <1>5, <2>1 DEF Tidy, Apart
<1>8. QED BY <1>1, <1>3, <1>4, <1>6, <1>7 DEF Tidy

\* ... and so does losing them, for the bus and the losses have the same part in it.
LEMMA TidyLost ==
  ASSUME NEW L \in FaultSeq, NEW B \in FaultSeq, NEW D \in FaultSeq, Tidy(L, B, D),
         NEW k, NEW a, NEW z, Cuts(L, k, a, z), NEW c, NEW m, Joins(D, a, c, m)
  PROVE  Tidy(z, B, c)
<1>1. Tidy(L, D, B)
  BY DEF Tidy, Apart
<1>2. Tidy(z, c, B)
  BY <1>1, TidyPublished
<1>3. QED BY <1>2 DEF Tidy, Apart

\* A fault that everything recorded before precedes may be appended.
LEMMA TidyRecorded ==
  ASSUME NEW L \in FaultSeq, NEW B, NEW D, Tidy(L, B, D), NEW x \in FaultRecord,
         Ahead(L, <<x>>), Ahead(B, <<x>>), Ahead(D, <<x>>)
  PROVE  Tidy(Append(L, x), B, D)
<1> DEFINE M == Append(L, x)
           n == Len(L)
<1>1. /\ n \in Nat /\ DOMAIN L = 1..n /\ M \in Seq(FaultRecord) /\ Len(M) = n + 1
      /\ \A i \in 1..n : M[i] = L[i]
      /\ M[n + 1] = x
  BY AppendProperties, LenProperties DEF FaultSeq
<1>2. DOMAIN M = 1..(n + 1)
  BY <1>1, LenProperties
<1> HIDE DEF M, n
<1>3. 1 \in DOMAIN <<x>> /\ <<x>>[1] = x
  OBVIOUS
<1>4. \A i \in DOMAIN L : Before(L[i], x)
  BY <1>3 DEF Ahead
<1>5. Ordered(M)
  <2>1. ASSUME NEW i \in 1..(n + 1), NEW j \in 1..(n + 1), i < j PROVE Before(M[i], M[j])
    <3>1. CASE j \in 1..n
      BY <1>1, <2>1, <3>1 DEF Tidy, Ordered
    <3>2. CASE j = n + 1
      <4>1. i \in 1..n
        BY <1>1, <2>1, <3>2
      <4>2. QED BY <1>1, <1>4, <3>2, <4>1
    <3>3. QED BY <1>1, <2>1, <3>1, <3>2
  <2>2. QED BY <1>2, <2>1 DEF Ordered
<1>6. \A i \in DOMAIN M : (i \in DOMAIN L /\ M[i] = L[i]) \/ M[i] = x
  BY <1>1, <1>2
<1>7. Ahead(B, M) /\ Ahead(D, M)
  BY <1>3, <1>6 DEF Tidy, Ahead
<1>8. Tidy(M, B, D)
  BY <1>5, <1>7 DEF Tidy
<1>9. QED BY <1>8 DEF M
-----------------------------------------------------------------------------
(***************************************************************************)
(* The steps of the invoking thread, of the lines and of the platform.     *)
(***************************************************************************)

\* A step that leaves the lists and the faults of the run alone.
LEMMA FaultFrame ==
  ASSUME FaultInv, theFaults' = theFaults, faultBus' = faultBus, dropped' = dropped, run' = run,
         \A p \in Pipelines, e \in Events : fate'[p][e] = "faulted" <=> fate[p][e] = "faulted",
         main' # "idle" => main # "idle",
         main' = "returned" => theFaults = << >>,
         main' \notin {"idle", "raised"} => main \notin {"idle", "raised"}
  PROVE  FaultInv'
<1>1. ASSUME NEW s, Known(s, run, Armed, fate)
      PROVE  Known(s, run, Armed', fate')
  BY <1>1 DEF Known, FaultRecord, Armed
<1>2. Known(theFaults, run, Armed', fate') /\ Known(faultBus, run, Armed', fate')
      /\ Known(dropped, run, Armed', fate')
  BY <1>1 DEF FaultInv
<1>3. Found(theFaults, faultBus, dropped, run, fate')
  BY DEF FaultInv, Found
<1>4. QED BY <1>2, <1>3 DEF FaultInv

\* A new run has no faults yet, and everything in the lists is older.
LEMMA FaultRenew ==
  ASSUME TypeOK, FaultInv, Invoke \/ Kill
  PROVE  FaultInv'
<1>1. \A p \in Pipelines, e \in Events : fate'[p][e] = "none"
  BY DEF Invoke, Kill, RenewLines, PerLine, NoFate
<1>2. ASSUME NEW L, NEW B, NEW D, NEW r PROVE Found(L, B, D, r, fate')
  BY <1>1 DEF Found
<1>3. CASE Invoke
  <2>1. /\ theFaults' = theFaults /\ faultBus' = faultBus /\ dropped' = dropped
        /\ run' = run + 1 /\ run \in Nat /\ main' = "subscribing"
    BY <1>3 DEF Invoke, TypeOK
  <2>2. ASSUME NEW s, Known(s, run, Armed, fate)
        PROVE  Known(s, run + 1, Armed', fate') /\ \A i \in DOMAIN s : s[i].run # run + 1
    <3>1. \A i \in DOMAIN s : s[i] \in FaultRecord /\ s[i].run \in Nat /\ s[i].run <= run
      BY <2>2 DEF Known, FaultRecord
    <3>2. \A i \in DOMAIN s : s[i].run # run + 1 /\ s[i].run <= run + 1
      BY <2>1, <3>1
    <3>3. QED BY <3>1, <3>2 DEF Known
  <2>3. QED BY <1>2, <2>1, <2>2 DEF FaultInv
<1>4. CASE Kill
  <2>1. /\ theFaults' = << >> /\ faultBus' = faultBus /\ dropped' = dropped
        /\ run' = run /\ main' = "idle"
    BY <1>4 DEF Kill
  <2>2. DOMAIN theFaults' = {}
    BY <2>1, EmptyIsAscending
  <2>3. Tidy(theFaults', faultBus, dropped)
    BY <2>2 DEF FaultInv, Tidy, Ordered, Ahead
  <2>4. ASSUME NEW s, Known(s, run, Armed, fate) PROVE Known(s, run, Armed', fate')
    BY <2>1, <2>4 DEF Known, Armed
  <2>5. Known(theFaults', run, Armed', fate')
    BY <2>2 DEF Known
  <2>6. QED BY <1>2, <2>1, <2>3, <2>4, <2>5 DEF FaultInv
<1>5. QED BY <1>3, <1>4

\* What a flush takes off the list is still found, and known.
LEMMA FlushMoves ==
  ASSUME NEW L, NEW k, NEW a, NEW z, Cuts(L, k, a, z), NEW B, NEW c, NEW m, Joins(B, a, c, m),
         NEW r, NEW armed, NEW f, Known(L, r, armed, f), Known(B, r, armed, f)
  PROVE  /\ Known(z, r, armed, f) /\ Known(c, r, armed, f)
         /\ \A x : Has(L, x) \/ Has(B, x) => Has(z, x) \/ Has(c, x)
<1>1. /\ \A i \in DOMAIN a : \E j \in DOMAIN L : a[i] = L[j]
      /\ \A i \in DOMAIN z : \E j \in DOMAIN L : z[i] = L[j]
      /\ \A i \in DOMAIN L : (\E j \in DOMAIN a : L[i] = a[j]) \/ (\E j \in DOMAIN z : L[i] = z[j])
  BY DEF Cuts
<1>2. /\ \A i \in DOMAIN c : (\E j \in DOMAIN B : c[i] = B[j]) \/ (\E j \in DOMAIN a : c[i] = a[j])
      /\ \A i \in DOMAIN a : \E j \in DOMAIN c : a[i] = c[j]
      /\ \A i \in DOMAIN B : \E j \in DOMAIN c : B[i] = c[j]
  BY DEF Joins
<1>3. Known(z, r, armed, f)
  BY <1>1 DEF Known
<1>4. Known(a, r, armed, f)
  BY <1>1 DEF Known
<1>5. Known(c, r, armed, f)
  BY <1>2, <1>4 DEF Known
<1>6. \A x : Has(L, x) \/ Has(B, x) => Has(z, x) \/ Has(c, x)
  BY <1>1, <1>2 DEF Has
<1>7. QED BY <1>3, <1>5, <1>6

LEMMA FaultFlush ==
  ASSUME TypeOK, FaultInv, FlushBatch \/ FlushRaises
  PROVE  FaultInv'
<1>1. /\ theFaults \in FaultSeq /\ faultBus \in FaultSeq /\ dropped \in FaultSeq
      /\ NextFaults \in FaultSeq
  BY FlushSplits DEF TypeOK
<1>2. /\ theFaults' = SubSeq(theFaults, FlushSize + 1, Len(theFaults)) /\ main = "flushing"
      /\ run' = run /\ fate' = fate
  BY DEF FlushBatch, FlushRaises, mainVars, sentVars
<1>3. PICK k : k = FlushSize
  OBVIOUS
<1>4. k \in 0..Len(theFaults)
  BY <1>3, FlushSizeBounds
<1>5. PICK a : a = NextFaults
  OBVIOUS
<1>6. Cuts(theFaults, k, a, theFaults')
  <2>1. a = SubSeq(theFaults, 1, k) /\ theFaults' = SubSeq(theFaults, k + 1, Len(theFaults))
    BY <1>2, <1>3, <1>5 DEF NextFaults
  <2>2. QED BY <1>1, <1>4, <2>1, CutFaults
<1>7. CASE FlushBatch
  <2>1. faultBus' = faultBus \o a /\ dropped' = dropped /\ main' = main
    BY <1>5, <1>7 DEF FlushBatch, mainVars
  <2>2. Joins(faultBus, a, faultBus', Len(faultBus))
    BY <1>1, <1>5, <2>1, JoinFaults
  <2>3. Tidy(theFaults', faultBus', dropped)
    BY <1>1, <1>6, <2>2, TidyPublished DEF FaultInv
  <2>4. /\ Known(theFaults', run, Armed, fate) /\ Known(faultBus', run, Armed, fate)
        /\ \A x : Has(theFaults, x) \/ Has(faultBus, x) => Has(theFaults', x) \/ Has(faultBus', x)
    BY <1>6, <2>2, FlushMoves DEF FaultInv
  <2>5. Found(theFaults', faultBus', dropped, run, fate)
    BY <2>4 DEF FaultInv, Found
  <2>6. Armed' = Armed
    BY <2>1 DEF Armed
  <2>7. QED BY <1>2, <2>1, <2>3, <2>4, <2>5, <2>6 DEF FaultInv
<1>8. CASE FlushRaises
  <2>1. dropped' = dropped \o a /\ faultBus' = faultBus /\ main' = "raised"
    BY <1>5, <1>8 DEF FlushRaises
  <2>2. Joins(dropped, a, dropped', Len(dropped))
    BY <1>1, <1>5, <2>1, JoinFaults
  <2>3. Tidy(theFaults', faultBus, dropped')
    BY <1>1, <1>6, <2>2, TidyLost DEF FaultInv
  <2>4. /\ Known(theFaults', run, Armed, fate) /\ Known(dropped', run, Armed, fate)
        /\ \A x : Has(theFaults, x) \/ Has(dropped, x) => Has(theFaults', x) \/ Has(dropped', x)
    BY <1>6, <2>2, FlushMoves DEF FaultInv
  <2>5. Found(theFaults', faultBus, dropped', run, fate)
    BY <2>4 DEF FaultInv, Found
  <2>6. Armed /\ Armed'
    BY <1>2, <2>1 DEF Armed
  <2>7. /\ Known(theFaults', run, Armed', fate) /\ Known(dropped', run, Armed', fate)
        /\ Known(faultBus, run, Armed', fate)
    BY <2>4, <2>6 DEF FaultInv, Known
  <2>8. QED BY <1>2, <2>1, <2>3, <2>5, <2>7 DEF FaultInv
<1>9. QED BY <1>7, <1>8

\* The other steps of the invoking thread.
LEMMA FaultMain ==
  ASSUME TypeOK, FaultInv, Invoke \/ Main \/ Kill \/ Finished \/ UNCHANGED vars
  PROVE  FaultInv'
<1>1. CASE Invoke \/ Kill
  BY <1>1, FaultRenew
<1>2. CASE FlushBatch \/ FlushRaises
  BY <1>2, FaultFlush
<1>3. CASE Subscribe \/ SubscribedAll \/ TrampolineEmpty \/ Wake \/ Shutdown \/ Return
           \/ Finished \/ UNCHANGED vars
  <2>1. /\ theFaults' = theFaults /\ faultBus' = faultBus /\ dropped' = dropped
        /\ run' = run /\ fate' = fate
    BY <1>3 DEF Subscribe, SubscribedAll, TrampolineEmpty, Wake, Shutdown, Return, Finished, vars,
                mainVars, sentVars, faultVars
  <2>2. main' = "returned" => theFaults = << >>
    BY <1>3 DEF Subscribe, SubscribedAll, TrampolineEmpty, Wake, Shutdown, Return, Finished, vars,
                mainVars, FaultInv
  <2>3. /\ main' # "idle" => main # "idle"
        /\ main' \notin {"idle", "raised"} => main \notin {"idle", "raised"}
    BY <1>3 DEF Subscribe, SubscribedAll, TrampolineEmpty, Wake, Shutdown, Return, Finished, vars,
                mainVars
  <2>4. QED BY <2>1, <2>2, <2>3, FaultFrame
<1>4. QED BY <1>1, <1>2, <1>3 DEF Main

\* A fault is recorded after everything that its line recorded before.
LEMMA FaultRecorded ==
  ASSUME TypeOK, LatchInv, LineInv, FaultInv, NEW p \in Pipelines, RecordFault(p)
  PROVE  FaultInv'
<1>1. PICK x : x = FaultOf(run, p, Item(p))
  OBVIOUS
<1>2. PICK n : n = pos[p]
  OBVIOUS
<1>3. /\ Consumes(p, "fault") /\ theFaults' = Append(theFaults, x) /\ main' = main /\ run' = run
      /\ faultBus' = faultBus /\ dropped' = dropped
      /\ fate' = [fate EXCEPT ![p][n + 1] = "faulted"]
  BY <1>1, <1>2 DEF RecordFault, FaultOf, Item, mainVars
<1>4. /\ n \in Nat /\ n + 1 \in Events /\ x \in FaultRecord /\ run \in Nat
      /\ x.run = run /\ x.pipeline = p /\ x.event = n + 1
      /\ theFaults \in FaultSeq
  <2>1. Item(p) \in Events
    BY <1>3, ItemIsEvent
  <2>2. n \in Nat /\ Item(p) = n + 1 /\ run \in Nat /\ theFaults \in FaultSeq
    BY <1>2, ConstantsAssumption DEF Item, TypeOK
  <2>3. QED BY <1>1, <2>1, <2>2 DEF FaultOf, FaultRecord
<1>5. Line(p) /\ Armed
  BY LinesRunWhenArmed DEF Line
<1>6. main # "returned"
  <2>1. ~MarkUnlock(p)
    BY <1>3 DEF MarkUnlock, Consumes
  <2>2. QED BY <1>5, <2>1, OnlyUnlocksPastLatch
<1>7. \A e \in Events : fate[p][e] # "none" => e <= n
  BY <1>2 DEF LineInv, Good
<1>8. ASSUME NEW s, Known(s, run, Armed, fate) PROVE Ahead(s, <<x>>)
  <2>1. ASSUME NEW i \in DOMAIN s PROVE Before(s[i], x)
    <3>1. s[i] \in FaultRecord /\ s[i].run \in Nat /\ s[i].run <= run /\ s[i].event \in Nat
      BY <1>8, <2>1, ConstantsAssumption DEF Known, FaultRecord, Events
    <3>2. CASE s[i].pipeline = p /\ s[i].run = run
      <4>1. fate[p][s[i].event] = "faulted" /\ s[i].event \in Events
        BY <1>5, <1>8, <2>1, <3>1, <3>2 DEF Known, FaultRecord
      <4>2. s[i].event <= n
        BY <1>7, <4>1
      <4>3. QED BY <1>4, <3>1, <3>2, <4>2 DEF Before
    <3>3. CASE s[i].run # run
      BY <1>4, <3>1, <3>3 DEF Before
    <3>4. CASE s[i].pipeline # p
      BY <1>4, <3>4 DEF Before
    <3>5. QED BY <3>2, <3>3, <3>4
  <2>2. \A j \in DOMAIN <<x>> : <<x>>[j] = x
    OBVIOUS
  <2>3. QED BY <2>1, <2>2 DEF Ahead
<1>9. Tidy(theFaults', faultBus, dropped)
  BY <1>3, <1>4, <1>8, TidyRecorded DEF FaultInv
<1>10. /\ \A q \in Pipelines, e \in Events :
            fate'[q][e] = IF q = p /\ e = n + 1 THEN "faulted" ELSE fate[q][e]
  BY <1>3, <1>4 DEF TypeOK
<1>11. ASSUME NEW s, Known(s, run, Armed, fate) PROVE Known(s, run, Armed', fate')
  BY <1>5, <1>10, <1>11 DEF Known, FaultRecord
<1>12. /\ \A i \in DOMAIN theFaults' : \/ i \in DOMAIN theFaults /\ theFaults'[i] = theFaults[i]
                                       \/ theFaults'[i] = x
       /\ \A i \in DOMAIN theFaults : i \in DOMAIN theFaults' /\ theFaults'[i] = theFaults[i]
       /\ Has(theFaults', x)
  <2>1. PICK L : L = theFaults
    OBVIOUS
  <2>2. PICK M : M = theFaults'
    OBVIOUS
  <2>3. PICK m \in Nat : m = Len(L)
    BY <1>4, <2>1, LenProperties DEF FaultSeq
  <2>4. /\ DOMAIN L = 1..m /\ M \in Seq(FaultRecord) /\ Len(M) = m + 1
        /\ \A i \in 1..m : M[i] = L[i]
        /\ M[m + 1] = x
    BY <1>3, <1>4, <2>1, <2>2, <2>3, AppendProperties, LenProperties DEF FaultSeq
  <2>5. DOMAIN M = 1..(m + 1)
    BY <2>4, LenProperties
  <2>6. /\ \A i \in DOMAIN M : (i \in DOMAIN L /\ M[i] = L[i]) \/ M[i] = x
        /\ \A i \in DOMAIN L : i \in DOMAIN M /\ M[i] = L[i]
        /\ m + 1 \in DOMAIN M
    BY <2>4, <2>5
  <2>7. QED BY <2>1, <2>2, <2>4, <2>6 DEF Has
<1>13. Known(theFaults', run, Armed', fate')
  <2>1. Known(theFaults, run, Armed', fate')
    BY <1>11 DEF FaultInv
  <2>2. fate'[p][n + 1] = "faulted"
    BY <1>4, <1>10
  <2>3. QED BY <1>4, <1>12, <2>1, <2>2 DEF Known
<1>14. Found(theFaults', faultBus, dropped, run, fate')
  <2>1. ASSUME NEW q \in Pipelines, NEW e \in Events, fate'[q][e] = "faulted"
        PROVE  \/ Has(theFaults', FaultOf(run, q, e)) \/ Has(faultBus, FaultOf(run, q, e))
               \/ Has(dropped, FaultOf(run, q, e))
    <3>1. CASE q = p /\ e = n + 1
      <4>1. FaultOf(run, q, e) = x
        BY <1>1, <1>2, <3>1 DEF Item
      <4>2. QED BY <1>12, <4>1
    <3>2. CASE fate[q][e] = "faulted"
      <4>1. \/ Has(theFaults, FaultOf(run, q, e)) \/ Has(faultBus, FaultOf(run, q, e))
            \/ Has(dropped, FaultOf(run, q, e))
        BY <3>2 DEF FaultInv, Found
      <4>2. Has(theFaults, FaultOf(run, q, e)) => Has(theFaults', FaultOf(run, q, e))
        BY <1>12 DEF Has
      <4>3. QED BY <4>1, <4>2
    <3>3. QED BY <1>10, <2>1, <3>1, <3>2
  <2>2. QED BY <2>1 DEF Found
<1>15. QED BY <1>3, <1>6, <1>9, <1>11, <1>13, <1>14 DEF FaultInv

LEMMA FaultLine ==
  ASSUME TypeOK, LatchInv, LineInv, FaultInv, NEW p \in Pipelines, Line(p)
  PROVE  FaultInv'
<1>1. CASE RecordFault(p)
  BY <1>1, FaultRecorded
<1>2. CASE ~RecordFault(p)
  <2>1. theFaults' = theFaults /\ faultBus' = faultBus /\ dropped' = dropped
    BY <1>2 DEF Line, Take, Filter, Forward, Stray, HandlerRaises, MapError, Deliver, DeliverFails,
           Complete, MarkLoad, MarkStore, MarkUnlock, faultVars
  <2>2. run' = run /\ main # "idle" /\ main' \in {main, "raised"}
    BY LineStage
  <2>3. main' = "returned" => theFaults = << >>
    BY <2>2 DEF FaultInv
  <2>4. ASSUME NEW q \in Pipelines, NEW e \in Events
        PROVE  fate'[q][e] = "faulted" <=> fate[q][e] = "faulted"
    <3>1. Good(p, stage[p], pos[p], buf[p], fate[p], bus[p], failed)
      BY DEF LineInv
    <3>2. CASE Filter(p)
      <4>1. /\ fate' = [fate EXCEPT ![p][pos[p] + 1] = "filtered"] /\ Consumes(p, "filter")
        BY <3>2 DEF Filter, Item
      <4>2. fate[p][pos[p] + 1] = "none"
        <5>1. pos[p] + 1 \in Events /\ ~(pos[p] + 1 <= pos[p])
          <6>1. Item(p) \in Events
            BY <4>1, ItemIsEvent
          <6>2. pos[p] \in Nat
            BY ConstantsAssumption DEF TypeOK
          <6>3. QED BY <6>1, <6>2 DEF Item
        <5>2. QED BY <3>1, <5>1 DEF Good
      <4>3. QED BY <4>1, <4>2 DEF TypeOK
    <3>3. CASE Deliver(p)
      <4>1. fate' = [fate EXCEPT ![p] = [x \in Events |->
                        IF \E i \in DOMAIN buf[p] : buf[p][i] = x THEN "delivered" ELSE fate[p][x]]]
        BY <3>3 DEF Deliver
      <4>2. \A i \in DOMAIN buf[p] : fate[p][buf[p][i]] = "none"
        BY <3>1 DEF Good
      <4>3. QED BY <4>1, <4>2 DEF TypeOK
    <3>4. CASE ~Filter(p) /\ ~Deliver(p)
      <4>1. fate' = fate
        BY <1>2, <3>4 DEF Line, Take, Forward, Stray, HandlerRaises, MapError, DeliverFails,
               Complete, MarkLoad, MarkStore, MarkUnlock, sentVars
      <4>2. QED BY <4>1
    <3>5. QED BY <3>2, <3>3, <3>4
  <2>5. main' \notin {"idle", "raised"} => main \notin {"idle", "raised"}
    BY <2>2
  <2>6. QED BY <2>1, <2>2, <2>3, <2>4, <2>5, FaultFrame
<1>3. QED BY <1>1, <1>2

LEMMA FaultInit == Init => FaultInv
<1> SUFFICES ASSUME Init PROVE FaultInv
  OBVIOUS
<1>1. theFaults = << >> /\ faultBus = << >> /\ dropped = << >> /\ main = "idle"
  BY DEF Init
<1>2. DOMAIN theFaults = {} /\ DOMAIN faultBus = {} /\ DOMAIN dropped = {}
  BY <1>1, EmptyIsAscending
<1>3. Tidy(theFaults, faultBus, dropped)
  BY <1>2 DEF Tidy, Ordered, Ahead, Apart
<1>4. Found(theFaults, faultBus, dropped, run, fate)
  BY DEF Init, FreshLines, Found, PerLine, NoFate
<1>5. QED BY <1>1, <1>2, <1>3, <1>4 DEF FaultInv, Known

LEMMA FaultInvariant == Spec => [](TypeOK /\ FaultInv)
<1>1. TypeOK /\ LatchInv /\ LineInv /\ FaultInv /\ [Next]_vars => FaultInv'
  BY FaultMain, FaultLine DEF Next
<1>2. QED BY <1>1, FaultInit, LineInvariant, PTL DEF Spec

\* The faults of a line are published in the order in which the line recorded them, over warm
\* runs and flushes that raise (flush_faults pops from the front of the_faults).
THEOREM FaultsKeepTheirOrder == Spec => []FaultsPublishedInOrder
<1>1. FaultInv => FaultsPublishedInOrder
  BY DEF FaultInv, Tidy, Ordered, Before, FaultsPublishedInOrder
<1>2. QED BY <1>1, FaultInvariant, PTL

\* A fault is at most once in an ordered list.
LEMMA OccursOnce ==
  ASSUME NEW s \in FaultSeq, Ordered(s), NEW f \in FaultRecord
  PROVE  Cardinality(Occurrences(f, s)) = IF Has(s, f) THEN 1 ELSE 0
<1>1. CASE Has(s, f)
  <2>1. PICK i \in DOMAIN s : s[i] = f
    BY <1>1 DEF Has
  <2>2. ASSUME NEW j \in DOMAIN s, s[j] = f PROVE j = i
    <3>1. i \in Nat /\ j \in Nat
      BY <2>1, LenProperties DEF FaultSeq
    <3>2. ~(i < j) /\ ~(j < i)
      BY <2>1, <2>2, BeforeIsStrict DEF Ordered
    <3>3. QED BY <3>1, <3>2
  <2>3. Occurrences(f, s) = {i}
    BY <2>1, <2>2 DEF Occurrences
  <2>4. QED BY <1>1, <2>3, FS_Singleton
<1>2. CASE ~Has(s, f)
  <2>1. Occurrences(f, s) = {}
    BY <1>2 DEF Has, Occurrences
  <2>2. QED BY <1>2, <2>1, FS_EmptySet
<1>3. QED BY <1>1, <1>2

\* A fault is in at most one of the lists.
LEMMA OnePlace ==
  ASSUME NEW L \in FaultSeq, NEW B \in FaultSeq, NEW D \in FaultSeq, Tidy(L, B, D),
         NEW f \in FaultRecord
  PROVE  ~(Has(L, f) /\ Has(B, f)) /\ ~(Has(L, f) /\ Has(D, f)) /\ ~(Has(B, f) /\ Has(D, f))
<1>1. ~(Has(L, f) /\ Has(B, f)) /\ ~(Has(L, f) /\ Has(D, f))
  BY BeforeIsStrict DEF Tidy, Ahead, Has
<1>2. ~(Has(B, f) /\ Has(D, f))
  BY DEF Tidy, Apart, Has
<1>3. QED BY <1>1, <1>2

\* No fault of a run is lost silently, recorded or published twice, or left behind by a run that
\* returns: it is in exactly one of the_faults, the published and the failed batches.
THEOREM FaultsHaveOnePlace == Spec => []FaultsAccountedFor
<1>1. TypeOK /\ FaultInv => FaultsAccountedFor
  <2> SUFFICES ASSUME TypeOK, FaultInv, NEW p \in Pipelines, NEW e \in Events
               PROVE  LET f == [run |-> run, pipeline |-> p, event |-> e]
                          places == Cardinality(Occurrences(f, theFaults))
                                    + Cardinality(Occurrences(f, faultBus))
                                    + Cardinality(Occurrences(f, dropped))
                      IN  /\ fate[p][e] = "faulted" => places = 1
                          /\ fate[p][e] # "faulted" /\ main # "idle" => places = 0
                          /\ fate[p][e] = "faulted" /\ main = "returned" =>
                               Occurrences(f, faultBus) # {}
    BY DEF FaultsAccountedFor
  <2>1. PICK f : f = [run |-> run, pipeline |-> p, event |-> e]
    OBVIOUS
  <2>2. f \in FaultRecord /\ f = FaultOf(run, p, e) /\ f.run = run /\ f.pipeline = p /\ f.event = e
    BY <2>1 DEF FaultRecord, FaultOf, TypeOK
  <2>3. theFaults \in FaultSeq /\ faultBus \in FaultSeq /\ dropped \in FaultSeq
    BY DEF TypeOK
  <2>4. /\ Cardinality(Occurrences(f, theFaults)) = IF Has(theFaults, f) THEN 1 ELSE 0
        /\ Cardinality(Occurrences(f, faultBus)) = IF Has(faultBus, f) THEN 1 ELSE 0
        /\ Cardinality(Occurrences(f, dropped)) = IF Has(dropped, f) THEN 1 ELSE 0
    BY <2>2, <2>3, OccursOnce DEF FaultInv, Tidy
  <2>5. /\ ~(Has(theFaults, f) /\ Has(faultBus, f)) /\ ~(Has(theFaults, f) /\ Has(dropped, f))
        /\ ~(Has(faultBus, f) /\ Has(dropped, f))
    BY <2>2, <2>3, OnePlace DEF FaultInv
  <2>6. fate[p][e] = "faulted" => Has(theFaults, f) \/ Has(faultBus, f) \/ Has(dropped, f)
    BY <2>2 DEF FaultInv, Found
  <2>7. fate[p][e] # "faulted" /\ main # "idle" =>
          ~Has(theFaults, f) /\ ~Has(faultBus, f) /\ ~Has(dropped, f)
    BY <2>2 DEF FaultInv, Known, Has, Armed
  <2>8. main = "returned" => ~Has(theFaults, f) /\ ~Has(dropped, f)
    <3>1. ASSUME main = "returned" PROVE ~Has(theFaults, f) /\ ~Has(dropped, f)
      <4>1. DOMAIN theFaults = {}
        BY <3>1, EmptyIsAscending DEF FaultInv
      <4>2. \A i \in DOMAIN dropped : dropped[i].run # run
        BY <3>1 DEF FaultInv
      <4>3. QED BY <2>2, <4>1, <4>2 DEF Has
    <3>2. QED BY <3>1
  <2>9. Has(faultBus, f) => Occurrences(f, faultBus) # {}
    BY DEF Has, Occurrences
  <2>10. /\ fate[p][e] = "faulted" =>
             Cardinality(Occurrences(f, theFaults)) + Cardinality(Occurrences(f, faultBus))
               + Cardinality(Occurrences(f, dropped)) = 1
         /\ fate[p][e] # "faulted" /\ main # "idle" =>
             Cardinality(Occurrences(f, theFaults)) + Cardinality(Occurrences(f, faultBus))
               + Cardinality(Occurrences(f, dropped)) = 0
    BY <2>4, <2>5, <2>6, <2>7
  <2>11. fate[p][e] = "faulted" /\ main = "returned" => Occurrences(f, faultBus) # {}
    BY <2>6, <2>8, <2>9
  <2>12. QED BY <2>1, <2>10, <2>11
<1>2. QED BY <1>1, FaultInvariant, PTL
-----------------------------------------------------------------------------
(***************************************************************************)
(* A run always moves, and only forward.                                   *)
(***************************************************************************)

\* Line p has a step to take: its task can start, is at work, or can have the lock.
LineMoves(p) ==
  \/ /\ p = taken + 1 /\ p <= subscribed
     /\ IF Concurrency[run] THEN Cardinality(Busy) < PoolSize
                            ELSE main = "trampoline" /\ Busy = {}
  \/ stage[p] \in {"active", "loaded", "stored"}
  \/ stage[p] = "ended" /\ lock = Free

\* The invoking thread has a step to take.
MainMoves ==
  \/ main \in {"subscribing", "flushing"}
  \/ main = "trampoline" /\ taken = subscribed /\ Busy = {}
  \/ main = "waiting" /\ completed
  \/ main = "shutdown" /\ taken = subscribed /\ Busy = {}

\* run blocks in completed.wait(): every line is over, and one of them never told the latch.
WaitsForTheDead ==
  /\ main = "waiting"
  /\ \A p \in Pipelines : stage[p] \in {"marked", "dead"}
  /\ \E p \in Pipelines : stage[p] = "dead"

\* As long as run has not returned or raised, something moves or it waits for a dead line.
NoRunIsStuck ==
  main \notin Resting => MainMoves \/ (\E p \in Pipelines : LineMoves(p)) \/ WaitsForTheDead

\* Past the subscriptions every line is subscribed; without a pool, the invoking thread waits
\* only after the trampoline has taken them all.
PhaseInv ==
  /\ main \notin Resting \cup {"subscribing"} => subscribed = NumPipelines
  /\ main \in {"waiting", "shutdown", "flushing"} /\ ~Concurrency[run] => taken = subscribed

LEMMA PhaseStep ==
  ASSUME TypeOK, LatchInv, LineInv, PhaseInv, [Next]_vars
  PROVE  PhaseInv'
<1>1. CASE Invoke \/ Kill
  BY <1>1 DEF Invoke, Kill, PhaseInv, Resting
<1>2. CASE Main \/ Finished \/ UNCHANGED vars
  BY <1>2 DEF Main, Subscribe, SubscribedAll, TrampolineEmpty, Wake, Shutdown, FlushBatch,
         FlushRaises, Return, Finished, vars, mainVars, poolVars, PhaseInv, Resting
<1>3. ASSUME NEW p \in Pipelines, Line(p) PROVE PhaseInv'
  <2>1. run' = run /\ main # "idle" /\ main' \in {main, "raised"}
    BY <1>3, LineStage
  <2>2. subscribed' = subscribed /\ (taken' = taken \/ Take(p))
    BY <1>3 DEF Line, Take, Filter, Forward, RecordFault, Stray, HandlerRaises, MapError, Deliver,
           DeliverFails, Complete, MarkLoad, MarkStore, MarkUnlock, poolVars
  <2>3. Take(p) /\ main # "trampoline" => Concurrency[run]
    BY DEF Take
  <2>4. QED BY <2>1, <2>2, <2>3 DEF PhaseInv, Resting
<1>4. QED BY <1>1, <1>2, <1>3 DEF Next

\* A line at work can go on, or waits for the lock, whose holder can.
LEMMA BusyMoves ==
  ASSUME TypeOK, LatchInv, Busy # {}
  PROVE  \E p \in Pipelines : LineMoves(p)
<1>1. PICK p \in Pipelines : stage[p] \in {"active", "ended", "loaded", "stored"}
  BY DEF Busy
<1>2. CASE lock = Free \/ stage[p] # "ended"
  BY <1>1, <1>2 DEF LineMoves
<1>3. CASE lock # Free
  <2>1. lock \in Pipelines /\ stage[lock] \in {"loaded", "stored"}
    BY <1>3 DEF TypeOK, LatchInv, LockOwned
  <2>2. QED BY <2>1 DEF LineMoves
<1>4. QED BY <1>2, <1>3

\* With all threads free, the next line of the queue can start, unless the trampoline is over.
LEMMA QueueMoves ==
  ASSUME TypeOK, HandlerInv, Busy = {}, taken # subscribed, Concurrency[run] \/ main = "trampoline"
  PROVE  \E p \in Pipelines : LineMoves(p)
<1>1. taken + 1 \in Pipelines /\ taken + 1 <= subscribed
  BY ConstantsAssumption DEF TypeOK, HandlerInv, ContextInv, Pipelines
<1>2. Cardinality(Busy) < PoolSize
  BY FS_EmptySet, ConstantsAssumption
<1>3. LineMoves(taken + 1)
  BY <1>1, <1>2 DEF LineMoves
<1>4. QED BY <1>1, <1>3

\* No deadlock: while a run is in progress, its thread or a line can take a step, or all lines
\* are over and one of them died without telling the latch (mark_completed was not called).
THEOREM OnlyTheDeadAreWaitedFor == Spec => []NoRunIsStuck
<1>1. ASSUME TypeOK, LatchInv, LineInv, HandlerInv, PhaseInv, main \notin Resting,
             ~MainMoves, ~\E p \in Pipelines : LineMoves(p)
      PROVE  WaitsForTheDead
  <2>1. Busy = {} /\ main \in {"trampoline", "waiting", "shutdown"}
    BY <1>1, BusyMoves DEF TypeOK, Phases, MainMoves
  <2>2. subscribed = NumPipelines
    BY <1>1, <2>1 DEF PhaseInv, Resting
  <2>3. taken = subscribed
    BY <1>1, <2>1, QueueMoves DEF PhaseInv
  <2>4. main = "waiting" /\ ~completed
    BY <1>1, <2>1, <2>3 DEF MainMoves
  <2>5. \A p \in Pipelines : stage[p] \in {"marked", "dead"}
    <3>1. \A p \in Pipelines : ~(p > taken)
      BY <2>2, <2>3, ConstantsAssumption DEF Pipelines
    <3>2. QED BY <1>1, <2>1, <3>1 DEF LineInv, TypeOK, Stages, Busy
  <2>6. \E p \in Pipelines : stage[p] = "dead"
    <3>1. Open # {}
      BY <1>1, <2>4 DEF LatchInv, LatchCountsOpenLines, Armed
    <3>2. QED BY <2>5, <3>1 DEF Open
  <2>7. QED BY <2>4, <2>5, <2>6 DEF WaitsForTheDead
<1>2. TypeOK /\ LatchInv /\ LineInv /\ HandlerInv /\ PhaseInv => NoRunIsStuck
  BY <1>1 DEF NoRunIsStuck
<1>3. Init => PhaseInv
  BY DEF Init, PhaseInv, Resting
<1>4. QED BY <1>2, <1>3, LineInvariant, HandlerInvariant, PhaseStep, PTL DEF Spec

\* How far a line, and the invoking thread, are in a run.
StageRank(s) ==
  CASE s = "ready" -> 0 [] s = "active" -> 1 [] s = "ended" -> 2 [] s = "loaded" -> 3
    [] s = "stored" -> 4 [] OTHER -> 5

PhaseRank(m) ==
  CASE m = "subscribing" -> 0 [] m = "trampoline" -> 1 [] m = "waiting" -> 2
    [] m = "shutdown" -> 3 [] m = "flushing" -> 4 [] OTHER -> 5

\* One line goes on: to a later stage, to the next item, or by emptying its buffer.
LineAdvances(p) ==
  /\ \A q \in Pipelines \ {p} : stage'[q] = stage[q] /\ pos'[q] = pos[q] /\ buf'[q] = buf[q]
  /\ \/ StageRank(stage'[p]) > StageRank(stage[p]) /\ pos'[p] = pos[p]
     \/ stage'[p] = stage[p] /\ pos'[p] = pos[p] + 1
     \/ stage'[p] = stage[p] /\ pos'[p] = pos[p] /\ buf[p] # << >> /\ buf'[p] = << >>
  /\ PhaseRank(main') >= PhaseRank(main) /\ UNCHANGED <<run, subscribed>>

\* The invoking thread goes on: to a later phase, to the next line, or by flushing faults.
MainAdvances ==
  /\ UNCHANGED <<run, stage, pos, buf>>
  /\ \/ PhaseRank(main') > PhaseRank(main) /\ subscribed' = subscribed
     \/ main' = main /\ subscribed' = subscribed + 1
     \/ main' = main /\ subscribed' = subscribed /\ Len(theFaults') < Len(theFaults)

\* Steps that are not the platform's bring one line, or the invoking thread, forward.
Progress == [][Invoke \/ Kill \/ MainAdvances \/ \E p \in Pipelines : LineAdvances(p)]_vars

LEMMA FlushShortens ==
  ASSUME TypeOK, theFaults # << >>
  PROVE  Len(SubSeq(theFaults, FlushSize + 1, Len(theFaults))) < Len(theFaults)
<1>1. PICK L \in Seq(FaultRecord) : L = theFaults
  BY DEF TypeOK, FaultSeq
<1>2. PICK n \in Nat : n = Len(L) /\ n > 0
  BY <1>1, EmptySeq, LenProperties
<1>3. PICK k \in 1..n : k = FlushSize
  BY <1>1, <1>2, ConstantsAssumption DEF FlushSize
<1>4. \A i \in (k + 1)..n : L[i] \in FaultRecord
  BY <1>1, <1>2, <1>3, ElementOfSeq
<1>5. Len(SubSeq(L, k + 1, n)) = IF k + 1 <= n THEN n - (k + 1) + 1 ELSE 0
  BY <1>1, <1>2, <1>3, <1>4, SubSeqProperties
<1>6. QED BY <1>1, <1>2, <1>3, <1>5

LEMMA MainForward ==
  ASSUME TypeOK, Main
  PROVE  MainAdvances
<1>1. CASE Subscribe
  BY <1>1 DEF Subscribe, MainAdvances, mainVars, lineVars
<1>2. CASE SubscribedAll \/ TrampolineEmpty \/ Wake \/ Shutdown
  <2>1. PhaseRank(main') > PhaseRank(main)
    BY <1>2 DEF SubscribedAll, TrampolineEmpty, Wake, Shutdown, PhaseRank
  <2>2. QED BY <1>2, <2>1 DEF SubscribedAll, TrampolineEmpty, Wake, Shutdown, MainAdvances,
                              poolVars, lineVars
<1>3. CASE FlushBatch
  BY <1>3, FlushShortens DEF FlushBatch, MainAdvances, mainVars, poolVars, lineVars
<1>4. CASE FlushRaises \/ Return
  <2>1. PhaseRank(main') > PhaseRank(main)
    BY <1>4 DEF FlushRaises, Return, PhaseRank
  <2>2. QED BY <1>4, <2>1 DEF FlushRaises, Return, MainAdvances, poolVars, lineVars
<1>5. QED BY <1>1, <1>2, <1>3, <1>4 DEF Main

LEMMA LineForward ==
  ASSUME TypeOK, LatchInv, LineInv, NEW p \in Pipelines, Line(p)
  PROVE  LineAdvances(p)
<1>1. PhaseRank(main') >= PhaseRank(main) /\ UNCHANGED <<run, subscribed>>
  <2>1. main' \in {main, "raised"} /\ run' = run
    BY LineStage
  <2>2. PhaseRank(main) \in 0..5 /\ PhaseRank("raised") = 5
    BY DEF PhaseRank
  <2>3. subscribed' = subscribed
    BY DEF Line, Take, Filter, Forward, RecordFault, Stray, HandlerRaises, MapError, Deliver,
           DeliverFails, Complete, MarkLoad, MarkStore, MarkUnlock, poolVars
  <2>4. QED BY <2>1, <2>2, <2>3
<1>2. \A q \in Pipelines \ {p} : stage'[q] = stage[q] /\ pos'[q] = pos[q] /\ buf'[q] = buf[q]
  BY DEF Line, Take, Filter, Forward, RecordFault, Stray, HandlerRaises, MapError, Deliver,
         DeliverFails, Complete, MarkLoad, MarkStore, MarkUnlock, EndWithError, Escape, Die, TypeOK
<1>3. CASE Filter(p) \/ Forward(p) \/ RecordFault(p)
  <2>1. stage'[p] = stage[p] /\ pos'[p] = pos[p] + 1
    BY <1>3 DEF Filter, Forward, RecordFault, Item, TypeOK
  <2>2. QED BY <1>1, <1>2, <2>1 DEF LineAdvances
<1>4. CASE Deliver(p) /\ stage' = stage
  <2>1. buf[p] # << >>
    BY <1>4, EmptySeq, ConstantsAssumption DEF Deliver, MustDeliver
  <2>2. buf'[p] = << >> /\ pos'[p] = pos[p]
    BY <1>4 DEF Deliver, TypeOK
  <2>3. QED BY <1>1, <1>2, <1>4, <2>1, <2>2 DEF LineAdvances
<1>5. CASE ~Filter(p) /\ ~Forward(p) /\ ~RecordFault(p) /\ ~(Deliver(p) /\ stage' = stage)
  <2>1. pos' = pos
    BY <1>5 DEF Line, Take, Stray, HandlerRaises, MapError, Deliver, DeliverFails, Complete,
                MarkLoad, MarkStore, MarkUnlock, lineVars
  <2>2. StageRank(stage'[p]) > StageRank(stage[p])
    <3>1. CASE Take(p)
      <4>1. stage[p] = "ready" /\ stage'[p] = "active"
        BY <3>1, ConstantsAssumption DEF Take, LineInv, TypeOK, Pipelines
      <4>2. QED BY <4>1 DEF StageRank
    <3>2. CASE Stray(p) \/ HandlerRaises(p) \/ MapError(p) \/ Deliver(p) \/ DeliverFails(p)
               \/ Complete(p)
      <4>1. stage[p] = "active" /\ stage'[p] \in {"ended", "dead"}
        BY <1>5, <3>2 DEF Stray, HandlerRaises, MapError, Deliver, DeliverFails, Complete, Consumes,
                          EndWithError, Escape, Die, TypeOK
      <4>2. QED BY <4>1 DEF StageRank
    <3>3. CASE MarkLoad(p) \/ MarkStore(p) \/ MarkUnlock(p)
      <4>1. <<stage[p], stage'[p]>> \in
              {<<"ended", "loaded">>, <<"loaded", "stored">>, <<"stored", "marked">>}
        BY <3>3 DEF MarkLoad, MarkStore, MarkUnlock, TypeOK
      <4>2. QED BY <4>1 DEF StageRank
    <3>4. QED BY <1>5, <3>1, <3>2, <3>3 DEF Line
  <2>3. QED BY <1>1, <1>2, <2>1, <2>2 DEF LineAdvances
<1>6. QED BY <1>3, <1>4, <1>5

\* No livelock: a step of a run that is not the platform's brings one line forward and no line
\* back, or leaves the lines alone and brings the invoking thread forward.  Positions are at most
\* NumEvents and ranks at most 5: between an invocation and the next there are finitely many steps.
THEOREM RunsOnlyGoForward == Spec => Progress
<1>1. TypeOK /\ LatchInv /\ LineInv /\ [Next]_vars =>
        [Invoke \/ Kill \/ MainAdvances \/ \E p \in Pipelines : LineAdvances(p)]_vars
  BY MainForward, LineForward DEF Next, Finished
<1>2. QED BY <1>1, LineInvariant, PTL DEF Spec, Progress
===============================================================================
