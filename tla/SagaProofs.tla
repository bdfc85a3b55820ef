------------------------------ MODULE SagaProofs ------------------------------
(***************************************************************************)
(* Theorems about Saga for any sets of events, keys, suffixes and rules,   *)
(* any number of deliveries, retries and removals, with and without faults *)
(* and with a consistent or a lagging index.                               *)
(***************************************************************************)
EXTENDS SagaProps, SequenceTheorems, FiniteSetTheorems, TLAPS

(***************************************************************************)
(* Items and records.                                                      *)
(***************************************************************************)

\* The parts of an item lie in the sets they are named for.
LEMMA ItemParts ==
  ASSUME NEW i \in Items
  PROVE  /\ i.pk \in PKs /\ EventOf(i) \in Events /\ KeyOf(i) \in Keys
         /\ SuffixOf(i) \in Suffixes \cup {NoSuffix}
         /\ ~IsEvent(i) => i.pk = <<KeyOf(i), SuffixOf(i)>>
<1>1. CASE i \in {EventItem(e) : e \in Events}
  <2>1. PICK e \in Events : i = EventItem(e)
    BY <1>1
  <2>2. i.pk = <<e>> /\ i.sk = "EVENT"
    BY <2>1 DEF EventItem
  <2>3. QED BY <2>2, SagaAssumption DEF IsEvent, EventOf, KeyOf, SuffixOf, PKs, EventPKs
<1>2. CASE i \in [pk : CorrelPKs, sk : Events]
  <2>1. i.pk \in CorrelPKs /\ i.sk \in Events /\ ~IsEvent(i)
    BY <1>2, SagaAssumption DEF IsEvent
  <2>2. QED BY <2>1 DEF IsEvent, EventOf, KeyOf, SuffixOf, PKs, CorrelPKs
<1>3. QED BY <1>1, <1>2 DEF Items

\* Collect and Correlate store items of the table.
LEMMA StoredAreItems ==
  /\ \A e \in Events : EventItem(e) \in Items
  /\ \A c \in Correlates, e \in Events : CorrelItem(c, e) \in Items
<1>1. \A c \in Correlates, e \in Events : CorrelItem(c, e) \in [pk : CorrelPKs, sk : Events]
  BY SagaAssumption DEF CorrelItem, CorrelPKs
<1>2. QED BY <1>1 DEF Items

\* What they are stored with are images.
LEMMA StoredImages ==
  /\ NoImage \in Image
  /\ \A e \in Events : EventImage(e) \in Image
  /\ \A c \in Correlates, e \in Events : CorrelImage(c, e) \in Image
<1>1. NoImage \in Image
  BY DEF NoImage, Image
<1>2. \A e \in Events : EventImage(e) \in Image
  BY SagaAssumption DEF EventImage, Image
<1>3. ASSUME NEW c \in Correlates, NEW e \in Events
      PROVE  CorrelImage(c, e) \in Image
  <2>1. (IF c \in DOMAIN CorrelateTtl THEN CorrelateTtl[c][e] ELSE Ttl[e]) \in Nat
    BY SagaAssumption
  <2>2. QED BY <2>1 DEF CorrelImage, Image
<1>4. QED BY <1>1, <1>2, <1>3

\* The record of a change that is about to happen.
LEMMA RecordType ==
  ASSUME TypeOK, NEW i \in Items, NEW name \in Names
  PROVE  /\ Record(i, name) \in StreamRecord
         /\ Record(i, name).id = <<i, changes[i] + 1>>
BY DEF TypeOK, Record, StreamRecord, Ids

\* The first record of a partition key.
LEMMA FirstType ==
  ASSUME TypeOK, NEW k \in PKs, k \in open
  PROVE  First(k) \in StreamRecord /\ First(k) = stream[k][1] /\ 1 \in DOMAIN stream[k]
<1>1. stream[k] \in Seq(StreamRecord) /\ stream[k] # << >>
  BY DEF TypeOK
<1>2. Head(stream[k]) = stream[k][1] /\ 1 \in DOMAIN stream[k] /\ stream[k][1] \in StreamRecord
  BY <1>1, LenProperties, HeadTailProperties, EmptySeq, ElementOfSeq
<1>3. QED BY <1>2 DEF First

\* What a change of an item does to the streams: one record more at the end of one.
LEMMA ChangeAppends ==
  ASSUME TypeOK, NEW i \in Items, NEW name \in Names, Change(i, name)
  PROVE  /\ changes' \in [Items -> Nat] /\ stream' \in [PKs -> Seq(StreamRecord)]
         /\ \A j \in Items : changes[j] <= changes'[j]
         /\ changes'[i] = changes[i] + 1
         /\ \A k \in PKs : stream[k] # << >> =>
              stream'[k] # << >> /\ Head(stream'[k]) = Head(stream[k])
         /\ \A k \in PKs : \A n \in DOMAIN stream'[k] :
              \/ n \in DOMAIN stream[k] /\ stream'[k][n] = stream[k][n]
              \/ k = i.pk /\ stream'[k][n] = Record(i, name)
         /\ \A k \in PKs : \A n \in DOMAIN stream[k] :
              n \in DOMAIN stream'[k] /\ stream'[k][n] = stream[k][n]
         /\ \E n \in DOMAIN stream'[i.pk] : stream'[i.pk][n] = Record(i, name)
<1>1. i.pk \in PKs /\ Record(i, name) \in StreamRecord
  BY ItemParts, RecordType
<1>2. changes \in [Items -> Nat] /\ stream \in [PKs -> Seq(StreamRecord)]
  BY DEF TypeOK
<1>3. changes' = [changes EXCEPT ![i] = @ + 1]
      /\ stream' = [stream EXCEPT ![i.pk] = Append(@, Record(i, name))]
  BY DEF Change
<1>4. \A k \in PKs : k # i.pk => stream'[k] = stream[k]
  BY <1>1, <1>2, <1>3
<1>5. stream'[i.pk] = Append(stream[i.pk], Record(i, name)) /\ stream[i.pk] \in Seq(StreamRecord)
  BY <1>1, <1>2, <1>3
<1>6. /\ stream'[i.pk] \in Seq(StreamRecord) /\ Len(stream[i.pk]) \in Nat
      /\ Len(stream'[i.pk]) = Len(stream[i.pk]) + 1
      /\ \A n \in 1..Len(stream[i.pk]) : stream'[i.pk][n] = stream[i.pk][n]
      /\ stream'[i.pk][Len(stream[i.pk]) + 1] = Record(i, name)
      /\ DOMAIN stream'[i.pk] = 1..Len(stream'[i.pk]) /\ DOMAIN stream[i.pk] = 1..Len(stream[i.pk])
  BY <1>1, <1>5, AppendProperties, LenProperties
<1>7. /\ stream'[i.pk] # << >>
      /\ stream[i.pk] # << >> => Head(stream'[i.pk]) = Head(stream[i.pk])
  <2>1. stream'[i.pk] # << >>
    BY <1>6, EmptySeq
  <2>2. ASSUME stream[i.pk] # << >> PROVE Head(stream'[i.pk]) = Head(stream[i.pk])
    <3>1. Len(stream[i.pk]) >= 1
      BY <2>2, <1>5, <1>6, EmptySeq
    <3>2. Head(stream'[i.pk]) = stream'[i.pk][1] /\ Head(stream[i.pk]) = stream[i.pk][1]
      BY <2>1, <2>2, <1>5, <1>6, HeadTailProperties
    <3>3. QED BY <3>1, <3>2, <1>6
  <2>3. QED BY <2>1, <2>2
<1>8. stream' \in [PKs -> Seq(StreamRecord)]
  BY <1>1, <1>2, <1>3, <1>6
<1>9. ASSUME NEW k \in PKs, NEW n \in DOMAIN stream'[k]
      PROVE  \/ n \in DOMAIN stream[k] /\ stream'[k][n] = stream[k][n]
             \/ k = i.pk /\ stream'[k][n] = Record(i, name)
  <2>1. CASE k = i.pk
    <3>1. n \in 1..(Len(stream[k]) + 1) /\ Len(stream[k]) \in Nat
      BY <1>6, <1>9, <2>1
    <3>2. n \in 1..Len(stream[k]) \/ n = Len(stream[k]) + 1
      BY <3>1
    <3>3. QED BY <1>6, <2>1, <3>2
  <2>2. QED BY <1>4, <1>9, <2>1
<1>10. \A j \in Items : changes'[j] \in Nat /\ changes[j] <= changes'[j]
  BY <1>2, <1>3
<1>11. \E n \in DOMAIN stream'[i.pk] : stream'[i.pk][n] = Record(i, name)
  <2>1. Len(stream[i.pk]) + 1 \in DOMAIN stream'[i.pk]
    BY <1>6
  <2>2. QED BY <1>6, <2>1
<1>12. ASSUME NEW k \in PKs, NEW n \in DOMAIN stream[k]
       PROVE  n \in DOMAIN stream'[k] /\ stream'[k][n] = stream[k][n]
  <2>1. CASE k = i.pk
    <3>1. n \in 1..Len(stream[i.pk])
      BY <1>6, <1>12, <2>1
    <3>2. QED BY <1>6, <2>1, <3>1
  <2>2. QED BY <1>4, <1>12, <2>1
<1>13. QED BY <1>2, <1>3, <1>4, <1>7, <1>8, <1>9, <1>10, <1>11, <1>12

\* Storing an item leaves every open key its first record; it appends the record of
\* an insertion only if the item is new.
NewRecord(i, r) ==
  /\ r.item = i /\ r.id = <<i, changes[i] + 1>> /\ changes'[i] = changes[i] + 1
  /\ r.name \in {"INSERT", "MODIFY"}
  /\ r.name = "INSERT" => i \notin table

LEMMA PutSteps ==
  ASSUME TypeOK, NEW i \in Items, NEW x, Put(i, x)
  PROVE  /\ table' = table \cup {i} /\ image' = [image EXCEPT ![i] = x]
         /\ changes' \in [Items -> Nat] /\ stream' \in [PKs -> Seq(StreamRecord)]
         /\ \A j \in Items : changes[j] <= changes'[j]
         /\ i \notin table => changes'[i] = changes[i] + 1
         /\ \A k \in PKs : stream[k] # << >> =>
              stream'[k] # << >> /\ Head(stream'[k]) = Head(stream[k])
         /\ \A k \in PKs : \A n \in DOMAIN stream[k] :
              n \in DOMAIN stream'[k] /\ stream'[k][n] = stream[k][n]
         /\ \A k \in PKs : \A n \in DOMAIN stream'[k] :
              \/ n \in DOMAIN stream[k] /\ stream'[k][n] = stream[k][n]
              \/ k = i.pk /\ NewRecord(i, stream'[k][n])
         /\ UNCHANGED <<index, removals, outlived, now>>
<1>1. /\ UNCHANGED <<index, removals, outlived, now>>
      /\ table' = table \cup {i} /\ image' = [image EXCEPT ![i] = x]
  BY DEF Put
<1>2. CASE i \notin table /\ Change(i, "INSERT")
  <2>1. Record(i, "INSERT").item = i /\ Record(i, "INSERT").id = <<i, changes[i] + 1>>
        /\ Record(i, "INSERT").name = "INSERT"
    BY DEF Record
  <2>2. /\ changes'[i] = changes[i] + 1
        /\ \A k \in PKs : \A n \in DOMAIN stream'[k] :
             \/ n \in DOMAIN stream[k] /\ stream'[k][n] = stream[k][n]
             \/ k = i.pk /\ stream'[k][n] = Record(i, "INSERT")
    BY <1>2, ChangeAppends DEF Names
  <2>3. NewRecord(i, Record(i, "INSERT"))
    BY <1>2, <2>1, <2>2 DEF NewRecord
  <2>4. \A k \in PKs : \A n \in DOMAIN stream'[k] :
             \/ n \in DOMAIN stream[k] /\ stream'[k][n] = stream[k][n]
             \/ k = i.pk /\ NewRecord(i, stream'[k][n])
    BY <2>2, <2>3
  <2>5. QED BY <1>1, <1>2, <2>4, ChangeAppends DEF Names
<1>3. CASE i \in table /\ Change(i, "MODIFY")
  <2>1. Record(i, "MODIFY").item = i /\ Record(i, "MODIFY").id = <<i, changes[i] + 1>>
        /\ Record(i, "MODIFY").name = "MODIFY"
    BY DEF Record
  <2>2. /\ changes'[i] = changes[i] + 1
        /\ \A k \in PKs : \A n \in DOMAIN stream'[k] :
             \/ n \in DOMAIN stream[k] /\ stream'[k][n] = stream[k][n]
             \/ k = i.pk /\ stream'[k][n] = Record(i, "MODIFY")
    BY <1>3, ChangeAppends DEF Names
  <2>3. NewRecord(i, Record(i, "MODIFY"))
    BY <1>3, <2>1, <2>2 DEF NewRecord
  <2>4. \A k \in PKs : \A n \in DOMAIN stream'[k] :
             \/ n \in DOMAIN stream[k] /\ stream'[k][n] = stream[k][n]
             \/ k = i.pk /\ NewRecord(i, stream'[k][n])
    BY <2>2, <2>3
  <2>5. QED BY <1>1, <1>3, <2>4, ChangeAppends DEF Names
<1>4. CASE i \in table /\ UNCHANGED <<changes, stream>>
  BY <1>1, <1>4 DEF TypeOK
<1>5. QED BY <1>2, <1>3, <1>4 DEF Put

(***************************************************************************)
(* Type correctness.                                                       *)
(***************************************************************************)

\* The initial state has its type.
LEMMA TypeInit == Init => TypeOK
<1>1. << >> \in Seq(StreamRecord)
  BY EmptySeq
<1>2. QED BY <1>1, StoredImages DEF Init, TypeOK, NoAnswers

\* The steps of the table and of the collecting function keep the types.
LEMMA TypeTable ==
  ASSUME TypeOK,
         \/ Tick
         \/ \E e \in Events : Collect(e) \/ CollectFaults(e)
         \/ \E i \in Items : Remove(i) \/ CatchUp(i)
  PROVE  TypeOK'
<1>1. CASE Tick
  BY <1>1 DEF Tick, TypeOK, workVars, outVars
<1>2. ASSUME NEW e \in Events, Collect(e)
      PROVE  TypeOK'
  <2>1. EventItem(e) \in Items /\ EventImage(e) \in Image
    BY StoredAreItems, StoredImages
  <2>2. /\ table' = table \cup {EventItem(e)}
        /\ image' = [image EXCEPT ![EventItem(e)] = EventImage(e)]
        /\ changes' \in [Items -> Nat] /\ stream' \in [PKs -> Seq(StreamRecord)]
        /\ \A k \in PKs : stream[k] # << >> => stream'[k] # << >>
        /\ UNCHANGED <<index, removals, outlived, now>>
    BY <1>2, <2>1, PutSteps DEF Collect
  <2>3. deliveries' \in [Events -> Nat] /\ UNCHANGED <<workVars, outVars>>
    BY <1>2 DEF Collect, TypeOK
  <2>4. QED BY <2>1, <2>2, <2>3 DEF TypeOK, workVars, outVars
<1>3. ASSUME NEW e \in Events, CollectFaults(e)
      PROVE  TypeOK'
  BY <1>3 DEF CollectFaults, TypeOK, tableVars, workVars, outVars
<1>4. ASSUME NEW i \in Items, Remove(i)
      PROVE  TypeOK'
  <2>1. /\ changes' \in [Items -> Nat] /\ stream' \in [PKs -> Seq(StreamRecord)]
        /\ \A k \in PKs : stream[k] # << >> => stream'[k] # << >>
    BY <1>4, ChangeAppends DEF Remove, Names
  <2>2. <<i, changes[i] + 1>> \in Ids
    BY DEF TypeOK, Ids
  <2>3. outlived' \subseteq Ids
    BY <1>4, <2>2 DEF Remove, TypeOK
  <2>4. table' \subseteq Items /\ removals' \in [Items -> Nat] /\ image' \in [Items -> Image]
    BY <1>4, StoredImages DEF Remove, TypeOK
  <2>5. UNCHANGED <<index, now, workVars, deliveries, outVars>>
    BY <1>4 DEF Remove
  <2>6. QED BY <2>1, <2>3, <2>4, <2>5 DEF TypeOK, workVars, outVars
<1>5. ASSUME NEW i \in Items, CatchUp(i)
      PROVE  TypeOK'
  BY <1>5 DEF CatchUp, TypeOK, workVars, outVars
<1>6. QED BY <1>1, <1>2, <1>3, <1>4, <1>5

\* What the control function emits has the type of emitted events.
LEMMA EmittedType ==
  ASSUME TypeOK, NEW k \in PKs, k \in open
  PROVE  /\ First(k).item \in Items /\ First(k).id \in Ids
         /\ \A v \in Evaluates : PartitionKey(v, First(k).item) \in Keys \cup CorrelPKs
         /\ OwnKey[EventOf(First(k).item)] \in Keys
<1>1. First(k) \in StreamRecord
  BY FirstType
<1>2. First(k).item \in Items /\ First(k).id \in Ids
  BY <1>1 DEF StreamRecord
<1>3. ASSUME NEW v \in Evaluates, ~IsEvent(First(k).item)
      PROVE  First(k).item.pk \in CorrelPKs
  BY <1>2, <1>3 DEF Items, IsEvent, EventItem
<1>4. QED BY <1>2, <1>3, ItemParts, SagaAssumption DEF PartitionKey

\* Correlate stores an item of the table.
LEMMA CorrelateStores ==
  ASSUME TypeOK, NEW k \in PKs, NEW c \in Rules, Correlate(k, c)
  PROVE  k \in open /\ c \in Correlates /\ \E i \in Items, x \in Image : Put(i, x)
<1>1. k \in open /\ c \in Correlates
  BY DEF Correlate, Working
<1>2. PICK e : e = EventOf(First(k).item)
  OBVIOUS
<1>3. e \in Events /\ Put(CorrelItem(c, e), CorrelImage(c, e))
  BY <1>1, <1>2, EmittedType, ItemParts DEF Correlate
<1>4. CorrelItem(c, e) \in Items /\ CorrelImage(c, e) \in Image
  BY <1>1, <1>3, StoredAreItems, StoredImages
<1>5. QED BY <1>1, <1>3, <1>4

\* The steps of the control function keep the types.
LEMMA TypeControl ==
  ASSUME TypeOK, NEW k \in PKs, Control(k) \/ Lose(k)
  PROVE  TypeOK'
<1> USE SagaAssumption
<1>1. CASE Receive(k)
  <2>1. Matching(First(k)) \subseteq Rules
    BY DEF Matching, Rules
  <2>2. QED BY <1>1, <2>1 DEF Receive, TypeOK, tableVars, outVars
<1>2. ASSUME Close(k), stream' \in [PKs -> Seq(StreamRecord)], retries' \in Nat,
             \A j \in PKs : j # k => stream'[j] = stream[j],
             UNCHANGED <<table, image, index, changes, removals, outlived, now, deliveries, outVars>>
      PROVE  TypeOK'
  <2>1. /\ open' = open \ {k}
        /\ todo' \in [PKs -> SUBSET Rules] /\ asked' \in [PKs -> SUBSET Evaluates]
        /\ answer' \in [PKs -> [Evaluates -> SUBSET Events]] /\ failing' \in [PKs -> SUBSET Rules]
    BY <1>2 DEF Close, TypeOK, NoAnswers
  <2>2. \A j \in PKs : j \notin open' => todo'[j] = {} /\ asked'[j] = {} /\ failing'[j] = {}
    BY <1>2, <2>1 DEF Close, TypeOK
  <2>3. \A j \in PKs : j \in open' => stream'[j] # << >>
    BY <1>2, <2>1 DEF TypeOK
  <2>4. QED BY <1>2, <2>1, <2>2, <2>3 DEF TypeOK, outVars
<1>3. CASE Ack(k)
  <2>1. stream[k] \in Seq(StreamRecord) /\ stream[k] # << >>
    BY <1>3 DEF Ack, TypeOK
  <2>2. Tail(stream[k]) \in Seq(StreamRecord)
    BY <2>1, HeadTailProperties
  <2>3. /\ stream' \in [PKs -> Seq(StreamRecord)]
        /\ \A j \in PKs : j # k => stream'[j] = stream[j]
    BY <1>3, <2>2 DEF Ack, TypeOK
  <2>4. retries' \in Nat /\ Close(k)
        /\ UNCHANGED <<table, image, index, changes, removals, outlived, now, deliveries, outVars>>
    BY <1>3 DEF Ack, TypeOK
  <2>5. QED BY <1>2, <2>3, <2>4
<1>4. CASE Lose(k)
  <2>1. retries' \in Nat /\ stream' \in [PKs -> Seq(StreamRecord)]
    BY <1>4 DEF Lose, TypeOK, tableVars
  <2>2. QED BY <1>2, <1>4, <2>1 DEF Lose, tableVars
<1>5. ASSUME NEW c \in Rules, Correlate(k, c)
      PROVE  TypeOK'
  <2>1. PICK i \in Items, x \in Image : Put(i, x)
    BY <1>5, CorrelateStores
  <2>2. /\ table' = table \cup {i} /\ image' = [image EXCEPT ![i] = x]
        /\ changes' \in [Items -> Nat] /\ stream' \in [PKs -> Seq(StreamRecord)]
        /\ \A j \in PKs : stream[j] # << >> => stream'[j] # << >>
        /\ UNCHANGED <<index, removals, outlived, now>>
    BY <2>1, PutSteps
  <2>3. todo' \in [PKs -> SUBSET Rules] /\ \A j \in PKs : todo'[j] \subseteq todo[j]
    BY <1>5 DEF Correlate, LineDone, TypeOK
  <2>4. UNCHANGED <<open, asked, answer, failing, retries, deliveries, outVars>>
    BY <1>5 DEF Correlate
  <2>5. QED BY <2>2, <2>3, <2>4 DEF TypeOK, outVars
<1>6. ASSUME NEW v \in Rules, Query(k, v)
      PROVE  TypeOK'
  <2>1. First(k).item \in Items /\ v \in Evaluates /\ k \in open
    BY <1>6, EmittedType DEF Query, Working
  <2>2. Answer(First(k).item) \subseteq Events
    <3>1. index \subseteq Items /\ table \subseteq Items
      BY DEF TypeOK
    <3>2. \A j \in Items : EventOf(j) \in Events
      BY ItemParts
    <3>3. QED BY <3>1, <3>2 DEF Answer
  <2>3. answer' \in [PKs -> [Evaluates -> SUBSET Events]]
    BY <1>6, <2>1, <2>2 DEF Query, TypeOK
  <2>4. asked' \in [PKs -> SUBSET Evaluates] /\ \A j \in PKs : j # k => asked'[j] = asked[j]
    BY <1>6, <2>1 DEF Query, TypeOK
  <2>5. UNCHANGED <<tableVars, open, todo, failing, retries, deliveries, outVars>>
    BY <1>6 DEF Query
  <2>6. QED BY <2>1, <2>3, <2>4, <2>5 DEF TypeOK, tableVars, outVars
<1>7. ASSUME NEW l \in Rules, LineDone(k, l), k \in open,
             emitted' \subseteq [rule : Rules, id : Ids, key : Keys \cup CorrelPKs],
             faulted' \subseteq [rule : Rules, id : Ids],
             failing' \in [PKs -> SUBSET Rules], \A j \in PKs : j # k => failing'[j] = failing[j],
             UNCHANGED <<tableVars, open, asked, answer, retries, deliveries>>
      PROVE  TypeOK'
  <2>1. todo' \in [PKs -> SUBSET Rules] /\ \A j \in PKs : todo'[j] \subseteq todo[j]
    BY <1>7 DEF LineDone, TypeOK
  <2>2. QED BY <1>7, <2>1 DEF TypeOK, tableVars
<1>8. ASSUME NEW l \in Rules, Evaluate(k, l)
      PROVE  TypeOK'
  <2>1. k \in open /\ l \in Evaluates
    BY <1>8 DEF Evaluate, Working
  <2>2. [rule |-> l, id |-> First(k).id, key |-> PartitionKey(l, First(k).item)]
          \in [rule : Rules, id : Ids, key : Keys \cup CorrelPKs]
    BY <2>1, EmittedType DEF Rules
  <2>3. emitted' \subseteq [rule : Rules, id : Ids, key : Keys \cup CorrelPKs]
    BY <1>8, <2>2 DEF Evaluate, TypeOK
  <2>4. QED BY <1>7, <1>8, <2>1, <2>3 DEF Evaluate, TypeOK
<1>9. ASSUME NEW x \in Rules, Expire(k, x)
      PROVE  TypeOK'
  <2>1. k \in open
    BY <1>9 DEF Expire, Working
  <2>2. [rule |-> x, id |-> First(k).id, key |-> OwnKey[EventOf(First(k).item)]]
          \in [rule : Rules, id : Ids, key : Keys \cup CorrelPKs]
    BY <2>1, EmittedType
  <2>3. emitted' \subseteq [rule : Rules, id : Ids, key : Keys \cup CorrelPKs]
    BY <1>9, <2>2 DEF Expire, TypeOK
  <2>4. QED BY <1>7, <1>9, <2>1, <2>3 DEF Expire, TypeOK
<1>10. ASSUME NEW l \in Rules, Fault(k, l)
       PROVE  TypeOK'
  <2>1. k \in open
    BY <1>10 DEF Fault, Working
  <2>2. failing' \in [PKs -> SUBSET Rules] /\ \A j \in PKs : j # k => failing'[j] = failing[j]
    BY <1>10 DEF Fault, TypeOK
  <2>3. QED BY <1>7, <1>10, <2>1, <2>2 DEF Fault, TypeOK, outVars
<1>11. CASE Flush(k)
  <2>1. k \in open /\ failing' \in [PKs -> SUBSET Rules]
        /\ \A j \in PKs : j # k => failing'[j] = failing[j]
    BY <1>11 DEF Flush, TypeOK
  <2>2. {[rule |-> l, id |-> First(k).id] : l \in failing[k]} \subseteq [rule : Rules, id : Ids]
    BY <2>1, EmittedType DEF TypeOK
  <2>3. faulted' \subseteq [rule : Rules, id : Ids]
    BY <1>11, <2>2 DEF Flush, TypeOK
  <2>4. UNCHANGED <<tableVars, open, todo, asked, answer, retries, deliveries, emitted>>
    BY <1>11 DEF Flush
  <2>5. QED BY <2>1, <2>3, <2>4 DEF TypeOK, tableVars
<1>12. QED BY <1>1, <1>3, <1>4, <1>5, <1>6, <1>8, <1>9, <1>10, <1>11 DEF Control

\* Every behaviour of the saga is of its type.
THEOREM SagaTypes == Spec => []TypeOK
<1>1. TypeOK /\ [Next]_vars => TypeOK'
  <2>1. TypeOK /\ UNCHANGED vars => TypeOK'
    BY DEF TypeOK, vars, tableVars, workVars, outVars
  <2>2. QED BY <2>1, TypeTable, TypeControl DEF Next, Sweep, Delete, Finished
<1>2. QED BY <1>1, TypeInit, PTL DEF Spec

(***************************************************************************)
(* A higher-order event is emitted only when its correlation is complete.  *)
(* EmittedOnlyWhenComplete speaks of the past, so what a line has read has *)
(* to be related to what was ever stored: the table and the index hold     *)
(* only written items, a query's answer only events of written items of    *)
(* the record's own correlation, and a line works only on a record that    *)
(* its rule's filters let pass.                                            *)
(***************************************************************************)

\* The items whose events a query about item i is after.
Related(i) ==
  IF IsEvent(i) THEN {j \in Items : IsEvent(j) /\ KeyOf(j) = KeyOf(i)}
                ELSE {j \in Items : j.pk = i.pk}

StoredInv == table \cup index \subseteq Written

\* A record is of its partition key and names its item; it is among the expirations
\* exactly if it is the removal of an item that had outlived its time to live.
RecordInv(k, r) ==
  /\ r.item.pk = k /\ r.id[1] = r.item /\ r.id[2] <= changes[r.item]
  /\ r.id \in outlived <=> ForExpiration(r)

StreamInv ==
  /\ \A k \in PKs : \A n \in DOMAIN stream[k] : RecordInv(k, stream[k][n])
  /\ \A id \in outlived : id[2] <= changes[id[1]]

\* What the lines of one open key have before them.
KeyInv(k) ==
  /\ todo[k] \subseteq Matching(First(k))
  /\ \A v \in asked[k] :
       answer[k][v] \subseteq {EventOf(j) : j \in Related(First(k).item) \cap Written}

WorkInv == \A k \in PKs : k \in open => KeyInv(k)

\* Initially nothing is stored, streamed or emitted.
LEMMA StoredInit == Init => StoredInv /\ StreamInv /\ WorkInv /\ EmittedOnlyWhenComplete
<1>1. SUFFICES ASSUME Init PROVE StoredInv /\ StreamInv /\ WorkInv /\ EmittedOnlyWhenComplete
  OBVIOUS
<1>2. StoredInv /\ WorkInv /\ EmittedOnlyWhenComplete
  BY <1>1 DEF Init, StoredInv, WorkInv, EmittedOnlyWhenComplete
<1>3. \A k \in PKs : DOMAIN stream[k] = {}
  BY <1>1, EmptySeq DEF Init
<1>4. QED BY <1>1, <1>2, <1>3 DEF Init, StreamInv

\* What has been written stays written, and only written items are stored.
LEMMA StoredStep ==
  ASSUME TypeOK, StoredInv, [Next]_vars
  PROVE  StoredInv' /\ Written \subseteq Written'
<1>1. ASSUME NEW i \in Items, NEW x, Put(i, x)
      PROVE  StoredInv' /\ Written \subseteq Written'
  <2>1. /\ table' = table \cup {i} /\ index' = index /\ changes' \in [Items -> Nat]
        /\ \A j \in Items : changes[j] <= changes'[j]
        /\ i \notin table => changes'[i] = changes[i] + 1
    BY <1>1, PutSteps
  <2>2. changes \in [Items -> Nat]
    BY DEF TypeOK
  <2>3. Written \subseteq Written'
    BY <2>1, <2>2 DEF Written
  <2>4. i \in Written'
    BY <2>1, <2>2, <2>3 DEF Written, StoredInv
  <2>5. QED BY <2>1, <2>3, <2>4 DEF StoredInv
<1>2. ASSUME NEW i \in Items, Remove(i)
      PROVE  StoredInv' /\ Written \subseteq Written'
  <2>1. /\ table' \subseteq table /\ index' = index /\ changes' \in [Items -> Nat]
        /\ \A j \in Items : changes[j] <= changes'[j]
    BY <1>2, ChangeAppends DEF Remove, Names
  <2>2. changes \in [Items -> Nat]
    BY DEF TypeOK
  <2>3. QED BY <2>1, <2>2 DEF Written, StoredInv
<1>3. ASSUME NEW i \in Items, CatchUp(i)
      PROVE  StoredInv' /\ Written \subseteq Written'
  <2>1. UNCHANGED <<table, changes>> /\ index' \subseteq table \cup index
    BY <1>3 DEF CatchUp
  <2>2. QED BY <2>1 DEF Written, StoredInv
<1>4. ASSUME UNCHANGED <<table, index, changes>>
      PROVE  StoredInv' /\ Written \subseteq Written'
  BY <1>4 DEF Written, StoredInv
<1>5. ASSUME NEW e \in Events, Collect(e)
      PROVE  StoredInv' /\ Written \subseteq Written'
  BY <1>1, <1>5, StoredAreItems DEF Collect
<1>6. ASSUME NEW k \in PKs, NEW c \in Rules, Correlate(k, c)
      PROVE  StoredInv' /\ Written \subseteq Written'
  BY <1>1, <1>6, CorrelateStores
<1>7. ASSUME NEW k \in PKs, Control(k) \/ Lose(k), ~\E c \in Rules : Correlate(k, c)
      PROVE  UNCHANGED <<table, index, changes>>
  BY <1>7 DEF Control, Receive, Flush, Ack, Query, Evaluate, Expire, Fault, Lose, tableVars
<1>8. QED
  BY <1>2, <1>3, <1>4, <1>5, <1>6, <1>7
  DEF Next, Tick, CollectFaults, Sweep, Delete, Control, Finished, vars, tableVars

\* The work on a key is undisturbed by steps that leave its first record alone.
LEMMA KeyKept ==
  ASSUME NEW k \in PKs, KeyInv(k), Written \subseteq Written', First(k)' = First(k),
         todo'[k] \subseteq todo[k], asked'[k] = asked[k], answer'[k] = answer[k]
  PROVE  KeyInv(k)'
<1>1. Matching(First(k)') = Matching(First(k))
  BY DEF Matching
<1>2. todo'[k] \subseteq Matching(First(k)')
  BY <1>1 DEF KeyInv
<1>3. ASSUME NEW v \in asked'[k]
      PROVE  answer'[k][v] \subseteq {EventOf(j) : j \in Related(First(k)'.item) \cap Written'}
  BY <1>3 DEF KeyInv
<1>4. QED BY <1>2, <1>3 DEF KeyInv, Matching, ForCollectedEvents, ForEvents, ForExpiration

\* A query about an item answers with events of written items of its correlation.
LEMMA AnswerIsRelated ==
  ASSUME TypeOK, StoredInv, NEW i \in Items
  PROVE  Answer(i) \subseteq {EventOf(j) : j \in Related(i) \cap Written}
<1>1. \A j \in table \cup index : j \in Items /\ j \in Written
  BY DEF TypeOK, StoredInv
<1>2. CASE IsEvent(i)
  BY <1>1, <1>2 DEF Answer, Related
<1>3. CASE ~IsEvent(i)
  BY <1>1, <1>3 DEF Answer, Related
<1>4. QED BY <1>2, <1>3

\* Lines work on records their rules' filters let pass, with answers about these.
LEMMA WorkStep ==
  ASSUME TypeOK, StoredInv, WorkInv, [Next]_vars
  PROVE  WorkInv'
<1> DEFINE Same(k) == /\ First(k)' = First(k) /\ todo'[k] \subseteq todo[k]
                      /\ asked'[k] = asked[k] /\ answer'[k] = answer[k]
<1>1. Written \subseteq Written'
  BY StoredStep
<1>2. ASSUME NEW k \in PKs, k \in open, Same(k)
      PROVE  KeyInv(k)'
  BY <1>1, <1>2, KeyKept DEF WorkInv
<1>3. \A k \in PKs : k \in open => stream[k] # << >>
  BY DEF TypeOK
<1>4. ASSUME UNCHANGED <<stream, workVars>>
      PROVE  WorkInv'
  BY <1>2, <1>4 DEF WorkInv, workVars, First
<1>5. ASSUME UNCHANGED workVars,
             \A k \in PKs : stream[k] # << >> => Head(stream'[k]) = Head(stream[k])
      PROVE  WorkInv'
  BY <1>2, <1>3, <1>5 DEF WorkInv, workVars, First
<1>6. ASSUME NEW e \in Events, Collect(e)
      PROVE  WorkInv'
  BY <1>5, <1>6, StoredAreItems, PutSteps DEF Collect
<1>7. ASSUME NEW i \in Items, Remove(i)
      PROVE  WorkInv'
  BY <1>5, <1>7, ChangeAppends DEF Remove, Names
<1>8. ASSUME NEW k \in PKs, Receive(k)
      PROVE  WorkInv'
  <2>1. k \notin open /\ asked[k] = {}
    BY <1>8 DEF Receive, TypeOK
  <2>2. KeyInv(k)'
    <3>1. First(k)' = First(k) /\ Matching(First(k)') = Matching(First(k)) /\ asked'[k] = {}
      BY <1>8, <2>1 DEF Receive, tableVars, First, Matching
    <3>2. todo'[k] = Matching(First(k))
      BY <1>8 DEF Receive, TypeOK
    <3>3. QED BY <3>1, <3>2 DEF KeyInv, Matching, ForCollectedEvents, ForEvents, ForExpiration
  <2>3. \A j \in PKs : j # k /\ j \in open' => j \in open /\ Same(j)
    BY <1>8 DEF Receive, tableVars, First, TypeOK
  <2>4. QED BY <1>2, <2>2, <2>3 DEF WorkInv
<1>9. ASSUME NEW k \in PKs, Close(k), \A j \in PKs : j # k => stream'[j] = stream[j]
      PROVE  WorkInv'
  <2>1. \A j \in PKs : j \in open' => j # k /\ j \in open /\ Same(j)
    BY <1>9 DEF Close, First, TypeOK
  <2>2. QED BY <1>2, <2>1 DEF WorkInv
<1>10. ASSUME NEW k \in PKs, Ack(k)
       PROVE  WorkInv'
  <2>1. \A j \in PKs : j # k => stream'[j] = stream[j]
    BY <1>10 DEF Ack, TypeOK
  <2>2. QED BY <1>9, <1>10, <2>1 DEF Ack
<1>11. ASSUME NEW k \in PKs, Lose(k)
       PROVE  WorkInv'
  BY <1>9, <1>11 DEF Lose, tableVars
<1>12. ASSUME NEW k \in PKs, NEW c \in Rules, Correlate(k, c)
       PROVE  WorkInv'
  <2>1. \A j \in PKs : stream[j] # << >> => Head(stream'[j]) = Head(stream[j])
    BY <1>12, CorrelateStores, PutSteps
  <2>2. \A j \in PKs : j \in open => Same(j)
    BY <1>3, <1>12, <2>1 DEF Correlate, LineDone, First, TypeOK
  <2>3. QED BY <1>2, <1>12, <2>2 DEF WorkInv, Correlate
<1>13. ASSUME NEW k \in PKs, NEW v \in Rules, Query(k, v)
       PROVE  WorkInv'
  <2>1. k \in open /\ v \in Evaluates /\ KeyInv(k)
    BY <1>13, SagaAssumption DEF Query, Working, WorkInv
  <2>2. First(k).item \in Items /\ UNCHANGED <<open, stream, todo>>
    BY <1>13, <2>1, EmittedType DEF Query, tableVars
  <2>3. Answer(First(k).item) \subseteq {EventOf(j) : j \in Related(First(k).item) \cap Written'}
    BY <1>1, <2>2, AnswerIsRelated
  <2>4. KeyInv(k)'
    <3>1. First(k)' = First(k) /\ Matching(First(k)') = Matching(First(k))
      BY <2>2 DEF First, Matching
    <3>2. todo'[k] \subseteq Matching(First(k)')
      BY <2>1, <2>2, <3>1 DEF KeyInv
    <3>3. /\ asked'[k] = asked[k] \cup {v} /\ answer'[k][v] = Answer(First(k).item)
          /\ \A w \in Evaluates : w # v => answer'[k][w] = answer[k][w]
          /\ asked[k] \subseteq Evaluates
      BY <1>13, <2>1 DEF Query, TypeOK
    <3>4. ASSUME NEW w \in asked'[k]
          PROVE  answer'[k][w] \subseteq {EventOf(j) : j \in Related(First(k)'.item) \cap Written'}
      <4>1. CASE w = v
        BY <2>3, <3>1, <3>3, <4>1
      <4>2. CASE w # v
        BY <1>1, <2>1, <3>1, <3>3, <4>2 DEF KeyInv
      <4>3. QED BY <4>1, <4>2
    <3>5. QED BY <3>2, <3>4 DEF KeyInv, Matching, ForCollectedEvents, ForEvents, ForExpiration
  <2>5. \A j \in PKs : j # k => Same(j)
    BY <1>13, <2>2 DEF Query, First, TypeOK
  <2>6. QED BY <1>2, <2>2, <2>4, <2>5 DEF WorkInv
<1>14. ASSUME NEW k \in PKs, NEW l \in Rules, Evaluate(k, l) \/ Expire(k, l) \/ Fault(k, l)
       PROVE  WorkInv'
  <2>1. LineDone(k, l) /\ UNCHANGED <<stream, open, asked, answer>>
    BY <1>14 DEF Evaluate, Expire, Fault, tableVars
  <2>2. \A j \in PKs : Same(j)
    BY <2>1 DEF LineDone, First, TypeOK
  <2>3. QED BY <1>2, <2>1, <2>2 DEF WorkInv
<1>15. ASSUME NEW k \in PKs, Flush(k)
       PROVE  WorkInv'
  <2>1. \A j \in PKs : Same(j)
    BY <1>15 DEF Flush, tableVars, First
  <2>2. QED BY <1>2, <1>15, <2>1 DEF Flush, WorkInv
<1>16. ASSUME Tick \/ Finished \/ UNCHANGED vars
       PROVE  WorkInv'
  BY <1>4, <1>16 DEF Tick, Finished, vars, tableVars
<1>17. ASSUME NEW k \in PKs, Control(k)
       PROVE  WorkInv'
  BY <1>8, <1>10, <1>12, <1>13, <1>14, <1>17, <1>15 DEF Control
<1>18. ASSUME NEW e \in Events, CollectFaults(e)
       PROVE  WorkInv'
  BY <1>4, <1>18 DEF CollectFaults, tableVars
<1>19. ASSUME NEW i \in Items, CatchUp(i)
       PROVE  WorkInv'
  BY <1>4, <1>19 DEF CatchUp
<1>20. QED BY <1>6, <1>7, <1>11, <1>16, <1>17, <1>18, <1>19 DEF Next, Sweep, Delete

\* A record keeps its invariant when items change and other removals are recorded.
LEMMA RecordKept ==
  ASSUME TypeOK, NEW k \in PKs, NEW r \in StreamRecord, RecordInv(k, r),
         changes' \in [Items -> Nat], \A j \in Items : changes[j] <= changes'[j],
         r.id \in outlived' <=> r.id \in outlived
  PROVE  RecordInv(k, r)'
<1>1. r.item \in Items /\ r.id[2] \in Nat /\ changes[r.item] \in Nat /\ changes'[r.item] \in Nat
  BY DEF StreamRecord, Ids, TypeOK
<1>2. r.id[2] <= changes'[r.item]
  BY <1>1 DEF RecordInv
<1>3. QED BY <1>2 DEF RecordInv, ForExpiration

\* Every element of a stream is a record of it.
LEMMA StreamElements ==
  ASSUME TypeOK, NEW k \in PKs, NEW n \in DOMAIN stream[k]
  PROVE  stream[k][n] \in StreamRecord
<1>1. stream[k] \in Seq(StreamRecord)
  BY DEF TypeOK
<1>2. QED BY <1>1, ElementOfSeq, LenProperties

\* What is left of a stream after its first record.
LEMMA TailElements ==
  ASSUME TypeOK, NEW k \in PKs, stream[k] # << >>
  PROVE  /\ \A n \in DOMAIN Tail(stream[k]) :
              n + 1 \in DOMAIN stream[k] /\ Tail(stream[k])[n] = stream[k][n + 1]
         /\ \A n \in DOMAIN stream[k] : n # 1 =>
              n - 1 \in DOMAIN Tail(stream[k]) /\ Tail(stream[k])[n - 1] = stream[k][n]
<1>1. stream[k] \in Seq(StreamRecord)
  BY DEF TypeOK
<1>2. /\ Tail(stream[k]) \in Seq(StreamRecord) /\ Len(Tail(stream[k])) = Len(stream[k]) - 1
      /\ \A n \in 1..Len(Tail(stream[k])) : Tail(stream[k])[n] = stream[k][n + 1]
  BY <1>1, HeadTailProperties
<1>3. /\ Len(stream[k]) \in Nat /\ DOMAIN stream[k] = 1..Len(stream[k])
      /\ DOMAIN Tail(stream[k]) = 1..Len(Tail(stream[k]))
  BY <1>1, <1>2, LenProperties
<1>4. ASSUME NEW n \in DOMAIN Tail(stream[k])
      PROVE  n + 1 \in DOMAIN stream[k] /\ Tail(stream[k])[n] = stream[k][n + 1]
  BY <1>2, <1>3
<1>5. ASSUME NEW n \in DOMAIN stream[k], n # 1
      PROVE  n - 1 \in DOMAIN Tail(stream[k]) /\ Tail(stream[k])[n - 1] = stream[k][n]
  <2>1. n \in Nat /\ n - 1 \in 1..Len(Tail(stream[k]))
    BY <1>2, <1>3, <1>5
  <2>2. Tail(stream[k])[n - 1] = stream[k][(n - 1) + 1] /\ (n - 1) + 1 = n
    BY <1>2, <2>1
  <2>3. QED BY <1>3, <2>1, <2>2
<1>6. QED BY <1>4, <1>5

\* The records of the streams stay what they are.
LEMMA StreamStep ==
  ASSUME TypeOK, TypeOK', StreamInv, [Next]_vars
  PROVE  StreamInv'
<1>1. ASSUME NEW i \in Items, NEW x, Put(i, x)
      PROVE  StreamInv'
  <2>1. /\ changes' \in [Items -> Nat] /\ \A j \in Items : changes[j] <= changes'[j]
        /\ outlived' = outlived
    BY <1>1, PutSteps
  <2>2. \A id \in outlived' : id[2] <= changes'[id[1]]
    <3>1. ASSUME NEW id \in outlived PROVE id[2] <= changes'[id[1]]
      <4>1. id \in Ids /\ id[2] <= changes[id[1]]
        BY DEF TypeOK, StreamInv
      <4>2. id[2] \in Nat /\ id[1] \in Items /\ changes[id[1]] \in Nat /\ changes'[id[1]] \in Nat
        BY <2>1, <4>1 DEF Ids, TypeOK
      <4>3. QED BY <2>1, <4>1, <4>2
    <3>2. QED BY <2>1, <3>1
  <2>3. ASSUME NEW k \in PKs, NEW n \in DOMAIN stream'[k], NEW r, r = stream'[k][n]
        PROVE  RecordInv(k, r)'
    <3>1. CASE n \in DOMAIN stream[k] /\ r = stream[k][n]
      <4>1. r \in StreamRecord /\ RecordInv(k, r)
        BY <3>1, StreamElements DEF StreamInv
      <4>2. QED BY <2>1, <4>1, RecordKept
    <3>2. CASE k = i.pk /\ NewRecord(i, r)
      <4>1. r.item = i /\ r.id = <<i, changes[i] + 1>> /\ changes'[i] = changes[i] + 1
            /\ r.name # "REMOVE" /\ changes[i] \in Nat
        BY <3>2 DEF NewRecord, TypeOK
      <4>2. r.id \notin outlived
        BY <4>1 DEF StreamInv
      <4>3. r.id[1] = i /\ r.id[2] <= changes'[i]
        BY <4>1
      <4>4. QED BY <2>1, <3>2, <4>1, <4>2, <4>3 DEF RecordInv, ForExpiration
    <3>3. QED BY <1>1, <2>3, <3>1, <3>2, PutSteps
  <2>4. QED BY <2>2, <2>3 DEF StreamInv, RecordInv
<1>2. ASSUME NEW i \in Items, Remove(i)
      PROVE  StreamInv'
  <2> DEFINE new == <<i, changes[i] + 1>>
  <2>1. /\ changes' \in [Items -> Nat] /\ \A j \in Items : changes[j] <= changes'[j]
        /\ changes'[i] = changes[i] + 1 /\ changes[i] \in Nat
        /\ outlived' = IF image[i].expire /\ PastTtl(i) THEN outlived \cup {new} ELSE outlived
    BY <1>2, ChangeAppends DEF Remove, Names, TypeOK
  <2>2. \A id \in outlived' : id[2] <= changes'[id[1]]
    <3>1. ASSUME NEW id \in outlived PROVE id[2] <= changes'[id[1]]
      <4>1. id \in Ids /\ id[2] <= changes[id[1]]
        BY DEF TypeOK, StreamInv
      <4>2. id[2] \in Nat /\ id[1] \in Items /\ changes[id[1]] \in Nat /\ changes'[id[1]] \in Nat
        BY <2>1, <4>1 DEF Ids, TypeOK
      <4>3. QED BY <2>1, <4>1, <4>2
    <3>2. new[2] <= changes'[new[1]]
      BY <2>1
    <3>3. QED BY <2>1, <3>1, <3>2
  <2>3. new \notin outlived
    BY <2>1 DEF StreamInv
  <2>4. ASSUME NEW k \in PKs, NEW n \in DOMAIN stream'[k], NEW r, r = stream'[k][n]
        PROVE  RecordInv(k, r)'
    <3>1. CASE n \in DOMAIN stream[k] /\ r = stream[k][n]
      <4>1. r \in StreamRecord /\ RecordInv(k, r)
        BY <3>1, StreamElements DEF StreamInv
      <4>2. r.id # new
        BY <2>1, <4>1 DEF RecordInv
      <4>3. r.id \in outlived' <=> r.id \in outlived
        BY <2>1, <4>2
      <4>4. QED BY <2>1, <4>1, <4>3, RecordKept
    <3>2. CASE k = i.pk /\ r = Record(i, "REMOVE")
      <4>1. r.item = i /\ r.id = new /\ r.name = "REMOVE" /\ r.at = now
            /\ r.old = image[i]
        BY <3>2 DEF Record
      <4>2. r.id \in outlived' <=> image[i].expire /\ PastTtl(i)
        BY <2>1, <2>3, <4>1
      <4>3. r.id[1] = i /\ r.id[2] <= changes'[i]
        BY <2>1, <4>1
      <4>4. ForExpiration(r) <=> image[i].expire /\ PastTtl(i)
        BY <4>1 DEF ForExpiration, PastTtl
      <4>5. r.item.pk = k /\ r.id[1] = r.item /\ r.id[2] <= changes'[r.item]
        BY <3>2, <4>1, <4>3
      <4>6. QED BY <4>2, <4>4, <4>5 DEF RecordInv, ForExpiration
    <3>3. QED BY <1>2, <2>4, <3>1, <3>2, ChangeAppends DEF Remove, Names
  <2>5. QED BY <2>2, <2>4 DEF StreamInv, RecordInv
<1>3. ASSUME NEW k \in PKs, Ack(k)
      PROVE  StreamInv'
  <2>1. UNCHANGED <<changes, outlived>> /\ stream' = [stream EXCEPT ![k] = Tail(@)]
        /\ stream[k] # << >>
    BY <1>3 DEF Ack, TypeOK
  <2>2. ASSUME NEW j \in PKs, NEW n \in DOMAIN stream'[j]
        PROVE  RecordInv(j, stream'[j][n])
    <3>1. CASE j = k
      <4>1. stream'[k] = Tail(stream[k])
        BY <2>1 DEF TypeOK
      <4>2. n \in DOMAIN Tail(stream[k])
        BY <2>2, <3>1, <4>1
      <4>3. n + 1 \in DOMAIN stream[k] /\ stream'[k][n] = stream[k][n + 1]
        BY <2>1, <4>1, <4>2, TailElements
      <4>4. QED BY <3>1, <4>3 DEF StreamInv
    <3>2. CASE j # k
      <4>1. stream'[j] = stream[j]
        BY <2>1, <3>2 DEF TypeOK
      <4>2. n \in DOMAIN stream[j]
        BY <2>2, <4>1
      <4>3. QED BY <4>1, <4>2 DEF StreamInv
    <3>3. QED BY <3>1, <3>2
  <2>3. QED BY <2>1, <2>2 DEF StreamInv, RecordInv, ForExpiration
<1>4. ASSUME UNCHANGED <<stream, changes, outlived>>
      PROVE  StreamInv'
  BY <1>4 DEF StreamInv, RecordInv, ForExpiration
<1>5. ASSUME NEW e \in Events, Collect(e)
      PROVE  StreamInv'
  BY <1>1, <1>5, StoredAreItems DEF Collect
<1>6. ASSUME NEW k \in PKs, NEW c \in Rules, Correlate(k, c)
      PROVE  StreamInv'
  BY <1>1, <1>6, CorrelateStores
<1>7. ASSUME NEW k \in PKs, Control(k) \/ Lose(k), ~Ack(k), ~\E c \in Rules : Correlate(k, c)
      PROVE  UNCHANGED <<stream, changes, outlived>>
  BY <1>7 DEF Control, Receive, Flush, Query, Evaluate, Expire, Fault, Lose, tableVars
<1>8. ASSUME NEW k \in PKs, Control(k) \/ Lose(k)
      PROVE  StreamInv'
  BY <1>3, <1>4, <1>6, <1>7, <1>8
<1>9. ASSUME Tick \/ Finished \/ UNCHANGED vars
      PROVE  StreamInv'
  BY <1>4, <1>9 DEF Tick, Finished, vars, tableVars
<1>10. ASSUME NEW e \in Events, CollectFaults(e)
       PROVE  StreamInv'
  BY <1>4, <1>10 DEF CollectFaults, tableVars
<1>11. ASSUME NEW i \in Items, CatchUp(i)
       PROVE  StreamInv'
  BY <1>4, <1>11 DEF CatchUp
<1>12. QED BY <1>2, <1>5, <1>8, <1>9, <1>10, <1>11 DEF Next, Sweep, Delete

\* What Query's answer can satisfy is a complete correlation.
LEMMA SatisfiedIsComplete ==
  ASSUME TypeOK, StreamInv, WorkInv, NEW k \in PKs, NEW v \in HasExpression, Evaluate(k, v),
         Satisfied(k, v)
  PROVE  Complete([rule |-> v, id |-> First(k).id, key |-> PartitionKey(v, First(k).item)])
<1> DEFINE i == First(k).item
           key == PartitionKey(v, i)
           seen == IF IsEvent(i) THEN Collected(v, key) ELSE Correlated(v, key)
<1>1. k \in open /\ v \in todo[k] /\ v \in asked[k] /\ v \in Evaluates /\ KeyInv(k)
  BY DEF Evaluate, Working, WorkInv
<1>2. i \in Items /\ First(k).id[1] = i /\ i.pk = k
  BY <1>1, FirstType, EmittedType DEF StreamInv, RecordInv
<1>3. EvaluateSuffix[v] = SuffixOf(i)
  BY <1>1, SagaAssumption DEF KeyInv, Matching, ForEvents
<1>4. key = KeyOf(i)
  BY <1>3 DEF PartitionKey, SuffixOf
<1>5. Related(i) \subseteq seen
  <2>1. CASE IsEvent(i)
    <3>1. EvaluateSuffix[v] = NoSuffix
      BY <1>3, <2>1 DEF SuffixOf
    <3>2. QED BY <1>4, <2>1, <3>1 DEF Related, Collected
  <2>2. CASE ~IsEvent(i)
    <3>1. i.pk = <<key, EvaluateSuffix[v]>>
      BY <1>2, <1>3, <1>4, <2>2, ItemParts
    <3>2. ASSUME NEW j \in Related(i) PROVE ~IsEvent(j)
      <4>1. j \in Items /\ j.pk = <<key, EvaluateSuffix[v]>>
        BY <2>2, <3>1 DEF Related
      <4>2. SUFFICES ASSUME IsEvent(j) PROVE FALSE
        OBVIOUS
      <4>3. PICK e \in Events : j = EventItem(e)
        BY <4>1, <4>2, SagaAssumption DEF Items, IsEvent
      <4>4. j.pk = <<e>>
        BY <4>3 DEF EventItem
      <4>5. Len(j.pk) = 1 /\ Len(j.pk) = 2
        BY <4>1, <4>4
      <4>6. QED BY <4>5
    <3>3. QED BY <2>2, <3>1, <3>2 DEF Related, Correlated
  <2>3. QED BY <2>1, <2>2
<1>6. answer[k][v] \subseteq {EventOf(j) : j \in seen \cap Written}
  BY <1>1, <1>5 DEF KeyInv
<1>7. Needed[v] \subseteq KindsOf(seen \cap Written)
  BY <1>6 DEF Satisfied, KindsOf
<1>8. QED BY <1>2, <1>7 DEF Complete

\* A complete correlation stays complete.
LEMMA CompleteStays ==
  ASSUME NEW o, Complete(o), Written \subseteq Written'
  PROVE  Complete(o)'
BY DEF Complete, KindsOf, Collected, Correlated

\* No step emits for an incomplete correlation.
LEMMA EmittedStep ==
  ASSUME TypeOK, StoredInv, StreamInv, WorkInv, EmittedOnlyWhenComplete, [Next]_vars
  PROVE  EmittedOnlyWhenComplete'
<1>1. Written \subseteq Written'
  BY StoredStep
<1>2. \A o \in emitted : o.rule \in HasExpression => Complete(o)'
  BY <1>1, CompleteStays DEF EmittedOnlyWhenComplete
<1>3. ASSUME UNCHANGED emitted
      PROVE  EmittedOnlyWhenComplete'
  BY <1>2, <1>3 DEF EmittedOnlyWhenComplete
<1>4. ASSUME NEW k \in PKs, NEW v \in Rules, Evaluate(k, v)
      PROVE  EmittedOnlyWhenComplete'
  <2> DEFINE new == [rule |-> v, id |-> First(k).id, key |-> PartitionKey(v, First(k).item)]
  <2>1. emitted' \subseteq emitted \/ (Satisfied(k, v) /\ emitted' \subseteq emitted \cup {new})
    BY <1>4 DEF Evaluate
  <2>2. ASSUME NEW o, o = new, v \in HasExpression, Satisfied(k, v) PROVE Complete(o)'
    <3>1. Complete(o)
      BY <1>4, <2>2, SatisfiedIsComplete
    <3>2. QED BY <1>1, <3>1, CompleteStays
  <2>3. \A o : o = new => o.rule = v
    OBVIOUS
  <2>4. ASSUME NEW o \in emitted', o.rule \in HasExpression PROVE Complete(o)'
    BY <1>2, <2>1, <2>2, <2>3, <2>4
  <2>5. QED BY <2>4 DEF EmittedOnlyWhenComplete
<1>5. ASSUME NEW k \in PKs, NEW x \in Rules, Expire(k, x)
      PROVE  EmittedOnlyWhenComplete'
  <2> DEFINE new == [rule |-> x, id |-> First(k).id, key |-> OwnKey[EventOf(First(k).item)]]
  <2>1. emitted' = emitted \cup {new} /\ x \in Expireds /\ new.rule = x
    BY <1>5 DEF Expire
  <2>2. x \notin HasExpression
    BY <2>1, SagaAssumption
  <2>3. ASSUME NEW o \in emitted', o.rule \in HasExpression PROVE Complete(o)'
    BY <1>2, <2>1, <2>2, <2>3
  <2>4. QED BY <2>3 DEF EmittedOnlyWhenComplete
<1>6. ASSUME NEW k \in PKs, Control(k) \/ Lose(k),
             ~\E l \in Rules : Evaluate(k, l) \/ Expire(k, l)
      PROVE  UNCHANGED emitted
  BY <1>6 DEF Control, Receive, Flush, Ack, Correlate, Query, Fault, Lose, outVars
<1>7. ASSUME NEW k \in PKs, Control(k) \/ Lose(k)
      PROVE  EmittedOnlyWhenComplete'
  BY <1>3, <1>4, <1>5, <1>6, <1>7
<1>8. ASSUME Tick \/ Finished \/ UNCHANGED vars
      PROVE  EmittedOnlyWhenComplete'
  BY <1>3, <1>8 DEF Tick, Finished, vars, outVars
<1>9. ASSUME NEW e \in Events, Collect(e) \/ CollectFaults(e)
      PROVE  EmittedOnlyWhenComplete'
  BY <1>3, <1>9 DEF Collect, CollectFaults, outVars
<1>10. ASSUME NEW i \in Items, Remove(i) \/ CatchUp(i)
       PROVE  EmittedOnlyWhenComplete'
  BY <1>3, <1>10 DEF Remove, CatchUp, outVars
<1>11. QED BY <1>7, <1>8, <1>9, <1>10 DEF Next, Sweep, Delete

SafetyInv == TypeOK /\ StoredInv /\ StreamInv /\ WorkInv

\* Every behaviour keeps the strengthened invariant on which the theorems rest.
THEOREM SagaInvariant == Spec => []SafetyInv
<1>1. Init => SafetyInv
  BY TypeInit, StoredInit DEF SafetyInv
<1>2. SafetyInv /\ TypeOK' /\ [Next]_vars => SafetyInv'
  BY StoredStep, StreamStep, WorkStep DEF SafetyInv
<1>3. QED BY <1>1, <1>2, SagaTypes, PTL DEF Spec

\* A rule emits a higher-order event only if all the events its expression asks for
\* were stored for that key and suffix, whatever is lost, repeated or concurrent.
THEOREM SagaCompletes == Spec => []EmittedOnlyWhenComplete
<1>1. Init => EmittedOnlyWhenComplete
  BY StoredInit
<1>2. SafetyInv /\ EmittedOnlyWhenComplete /\ [Next]_vars => EmittedOnlyWhenComplete'
  BY EmittedStep DEF SafetyInv
<1>3. QED BY <1>1, <1>2, SagaInvariant, PTL DEF Spec

(***************************************************************************)
(* Exactly the expired items are reported: as long as the record of an     *)
(* expiration is at work, each Expired rule has it to do, has failed and   *)
(* waits for its fault to be published, or has reported it.                *)
(***************************************************************************)

Owing(k) == todo[k] \cup failing[k]

ReportInv ==
  \A k \in PKs : k \in open =>
    \A x \in Expireds :
      ForExpiration(First(k)) => x \in Owing(k) \/ Reported(x, First(k).id)

\* Nothing that was published is taken back.
LEMMA Published ==
  ASSUME [Next]_vars
  PROVE  emitted \subseteq emitted' /\ faulted \subseteq faulted'
<1>1. ASSUME NEW k \in PKs, Control(k) \/ Lose(k)
      PROVE  emitted \subseteq emitted' /\ faulted \subseteq faulted'
  BY <1>1 DEF Control, Receive, Flush, Ack, Correlate, Query, Evaluate, Expire, Fault, Lose, outVars
<1>2. ASSUME NEW e \in Events, Collect(e) \/ CollectFaults(e)
      PROVE  UNCHANGED outVars
  BY <1>2 DEF Collect, CollectFaults
<1>3. ASSUME NEW i \in Items, Remove(i) \/ CatchUp(i)
      PROVE  UNCHANGED outVars
  BY <1>3 DEF Remove, CatchUp
<1>4. ASSUME Tick \/ Finished \/ UNCHANGED vars
      PROVE  UNCHANGED outVars
  BY <1>4 DEF Tick, Finished, vars
<1>5. QED BY <1>1, <1>2, <1>3, <1>4 DEF Next, Sweep, Delete, outVars

\* A reported removal stays reported.
LEMMA ReportedStays ==
  ASSUME NEW x, NEW id, Reported(x, id), [Next]_vars
  PROVE  Reported(x, id)'
BY Published DEF Reported

\* No step drops an expiration that is at work.
LEMMA ReportStep ==
  ASSUME TypeOK, ReportInv, [Next]_vars
  PROVE  ReportInv'
<1> DEFINE Due(k, x, r) == ForExpiration(r) => x \in Owing(k) \/ Reported(x, r.id)
           Same(k) == First(k)' = First(k) /\ todo'[k] = todo[k] /\ failing'[k] = failing[k]
<1>1. ASSUME NEW k \in PKs, k \in open, NEW x \in Expireds, NEW r, r = First(k),
             x \in Owing(k) => x \in Owing(k)' \/ Reported(x, r.id)'
      PROVE  Due(k, x, r)'
  <2>1. Due(k, x, r)
    BY <1>1 DEF ReportInv
  <2>2. QED BY <1>1, <2>1, ReportedStays DEF ForExpiration
<1>2. ASSUME \A k \in PKs : k \in open' => k \in open /\ Same(k)
      PROVE  ReportInv'
  <2>1. SUFFICES ASSUME NEW k \in PKs, k \in open', NEW x \in Expireds, NEW r, r = First(k)'
                 PROVE  Due(k, x, r)'
    BY DEF ReportInv
  <2>2. k \in open /\ r = First(k) /\ (x \in Owing(k) => x \in Owing(k)')
    BY <1>2, <2>1 DEF Owing
  <2>3. QED BY <1>1, <2>2
<1>3. \A k \in PKs : k \in open => stream[k] # << >>
  BY DEF TypeOK
<1>4. ASSUME UNCHANGED <<stream, open, todo, failing>>
      PROVE  ReportInv'
  BY <1>2, <1>4 DEF First
<1>5. ASSUME NEW e \in Events, Collect(e)
      PROVE  ReportInv'
  <2>1. \A k \in PKs : stream[k] # << >> => Head(stream'[k]) = Head(stream[k])
    BY <1>5, StoredAreItems, PutSteps DEF Collect
  <2>2. UNCHANGED <<open, todo, failing>>
    BY <1>5 DEF Collect, workVars
  <2>3. QED BY <1>2, <1>3, <2>1, <2>2 DEF First
<1>6. ASSUME NEW i \in Items, Remove(i)
      PROVE  ReportInv'
  <2>1. \A k \in PKs : stream[k] # << >> => Head(stream'[k]) = Head(stream[k])
    BY <1>6, ChangeAppends DEF Remove, Names
  <2>2. UNCHANGED <<open, todo, failing>>
    BY <1>6 DEF Remove, workVars
  <2>3. QED BY <1>2, <1>3, <2>1, <2>2 DEF First
<1>7. ASSUME NEW k \in PKs, Receive(k)
      PROVE  ReportInv'
  <2>1. open' = open \cup {k} /\ First(k)' = First(k) /\ todo'[k] = Matching(First(k))
    BY <1>7 DEF Receive, tableVars, First, TypeOK
  <2>2. \A j \in PKs : j # k => Same(j)
    BY <1>7 DEF Receive, tableVars, First, TypeOK
  <2>3. SUFFICES ASSUME NEW j \in PKs, j \in open', NEW x \in Expireds, NEW r, r = First(j)'
                 PROVE  Due(j, x, r)'
    BY DEF ReportInv
  <2>4. CASE j = k
    BY <2>1, <2>3, <2>4 DEF Matching, ForExpiration, Owing
  <2>5. CASE j # k
    BY <1>1, <2>1, <2>2, <2>3, <2>5 DEF Owing
  <2>6. QED BY <2>4, <2>5
<1>8. ASSUME NEW k \in PKs, Ack(k) \/ Lose(k)
      PROVE  ReportInv'
  <2>1. /\ open' = open \ {k}
        /\ \A j \in PKs : j # k => /\ todo'[j] = todo[j] /\ failing'[j] = failing[j]
                                  /\ stream'[j] = stream[j]
    BY <1>8 DEF Ack, Lose, Close, tableVars, TypeOK
  <2>2. QED BY <1>2, <2>1 DEF First
<1>9. ASSUME NEW k \in PKs, NEW l \in Rules, k \in open, LineDone(k, l),
             UNCHANGED <<open, failing>>,
             \A j \in PKs : stream[j] # << >> => Head(stream'[j]) = Head(stream[j]),
             NEW id, id = First(k).id, l \in Expireds => Reported(l, id)'
      PROVE  ReportInv'
  <2>1. \A j \in PKs : j \in open => First(j)' = First(j)
    BY <1>3, <1>9 DEF First
  <2>2. /\ todo'[k] = todo[k] \ {l}
        /\ \A j \in PKs : j # k => todo'[j] = todo[j]
    BY <1>9 DEF LineDone, TypeOK
  <2>3. SUFFICES ASSUME NEW j \in PKs, j \in open', NEW x \in Expireds, NEW r, r = First(j)'
                 PROVE  Due(j, x, r)'
    BY DEF ReportInv
  <2>4. j \in open /\ r = First(j)
    BY <1>9, <2>1, <2>3
  <2>5. CASE j = k /\ x = l
    BY <1>9, <2>4, <2>5
  <2>6. CASE ~(j = k /\ x = l)
    <3>1. x \in Owing(j) => x \in Owing(j)'
      BY <1>9, <2>2, <2>6 DEF Owing
    <3>2. QED BY <1>1, <2>4, <3>1
  <2>7. QED BY <2>5, <2>6
<1>10. ASSUME NEW k \in PKs, NEW c \in Rules, Correlate(k, c)
       PROVE  ReportInv'
  <2>1. c \in Correlates /\ k \in open /\ c \notin Expireds
    BY <1>10, SagaAssumption DEF Correlate, Working
  <2>2. \A j \in PKs : stream[j] # << >> => Head(stream'[j]) = Head(stream[j])
    BY <1>10, CorrelateStores, PutSteps
  <2>3. LineDone(k, c) /\ UNCHANGED <<open, failing>>
    BY <1>10 DEF Correlate
  <2>4. PICK id : id = First(k).id
    OBVIOUS
  <2>5. QED BY <1>9, <2>1, <2>2, <2>3, <2>4
<1>11. ASSUME NEW k \in PKs, NEW l \in Rules, Evaluate(k, l) \/ Expire(k, l)
       PROVE  ReportInv'
  <2>1. k \in open /\ LineDone(k, l) /\ UNCHANGED <<stream, open, failing>>
    BY <1>11 DEF Evaluate, Expire, Working, tableVars
  <2>2. PICK id : id = First(k).id
    OBVIOUS
  <2>3. ASSUME l \in Expireds PROVE Reported(l, id)'
    <3>1. Expire(k, l)
      BY <1>11, <2>3, SagaAssumption DEF Evaluate
    <3> DEFINE new == [rule |-> l, id |-> First(k).id, key |-> OwnKey[EventOf(First(k).item)]]
    <3>2. emitted' = emitted \cup {new}
      BY <3>1 DEF Expire
    <3>3. new \in emitted' /\ new.rule = l /\ new.id = id
      BY <2>2, <3>2
    <3>4. QED BY <3>3 DEF Reported
  <2>4. QED BY <1>9, <2>1, <2>2, <2>3
<1>12. ASSUME NEW k \in PKs, NEW l \in Rules, Fault(k, l)
       PROVE  ReportInv'
  <2>1. UNCHANGED <<stream, open>> /\ LineDone(k, l)
        /\ failing' = [failing EXCEPT ![k] = @ \cup {l}]
    BY <1>12 DEF Fault, tableVars
  <2>2. \A j \in PKs : Owing(j) \subseteq todo'[j] \cup failing'[j]
    BY <2>1 DEF LineDone, Owing, TypeOK
  <2>3. SUFFICES ASSUME NEW j \in PKs, j \in open', NEW x \in Expireds, NEW r, r = First(j)'
                 PROVE  Due(j, x, r)'
    BY DEF ReportInv
  <2>4. j \in open /\ r = First(j) /\ (x \in Owing(j) => x \in Owing(j)')
    BY <2>1, <2>2, <2>3 DEF First, Owing
  <2>5. QED BY <1>1, <2>4
<1>13. ASSUME NEW k \in PKs, Flush(k)
       PROVE  ReportInv'
  <2>1. UNCHANGED <<stream, open, todo>> /\ todo[k] = {}
        /\ failing' = [failing EXCEPT ![k] = {}]
    BY <1>13 DEF Flush, tableVars
  <2>2. SUFFICES ASSUME NEW j \in PKs, j \in open', NEW x \in Expireds, NEW r, r = First(j)'
                 PROVE  Due(j, x, r)'
    BY DEF ReportInv
  <2>3. j \in open /\ r = First(j)
    BY <2>1, <2>2 DEF First
  <2>4. CASE j = k
    <3>1. ASSUME x \in Owing(j) PROVE Reported(x, r.id)'
      <4>1. [rule |-> x, id |-> First(k).id] \in faulted'
        BY <1>13, <2>1, <2>4, <3>1 DEF Flush, Owing
      <4>2. QED BY <2>3, <2>4, <4>1 DEF Reported
    <3>2. QED BY <1>1, <2>3, <3>1
  <2>5. CASE j # k
    <3>1. x \in Owing(j) => x \in Owing(j)'
      BY <2>1, <2>5 DEF Owing, TypeOK
    <3>2. QED BY <1>1, <2>3, <3>1
  <2>6. QED BY <2>4, <2>5
<1>14. ASSUME NEW k \in PKs, Control(k)
       PROVE  ReportInv'
  <2>1. ASSUME NEW l \in Rules, Query(k, l) PROVE ReportInv'
    BY <1>4, <2>1 DEF Query, tableVars
  <2>2. QED BY <1>7, <1>8, <1>10, <1>11, <1>12, <1>13, <1>14, <2>1 DEF Control
<1>15. ASSUME Tick \/ Finished \/ UNCHANGED vars
       PROVE  ReportInv'
  BY <1>4, <1>15 DEF Tick, Finished, vars, tableVars, workVars
<1>16. ASSUME NEW e \in Events, CollectFaults(e)
       PROVE  ReportInv'
  BY <1>4, <1>16 DEF CollectFaults, tableVars, workVars
<1>17. ASSUME NEW i \in Items, CatchUp(i)
       PROVE  ReportInv'
  BY <1>4, <1>17 DEF CatchUp, workVars
<1>18. QED BY <1>5, <1>6, <1>8, <1>14, <1>15, <1>16, <1>17 DEF Next, Sweep, Delete

\* A step that takes no record from a stream acknowledges nothing, and what was
\* reported before it stays reported.
LEMMA ExpiryKept ==
  ASSUME TypeOK, ExpiryReported, [Next]_vars, UNCHANGED outlived,
         \A k \in PKs : \A n \in DOMAIN stream[k] :
           n \in DOMAIN stream'[k] /\ stream'[k][n] = stream[k][n]
  PROVE  \A x \in Expireds : \A id \in outlived' : Acknowledged(id)' => Reported(x, id)'
<1>1. SUFFICES ASSUME NEW x \in Expireds, NEW id \in outlived, Acknowledged(id)'
               PROVE  Reported(x, id)'
  OBVIOUS
<1>2. id[1].pk \in PKs
  BY ItemParts DEF TypeOK, Ids
<1>3. Acknowledged(id)
  BY <1>1, <1>2 DEF Acknowledged
<1>4. QED BY <1>3, ReportedStays DEF ExpiryReported

\* Only expirations are reported as such.
LEMMA OnlyExpirations ==
  ASSUME TypeOK, TypeOK', StreamInv, WorkInv, ExpiryReported, [Next]_vars
  PROVE  \A x \in Expireds : \A o \in emitted' : o.rule = x => o.id \in outlived'
<1>1. outlived \subseteq outlived'
  <2>1. ASSUME NEW k \in PKs, Control(k) \/ Lose(k) PROVE outlived' = outlived
    BY <2>1 DEF Control, Receive, Flush, Ack, Correlate, Put, Query, Evaluate, Expire, Fault, Lose,
                tableVars
  <2>2. ASSUME NEW e \in Events, Collect(e) \/ CollectFaults(e) PROVE outlived' = outlived
    BY <2>2 DEF Collect, CollectFaults, Put, tableVars
  <2>3. ASSUME NEW i \in Items, Remove(i) \/ CatchUp(i) PROVE outlived \subseteq outlived'
    BY <2>3 DEF Remove, CatchUp
  <2>4. ASSUME Tick \/ Finished \/ UNCHANGED vars PROVE outlived' = outlived
    BY <2>4 DEF Tick, Finished, vars, tableVars
  <2>5. QED BY <2>1, <2>2, <2>3, <2>4 DEF Next, Sweep, Delete
<1>2. ASSUME UNCHANGED emitted
      PROVE  \A x \in Expireds : \A o \in emitted' : o.rule = x => o.id \in outlived'
  BY <1>1, <1>2 DEF ExpiryReported
<1>3. ASSUME NEW k \in PKs, NEW v \in Rules, Evaluate(k, v)
      PROVE  \A x \in Expireds : \A o \in emitted' : o.rule = x => o.id \in outlived'
  <2>1. \A o \in emitted' : o \in emitted \/ o.rule = v
    BY <1>3 DEF Evaluate
  <2>2. v \notin Expireds
    BY <1>3, SagaAssumption DEF Evaluate
  <2>3. QED BY <1>1, <2>1, <2>2 DEF ExpiryReported
<1>4. ASSUME NEW k \in PKs, NEW y \in Rules, Expire(k, y)
      PROVE  \A x \in Expireds : \A o \in emitted' : o.rule = x => o.id \in outlived'
  <2>1. k \in open /\ y \in todo[k] /\ y \in Expireds /\ outlived' = outlived
    BY <1>4 DEF Expire, Working, tableVars
  <2>2. RecordInv(k, First(k))
    BY <2>1, FirstType DEF StreamInv
  <2>3. ForExpiration(First(k))
    BY <2>1, SagaAssumption DEF WorkInv, KeyInv, Matching
  <2>4. First(k).id \in outlived
    BY <2>2, <2>3 DEF RecordInv
  <2>5. \A o \in emitted' : o \in emitted \/ o.id = First(k).id
    BY <1>4 DEF Expire
  <2>6. QED BY <2>1, <2>4, <2>5 DEF ExpiryReported
<1>5. ASSUME NEW k \in PKs, Control(k) \/ Lose(k),
             ~\E l \in Rules : Evaluate(k, l) \/ Expire(k, l)
      PROVE  UNCHANGED emitted
  BY <1>5 DEF Control, Receive, Flush, Ack, Correlate, Query, Fault, Lose, outVars
<1>6. ASSUME NEW k \in PKs, Control(k) \/ Lose(k)
      PROVE  \A x \in Expireds : \A o \in emitted' : o.rule = x => o.id \in outlived'
  BY <1>2, <1>3, <1>4, <1>5, <1>6
<1>7. ASSUME NEW e \in Events, Collect(e) \/ CollectFaults(e)
      PROVE  UNCHANGED emitted
  BY <1>7 DEF Collect, CollectFaults, outVars
<1>8. ASSUME NEW i \in Items, Remove(i) \/ CatchUp(i)
      PROVE  UNCHANGED emitted
  BY <1>8 DEF Remove, CatchUp, outVars
<1>9. ASSUME Tick \/ Finished \/ UNCHANGED vars
      PROVE  UNCHANGED emitted
  BY <1>9 DEF Tick, Finished, vars, outVars
<1>10. QED BY <1>2, <1>6, <1>7, <1>8, <1>9 DEF Next, Sweep, Delete

\* Every expiration whose record is acknowledged has been reported.
LEMMA NoneForgotten ==
  ASSUME TypeOK, TypeOK', StreamInv, ReportInv, ExpiryReported, [Next]_vars
  PROVE  \A x \in Expireds : \A id \in outlived' : Acknowledged(id)' => Reported(x, id)'
<1> DEFINE Goal == \A x \in Expireds : \A id \in outlived' : Acknowledged(id)' => Reported(x, id)'
<1>1. ASSUME NEW i \in Items, NEW x, Put(i, x)
      PROVE  Goal
  BY <1>1, PutSteps, ExpiryKept
<1>2. ASSUME UNCHANGED <<stream, outlived>>
      PROVE  Goal
  BY <1>2, ExpiryKept
<1>3. ASSUME NEW i \in Items, Remove(i)
      PROVE  Goal
  <2>1. SUFFICES ASSUME NEW x \in Expireds, NEW id \in outlived', Acknowledged(id)'
                 PROVE  Reported(x, id)'
    OBVIOUS
  <2>2. /\ \A k \in PKs : \A n \in DOMAIN stream[k] :
             n \in DOMAIN stream'[k] /\ stream'[k][n] = stream[k][n]
        /\ \E n \in DOMAIN stream'[i.pk] : stream'[i.pk][n] = Record(i, "REMOVE")
    BY <1>3, ChangeAppends DEF Remove, Names
  <2>3. id # <<i, changes[i] + 1>>
    <3>1. SUFFICES ASSUME id = <<i, changes[i] + 1>> PROVE FALSE
      OBVIOUS
    <3>2. \E n \in DOMAIN stream'[id[1].pk] : stream'[id[1].pk][n].id = id
      BY <2>2, <3>1 DEF Record
    <3>3. QED BY <2>1, <3>2 DEF Acknowledged
  <2>4. id \in outlived
    BY <1>3, <2>3 DEF Remove
  <2>5. id[1].pk \in PKs
    BY <2>4, ItemParts DEF TypeOK, Ids
  <2>6. Acknowledged(id)
    BY <2>1, <2>2, <2>5 DEF Acknowledged
  <2>7. QED BY <2>4, <2>6, ReportedStays DEF ExpiryReported
<1>4. ASSUME NEW k \in PKs, Ack(k)
      PROVE  Goal
  <2>1. SUFFICES ASSUME NEW x \in Expireds, NEW id \in outlived', Acknowledged(id)'
                 PROVE  Reported(x, id)'
    OBVIOUS
  <2>2. /\ k \in open /\ Owing(k) = {} /\ stream[k] # << >> /\ outlived' = outlived
        /\ stream'[k] = Tail(stream[k]) /\ \A j \in PKs : j # k => stream'[j] = stream[j]
    BY <1>4 DEF Ack, Owing, TypeOK
  <2>3. id[1].pk \in PKs
    BY <2>2, ItemParts DEF TypeOK, Ids
  <2>4. CASE Acknowledged(id)
    BY <2>2, <2>4, ReportedStays DEF ExpiryReported
  <2>5. CASE ~Acknowledged(id)
    <3>1. PICK n \in DOMAIN stream[id[1].pk] : stream[id[1].pk][n].id = id
      BY <2>5 DEF Acknowledged
    <3>2. id[1].pk = k
      BY <2>1, <2>2, <2>3, <3>1 DEF Acknowledged
    <3>3. n = 1
      <4>1. SUFFICES ASSUME n # 1 PROVE FALSE
        OBVIOUS
      <4>2. n - 1 \in DOMAIN stream'[k] /\ stream'[k][n - 1] = stream[k][n]
        BY <2>2, <3>1, <3>2, <4>1, TailElements
      <4>3. QED BY <2>1, <3>1, <3>2, <4>2 DEF Acknowledged
    <3>4. First(k).id = id /\ RecordInv(k, First(k))
      BY <2>2, <3>1, <3>2, <3>3, FirstType DEF StreamInv
    <3>5. ForExpiration(First(k))
      BY <2>2, <3>4 DEF RecordInv
    <3>6. Reported(x, id)
      BY <2>2, <3>4, <3>5 DEF ReportInv
    <3>7. QED BY <3>6, ReportedStays
  <2>6. QED BY <2>4, <2>5
<1>5. ASSUME NEW e \in Events, Collect(e)
      PROVE  Goal
  BY <1>1, <1>5, StoredAreItems DEF Collect
<1>6. ASSUME NEW k \in PKs, NEW c \in Rules, Correlate(k, c)
      PROVE  Goal
  BY <1>1, <1>6, CorrelateStores
<1>7. ASSUME NEW k \in PKs, Control(k) \/ Lose(k), ~Ack(k), ~\E c \in Rules : Correlate(k, c)
      PROVE  UNCHANGED <<stream, outlived>>
  BY <1>7 DEF Control, Receive, Flush, Query, Evaluate, Expire, Fault, Lose, tableVars
<1>8. ASSUME NEW k \in PKs, Control(k) \/ Lose(k)
      PROVE  Goal
  BY <1>2, <1>4, <1>6, <1>7, <1>8
<1>9. ASSUME Tick \/ Finished \/ UNCHANGED vars
      PROVE  UNCHANGED <<stream, outlived>>
  BY <1>9 DEF Tick, Finished, vars, tableVars
<1>10. ASSUME NEW e \in Events, CollectFaults(e)
       PROVE  UNCHANGED <<stream, outlived>>
  BY <1>10 DEF CollectFaults, tableVars
<1>11. ASSUME NEW i \in Items, CatchUp(i)
       PROVE  UNCHANGED <<stream, outlived>>
  BY <1>11 DEF CatchUp
<1>12. QED BY <1>2, <1>3, <1>5, <1>8, <1>9, <1>10, <1>11 DEF Next, Sweep, Delete

\* Every Expired rule reports each item that was removed after its time to live, or
\* the fault that kept it from doing so, and none that was deleted before.
THEOREM ExpiryIsReported == Spec => []ExpiryReported
<1>1. Init => ReportInv /\ ExpiryReported
  BY DEF Init, ReportInv, ExpiryReported
<1>2. SafetyInv /\ SafetyInv' /\ ReportInv /\ ExpiryReported /\ [Next]_vars
        => ReportInv' /\ ExpiryReported'
  BY ReportStep, NoneForgotten, OnlyExpirations DEF SafetyInv, ExpiryReported
<1>3. QED BY <1>1, <1>2, SagaInvariant, PTL DEF Spec

(***************************************************************************)
(* One id per stored item.  The ids under which a rule emits for an item   *)
(* are ids of insertions, and an item is inserted once more only after it  *)
(* was removed.  Insertions are forgotten with their records, so the       *)
(* invariant says that some set is large enough for all of them.           *)
(***************************************************************************)

Stored(i) == IF i \in table THEN 1 ELSE 0

\* S holds the ids of all insertions of item i that are or were at work.
Covers(S, i) ==
  /\ \A n \in DOMAIN stream[i.pk] :
       stream[i.pk][n].item = i /\ stream[i.pk][n].name = "INSERT" => stream[i.pk][n].id \in S
  /\ \A o \in emitted : o.rule \in Evaluates /\ o.id[1] = i => o.id \in S

InsertInv ==
  \A i \in Items : \E S \in SUBSET Ids :
    IsFiniteSet(S) /\ Cardinality(S) <= removals[i] + Stored(i) /\ Covers(S, i)

\* A step that publishes nothing and appends no insertion of i needs no larger set.
LEMMA CoverKept ==
  ASSUME NEW i \in Items, NEW S, Covers(S, i), UNCHANGED emitted,
         \A n \in DOMAIN stream'[i.pk] :
           \/ \E m \in DOMAIN stream[i.pk] : stream'[i.pk][n] = stream[i.pk][m]
           \/ stream'[i.pk][n].item # i
           \/ stream'[i.pk][n].name # "INSERT"
  PROVE  Covers(S, i)'
<1>1. ASSUME NEW n \in DOMAIN stream'[i.pk],
             stream'[i.pk][n].item = i, stream'[i.pk][n].name = "INSERT"
      PROVE  stream'[i.pk][n].id \in S
  BY <1>1 DEF Covers
<1>2. \A o \in emitted' : o.rule \in Evaluates /\ o.id[1] = i => o.id \in S
  BY DEF Covers
<1>3. QED BY <1>1, <1>2 DEF Covers

\* Storing an item.
LEMMA InsertPut ==
  ASSUME TypeOK, TypeOK', InsertInv, NEW j \in Items, NEW x, Put(j, x), UNCHANGED emitted
  PROVE  InsertInv'
<1>1. SUFFICES ASSUME NEW i \in Items
               PROVE  \E S \in SUBSET Ids : IsFiniteSet(S)
                        /\ Cardinality(S) <= removals'[i] + Stored(i)' /\ Covers(S, i)'
  BY DEF InsertInv
<1>2. PICK S \in SUBSET Ids :
        IsFiniteSet(S) /\ Cardinality(S) <= removals[i] + Stored(i) /\ Covers(S, i)
  BY DEF InsertInv
<1>3. i.pk \in PKs /\ removals[i] \in Nat /\ Cardinality(S) \in Nat /\ removals' = removals
  BY <1>2, ItemParts, PutSteps, FS_CardinalityType DEF TypeOK
<1>4. table' = table \cup {j}
  BY PutSteps
<1>5. \A n \in DOMAIN stream'[i.pk] :
        \/ n \in DOMAIN stream[i.pk] /\ stream'[i.pk][n] = stream[i.pk][n]
        \/ NewRecord(j, stream'[i.pk][n])
  BY <1>3, PutSteps
<1>6. CASE i = j /\ i \notin table
  <2> DEFINE new == <<i, changes[i] + 1>>
  <2>0. PICK T : T = S \cup {new}
    OBVIOUS
  <2>1. new \in Ids
    BY DEF TypeOK, Ids
  <2>2. IsFiniteSet(T) /\ Cardinality(T) <= Cardinality(S) + 1
    <3>1. /\ IsFiniteSet(T)
          /\ Cardinality(T) = Cardinality(S) \/ Cardinality(T) = Cardinality(S) + 1
      BY <1>2, <2>0, FS_AddElement
    <3>2. QED BY <1>3, <3>1
  <2>3. Stored(i) = 0 /\ Stored(i)' = 1
    BY <1>4, <1>6 DEF Stored
  <2>4. Cardinality(T) <= removals'[i] + Stored(i)'
    <3>1. Cardinality(T) \in Nat
      BY <2>2, FS_CardinalityType
    <3>2. QED BY <1>2, <1>3, <2>2, <2>3, <3>1
  <2>5. ASSUME NEW n \in DOMAIN stream'[i.pk],
               stream'[i.pk][n].item = i, stream'[i.pk][n].name = "INSERT"
        PROVE  stream'[i.pk][n].id \in T
    BY <1>2, <1>5, <1>6, <2>0, <2>5 DEF Covers, NewRecord
  <2>6. \A o \in emitted' : o.rule \in Evaluates /\ o.id[1] = i => o.id \in T
    BY <1>2, <2>0 DEF Covers
  <2>7. Covers(T, i)'
    BY <2>5, <2>6 DEF Covers
  <2>8. T \in SUBSET Ids
    BY <1>2, <2>0, <2>1
  <2>9. QED BY <2>2, <2>4, <2>7, <2>8
<1>7. CASE ~(i = j /\ i \notin table)
  <2>1. \A n \in DOMAIN stream'[i.pk] :
          \/ \E m \in DOMAIN stream[i.pk] : stream'[i.pk][n] = stream[i.pk][m]
          \/ stream'[i.pk][n].item # i
          \/ stream'[i.pk][n].name # "INSERT"
    BY <1>5, <1>7 DEF NewRecord
  <2>2. Stored(i)' = Stored(i)
    BY <1>4, <1>7 DEF Stored
  <2>3. QED BY <1>2, <1>3, <2>1, <2>2, CoverKept
<1>8. QED BY <1>6, <1>7

\* The other steps that change the stream or publish.
LEMMA InsertOthers ==
  ASSUME TypeOK, TypeOK', StreamInv, WorkInv, InsertInv,
         \/ \E i \in Items : Remove(i)
         \/ \E k \in PKs : Ack(k) \/ \E l \in Rules : Evaluate(k, l) \/ Expire(k, l)
         \/ UNCHANGED <<stream, table, removals, emitted>>
  PROVE  InsertInv'
<1>1. SUFFICES ASSUME NEW i \in Items
               PROVE  \E S \in SUBSET Ids : IsFiniteSet(S)
                        /\ Cardinality(S) <= removals'[i] + Stored(i)' /\ Covers(S, i)'
  BY DEF InsertInv
<1>2. PICK S \in SUBSET Ids :
        IsFiniteSet(S) /\ Cardinality(S) <= removals[i] + Stored(i) /\ Covers(S, i)
  BY DEF InsertInv
<1>3. i.pk \in PKs /\ removals[i] \in Nat /\ Cardinality(S) \in Nat
  BY <1>2, ItemParts, FS_CardinalityType DEF TypeOK
<1>4. SUFFICES removals'[i] + Stored(i)' = removals[i] + Stored(i) /\ Covers(S, i)'
  BY <1>2
<1>5. ASSUME NEW j \in Items, Remove(j)
      PROVE  removals'[i] + Stored(i)' = removals[i] + Stored(i) /\ Covers(S, i)'
  <2>1. /\ j \in table /\ table' = table \ {j} /\ emitted' = emitted
        /\ removals' = [removals EXCEPT ![j] = @ + 1] /\ removals \in [Items -> Nat]
    BY <1>5 DEF Remove, outVars, TypeOK
  <2>2. removals'[i] + Stored(i)' = removals[i] + Stored(i)
    <3>1. CASE i = j
      <4>1. removals'[i] = removals[i] + 1 /\ Stored(i) = 1 /\ Stored(i)' = 0
        BY <2>1, <3>1 DEF Stored
      <4>2. QED BY <1>3, <4>1
    <3>2. CASE i # j
      BY <2>1, <3>2 DEF Stored
    <3>3. QED BY <3>1, <3>2
  <2>3. \A n \in DOMAIN stream'[i.pk] :
          \/ n \in DOMAIN stream[i.pk] /\ stream'[i.pk][n] = stream[i.pk][n]
          \/ stream'[i.pk][n] = Record(j, "REMOVE")
    BY <1>3, <1>5, ChangeAppends DEF Remove, Names
  <2>4. Record(j, "REMOVE").name # "INSERT"
    BY DEF Record
  <2>5. QED BY <1>2, <2>1, <2>2, <2>3, <2>4, CoverKept
<1>6. ASSUME NEW k \in PKs, Ack(k)
      PROVE  removals'[i] + Stored(i)' = removals[i] + Stored(i) /\ Covers(S, i)'
  <2>1. /\ UNCHANGED <<table, removals, emitted>> /\ stream[k] # << >>
        /\ stream'[k] = Tail(stream[k]) /\ \A j \in PKs : j # k => stream'[j] = stream[j]
    BY <1>6 DEF Ack, outVars, TypeOK
  <2>2. \A n \in DOMAIN stream'[i.pk] :
          \E m \in DOMAIN stream[i.pk] : stream'[i.pk][n] = stream[i.pk][m]
    <3>1. CASE i.pk = k
      <4>1. stream'[i.pk] = Tail(stream[k]) /\ stream[i.pk] = stream[k]
        BY <2>1, <3>1
      <4>2. \A n \in DOMAIN Tail(stream[k]) :
              \E m \in DOMAIN stream[k] : Tail(stream[k])[n] = stream[k][m]
        <5>1. SUFFICES ASSUME NEW n \in DOMAIN Tail(stream[k])
                       PROVE  \E m \in DOMAIN stream[k] : Tail(stream[k])[n] = stream[k][m]
          OBVIOUS
        <5>2. n + 1 \in DOMAIN stream[k] /\ Tail(stream[k])[n] = stream[k][n + 1]
          BY <2>1, TailElements
        <5>3. QED BY <5>2
      <4>3. QED BY <4>1, <4>2, Zenon
    <3>2. CASE i.pk # k
      BY <1>3, <2>1, <3>2
    <3>3. QED BY <3>1, <3>2
  <2>3. QED BY <1>2, <2>1, <2>2, CoverKept DEF Stored
<1>7. ASSUME NEW k \in PKs, NEW v \in Rules, Evaluate(k, v)
      PROVE  removals'[i] + Stored(i)' = removals[i] + Stored(i) /\ Covers(S, i)'
  <2>1. /\ UNCHANGED <<table, removals, stream>>
        /\ k \in open /\ v \in todo[k] /\ v \in Evaluates
        /\ \A o \in emitted' : o \in emitted \/ o.id = First(k).id
    BY <1>7 DEF Evaluate, Working, tableVars
  <2>2. RecordInv(k, First(k)) /\ First(k) = stream[k][1] /\ 1 \in DOMAIN stream[k]
    BY <2>1, FirstType DEF StreamInv
  <2>3. First(k).name = "INSERT"
    BY <2>1, SagaAssumption DEF WorkInv, KeyInv, Matching, ForEvents
  <2>4. ASSUME NEW o \in emitted', o.rule \in Evaluates, o.id[1] = i
        PROVE  o.id \in S
    <3>1. CASE o \in emitted
      BY <1>2, <2>4, <3>1 DEF Covers
    <3>2. CASE o.id = First(k).id
      <4>1. First(k).item = i /\ i.pk = k
        BY <2>2, <2>4, <3>2 DEF RecordInv
      <4>2. QED BY <1>2, <2>2, <2>3, <3>2, <4>1 DEF Covers
    <3>3. QED BY <2>1, <3>1, <3>2
  <2>5. QED BY <1>2, <2>1, <2>4 DEF Covers, Stored
<1>8. ASSUME NEW k \in PKs, NEW x \in Rules, Expire(k, x)
      PROVE  removals'[i] + Stored(i)' = removals[i] + Stored(i) /\ Covers(S, i)'
  <2>1. /\ UNCHANGED <<table, removals, stream>> /\ x \in Expireds
        /\ \A o \in emitted' : o \in emitted \/ o.rule = x
    BY <1>8 DEF Expire, tableVars
  <2>2. x \notin Evaluates
    BY <2>1, SagaAssumption
  <2>3. QED BY <1>2, <2>1, <2>2 DEF Covers, Stored
<1>9. ASSUME UNCHANGED <<stream, table, removals, emitted>>
      PROVE  removals'[i] + Stored(i)' = removals[i] + Stored(i) /\ Covers(S, i)'
  BY <1>2, <1>9 DEF Covers, Stored
<1>10. QED BY <1>5, <1>6, <1>7, <1>8, <1>9

\* Initially no item was ever inserted.
LEMMA InsertInit == Init => InsertInv
<1>1. SUFFICES ASSUME Init, NEW i \in Items
               PROVE  \E S \in SUBSET Ids : IsFiniteSet(S)
                        /\ Cardinality(S) <= removals[i] + Stored(i) /\ Covers(S, i)
  BY DEF InsertInv
<1>2. DOMAIN stream[i.pk] = {} /\ emitted = {} /\ removals[i] = 0 /\ table = {}
  BY <1>1, ItemParts, EmptySeq DEF Init
<1>3. Covers({}, i) /\ Stored(i) = 0
  BY <1>2 DEF Covers, Stored
<1>4. IsFiniteSet({}) /\ Cardinality({}) = 0
  BY FS_EmptySet
<1>5. QED BY <1>2, <1>3, <1>4

\* Every step keeps the insertions of each item within bounds.
LEMMA InsertStep ==
  ASSUME SafetyInv, SafetyInv', InsertInv, [Next]_vars
  PROVE  InsertInv'
<1> USE DEF SafetyInv
<1>1. ASSUME NEW e \in Events, Collect(e)
      PROVE  InsertInv'
  <2>1. Put(EventItem(e), EventImage(e)) /\ UNCHANGED emitted /\ EventItem(e) \in Items
    BY <1>1, StoredAreItems DEF Collect, outVars
  <2>2. QED BY <2>1, InsertPut
<1>2. ASSUME NEW k \in PKs, NEW c \in Rules, Correlate(k, c)
      PROVE  InsertInv'
  <2>1. UNCHANGED emitted
    BY <1>2 DEF Correlate, outVars
  <2>2. QED BY <1>2, <2>1, CorrelateStores, InsertPut
<1>3. ASSUME UNCHANGED <<stream, table, removals, emitted>>
      PROVE  InsertInv'
  BY <1>3, InsertOthers
<1>4. ASSUME NEW k \in PKs, Control(k) \/ Lose(k), ~Ack(k),
             ~\E l \in Rules : Correlate(k, l) \/ Evaluate(k, l) \/ Expire(k, l)
      PROVE  UNCHANGED <<stream, table, removals, emitted>>
  BY <1>4 DEF Control, Receive, Flush, Query, Fault, Lose, tableVars, outVars
<1>5. ASSUME NEW k \in PKs, Control(k) \/ Lose(k)
      PROVE  InsertInv'
  <2>1. ASSUME NEW l \in Rules, Evaluate(k, l) \/ Expire(k, l) PROVE InsertInv'
    BY <2>1, InsertOthers
  <2>2. ASSUME Ack(k) PROVE InsertInv'
    BY <2>2, InsertOthers
  <2>3. QED BY <1>2, <1>3, <1>4, <1>5, <2>1, <2>2
<1>6. ASSUME Tick \/ Finished \/ UNCHANGED vars
      PROVE  InsertInv'
  BY <1>3, <1>6 DEF Tick, Finished, vars, tableVars, outVars
<1>7. ASSUME NEW e \in Events, CollectFaults(e)
      PROVE  InsertInv'
  BY <1>3, <1>7 DEF CollectFaults, tableVars, outVars
<1>8. ASSUME NEW i \in Items, CatchUp(i)
      PROVE  InsertInv'
  BY <1>3, <1>8 DEF CatchUp, outVars
<1>9. ASSUME NEW i \in Items, Remove(i)
      PROVE  InsertInv'
  BY <1>9, InsertOthers
<1>10. QED BY <1>1, <1>5, <1>6, <1>7, <1>8, <1>9 DEF Next, Sweep, Delete

\* However often events are delivered and records retried, a rule emits for an item
\* under one id, and under one more for each time the item was removed.
THEOREM OneIdEmitted == Spec => []OneIdPerStoredItem
<1>1. TypeOK /\ InsertInv => OneIdPerStoredItem
  <2>1. SUFFICES ASSUME TypeOK, InsertInv, NEW v \in Evaluates, NEW i \in Items
                 PROVE  Cardinality({o.id : o \in {o \in emitted : o.rule = v /\ o.id[1] = i}})
                          <= 1 + removals[i]
    BY DEF OneIdPerStoredItem
  <2> DEFINE ids == {o.id : o \in {o \in emitted : o.rule = v /\ o.id[1] = i}}
  <2>2. PICK S \in SUBSET Ids :
          IsFiniteSet(S) /\ Cardinality(S) <= removals[i] + Stored(i) /\ Covers(S, i)
    BY <2>1 DEF InsertInv
  <2>3. ids \subseteq S
    BY <2>2 DEF Covers
  <2>4. IsFiniteSet(ids) /\ Cardinality(ids) <= Cardinality(S)
    BY <2>2, <2>3, FS_Subset
  <2>5. Cardinality(ids) \in Nat /\ Cardinality(S) \in Nat /\ removals[i] \in Nat /\ Stored(i) \in 0..1
    BY <2>1, <2>2, <2>4, FS_CardinalityType DEF TypeOK, Stored
  <2>6. QED BY <2>2, <2>4, <2>5
<1>2. SafetyInv /\ SafetyInv' /\ InsertInv /\ [Next]_vars => InsertInv'
  BY InsertStep
<1>3. QED BY <1>1, <1>2, InsertInit, SagaTypes, SagaInvariant, PTL DEF Spec
=============================================================================
