-------------------------------- MODULE Saga --------------------------------
(***************************************************************************)
(* The control pattern: the flavors Collect, Correlate, Evaluate and       *)
(* Expired around one DynamoDB table and its stream.                       *)
(*                                                                         *)
(* One function collects events into the table.  Every change of an item   *)
(* is a record of the table's stream, and a second function, invoked with  *)
(* these records, runs one line per rule over each record: a Correlate     *)
(* rule writes the event again under another key, an Evaluate rule looks   *)
(* at the events stored under the record's key and emits a higher-order    *)
(* event once they satisfy its expression, an Expired rule reports the     *)
(* items whose time to live has passed.  Both functions are invoked at     *)
(* least once per record.  Records of one partition key arrive in order    *)
(* and one at a time, those of different keys concurrently.                *)
(***************************************************************************)
EXTENDS Integers, Sequences, FiniteSets

CONSTANTS
  Events,         \* the events Collect's filters accept
  Keys,           \* values of the correlation keys
  Suffixes,       \* correlation_key_suffix values
  NoSuffix,       \* a rule without one; the suffix of a collected event
  Kinds,          \* event types
  Kind,           \* the type of each event
  OwnKey,         \* each event's partition_key
  Data,           \* Collect's correlation key of each event, stored as `data`: by
                  \* default its partition_key
  Correlates, Evaluates, Expireds,   \* the rules of the control function
  CorrelateKey,   \* per Correlate rule and event, its correlation key
  CorrelateSuffix, EvaluateSuffix,   \* per rule, its suffix
  HasExpression,  \* the Evaluate rules that have an expression
  Needed,         \* per Evaluate rule, the types its expression asks for
  Ttl,            \* per event, the ttl Collect stores with it; 0 if there is none
  CorrelateTtl,   \* per Correlate rule that has a ttl of its own, and event, that ttl
  Expires,        \* the events whose Collect rule has an `expire`
  CorrelateExpires,  \* the Correlate rules that have an `expire`
  IndexLag,       \* may the index be behind the table?
  MayFault,       \* may an operator of a line fail?
  MaxDeliveries, MaxRetries, MaxRemovals, MaxTime   \* bounds

Rules == Correlates \cup Evaluates \cup Expireds

(***************************************************************************)
(* Items: event e is collected under its own id, and correlated under its  *)
(* correlation key and the rule's suffix.  Correlation keys are not the    *)
(* ids of events, so the two kinds of partition key are disjoint.          *)
(***************************************************************************)
EventItem(e) == [pk |-> <<e>>, sk |-> "EVENT"]
CorrelItem(c, e) == [pk |-> <<CorrelateKey[c][e], CorrelateSuffix[c]>>, sk |-> e]

EventPKs == {<<e>> : e \in Events}
CorrelPKs == Keys \X (Suffixes \cup {NoSuffix})
PKs == EventPKs \cup CorrelPKs
Items == {EventItem(e) : e \in Events} \cup [pk : CorrelPKs, sk : Events]

\* What an item is stored with, as far as Expired asks for it: `ttl`, and whether the
\* rule that stored it gave it an `expire`.  An item may be stored by several rules.
Image == [ttl : Nat, expire : BOOLEAN]
NoImage == [ttl |-> 0, expire |-> FALSE]
EventImage(e) == [ttl |-> Ttl[e], expire |-> e \in Expires]
CorrelImage(c, e) == [ttl |-> IF c \in DOMAIN CorrelateTtl THEN CorrelateTtl[c][e] ELSE Ttl[e],
                      expire |-> c \in CorrelateExpires]

IsEvent(i)  == i.sk = "EVENT"
EventOf(i)  == IF IsEvent(i) THEN i.pk[1] ELSE i.sk
SuffixOf(i) == IF IsEvent(i) THEN NoSuffix ELSE i.pk[2]

\* Correlation key of an item's event, without the suffix.
KeyOf(i) == IF IsEvent(i) THEN Data[i.pk[1]] ELSE i.pk[1]

\* The partition key of a higher-order event is meta.correlation_key, from which the
\* rule takes off its own suffix, and no other.
PartitionKey(v, i) ==
  IF IsEvent(i) \/ i.pk[2] \in {NoSuffix, EvaluateSuffix[v]} THEN KeyOf(i) ELSE i.pk

ASSUME SagaAssumption ==
  /\ "EVENT" \notin Events
  /\ NoSuffix \notin Suffixes
  /\ Kind \in [Events -> Kinds]
  /\ OwnKey \in [Events -> Keys] /\ Data \in [Events -> Keys]
  /\ CorrelateKey \in [Correlates -> [Events -> Keys]]
  /\ CorrelateSuffix \in [Correlates -> Suffixes \cup {NoSuffix}]
  /\ EvaluateSuffix \in [Evaluates -> Suffixes \cup {NoSuffix}]
  /\ Correlates \cap Evaluates = {} /\ Correlates \cap Expireds = {} /\ Evaluates \cap Expireds = {}
  /\ HasExpression \subseteq Evaluates
  /\ Needed \in [Evaluates -> (SUBSET Kinds) \ {{}}]
  /\ Ttl \in [Events -> Nat] /\ Expires \subseteq Events
  /\ \A c \in DOMAIN CorrelateTtl : CorrelateTtl[c] \in [Events -> Nat]
  /\ CorrelateExpires \subseteq Correlates
  /\ IndexLag \in BOOLEAN /\ MayFault \in BOOLEAN
  /\ MaxDeliveries \in Nat /\ MaxRetries \in Nat /\ MaxRemovals \in [Events -> Nat] /\ MaxTime \in Nat

VARIABLES
  table,       \* the items that exist
  image,       \* what each of them was last stored with
  index,       \* the items the index DataIndex knows of
  changes,     \* per item, the number of its stream records so far
  stream,      \* per partition key, its stream records not yet acknowledged
  open,        \* partition keys whose first record is being processed
  todo,        \* per open key, the rules whose line has not finished the record
  asked,       \* ... and those whose query has been answered
  answer,      \* the events each query returned
  failing,     \* per open key, the rules whose line failed: the_faults
  deliveries,  \* per event, how often it has been delivered to Collect
  retries,     \* attempts of the control function that were lost
  emitted,     \* the events published, as [rule, id, key]
  faulted,     \* the faults published, as [rule, id]
  removals,    \* per item, how often it has been removed
  outlived,    \* ids of the removals of items stored with an `expire`, at or after
               \* their time to live (history)
  now

tableVars == <<table, image, index, changes, stream, removals, outlived, now>>
workVars  == <<open, todo, asked, answer, failing, retries>>
outVars   == <<emitted, faulted>>
vars == <<tableVars, workVars, deliveries, outVars>>

NoAnswers == [v \in Evaluates |-> {}]

Init ==
  /\ table = {} /\ image = [i \in Items |-> NoImage] /\ index = {}
  /\ changes = [i \in Items |-> 0]
  /\ stream = [k \in PKs |-> << >>]
  /\ open = {} /\ todo = [k \in PKs |-> {}] /\ asked = [k \in PKs |-> {}]
  /\ answer = [k \in PKs |-> NoAnswers] /\ failing = [k \in PKs |-> {}]
  /\ deliveries = [e \in Events |-> 0] /\ retries = 0
  /\ emitted = {} /\ faulted = {}
  /\ removals = [i \in Items |-> 0] /\ outlived = {} /\ now = 0
-----------------------------------------------------------------------------
(***************************************************************************)
(* The table and its stream.                                               *)
(***************************************************************************)

\* The stream record of the next change of item i; its eventID is <<i, n>>, `old` the
\* image before the change.
Record(i, name) ==
  [item |-> i, id |-> <<i, changes[i] + 1>>, name |-> name, at |-> now, old |-> image[i]]

Change(i, name) ==
  /\ changes' = [changes EXCEPT ![i] = @ + 1]
  /\ stream' = [stream EXCEPT ![i.pk] = Append(@, Record(i, name))]

\* PutItem: a new item, an item with other contents, or one with the same contents,
\* of which the stream says nothing.
Put(i, x) ==
  /\ table' = table \cup {i}
  /\ image' = [image EXCEPT ![i] = x]
  /\ \/ i \notin table /\ Change(i, "INSERT")
     \/ i \in table /\ Change(i, "MODIFY")
     \/ i \in table /\ image[i] = x /\ UNCHANGED <<changes, stream>>
  /\ UNCHANGED <<index, removals, outlived, now>>

PastTtl(i) == image[i].ttl # 0 /\ now >= image[i].ttl

Remove(i) ==
  /\ i \in table
  /\ removals[i] < MaxRemovals[EventOf(i)]
  /\ table' = table \ {i}
  /\ image' = [image EXCEPT ![i] = NoImage]
  /\ removals' = [removals EXCEPT ![i] = @ + 1]
  /\ Change(i, "REMOVE")
  /\ outlived' = IF image[i].expire /\ PastTtl(i) THEN outlived \cup {<<i, changes[i] + 1>>}
                                                 ELSE outlived
  /\ UNCHANGED <<index, now, workVars, deliveries, outVars>>

\* DynamoDB removes an item some time after its time to live.
Sweep(i) == PastTtl(i) /\ Remove(i)

\* Somebody deletes an item before.
Delete(i) == ~PastTtl(i) /\ Remove(i)

Tick ==
  /\ now < MaxTime
  /\ now' = now + 1
  /\ UNCHANGED <<table, image, index, changes, stream, removals, outlived, workVars,
               deliveries, outVars>>

\* The index learns of one change of the table.
CatchUp(i) ==
  /\ IndexLag
  /\ (i \in table) # (i \in index)
  /\ index' = IF i \in table THEN index \cup {i} ELSE index \ {i}
  /\ UNCHANGED <<table, image, changes, stream, removals, outlived, now, workVars, deliveries,
               outVars>>
-----------------------------------------------------------------------------
(***************************************************************************)
(* The collecting function.                                                *)
(***************************************************************************)

\* The event is delivered, possibly not for the first time, and stored.
Collect(e) ==
  /\ deliveries[e] < MaxDeliveries
  /\ deliveries' = [deliveries EXCEPT ![e] = @ + 1]
  /\ Put(EventItem(e), EventImage(e))
  /\ UNCHANGED <<workVars, outVars>>
\* An operator of Collect fails: the event is reported as a fault, not stored.
CollectFaults(e) ==
  /\ MayFault
  /\ deliveries[e] < MaxDeliveries
  /\ deliveries' = [deliveries EXCEPT ![e] = @ + 1]
  /\ UNCHANGED <<tableVars, workVars, outVars>>
-----------------------------------------------------------------------------
(***************************************************************************)
(* The control function.                                                   *)
(***************************************************************************)

\* _for_collected_events
ForCollectedEvents(r) == r.name = "INSERT" /\ IsEvent(r.item)

\* Mutant: every new image counts, not only the first.
MutForEventsOnModify(v, r) ==
  /\ r.name # "REMOVE"
  /\ v \in HasExpression => EvaluateSuffix[v] = SuffixOf(r.item)

\* _for_events, and on_correlation_key_suffix for the rules with an expression.
ForEvents(v, r) ==
  /\ r.name = "INSERT"
  /\ v \in HasExpression => EvaluateSuffix[v] = SuffixOf(r.item)

\* Mutant: an item stored without `expire` is reported, too.
MutForExpirationAny(r) == r.name = "REMOVE" /\ r.old.ttl # 0 /\ r.at >= r.old.ttl

\* _for_expiration: a removal that did not come before the item's time to live, of an
\* item that was stored with both a ttl and an `expire`.
ForExpiration(r) ==
  /\ r.name = "REMOVE"
  /\ r.old.ttl # 0 /\ r.old.expire
  /\ r.at >= r.old.ttl

\* The rules whose filters let record r pass.
Matching(r) ==
  {c \in Correlates : ForCollectedEvents(r)}
    \cup {v \in Evaluates : ForEvents(v, r)}
    \cup {x \in Expireds : ForExpiration(r)}

First(k) == Head(stream[k])

\* The function is invoked with the first record of a partition key.
Receive(k) ==
  /\ k \notin open
  /\ stream[k] # << >>
  /\ open' = open \cup {k}
  /\ todo' = [todo EXCEPT ![k] = Matching(First(k))]
  /\ UNCHANGED <<tableVars, asked, answer, failing, retries, deliveries, outVars>>

Working(k, l) == k \in open /\ l \in todo[k]

LineDone(k, l) == todo' = [todo EXCEPT ![k] = @ \ {l}]

\* Correlate stores the event under the rule's key.
Correlate(k, c) ==
  /\ c \in Correlates /\ Working(k, c)
  /\ LET e == EventOf(First(k).item)
     IN  Put(CorrelItem(c, e), CorrelImage(c, e))
  /\ LineDone(k, c)
  /\ UNCHANGED <<open, asked, answer, failing, retries, deliveries, outVars>>

\* Mutant: the query of correlated items is not consistent.
MutAnswerStale(i) ==
  IF IsEvent(i)
  THEN {EventOf(j) : j \in {j \in index : IsEvent(j) /\ KeyOf(j) = KeyOf(i)}}
  ELSE {EventOf(j) : j \in {j \in index : j.pk = i.pk}}

\* Mutant: the query of collected events has no key condition.
MutAnswerAnyKey(i) ==
  IF IsEvent(i)
  THEN {EventOf(j) : j \in {j \in table : IsEvent(j)}}
  ELSE {EventOf(j) : j \in {j \in table : j.pk = i.pk}}

\* _to_query_request: a correlated item asks for its partition key with a consistent
\* read, a collected event asks the index for its data.
Answer(i) ==
  IF IsEvent(i)
  THEN {EventOf(j) : j \in {j \in (IF IndexLag THEN index ELSE table) :
                              IsEvent(j) /\ KeyOf(j) = KeyOf(i)}}
  ELSE {EventOf(j) : j \in {j \in table : j.pk = i.pk}}

Query(k, v) ==
  /\ v \in HasExpression /\ Working(k, v) /\ v \notin asked[k]
  /\ asked' = [asked EXCEPT ![k] = @ \cup {v}]
  /\ answer' = [answer EXCEPT ![k][v] = Answer(First(k).item)]
  /\ UNCHANGED <<tableVars, open, todo, failing, retries, deliveries, outVars>>

\* The expression, over the correlated events.
Satisfied(k, v) ==
  v \in HasExpression => Needed[v] \subseteq {Kind[e] : e \in answer[k][v]}

\* _to_higher_order_events and the publisher, if the expression holds.
Evaluate(k, v) ==
  /\ v \in Evaluates /\ Working(k, v)
  /\ v \in HasExpression => v \in asked[k]
  /\ emitted' = emitted \cup
       (IF Satisfied(k, v)
        THEN {[rule |-> v, id |-> First(k).id, key |-> PartitionKey(v, First(k).item)]} ELSE {})
  /\ LineDone(k, v)
  /\ UNCHANGED <<tableVars, open, asked, answer, failing, retries, deliveries, faulted>>

\* _to_expired_event: the stored event with the removal's own id.
Expire(k, x) ==
  /\ x \in Expireds /\ Working(k, x)
  /\ emitted' = emitted \cup
       {[rule |-> x, id |-> First(k).id, key |-> OwnKey[EventOf(First(k).item)]]}
  /\ LineDone(k, x)
  /\ UNCHANGED <<tableVars, open, asked, answer, failing, retries, deliveries, faulted>>

\* An operator of the line fails: the fault is kept until the end of the run.
Fault(k, l) ==
  /\ MayFault
  /\ Working(k, l)
  /\ failing' = [failing EXCEPT ![k] = @ \cup {l}]
  /\ LineDone(k, l)
  /\ UNCHANGED <<tableVars, open, asked, answer, retries, deliveries, outVars>>

\* flush_faults, once all lines have finished.
Flush(k) ==
  /\ k \in open
  /\ todo[k] = {} /\ failing[k] # {}
  /\ faulted' = faulted \cup {[rule |-> l, id |-> First(k).id] : l \in failing[k]}
  /\ failing' = [failing EXCEPT ![k] = {}]
  /\ UNCHANGED <<tableVars, open, todo, asked, answer, retries, deliveries, emitted>>

\* Mutant: what a lost attempt has read survives it.
MutCloseKeepsAnswers(k) ==
  /\ open' = open \ {k}
  /\ todo' = [todo EXCEPT ![k] = {}] /\ failing' = [failing EXCEPT ![k] = {}]
  /\ UNCHANGED <<asked, answer>>

Close(k) ==
  /\ open' = open \ {k}
  /\ todo' = [todo EXCEPT ![k] = {}] /\ failing' = [failing EXCEPT ![k] = {}]
  /\ asked' = [asked EXCEPT ![k] = {}]
  /\ answer' = [answer EXCEPT ![k] = NoAnswers]

\* Mutant: the record is acknowledged while lines are at work.
MutAckEarly(k) ==
  /\ k \in open
  /\ stream' = [stream EXCEPT ![k] = Tail(@)]
  /\ Close(k)
  /\ UNCHANGED <<table, image, index, changes, removals, outlived, now, retries, deliveries,
               outVars>>

\* All lines have finished, and the faults are published: the record is acknowledged.
Ack(k) ==
  /\ k \in open
  /\ todo[k] = {} /\ failing[k] = {}
  /\ stream' = [stream EXCEPT ![k] = Tail(@)]
  /\ Close(k)
  /\ UNCHANGED <<table, image, index, changes, removals, outlived, now, retries, deliveries,
               outVars>>

\* The attempt is lost -- run raised, timed out or was killed -- and repeated.
Lose(k) ==
  /\ k \in open
  /\ retries < MaxRetries
  /\ retries' = retries + 1
  /\ Close(k)
  /\ UNCHANGED <<tableVars, deliveries, outVars>>

Control(k) ==
  \/ Receive(k) \/ Flush(k) \/ Ack(k)
  \/ \E l \in Rules : Correlate(k, l) \/ Query(k, l) \/ Evaluate(k, l) \/ Expire(k, l)
                      \/ Fault(k, l)

\* Nothing is left to do.
Finished ==
  /\ \A e \in Events : deliveries[e] = MaxDeliveries
  /\ \A k \in PKs : stream[k] = << >>
  /\ UNCHANGED vars

Next ==
  \/ Tick
  \/ \E e \in Events : Collect(e) \/ CollectFaults(e)
  \/ \E i \in Items : Sweep(i) \/ Delete(i) \/ CatchUp(i)
  \/ \E k \in PKs : Control(k) \/ Lose(k)
  \/ Finished

Spec == Init /\ [][Next]_vars

\* Lambda goes on invoking the control function while there are records, and the
\* index does not stay behind forever.
FairSpec ==
  /\ Spec
  /\ \A k \in PKs : WF_vars(Control(k))
  /\ \A i \in Items : WF_vars(CatchUp(i))
=============================================================================
