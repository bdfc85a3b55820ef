------------------------------ MODULE SagaProps ------------------------------
(***************************************************************************)
(* The correctness properties of Saga.                                     *)
(***************************************************************************)
EXTENDS Saga

Names == {"INSERT", "MODIFY", "REMOVE"}
Ids == Items \X (Nat \ {0})
StreamRecord == [item : Items, id : Ids, name : Names, at : Nat, old : Image]

\* Every variable has its type; lines work only for an open partition key, whose
\* record they are processing.
TypeOK ==
  /\ table \subseteq Items /\ index \subseteq Items /\ image \in [Items -> Image]
  /\ changes \in [Items -> Nat] /\ removals \in [Items -> Nat]
  /\ stream \in [PKs -> Seq(StreamRecord)]
  /\ open \subseteq PKs
  /\ todo \in [PKs -> SUBSET Rules] /\ asked \in [PKs -> SUBSET Evaluates]
  /\ answer \in [PKs -> [Evaluates -> SUBSET Events]] /\ failing \in [PKs -> SUBSET Rules]
  /\ deliveries \in [Events -> Nat] /\ retries \in Nat /\ now \in Nat
  /\ emitted \subseteq [rule : Rules, id : Ids, key : Keys \cup CorrelPKs]
  /\ faulted \subseteq [rule : Rules, id : Ids]
  /\ outlived \subseteq Ids
  /\ \A k \in PKs : k \in open => stream[k] # << >>
  /\ \A k \in PKs : k \notin open => todo[k] = {} /\ asked[k] = {} /\ failing[k] = {}
-----------------------------------------------------------------------------
\* The items whose events rule v looks at for key k: the correlated ones under the
\* rule's suffix, or the collected ones.
Correlated(v, k) == {i \in Items : ~IsEvent(i) /\ i.pk = <<k, EvaluateSuffix[v]>>}
Collected(v, k)  == {i \in Items : IsEvent(i) /\ KeyOf(i) = k /\ EvaluateSuffix[v] = NoSuffix}

KindsOf(items) == {Kind[EventOf(i)] : i \in items}
Written == {i \in Items : changes[i] > 0}

\* The events rule o.rule asks for have been stored where it looks for them.
Complete(o) ==
  LET seen == IF IsEvent(o.id[1]) THEN Collected(o.rule, o.key) ELSE Correlated(o.rule, o.key)
  IN  Needed[o.rule] \subseteq KindsOf(seen \cap Written)

\* A higher-order event is emitted only if all the events its expression asks for
\* have been stored for that very key and suffix: neither another correlation's
\* events nor a repeated one can stand in for a missing one.
EmittedOnlyWhenComplete == \A o \in emitted : o.rule \in HasExpression => Complete(o)

\* However often an event is delivered, collected, correlated or a record retried, a
\* rule emits under one id per stored item, so that consumers can drop repetitions;
\* only an item that was removed in between counts as new.
OneIdPerStoredItem ==
  \A v \in Evaluates, i \in Items :
    Cardinality({o.id : o \in {o \in emitted : o.rule = v /\ o.id[1] = i}}) <= 1 + removals[i]

\* Rule x has reported the removal id, or the fault that kept it from doing so.
Reported(x, id) ==
  (\E o \in emitted : o.rule = x /\ o.id = id) \/ [rule |-> x, id |-> id] \in faulted

\* The record of removal id is no longer in the stream.
Acknowledged(id) == \A n \in DOMAIN stream[id[1].pk] : stream[id[1].pk][n].id # id

\* Expired reports exactly the items that were last stored with an `expire` and removed
\* after their time to live: each of them, or the fault that kept it from being
\* reported, once its record is acknowledged -- and none that was deleted before,
\* however late that is processed, or that was last stored without `expire`, as by a
\* rule that does not set it.
ExpiryReported ==
  \A x \in Expireds :
    /\ \A id \in outlived : Acknowledged(id) => Reported(x, id)
    /\ \A o \in emitted : o.rule = x => o.id \in outlived
-----------------------------------------------------------------------------
Emitted(v, k) == \E o \in emitted : o.rule = v /\ o.key = k
Faulted(l, items) == \E f \in faulted : f.rule = l /\ f.id[1] \in items

\* Whenever all the correlated events a rule asks for are in the table, it emits --
\* in whatever order, by whatever shards and however often they arrived, and
\* although each trigger looks at the table only once -- or a fault tells why not.
CorrelatedSagaEmits ==
  \A v \in HasExpression, k \in Keys :
    (Needed[v] \subseteq KindsOf(Correlated(v, k) \cap table))
      ~> (Emitted(v, k) \/ Faulted(v, Correlated(v, k)))

\* README: "Evaluate: checks collected/correlated events and emits higher-order events
\* when a condition is satisfied".  The same for collected events.
CollectedSagaEmits ==
  \A v \in HasExpression, k \in Keys :
    (Needed[v] \subseteq KindsOf(Collected(v, k) \cap table))
      ~> (Emitted(v, k) \/ Faulted(v, Collected(v, k)))

\* Every collected event is correlated by every Correlate rule, or a fault says so.
EveryEventIsCorrelated ==
  \A e \in Events, c \in Correlates :
    (EventItem(e) \in table)
      ~> (CorrelItem(c, e) \in Written \/ Faulted(c, {EventItem(e)}))
=============================================================================
