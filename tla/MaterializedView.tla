--------------------------- MODULE MaterializedView ---------------------------
(***************************************************************************)
(* Copies of one entity in the tables of several services.  Every service  *)
(* saves the entity with DefaultStreamFieldsStrategy, announces its own    *)
(* changes with ChangeDataCapture on its table's stream, and copies the    *)
(* others' changes with Materialize and MaterializedViewMixin.  Entities   *)
(* have keys of their own and do not meet, so one of them is enough.       *)
(*                                                                         *)
(* The table, its stream and the bus are external.  A stream keeps the     *)
(* order of a key; the bus delivers every event to every service at least  *)
(* once, in any order.  The fields of an entity are left out, except the   *)
(* version that was copied; the callbacks to_event and to_update_request   *)
(* are those of the README.                                                *)
(***************************************************************************)
EXTENDS Integers, Sequences, FiniteSets

CONSTANTS
  Services,     \* the services that keep a copy of the entity
  NoItem,       \* the entity is not in a table
  MaxCommands,  \* bound on the versions saved and the items removed
  MaxTime,      \* bound on the timestamps of the versions
  MaxErrors     \* bound on the faults that callbacks and tables raise

ASSUME ViewAssumption ==
  /\ NoItem \notin [version : Nat, timestamp : Nat, deleted : BOOLEAN, latched : BOOLEAN]
  /\ MaxCommands \in Nat /\ MaxTime \in Nat /\ MaxErrors \in Nat

VARIABLES
  item,         \* the entity in each service's table
  stream,       \* the records of each table's stream that have not been read
  bus,          \* events on their way to a service
  saved,        \* the versions saved so far: author, timestamp, deleted
  reported,     \* faults: where, about which version, and why
  removed,      \* services whose item has been removed from the table
  now           \* the time

vars == <<item, stream, bus, saved, reported, removed, now>>

Init ==
  /\ item = [s \in Services |-> NoItem]
  /\ stream = [s \in Services |-> << >>]
  /\ bus = {} /\ saved = << >> /\ reported = {} /\ removed = {}
  /\ now = 0

\* The table's stream has a record, with both images, of every change.
Write(s, new) ==
  /\ item' = [item EXCEPT ![s] = new]
  /\ stream' = [stream EXCEPT ![s] = Append(@, [old |-> item[s], new |-> new])]
-----------------------------------------------------------------------------
\* Mutant: the new version is counted from zero.
MutFieldsForFromZero(d, t) ==
  [version |-> Len(saved), timestamp |-> t, deleted |-> d, latched |-> FALSE]

\* The service saves its entity, or marks it deleted: the fields the stream needs.
FieldsFor(d, t) ==
  [version |-> Len(saved) + 1, timestamp |-> t, deleted |-> d, latched |-> FALSE]

Commands == Len(saved) + Cardinality(removed)

Save(s, t, d) ==
  /\ Commands < MaxCommands /\ t >= now
  /\ d => item[s] # NoItem
  /\ Write(s, FieldsFor(d, t))
  /\ saved' = Append(saved, [author |-> s, timestamp |-> t, deleted |-> d])
  /\ now' = t
  /\ UNCHANGED <<bus, reported, removed>>

\* The item is deleted from the table, by the service or by its time to live.
Remove(s) ==
  /\ item[s] # NoItem
  /\ s \notin removed /\ Commands < MaxCommands
  /\ Write(s, NoItem)
  /\ removed' = removed \cup {s}
  /\ UNCHANGED <<bus, saved, reported, now>>
-----------------------------------------------------------------------------
\* The record's image: the new one, or that of the item that was removed.
Image(r) == IF r.new # NoItem THEN r.new ELSE r.old

\* Mutant: only a removal from the table is a deletion.
MutSuffixOfRemoval(r) == IF r.new = NoItem THEN "deleted" ELSE "updated"

\* What the record says happened to the entity.
Suffix(r) ==
  CASE r.new = NoItem                                           -> "deleted"
    [] r.new # NoItem /\ r.new.deleted                          -> "deleted"
    [] r.new # NoItem /\ ~r.new.deleted /\ r.old = NoItem       -> "created"
    [] r.new # NoItem /\ ~r.new.deleted /\ r.old # NoItem       ->
         IF r.old.deleted THEN "undeleted" ELSE "updated"

\* Mutant: listeners' changes are announced too.
MutOutLatchedNever(r) == Image(r).version > 0

\* The trigger's filter: only a change that no listener made is announced.
OutLatched(r) == ~Image(r).latched

EventOf(s, r) ==
  [source |-> s, type |-> Suffix(r), version |-> Image(r).version,
   timestamp |-> Image(r).timestamp]

NextRecord(s) ==
  /\ stream[s] # << >>
  /\ stream' = [stream EXCEPT ![s] = Tail(@)]

\* ChangeDataCapture reads a record and publishes its event to every service, or
\* drops the record.
Capture(s) ==
  /\ NextRecord(s)
  /\ LET r == Head(stream[s])
     IN  bus' = IF OutLatched(r)
                THEN bus \cup {[to |-> u, event |-> EventOf(s, r)] : u \in Services}
                ELSE bus
  /\ UNCHANGED <<item, saved, reported, removed, now>>

Fault(s, version, kind) ==
  reported' = reported \cup {[at |-> s, version |-> version, kind |-> kind]}

Error(s, version) ==
  /\ Cardinality({r \in reported : r.kind = "error"}) < MaxErrors
  /\ Fault(s, version, "error")

\* A callback of the rule raises, and the record's fault is published in its place.
CaptureFaults(s) ==
  /\ NextRecord(s)
  /\ OutLatched(Head(stream[s]))
  /\ Error(s, Image(Head(stream[s])).version)
  /\ UNCHANGED <<item, bus, saved, removed, now>>
-----------------------------------------------------------------------------
\* Mutant: a service reacts to its own events.
MutOutSourceIsSelfNever(s, e) == {s, e.source} \subseteq Services

\* The listener's filter: a service does not react to its own events.
OutSourceIsSelf(s, e) == e.source # s

\* What the update sets: the item is marked as a listener's.
MaterializedFields(e) ==
  [version |-> e.version, timestamp |-> e.timestamp, deleted |-> e.type = "deleted",
   latched |-> TRUE]

\* The bus has delivered m, and may deliver it again later.
Deliver(m) == m \in bus /\ bus' \in {bus, bus \ {m}}

\* Mutant: only the first version is accepted.
MutTimestampConditionFirst(s, e) == item[s] # NoItem => item[s].timestamp < 0 * e.timestamp

\* Only a newer version may replace the one in the table.
TimestampCondition(s, e) == item[s] # NoItem => item[s].timestamp < e.timestamp

\* Materialize gets a delivery and updates the table; the rejected condition of a stale
\* or repeated event is an exception like any other, and becomes a fault.
Materialize(m) ==
  /\ Deliver(m)
  /\ \/ /\ ~OutSourceIsSelf(m.to, m.event)
        /\ UNCHANGED <<item, stream, reported>>
     \/ /\ OutSourceIsSelf(m.to, m.event)
        /\ TimestampCondition(m.to, m.event)
        /\ Write(m.to, MaterializedFields(m.event))
        /\ UNCHANGED reported
     \/ /\ OutSourceIsSelf(m.to, m.event)
        /\ ~TimestampCondition(m.to, m.event)
        /\ Fault(m.to, m.event.version, "condition")
        /\ UNCHANGED <<item, stream>>
  /\ UNCHANGED <<saved, removed, now>>

\* The callback or the table raises, and the event's fault is published.
MaterializeFaults(m) ==
  /\ Deliver(m)
  /\ OutSourceIsSelf(m.to, m.event)
  /\ Error(m.to, m.event.version)
  /\ UNCHANGED <<item, stream, saved, removed, now>>
-----------------------------------------------------------------------------
Service(s) ==
  \/ \E t \in 0..MaxTime, d \in BOOLEAN : Save(s, t, d)
  \/ Remove(s)
  \/ Capture(s)
  \/ CaptureFaults(s)

Next ==
  \/ \E s \in Services : Service(s)
  \/ \E m \in bus : Materialize(m) \/ MaterializeFaults(m)

Spec == Init /\ [][Next]_vars
=============================================================================
