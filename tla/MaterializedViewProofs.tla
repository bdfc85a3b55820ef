------------------------ MODULE MaterializedViewProofs ------------------------
(***************************************************************************)
(* Theorems about MaterializedView for any number of services, versions,   *)
(* removals, faults and deliveries.                                        *)
(***************************************************************************)
EXTENDS MaterializedViewProps, SequenceTheorems, TLAPS

AnImage == Item \cup {NoItem}
RecordSet == [old : AnImage, new : AnImage]
Saved == [author : Services, timestamp : Nat, deleted : BOOLEAN]

\* The records that wait in a stream.
Records(s) == {stream[s][n] : n \in DOMAIN stream[s]}

(***************************************************************************)
(* Streams and the list of versions.                                       *)
(***************************************************************************)

LEMMA NotAnItem == NoItem \notin Item
BY ViewAssumption DEF Item

\* A change of an item adds its record to the stream.
LEMMA WriteAdds ==
  ASSUME TypeOK, NEW s \in Services, NEW new \in AnImage, Write(s, new)
  PROVE  /\ item' \in [Services -> AnImage] /\ stream' \in [Services -> Seq(RecordSet)]
         /\ item'[s] = new
         /\ \A u \in Services : u # s => item'[u] = item[u] /\ Records(u)' = Records(u)
         /\ Records(s)' = Records(s) \cup {[old |-> item[s], new |-> new]}
<1> DEFINE r == [old |-> item[s], new |-> new]
<1>1. item \in [Services -> AnImage] /\ stream \in [Services -> Seq(RecordSet)]
  BY DEF TypeOK, AnImage, RecordSet
<1>2. item' = [item EXCEPT ![s] = new] /\ stream' = [stream EXCEPT ![s] = Append(@, r)]
  BY DEF Write
<1>3. r \in RecordSet
  BY <1>1 DEF RecordSet
<1>4. /\ Append(stream[s], r) \in Seq(RecordSet) /\ Len(stream[s]) \in Nat
      /\ DOMAIN stream[s] = 1..Len(stream[s])
      /\ DOMAIN Append(stream[s], r) = 1..(Len(stream[s]) + 1)
      /\ \A n \in 1..Len(stream[s]) : Append(stream[s], r)[n] = stream[s][n]
      /\ Append(stream[s], r)[Len(stream[s]) + 1] = r
  BY <1>1, <1>3, AppendProperties, LenProperties
<1>5. stream'[s] = Append(stream[s], r) /\ \A u \in Services : u # s => stream'[u] = stream[u]
  BY <1>1, <1>2
<1>6. Records(s)' = Records(s) \cup {r}
  <2>1. \A n \in 1..(Len(stream[s]) + 1) : n \in 1..Len(stream[s]) \/ n = Len(stream[s]) + 1
    BY <1>4
  <2>2. ASSUME NEW x \in Records(s)' PROVE x \in Records(s) \cup {r}
    <3>1. PICK n \in 1..(Len(stream[s]) + 1) : x = Append(stream[s], r)[n]
      BY <1>4, <1>5, <2>2 DEF Records
    <3>2. QED BY <1>4, <2>1, <3>1 DEF Records
  <2>3. ASSUME NEW x \in Records(s) PROVE x \in Records(s)'
    <3>1. PICK n \in 1..Len(stream[s]) : x = stream[s][n]
      BY <1>4, <2>3 DEF Records
    <3>2. n \in 1..(Len(stream[s]) + 1)
      BY <1>4
    <3>3. QED BY <1>4, <1>5, <3>1, <3>2 DEF Records
  <2>4. r \in Records(s)'
    <3>1. Len(stream[s]) + 1 \in 1..(Len(stream[s]) + 1)
      BY <1>4
    <3>2. QED BY <1>4, <1>5, <3>1 DEF Records
  <2>5. QED BY <2>2, <2>3, <2>4
<1>7. \A u \in Services : u # s => Records(u)' = Records(u)
  BY <1>5 DEF Records
<1>8. stream' \in [Services -> Seq(RecordSet)]
  BY <1>1, <1>2, <1>4
<1>9. QED BY <1>1, <1>2, <1>6, <1>7, <1>8

\* Reading a record takes it from the stream, and no other.
LEMMA NextTakes ==
  ASSUME TypeOK, NEW s \in Services, NextRecord(s)
  PROVE  /\ stream' \in [Services -> Seq(RecordSet)]
         /\ Head(stream[s]) \in RecordSet /\ Head(stream[s]) \in Records(s)
         /\ \A u \in Services : u # s => Records(u)' = Records(u)
         /\ Records(s) = Records(s)' \cup {Head(stream[s])}
<1>1. stream \in [Services -> Seq(RecordSet)]
  BY DEF TypeOK, AnImage, RecordSet
<1>2. stream[s] # << >> /\ stream' = [stream EXCEPT ![s] = Tail(@)]
  BY DEF NextRecord
<1>3. /\ Tail(stream[s]) \in Seq(RecordSet) /\ Len(stream[s]) \in Nat \ {0}
      /\ DOMAIN stream[s] = 1..Len(stream[s])
      /\ DOMAIN Tail(stream[s]) = 1..(Len(stream[s]) - 1)
      /\ \A n \in 1..(Len(stream[s]) - 1) : Tail(stream[s])[n] = stream[s][n + 1]
      /\ Head(stream[s]) = stream[s][1] /\ stream[s][1] \in RecordSet
  BY <1>1, <1>2, HeadTailProperties, LenProperties, EmptySeq, ElementOfSeq
<1>4. stream'[s] = Tail(stream[s]) /\ \A u \in Services : u # s => stream'[u] = stream[u]
  BY <1>1, <1>2
<1>5. Records(s) = Records(s)' \cup {Head(stream[s])}
  <2>1. ASSUME NEW x \in Records(s) PROVE x \in Records(s)' \cup {Head(stream[s])}
    <3>1. PICK n \in 1..Len(stream[s]) : x = stream[s][n]
      BY <1>3, <2>1 DEF Records
    <3>2. CASE n = 1
      BY <1>3, <3>1, <3>2
    <3>3. CASE n # 1
      <4>1. n - 1 \in 1..(Len(stream[s]) - 1) /\ (n - 1) + 1 = n
        BY <1>3, <3>3
      <4>2. x = Tail(stream[s])[n - 1]
        BY <1>3, <3>1, <4>1
      <4>3. QED BY <1>3, <1>4, <4>1, <4>2 DEF Records
    <3>4. QED BY <3>2, <3>3
  <2>2. ASSUME NEW x \in Records(s)' PROVE x \in Records(s)
    <3>1. PICK n \in 1..(Len(stream[s]) - 1) : x = Tail(stream[s])[n]
      BY <1>3, <1>4, <2>2 DEF Records
    <3>2. n + 1 \in 1..Len(stream[s]) /\ x = stream[s][n + 1]
      BY <1>3, <3>1
    <3>3. QED BY <1>3, <3>2 DEF Records
  <2>3. 1 \in DOMAIN stream[s]
    BY <1>3
  <2>4. Head(stream[s]) \in Records(s)
    BY <1>3, <2>3 DEF Records
  <2>5. QED BY <2>1, <2>2, <2>4
<1>6. \A u \in Services : u # s => Records(u)' = Records(u)
  BY <1>4 DEF Records
<1>7. stream' \in [Services -> Seq(RecordSet)]
  BY <1>1, <1>2, <1>3
<1>8. QED BY <1>3, <1>5, <1>6, <1>7

\* A version, once saved, is never changed; saving adds one at the end.
LEMMA SaveAppends ==
  ASSUME TypeOK, NEW s \in Services, NEW t \in 0..MaxTime, NEW d \in BOOLEAN, Save(s, t, d)
  PROVE  /\ saved' \in Seq(Saved) /\ Len(saved) \in Nat
         /\ Versions' = Versions \cup {Len(saved) + 1} /\ Len(saved) + 1 \notin Versions
         /\ \A v \in Versions : saved'[v] = saved[v]
         /\ saved'[Len(saved) + 1] = [author |-> s, timestamp |-> t, deleted |-> d]
         /\ FieldsFor(d, t) \in Item
<1> DEFINE x == [author |-> s, timestamp |-> t, deleted |-> d]
<1>1. saved \in Seq(Saved) /\ saved' = Append(saved, x) /\ t \in Nat
  BY ViewAssumption DEF TypeOK, Save, Saved
<1>2. x \in Saved
  BY <1>1 DEF Saved
<1>3. /\ Append(saved, x) \in Seq(Saved) /\ Len(saved) \in Nat
      /\ DOMAIN saved = 1..Len(saved) /\ DOMAIN Append(saved, x) = 1..(Len(saved) + 1)
      /\ \A n \in 1..Len(saved) : Append(saved, x)[n] = saved[n]
      /\ Append(saved, x)[Len(saved) + 1] = x
  BY <1>1, <1>2, AppendProperties, LenProperties
<1>4. Versions' = Versions \cup {Len(saved) + 1} /\ Len(saved) + 1 \notin Versions
  BY <1>1, <1>3 DEF Versions
<1>5. FieldsFor(d, t) \in Item
  BY <1>1, <1>3 DEF FieldsFor, Item
<1>6. QED BY <1>1, <1>3, <1>4, <1>5 DEF Versions

(***************************************************************************)
(* What images, events and faults say of the versions.                     *)
(***************************************************************************)

\* Image i, in the table or the stream of s, is that of a version: with its timestamp,
\* and latched exactly if another service saved it.
Faithful(s, i) ==
  /\ i.version \in Versions
  /\ i.timestamp = saved[i.version].timestamp
  /\ i.latched <=> saved[i.version].author # s

\* The images in the table and the stream of s.
Images(s) ==
  ({item[s]} \cup {r.new : r \in Records(s)} \cup {r.old : r \in Records(s)}) \ {NoItem}

ImagesInv ==
  \A s \in Services :
    /\ \A i \in Images(s) : Faithful(s, i)
    /\ \A r \in Records(s) : r.new # NoItem \/ r.old # NoItem

\* Event e is about a version, and comes from the service that saved it.
Genuine(e) ==
  /\ e.version \in Versions
  /\ e.timestamp = saved[e.version].timestamp
  /\ e.source = saved[e.version].author

EventsInv == \A m \in bus : Genuine(m.event)

\* Faults are about versions, and no version is from the future.
ClockInv ==
  /\ \A v \in Versions : saved[v].timestamp <= now
  /\ \A r \in reported : r.version \in Versions

VersionsInv == TypeOK /\ ImagesInv /\ EventsInv /\ ClockInv

LEMMA VersionsInit == Init => VersionsInv
<1> SUFFICES ASSUME Init PROVE VersionsInv
  OBVIOUS
<1>1. saved = << >> /\ Versions = {} /\ bus = {} /\ reported = {} /\ removed = {} /\ now = 0
  BY DEF Init, Versions
<1>2. item \in [Services -> Item \cup {NoItem}] /\ \A s \in Services : item[s] = NoItem
  BY DEF Init
<1>3. /\ stream \in [Services -> Seq([old : Item \cup {NoItem}, new : Item \cup {NoItem}])]
      /\ \A s \in Services : Records(s) = {}
  BY DEF Init, Records
<1>4. TypeOK
  BY <1>1, <1>2, <1>3, EmptySeq DEF TypeOK
<1>5. QED BY <1>1, <1>2, <1>3, <1>4 DEF VersionsInv, ImagesInv, Images, EventsInv, ClockInv

\* What the image of a record says, and what the event made of it says.
LEMMA CapturedIsGenuine ==
  ASSUME VersionsInv, NEW s \in Services, NextRecord(s)
  PROVE  /\ Image(Head(stream[s])) \in Item /\ Faithful(s, Image(Head(stream[s])))
         /\ EventOf(s, Head(stream[s])) \in Event
         /\ OutLatched(Head(stream[s])) => Genuine(EventOf(s, Head(stream[s])))
<1> DEFINE r == Head(stream[s])
<1>1. r \in RecordSet /\ r \in Records(s)
  BY NextTakes DEF VersionsInv
<1>2. /\ r.new # NoItem \/ r.old # NoItem
      /\ r.new # NoItem => Faithful(s, r.new)
      /\ r.old # NoItem => Faithful(s, r.old)
  BY <1>1 DEF VersionsInv, ImagesInv, Images
<1>3. Image(r) \in Item /\ Faithful(s, Image(r))
  BY <1>1, <1>2 DEF Image, RecordSet, AnImage
<1>4. Suffix(r) \in {"created", "updated", "deleted", "undeleted"}
  <2>1. r.new \in Item \cup {NoItem} /\ r.old \in Item \cup {NoItem}
    BY <1>1 DEF RecordSet, AnImage
  <2>2. CASE r.new = NoItem
    BY <2>2 DEF Suffix
  <2>3. CASE r.new # NoItem
    <3>1. r.new.deleted \in BOOLEAN
      BY <2>1, <2>3 DEF Item
    <3>2. CASE r.new.deleted
      BY <2>3, <3>2 DEF Suffix
    <3>3. CASE ~r.new.deleted /\ r.old = NoItem
      BY <2>3, <3>3 DEF Suffix
    <3>4. CASE ~r.new.deleted /\ r.old # NoItem
      BY <2>3, <3>4 DEF Suffix
    <3>5. QED BY <3>1, <3>2, <3>3, <3>4
  <2>4. QED BY <2>2, <2>3
<1>5. EventOf(s, r) \in Event
  BY <1>3, <1>4 DEF EventOf, Event, Item
<1>6. OutLatched(r) => Genuine(EventOf(s, r))
  BY <1>3 DEF OutLatched, Faithful, Genuine, EventOf
<1>7. QED BY <1>3, <1>5, <1>6

\* The update that an event makes.
LEMMA MaterializedIsFaithful ==
  ASSUME VersionsInv, NEW m \in bus, OutSourceIsSelf(m.to, m.event)
  PROVE  /\ m.to \in Services /\ m.event \in Event /\ MaterializedFields(m.event) \in Item
         /\ Faithful(m.to, MaterializedFields(m.event))
<1>1. m.to \in Services /\ m.event \in Event
  BY DEF VersionsInv, TypeOK
<1>2. Genuine(m.event)
  BY DEF VersionsInv, EventsInv
<1>3. (m.event.type = "deleted") \in BOOLEAN
  OBVIOUS
<1>4. MaterializedFields(m.event) \in Item
  BY <1>1, <1>3 DEF MaterializedFields, Item, Event
<1>5. Faithful(m.to, MaterializedFields(m.event))
  BY <1>2 DEF Faithful, Genuine, MaterializedFields, OutSourceIsSelf
<1>6. QED BY <1>1, <1>4, <1>5

\* A change of the item of s to image x brings no other image.
LEMMA ImagesWrite ==
  ASSUME VersionsInv, NEW s \in Services, NEW x \in AnImage, Write(s, x),
         item[s] # NoItem \/ x # NoItem, x # NoItem => Faithful(s, x)',
         \A u \in Services : \A i : Faithful(u, i) => Faithful(u, i)'
  PROVE  ImagesInv'
<1>1. /\ item'[s] = x
      /\ \A u \in Services : u # s => item'[u] = item[u] /\ Records(u)' = Records(u)
      /\ Records(s)' = Records(s) \cup {[old |-> item[s], new |-> x]}
  BY WriteAdds DEF VersionsInv
<1>2. Images(s)' \subseteq (Images(s) \cup {x}) \ {NoItem}
  BY <1>1 DEF Images
<1>3. \A u \in Services : u # s => Images(u)' = Images(u)
  BY <1>1 DEF Images
<1>4. ASSUME NEW u \in Services, NEW i \in Images(u)' PROVE Faithful(u, i)'
  <2>1. CASE i \in Images(u)
    BY <2>1 DEF VersionsInv, ImagesInv
  <2>2. CASE i \notin Images(u)
    BY <1>2, <1>3, <1>4, <2>2
  <2>3. QED BY <2>1, <2>2
<1>5. ASSUME NEW u \in Services, NEW r \in Records(u)' PROVE r.new # NoItem \/ r.old # NoItem
  BY <1>1, <1>5 DEF VersionsInv, ImagesInv
<1>6. QED BY <1>4, <1>5 DEF ImagesInv

LEMMA VersionsSave ==
  ASSUME VersionsInv, NEW s \in Services, NEW t \in 0..MaxTime, NEW d \in BOOLEAN, Save(s, t, d)
  PROVE  VersionsInv'
<1>1. TypeOK
  BY DEF VersionsInv
<1>2. PICK x : x = FieldsFor(d, t)
  OBVIOUS
<1>3. /\ saved' \in Seq(Saved) /\ Len(saved) \in Nat
      /\ Versions' = Versions \cup {Len(saved) + 1} /\ Len(saved) + 1 \notin Versions
      /\ \A v \in Versions : saved'[v] = saved[v]
      /\ saved'[Len(saved) + 1] = [author |-> s, timestamp |-> t, deleted |-> d]
      /\ x \in Item
  BY <1>1, <1>2, SaveAppends
<1>4. /\ Write(s, x) /\ now' = t /\ t >= now /\ t \in Nat
      /\ bus' = bus /\ reported' = reported /\ removed' = removed
  BY <1>2, ViewAssumption DEF Save
<1>5. /\ item' \in [Services -> AnImage] /\ stream' \in [Services -> Seq(RecordSet)]
      /\ item'[s] = x /\ \A u \in Services : u # s => item'[u] = item[u]
  BY <1>1, <1>3, <1>4, WriteAdds DEF AnImage
<1>6. x.version = Len(saved) + 1 /\ x.timestamp = t /\ ~x.latched /\ x # NoItem
  BY <1>2, <1>3, NotAnItem DEF FieldsFor
<1>7. Faithful(s, x)'
  BY <1>3, <1>6 DEF Faithful
<1>8. \A u \in Services : \A i : Faithful(u, i) => Faithful(u, i)'
  BY <1>3 DEF Faithful
<1>9. ImagesInv'
  BY <1>3, <1>4, <1>6, <1>7, <1>8, ImagesWrite DEF AnImage
<1>10. TypeOK'
  BY <1>1, <1>3, <1>4, <1>5, <1>6 DEF TypeOK, Saved, AnImage, RecordSet
<1>11. EventsInv'
  BY <1>3, <1>4 DEF VersionsInv, EventsInv, Genuine
<1>12. ClockInv'
  <2>1. ASSUME NEW v \in Versions PROVE saved[v].timestamp \in Nat /\ saved[v].timestamp <= now
    <3>1. saved[v] \in Saved
      BY <1>1, ElementOfSeq, LenProperties DEF TypeOK, Versions, Saved
    <3>2. QED BY <3>1 DEF VersionsInv, ClockInv, Saved
  <2>2. now \in Nat
    BY <1>1 DEF TypeOK
  <2>3. QED BY <1>3, <1>4, <2>1, <2>2 DEF VersionsInv, ClockInv
<1>13. QED BY <1>9, <1>10, <1>11, <1>12 DEF VersionsInv

LEMMA VersionsRemove ==
  ASSUME VersionsInv, NEW s \in Services, Remove(s)
  PROVE  VersionsInv'
<1>1. TypeOK /\ Write(s, NoItem) /\ item[s] # NoItem /\ NoItem \in AnImage
  BY DEF VersionsInv, Remove, AnImage
<1>2. /\ saved' = saved /\ bus' = bus /\ reported' = reported /\ now' = now
      /\ removed' = removed \cup {s} /\ Versions' = Versions
  BY DEF Remove, Versions
<1>3. /\ item' \in [Services -> AnImage] /\ stream' \in [Services -> Seq(RecordSet)]
      /\ item'[s] = NoItem /\ \A u \in Services : u # s => item'[u] = item[u]
  BY <1>1, WriteAdds
<1>4. TypeOK'
  BY <1>1, <1>2, <1>3 DEF TypeOK, AnImage, RecordSet
<1>5. \A u \in Services : \A i : Faithful(u, i) => Faithful(u, i)'
  BY <1>2 DEF Faithful
<1>6. ImagesInv'
  BY <1>1, <1>5, ImagesWrite
<1>7. EventsInv' /\ ClockInv'
  BY <1>2 DEF VersionsInv, EventsInv, Genuine, ClockInv
<1>8. QED BY <1>4, <1>6, <1>7 DEF VersionsInv

\* Reading a record leaves only images that were there.
LEMMA ImagesNext ==
  ASSUME VersionsInv, NEW s \in Services, NextRecord(s), UNCHANGED <<item, saved>>
  PROVE  ImagesInv'
<1>1. /\ \A u \in Services : u # s => Records(u)' = Records(u)
      /\ Records(s)' \subseteq Records(s)
  BY NextTakes DEF VersionsInv
<1>2. \A u \in Services : Images(u)' \subseteq Images(u) /\ Records(u)' \subseteq Records(u)
  BY <1>1 DEF Images
<1>3. \A u \in Services : \A i : Faithful(u, i) => Faithful(u, i)'
  BY DEF Faithful, Versions
<1>4. QED BY <1>2, <1>3 DEF VersionsInv, ImagesInv

LEMMA VersionsCapture ==
  ASSUME VersionsInv, NEW s \in Services, Capture(s) \/ CaptureFaults(s)
  PROVE  VersionsInv'
<1> DEFINE r == Head(stream[s])
<1>1. TypeOK /\ NextRecord(s) /\ UNCHANGED <<item, saved, removed, now>> /\ Versions' = Versions
  BY DEF VersionsInv, Capture, CaptureFaults, Versions
<1>2. /\ Image(r) \in Item /\ Faithful(s, Image(r)) /\ EventOf(s, r) \in Event
      /\ OutLatched(r) => Genuine(EventOf(s, r))
  BY <1>1, CapturedIsGenuine
<1>3. ASSUME NEW m \in bus', m \notin bus
      PROVE  OutLatched(r) /\ m.event = EventOf(s, r) /\ m \in [to : Services, event : Event]
  <2>1. \/ bus' = bus
        \/ /\ OutLatched(r)
           /\ bus' = bus \cup {[to |-> u, event |-> EventOf(s, r)] : u \in Services}
    BY DEF Capture, CaptureFaults
  <2>2. PICK u \in Services : m = [to |-> u, event |-> EventOf(s, r)]
    BY <1>3, <2>1
  <2>3. QED BY <1>2, <1>3, <2>1, <2>2
<1>4. reported' \subseteq reported \cup {[at |-> s, version |-> Image(r).version, kind |-> "error"]}
  BY DEF Capture, CaptureFaults, Error, Fault
<1>5. Image(r).version \in Nat \ {0} /\ Image(r).version \in Versions
  BY <1>2 DEF Faithful, Item
<1>6. stream' \in [Services -> Seq(RecordSet)]
  BY <1>1, NextTakes
<1>7. TypeOK'
  <2>1. bus' \subseteq [to : Services, event : Event]
    BY <1>1, <1>3 DEF TypeOK
  <2>2. reported' \subseteq [at : Services, version : Nat \ {0}, kind : {"condition", "error"}]
    BY <1>1, <1>4, <1>5 DEF TypeOK
  <2>3. QED BY <1>1, <1>6, <2>1, <2>2 DEF TypeOK, RecordSet, AnImage
<1>8. ImagesInv'
  BY <1>1, ImagesNext
<1>9. \A e : Genuine(e) => Genuine(e)'
  BY <1>1 DEF Genuine
<1>10. EventsInv'
  BY <1>2, <1>3, <1>9 DEF VersionsInv, EventsInv
<1>11. ClockInv'
  BY <1>1, <1>4, <1>5 DEF VersionsInv, ClockInv
<1>12. QED BY <1>7, <1>8, <1>10, <1>11 DEF VersionsInv

LEMMA VersionsMaterialize ==
  ASSUME VersionsInv, NEW m \in bus, Materialize(m) \/ MaterializeFaults(m)
  PROVE  VersionsInv'
<1>1. TypeOK /\ m.to \in Services /\ m.event \in Event /\ Genuine(m.event)
  BY DEF VersionsInv, TypeOK, EventsInv
<1>2. saved' = saved /\ now' = now /\ removed' = removed /\ Versions' = Versions /\ bus' \subseteq bus
  BY DEF Materialize, MaterializeFaults, Deliver, Versions
<1>3. \A u \in Services : \A i : Faithful(u, i) => Faithful(u, i)'
  BY <1>2 DEF Faithful
<1>4. EventsInv'
  BY <1>2 DEF VersionsInv, EventsInv, Genuine
<1>5. \/ UNCHANGED <<item, stream>>
      \/ /\ OutSourceIsSelf(m.to, m.event) /\ Write(m.to, MaterializedFields(m.event))
         /\ reported' = reported
  BY DEF Materialize, MaterializeFaults
<1>6. PICK x : x = MaterializedFields(m.event)
  OBVIOUS
<1>7. CASE UNCHANGED <<item, stream>>
  <2>1. \E k \in {"condition", "error"} :
          reported' \subseteq reported \cup {[at |-> m.to, version |-> m.event.version, kind |-> k]}
    BY DEF Materialize, MaterializeFaults, Error, Fault
  <2>2. m.event.version \in Nat \ {0} /\ m.event.version \in Versions
    BY <1>1 DEF Event, Genuine
  <2>3. TypeOK'
    <3>1. reported' \subseteq [at : Services, version : Nat \ {0}, kind : {"condition", "error"}]
      BY <1>1, <2>1, <2>2 DEF TypeOK
    <3>2. bus' \subseteq [to : Services, event : Event]
      BY <1>1, <1>2 DEF TypeOK
    <3>3. QED BY <1>1, <1>2, <1>7, <3>1, <3>2 DEF TypeOK
  <2>4. ImagesInv'
    <3>1. \A u \in Services : Images(u)' = Images(u) /\ Records(u)' = Records(u)
      BY <1>7 DEF Images, Records
    <3>2. QED BY <1>3, <3>1 DEF VersionsInv, ImagesInv
  <2>5. ClockInv'
    BY <1>2, <2>1, <2>2 DEF VersionsInv, ClockInv
  <2>6. QED BY <1>4, <2>3, <2>4, <2>5 DEF VersionsInv
<1>8. CASE /\ OutSourceIsSelf(m.to, m.event) /\ Write(m.to, x) /\ reported' = reported
  <2>1. x \in Item /\ x # NoItem /\ Faithful(m.to, x)
    BY <1>6, <1>8, MaterializedIsFaithful, NotAnItem
  <2>2. /\ item' \in [Services -> AnImage] /\ stream' \in [Services -> Seq(RecordSet)]
        /\ item'[m.to] = x /\ \A u \in Services : u # m.to => item'[u] = item[u]
    BY <1>1, <1>8, <2>1, WriteAdds DEF AnImage
  <2>3. Faithful(m.to, x)'
    BY <1>1, <1>3, <2>1
  <2>4. ImagesInv'
    BY <1>1, <1>3, <1>8, <2>1, <2>3, ImagesWrite DEF AnImage
  <2>5. TypeOK'
    BY <1>1, <1>2, <1>8, <2>1, <2>2 DEF TypeOK, AnImage, RecordSet, Faithful
  <2>6. ClockInv'
    BY <1>2, <1>8 DEF VersionsInv, ClockInv
  <2>7. QED BY <1>4, <2>4, <2>5, <2>6 DEF VersionsInv
<1>9. QED BY <1>5, <1>6, <1>7, <1>8

LEMMA VersionsStep == VersionsInv /\ [Next]_vars => VersionsInv'
<1> SUFFICES ASSUME VersionsInv, [Next]_vars PROVE VersionsInv'
  OBVIOUS
<1>1. ASSUME NEW s \in Services, Service(s) PROVE VersionsInv'
  BY <1>1, VersionsSave, VersionsRemove, VersionsCapture DEF Service
<1>2. ASSUME NEW m \in bus, Materialize(m) \/ MaterializeFaults(m) PROVE VersionsInv'
  BY <1>2, VersionsMaterialize
<1>3. CASE UNCHANGED vars
  <2>1. TypeOK' /\ ClockInv'
    BY <1>3 DEF VersionsInv, TypeOK, ClockInv, vars, Versions
  <2>2. \A u \in Services : Images(u)' = Images(u) /\ Records(u)' = Records(u)
    BY <1>3 DEF Images, Records, vars
  <2>3. ImagesInv' /\ EventsInv'
    BY <1>3, <2>2 DEF VersionsInv, ImagesInv, EventsInv, Faithful, Genuine, vars, Versions
  <2>4. QED BY <2>1, <2>3 DEF VersionsInv
<1>4. QED BY <1>1, <1>2, <1>3 DEF Next

THEOREM VersionsInvariant == Spec => []VersionsInv
<1>1. QED BY VersionsInit, VersionsStep, PTL DEF Spec

\* Every variable has its type, and tables hold only versions that were saved.
THEOREM ViewTypes == Spec => []TypeOK
<1>1. VersionsInv => TypeOK
  BY DEF VersionsInv
<1>2. QED BY <1>1, VersionsInvariant, PTL

\* For any services: an item is latched exactly if another service saved its version.
THEOREM CopiesAreLatched == Spec => []LatchMarksCopies
<1>1. VersionsInv => LatchMarksCopies
  BY DEF VersionsInv, ImagesInv, Images, Faithful, LatchMarksCopies
<1>2. QED BY <1>1, VersionsInvariant, PTL

\* For any services: what a service announces it has saved itself.
THEOREM ChangesDoNotEcho == Spec => []NoEcho
<1>1. VersionsInv => NoEcho
  BY DEF VersionsInv, EventsInv, Genuine, NoEcho
<1>2. QED BY <1>1, VersionsInvariant, PTL

(***************************************************************************)
(* Timestamps of an item never go back, unless it is removed.              *)
(***************************************************************************)

AtLeast(s, t) == item[s] # NoItem /\ item[s].timestamp >= t

LEMMA NeverBack ==
  ASSUME VersionsInv, [Next]_vars, NEW s \in Services, s \notin removed', NEW t \in Nat, AtLeast(s, t)
  PROVE  AtLeast(s, t)' /\ s \notin removed
<1>1. TypeOK /\ item[s] \in Item /\ item[s].timestamp \in Nat /\ item[s].timestamp >= t
  BY DEF VersionsInv, TypeOK, AtLeast, Item
<1>2. item[s].timestamp <= now
  BY DEF VersionsInv, ClockInv, ImagesInv, Images, Faithful, AtLeast
<1>3. removed \subseteq removed'
  BY DEF Next, Service, Save, Remove, Capture, CaptureFaults, Materialize, MaterializeFaults, vars
<1>4. ASSUME NEW u \in Services, NEW x \in Item, Write(u, x), u = s => x.timestamp >= t
      PROVE  AtLeast(s, t)'
  <2>1. item'[u] = x /\ (u # s => item'[s] = item[s]) /\ x # NoItem
    BY <1>1, <1>4, WriteAdds, NotAnItem DEF AnImage
  <2>2. QED BY <1>1, <1>4, <2>1 DEF AtLeast
<1>5. ASSUME item' = item PROVE AtLeast(s, t)'
  <2>1. item'[s] = item[s]
    BY <1>5
  <2>2. QED BY <2>1 DEF AtLeast
<1>6. ASSUME NEW u \in Services, NEW k \in 0..MaxTime, NEW d \in BOOLEAN, Save(u, k, d)
      PROVE  AtLeast(s, t)'
  <2>1. FieldsFor(d, k) \in Item /\ FieldsFor(d, k).timestamp = k
    BY <1>1, <1>6, SaveAppends DEF FieldsFor
  <2>2. k \in Nat /\ k >= now /\ now \in Nat /\ Write(u, FieldsFor(d, k))
    BY <1>1, <1>6, ViewAssumption DEF Save, TypeOK
  <2>3. k >= t
    BY <1>1, <1>2, <2>2
  <2>4. QED BY <1>4, <2>1, <2>2, <2>3
<1>7. ASSUME NEW u \in Services, Remove(u) PROVE AtLeast(s, t)'
  <2>1. u # s /\ Write(u, NoItem)
    BY <1>7 DEF Remove
  <2>2. item'[s] = item[s]
    BY <1>1, <2>1, WriteAdds DEF AnImage
  <2>3. QED BY <2>2 DEF AtLeast
<1>8. ASSUME NEW m \in bus, Materialize(m), item' # item PROVE AtLeast(s, t)'
  <2>1. /\ OutSourceIsSelf(m.to, m.event) /\ TimestampCondition(m.to, m.event)
        /\ Write(m.to, MaterializedFields(m.event))
    BY <1>8 DEF Materialize
  <2>2. /\ m.to \in Services /\ MaterializedFields(m.event) \in Item /\ m.event \in Event
        /\ MaterializedFields(m.event).timestamp = m.event.timestamp
    BY <2>1, MaterializedIsFaithful DEF MaterializedFields
  <2>3. m.to = s => m.event.timestamp >= t
    BY <1>1, <2>1, <2>2 DEF TimestampCondition, Event, AtLeast
  <2>4. QED BY <1>4, <2>1, <2>2, <2>3
<1>9. ASSUME NEW u \in Services, Service(u) PROVE AtLeast(s, t)'
  BY <1>5, <1>6, <1>7, <1>9 DEF Service, Capture, CaptureFaults
<1>10. ASSUME NEW m \in bus, Materialize(m) \/ MaterializeFaults(m) PROVE AtLeast(s, t)'
  BY <1>5, <1>8, <1>10 DEF MaterializeFaults
<1>11. AtLeast(s, t)'
  BY <1>5, <1>9, <1>10 DEF Next, vars
<1>12. QED BY <1>3, <1>11

\* A table never takes an older version of an item for a newer one, in whatever order events are
\* delivered and however often, unless the item has been removed from it.
ItemsNeverGoBack ==
  [][\A s \in Services :
       s \notin removed' /\ item[s] # NoItem =>
         item'[s] # NoItem /\ item'[s].timestamp >= item[s].timestamp]_vars

THEOREM OlderNeverReplaces == Spec => ItemsNeverGoBack
<1>1. ASSUME VersionsInv, [Next]_vars, NEW s \in Services, s \notin removed', item[s] # NoItem
      PROVE  item'[s] # NoItem /\ item'[s].timestamp >= item[s].timestamp
  <2>1. PICK t \in Nat : t = item[s].timestamp
    BY <1>1 DEF VersionsInv, TypeOK, Item
  <2>2. AtLeast(s, t)
    BY <1>1, <2>1 DEF AtLeast
  <2>3. AtLeast(s, t)'
    BY <1>1, <2>2, NeverBack
  <2>4. QED BY <2>1, <2>3 DEF AtLeast
<1>2. VersionsInv /\ [Next]_vars =>
        [\A s \in Services :
           s \notin removed' /\ item[s] # NoItem =>
             item'[s] # NoItem /\ item'[s].timestamp >= item[s].timestamp]_vars
  BY <1>1
<1>3. QED BY <1>2, VersionsInvariant, PTL DEF Spec, ItemsNeverGoBack

\* The version of a new fault, and why a condition was rejected.
LEMMA RejectedStep ==
  ASSUME VersionsInv, RejectedIsStale, [Next]_vars
  PROVE  RejectedIsStale'
<1> SUFFICES ASSUME NEW r \in reported', r.kind = "condition", r.at \notin removed'
             PROVE  item'[r.at] # NoItem /\ item'[r.at].timestamp >= saved'[r.version].timestamp
  BY DEF RejectedIsStale
<1>1. TypeOK /\ TypeOK'
  BY VersionsStep DEF VersionsInv
<1>2. r.at \in Services
  BY <1>1 DEF TypeOK
<1>3. \A v \in Versions : saved'[v] = saved[v] /\ saved[v].timestamp \in Nat
  <2>1. ASSUME NEW v \in Versions PROVE saved[v] \in Saved
    <3>1. saved \in Seq(Saved)
      BY <1>1 DEF TypeOK, Saved
    <3>2. QED BY <3>1, ElementOfSeq, LenProperties DEF Versions
  <2>2. \A v \in Versions : saved'[v] = saved[v]
    <3>1. CASE saved' = saved
      BY <3>1
    <3>2. CASE saved' # saved
      <4>1. PICK s \in Services, t \in 0..MaxTime, d \in BOOLEAN : Save(s, t, d)
        BY <3>2 DEF Next, Service, Remove, Capture, CaptureFaults, Materialize, MaterializeFaults, vars
      <4>2. QED BY <1>1, <4>1, SaveAppends
    <3>3. QED BY <3>1, <3>2
  <2>3. QED BY <2>1, <2>2 DEF Saved
<1>4. CASE r \in reported
  <2>1. r.version \in Versions /\ r.at \notin removed
    <3>1. removed \subseteq removed'
      BY DEF Next, Service, Save, Remove, Capture, CaptureFaults, Materialize, MaterializeFaults, vars
    <3>2. QED BY <1>4, <3>1 DEF VersionsInv, ClockInv
  <2>2. AtLeast(r.at, saved[r.version].timestamp)
    BY <1>4, <2>1 DEF RejectedIsStale, AtLeast
  <2>3. PICK t \in Nat : t = saved[r.version].timestamp
    BY <1>3, <2>1
  <2>4. AtLeast(r.at, t)'
    BY <1>2, <2>2, <2>3, NeverBack
  <2>5. QED BY <1>3, <2>1, <2>3, <2>4 DEF AtLeast
<1>5. CASE r \notin reported
  <2>1. ASSUME NEW u \in Services, Service(u) PROVE FALSE
    <3>1. reported' = reported \/ CaptureFaults(u)
      BY <2>1 DEF Service, Save, Remove, Capture
    <3>2. r.kind = "error"
      BY <1>5, <3>1 DEF CaptureFaults, Error, Fault
    <3>3. QED BY <3>2
  <2>2. ASSUME NEW m \in bus, MaterializeFaults(m) PROVE FALSE
    BY <1>5, <2>2 DEF MaterializeFaults, Error, Fault
  <2>3. PICK m \in bus : Materialize(m)
    BY <1>5, <2>1, <2>2 DEF Next, vars
  <2>4. /\ ~TimestampCondition(m.to, m.event) /\ item' = item /\ saved' = saved
        /\ r = [at |-> m.to, version |-> m.event.version, kind |-> "condition"]
    BY <1>5, <2>3 DEF Materialize, Fault
  <2>5. m.to \in Services /\ m.event \in Event /\ m.event.timestamp = saved[m.event.version].timestamp
    BY <1>1 DEF VersionsInv, EventsInv, Genuine, TypeOK
  <2>6. item[m.to] # NoItem /\ ~(item[m.to].timestamp < m.event.timestamp)
    BY <2>4 DEF TimestampCondition
  <2>7. item[m.to].timestamp \in Nat /\ m.event.timestamp \in Nat
    BY <1>1, <2>5, <2>6 DEF TypeOK, Item, Event
  <2>8. QED BY <2>4, <2>5, <2>6, <2>7
<1>6. QED BY <1>4, <1>5

\* A rejected condition never hides a lost change, for any number of deliveries.
THEOREM RejectionsAreHarmless == Spec => []RejectedIsStale
<1>1. Init => RejectedIsStale
  BY DEF Init, RejectedIsStale
<1>2. VersionsInv /\ RejectedIsStale /\ [Next]_vars => RejectedIsStale'
  BY RejectedStep
<1>3. QED BY <1>1, <1>2, VersionsInvariant, PTL DEF Spec

(***************************************************************************)
(* As long as no item is removed, deletions stay with their versions.      *)
(***************************************************************************)

DeletedInv == removed = {} =>
  /\ \A s \in Services : \A i \in Images(s) : i.deleted = saved[i.version].deleted
  /\ \A s \in Services : \A r \in Records(s) : r.new # NoItem
  /\ \A m \in bus : (m.event.type = "deleted") = saved[m.event.version].deleted

\* What a step does to the versions, and to the removals.
LEMMA SavedKept ==
  ASSUME VersionsInv, [Next]_vars
  PROVE  /\ \A v \in Versions : v \in Versions' /\ saved'[v] = saved[v] /\ saved[v] \in Saved
         /\ removed \subseteq removed'
<1>1. TypeOK
  BY DEF VersionsInv
<1>2. saved \in Seq(Saved)
  BY <1>1 DEF TypeOK, Saved
<1>3. \A v \in Versions : saved[v] \in Saved
  BY <1>2, ElementOfSeq, LenProperties DEF Versions
<1>4. \A v \in Versions : v \in Versions' /\ saved'[v] = saved[v]
  <2>1. CASE saved' = saved
    BY <2>1 DEF Versions
  <2>2. CASE saved' # saved
    <3>1. PICK s \in Services, t \in 0..MaxTime, d \in BOOLEAN : Save(s, t, d)
      BY <2>2 DEF Next, Service, Remove, Capture, CaptureFaults, Materialize, MaterializeFaults, vars
    <3>2. QED BY <1>1, <3>1, SaveAppends
  <2>3. QED BY <2>1, <2>2
<1>5. removed \subseteq removed'
  BY DEF Next, Service, Save, Remove, Capture, CaptureFaults, Materialize, MaterializeFaults, vars
<1>6. QED BY <1>3, <1>4, <1>5

\* A change to an image that tells of its version's deletion.
LEMMA DeletedWrite ==
  ASSUME VersionsInv, DeletedInv, [Next]_vars, removed' = {}, NEW s \in Services,
         NEW x \in Item, Write(s, x), x.deleted = saved'[x.version].deleted, bus' \subseteq bus
  PROVE  DeletedInv'
<1>1. removed = {} /\ TypeOK
  BY SavedKept DEF VersionsInv
<1>2. x # NoItem
  BY NotAnItem
<1>3. /\ item'[s] = x
      /\ \A u \in Services : u # s => item'[u] = item[u] /\ Records(u)' = Records(u)
      /\ Records(s)' = Records(s) \cup {[old |-> item[s], new |-> x]}
  BY <1>1, WriteAdds DEF AnImage
<1>4. Images(s)' \subseteq (Images(s) \cup {x}) \ {NoItem}
      /\ \A u \in Services : u # s => Images(u)' = Images(u)
  BY <1>3 DEF Images
<1>5. ASSUME NEW u \in Services, NEW i \in Images(u)' PROVE i.deleted = saved'[i.version].deleted
  <2>1. CASE i \in Images(u)
    <3>1. i.version \in Versions /\ i.deleted = saved[i.version].deleted
      BY <1>1, <2>1 DEF DeletedInv, VersionsInv, ImagesInv, Faithful
    <3>2. QED BY <3>1, SavedKept
  <2>2. CASE i \notin Images(u)
    BY <1>4, <1>5, <2>2
  <2>3. QED BY <2>1, <2>2
<1>6. ASSUME NEW u \in Services, NEW r \in Records(u)' PROVE r.new # NoItem
  BY <1>1, <1>2, <1>3, <1>6 DEF DeletedInv
<1>7. ASSUME NEW m \in bus' PROVE (m.event.type = "deleted") = saved'[m.event.version].deleted
  <2>1. m \in bus /\ m.event.version \in Versions
    BY <1>7 DEF VersionsInv, EventsInv, Genuine
  <2>2. QED BY <1>1, <2>1, SavedKept DEF DeletedInv
<1>8. QED BY <1>5, <1>6, <1>7 DEF DeletedInv

LEMMA DeletedStep ==
  ASSUME VersionsInv, DeletedInv, [Next]_vars
  PROVE  DeletedInv'
<1> SUFFICES ASSUME removed' = {} PROVE DeletedInv'
  BY DEF DeletedInv
<1>1. removed = {} /\ TypeOK
  BY SavedKept DEF VersionsInv
<1>2. ASSUME NEW s \in Services, NEW t \in 0..MaxTime, NEW d \in BOOLEAN, Save(s, t, d)
      PROVE  DeletedInv'
  <2>1. PICK x : x = FieldsFor(d, t)
    OBVIOUS
  <2>2. x \in Item /\ x.deleted = d /\ saved'[x.version].deleted = d
    <3>1. x.deleted = d /\ x.version = Len(saved) + 1
      BY <2>1 DEF FieldsFor
    <3>2. x \in Item /\ saved'[Len(saved) + 1] = [author |-> s, timestamp |-> t, deleted |-> d]
      BY <1>1, <1>2, <2>1, SaveAppends
    <3>3. QED BY <3>1, <3>2
  <2>3. Write(s, x) /\ bus' = bus
    BY <1>2, <2>1 DEF Save
  <2>4. QED BY <2>2, <2>3, DeletedWrite
<1>3. ASSUME NEW m \in bus, Materialize(m), ~UNCHANGED <<item, stream>> PROVE DeletedInv'
  <2>1. PICK x : x = MaterializedFields(m.event)
    OBVIOUS
  <2>2. OutSourceIsSelf(m.to, m.event) /\ Write(m.to, x) /\ saved' = saved /\ bus' \subseteq bus
    BY <1>3, <2>1 DEF Materialize, Deliver
  <2>3. m.to \in Services /\ x \in Item
    BY <2>1, <2>2, MaterializedIsFaithful
  <2>4. x.deleted = saved[x.version].deleted
    BY <1>1, <2>1 DEF MaterializedFields, DeletedInv
  <2>5. QED BY <2>2, <2>3, <2>4, DeletedWrite
<1>4. ASSUME UNCHANGED <<item, stream, saved>>, bus' \subseteq bus PROVE DeletedInv'
  <2>1. \A u \in Services : Images(u)' = Images(u) /\ Records(u)' = Records(u)
    BY <1>4 DEF Images, Records
  <2>2. QED BY <1>1, <1>4, <2>1 DEF DeletedInv
<1>5. ASSUME NEW s \in Services, Capture(s) \/ CaptureFaults(s) PROVE DeletedInv'
  <2> DEFINE r == Head(stream[s])
  <2>1. NextRecord(s) /\ item' = item /\ saved' = saved
    BY <1>5 DEF Capture, CaptureFaults
  <2>2. /\ r \in RecordSet /\ r \in Records(s)
        /\ \A u \in Services : u # s => Records(u)' = Records(u)
        /\ Records(s)' \subseteq Records(s)
    BY <1>1, <2>1, NextTakes
  <2>3. \A u \in Services : Images(u)' \subseteq Images(u) /\ Records(u)' \subseteq Records(u)
    BY <2>1, <2>2 DEF Images
  <2>4. r.new # NoItem /\ r.new \in Images(s) /\ r.new \in Item
    BY <1>1, <2>2 DEF DeletedInv, Images, RecordSet, AnImage
  <2>5. r.new.deleted = saved[r.new.version].deleted /\ r.new.deleted \in BOOLEAN
    BY <1>1, <2>4 DEF DeletedInv, Item
  <2>6. (Suffix(r) = "deleted") = r.new.deleted
    <3>1. CASE r.new.deleted = TRUE
      BY <2>4, <3>1 DEF Suffix
    <3>2. CASE r.new.deleted = FALSE /\ r.old = NoItem
      BY <2>4, <3>2 DEF Suffix
    <3>3. CASE r.new.deleted = FALSE /\ r.old # NoItem
      BY <2>4, <3>3 DEF Suffix
    <3>4. QED BY <2>5, <3>1, <3>2, <3>3
  <2>7. EventOf(s, r).version = r.new.version /\ EventOf(s, r).type = Suffix(r)
    BY <2>4 DEF EventOf, Image
  <2>8. ASSUME NEW m \in bus' PROVE (m.event.type = "deleted") = saved[m.event.version].deleted
    <3>1. CASE m \in bus
      BY <1>1, <3>1 DEF DeletedInv
    <3>2. CASE m \notin bus
      <4>1. m.event = EventOf(s, r)
        BY <1>5, <2>8, <3>2 DEF Capture, CaptureFaults
      <4>2. QED BY <2>5, <2>6, <2>7, <4>1
    <3>3. QED BY <3>1, <3>2
  <2>9. QED BY <1>1, <2>1, <2>3, <2>8 DEF DeletedInv
<1>6. ASSUME NEW s \in Services, Remove(s) PROVE FALSE
  BY <1>6 DEF Remove
<1>7. ASSUME NEW s \in Services, Service(s) PROVE DeletedInv'
  BY <1>2, <1>5, <1>6, <1>7 DEF Service
<1>8. ASSUME NEW m \in bus, Materialize(m) \/ MaterializeFaults(m) PROVE DeletedInv'
  <2>1. CASE UNCHANGED <<item, stream>>
    BY <1>4, <1>8, <2>1 DEF Materialize, MaterializeFaults, Deliver
  <2>2. CASE ~UNCHANGED <<item, stream>>
    BY <1>3, <1>8, <2>2 DEF MaterializeFaults
  <2>3. QED BY <2>1, <2>2
<1>9. QED BY <1>4, <1>7, <1>8 DEF Next, vars

(***************************************************************************)
(* No version is lost on its way to a copy.                                *)
(***************************************************************************)

\* Version v of author a is on its way to s, or a fault was reported in its place.
Pending(a, s, v) ==
  \/ \E r \in Records(a) : r.new # NoItem /\ r.new.version = v
  \/ \E m \in bus : m.to = s /\ m.event.version = v

Missed(a, s, v) == \E r \in reported : r.version = v /\ r.kind = "error" /\ r.at \in {s, a}

\* Each service has each version or a newer one; or is waiting for it, unless it is its
\* own.
ReachInv == removed = {} =>
  \A v \in Versions, s \in Services :
    \/ AtLeast(s, saved[v].timestamp)
    \/ s # saved[v].author /\ (Pending(saved[v].author, s, v) \/ Missed(saved[v].author, s, v))

\* A version on its way arrives, or is reported.
LEMMA PendingStep ==
  ASSUME VersionsInv, DeletedInv, [Next]_vars, removed' = {}, NEW v \in Versions,
         NEW s \in Services, NEW a \in Services, NEW t \in Nat, s # a,
         saved[v].author = a, saved[v].timestamp = t, Pending(a, s, v)
  PROVE  AtLeast(s, t)' \/ Pending(a, s, v)' \/ Missed(a, s, v)'
<1>1. removed = {} /\ TypeOK
  BY SavedKept DEF VersionsInv
<1>2. CASE bus \subseteq bus' /\ \A u \in Services : Records(u) \subseteq Records(u)'
  BY <1>2 DEF Pending
<1>3. ASSUME NEW u \in Services, NEW x \in AnImage, Write(u, x)
      PROVE  \A w \in Services : Records(w) \subseteq Records(w)'
  BY <1>1, <1>3, WriteAdds
<1>4. ASSUME NEW u \in Services, NEW k \in 0..MaxTime, NEW d \in BOOLEAN, Save(u, k, d)
      PROVE  bus \subseteq bus' /\ \A w \in Services : Records(w) \subseteq Records(w)'
  <2>1. FieldsFor(d, k) \in AnImage /\ Write(u, FieldsFor(d, k)) /\ bus' = bus
    BY <1>1, <1>4, SaveAppends DEF Save, AnImage
  <2>2. QED BY <1>3, <2>1
<1>5. ASSUME NEW u \in Services, Remove(u) PROVE FALSE
  BY <1>5 DEF Remove
<1>6. ASSUME NEW u \in Services, Capture(u) \/ CaptureFaults(u)
      PROVE  Pending(a, s, v)' \/ Missed(a, s, v)'
  <2> DEFINE r == Head(stream[u])
  <2>1. NextRecord(u) /\ bus \subseteq bus'
    BY <1>6 DEF Capture, CaptureFaults
  <2>2. /\ r \in RecordSet /\ r \in Records(u)
        /\ \A w \in Services : w # u => Records(w)' = Records(w)
        /\ Records(u) = Records(u)' \cup {r}
    BY <1>1, <2>1, NextTakes
  <2>3. CASE \E m \in bus : m.to = s /\ m.event.version = v
    BY <2>1, <2>3 DEF Pending
  <2>4. CASE \E q \in Records(a) : q.new # NoItem /\ q.new.version = v
    <3>1. PICK q \in Records(a) : q.new # NoItem /\ q.new.version = v
      BY <2>4
    <3>2. CASE q \in Records(a)'
      BY <3>1, <3>2 DEF Pending
    <3>3. CASE q \notin Records(a)'
      <4>1. u = a /\ q = r
        BY <2>2, <3>1, <3>3
      <4>2. Image(r) = r.new /\ r.new \in Images(a)
        BY <2>2, <3>1, <4>1 DEF Image, Images
      <4>3. ~r.new.latched
        BY <3>1, <4>1, <4>2 DEF VersionsInv, ImagesInv, Faithful
      <4>4. CASE Capture(u)
        <5>1. bus' = bus \cup {[to |-> w, event |-> EventOf(u, r)] : w \in Services}
          BY <4>2, <4>3, <4>4 DEF Capture, OutLatched
        <5>2. [to |-> s, event |-> EventOf(u, r)] \in bus'
          BY <5>1
        <5>3. EventOf(u, r).version = v
          BY <3>1, <4>1, <4>2 DEF EventOf
        <5>4. QED BY <5>2, <5>3 DEF Pending
      <4>5. CASE CaptureFaults(u)
        <5>1. [at |-> a, version |-> v, kind |-> "error"] \in reported'
          BY <3>1, <4>1, <4>2, <4>5 DEF CaptureFaults, Error, Fault
        <5>2. QED BY <5>1 DEF Missed
      <4>6. QED BY <1>6, <4>4, <4>5
    <3>4. QED BY <3>2, <3>3
  <2>5. QED BY <2>3, <2>4 DEF Pending
<1>7. ASSUME NEW m \in bus, Materialize(m) \/ MaterializeFaults(m)
      PROVE  AtLeast(s, t)' \/ Pending(a, s, v)' \/ Missed(a, s, v)'
  <2>1. \A w \in Services : Records(w) \subseteq Records(w)'
    <3>1. CASE stream' = stream
      BY <3>1 DEF Records
    <3>2. CASE stream' # stream
      <4>1. OutSourceIsSelf(m.to, m.event) /\ Write(m.to, MaterializedFields(m.event))
        BY <1>7, <3>2 DEF Materialize, MaterializeFaults
      <4>2. QED BY <1>3, <4>1, MaterializedIsFaithful DEF AnImage
    <3>3. QED BY <3>1, <3>2
  <2>2. bus \subseteq bus' \cup {m}
    BY <1>7 DEF Materialize, MaterializeFaults, Deliver
  <2>3. CASE Pending(a, s, v)'
    BY <2>3
  <2>4. CASE ~Pending(a, s, v)'
    <3>1. m.to = s /\ m.event.version = v
      BY <2>1, <2>2, <2>4 DEF Pending
    <3>2. m.event.source = a /\ m.event.timestamp = t
      BY <3>1 DEF VersionsInv, EventsInv, Genuine
    <3>3. OutSourceIsSelf(m.to, m.event)
      BY <3>1, <3>2 DEF OutSourceIsSelf
    <3>4. CASE MaterializeFaults(m)
      <4>1. [at |-> s, version |-> v, kind |-> "error"] \in reported'
        BY <3>1, <3>4 DEF MaterializeFaults, Error, Fault
      <4>2. QED BY <4>1 DEF Missed
    <3>5. CASE Materialize(m) /\ TimestampCondition(m.to, m.event)
      <4>1. PICK x : x = MaterializedFields(m.event)
        OBVIOUS
      <4>2. Write(s, x) /\ x \in Item /\ x.timestamp = t
        BY <3>1, <3>2, <3>3, <3>5, <4>1, MaterializedIsFaithful DEF Materialize, MaterializedFields
      <4>3. item'[s] = x /\ x # NoItem
        BY <1>1, <4>2, WriteAdds, NotAnItem DEF AnImage
      <4>4. QED BY <4>2, <4>3 DEF AtLeast
    <3>6. CASE Materialize(m) /\ ~TimestampCondition(m.to, m.event)
      <4>1. item' = item
        BY <3>3, <3>6 DEF Materialize
      <4>2. item[s] # NoItem /\ ~(item[s].timestamp < t)
        BY <3>1, <3>2, <3>6 DEF TimestampCondition
      <4>3. item[s].timestamp \in Nat
        BY <1>1, <4>2 DEF TypeOK, Item
      <4>4. item'[s] # NoItem /\ item'[s].timestamp >= t
        BY <4>1, <4>2, <4>3
      <4>5. QED BY <4>4 DEF AtLeast
    <3>7. QED BY <1>7, <3>4, <3>5, <3>6
  <2>5. QED BY <2>3, <2>4
<1>8. CASE UNCHANGED vars
  BY <1>8 DEF Pending, Records, vars
<1>9. ASSUME NEW u \in Services, Service(u)
      PROVE  AtLeast(s, t)' \/ Pending(a, s, v)' \/ Missed(a, s, v)'
  BY <1>2, <1>4, <1>5, <1>6, <1>9 DEF Service
<1>10. QED BY <1>7, <1>8, <1>9 DEF Next

LEMMA ReachStep ==
  ASSUME VersionsInv, DeletedInv, ReachInv, [Next]_vars
  PROVE  ReachInv'
<1> SUFFICES ASSUME removed' = {}, NEW v \in Versions', NEW s \in Services
             PROVE  \/ AtLeast(s, saved[v].timestamp)'
                    \/ /\ s # saved'[v].author
                       /\ Pending(saved[v].author, s, v)' \/ Missed(saved[v].author, s, v)'
  BY DEF ReachInv
<1>1. removed = {} /\ TypeOK /\ TypeOK'
  BY SavedKept, VersionsStep DEF VersionsInv
<1>2. saved'[v] \in Saved
  <2>1. saved' \in Seq(Saved)
    BY <1>1 DEF TypeOK, Saved
  <2>2. QED BY <2>1, ElementOfSeq, LenProperties DEF Versions
<1>3. PICK a \in Services, t \in Nat : a = saved'[v].author /\ t = saved'[v].timestamp
  BY <1>2 DEF Saved
<1>4. SUFFICES \/ AtLeast(s, t)'
               \/ s # a /\ (Pending(a, s, v)' \/ Missed(a, s, v)')
  BY <1>3 DEF AtLeast, Pending, Missed
<1>5. CASE v \in Versions
  <2>1. saved[v].author = a /\ saved[v].timestamp = t
    BY <1>3, <1>5, SavedKept
  <2>2. CASE AtLeast(s, t)
    BY <1>1, <2>2, NeverBack
  <2>3. CASE s # a /\ Pending(a, s, v)
    BY <1>5, <2>1, <2>3, PendingStep
  <2>4. CASE s # a /\ Missed(a, s, v)
    <3>1. reported \subseteq reported'
      BY DEF Next, Service, Save, Remove, Capture, CaptureFaults, Materialize, MaterializeFaults, Error, Fault, vars
    <3>2. QED BY <2>4, <3>1 DEF Missed
  <2>5. QED BY <1>1, <1>5, <2>1, <2>2, <2>3, <2>4 DEF ReachInv
<1>6. CASE v \notin Versions
  <2>1. saved' # saved
    BY <1>6 DEF Versions
  <2>2. PICK u \in Services, k \in 0..MaxTime, d \in BOOLEAN : Save(u, k, d)
    BY <2>1 DEF Next, Service, Remove, Capture, CaptureFaults, Materialize, MaterializeFaults, vars
  <2>3. v = Len(saved) + 1 /\ u = a /\ k = t
    <3>1. v = Len(saved) + 1
      BY <1>1, <1>6, <2>2, SaveAppends
    <3>2. saved'[v] = [author |-> u, timestamp |-> k, deleted |-> d]
      BY <1>1, <2>2, <3>1, SaveAppends
    <3>3. QED BY <1>3, <3>1, <3>2
  <2>4. PICK x : x = FieldsFor(d, k)
    OBVIOUS
  <2>5. x \in Item /\ Write(a, x) /\ x.version = v /\ x.timestamp = t
    BY <1>1, <2>2, <2>3, <2>4, SaveAppends DEF Save, FieldsFor
  <2>6. /\ item'[a] = x /\ x # NoItem
        /\ [old |-> item[a], new |-> x] \in Records(a)'
    BY <1>1, <2>5, WriteAdds, NotAnItem DEF AnImage
  <2>7. CASE s = a
    BY <2>5, <2>6, <2>7 DEF AtLeast
  <2>8. CASE s # a
    BY <2>5, <2>6, <2>8 DEF Pending
  <2>9. QED BY <2>7, <2>8
<1>7. QED BY <1>5, <1>6

\* Once everything is delivered, who has the newest version's timestamp has that version.
LEMMA ReachConverges ==
  ASSUME VersionsInv, DeletedInv, ReachInv
  PROVE  ConvergesToNewest
<1> SUFFICES ASSUME Quiescent, removed = {}, NEW v \in Versions, NEW s \in Services, Newest(v)
             PROVE  \/ Holds(s, v)
                    \/ \E r \in reported : r.version = v /\ r.kind = "error" /\ r.at \in {s, saved[v].author}
  BY DEF ConvergesToNewest
<1>1. TypeOK
  BY DEF VersionsInv
<1>2. \A w \in Versions : saved[w] \in Saved
  <2>1. saved \in Seq(Saved)
    BY <1>1 DEF TypeOK, Saved
  <2>2. QED BY <2>1, ElementOfSeq, LenProperties DEF Versions
<1>3. saved[v].author \in Services /\ saved[v].timestamp \in Nat
  BY <1>2 DEF Saved
<1>4. ~Pending(saved[v].author, s, v)
  <2>1. Records(saved[v].author) = {}
    BY <1>3, EmptySeq DEF Quiescent, Records
  <2>2. QED BY <2>1 DEF Pending, Quiescent
<1>5. CASE AtLeast(s, saved[v].timestamp)
  <2>1. item[s] # NoItem /\ item[s] \in Images(s) /\ item[s].timestamp >= saved[v].timestamp
    BY <1>5 DEF AtLeast, Images
  <2>2. item[s].version \in Versions /\ item[s].timestamp = saved[item[s].version].timestamp
    BY <2>1 DEF VersionsInv, ImagesInv, Faithful
  <2>3. item[s].version = v
    <3>1. saved[item[s].version].timestamp \in Nat
      BY <1>2, <2>2 DEF Saved
    <3>2. ~(saved[item[s].version].timestamp < saved[v].timestamp)
      BY <1>3, <2>1, <2>2, <3>1
    <3>3. QED BY <2>2, <3>2 DEF Newest
  <2>4. item[s].deleted = saved[v].deleted
    BY <2>1, <2>3 DEF DeletedInv
  <2>5. QED BY <2>1, <2>3, <2>4 DEF Holds
<1>6. CASE ~AtLeast(s, saved[v].timestamp)
  BY <1>4, <1>6 DEF ReachInv, Missed
<1>7. QED BY <1>5, <1>6

\* For any services, and however often and in whatever order the events are delivered:
\* in the end every copy is at the newest version, or a fault says which one is not.
THEOREM CopiesConverge == Spec => []ConvergesToNewest
<1>1. Init => DeletedInv /\ ReachInv
  BY DEF Init, DeletedInv, ReachInv, Images, Records, Versions
<1>2. VersionsInv /\ DeletedInv /\ ReachInv /\ [Next]_vars => DeletedInv' /\ ReachInv'
  BY DeletedStep, ReachStep
<1>3. VersionsInv /\ DeletedInv /\ ReachInv => ConvergesToNewest
  BY ReachConverges
<1>4. QED BY <1>1, <1>2, <1>3, VersionsInvariant, PTL DEF Spec
=============================================================================
