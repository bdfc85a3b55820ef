---------------------------- MODULE JobPagesProofs ----------------------------
(***************************************************************************)
(* Theorems about JobPages for every number of jobs and items, every page  *)
(* and buffer size, every number of retries and failures.                  *)
(***************************************************************************)
EXTENDS JobPagesProps, Integers, SequenceTheorems, FiniteSetTheorems, WellFoundedInduction, TLAPS

Working == {"fetch", "push", "unit", "get", "put"}

\* Where the line is in its batch, its page and its buffer.
PositionInv ==
  /\ phase \in Working => idx \in DOMAIN batch
  /\ phase = "next" => idx > 0
  /\ phase \in {"next", "fetch", "rest", "flush"} => page = << >>
  /\ phase \in {"unit", "get", "put"} => page # << >> /\ unit \in 1..Units[Head(page)]
  /\ phase \in {"get", "put"} => Len(buf) < BatchSize
  /\ phase \notin {"get", "put"} => attempts = << >>
  /\ phase = "flush" => buf = << >>
  /\ phase = "idle" => buf = << >> /\ through = << >> /\ updated = {}

\* The answers to a batch_get so far, and the keys still wanted, are a partition of the keys.
GetInv ==
  phase = "get" =>
    /\ Len(attempts) <= MaxRetries + 1
    /\ \A k \in Keys : k \in want \/ \E x \in DOMAIN attempts : k \in attempts[x]
    /\ \A x \in DOMAIN attempts : attempts[x] \cap want = {}
    /\ \A x, y \in DOMAIN attempts : x # y => attempts[x] \cap attempts[y] = {}

\* The same of the answers that are put together.
ResultInv ==
  phase = "put" /\ Keys # {} =>
    /\ Len(result) <= MaxRetries + 1
    /\ \A k \in Keys : \E x \in DOMAIN result : k \in result[x]
    /\ \A x, y \in DOMAIN result : x # y => result[x] \cap result[y] = {}

\* The last item of a page with this LastEvaluatedKey.
End(l) == IF l = None THEN NumItems ELSE l

\* Units that this line, or an earlier one, is done with.
Out       == dealt \cup faulted \cup {buf[x].uow : x \in DOMAIN buf}
Gone(j, i) == UnitsOf(j, i) \subseteq Out
InPage(i) == \E x \in DOMAIN page : page[x] = i

\* What the record being processed has read is out, or in the page.
PageInv ==
  /\ phase = "fetch" =>
       \A i \in Items : batch[idx].cursor < i /\ i <= start => Gone(batch[idx].job, i)
  /\ phase \in {"push", "unit", "get", "put"} =>
       \A i \in Items : batch[idx].cursor < i /\ i <= End(lek) =>
                          InPage(i) \/ Gone(batch[idx].job, i)
  /\ phase \in {"unit", "get", "put"} => \A u \in 1..(unit - 1) : Unit(u) \in Out

\* A unit of work comes from a record of its job of which everything up to the end of the
\* unit's page is out, or in the page.
Reached(t) ==
  \E k \in DOMAIN batch :
    /\ k <= idx /\ batch[k].job = t.uow.job
    /\ \A i \in Items : batch[k].cursor < i /\ i <= End(t.lek) =>
                          (k = idx /\ InPage(i)) \/ Gone(t.uow.job, i)

ReachInv ==
  phase # "dead" =>
    /\ \A x \in DOMAIN buf : Reached(buf[x])
    /\ \A x \in DOMAIN through : Reached(through[x])

\* Everything behind a cursor that was written has been dealt with.
Settled == dealt \cup Written \cup lost

WrittenInv ==
  /\ \A j \in Jobs, i \in Items : i <= cursor[j] \/ j \in done => UnitsOf(j, i) \subseteq Settled
  /\ \A x \in DOMAIN stream : \A i \in Items :
       i <= stream[x].cursor => UnitsOf(stream[x].job, i) \subseteq Settled
  /\ \A x \in DOMAIN batch : \A i \in Items :
       i <= batch[x].cursor => UnitsOf(batch[x].job, i) \subseteq dealt \cup lost
-----------------------------------------------------------------------------
(***************************************************************************)
(* Least and greatest members of sets of numbers.                          *)
(***************************************************************************)
Less == {p \in Nat \X Nat : p[1] < p[2]}

LEMMA LessIsWellFounded == IsWellFoundedOn(Less, Nat)
  BY NatLessThanWellFounded, Zenon DEF OpToRel, Less

\* A set of numbers that is not empty has a least member ...
LEMMA HasLeast ==
  ASSUME NEW T \in SUBSET Nat, T # {}
  PROVE  \E x \in T : \A y \in T : x <= y
<1>1. PICK x \in T : \A y \in T : <<y, x>> \notin Less
  BY LessIsWellFounded, WFMin
<1>2. \A y \in T : ~(y < x)
  BY <1>1 DEF Less
<1>3. QED BY <1>2

\* ... and a greatest one, if it has a bound.
LEMMA HasGreatest ==
  ASSUME NEW n \in Nat, NEW T \in SUBSET (0..n), T # {}
  PROVE  \E x \in T : \A y \in T : y <= x
<1> DEFINE D == {n - y : y \in T}
<1>1. D \in SUBSET Nat /\ D # {}
  <2>1. \A y \in T : n - y \in Nat
    OBVIOUS
  <2>2. \A e \in D : e \in Nat
    BY <2>1
  <2>3. D # {}
    OBVIOUS
  <2>4. QED BY <2>2, <2>3
<1>2. PICK d \in D : \A e \in D : d <= e
  BY <1>1, HasLeast
<1>3. PICK x \in T : d = n - x
  BY <1>2
<1>4. \A y \in T : n - x <= n - y
  BY <1>2, <1>3
<1>5. \A y \in T : y <= x
  BY <1>4
<1>6. QED BY <1>5
-----------------------------------------------------------------------------
(***************************************************************************)
(* Type correctness.                                                       *)
(***************************************************************************)

\* TypeOK, by groups of variables that change together.
TableOK ==
  cursor \in [Jobs -> 0..NumItems] /\ stamped \subseteq Jobs /\ stream \in Seq(StreamRecord)
BatchOK ==
  batch \in Seq(StreamRecord) /\ phase \in Phases /\ idx \in Nat /\ failures \in Nat
PageOK ==
  start \in 0..NumItems /\ count \in Nat /\ page \in Seq(Items) /\ lek \in 0..NumItems
UnitOK ==
  /\ unit \in Nat /\ want \subseteq Keys
  /\ attempts \in Seq(SUBSET Keys) /\ result \in Seq(SUBSET Keys)
OutOK ==
  /\ buf \in Seq(Buffered) /\ Len(buf) <= BatchSize /\ through \in Seq(Buffered)
  /\ faulted \subseteq UnitRecord /\ updated \subseteq Jobs
HistOK ==
  /\ dealt \subseteq UnitRecord /\ lost \subseteq UnitRecord /\ done \subseteq Jobs
  /\ stalled \subseteq [job : Jobs, why : {"completed", "errored"}]
Typed == TableOK /\ BatchOK /\ PageOK /\ UnitOK /\ OutOK /\ HistOK

LEMMA TypeParts == (TypeOK <=> Typed) /\ (TypeOK' <=> Typed')
  BY DEF TypeOK, Typed, TableOK, BatchOK, PageOK, UnitOK, OutOK, HistOK

LEMMA TypeFrames ==
  /\ TableOK /\ UNCHANGED tableVars => TableOK'
  /\ PageOK /\ UNCHANGED pageVars => PageOK'
  /\ UnitOK /\ UNCHANGED unitVars => UnitOK'
  /\ OutOK /\ UNCHANGED outVars => OutOK'
  /\ HistOK /\ UNCHANGED histVars => HistOK'
  BY DEF TableOK, PageOK, UnitOK, OutOK, HistOK, tableVars, pageVars, unitVars, outVars, histVars

LEMMA UnitType ==
  ASSUME TypeOK, idx \in DOMAIN batch, page # << >>, NEW u \in Nat
  PROVE  Unit(u) \in UnitRecord
<1>1. batch[idx] \in StreamRecord
  BY ElementOfSeq, LenProperties DEF TypeOK
<1>2. Head(page) \in Items
  BY HeadTailProperties DEF TypeOK
<1>3. QED BY <1>1, <1>2 DEF Unit, UnitRecord, StreamRecord

\* The next group to be updated is a job with a unit that got through.
LEMMA NextJobWaits ==
  ASSUME TypeOK, Waiting # {}
  PROVE  /\ NextJob \in Jobs
         /\ NextJob \notin updated
         /\ \E x \in DOMAIN through : LastOf(NextJob) = through[x] /\ through[x].uow.job = NextJob
<1>1. /\ DOMAIN through = 1..Len(through) /\ Len(through) \in Nat
      /\ \A x \in DOMAIN through : through[x] \in Buffered
  BY LenProperties, ElementOfSeq DEF TypeOK
<1>2. Waiting \in SUBSET Nat
  BY <1>1 DEF Waiting
<1>3. \E x \in Waiting : \A y \in Waiting : x <= y
  BY <1>2, HasLeast
<1>4. PICK w \in Waiting : NextJob = through[w].uow.job
  BY <1>3 DEF NextJob
<1>5. w \in DOMAIN through /\ NextJob \in Jobs /\ NextJob \notin updated
  BY <1>1, <1>4 DEF Waiting, Buffered, UnitRecord
<1> DEFINE mine == {x \in DOMAIN through : through[x].uow.job = NextJob}
<1>6. mine \in SUBSET (0..Len(through)) /\ mine # {}
  BY <1>1, <1>4, <1>5
<1>7. \E x \in mine : \A y \in mine : y <= x
  BY <1>1, <1>6, HasGreatest
<1>8. \E x \in mine : LastOf(NextJob) = through[x]
  BY <1>7 DEF LastOf
<1>9. QED BY <1>5, <1>8

LEMMA EmptyOfAny == \A S : << >> \in Seq(S) /\ Len(<< >>) = 0 /\ DOMAIN << >> = {}
<1>1. ASSUME NEW S PROVE << >> \in Seq(S) /\ Len(<< >>) = 0 /\ DOMAIN << >> = {}
  BY EmptySeq, LenProperties
<1>2. QED BY <1>1

LEMMA FunctionIsSeq ==
  ASSUME NEW n \in Nat, NEW S, NEW f \in [1..n -> S]
  PROVE  f \in Seq(S)
  OBVIOUS

\* The end of a unit of work leads to the next unit or the next item.
LEMMA UnitDoneTypes ==
  ASSUME TypeOK, PositionInv, UnitDone, phase \in {"get", "put"}
  PROVE  /\ want' = {} /\ attempts' = << >> /\ result' = << >>
         /\ unit' \in Nat /\ page' \in Seq(Items) /\ phase' \in {"unit", "push"}
         /\ phase' = "unit" => page' # << >> /\ unit' \in 1..Units[Head(page')]
<1>1. page \in Seq(Items) /\ page # << >> /\ unit \in 1..Units[Head(page)]
  BY DEF TypeOK, PositionInv
<1>2. Head(page) \in Items /\ Tail(page) \in Seq(Items)
  BY <1>1, HeadTailProperties
<1>3. Units[Head(page)] \in Nat
  BY <1>2, ConstantsAssumption
<1>4. CASE unit < Units[Head(page)]
  BY <1>1, <1>3, <1>4 DEF UnitDone
<1>5. CASE ~(unit < Units[Head(page)])
  BY <1>2, <1>5 DEF UnitDone
<1>6. QED BY <1>4, <1>5 DEF UnitDone

\* What an attempt keeps in memory is empty when it begins, and when it is over.
LEMMA NewLineTypes ==
  ASSUME NewLine
  PROVE  /\ start' \in 0..NumItems /\ count' \in Nat /\ page' \in Seq(Items) /\ lek' \in 0..NumItems
         /\ unit' \in Nat /\ want' \subseteq Keys
         /\ attempts' \in Seq(SUBSET Keys) /\ result' \in Seq(SUBSET Keys)
         /\ buf' \in Seq(Buffered) /\ Len(buf') <= BatchSize /\ through' \in Seq(Buffered)
         /\ faulted' \subseteq UnitRecord /\ updated' \subseteq Jobs
  BY EmptyOfAny, ConstantsAssumption DEF NewLine, None

TypeInv == TypeOK /\ PositionInv

LEMMA TypeInit == Init => TypeInv
<1> SUFFICES ASSUME Init PROVE TypeInv
  OBVIOUS
<1>1. stream \in Seq(StreamRecord)
  <2>1. \A j \in 1..NumJobs : Record(j, None, TRUE) \in StreamRecord
    BY ConstantsAssumption DEF Record, StreamRecord, Jobs, None
  <2>2. [j \in 1..NumJobs |-> Record(j, None, TRUE)] \in [1..NumJobs -> StreamRecord]
    BY <2>1
  <2>3. [j \in 1..NumJobs |-> Record(j, None, TRUE)] \in Seq(StreamRecord)
    BY <2>2, FunctionIsSeq, ConstantsAssumption
  <2>4. QED BY <2>3 DEF Init, Jobs
<1>2. QED
  BY <1>1, EmptyOfAny, ConstantsAssumption
     DEF Init, EmptyLine, TypeInv, TypeOK, PositionInv, None, Phases, Working

LEMMA InvokeTypes == TypeInv /\ Invoke => TypeInv'
<1> SUFFICES ASSUME TypeInv, Invoke PROVE TypeInv'
  OBVIOUS
<1>1. stream \in Seq(StreamRecord) /\ Len(stream) \in Nat
      /\ \A x \in 1..Len(stream) : stream[x] \in StreamRecord
  BY LenProperties, ElementOfSeq DEF TypeInv, TypeOK
<1>2. PICK n \in 1..Len(stream) : /\ batch' = SubSeq(stream, 1, n)
                                  /\ stream' = SubSeq(stream, n + 1, Len(stream))
  BY DEF Invoke
<1>3. batch' \in Seq(StreamRecord) /\ stream' \in Seq(StreamRecord)
  BY <1>1, <1>2, SubSeqProperties
<1>4. QED
  BY <1>3, NewLineTypes DEF Invoke, NewLine, TypeInv, TypeOK, PositionInv, Phases, Working, histVars

LEMMA NextRecordTypes == TypeInv /\ NextRecord => TypeInv'
<1> SUFFICES ASSUME TypeInv, NextRecord PROVE TypeInv'
  OBVIOUS
<1>1. Typed
  BY TypeParts DEF TypeInv
<1>2. DOMAIN batch = 1..Len(batch) /\ Len(batch) \in Nat
      /\ \A x \in DOMAIN batch : batch[x] \in StreamRecord
  BY <1>1, LenProperties, ElementOfSeq DEF Typed, BatchOK
<1>3. idx \in Nat /\ idx > 0 /\ start \in 0..NumItems /\ count \in Nat
  BY <1>1 DEF NextRecord, TypeInv, PositionInv, Typed, BatchOK, PageOK
<1>4. /\ idx' \in Nat /\ start' \in 0..NumItems /\ count' \in Nat
      /\ phase' \in {"rest", "fetch", "next"} /\ idx' > 0
      /\ phase' = "fetch" => idx' \in DOMAIN batch
  <2>1. CASE idx > Len(batch)
    BY <1>2, <1>3, <2>1 DEF NextRecord
  <2>2. CASE idx <= Len(batch) /\ idx \in DOMAIN batch
    BY <1>2, <1>3, <2>2 DEF NextRecord, StreamRecord
  <2>3. idx > Len(batch) \/ (idx <= Len(batch) /\ idx \in DOMAIN batch)
    BY <1>2, <1>3
  <2>4. QED BY <2>1, <2>2, <2>3
<1>5. UNCHANGED tableVars /\ UNCHANGED unitVars /\ UNCHANGED outVars /\ UNCHANGED histVars
  BY DEF NextRecord
<1>6. batch' = batch /\ page' = page /\ lek' = lek /\ failures' = failures /\ phase = "next"
  BY DEF NextRecord
<1>7. BatchOK' /\ PageOK'
  BY <1>1, <1>4, <1>6 DEF Typed, BatchOK, PageOK, Phases
<1>8. Typed'
  BY <1>1, <1>5, <1>7, TypeFrames DEF Typed
<1>9. page = << >> /\ attempts = << >> /\ attempts' = attempts
  BY <1>5, <1>6 DEF unitVars, TypeInv, PositionInv
<1>10. PositionInv'
  BY <1>4, <1>6, <1>9 DEF PositionInv, Working
<1>11. QED BY <1>8, <1>10, TypeParts DEF TypeInv

LEMMA FetchTypes == TypeInv /\ Fetch => TypeInv'
<1> SUFFICES ASSUME TypeInv, Fetch PROVE TypeInv'
  OBVIOUS
<1>1. Typed /\ PositionInv
  BY TypeParts DEF TypeInv
<1>2. PICK last \in start..NumItems :
        /\ page' = [i \in 1..(last - start) |-> start + i]
        /\ last > start \/ last = NumItems
        /\ lek' \in CASE last < NumItems                 -> {last}
                      [] last = NumItems /\ last > start -> {last, None}
                      [] OTHER                           -> {None}
        /\ count' = count + (last - start)
  BY DEF Fetch
<1>3. start \in 0..NumItems /\ count \in Nat /\ NumItems \in Nat
  BY <1>1, ConstantsAssumption DEF Typed, PageOK
<1>4. last \in 0..NumItems /\ last - start \in Nat
  BY <1>3
<1>5. page' \in Seq(Items)
  <2>1. \A i \in 1..(last - start) : start + i \in Items
    BY <1>3, <1>4 DEF Items
  <2>2. [i \in 1..(last - start) |-> start + i] \in [1..(last - start) -> Items]
    BY <2>1
  <2>3. QED BY <1>2, <1>4, <2>2, FunctionIsSeq
<1>6. lek' \in 0..NumItems
  BY <1>2, <1>3, <1>4 DEF None
<1>7. UNCHANGED tableVars /\ UNCHANGED unitVars /\ UNCHANGED outVars /\ UNCHANGED histVars
  BY DEF Fetch
<1>8. /\ batch' = batch /\ idx' = idx /\ start' = start /\ failures' = failures
      /\ phase = "fetch" /\ phase' = "push"
  BY DEF Fetch
<1>9. BatchOK' /\ PageOK'
  BY <1>1, <1>2, <1>3, <1>4, <1>5, <1>6, <1>8 DEF Typed, BatchOK, PageOK, Phases
<1>10. Typed'
  BY <1>1, <1>7, <1>9, TypeFrames DEF Typed
<1>11. attempts = << >> /\ attempts' = attempts /\ idx \in DOMAIN batch
  BY <1>1, <1>7, <1>8 DEF unitVars, PositionInv, Working
<1>12. PositionInv'
  BY <1>8, <1>11 DEF PositionInv, Working
<1>13. QED BY <1>10, <1>12, TypeParts DEF TypeInv

\* Steps that only end the work on the batch, or its last part.
LEMMA PhaseTypes ==
  /\ TypeInv /\ (FetchFails \/ Rested) => TypeInv'
  /\ TypeInv /\ (FlushRejected \/ FlushFails \/ Flushed) => TypeInv'
<1>1. ASSUME TypeInv, FetchFails \/ Rested \/ FlushRejected \/ FlushFails \/ Flushed
      PROVE  TypeInv'
  <2>1. Typed /\ PositionInv
    BY <1>1, TypeParts DEF TypeInv
  <2>2. /\ UNCHANGED tableVars /\ UNCHANGED pageVars /\ UNCHANGED unitVars
        /\ UNCHANGED outVars /\ UNCHANGED histVars
    BY <1>1 DEF FetchFails, Rested, FlushRejected, FlushFails, Flushed
  <2>3. /\ batch' = batch /\ phase \in {"fetch", "rest", "flush"}
        /\ phase' \in {"errored", "flush", "completed"}
        /\ phase' = "flush" => phase = "rest" /\ buf = << >>
    BY <1>1 DEF FetchFails, Rested, FlushRejected, FlushFails, Flushed
  <2>4. failures' \in Nat
    BY <1>1, <2>1 DEF FetchFails, Rested, FlushRejected, FlushFails, Flushed, Fails, Typed, BatchOK
  <2>5. idx' = idx /\ page' = page /\ buf' = buf /\ attempts' = attempts
    BY <2>2 DEF pageVars, outVars, unitVars
  <2>6. Typed'
    BY <2>1, <2>2, <2>3, <2>4, <2>5, TypeFrames DEF Typed, BatchOK, Phases
  <2>7. page = << >> /\ attempts = << >>
    BY <2>1, <2>3 DEF PositionInv
  <2>8. PositionInv'
    BY <2>3, <2>5, <2>7 DEF PositionInv, Working
  <2>9. QED BY <2>6, <2>8, TypeParts DEF TypeInv
<1>2. QED BY <1>1

LEMMA PushTypes == TypeInv /\ Push => TypeInv'
<1> SUFFICES ASSUME TypeInv, Push PROVE TypeInv'
  OBVIOUS
<1>1. Typed /\ PositionInv /\ TypeOK
  BY TypeParts DEF TypeInv
<1>2. /\ UNCHANGED tableVars /\ UNCHANGED outVars
      /\ batch' = batch /\ idx' = idx /\ start' = start /\ count' = count /\ lek' = lek
      /\ want' = want /\ attempts' = attempts /\ result' = result
      /\ failures' = failures /\ lost' = lost /\ done' = done /\ stalled' = stalled
  BY DEF Push
<1>3. page \in Seq(Items) /\ page # << >> /\ phase = "push"
  BY <1>1 DEF Push, Typed, PageOK
<1>4. Head(page) \in Items /\ Tail(page) \in Seq(Items) /\ Units[Head(page)] \in Nat
  BY <1>3, HeadTailProperties, ConstantsAssumption
<1>5. idx \in DOMAIN batch /\ attempts = << >>
  BY <1>1, <1>3 DEF PositionInv, Working
<1>6. Unit(0) \in UnitRecord
  BY <1>1, <1>3, <1>5, UnitType
<1>7. /\ page' \in Seq(Items) /\ dealt' \subseteq UnitRecord /\ phase' \in {"push", "unit"}
      /\ unit' \in Nat
      /\ phase' = "unit" => page' # << >> /\ unit' \in 1..Units[Head(page')]
  <2>1. dealt \subseteq UnitRecord /\ unit \in Nat
    BY <1>1 DEF Typed, HistOK, UnitOK
  <2>2. CASE Units[Head(page)] = 0
    BY <1>3, <1>4, <1>6, <2>1, <2>2 DEF Push
  <2>3. CASE Units[Head(page)] > 0
    BY <1>3, <1>4, <2>1, <2>3 DEF Push
  <2>4. QED BY <1>4, <2>2, <2>3
<1>8. BatchOK' /\ PageOK' /\ UnitOK' /\ HistOK'
  BY <1>1, <1>2, <1>7 DEF Typed, BatchOK, PageOK, UnitOK, HistOK, Phases
<1>9. Typed'
  BY <1>1, <1>2, <1>8, TypeFrames DEF Typed
<1>10. PositionInv'
  BY <1>2, <1>5, <1>7 DEF PositionInv, Working
<1>11. QED BY <1>9, <1>10, TypeParts DEF TypeInv

LEMMA PageDoneTypes == TypeInv /\ PageDone => TypeInv'
<1> SUFFICES ASSUME TypeInv, PageDone PROVE TypeInv'
  OBVIOUS
<1>1. Typed /\ PositionInv
  BY TypeParts DEF TypeInv
<1>2. UNCHANGED tableVars /\ UNCHANGED unitVars /\ UNCHANGED outVars /\ UNCHANGED histVars
  BY DEF PageDone
<1>3. /\ batch' = batch /\ count' = count /\ page' = page /\ lek' = lek /\ failures' = failures
      /\ phase = "push" /\ page = << >>
  BY DEF PageDone
<1>4. idx \in DOMAIN batch /\ attempts = << >> /\ attempts' = attempts
  BY <1>1, <1>2, <1>3 DEF PositionInv, Working, unitVars
<1>5. idx \in Nat /\ idx > 0 /\ start \in 0..NumItems /\ lek \in 0..NumItems
  <2>1. batch \in Seq(StreamRecord)
    BY <1>1 DEF Typed, BatchOK
  <2>2. DOMAIN batch = 1..Len(batch) /\ Len(batch) \in Nat
    BY <2>1, LenProperties
  <2>3. QED BY <1>1, <1>4, <2>2 DEF Typed, PageOK
<1>6. /\ idx' \in Nat /\ idx' > 0 /\ start' \in 0..NumItems /\ phase' \in {"fetch", "next"}
      /\ phase' = "fetch" => idx' = idx
  BY <1>5 DEF PageDone
<1>7. BatchOK' /\ PageOK'
  BY <1>1, <1>3, <1>6 DEF Typed, BatchOK, PageOK, Phases
<1>8. Typed'
  BY <1>1, <1>2, <1>7, TypeFrames DEF Typed
<1>9. PositionInv'
  BY <1>3, <1>4, <1>6 DEF PositionInv, Working
<1>10. QED BY <1>8, <1>9, TypeParts DEF TypeInv

LEMMA GetRequestTypes == TypeInv /\ GetRequest => TypeInv'
<1> SUFFICES ASSUME TypeInv, GetRequest PROVE TypeInv'
  OBVIOUS
<1>1. Typed /\ PositionInv
  BY TypeParts DEF TypeInv
<1>2. UNCHANGED tableVars /\ UNCHANGED pageVars /\ UNCHANGED outVars /\ UNCHANGED histVars
  BY DEF GetRequest
<1>3. /\ batch' = batch /\ unit' = unit /\ attempts' = attempts /\ result' = result
      /\ failures' = failures /\ want' = Keys
      /\ phase = "unit" /\ phase' \in {"get", "put"} /\ Len(buf) # BatchSize
  BY DEF GetRequest, Full
<1>4. idx' = idx /\ page' = page /\ buf' = buf
  BY <1>2 DEF pageVars, outVars
<1>5. Len(buf) < BatchSize
  BY <1>1, <1>3, LenProperties, ConstantsAssumption DEF Typed, OutOK
<1>6. Typed'
  BY <1>1, <1>2, <1>3, <1>4, TypeFrames DEF Typed, BatchOK, UnitOK, Phases
<1>7. /\ idx \in DOMAIN batch /\ page # << >> /\ unit \in 1..Units[Head(page)]
      /\ attempts = << >>
  BY <1>1, <1>3 DEF PositionInv, Working
<1>8. PositionInv'
  BY <1>3, <1>4, <1>5, <1>7 DEF PositionInv, Working
<1>9. QED BY <1>6, <1>8, TypeParts DEF TypeInv

\* accumulate: its list has the answer first, then the attempts from the last to the first.
LEMMA AccumulateFacts ==
  ASSUME TypeOK, NEW answer \in SUBSET Keys
  PROVE  /\ Accumulate(answer) \in Seq(SUBSET Keys)
         /\ Len(attempts) \in Nat /\ DOMAIN attempts = 1..Len(attempts)
         /\ Len(Accumulate(answer)) = Len(attempts) + 1
         /\ DOMAIN Accumulate(answer) = 1..(Len(attempts) + 1)
         /\ \A x \in 1..(Len(attempts) + 1) :
              Accumulate(answer)[x] = IF x = 1 THEN answer ELSE attempts[Len(attempts) + 2 - x]
<1> DEFINE n == Len(attempts)
           f == [i \in 1..(n + 1) |-> IF i = 1 THEN answer ELSE attempts[n + 2 - i]]
<1>1. /\ attempts \in Seq(SUBSET Keys) /\ n \in Nat /\ DOMAIN attempts = 1..n
      /\ \A x \in 1..n : attempts[x] \in SUBSET Keys
  BY LenProperties, ElementOfSeq DEF TypeOK
<1>2. \A i \in 1..(n + 1) : (IF i = 1 THEN answer ELSE attempts[n + 2 - i]) \in SUBSET Keys
  BY <1>1
<1>3. f \in [1..(n + 1) -> SUBSET Keys]
  BY <1>2
<1>4. f \in Seq(SUBSET Keys) /\ n + 1 \in Nat
  BY <1>1, <1>3, FunctionIsSeq
<1>5. DOMAIN f = 1..(n + 1)
  OBVIOUS
<1>6. DOMAIN f = 1..Len(f) /\ Len(f) \in Nat
  BY <1>4, LenProperties
<1>7. Len(f) = n + 1
  BY <1>1, <1>5, <1>6
<1>8. Accumulate(answer) = f
  BY DEF Accumulate
<1>9. QED BY <1>1, <1>4, <1>5, <1>7, <1>8

LEMMA BatchGetTypes == TypeInv /\ BatchGet => TypeInv'
<1> SUFFICES ASSUME TypeInv, BatchGet PROVE TypeInv'
  OBVIOUS
<1>1. Typed /\ PositionInv /\ TypeOK
  BY TypeParts DEF TypeInv
<1>2. UNCHANGED tableVars /\ UNCHANGED pageVars /\ UNCHANGED outVars /\ UNCHANGED histVars
  BY DEF BatchGet
<1>3. /\ batch' = batch /\ unit' = unit /\ attempts' = attempts /\ failures' = failures
      /\ want' = {} /\ phase = "get" /\ phase' = "put"
  BY DEF BatchGet
<1>4. idx' = idx /\ page' = page /\ buf' = buf
  BY <1>2 DEF pageVars, outVars
<1>5. result' \in Seq(SUBSET Keys)
  <2>1. want \in SUBSET Keys
    BY <1>1 DEF Typed, UnitOK
  <2>2. QED BY <1>1, <2>1, AccumulateFacts DEF BatchGet
<1>6. Typed'
  BY <1>1, <1>2, <1>3, <1>4, <1>5, TypeFrames DEF Typed, BatchOK, UnitOK, Phases
<1>7. /\ idx \in DOMAIN batch /\ page # << >> /\ unit \in 1..Units[Head(page)]
      /\ Len(buf) < BatchSize
  BY <1>1, <1>3 DEF PositionInv, Working
<1>8. PositionInv'
  BY <1>3, <1>4, <1>7 DEF PositionInv, Working
<1>9. QED BY <1>6, <1>8, TypeParts DEF TypeInv

LEMMA BatchGetPartlyTypes == TypeInv /\ BatchGetPartly => TypeInv'
<1> SUFFICES ASSUME TypeInv, BatchGetPartly PROVE TypeInv'
  OBVIOUS
<1>1. Typed /\ PositionInv
  BY TypeParts DEF TypeInv
<1>2. UNCHANGED tableVars /\ UNCHANGED pageVars /\ UNCHANGED outVars /\ UNCHANGED histVars
  BY DEF BatchGetPartly
<1>3. /\ batch' = batch /\ unit' = unit /\ result' = result
      /\ phase = "get" /\ phase' = "get" /\ failures' = failures + 1
  BY DEF BatchGetPartly, Fails
<1>4. idx' = idx /\ page' = page /\ buf' = buf
  BY <1>2 DEF pageVars, outVars
<1>5. want' \subseteq Keys /\ attempts' \in Seq(SUBSET Keys)
  <2>1. want \subseteq Keys /\ attempts \in Seq(SUBSET Keys)
    BY <1>1 DEF Typed, UnitOK
  <2>2. PICK answer \in SUBSET want : want' = want \ answer /\ attempts' = Append(attempts, answer)
    BY DEF BatchGetPartly
  <2>3. answer \in SUBSET Keys
    BY <2>1
  <2>4. QED BY <2>1, <2>2, <2>3, AppendProperties
<1>6. Typed'
  BY <1>1, <1>2, <1>3, <1>4, <1>5, TypeFrames DEF Typed, BatchOK, UnitOK, Phases
<1>7. /\ idx \in DOMAIN batch /\ page # << >> /\ unit \in 1..Units[Head(page)]
      /\ Len(buf) < BatchSize
  BY <1>1, <1>3 DEF PositionInv, Working
<1>8. PositionInv'
  BY <1>3, <1>4, <1>7 DEF PositionInv, Working
<1>9. QED BY <1>6, <1>8, TypeParts DEF TypeInv

LEMMA UnitFaultsTypes == TypeInv /\ (BatchGetExhausted \/ PutFaults) => TypeInv'
<1> SUFFICES ASSUME TypeInv, BatchGetExhausted \/ PutFaults PROVE TypeInv'
  OBVIOUS
<1>1. Typed /\ PositionInv /\ TypeOK
  BY TypeParts DEF TypeInv
<1>2. UnitFaults /\ UnitDone /\ phase \in {"get", "put"}
  BY DEF BatchGetExhausted, PutFaults, UnitFaults
<1>3. UNCHANGED tableVars /\ UNCHANGED histVars
  BY <1>2 DEF UnitFaults
<1>4. /\ batch' = batch /\ idx' = idx /\ start' = start /\ count' = count /\ lek' = lek
      /\ buf' = buf /\ through' = through /\ updated' = updated
      /\ faulted' = faulted \cup {Unit(unit)}
  BY <1>2 DEF UnitFaults
<1>5. failures' \in Nat
  BY <1>1 DEF BatchGetExhausted, PutFaults, Fails, Typed, BatchOK
<1>6. idx \in DOMAIN batch /\ page # << >>
  BY <1>1, <1>2 DEF PositionInv, Working
<1>7. faulted' \subseteq UnitRecord
  <2>1. unit \in Nat /\ faulted \subseteq UnitRecord
    BY <1>1 DEF Typed, UnitOK, OutOK
  <2>2. Unit(unit) \in UnitRecord
    BY <1>1, <1>6, <2>1, UnitType
  <2>3. QED BY <1>4, <2>1, <2>2
<1>8. /\ want' = {} /\ attempts' = << >> /\ result' = << >>
      /\ unit' \in Nat /\ page' \in Seq(Items) /\ phase' \in {"unit", "push"}
      /\ phase' = "unit" => page' # << >> /\ unit' \in 1..Units[Head(page')]
  BY <1>1, <1>2, UnitDoneTypes
<1>9. BatchOK' /\ PageOK' /\ UnitOK' /\ OutOK'
  BY <1>1, <1>4, <1>5, <1>7, <1>8, EmptyOfAny DEF Typed, BatchOK, PageOK, UnitOK, OutOK, Phases
<1>10. Typed'
  BY <1>1, <1>3, <1>9, TypeFrames DEF Typed
<1>11. PositionInv'
  BY <1>4, <1>6, <1>8 DEF PositionInv, Working
<1>12. QED BY <1>10, <1>11, TypeParts DEF TypeInv

LEMMA PutTypes == TypeInv /\ Put => TypeInv'
<1> SUFFICES ASSUME TypeInv, Put PROVE TypeInv'
  OBVIOUS
<1>1. Typed /\ PositionInv /\ TypeOK
  BY TypeParts DEF TypeInv
<1>2. UnitDone /\ phase = "put"
  BY DEF Put
<1>3. UNCHANGED tableVars /\ UNCHANGED histVars
  BY DEF Put
<1>4. /\ batch' = batch /\ idx' = idx /\ start' = start /\ count' = count /\ lek' = lek
      /\ through' = through /\ updated' = updated /\ faulted' = faulted /\ failures' = failures
      /\ buf' = Append(buf, [uow |-> Unit(unit), lek |-> lek])
  BY DEF Put
<1>5. idx \in DOMAIN batch /\ page # << >> /\ Len(buf) < BatchSize
  BY <1>1, <1>2 DEF PositionInv, Working
<1>6. buf' \in Seq(Buffered) /\ Len(buf') <= BatchSize
  <2>1. unit \in Nat /\ lek \in 0..NumItems /\ buf \in Seq(Buffered)
    BY <1>1 DEF Typed, UnitOK, OutOK, PageOK
  <2>2. Unit(unit) \in UnitRecord
    BY <1>1, <1>5, <2>1, UnitType
  <2>3. [uow |-> Unit(unit), lek |-> lek] \in Buffered
    BY <2>1, <2>2 DEF Buffered
  <2>4. buf' \in Seq(Buffered) /\ Len(buf') = Len(buf) + 1 /\ Len(buf) \in Nat
    BY <1>4, <2>1, <2>3, AppendProperties, LenProperties
  <2>5. QED BY <1>5, <2>4, ConstantsAssumption
<1>7. /\ want' = {} /\ attempts' = << >> /\ result' = << >>
      /\ unit' \in Nat /\ page' \in Seq(Items) /\ phase' \in {"unit", "push"}
      /\ phase' = "unit" => page' # << >> /\ unit' \in 1..Units[Head(page')]
  BY <1>1, <1>2, UnitDoneTypes
<1>8. BatchOK' /\ PageOK' /\ UnitOK' /\ OutOK'
  BY <1>1, <1>4, <1>6, <1>7, EmptyOfAny DEF Typed, BatchOK, PageOK, UnitOK, OutOK, Phases
<1>9. Typed'
  BY <1>1, <1>3, <1>8, TypeFrames DEF Typed
<1>10. PositionInv'
  BY <1>4, <1>5, <1>7 DEF PositionInv, Working
<1>11. QED BY <1>9, <1>10, TypeParts DEF TypeInv

LEMMA PublishTypes == TypeInv /\ (Publish \/ PublishFails) => TypeInv'
<1> SUFFICES ASSUME TypeInv, Publish \/ PublishFails PROVE TypeInv'
  OBVIOUS
<1>1. Typed /\ PositionInv
  BY TypeParts DEF TypeInv
<1>2. UNCHANGED tableVars /\ UNCHANGED pageVars /\ UNCHANGED unitVars
  BY DEF Publish, PublishFails
<1>3. /\ batch' = batch /\ updated' = updated /\ faulted' = faulted
      /\ lost' = lost /\ done' = done /\ stalled' = stalled
      /\ buf' = << >> /\ phase' \in {phase, "dead"} /\ MustPublish
  BY DEF Publish, PublishFails, histVars
<1>4. idx' = idx /\ page' = page /\ attempts' = attempts /\ unit' = unit
  BY <1>2 DEF pageVars, unitVars
<1>5. buf \in Seq(Buffered) /\ through \in Seq(Buffered) /\ dealt \subseteq UnitRecord
  BY <1>1 DEF Typed, OutOK, HistOK
<1>6. through' \in Seq(Buffered)
  BY <1>5, ConcatProperties DEF Publish, PublishFails
<1>7. dealt' \subseteq UnitRecord
  <2>1. \A x \in DOMAIN buf : buf[x] \in Buffered
    BY <1>5, ElementOfSeq, LenProperties
  <2>2. {buf[x].uow : x \in DOMAIN buf} \subseteq UnitRecord
    BY <2>1 DEF Buffered
  <2>3. QED BY <1>5, <2>2 DEF Publish, PublishFails, histVars
<1>8. failures' \in Nat
  BY <1>1 DEF Publish, PublishFails, Fails, Typed, BatchOK
<1>9. BatchOK' /\ OutOK' /\ HistOK'
  BY <1>1, <1>3, <1>4, <1>6, <1>7, <1>8, EmptyOfAny, ConstantsAssumption
     DEF Typed, BatchOK, OutOK, HistOK, Phases
<1>10. Typed'
  BY <1>1, <1>2, <1>9, TypeFrames DEF Typed
<1>11. phase \notin {"idle", "get", "put"}
  <2>1. phase # "idle"
    BY <1>1, <1>3, EmptyOfAny, ConstantsAssumption DEF MustPublish, Full, PositionInv
  <2>2. phase \notin {"get", "put"}
    BY <1>1, <1>3, <1>5, LenProperties, ConstantsAssumption DEF MustPublish, Full, PositionInv
  <2>3. QED BY <2>1, <2>2
<1>12. PositionInv'
  BY <1>1, <1>3, <1>4, <1>11 DEF PositionInv, Working
<1>13. QED BY <1>10, <1>12, TypeParts DEF TypeInv

LEMMA FlushCursorTypes == TypeInv /\ FlushCursor => TypeInv'
<1> SUFFICES ASSUME TypeInv, FlushCursor PROVE TypeInv'
  OBVIOUS
<1>1. Typed /\ PositionInv /\ TypeOK
  BY TypeParts DEF TypeInv
<1>2. /\ UNCHANGED pageVars /\ UNCHANGED unitVars
      /\ batch' = batch /\ phase' = phase /\ failures' = failures /\ phase = "flush"
      /\ buf' = buf /\ through' = through /\ faulted' = faulted
      /\ dealt' = dealt /\ lost' = lost /\ stalled' = stalled
  BY DEF FlushCursor
<1>3. idx' = idx /\ page' = page /\ attempts' = attempts /\ unit' = unit
  BY <1>2 DEF pageVars, unitVars
<1>4. /\ NextJob \in Jobs
      /\ \E x \in DOMAIN through : LastOf(NextJob) = through[x]
  BY <1>1, NextJobWaits DEF FlushCursor
<1>5. \A x \in DOMAIN through : through[x].lek \in 0..NumItems
  <2>1. through \in Seq(Buffered)
    BY <1>1 DEF TypeOK
  <2>2. \A x \in DOMAIN through : through[x] \in Buffered
    BY <2>1, ElementOfSeq, LenProperties
  <2>3. QED BY <2>2 DEF Buffered
<1>6. LastOf(NextJob).lek \in 0..NumItems
  BY <1>4, <1>5
<1>7. PICK j \in Jobs, c \in 0..NumItems :
        /\ cursor' = [cursor EXCEPT ![j] = c]
        /\ stream' = Append(stream, Record(j, c, FALSE))
        /\ stamped' = stamped \cup (Guarded \cap {j})
        /\ updated' = updated \cup {j}
        /\ done' = IF c = None THEN done \cup {j} ELSE done
  BY <1>4, <1>6 DEF FlushCursor
<1>8. Record(j, c, FALSE) \in StreamRecord
  BY DEF Record, StreamRecord
<1>9. TableOK'
  BY <1>1, <1>7, <1>8, AppendProperties DEF Typed, TableOK
<1>10. OutOK' /\ HistOK' /\ BatchOK'
  BY <1>1, <1>2, <1>3, <1>7 DEF Typed, OutOK, HistOK, BatchOK
<1>11. Typed'
  BY <1>1, <1>2, <1>9, <1>10, TypeFrames DEF Typed
<1>12. PositionInv'
  BY <1>1, <1>2, <1>3 DEF PositionInv, Working
<1>13. QED BY <1>11, <1>12, TypeParts DEF TypeInv

\* The end of an attempt: its memory is gone.
LEMMA EndTypes ==
  ASSUME TypeOK, NewLine, phase' = "idle", batch' = << >>, idx' = 0, failures' \in Nat,
         TableOK', HistOK'
  PROVE  TypeInv'
<1>1. PageOK' /\ UnitOK' /\ OutOK'
  BY NewLineTypes DEF PageOK, UnitOK, OutOK
<1>2. BatchOK'
  BY EmptyOfAny DEF BatchOK, Phases
<1>3. PositionInv'
  BY DEF NewLine, PositionInv, Working
<1>4. QED BY <1>1, <1>2, <1>3, TypeParts DEF Typed, TypeInv

LEMMA AcknowledgeTypes == TypeInv /\ Acknowledge => TypeInv'
<1> SUFFICES ASSUME TypeInv, Acknowledge PROVE TypeInv'
  OBVIOUS
<1>1. Typed /\ TypeOK
  BY TypeParts DEF TypeInv
<1>2. TableOK'
  BY <1>1, TypeFrames DEF Acknowledge, Typed
<1>3. HistOK'
  <2>1. \A x \in DOMAIN batch : batch[x].job \in Jobs
    <3>1. batch \in Seq(StreamRecord)
      BY <1>1 DEF TypeOK
    <3>2. \A x \in DOMAIN batch : batch[x] \in StreamRecord
      BY <3>1, ElementOfSeq, LenProperties
    <3>3. QED BY <3>2 DEF StreamRecord
  <2>2. {[job |-> batch[i].job, why |-> phase] :
           i \in {k \in DOMAIN batch : HasWork(batch[k]) /\ batch[k].job \notin updated}}
          \subseteq [job : Jobs, why : {"completed", "errored"}]
    BY <2>1 DEF Acknowledge
  <2>3. /\ dealt' = dealt \cup faulted /\ lost' = lost /\ done' = done
        /\ stalled' \subseteq [job : Jobs, why : {"completed", "errored"}]
    BY <1>1, <2>2 DEF Acknowledge, Typed, HistOK
  <2>4. QED BY <1>1, <2>3 DEF Typed, HistOK, OutOK
<1>4. /\ NewLine /\ phase' = "idle" /\ batch' = << >> /\ idx' = 0 /\ failures' \in Nat
  BY <1>1 DEF Acknowledge, TypeOK
<1>5. QED BY <1>1, <1>2, <1>3, <1>4, EndTypes

LEMMA LoseTypes == TypeInv /\ (Kill \/ TimeOut) => TypeInv'
<1> SUFFICES ASSUME TypeInv, Kill \/ TimeOut PROVE TypeInv'
  OBVIOUS
<1>1. Typed /\ TypeOK
  BY TypeParts DEF TypeInv
<1>2. Lose /\ failures' \in Nat
  BY <1>1 DEF Kill, TimeOut, Fails, TypeOK
<1>3. TableOK'
  <2>1. /\ stream' = batch \o stream /\ cursor' = cursor /\ stamped' = stamped
    BY <1>2 DEF Lose
  <2>2. QED BY <1>1, <2>1, ConcatProperties DEF Typed, TableOK, BatchOK
<1>4. HistOK'
  <2>1. dealt' = dealt /\ done' = done /\ stalled' = stalled /\ lost' = lost \cup Written
    BY <1>2 DEF Lose
  <2>2. QED BY <1>1, <2>1 DEF Typed, HistOK, OutOK, Written
<1>5. NewLine /\ phase' = "idle" /\ batch' = << >> /\ idx' = 0
  BY <1>2 DEF Lose
<1>6. QED BY <1>1, <1>2, <1>3, <1>4, <1>5, EndTypes

LEMMA StutterTypes == TypeInv /\ UNCHANGED vars => TypeInv'
<1> SUFFICES ASSUME TypeInv, UNCHANGED vars PROVE TypeInv'
  OBVIOUS
<1>1. Typed /\ PositionInv
  BY TypeParts DEF TypeInv
<1>2. /\ UNCHANGED tableVars /\ UNCHANGED pageVars /\ UNCHANGED unitVars
      /\ UNCHANGED outVars /\ UNCHANGED histVars
      /\ batch' = batch /\ phase' = phase /\ failures' = failures
  BY DEF vars
<1>3. /\ idx' = idx /\ page' = page /\ attempts' = attempts /\ unit' = unit
      /\ buf' = buf /\ through' = through /\ updated' = updated
  BY <1>2 DEF pageVars, unitVars, outVars
<1>4. Typed'
  BY <1>1, <1>2, <1>3, TypeFrames DEF Typed, BatchOK
<1>5. PositionInv'
  BY <1>1, <1>2, <1>3 DEF PositionInv, Working
<1>6. QED BY <1>4, <1>5, TypeParts DEF TypeInv

LEMMA TypeStep == TypeInv /\ [Next]_vars => TypeInv'
<1>1. TypeInv /\ Line => TypeInv'
  BY NextRecordTypes, FetchTypes, PushTypes, PageDoneTypes, GetRequestTypes, BatchGetTypes,
     UnitFaultsTypes, PutTypes, PhaseTypes, PublishTypes, FlushCursorTypes, AcknowledgeTypes
     DEF Line
<1>2. QED
  BY <1>1, InvokeTypes, PhaseTypes, BatchGetPartlyTypes, UnitFaultsTypes, PublishTypes, LoseTypes,
     StutterTypes DEF Next, Finished

\* Every variable has its type, whatever the pages, the failures and the redeliveries; the
\* publisher's buffer never outgrows its batch size.
THEOREM TypeCorrect == Spec => []TypeOK
<1>1. Spec => []TypeInv
  BY TypeInit, TypeStep, PTL DEF Spec
<1>2. TypeInv => TypeOK
  BY DEF TypeInv
<1>3. QED BY <1>1, <1>2, PTL
-----------------------------------------------------------------------------
(***************************************************************************)
(* The answers to a batch_get.                                             *)
(***************************************************************************)
AnswerInv == GetInv /\ ResultInv

\* Actions that neither begin nor continue a batch_get.
LEMMA OtherPhases ==
  ASSUME TypeInv, Next, ~GetRequest, ~BatchGetPartly, ~BatchGet, ~Finished
  PROVE  phase' \notin {"get", "put"}
<1>1. UnitDone => phase' \notin {"get", "put"}
  BY DEF UnitDone
<1>2. CASE Invoke \/ NextRecord \/ Fetch \/ Push \/ PageDone
  BY <1>2 DEF Invoke, NextRecord, Fetch, Push, PageDone
<1>3. CASE FetchFails \/ Rested \/ FlushCursor \/ FlushRejected \/ FlushFails \/ Flushed
  BY <1>3 DEF FetchFails, Rested, FlushCursor, FlushRejected, FlushFails, Flushed
<1>4. CASE BatchGetExhausted \/ PutFaults \/ Put
  BY <1>1, <1>4 DEF BatchGetExhausted, PutFaults, Put, UnitFaults
<1>5. CASE Publish \/ PublishFails
  <2>1. phase' \in {phase, "dead"} /\ MustPublish
    BY <1>5 DEF Publish, PublishFails
  <2>2. CASE phase \in {"get", "put"}
    <3>1. Len(buf) < BatchSize /\ phase # "rest"
      BY <2>2 DEF TypeInv, PositionInv
    <3>2. Len(buf) = BatchSize
      BY <2>1, <3>1 DEF MustPublish, Full
    <3>3. Len(buf) \in Nat
      BY LenProperties DEF TypeInv, TypeOK
    <3>4. QED BY <3>1, <3>2, <3>3
  <2>3. QED BY <2>1, <2>2
<1>6. CASE Acknowledge \/ Kill \/ TimeOut
  BY <1>6 DEF Acknowledge, Kill, TimeOut, Lose
<1>7. QED BY <1>2, <1>3, <1>4, <1>5, <1>6 DEF Next, Line

LEMMA GetRequestAnswers == TypeInv /\ GetRequest => AnswerInv'
<1> SUFFICES ASSUME TypeInv, GetRequest PROVE AnswerInv'
  OBVIOUS
<1>1. attempts' = << >> /\ want' = Keys
  BY DEF GetRequest, TypeInv, PositionInv
<1>2. Keys = {} \/ phase' = "get"
  BY DEF GetRequest
<1>3. Len(attempts') = 0 /\ DOMAIN attempts' = {}
  BY <1>1, EmptyOfAny
<1>4. QED BY <1>1, <1>2, <1>3, ConstantsAssumption DEF AnswerInv, GetInv, ResultInv

LEMMA BatchGetPartlyAnswers == TypeInv /\ AnswerInv /\ BatchGetPartly => AnswerInv'
<1> SUFFICES ASSUME TypeInv, AnswerInv, BatchGetPartly PROVE AnswerInv'
  OBVIOUS
<1>1. /\ phase = "get" /\ phase' = "get" /\ Len(attempts) <= MaxRetries
      /\ attempts \in Seq(SUBSET Keys) /\ want \subseteq Keys
  BY DEF BatchGetPartly, TypeInv, TypeOK
<1>2. PICK answer \in SUBSET want : want' = want \ answer /\ attempts' = Append(attempts, answer)
  BY DEF BatchGetPartly
<1> DEFINE n == Len(attempts)
<1>3. answer \in SUBSET Keys /\ n \in Nat /\ DOMAIN attempts = 1..n
  BY <1>1, <1>2, LenProperties
<1>4. attempts' \in Seq(SUBSET Keys) /\ Len(attempts') = n + 1
  BY <1>1, <1>2, <1>3, AppendProperties
<1>5. DOMAIN attempts' = 1..(n + 1)
  BY <1>4, LenProperties
<1>6. \A x \in 1..(n + 1) : attempts'[x] = IF x = n + 1 THEN answer ELSE attempts[x]
  BY <1>1, <1>2, <1>3, AppendProperties
<1>7. /\ \A k \in Keys : k \in want \/ \E x \in 1..n : k \in attempts[x]
      /\ \A x \in 1..n : attempts[x] \cap want = {}
      /\ \A x, y \in 1..n : x # y => attempts[x] \cap attempts[y] = {}
  BY <1>1, <1>3 DEF AnswerInv, GetInv
<1>8. \A k \in Keys : k \in want' \/ \E x \in 1..(n + 1) : k \in attempts'[x]
  <2>1. ASSUME NEW k \in Keys PROVE k \in want' \/ \E x \in 1..(n + 1) : k \in attempts'[x]
    <3>1. CASE k \in answer
      <4>1. n + 1 \in 1..(n + 1) /\ attempts'[n + 1] = answer
        BY <1>3, <1>6
      <4>2. QED BY <3>1, <4>1
    <3>2. CASE k \in want \ answer
      BY <1>2, <3>2
    <3>3. CASE \E x \in 1..n : k \in attempts[x]
      <4>1. PICK x \in 1..n : k \in attempts[x]
        BY <3>3
      <4>2. x \in 1..(n + 1) /\ attempts'[x] = attempts[x]
        BY <1>3, <1>6, <4>1
      <4>3. QED BY <4>1, <4>2
    <3>4. QED BY <1>7, <3>1, <3>2, <3>3
  <2>2. QED BY <2>1
<1>9. \A x \in 1..(n + 1) : attempts'[x] \cap want' = {}
  <2>1. ASSUME NEW x \in 1..(n + 1) PROVE attempts'[x] \cap want' = {}
    <3>1. CASE x = n + 1
      BY <1>2, <1>6, <3>1
    <3>2. CASE x # n + 1
      <4>1. x \in 1..n /\ attempts'[x] = attempts[x]
        BY <1>3, <1>6, <3>2
      <4>2. QED BY <1>2, <1>7, <4>1
    <3>3. QED BY <3>1, <3>2
  <2>2. QED BY <2>1
<1>10. \A x, y \in 1..(n + 1) : x # y => attempts'[x] \cap attempts'[y] = {}
  <2>1. \A x \in 1..n : attempts'[x] = attempts[x] /\ attempts[x] \cap answer = {}
    BY <1>2, <1>3, <1>6, <1>7
  <2>2. attempts'[n + 1] = answer
    BY <1>3, <1>6
  <2>3. ASSUME NEW x \in 1..(n + 1), NEW y \in 1..(n + 1), x # y
        PROVE  attempts'[x] \cap attempts'[y] = {}
    <3>1. CASE x \in 1..n /\ y \in 1..n
      BY <1>7, <2>1, <2>3, <3>1
    <3>2. CASE x \in 1..n /\ y = n + 1
      BY <2>1, <2>2, <3>2
    <3>3. CASE x = n + 1 /\ y \in 1..n
      BY <2>1, <2>2, <3>3
    <3>4. QED BY <1>3, <2>3, <3>1, <3>2, <3>3
  <2>4. QED BY <2>3
<1>11. Len(attempts') <= MaxRetries + 1
  BY <1>1, <1>3, <1>4, ConstantsAssumption
<1>12. QED BY <1>1, <1>5, <1>8, <1>9, <1>10, <1>11 DEF AnswerInv, GetInv, ResultInv

LEMMA BatchGetAnswers == TypeInv /\ AnswerInv /\ BatchGet => AnswerInv'
<1> SUFFICES ASSUME TypeInv, AnswerInv, BatchGet PROVE AnswerInv'
  OBVIOUS
<1>1. phase = "get" /\ phase' = "put" /\ Len(attempts) <= MaxRetries /\ want \in SUBSET Keys
      /\ TypeOK
  BY DEF BatchGet, TypeInv, TypeOK
<1> DEFINE n == Len(attempts)
<1>2. PICK r : r = Accumulate(want)
  OBVIOUS
<1>3. result' = r
  BY <1>2 DEF BatchGet
<1>4. /\ n \in Nat /\ DOMAIN attempts = 1..n
      /\ Len(r) = n + 1 /\ DOMAIN r = 1..(n + 1)
      /\ \A x \in 1..(n + 1) : r[x] = IF x = 1 THEN want ELSE attempts[n + 2 - x]
  BY <1>1, <1>2, AccumulateFacts
<1>5. /\ \A k \in Keys : k \in want \/ \E x \in 1..n : k \in attempts[x]
      /\ \A x \in 1..n : attempts[x] \cap want = {}
      /\ \A x, y \in 1..n : x # y => attempts[x] \cap attempts[y] = {}
  BY <1>1, <1>4 DEF AnswerInv, GetInv
<1>6. \A k \in Keys : \E x \in 1..(n + 1) : k \in r[x]
  <2>1. ASSUME NEW k \in Keys PROVE \E x \in 1..(n + 1) : k \in r[x]
    <3>1. CASE k \in want
      <4>1. 1 \in 1..(n + 1) /\ r[1] = want
        BY <1>4
      <4>2. QED BY <3>1, <4>1
    <3>2. CASE \E x \in 1..n : k \in attempts[x]
      <4>1. PICK x \in 1..n : k \in attempts[x]
        BY <3>2
      <4>2. n + 2 - x \in 1..(n + 1) /\ n + 2 - x # 1 /\ n + 2 - (n + 2 - x) = x
        BY <1>4
      <4>3. r[n + 2 - x] = attempts[x]
        BY <1>4, <4>2
      <4>4. QED BY <4>1, <4>2, <4>3
    <3>3. QED BY <1>5, <3>1, <3>2
  <2>2. QED BY <2>1
<1>7. \A x, y \in 1..(n + 1) : x # y => r[x] \cap r[y] = {}
  <2>1. \A x \in 2..(n + 1) : n + 2 - x \in 1..n /\ r[x] = attempts[n + 2 - x]
    BY <1>4
  <2>2. r[1] = want
    BY <1>4
  <2>3. ASSUME NEW x \in 1..(n + 1), NEW y \in 1..(n + 1), x # y
        PROVE  r[x] \cap r[y] = {}
    <3>1. CASE x \in 2..(n + 1) /\ y \in 2..(n + 1)
      <4>1. n + 2 - x # n + 2 - y
        BY <1>4, <2>3, <3>1
      <4>2. QED BY <1>5, <2>1, <3>1, <4>1
    <3>2. CASE x \in 2..(n + 1) /\ y = 1
      BY <1>5, <2>1, <2>2, <3>2
    <3>3. CASE x = 1 /\ y \in 2..(n + 1)
      BY <1>5, <2>1, <2>2, <3>3
    <3>4. QED BY <1>4, <2>3, <3>1, <3>2, <3>3
  <2>4. QED BY <2>3
<1>8. Len(r) <= MaxRetries + 1
  BY <1>1, <1>4, ConstantsAssumption
<1>9. QED BY <1>1, <1>3, <1>4, <1>6, <1>7, <1>8 DEF AnswerInv, GetInv, ResultInv

LEMMA AnswerStep == TypeInv /\ AnswerInv /\ [Next]_vars => AnswerInv'
<1> SUFFICES ASSUME TypeInv, AnswerInv, [Next]_vars PROVE AnswerInv'
  OBVIOUS
<1>1. CASE GetRequest \/ BatchGetPartly \/ BatchGet
  BY <1>1, GetRequestAnswers, BatchGetPartlyAnswers, BatchGetAnswers
<1>2. CASE UNCHANGED vars \/ Finished
  <2>1. phase' = phase /\ want' = want /\ attempts' = attempts /\ result' = result
    BY <1>2 DEF Finished, vars, unitVars
  <2>2. QED BY <2>1 DEF AnswerInv, GetInv, ResultInv
<1>3. CASE Next /\ ~GetRequest /\ ~BatchGetPartly /\ ~BatchGet /\ ~Finished
  BY <1>3, OtherPhases DEF AnswerInv, GetInv, ResultInv
<1>4. QED BY <1>1, <1>2, <1>3

LEMMA AnsweredOnce == ResultInv => EachKeyAnsweredOnce
<1> SUFFICES ASSUME ResultInv, phase = "put", Keys # {}, NEW k \in Keys
             PROVE  Cardinality({i \in DOMAIN result : k \in result[i]}) = 1
  BY DEF ResultInv, EachKeyAnsweredOnce
<1>1. PICK x \in DOMAIN result : k \in result[x]
  BY DEF ResultInv
<1>2. \A y \in DOMAIN result : k \in result[y] => y = x
  BY <1>1 DEF ResultInv
<1>3. {i \in DOMAIN result : k \in result[i]} = {x}
  BY <1>1, <1>2
<1>4. QED BY <1>3, FS_Singleton

\* A batch_get that succeeds has every key in exactly one of at most MaxRetries + 1 answers,
\* for every set of keys, however the client splits its answers (Connector._batch_get,
\* unprocessed, accumulate).
THEOREM KeysAnsweredOnce == Spec => []EachKeyAnsweredOnce
<1>1. Init => AnswerInv
  BY DEF Init, AnswerInv, GetInv, ResultInv
<1>2. Spec => [](TypeInv /\ AnswerInv)
  BY <1>1, TypeInit, TypeStep, AnswerStep, PTL DEF Spec
<1>3. AnswerInv => EachKeyAnsweredOnce
  BY AnsweredOnce DEF AnswerInv
<1>4. QED BY <1>2, <1>3, PTL
-----------------------------------------------------------------------------
(***************************************************************************)
(* What a record of the batch has read, and the units that come from it.   *)
(***************************************************************************)

\* A step of the line loses no unit, and an item leaves the page only with all its units.
Forward ==
  /\ batch' = batch /\ Out \subseteq Out'
  /\ idx \in Nat /\ idx' \in {idx, idx + 1}
  /\ \A i \in Items :
       InPage(i) => (InPage(i)' /\ idx' = idx) \/ UnitsOf(batch[idx].job, i) \subseteq Out'

LEMMA ReachedForward ==
  ASSUME Forward, batch \in Seq(StreamRecord), NEW t, Reached(t)
  PROVE  Reached(t)'
<1>1. PICK k \in DOMAIN batch :
        /\ k <= idx /\ batch[k].job = t.uow.job
        /\ \A i \in Items : batch[k].cursor < i /\ i <= End(t.lek) =>
                              (k = idx /\ InPage(i)) \/ Gone(t.uow.job, i)
  BY DEF Reached
<1>2. k \in Nat /\ k <= idx' /\ k \in DOMAIN batch' /\ batch'[k] = batch[k]
  BY <1>1, LenProperties DEF Forward
<1>3. ASSUME NEW i \in Items, batch[k].cursor < i, i <= End(t.lek)
      PROVE  (k = idx' /\ InPage(i)') \/ UnitsOf(t.uow.job, i) \subseteq Out'
  <2>1. CASE k = idx /\ InPage(i)
    BY <1>1, <2>1 DEF Forward
  <2>2. CASE Gone(t.uow.job, i)
    BY <2>2 DEF Gone, Forward
  <2>3. QED BY <1>1, <1>3, <2>1, <2>2
<1>4. QED BY <1>1, <1>2, <1>3 DEF Reached, Gone

\* No step of the line but a failing put_events takes anything back.
LEMMA ReachForward ==
  ASSUME TypeInv, ReachInv, Forward, phase # "dead",
         \A x \in DOMAIN buf' : (\E y \in DOMAIN buf : buf'[x] = buf[y]) \/ Reached(buf[x])',
         \A x \in DOMAIN through' : \/ \E y \in DOMAIN through : through'[x] = through[y]
                                    \/ \E y \in DOMAIN buf : through'[x] = buf[y]
  PROVE  ReachInv'
<1>1. batch \in Seq(StreamRecord)
  BY DEF TypeInv, TypeOK
<1>2. ASSUME NEW t, Reached(t) PROVE Reached(t)'
  BY <1>1, <1>2, ReachedForward
<1>3. ASSUME NEW y \in DOMAIN buf, NEW t, t = buf[y] PROVE Reached(t)'
  BY <1>2, <1>3 DEF ReachInv
<1>4. ASSUME NEW y \in DOMAIN through, NEW t, t = through[y] PROVE Reached(t)'
  BY <1>2, <1>4 DEF ReachInv
<1>5. ASSUME NEW x \in DOMAIN buf' PROVE Reached(buf[x])'
  <2>1. CASE \E y \in DOMAIN buf : buf'[x] = buf[y]
    <3>1. PICK y \in DOMAIN buf : buf'[x] = buf[y]
      BY <2>1
    <3>2. PICK t : t = buf[y]
      OBVIOUS
    <3>3. Reached(t)' /\ t = buf'[x]
      BY <1>3, <3>1, <3>2
    <3>4. QED BY <3>3 DEF Reached
  <2>2. QED BY <2>1
<1>6. ASSUME NEW x \in DOMAIN through' PROVE Reached(through[x])'
  <2>1. PICK t : t = through'[x] /\ Reached(t)'
    <3>1. CASE \E y \in DOMAIN through : through'[x] = through[y]
      BY <1>4, <3>1
    <3>2. CASE \E y \in DOMAIN buf : through'[x] = buf[y]
      BY <1>3, <3>2
    <3>3. QED BY <3>1, <3>2
  <2>2. QED BY <2>1 DEF Reached
<1>7. QED BY <1>5, <1>6 DEF ReachInv

ReadInv == PageInv /\ ReachInv

\* Steps that touch neither the page nor the units.
LEMMA ReadFrame ==
  ASSUME TypeInv, ReadInv, phase # "dead",
         batch' = batch, idx' = idx, page' = page, lek' = lek,
         buf' = buf, through' = through, dealt \subseteq dealt', faulted \subseteq faulted'
  PROVE  ReachInv' /\ Forward
<1>1. Out \subseteq Out'
  BY DEF Out
<1>2. Forward
  BY <1>1 DEF Forward, InPage, TypeInv, TypeOK
<1>3. QED BY <1>2, ReachForward DEF ReadInv

LEMMA RestRead ==
  ASSUME TypeInv, ReadInv,
         FetchFails \/ Rested \/ FlushRejected \/ FlushFails \/ Flushed \/ FlushCursor
  PROVE  ReadInv'
<1>1. /\ batch' = batch /\ UNCHANGED pageVars /\ buf' = buf /\ through' = through
      /\ dealt' = dealt /\ faulted' = faulted /\ phase \in {"fetch", "rest", "flush"}
      /\ phase' \in {"flush", "errored", "completed"}
  BY DEF FetchFails, Rested, FlushRejected, FlushFails, Flushed, FlushCursor, outVars, histVars
<1>2. idx' = idx /\ page' = page /\ lek' = lek
  BY <1>1 DEF pageVars
<1>3. ReachInv'
  BY <1>1, <1>2, ReadFrame
<1>4. PageInv'
  BY <1>1 DEF PageInv
<1>5. QED BY <1>3, <1>4 DEF ReadInv

LEMMA NextRecordRead == TypeInv /\ ReadInv /\ NextRecord => ReadInv'
<1> SUFFICES ASSUME TypeInv, ReadInv, NextRecord PROVE ReadInv'
  OBVIOUS
<1>1. /\ batch' = batch /\ page' = page /\ lek' = lek /\ UNCHANGED outVars /\ UNCHANGED histVars
      /\ phase = "next" /\ page = << >> /\ idx \in Nat
  BY DEF NextRecord, TypeInv, TypeOK, PositionInv
<1>2. buf' = buf /\ through' = through /\ dealt' = dealt /\ faulted' = faulted
  BY <1>1 DEF outVars, histVars
<1>3. /\ idx' \in {idx, idx + 1}
      /\ phase' \in {"rest", "next"} \/ (phase' = "fetch" /\ idx' = idx /\ start' = batch[idx].cursor)
  BY DEF NextRecord
<1>4. \A i \in Items : ~InPage(i)
  BY <1>1, EmptyOfAny DEF InPage
<1>5. Forward
  BY <1>1, <1>2, <1>3, <1>4 DEF Forward, Out
<1>6. ReachInv'
  BY <1>1, <1>2, <1>5, ReachForward DEF ReadInv
<1>7. PageInv'
  <2>1. CASE phase' \in {"rest", "next"}
    BY <2>1 DEF PageInv
  <2>2. CASE phase' = "fetch" /\ idx' = idx /\ start' = batch[idx].cursor
    <3>1. batch[idx] \in StreamRecord
      <4>1. TypeInv' /\ batch \in Seq(StreamRecord)
        BY NextRecordTypes DEF TypeInv, TypeOK
      <4>2. idx \in DOMAIN batch
        BY <1>1, <2>2, <4>1 DEF TypeInv, PositionInv, Working
      <4>3. QED BY <4>1, <4>2, ElementOfSeq, LenProperties
    <3>2. batch'[idx'].cursor = start' /\ start' \in Nat
      BY <1>1, <2>2, <3>1 DEF StreamRecord
    <3>3. \A i \in Items : ~(batch'[idx'].cursor < i /\ i <= start')
      BY <3>2 DEF Items
    <3>4. QED BY <2>2, <3>3 DEF PageInv
  <2>3. QED BY <1>3, <2>1, <2>2
<1>8. QED BY <1>6, <1>7 DEF ReadInv

LEMMA FetchRead == TypeInv /\ ReadInv /\ Fetch => ReadInv'
<1> SUFFICES ASSUME TypeInv, ReadInv, Fetch PROVE ReadInv'
  OBVIOUS
<1>1. /\ batch' = batch /\ idx' = idx /\ UNCHANGED outVars /\ UNCHANGED histVars
      /\ phase = "fetch" /\ phase' = "push" /\ page = << >> /\ start \in 0..NumItems
      /\ NumItems \in Nat /\ NumItems > 0 /\ idx \in Nat
  BY ConstantsAssumption DEF Fetch, TypeInv, TypeOK, PositionInv
<1>2. buf' = buf /\ through' = through /\ dealt' = dealt /\ faulted' = faulted
  BY <1>1 DEF outVars, histVars
<1>3. Out' = Out
  BY <1>2 DEF Out
<1>4. \A i \in Items : ~InPage(i)
  BY <1>1, EmptyOfAny DEF InPage
<1>5. ReachInv'
  <2>1. Forward
    BY <1>1, <1>3, <1>4 DEF Forward
  <2>2. QED BY <1>1, <1>2, <2>1, ReachForward DEF ReadInv
<1>6. PICK last \in start..NumItems :
        /\ page' = [i \in 1..(last - start) |-> start + i]
        /\ last > start \/ last = NumItems
        /\ lek' \in CASE last < NumItems                 -> {last}
                      [] last = NumItems /\ last > start -> {last, None}
                      [] OTHER                           -> {None}
  BY DEF Fetch
<1>7. End(lek') = last
  BY <1>1, <1>6 DEF End, None
<1>8. ASSUME NEW i \in Items, i > start, i <= last PROVE InPage(i)'
  <2>1. i - start \in 1..(last - start) /\ start + (i - start) = i
    BY <1>1, <1>6, <1>8 DEF Items
  <2>2. i - start \in DOMAIN page' /\ page'[i - start] = i
    BY <1>6, <2>1
  <2>3. QED BY <2>2 DEF InPage
<1>9. \A i \in Items : batch[idx].cursor < i /\ i <= start => UnitsOf(batch[idx].job, i) \subseteq Out
  BY <1>1 DEF ReadInv, PageInv, Gone
<1>10. \A i \in Items : batch'[idx'].cursor < i /\ i <= End(lek') =>
                          InPage(i)' \/ UnitsOf(batch'[idx'].job, i) \subseteq Out'
  <2>1. ASSUME NEW i \in Items, batch[idx].cursor < i, i <= last
        PROVE  InPage(i)' \/ UnitsOf(batch[idx].job, i) \subseteq Out
    <3>1. CASE i <= start
      BY <1>9, <2>1, <3>1
    <3>2. CASE i > start
      BY <1>8, <2>1, <3>2
    <3>3. QED BY <1>1, <3>1, <3>2 DEF Items
  <2>2. QED BY <1>1, <1>3, <1>7, <2>1
<1>11. PageInv'
  BY <1>1, <1>10 DEF PageInv, Gone
<1>12. QED BY <1>5, <1>11 DEF ReadInv

LEMMA PageDoneRead == TypeInv /\ ReadInv /\ PageDone => ReadInv'
<1> SUFFICES ASSUME TypeInv, ReadInv, PageDone PROVE ReadInv'
  OBVIOUS
<1>1. /\ batch' = batch /\ page' = page /\ lek' = lek /\ UNCHANGED outVars /\ UNCHANGED histVars
      /\ phase = "push" /\ page = << >> /\ idx \in Nat
  BY DEF PageDone, TypeInv, TypeOK
<1>2. buf' = buf /\ through' = through /\ dealt' = dealt /\ faulted' = faulted
  BY <1>1 DEF outVars, histVars
<1>3. /\ idx' \in {idx, idx + 1}
      /\ phase' = "next" \/ (phase' = "fetch" /\ idx' = idx /\ start' = lek /\ lek # None)
  BY DEF PageDone
<1>4. \A i \in Items : ~InPage(i)
  BY <1>1, EmptyOfAny DEF InPage
<1>5. Forward
  BY <1>1, <1>2, <1>3, <1>4 DEF Forward, Out
<1>6. ReachInv'
  BY <1>1, <1>2, <1>5, ReachForward DEF ReadInv
<1>7. \A i \in Items : batch[idx].cursor < i /\ i <= End(lek) => UnitsOf(batch[idx].job, i) \subseteq Out
  BY <1>1, <1>4 DEF ReadInv, PageInv, Gone
<1>8. PageInv'
  <2>1. CASE phase' = "next"
    BY <2>1 DEF PageInv
  <2>2. CASE phase' = "fetch" /\ idx' = idx /\ start' = lek /\ lek # None
    BY <1>1, <1>5, <1>7, <2>2 DEF PageInv, Gone, End, Forward
  <2>3. QED BY <1>3, <2>1, <2>2
<1>9. QED BY <1>6, <1>8 DEF ReadInv

\* Steps between two units of a record.
LEMMA PageForward ==
  ASSUME TypeInv, PageInv, Forward, idx' = idx, lek' = lek,
         phase \in {"push", "unit", "get", "put"}, phase' \in {"push", "unit", "get", "put"},
         phase' \in {"unit", "get", "put"} => \A u \in 1..(unit' - 1) : Unit(u)' \in Out'
  PROVE  PageInv'
<1>1. \A i \in Items : batch[idx].cursor < i /\ i <= End(lek) =>
                         InPage(i) \/ UnitsOf(batch[idx].job, i) \subseteq Out
  BY DEF PageInv, Gone
<1>2. \A i \in Items : batch'[idx'].cursor < i /\ i <= End(lek') =>
                         InPage(i)' \/ UnitsOf(batch'[idx'].job, i) \subseteq Out'
  BY <1>1 DEF Forward
<1>3. QED BY <1>2 DEF PageInv, Gone

LEMMA GetRead ==
  ASSUME TypeInv, ReadInv, GetRequest \/ BatchGet \/ BatchGetPartly
  PROVE  ReadInv'
<1>1. /\ batch' = batch /\ UNCHANGED pageVars /\ UNCHANGED outVars /\ UNCHANGED histVars
      /\ unit' = unit
      /\ phase \in {"unit", "get"} /\ phase' \in {"get", "put"}
  BY DEF GetRequest, BatchGet, BatchGetPartly
<1>2. /\ idx' = idx /\ page' = page /\ lek' = lek
      /\ buf' = buf /\ through' = through /\ dealt' = dealt /\ faulted' = faulted
  BY <1>1 DEF pageVars, outVars, histVars
<1>3. ReachInv' /\ Forward
  BY <1>1, <1>2, ReadFrame
<1>4. ASSUME NEW u \in 1..(unit - 1) PROVE Unit(u)' \in Out'
  <2>1. Unit(u) \in Out
    BY <1>1 DEF ReadInv, PageInv
  <2>2. Unit(u)' = Unit(u)
    BY <1>1, <1>2 DEF Unit
  <2>3. QED BY <1>3, <2>1, <2>2 DEF Forward
<1>5. PageInv'
  BY <1>1, <1>2, <1>3, <1>4, PageForward DEF ReadInv
<1>6. QED BY <1>3, <1>5 DEF ReadInv

LEMMA PublishRead ==
  ASSUME TypeInv, ReadInv, Publish \/ PublishFails
  PROVE  ReadInv'
<1>1. CASE PublishFails
  BY <1>1 DEF PublishFails, ReadInv, PageInv, ReachInv
<1>2. CASE Publish
  <2>1. /\ batch' = batch /\ UNCHANGED pageVars /\ UNCHANGED unitVars /\ phase' = phase
        /\ faulted' = faulted /\ buf' = << >> /\ through' = through \o buf
        /\ dealt' = dealt \cup {buf[i].uow : i \in DOMAIN buf} /\ phase # "dead"
    BY <1>2 DEF Publish
  <2>2. idx' = idx /\ page' = page /\ lek' = lek /\ start' = start /\ unit' = unit /\ idx \in Nat
    BY <2>1 DEF pageVars, unitVars, TypeInv, TypeOK
  <2>3. Out' = Out
    BY <2>1, EmptyOfAny DEF Out
  <2>4. Forward
    BY <2>1, <2>2, <2>3 DEF Forward, InPage
  <2>5. buf \in Seq(Buffered) /\ through \in Seq(Buffered)
    BY DEF TypeInv, TypeOK
  <2>6. \A x \in DOMAIN through' : \/ \E y \in DOMAIN through : through'[x] = through[y]
                                   \/ \E y \in DOMAIN buf : through'[x] = buf[y]
    <3>1. /\ DOMAIN through = 1..Len(through) /\ DOMAIN buf = 1..Len(buf)
          /\ Len(through) \in Nat /\ Len(buf) \in Nat
      BY <2>5, LenProperties
    <3>2. /\ through' \in Seq(Buffered) /\ Len(through') = Len(through) + Len(buf)
          /\ \A x \in 1..(Len(through) + Len(buf)) :
               through'[x] = IF x <= Len(through) THEN through[x] ELSE buf[x - Len(through)]
      BY <2>1, <2>5, ConcatProperties
    <3>3. DOMAIN through' = 1..(Len(through) + Len(buf))
      BY <3>2, LenProperties
    <3>4. ASSUME NEW x \in 1..(Len(through) + Len(buf))
          PROVE  \/ \E y \in DOMAIN through : through'[x] = through[y]
                 \/ \E y \in DOMAIN buf : through'[x] = buf[y]
      <4>1. CASE x <= Len(through)
        BY <3>1, <3>2, <4>1
      <4>2. CASE ~(x <= Len(through))
        <5>1. x - Len(through) \in DOMAIN buf
          BY <3>1, <4>2
        <5>2. QED BY <3>2, <4>2, <5>1
      <4>3. QED BY <4>1, <4>2
    <3>5. QED BY <3>3, <3>4
  <2>7. ReachInv'
    BY <2>1, <2>4, <2>6, EmptyOfAny, ReachForward DEF ReadInv
  <2>8. PageInv'
    BY <2>1, <2>2, <2>3 DEF ReadInv, PageInv, Gone, InPage, Unit
  <2>9. QED BY <2>7, <2>8 DEF ReadInv
<1>3. QED BY <1>1, <1>2

\* Taking the first item off the page.
LEMMA TailPage ==
  ASSUME page \in Seq(Items), page # << >>, page' = Tail(page)
  PROVE  \A i \in Items : InPage(i) => i = Head(page) \/ InPage(i)'
<1>1. ASSUME NEW i \in Items, NEW x \in DOMAIN page, page[x] = i, i # Head(page) PROVE InPage(i)'
  <2>1. DOMAIN page = 1..Len(page) /\ Len(page) \in Nat
    BY LenProperties
  <2>2. x - 1 \in 1..(Len(page) - 1)
    BY <1>1, <2>1, HeadTailProperties
  <2>3. /\ page' \in Seq(Items) /\ Len(page') = Len(page) - 1
        /\ \A y \in 1..Len(page') : page'[y] = page[y + 1]
    BY HeadTailProperties
  <2>4. x - 1 \in DOMAIN page' /\ page'[x - 1] = page[x]
    BY <2>1, <2>2, <2>3, LenProperties
  <2>5. QED BY <1>1, <2>4 DEF InPage
<1>2. QED BY <1>1 DEF InPage

\* The units of the page's first item.
LEMMA UnitsOfHead ==
  ASSUME TypeInv, phase \in Working, page # << >>
  PROVE  /\ Head(page) \in Items /\ Units[Head(page)] \in Nat
         /\ \A S : (\A u \in IF Units[Head(page)] = 0 THEN {0} ELSE 1..Units[Head(page)] : Unit(u) \in S)
                      => UnitsOf(batch[idx].job, Head(page)) \subseteq S
<1>1. Head(page) \in Items
  BY HeadTailProperties DEF TypeInv, TypeOK
<1>2. QED BY <1>1, ConstantsAssumption DEF UnitsOf, Unit

LEMMA PushRead == TypeInv /\ ReadInv /\ Push => ReadInv'
<1> SUFFICES ASSUME TypeInv, ReadInv, Push PROVE ReadInv'
  OBVIOUS
<1>1. /\ batch' = batch /\ idx' = idx /\ lek' = lek /\ UNCHANGED outVars
      /\ phase = "push" /\ page # << >> /\ page \in Seq(Items) /\ idx \in Nat
  BY DEF Push, TypeInv, TypeOK
<1>2. buf' = buf /\ through' = through /\ faulted' = faulted
  BY <1>1 DEF outVars
<1>3. CASE /\ Units[Head(page)] = 0
           /\ page' = Tail(page)
           /\ dealt' = dealt \cup {Unit(0)}
           /\ UNCHANGED <<phase, unit>>
  <2>1. Out' = Out \cup {Unit(0)}
    BY <1>2, <1>3 DEF Out
  <2>2. UnitsOf(batch[idx].job, Head(page)) \subseteq Out'
    BY <1>1, <1>3, <2>1, UnitsOfHead DEF Working
  <2>3. Forward
    BY <1>1, <1>3, <2>1, <2>2, TailPage DEF Forward
  <2>4. ReachInv'
    BY <1>1, <1>2, <2>3, ReachForward DEF ReadInv
  <2>5. PageInv'
    BY <1>1, <1>3, <2>3, PageForward DEF ReadInv
  <2>6. QED BY <2>4, <2>5 DEF ReadInv
<1>4. CASE phase' = "unit" /\ unit' = 1 /\ UNCHANGED <<page, dealt>>
  <2>1. ReachInv' /\ Forward
    BY <1>1, <1>2, <1>4, ReadFrame
  <2>2. PageInv'
    BY <1>1, <1>4, <2>1, PageForward DEF ReadInv
  <2>3. QED BY <2>1, <2>2 DEF ReadInv
<1>5. QED BY <1>3, <1>4 DEF Push

\* The end of a unit of work that is out.
LEMMA UnitDoneRead ==
  ASSUME TypeInv, ReadInv, UnitDone, phase \in {"get", "put"},
         batch' = batch, idx' = idx, lek' = lek, Out' = Out \cup {Unit(unit)}
  PROVE  PageInv' /\ Forward
<1>1. page \in Seq(Items) /\ page # << >> /\ idx \in Nat /\ unit \in 1..Units[Head(page)]
  BY DEF TypeInv, TypeOK, PositionInv
<1>2. \A u \in 1..(unit - 1) : Unit(u) \in Out'
  BY DEF ReadInv, PageInv
<1>3. Head(page) \in Items /\ Units[Head(page)] \in Nat
  BY <1>1, UnitsOfHead DEF Working
<1>4. \A u \in 1..unit : Unit(u) \in Out'
  <2>1. ASSUME NEW u \in 1..unit PROVE Unit(u) \in Out'
    <3>1. u \in 1..(unit - 1) \/ u = unit
      BY <1>1, <1>3
    <3>2. QED BY <1>2, <3>1
  <2>2. QED BY <2>1
<1>5. CASE unit < Units[Head(page)]
  <2>1. unit' = unit + 1 /\ phase' = "unit" /\ page' = page
    BY <1>5 DEF UnitDone
  <2>2. Forward
    BY <1>1, <2>1 DEF Forward, InPage
  <2>3. \A u \in 1..(unit' - 1) : Unit(u)' \in Out'
    BY <1>1, <1>3, <1>4, <2>1 DEF Unit
  <2>4. PageInv'
    BY <2>1, <2>2, <2>3, PageForward DEF ReadInv
  <2>5. QED BY <2>2, <2>4
<1>6. CASE ~(unit < Units[Head(page)])
  <2>1. unit' = 0 /\ phase' = "push" /\ page' = Tail(page)
    BY <1>6 DEF UnitDone
  <2>2. unit = Units[Head(page)] /\ Units[Head(page)] # 0
    BY <1>1, <1>3, <1>6
  <2>3. UnitsOf(batch[idx].job, Head(page)) \subseteq Out'
    BY <1>1, <1>4, <2>2, UnitsOfHead DEF Working
  <2>4. Forward
    BY <1>1, <2>1, <2>3, TailPage DEF Forward
  <2>5. PageInv'
    BY <2>1, <2>4, PageForward DEF ReadInv
  <2>6. QED BY <2>4, <2>5
<1>7. QED BY <1>5, <1>6

LEMMA UnitFaultsRead ==
  ASSUME TypeInv, ReadInv, BatchGetExhausted \/ PutFaults
  PROVE  ReadInv'
<1>1. /\ UnitDone /\ phase \in {"get", "put"}
      /\ batch' = batch /\ idx' = idx /\ lek' = lek /\ UNCHANGED histVars
      /\ buf' = buf /\ through' = through /\ faulted' = faulted \cup {Unit(unit)}
  BY DEF BatchGetExhausted, PutFaults, UnitFaults
<1>2. Out' = Out \cup {Unit(unit)}
  BY <1>1 DEF Out, histVars
<1>3. PageInv' /\ Forward
  BY <1>1, <1>2, UnitDoneRead
<1>4. ReachInv'
  BY <1>1, <1>3, ReachForward DEF ReadInv
<1>5. QED BY <1>3, <1>4 DEF ReadInv

LEMMA PutRead == TypeInv /\ ReadInv /\ Put => ReadInv'
<1> SUFFICES ASSUME TypeInv, ReadInv, Put PROVE ReadInv'
  OBVIOUS
<1>1. /\ UnitDone /\ phase = "put" /\ phase' \in {"unit", "push"}
      /\ batch' = batch /\ idx' = idx /\ lek' = lek /\ UNCHANGED histVars
      /\ through' = through /\ faulted' = faulted
      /\ buf' = Append(buf, [uow |-> Unit(unit), lek |-> lek])
  BY DEF Put, UnitDone
<1>2. PICK t : t = [uow |-> Unit(unit), lek |-> lek]
  OBVIOUS
<1>3. /\ buf \in Seq(Buffered) /\ page # << >> /\ unit \in Nat /\ lek \in 0..NumItems
      /\ idx \in DOMAIN batch /\ idx \in Nat /\ TypeOK
  BY <1>1 DEF TypeInv, TypeOK, PositionInv, Working
<1>4. t \in Buffered
  BY <1>2, <1>3, UnitType DEF Buffered
<1> DEFINE n == Len(buf)
<1>5. n \in Nat /\ DOMAIN buf = 1..n
  BY <1>3, LenProperties
<1>6. buf' = Append(buf, t)
  BY <1>1, <1>2
<1>7. /\ buf' \in Seq(Buffered) /\ Len(buf') = n + 1
      /\ \A x \in 1..n : buf'[x] = buf[x]
      /\ buf'[n + 1] = t
  BY <1>3, <1>4, <1>5, <1>6, AppendProperties
<1>8. DOMAIN buf' = 1..(n + 1)
  BY <1>7, LenProperties
<1>9. Out' = Out \cup {Unit(unit)}
  <2>1. {buf'[x].uow : x \in 1..(n + 1)} = {buf[x].uow : x \in 1..n} \cup {t.uow}
    BY <1>5, <1>7
  <2>2. t.uow = Unit(unit) /\ dealt' = dealt
    BY <1>1, <1>2 DEF histVars
  <2>3. QED BY <1>1, <1>5, <1>8, <2>1, <2>2 DEF Out
<1>10. PageInv' /\ Forward
  BY <1>1, <1>9, UnitDoneRead
<1>11. Reached(t)'
  <2>1. t.lek = lek /\ t.uow.job = batch[idx].job
    BY <1>2 DEF Unit
  <2>2. \A i \in Items : batch'[idx'].cursor < i /\ i <= End(lek') =>
                           InPage(i)' \/ UnitsOf(batch'[idx'].job, i) \subseteq Out'
    BY <1>1, <1>10 DEF PageInv, Gone
  <2>3. QED BY <1>1, <1>3, <2>1, <2>2 DEF Reached, Gone
<1>12. \A x \in DOMAIN buf' : (\E y \in DOMAIN buf : buf'[x] = buf[y]) \/ Reached(buf[x])'
  <2>1. ASSUME NEW x \in 1..(n + 1)
        PROVE  (\E y \in DOMAIN buf : buf'[x] = buf[y]) \/ Reached(buf[x])'
    <3>1. CASE x \in 1..n
      BY <1>5, <1>7, <3>1
    <3>2. CASE x = n + 1
      <4>1. buf'[x] = t
        BY <1>7, <3>2
      <4>2. QED BY <1>11, <4>1 DEF Reached
    <3>3. QED BY <1>5, <3>1, <3>2
  <2>2. QED BY <1>8, <2>1
<1>13. ReachInv'
  BY <1>1, <1>10, <1>12, ReachForward DEF ReadInv
<1>14. QED BY <1>10, <1>13 DEF ReadInv

LEMMA ReadStep == TypeInv /\ ReadInv /\ [Next]_vars => ReadInv'
<1> SUFFICES ASSUME TypeInv, ReadInv, [Next]_vars PROVE ReadInv'
  OBVIOUS
<1>1. CASE NextRecord \/ Fetch \/ Push \/ PageDone \/ Put
  BY <1>1, NextRecordRead, FetchRead, PushRead, PageDoneRead, PutRead
<1>2. CASE GetRequest \/ BatchGet \/ BatchGetPartly
  BY <1>2, GetRead
<1>3. CASE BatchGetExhausted \/ PutFaults
  BY <1>3, UnitFaultsRead
<1>4. CASE Publish \/ PublishFails
  BY <1>4, PublishRead
<1>5. CASE FetchFails \/ Rested \/ FlushRejected \/ FlushFails \/ Flushed \/ FlushCursor
  BY <1>5, RestRead
<1>6. CASE Invoke \/ Acknowledge \/ Kill \/ TimeOut
  <2>1. buf' = << >> /\ through' = << >> /\ phase' \in {"idle", "next"}
    BY <1>6 DEF Invoke, Acknowledge, Kill, TimeOut, Lose, NewLine
  <2>2. QED BY <2>1, EmptyOfAny DEF ReadInv, PageInv, ReachInv
<1>7. CASE UNCHANGED vars \/ Finished
  <2>1. /\ batch' = batch /\ phase' = phase /\ idx' = idx /\ start' = start /\ page' = page
        /\ lek' = lek /\ unit' = unit /\ buf' = buf /\ through' = through
        /\ faulted' = faulted /\ dealt' = dealt
    BY <1>7 DEF Finished, vars, pageVars, unitVars, outVars, histVars
  <2>2. QED BY <2>1 DEF ReadInv, PageInv, ReachInv, Reached, Gone, InPage, Out, Unit
<1>8. QED BY <1>1, <1>2, <1>3, <1>4, <1>5, <1>6, <1>7 DEF Next, Line
-----------------------------------------------------------------------------
(***************************************************************************)
(* The work behind the cursors.                                            *)
(***************************************************************************)

\* Steps after which the table and the batch are as before, and nothing is forgotten.
LEMMA SettledKept ==
  ASSUME WrittenInv, cursor' = cursor, stream' = stream, batch' = batch, done' = done,
         dealt \subseteq dealt', lost' = lost, faulted \subseteq faulted', updated' = updated
  PROVE  WrittenInv'
<1>1. Settled \subseteq Settled' /\ dealt \cup lost \subseteq (dealt \cup lost)'
  BY DEF Settled, Written
<1>2. QED BY <1>1 DEF WrittenInv

LEMMA InvokeWritten == TypeInv /\ WrittenInv /\ Invoke => WrittenInv'
<1> SUFFICES ASSUME TypeInv, WrittenInv, Invoke PROVE WrittenInv'
  OBVIOUS
<1>1. /\ stream \in Seq(StreamRecord) /\ Len(stream) \in Nat /\ DOMAIN stream = 1..Len(stream)
      /\ \A x \in 1..Len(stream) : stream[x] \in StreamRecord
  BY LenProperties, ElementOfSeq DEF TypeInv, TypeOK
<1>2. PICK n \in 1..Len(stream) : /\ batch' = SubSeq(stream, 1, n)
                                  /\ stream' = SubSeq(stream, n + 1, Len(stream))
  BY DEF Invoke
<1>3. /\ cursor' = cursor /\ done' = done /\ dealt' = dealt /\ lost' = lost
      /\ faulted' = {} /\ updated' = {} /\ updated = {}
  BY DEF Invoke, histVars, NewLine, TypeInv, PositionInv
<1>4. Settled = dealt \cup lost /\ Settled' = Settled
  BY <1>3 DEF Settled, Written
<1>5. \A x \in DOMAIN batch' : \E y \in DOMAIN stream : batch'[x] = stream[y]
  <2>1. SubSeq(stream, 1, n) \in Seq(StreamRecord) /\ Len(SubSeq(stream, 1, n)) = n
        /\ \A x \in 1..n : SubSeq(stream, 1, n)[x] = stream[x]
    BY <1>1, SubSeqProperties
  <2>2. DOMAIN batch' = 1..n
    BY <1>2, <2>1, LenProperties
  <2>3. QED BY <1>1, <1>2, <2>1, <2>2
<1>6. \A x \in DOMAIN stream' : \E y \in DOMAIN stream : stream'[x] = stream[y]
  <2>1. PICK m : m = Len(stream) - n
    OBVIOUS
  <2>2. m \in Nat
    BY <1>1, <2>1
  <2>3. /\ stream' \in Seq(StreamRecord) /\ Len(stream') = m
        /\ \A x \in 1..m : stream'[x] = stream[x + n]
    <3>1. /\ n + 1 \in Int /\ Len(stream) \in Int
          /\ \A i \in (n + 1)..Len(stream) : stream[i] \in StreamRecord
      BY <1>1
    <3>2. /\ stream' \in Seq(StreamRecord)
          /\ Len(stream') = IF n + 1 <= Len(stream) THEN Len(stream) - (n + 1) + 1 ELSE 0
          /\ \A i \in 1..(Len(stream) - (n + 1) + 1) : stream'[i] = stream[(n + 1) + i - 1]
      BY <1>2, <3>1, SubSeqProperties
    <3>3. /\ Len(stream) - (n + 1) + 1 = m
          /\ n + 1 <= Len(stream) \/ m = 0
          /\ \A i \in 1..m : (n + 1) + i - 1 = i + n
      <4>1. n \in Nat /\ Len(stream) \in Nat /\ n <= Len(stream)
        BY <1>1
      <4>2. Len(stream) - (n + 1) + 1 = Len(stream) - n /\ (n + 1 <= Len(stream) \/ m = 0)
        BY <2>1, <4>1
      <4>3. \A i \in 1..m : (n + 1) + i - 1 = i + n
        BY <2>2, <4>1
      <4>4. QED BY <2>1, <4>2, <4>3
    <3>4. QED BY <2>2, <3>2, <3>3
  <2>4. DOMAIN stream' = 1..m
    BY <2>3, LenProperties
  <2>5. \A x \in 1..m : x + n \in DOMAIN stream
    BY <1>1, <2>1
  <2>6. QED BY <2>3, <2>4, <2>5
<1>7. QED BY <1>3, <1>4, <1>5, <1>6 DEF WrittenInv

\* A written cursor has everything behind it in the history, or in this attempt's faults.
LEMMA FlushCursorWritten == TypeInv /\ ReachInv /\ WrittenInv /\ FlushCursor => WrittenInv'
<1> SUFFICES ASSUME TypeInv, ReachInv, WrittenInv, FlushCursor PROVE WrittenInv'
  OBVIOUS
<1>1. /\ phase = "flush" /\ page = << >> /\ buf = << >> /\ TypeOK /\ Waiting # {}
      /\ batch' = batch /\ dealt' = dealt /\ lost' = lost /\ faulted' = faulted
  BY DEF FlushCursor, TypeInv, PositionInv
<1>2. PICK j, c, t : /\ j = NextJob /\ t = LastOf(j) /\ c = t.lek
                     /\ cursor' = [cursor EXCEPT ![j] = c]
                     /\ stream' = Append(stream, Record(j, c, FALSE))
                     /\ updated' = updated \cup {j}
                     /\ done' = IF c = None THEN done \cup {j} ELSE done
  <2>1. PICK j : j = NextJob
    OBVIOUS
  <2>2. PICK t : t = LastOf(j)
    OBVIOUS
  <2>3. /\ cursor' = [cursor EXCEPT ![j] = t.lek]
        /\ stream' = Append(stream, Record(j, t.lek, FALSE))
        /\ updated' = updated \cup {j}
        /\ done' = IF t.lek = None THEN done \cup {j} ELSE done
    BY <2>1, <2>2 DEF FlushCursor
  <2>4. QED BY <2>1, <2>2, <2>3
<1>3. j \in Jobs /\ \E x \in DOMAIN through : t = through[x] /\ t.uow.job = j
  BY <1>1, <1>2, NextJobWaits
<1>4. t \in Buffered /\ t.uow.job = j /\ Reached(t)
  <2>1. PICK x \in DOMAIN through : t = through[x] /\ t.uow.job = j
    BY <1>3
  <2>2. t \in Buffered
    <3>1. through \in Seq(Buffered)
      BY <1>1 DEF TypeOK
    <3>2. QED BY <2>1, <3>1, ElementOfSeq, LenProperties
  <2>3. Reached(t)
    BY <1>1, <2>1 DEF ReachInv
  <2>4. QED BY <2>1, <2>2, <2>3
<1>5. c \in 0..NumItems /\ NumItems \in Nat
  BY <1>2, <1>4, ConstantsAssumption DEF Buffered
<1>6. Settled \subseteq Settled' /\ dealt \cup lost \subseteq (dealt \cup lost)'
  BY <1>1, <1>2 DEF Settled, Written
<1>7. ASSUME NEW i \in Items, i <= End(c) PROVE UnitsOf(j, i) \subseteq Settled'
  <2>1. \A y \in Items : ~InPage(y)
    BY <1>1, EmptyOfAny DEF InPage
  <2>2. PICK k \in DOMAIN batch :
          /\ k <= idx /\ batch[k].job = j
          /\ batch[k].cursor < i /\ i <= End(c) => UnitsOf(j, i) \subseteq Out
    BY <1>2, <1>4, <1>7, <2>1 DEF Reached, Gone
  <2>3. batch[k].cursor \in Nat
    <3>1. batch \in Seq(StreamRecord)
      BY <1>1 DEF TypeOK
    <3>2. batch[k] \in StreamRecord
      BY <2>2, <3>1, ElementOfSeq, LenProperties
    <3>3. QED BY <1>5, <3>2 DEF StreamRecord
  <2>4. CASE i <= batch[k].cursor
    BY <1>6, <2>2, <2>4 DEF WrittenInv, Settled
  <2>5. CASE batch[k].cursor < i
    <3>1. UnitsOf(j, i) \subseteq dealt \cup faulted
      BY <1>1, <1>7, <2>2, <2>5, EmptyOfAny DEF Out
    <3>2. \A u \in UnitsOf(j, i) : u.job = j
      BY DEF UnitsOf
    <3>3. QED BY <1>1, <1>2, <3>1, <3>2 DEF Settled, Written
  <2>6. QED BY <2>3, <2>4, <2>5 DEF Items
<1>8. \A i \in Items : i <= c \/ c = None => UnitsOf(j, i) \subseteq Settled'
  BY <1>5, <1>7 DEF End, None, Items
<1>9. ASSUME NEW g \in Jobs, NEW i \in Items, i <= cursor'[g] \/ g \in done'
      PROVE  UnitsOf(g, i) \subseteq Settled'
  <2>1. (i <= cursor[g] \/ g \in done) => UnitsOf(g, i) \subseteq Settled'
    BY <1>6 DEF WrittenInv
  <2>2. cursor \in [Jobs -> 0..NumItems]
    BY <1>1 DEF TypeOK
  <2>3. CASE g = j
    BY <1>2, <1>3, <1>8, <1>9, <2>1, <2>2, <2>3
  <2>4. CASE g # j
    BY <1>2, <1>3, <1>9, <2>1, <2>2, <2>4
  <2>5. QED BY <2>3, <2>4
<1>10. ASSUME NEW x \in DOMAIN stream', NEW i \in Items, i <= stream'[x].cursor
       PROVE  UnitsOf(stream'[x].job, i) \subseteq Settled'
  <2>1. stream \in Seq(StreamRecord) /\ Record(j, c, FALSE) \in StreamRecord
    BY <1>1, <1>3, <1>5 DEF TypeOK, Record, StreamRecord
  <2>2. /\ stream' \in Seq(StreamRecord) /\ Len(stream') = Len(stream) + 1
        /\ \A y \in 1..Len(stream) : stream'[y] = stream[y]
        /\ stream'[Len(stream) + 1] = Record(j, c, FALSE)
    <3>1. PICK r : r = Record(j, c, FALSE)
      OBVIOUS
    <3>2. r \in StreamRecord /\ stream' = Append(stream, r)
      BY <1>2, <2>1, <3>1
    <3>3. /\ Append(stream, r) \in Seq(StreamRecord)
          /\ Len(Append(stream, r)) = Len(stream) + 1
          /\ \A y \in 1..Len(stream) : Append(stream, r)[y] = stream[y]
          /\ Append(stream, r)[Len(stream) + 1] = r
      BY <2>1, <3>2, AppendProperties
    <3>4. QED BY <3>1, <3>2, <3>3
  <2>3. DOMAIN stream' = 1..(Len(stream) + 1) /\ DOMAIN stream = 1..Len(stream) /\ Len(stream) \in Nat
    BY <2>1, <2>2, LenProperties
  <2>4. CASE x = Len(stream) + 1
    BY <1>8, <1>10, <2>2, <2>4 DEF Record
  <2>5. CASE x \in DOMAIN stream
    BY <1>6, <1>10, <2>2, <2>3, <2>5 DEF WrittenInv
  <2>6. QED BY <2>3, <2>4, <2>5
<1>11. \A x \in DOMAIN batch' : \A i \in Items :
         i <= batch'[x].cursor => UnitsOf(batch'[x].job, i) \subseteq (dealt \cup lost)'
  BY <1>1, <1>6 DEF WrittenInv
<1>12. QED BY <1>9, <1>10, <1>11 DEF WrittenInv

\* The faults are reported when the batch is acknowledged.
LEMMA AcknowledgeWritten == WrittenInv /\ Acknowledge => WrittenInv'
<1> SUFFICES ASSUME WrittenInv, Acknowledge PROVE WrittenInv'
  OBVIOUS
<1>1. /\ cursor' = cursor /\ stream' = stream /\ done' = done /\ lost' = lost
      /\ dealt' = dealt \cup faulted /\ batch' = << >>
  BY DEF Acknowledge, tableVars
<1>2. Settled \subseteq Settled'
  BY <1>1 DEF Settled, Written
<1>3. QED BY <1>1, <1>2, EmptyOfAny DEF WrittenInv

LEMMA LoseWritten == TypeInv /\ WrittenInv /\ (Kill \/ TimeOut) => WrittenInv'
<1> SUFFICES ASSUME TypeInv, WrittenInv, Kill \/ TimeOut PROVE WrittenInv'
  OBVIOUS
<1>1. /\ cursor' = cursor /\ done' = done /\ lost' = lost \cup Written /\ dealt' = dealt
      /\ batch' = << >> /\ stream' = batch \o stream
  BY DEF Kill, TimeOut, Lose
<1>2. Settled \subseteq Settled' /\ dealt \cup lost \subseteq Settled'
  BY <1>1 DEF Settled
<1>3. \A x \in DOMAIN stream' : \/ \E y \in DOMAIN batch : stream'[x] = batch[y]
                                \/ \E y \in DOMAIN stream : stream'[x] = stream[y]
  <2>1. batch \in Seq(StreamRecord) /\ stream \in Seq(StreamRecord)
    BY DEF TypeInv, TypeOK
  <2>2. /\ DOMAIN batch = 1..Len(batch) /\ DOMAIN stream = 1..Len(stream)
        /\ Len(batch) \in Nat /\ Len(stream) \in Nat
    BY <2>1, LenProperties
  <2>3. /\ stream' \in Seq(StreamRecord) /\ Len(stream') = Len(batch) + Len(stream)
        /\ \A x \in 1..(Len(batch) + Len(stream)) :
             stream'[x] = IF x <= Len(batch) THEN batch[x] ELSE stream[x - Len(batch)]
    BY <1>1, <2>1, ConcatProperties
  <2>4. DOMAIN stream' = 1..(Len(batch) + Len(stream))
    BY <2>3, LenProperties
  <2>5. ASSUME NEW x \in 1..(Len(batch) + Len(stream))
        PROVE  \/ \E y \in DOMAIN batch : stream'[x] = batch[y]
               \/ \E y \in DOMAIN stream : stream'[x] = stream[y]
    <3>1. CASE x <= Len(batch)
      BY <2>2, <2>3, <3>1
    <3>2. CASE ~(x <= Len(batch))
      <4>1. x - Len(batch) \in DOMAIN stream
        BY <2>2, <3>2
      <4>2. QED BY <2>3, <3>2, <4>1
    <3>3. QED BY <3>1, <3>2
  <2>6. QED BY <2>4, <2>5
<1>4. ASSUME NEW x \in DOMAIN stream', NEW i \in Items, i <= stream'[x].cursor
      PROVE  UnitsOf(stream'[x].job, i) \subseteq Settled'
  <2>1. CASE \E y \in DOMAIN batch : stream'[x] = batch[y]
    BY <1>2, <1>4, <2>1 DEF WrittenInv
  <2>2. CASE \E y \in DOMAIN stream : stream'[x] = stream[y]
    BY <1>2, <1>4, <2>2 DEF WrittenInv
  <2>3. QED BY <1>3, <2>1, <2>2
<1>5. QED BY <1>1, <1>2, <1>4, EmptyOfAny DEF WrittenInv

LEMMA WrittenStep == TypeInv /\ ReadInv /\ WrittenInv /\ [Next]_vars => WrittenInv'
<1> SUFFICES ASSUME TypeInv, ReadInv, WrittenInv, [Next]_vars PROVE WrittenInv'
  OBVIOUS
<1>1. CASE Invoke \/ FlushCursor \/ Acknowledge \/ Kill \/ TimeOut
  BY <1>1, InvokeWritten, FlushCursorWritten, AcknowledgeWritten, LoseWritten DEF ReadInv
<1>2. CASE \/ NextRecord \/ Fetch \/ PageDone \/ GetRequest \/ BatchGet \/ BatchGetPartly
           \/ FetchFails \/ Rested \/ FlushRejected \/ FlushFails \/ Flushed \/ Finished
           \/ UNCHANGED vars
  <2>1. UNCHANGED tableVars /\ batch' = batch /\ UNCHANGED outVars /\ UNCHANGED histVars
    BY <1>2 DEF NextRecord, Fetch, PageDone, GetRequest, BatchGet, BatchGetPartly, FetchFails,
                Rested, FlushRejected, FlushFails, Flushed, Finished, vars
  <2>2. QED BY <2>1, SettledKept DEF tableVars, outVars, histVars
<1>3. CASE Push \/ BatchGetExhausted \/ PutFaults \/ Put \/ Publish \/ PublishFails
  <2>1. UNCHANGED tableVars /\ batch' = batch /\ updated' = updated /\ lost' = lost /\ done' = done
    BY <1>3 DEF Push, BatchGetExhausted, PutFaults, UnitFaults, Put, Publish, PublishFails,
                outVars, histVars
  <2>2. dealt \subseteq dealt' /\ faulted \subseteq faulted'
    BY <1>3 DEF Push, BatchGetExhausted, PutFaults, UnitFaults, Put, Publish, PublishFails,
                outVars, histVars
  <2>3. QED BY <2>1, <2>2, SettledKept DEF tableVars
<1>4. QED BY <1>1, <1>2, <1>3 DEF Next, Line

LEMMA ReadInit == Init => ReadInv /\ WrittenInv
<1> SUFFICES ASSUME Init PROVE ReadInv /\ WrittenInv
  OBVIOUS
<1>1. /\ cursor = [j \in Jobs |-> None] /\ stream = [j \in Jobs |-> Record(j, None, TRUE)]
      /\ batch = << >> /\ phase = "idle" /\ buf = << >> /\ through = << >> /\ done = {}
  BY DEF Init, EmptyLine
<1>2. ReadInv
  BY <1>1, EmptyOfAny DEF ReadInv, PageInv, ReachInv
<1>3. \A i \in Items : ~(i <= None)
  BY ConstantsAssumption DEF Items, None
<1>4. WrittenInv
  BY <1>1, <1>3, EmptyOfAny DEF WrittenInv, Record
<1>5. QED BY <1>2, <1>4

\* No job's cursor ever moves past work that is neither published, nor dropped by the rule,
\* nor a fault, for any table, page limit, buffer and batch size, retries, failures, killed
\* containers and redelivered batches (_flush_cursor).
THEOREM CursorsBehindWork == Spec => []CursorBehindWork
<1>1. Spec => [](TypeInv /\ ReadInv /\ WrittenInv)
  BY TypeInit, TypeStep, ReadInit, ReadStep, WrittenStep, PTL DEF Spec
<1>2. WrittenInv => CursorBehindWork
  BY DEF WrittenInv, CursorBehindWork, Settled
<1>3. QED BY <1>1, <1>2, PTL
-----------------------------------------------------------------------------
(***************************************************************************)
(* Publishing once, while nothing fails.                                   *)
(***************************************************************************)

\* Units of work that have been published, and those that wait for it as well.
Published == {u \in dealt : u.unit # 0}
Sent      == Published \cup {buf[x].uow : x \in DOMAIN buf}

\* The units of job j in P come before unit n of item i.
Behind(P, j, i, n) ==
  \A u \in P : u.job = j => u.item < i \/ (u.item = i /\ u.unit < n)

\* No unit is recorded as a fault and no line is dead.
QuietInv == faulted = {} /\ attempts = << >> /\ phase # "dead"

\* A job has one record at most, and a second one only once its cursor has been written.
SingleInv ==
  /\ \A x, y \in DOMAIN stream : stream[x].job = stream[y].job => x = y
  /\ \A x, y \in DOMAIN batch : batch[x].job = batch[y].job => x = y
  /\ \A x \in DOMAIN stream, y \in DOMAIN batch :
       stream[x].job = batch[y].job => stream[x].job \in updated
  /\ phase \in Working \cup {"next", "rest"} \/ buf # << >> => updated = {}

\* What has been sent of a job comes before what its next page, or the rest of the one being
\* processed, has.
StreamAhead ==
  \A x \in DOMAIN stream :
    HasWork(stream[x]) => Behind(Published, stream[x].job, stream[x].cursor + 1, 0)
BatchAhead ==
  phase \in Working \cup {"next"} =>
    \A k \in DOMAIN batch :
      (idx < k \/ (k = idx /\ phase = "next")) /\ HasWork(batch[k]) =>
        Behind(Sent, batch[k].job, batch[k].cursor + 1, 0)
PageAhead ==
  /\ phase = "fetch" => Behind(Sent, batch[idx].job, start + 1, 0)
  /\ phase = "push" /\ page = << >> /\ lek # None => Behind(Sent, batch[idx].job, lek + 1, 0)
  /\ phase = "push" /\ page # << >> => Behind(Sent, batch[idx].job, Head(page), 0)
  /\ phase \in {"unit", "get", "put"} => Behind(Sent, batch[idx].job, Head(page), unit)
PageOrder ==
  phase \in {"push", "unit", "get", "put"} =>
    /\ \A x \in DOMAIN page : page[x] <= End(lek)
    /\ \A x, y \in DOMAIN page : x < y => page[x] < page[y]
AheadInv == StreamAhead /\ BatchAhead /\ PageAhead /\ PageOrder

\* What waits in the buffer is new, and what has been sent of the job of a unit is behind the
\* unit's page, or comes later.
BufferNew ==
  /\ \A x \in DOMAIN buf : buf[x].uow \notin dealt /\ buf[x].uow.unit # 0
  /\ \A x, y \in DOMAIN buf : buf[x].uow = buf[y].uow => x = y
ThroughEnds ==
  /\ \A x \in DOMAIN through : through[x].uow \in Published
  /\ \A x \in DOMAIN through, u \in Published :
       u.job = through[x].uow.job =>
         u.item <= End(through[x].lek) \/ \E y \in DOMAIN through : y > x /\ through[y].uow = u
BufferEnds ==
  /\ \A x \in DOMAIN buf, u \in Published :
       u.job = buf[x].uow.job => u.item <= End(buf[x].lek)
  /\ \A x, y \in DOMAIN buf :
       y <= x /\ buf[x].uow.job = buf[y].uow.job => buf[y].uow.item <= End(buf[x].lek)
LineInv == BufferNew /\ ThroughEnds /\ BufferEnds

OnceInv == failures = 0 => QuietInv /\ SingleInv /\ AheadInv /\ LineInv

LEMMA Types ==
  ASSUME TypeOK
  PROVE  /\ stream \in Seq(StreamRecord) /\ batch \in Seq(StreamRecord)
         /\ \A x \in DOMAIN stream : stream[x] \in StreamRecord
         /\ \A x \in DOMAIN batch : batch[x] \in StreamRecord
         /\ \A x \in DOMAIN buf : buf[x] \in Buffered
         /\ \A x \in DOMAIN through : through[x] \in Buffered
         /\ Published \subseteq UnitRecord /\ Sent \subseteq UnitRecord
         /\ NumItems \in Nat /\ \A l \in 0..NumItems : End(l) \in 0..NumItems
<1>1. /\ stream \in Seq(StreamRecord) /\ batch \in Seq(StreamRecord)
      /\ buf \in Seq(Buffered) /\ through \in Seq(Buffered) /\ dealt \subseteq UnitRecord
  BY DEF TypeOK
<1>2. /\ \A x \in DOMAIN stream : stream[x] \in StreamRecord
      /\ \A x \in DOMAIN batch : batch[x] \in StreamRecord
      /\ \A x \in DOMAIN buf : buf[x] \in Buffered
      /\ \A x \in DOMAIN through : through[x] \in Buffered
  BY <1>1, ElementOfSeq, LenProperties
<1>3. \A x \in DOMAIN buf : buf[x].uow \in UnitRecord
  BY <1>2 DEF Buffered
<1>4. Published \subseteq UnitRecord /\ Sent \subseteq UnitRecord
  BY <1>1, <1>3 DEF Published, Sent
<1>5. NumItems \in Nat /\ \A l \in 0..NumItems : End(l) \in 0..NumItems
  BY ConstantsAssumption DEF End
<1>6. QED BY <1>1, <1>2, <1>4, <1>5

LEMMA BehindWider ==
  ASSUME NEW P, P \subseteq UnitRecord, NEW j, NEW i \in Int, NEW n \in Int, Behind(P, j, i, n),
         NEW i2 \in Int, NEW n2 \in Int, i < i2 \/ (i = i2 /\ n <= n2)
  PROVE  Behind(P, j, i2, n2)
<1>1. ASSUME NEW u \in P, u.job = j PROVE u.item < i2 \/ (u.item = i2 /\ u.unit < n2)
  <2>1. u.item \in Int /\ u.unit \in Int
    BY DEF UnitRecord, Items
  <2>2. u.item < i \/ (u.item = i /\ u.unit < n)
    BY <1>1 DEF Behind
  <2>3. CASE u.item < i
    BY <2>1, <2>3
  <2>4. CASE u.item = i /\ u.unit < n
    BY <2>1, <2>4
  <2>5. QED BY <2>2, <2>3, <2>4
<1>2. QED BY <1>1 DEF Behind

\* A unit that is sent is behind the next one.
LEMMA BehindNext ==
  ASSUME NEW P, P \subseteq UnitRecord, NEW j, NEW i \in Int, NEW n \in Int, Behind(P, j, i, n),
         NEW v, v.item = i, v.unit = n
  PROVE  Behind(P \cup {v}, j, i, n + 1)
<1>1. Behind(P, j, i, n + 1)
  BY BehindWider
<1>2. QED BY <1>1 DEF Behind

LEMMA BehindOther ==
  ASSUME NEW P, NEW j, NEW i, NEW n, Behind(P, j, i, n), NEW v, v.job # j
  PROVE  Behind(P \cup {v}, j, i, n)
BY DEF Behind
-----------------------------------------------------------------------------
\* Steps that change neither the buffer nor what has been sent.
LEMMA LineFrame ==
  ASSUME LineInv, buf' = buf, through' = through, Published' = Published,
         \A u \in dealt' : u \in dealt \/ u.unit = 0
  PROVE  LineInv'
<1>1. BufferNew'
  BY DEF LineInv, BufferNew
<1>2. ThroughEnds' /\ BufferEnds'
  BY DEF LineInv, ThroughEnds, BufferEnds
<1>3. QED BY <1>1, <1>2 DEF LineInv

LEMMA EmptyLineInv ==
  ASSUME buf' = << >>, through' = << >> PROVE LineInv'
<1>1. DOMAIN buf' = {} /\ DOMAIN through' = {}
  BY EmptyOfAny
<1>2. QED BY <1>1 DEF LineInv, BufferNew, ThroughEnds, BufferEnds

\* Steps that touch neither the table nor the batch.
LEMMA SingleFrame ==
  ASSUME SingleInv, stream' = stream, batch' = batch, updated' = updated,
         phase' \in Working \cup {"next", "rest"} => phase \in Working \cup {"next", "rest"},
         buf' # << >> => buf # << >> \/ phase \in Working
  PROVE  SingleInv'
BY DEF SingleInv

LEMMA SentKept ==
  ASSUME buf' = buf, Published' = Published PROVE Sent' = Sent
BY DEF Sent

LEMMA InvokeOnce == ASSUME TypeInv, OnceInv, failures = 0, Invoke PROVE OnceInv'
<1>1. /\ stream \in Seq(StreamRecord) /\ Len(stream) \in Nat /\ DOMAIN stream = 1..Len(stream)
      /\ \A x \in 1..Len(stream) : stream[x] \in StreamRecord
  BY LenProperties, ElementOfSeq DEF TypeInv, TypeOK
<1>2. PICK n \in 1..Len(stream) : /\ batch' = SubSeq(stream, 1, n)
                                  /\ stream' = SubSeq(stream, n + 1, Len(stream))
  BY DEF Invoke
<1>3. /\ dealt' = dealt /\ faulted' = {} /\ updated' = {} /\ buf' = << >> /\ through' = << >>
      /\ attempts' = << >> /\ phase' = "next" /\ idx' = 1
  BY DEF Invoke, histVars, NewLine
<1>4. /\ DOMAIN batch' = 1..n /\ \A x \in 1..n : batch'[x] = stream[x]
  <2>1. SubSeq(stream, 1, n) \in Seq(StreamRecord) /\ Len(SubSeq(stream, 1, n)) = n
        /\ \A x \in 1..n : SubSeq(stream, 1, n)[x] = stream[x]
    BY <1>1, SubSeqProperties
  <2>2. QED BY <1>2, <2>1, LenProperties
<1>5. PICK m \in Nat : m = Len(stream) - n
  <2>1. Len(stream) - n \in Nat
    BY <1>1
  <2>2. QED BY <2>1
<1>6. /\ DOMAIN stream' = 1..m /\ \A x \in 1..m : stream'[x] = stream[x + n]
  <2>1. /\ n + 1 \in Int /\ Len(stream) \in Int
        /\ \A i \in (n + 1)..Len(stream) : stream[i] \in StreamRecord
    BY <1>1
  <2>2. /\ stream' \in Seq(StreamRecord)
        /\ Len(stream') = IF n + 1 <= Len(stream) THEN Len(stream) - (n + 1) + 1 ELSE 0
        /\ \A i \in 1..(Len(stream) - (n + 1) + 1) : stream'[i] = stream[(n + 1) + i - 1]
    BY <1>2, <2>1, SubSeqProperties
  <2>3. /\ Len(stream) - (n + 1) + 1 = m /\ (n + 1 <= Len(stream) \/ m = 0)
        /\ \A i \in 1..m : (n + 1) + i - 1 = i + n
    <3>1. n \in Nat /\ Len(stream) \in Nat /\ n <= Len(stream)
      BY <1>1
    <3>2. Len(stream) - (n + 1) + 1 = Len(stream) - n /\ (n + 1 <= Len(stream) \/ m = 0)
      BY <1>5, <3>1
    <3>3. \A i \in 1..m : (n + 1) + i - 1 = i + n
      BY <1>5, <3>1
    <3>4. QED BY <1>5, <3>2, <3>3
  <2>4. Len(stream') = m /\ \A i \in 1..m : stream'[i] = stream[i + n]
    BY <2>2, <2>3
  <2>5. QED BY <2>2, <2>4, LenProperties
<1>7. \A x \in 1..n : x \in DOMAIN stream
  BY <1>1
<1>8. \A x \in 1..m : x + n \in DOMAIN stream /\ \A y \in 1..n : x + n # y
  BY <1>1, <1>5
<1>9. /\ SingleInv /\ AheadInv
  BY DEF OnceInv
<1>10. SingleInv'
  <2>1. \A x, y \in 1..m : stream[x + n].job = stream[y + n].job => x = y
    <3>1. \A x, y \in 1..m : stream[x + n].job = stream[y + n].job => x + n = y + n
      BY <1>8, <1>9 DEF SingleInv
    <3>2. QED BY <3>1
  <2>2. \A x \in 1..m, y \in 1..n : stream[x + n].job # stream[y].job
    BY <1>7, <1>8, <1>9 DEF SingleInv
  <2>3. \A x, y \in 1..n : stream[x].job = stream[y].job => x = y
    BY <1>7, <1>9 DEF SingleInv
  <2>4. \A x, y \in DOMAIN stream' : stream'[x].job = stream'[y].job => x = y
    BY <1>6, <2>1
  <2>5. \A x \in DOMAIN stream', y \in DOMAIN batch' : stream'[x].job # batch'[y].job
    <3>1. ASSUME NEW x \in 1..m, NEW y \in 1..n PROVE stream'[x].job # batch'[y].job
      <4>1. stream'[x] = stream[x + n] /\ batch'[y] = stream[y]
        BY <1>4, <1>6
      <4>2. QED BY <2>2, <4>1
    <3>2. QED BY <1>4, <1>6, <3>1
  <2>6. \A x, y \in DOMAIN batch' : batch'[x].job = batch'[y].job => x = y
    BY <1>4, <2>3
  <2>7. QED BY <1>3, <2>4, <2>5, <2>6 DEF SingleInv
<1>11. Published' = Published /\ Sent' = Published
  BY <1>3, EmptyOfAny DEF Published, Sent
<1>12. StreamAhead'
  BY <1>6, <1>8, <1>9, <1>11 DEF AheadInv, StreamAhead
<1>13. BatchAhead'
  BY <1>4, <1>7, <1>9, <1>11 DEF AheadInv, StreamAhead, BatchAhead
<1>14. PageAhead' /\ PageOrder'
  BY <1>3 DEF PageAhead, PageOrder
<1>15. LineInv' /\ QuietInv'
  BY <1>3, EmptyLineInv DEF QuietInv
<1>16. QED BY <1>10, <1>12, <1>13, <1>14, <1>15 DEF OnceInv, AheadInv

\* Steps that change neither the table, the batch, the buffer nor what has been sent.
Still ==
  /\ stream' = stream /\ batch' = batch /\ updated' = updated /\ faulted' = faulted
  /\ buf' = buf /\ through' = through /\ failures' = failures /\ attempts' = attempts
  /\ \A u \in dealt' : u \in dealt \/ u.unit = 0
  /\ dealt \subseteq dealt' /\ phase' # "dead"

LEMMA StillOnce ==
  ASSUME OnceInv, failures = 0, Still,
         phase' \in Working \cup {"next", "rest"} => phase \in Working \cup {"next", "rest"}
  PROVE  /\ QuietInv' /\ SingleInv' /\ StreamAhead' /\ LineInv'
         /\ Published' = Published /\ Sent' = Sent
<1>1. QuietInv /\ SingleInv /\ StreamAhead /\ LineInv
  BY DEF OnceInv, AheadInv
<1>2. Published' = Published
  BY DEF Published, Still
<1>3. Sent' = Sent
  BY <1>2, SentKept DEF Still
<1>4. QuietInv'
  BY <1>1 DEF QuietInv, Still
<1>5. SingleInv'
  BY <1>1, SingleFrame DEF Still
<1>6. StreamAhead'
  BY <1>1, <1>2 DEF StreamAhead, Still
<1>7. LineInv'
  BY <1>1, <1>2, LineFrame DEF Still
<1>8. QED BY <1>2, <1>3, <1>4, <1>5, <1>6, <1>7

LEMMA NextRecordOnce == ASSUME TypeInv, OnceInv, failures = 0, NextRecord PROVE OnceInv'
<1>1. /\ Still /\ phase = "next" /\ phase' \in {"rest", "fetch", "next"}
      /\ page' = page /\ lek' = lek /\ idx \in Nat
  BY DEF NextRecord, Still, tableVars, unitVars, outVars, histVars, TypeInv, TypeOK
<1>2. /\ QuietInv' /\ SingleInv' /\ StreamAhead' /\ LineInv'
      /\ Published' = Published /\ Sent' = Sent
  BY <1>1, StillOnce
<1>3. BatchAhead
  BY DEF OnceInv, AheadInv
<1>4. CASE phase' = "rest"
  BY <1>2, <1>4 DEF OnceInv, AheadInv, BatchAhead, PageAhead, PageOrder, Working
<1>5. CASE phase' = "next" /\ idx' = idx + 1
  <2>1. \A k \in DOMAIN batch : k \in Nat
    BY LenProperties DEF TypeInv, TypeOK
  <2>2. \A k \in DOMAIN batch : (idx' < k \/ k = idx') => idx < k
    BY <1>1, <1>5, <2>1
  <2>3. BatchAhead'
    BY <1>1, <1>2, <1>3, <2>2 DEF BatchAhead, Still
  <2>4. PageAhead' /\ PageOrder'
    BY <1>5 DEF PageAhead, PageOrder
  <2>5. QED BY <1>2, <2>3, <2>4 DEF OnceInv, AheadInv
<1>6. CASE /\ phase' = "fetch" /\ idx' = idx /\ start' = batch[idx].cursor
           /\ HasWork(batch[idx]) /\ idx <= Len(batch)
  <2>1. BatchAhead'
    BY <1>1, <1>2, <1>3, <1>6 DEF BatchAhead, Still
  <2>2. idx \in DOMAIN batch
    BY <1>1, <1>6, LenProperties DEF TypeInv, TypeOK, PositionInv
  <2>3. Behind(Sent, batch[idx].job, batch[idx].cursor + 1, 0)
    BY <1>1, <1>3, <1>6, <2>2 DEF BatchAhead
  <2>4. PageAhead' /\ PageOrder'
    BY <1>1, <1>2, <1>6, <2>3 DEF PageAhead, PageOrder, Still
  <2>5. QED BY <1>2, <2>1, <2>4 DEF OnceInv, AheadInv
<1>7. QED BY <1>4, <1>5, <1>6 DEF NextRecord

\* Steps that stay with the record.
LEMMA BatchStays ==
  ASSUME BatchAhead, batch' = batch, idx' = idx, Sent' = Sent,
         phase \in Working, phase' # "next"
  PROVE  BatchAhead'
BY DEF BatchAhead, Working

LEMMA FetchOnce == ASSUME TypeInv, OnceInv, failures = 0, Fetch PROVE OnceInv'
<1>1. /\ Still /\ phase = "fetch" /\ phase' = "push" /\ idx' = idx /\ start \in 0..NumItems
  BY DEF Fetch, Still, tableVars, unitVars, outVars, histVars, TypeInv, TypeOK
<1>2. /\ QuietInv' /\ SingleInv' /\ StreamAhead' /\ LineInv'
      /\ Published' = Published /\ Sent' = Sent
  BY <1>1, StillOnce DEF Working
<1>3. BatchAhead'
  BY <1>1, <1>2, BatchStays DEF OnceInv, AheadInv, Still, Working
<1>4. PICK last \in start..NumItems :
        /\ last > start \/ last = NumItems
        /\ page' = [i \in 1..(last - start) |-> start + i]
        /\ lek' \in CASE last < NumItems                 -> {last}
                      [] last = NumItems /\ last > start -> {last, None}
                      [] OTHER                           -> {None}
  BY DEF Fetch
<1>5. start \in Nat /\ last \in Nat /\ NumItems \in Nat /\ start <= last /\ last <= NumItems
  BY <1>1, <1>4, ConstantsAssumption
<1>6. PICK m \in Nat : m = last - start
  <2>1. last - start \in Nat
    BY <1>5
  <2>2. QED BY <2>1
<1>7. /\ DOMAIN page' = 1..m /\ \A x \in 1..m : page'[x] = start + x
      /\ Len(page') = m /\ (page' # << >> => m # 0 /\ Head(page') = start + 1)
  <2>1. page' = [i \in 1..m |-> start + i]
    BY <1>4, <1>6
  <2>2. DOMAIN page' = 1..m /\ \A x \in 1..m : page'[x] = start + x
    BY <2>1
  <2>3. page' \in Seq(Nat) /\ Len(page') = m
    <3>1. page' \in [1..m -> Nat]
      BY <1>5, <2>1
    <3>2. QED BY <2>2, <3>1, FunctionIsSeq, LenProperties
  <2>4. ASSUME page' # << >> PROVE m # 0 /\ Head(page') = start + 1
    <3>1. m # 0
      BY <2>3, <2>4, EmptySeq
    <3>2. 1 \in 1..m
      BY <3>1
    <3>3. Head(page') = page'[1]
      BY <2>3, <2>4, HeadTailProperties
    <3>4. QED BY <2>2, <3>1, <3>2, <3>3
  <2>5. QED BY <2>2, <2>3, <2>4
<1>8. last <= End(lek')
  <2>1. CASE lek' = None
    BY <1>5, <2>1 DEF End
  <2>2. CASE lek' = last /\ last # None
    BY <1>5, <2>2 DEF End
  <2>3. CASE lek' = last /\ last = None
    BY <1>5, <2>3 DEF End
  <2>4. QED BY <1>4, <1>5, <2>1, <2>2, <2>3
<1>9. PageOrder'
  <2>1. End(lek') \in Int
    BY <1>4, <1>5 DEF End, None
  <2>2. ASSUME NEW x \in 1..m PROVE page'[x] <= End(lek')
    <3>1. page'[x] = start + x
      BY <1>7
    <3>2. start + x <= last
      BY <1>5, <1>6
    <3>3. QED BY <1>5, <1>8, <2>1, <3>1, <3>2
  <2>3. \A x, y \in 1..m : x < y => page'[x] < page'[y]
    BY <1>5, <1>7
  <2>4. QED BY <1>7, <2>2, <2>3 DEF PageOrder
<1>10. PageAhead'
  <2>1. Behind(Sent, batch[idx].job, start + 1, 0)
    BY <1>1 DEF OnceInv, AheadInv, PageAhead
  <2>2. page' = << >> => lek' = None
    <3>1. ASSUME page' = << >> PROVE lek' = None
      <4>1. m = 0
        BY <1>7, <3>1, EmptyOfAny
      <4>2. last = start /\ last = NumItems
        BY <1>4, <1>5, <1>6, <4>1
      <4>3. QED BY <1>4, <1>5, <4>2
    <3>2. QED BY <3>1
  <2>3. QED BY <1>1, <1>2, <1>7, <2>1, <2>2 DEF PageAhead, Still
<1>11. QED BY <1>1, <1>2, <1>3, <1>9, <1>10 DEF OnceInv, AheadInv, Still

LEMMA PageDoneOnce == ASSUME TypeInv, OnceInv, failures = 0, PageDone PROVE OnceInv'
<1>1. /\ Still /\ phase = "push" /\ phase' \in {"fetch", "next"} /\ page = << >> /\ idx \in Nat
  BY DEF PageDone, Still, tableVars, unitVars, outVars, histVars, TypeInv, TypeOK
<1>2. /\ QuietInv' /\ SingleInv' /\ StreamAhead' /\ LineInv'
      /\ Published' = Published /\ Sent' = Sent
  BY <1>1, StillOnce DEF Working
<1>3. BatchAhead /\ PageAhead
  BY DEF OnceInv, AheadInv
<1>4. CASE phase' = "next" /\ idx' = idx + 1
  <2>1. \A k \in DOMAIN batch : k \in Nat
    BY LenProperties DEF TypeInv, TypeOK
  <2>2. \A k \in DOMAIN batch : (idx' < k \/ k = idx') => idx < k
    BY <1>1, <1>4, <2>1
  <2>3. BatchAhead'
    BY <1>1, <1>2, <1>3, <2>2 DEF BatchAhead, Still, Working
  <2>4. PageAhead' /\ PageOrder'
    BY <1>4 DEF PageAhead, PageOrder
  <2>5. QED BY <1>2, <2>3, <2>4 DEF OnceInv, AheadInv
<1>5. CASE phase' = "fetch" /\ idx' = idx /\ start' = lek /\ lek # None
  <2>1. BatchAhead'
    BY <1>1, <1>2, <1>3, <1>5, BatchStays DEF Still, Working
  <2>2. PageAhead' /\ PageOrder'
    BY <1>1, <1>2, <1>3, <1>5 DEF PageAhead, PageOrder, Still
  <2>3. QED BY <1>2, <2>1, <2>2 DEF OnceInv, AheadInv
<1>6. QED BY <1>1, <1>4, <1>5 DEF PageDone

LEMMA GetOnce == ASSUME TypeInv, OnceInv, failures = 0, GetRequest \/ BatchGet PROVE OnceInv'
<1>1. /\ Still /\ phase \in {"unit", "get"} /\ phase' \in {"get", "put"}
      /\ idx' = idx /\ page' = page /\ lek' = lek /\ unit' = unit
  BY DEF GetRequest, BatchGet, Still, tableVars, pageVars, outVars, histVars
<1>2. /\ QuietInv' /\ SingleInv' /\ StreamAhead' /\ LineInv'
      /\ Published' = Published /\ Sent' = Sent
  BY <1>1, StillOnce DEF Working
<1>3. BatchAhead'
  BY <1>1, <1>2, BatchStays DEF OnceInv, AheadInv, Still, Working
<1>4. PageAhead' /\ PageOrder'
  BY <1>1, <1>2 DEF OnceInv, AheadInv, PageAhead, PageOrder, Still
<1>5. QED BY <1>2, <1>3, <1>4 DEF OnceInv, AheadInv

LEMMA FlushEndsOnce ==
  ASSUME TypeInv, OnceInv, failures = 0, Rested \/ FlushRejected \/ Flushed PROVE OnceInv'
<1>1. /\ Still /\ phase' \in {"flush", "errored", "completed"}
  BY DEF Rested, FlushRejected, Flushed, Still, tableVars, unitVars, outVars, histVars
<1>2. QuietInv' /\ SingleInv' /\ StreamAhead' /\ LineInv'
  BY <1>1, StillOnce DEF Working
<1>3. BatchAhead' /\ PageAhead' /\ PageOrder'
  BY <1>1 DEF BatchAhead, PageAhead, PageOrder, Working
<1>4. QED BY <1>2, <1>3 DEF OnceInv, AheadInv

\* An item leaves the page, with all that has been sent of its job behind unit n of it.
LEMMA TailAhead ==
  ASSUME TypeInv, AheadInv, phase \in {"push", "unit", "get", "put"}, page # << >>,
         page' = Tail(page), lek' = lek, phase' = "push",
         NEW P, P \subseteq UnitRecord, NEW j, NEW n \in Int, Behind(P, j, Head(page), n)
  PROVE  /\ PageOrder'
         /\ page' = << >> /\ lek # None => Behind(P, j, lek + 1, 0)
         /\ page' # << >> => Behind(P, j, Head(page'), 0)
<1>1. page \in Seq(Items) /\ lek \in 0..NumItems
  BY DEF TypeInv, TypeOK
<1>2. PICK m \in Nat : m = Len(page)
  BY <1>1, LenProperties
<1>3. m # 0 /\ DOMAIN page = 1..m /\ \A x \in 1..m : page[x] \in Int
  <2>1. \A x \in 1..m : page[x] \in Items
    BY <1>1, <1>2, ElementOfSeq
  <2>2. QED BY <1>1, <1>2, <2>1, EmptySeq, LenProperties DEF Items
<1>4. PICK T : T = Tail(page)
  OBVIOUS
<1>5. /\ T \in Seq(Items) /\ Len(T) = m - 1 /\ \A x \in 1..(m - 1) : T[x] = page[x + 1]
      /\ Head(page) = page[1]
  BY <1>1, <1>2, <1>4, HeadTailProperties
<1>6. DOMAIN T = 1..(m - 1)
  BY <1>5, LenProperties
<1>7. /\ \A x \in 1..m : page[x] <= End(lek)
      /\ \A x, y \in 1..m : x < y => page[x] < page[y]
  BY <1>3 DEF AheadInv, PageOrder
<1>8. \A x \in 1..(m - 1) : x + 1 \in 1..m
  BY <1>2
<1>9. PageOrder'
  <2>1. \A x \in 1..(m - 1) : T[x] <= End(lek)
    BY <1>5, <1>7, <1>8
  <2>2. ASSUME NEW x \in 1..(m - 1), NEW y \in 1..(m - 1), x < y PROVE T[x] < T[y]
    <3>1. x + 1 < y + 1 /\ T[x] = page[x + 1] /\ T[y] = page[y + 1]
      BY <1>5, <2>2
    <3>2. QED BY <1>7, <1>8, <3>1
  <2>3. QED BY <1>4, <1>6, <2>1, <2>2 DEF PageOrder
<1>10. 1 \in 1..m /\ Head(page) \in Int
  BY <1>3, <1>5
<1>11. ASSUME page' = << >>, lek # None PROVE Behind(P, j, lek + 1, 0)
  <2>1. Head(page) < lek + 1 /\ lek + 1 \in Int
    BY <1>1, <1>5, <1>7, <1>10, <1>11, ConstantsAssumption DEF End
  <2>2. QED BY <1>10, <2>1, BehindWider
<1>12. ASSUME page' # << >> PROVE Behind(P, j, Head(page'), 0)
  <2>1. m - 1 # 0
    BY <1>4, <1>5, <1>12, EmptySeq
  <2>2. 1 \in 1..(m - 1) /\ 2 \in 1..m
    BY <1>2, <1>3, <2>1
  <2>3. Head(T) = T[1]
    BY <1>4, <1>5, <1>12, HeadTailProperties
  <2>4. Head(T) = page[2] /\ page[2] \in Int /\ page[1] < page[2]
    BY <1>3, <1>5, <1>7, <1>10, <2>2, <2>3
  <2>5. Behind(P, j, page[2], 0)
    BY <1>5, <1>10, <2>4, BehindWider
  <2>6. QED BY <1>4, <2>4, <2>5
<1>13. QED BY <1>9, <1>11, <1>12

LEMMA PushOnce == ASSUME TypeInv, OnceInv, failures = 0, Push PROVE OnceInv'
<1>1. /\ Still /\ phase = "push" /\ phase' \in {"push", "unit"} /\ page # << >>
      /\ idx' = idx /\ lek' = lek
  BY DEF Push, Still, tableVars, outVars, Unit
<1>2. /\ QuietInv' /\ SingleInv' /\ StreamAhead' /\ LineInv'
      /\ Published' = Published /\ Sent' = Sent
  BY <1>1, StillOnce DEF Working
<1>3. BatchAhead'
  BY <1>1, <1>2, BatchStays DEF OnceInv, AheadInv, Still, Working
<1>4. AheadInv
  BY DEF OnceInv
<1>5. PICK j : j = batch[idx].job
  OBVIOUS
<1>6. Behind(Sent, j, Head(page), 0)
  BY <1>1, <1>4, <1>5 DEF AheadInv, PageAhead
<1>7. Sent \subseteq UnitRecord /\ Head(page) \in Int
  <2>1. page \in Seq(Items)
    BY DEF TypeInv, TypeOK
  <2>2. Head(page) \in Items
    BY <1>1, <2>1, HeadTailProperties
  <2>3. QED BY <2>2, Types DEF TypeInv, Items
<1>8. CASE page' = Tail(page) /\ phase' = "push"
  <2>1. /\ PageOrder'
        /\ page' = << >> /\ lek # None => Behind(Sent, j, lek + 1, 0)
        /\ page' # << >> => Behind(Sent, j, Head(page'), 0)
    <3>1. PICK P, n : P = Sent /\ n = 0
      OBVIOUS
    <3>2. P \subseteq UnitRecord /\ n \in Int /\ Behind(P, j, Head(page), n)
      BY <1>6, <1>7, <3>1
    <3>3. /\ PageOrder'
          /\ page' = << >> /\ lek # None => Behind(P, j, lek + 1, 0)
          /\ page' # << >> => Behind(P, j, Head(page'), 0)
      BY <1>1, <1>4, <1>8, <3>2, TailAhead
    <3>4. QED BY <3>1, <3>3
  <2>2. PageAhead'
    BY <1>1, <1>2, <1>5, <1>8, <2>1 DEF PageAhead, Still
  <2>3. QED BY <1>2, <1>3, <2>1, <2>2 DEF OnceInv, AheadInv
<1>9. CASE page' = page /\ phase' = "unit" /\ unit' = 1
  <2>1. Behind(Sent, j, Head(page), 1)
    BY <1>6, <1>7, BehindWider
  <2>2. PageAhead' /\ PageOrder'
    BY <1>1, <1>2, <1>4, <1>5, <1>9, <2>1 DEF AheadInv, PageAhead, PageOrder, Still
  <2>3. QED BY <1>2, <1>3, <2>2 DEF OnceInv, AheadInv
<1>10. QED BY <1>1, <1>8, <1>9 DEF Push

\* b2 is the buffer b after t.
Buffers(b, b2, t) ==
  \E n \in Nat : /\ DOMAIN b = 1..n /\ DOMAIN b2 = 1..(n + 1)
                 /\ \A x \in 1..n : b2[x] = b[x]
                 /\ b2[n + 1] = t

LEMMA PutOnce == ASSUME TypeInv, OnceInv, failures = 0, Put PROVE OnceInv'
<1>1. /\ phase = "put" /\ UnitDone /\ dealt' = dealt /\ stream' = stream /\ batch' = batch
      /\ updated' = updated /\ faulted' = faulted /\ through' = through /\ failures' = failures
      /\ idx' = idx /\ lek' = lek
  BY DEF Put, tableVars, histVars
<1>2. /\ TypeOK /\ page # << >> /\ unit \in 1..Units[Head(page)] /\ idx \in DOMAIN batch
      /\ QuietInv /\ SingleInv /\ AheadInv /\ LineInv /\ unit \in Nat /\ lek \in 0..NumItems
  BY <1>1 DEF TypeInv, TypeOK, PositionInv, Working, OnceInv
<1>3. Head(page) \in Items /\ Head(page) \in Int /\ Head(page) <= End(lek)
  <2>1. page \in Seq(Items)
    BY <1>2 DEF TypeOK
  <2>2. Head(page) \in Items /\ Head(page) = page[1] /\ Len(page) # 0 /\ Len(page) \in Nat
    BY <1>2, <2>1, HeadTailProperties, EmptySeq, LenProperties
  <2>3. 1 \in DOMAIN page
    BY <2>1, <2>2, LenProperties
  <2>4. QED BY <1>1, <1>2, <2>2, <2>3 DEF AheadInv, PageOrder, Items
<1>4. unit # 0 /\ unit \in Int
  <2>1. Units[Head(page)] \in Nat
    BY <1>3, ConstantsAssumption
  <2>2. QED BY <1>2, <2>1
<1>5. PICK j, v, t : j = batch[idx].job /\ v = Unit(unit) /\ t = [uow |-> v, lek |-> lek]
  <2>1. PICK j : j = batch[idx].job
    OBVIOUS
  <2>2. PICK v : v = Unit(unit)
    OBVIOUS
  <2>3. PICK t : t = [uow |-> v, lek |-> lek]
    OBVIOUS
  <2>4. QED BY <2>1, <2>2, <2>3
<1>6. /\ v \in UnitRecord /\ v.job = j /\ v.item = Head(page) /\ v.unit = unit
      /\ t.uow = v /\ t.lek = lek /\ t \in Buffered
  <2>1. v \in UnitRecord
    BY <1>2, <1>5, UnitType
  <2>2. t \in Buffered
    BY <1>2, <1>5, <2>1 DEF Buffered
  <2>3. QED BY <1>5, <2>1, <2>2 DEF Unit
<1>7. Buffers(buf, buf', t)
  <2>1. buf \in Seq(Buffered) /\ buf' = Append(buf, t)
    BY <1>2, <1>5 DEF TypeOK, Put
  <2>2. PICK n \in Nat : n = Len(buf)
    BY <2>1, LenProperties
  <2>3. /\ buf' \in Seq(Buffered) /\ Len(buf') = n + 1
        /\ \A x \in 1..n : buf'[x] = buf[x]
        /\ buf'[n + 1] = t
    BY <1>6, <2>1, <2>2, AppendProperties
  <2>4. DOMAIN buf = 1..n /\ DOMAIN buf' = 1..(n + 1)
    BY <2>1, <2>2, <2>3, LenProperties
  <2>5. QED BY <2>3, <2>4 DEF Buffers
<1>8. PICK n \in Nat :
        /\ DOMAIN buf = 1..n /\ DOMAIN buf' = 1..(n + 1)
        /\ \A x \in 1..n : buf'[x] = buf[x]
        /\ buf'[n + 1] = t
  BY <1>7 DEF Buffers
<1>9. \A x \in 1..(n + 1) : x \in 1..n \/ x = n + 1
  BY <1>8
<1>10. Published' = Published /\ Sent' = Sent \cup {v}
  <2>1. {buf'[x].uow : x \in 1..(n + 1)} = {buf[x].uow : x \in 1..n} \cup {v}
    BY <1>6, <1>8, <1>9
  <2>2. QED BY <1>1, <1>8, <2>1 DEF Published, Sent
<1>11. Behind(Sent, j, Head(page), unit) /\ Sent \subseteq UnitRecord
  BY <1>1, <1>2, <1>5, Types DEF AheadInv, PageAhead
<1>12. v \notin Sent /\ v \notin dealt
  <2>1. v \notin Sent
    BY <1>3, <1>4, <1>6, <1>11 DEF Behind
  <2>2. QED BY <1>4, <1>6, <2>1 DEF Sent, Published
<1>13. \A u \in Sent : u.job = j => u.item <= End(lek)
  <2>1. End(lek) \in Int
    BY <1>2, Types
  <2>2. ASSUME NEW u \in Sent, u.job = j PROVE u.item <= End(lek)
    <3>1. u.item \in Int
      BY <1>11 DEF UnitRecord, Items
    <3>2. u.item < Head(page) \/ u.item = Head(page)
      BY <1>11, <2>2 DEF Behind
    <3>3. QED BY <1>3, <2>1, <3>1, <3>2
  <2>3. QED BY <2>2
<1>14. \A x \in 1..n : buf[x].uow \in Sent
  BY <1>8 DEF Sent
<1>15. BufferNew'
  <2>1. \A x \in 1..n : buf[x].uow \notin dealt /\ buf[x].uow.unit # 0 /\ buf[x].uow # v
    BY <1>2, <1>8, <1>12, <1>14 DEF LineInv, BufferNew
  <2>2. \A x \in 1..(n + 1) : buf'[x].uow \notin dealt /\ buf'[x].uow.unit # 0
    BY <1>4, <1>6, <1>8, <1>9, <1>12, <2>1
  <2>3. \A x, y \in 1..n : buf[x].uow = buf[y].uow => x = y
    BY <1>2, <1>8 DEF LineInv, BufferNew
  <2>4. ASSUME NEW x \in 1..(n + 1), NEW y \in 1..(n + 1), buf'[x].uow = buf'[y].uow PROVE x = y
    <3>1. CASE x \in 1..n /\ y \in 1..n
      BY <1>8, <2>3, <2>4, <3>1
    <3>2. CASE x = n + 1 /\ y \in 1..n
      BY <1>6, <1>8, <2>1, <2>4, <3>2
    <3>3. CASE x \in 1..n /\ y = n + 1
      BY <1>6, <1>8, <2>1, <2>4, <3>3
    <3>4. QED BY <1>9, <3>1, <3>2, <3>3
  <2>5. QED BY <1>1, <1>8, <2>2, <2>4 DEF BufferNew
<1>16. BufferEnds'
  <2>1. ASSUME NEW x \in 1..(n + 1), NEW u \in Published, u.job = buf'[x].uow.job
        PROVE  u.item <= End(buf'[x].lek)
    <3>1. CASE x \in 1..n
      BY <1>2, <1>8, <2>1, <3>1 DEF LineInv, BufferEnds
    <3>2. CASE x = n + 1
      BY <1>6, <1>8, <1>13, <2>1, <3>2 DEF Sent
    <3>3. QED BY <1>9, <3>1, <3>2
  <2>2. ASSUME NEW x \in 1..(n + 1), NEW y \in 1..(n + 1), y <= x,
               buf'[x].uow.job = buf'[y].uow.job
        PROVE  buf'[y].uow.item <= End(buf'[x].lek)
    <3>1. CASE x \in 1..n
      <4>1. y \in 1..n
        BY <1>8, <2>2, <3>1
      <4>2. QED BY <1>2, <1>8, <2>2, <3>1, <4>1 DEF LineInv, BufferEnds
    <3>2. CASE x = n + 1 /\ y \in 1..n
      BY <1>6, <1>8, <1>13, <1>14, <2>2, <3>2
    <3>3. CASE x = n + 1 /\ y = n + 1
      BY <1>3, <1>6, <1>8, <3>3
    <3>4. QED BY <1>9, <3>1, <3>2, <3>3
  <2>3. QED BY <1>8, <1>10, <2>1, <2>2 DEF BufferEnds
<1>17. ThroughEnds'
  BY <1>1, <1>2, <1>10 DEF LineInv, ThroughEnds
<1>18. /\ attempts' = << >> /\ phase' \in {"unit", "push"}
  BY <1>1 DEF UnitDone
<1>19. QuietInv' /\ SingleInv'
  BY <1>1, <1>2, <1>18, SingleFrame DEF QuietInv, Working
<1>20. StreamAhead'
  BY <1>1, <1>2, <1>10 DEF AheadInv, StreamAhead
<1>21. BatchAhead'
  <2>1. ASSUME NEW k \in DOMAIN batch, idx < k, HasWork(batch[k])
        PROVE  Behind(Sent', batch[k].job, batch[k].cursor + 1, 0)
    <3>1. Behind(Sent, batch[k].job, batch[k].cursor + 1, 0)
      BY <1>1, <1>2, <2>1 DEF AheadInv, BatchAhead, Working
    <3>2. batch[k].job # j
      <4>1. k # idx
        BY <1>2, <2>1 DEF TypeOK
      <4>2. QED BY <1>2, <1>5, <4>1 DEF SingleInv
    <3>3. PICK i : i = batch[k].cursor + 1
      OBVIOUS
    <3>4. QED BY <1>6, <1>10, <3>1, <3>2, <3>3, BehindOther
  <2>2. QED BY <1>1, <1>18, <2>1 DEF BatchAhead
<1>22. Behind(Sent', j, Head(page), unit + 1) /\ Sent' \subseteq UnitRecord
  BY <1>3, <1>4, <1>6, <1>10, <1>11, BehindNext
<1>23. PageAhead' /\ PageOrder'
  <2>1. CASE unit' = unit + 1 /\ phase' = "unit" /\ page' = page
    BY <1>1, <1>2, <1>5, <1>22, <2>1 DEF AheadInv, PageAhead, PageOrder
  <2>2. CASE page' = Tail(page) /\ phase' = "push"
    <3>1. PICK P : P = Sent'
      OBVIOUS
    <3>2. /\ PageOrder'
          /\ page' = << >> /\ lek # None => Behind(P, j, lek + 1, 0)
          /\ page' # << >> => Behind(P, j, Head(page'), 0)
      <4>1. unit + 1 \in Int
        BY <1>4
      <4>2. QED BY <1>1, <1>2, <1>22, <2>2, <3>1, <4>1, TailAhead
    <3>3. QED BY <1>1, <1>5, <2>2, <3>1, <3>2 DEF PageAhead
  <2>3. QED BY <1>1, <2>1, <2>2 DEF UnitDone
<1>24. QED BY <1>15, <1>16, <1>17, <1>19, <1>20, <1>21, <1>23 DEF OnceInv, AheadInv, LineInv

\* The buffer b goes out after a: c is both.
Joined(a, b, c) ==
  \E l \in Nat, n \in Nat :
    /\ DOMAIN a = 1..l /\ DOMAIN b = 1..n /\ DOMAIN c = 1..(l + n)
    /\ \A x \in 1..l : c[x] = a[x]
    /\ \A x \in 1..n : c[l + x] = b[x]

LEMMA ConcatJoins ==
  ASSUME NEW a \in Seq(Buffered), NEW b \in Seq(Buffered) PROVE Joined(a, b, a \o b)
<1>1. PICK l \in Nat : l = Len(a) /\ DOMAIN a = 1..l
  BY LenProperties
<1>2. PICK n \in Nat : n = Len(b) /\ DOMAIN b = 1..n
  BY LenProperties
<1>3. PICK c : c = a \o b
  OBVIOUS
<1>4. /\ c \in Seq(Buffered) /\ Len(c) = l + n
      /\ \A x \in 1..(l + n) : c[x] = IF x <= l THEN a[x] ELSE b[x - l]
  BY <1>1, <1>2, <1>3, ConcatProperties
<1>5. DOMAIN c = 1..(l + n)
  BY <1>4, LenProperties
<1>6. \A x \in 1..l : c[x] = a[x]
  BY <1>2, <1>4
<1>7. ASSUME NEW x \in 1..n PROVE c[l + x] = b[x]
  <2>1. l + x \in 1..(l + n) /\ ~(l + x <= l) /\ (l + x) - l = x
    BY <1>1, <1>2
  <2>2. QED BY <1>4, <2>1
<1>8. QED BY <1>1, <1>2, <1>3, <1>5, <1>6, <1>7 DEF Joined

\* What a full buffer adds to the units that got through is new.
Fresh ==
  \A i \in DOMAIN through' \ DOMAIN through :
    /\ through'[i].uow \notin dealt
    /\ \A k \in 1..(i - 1) : through'[k].uow # through'[i].uow

LEMMA PublishOnce ==
  ASSUME TypeInv, ReachInv, OnceInv, failures = 0, Publish PROVE OnceInv' /\ Fresh
<1>1. /\ through' = through \o buf /\ buf' = << >> /\ phase # "dead"
      /\ dealt' = dealt \cup {buf[i].uow : i \in DOMAIN buf}
      /\ stream' = stream /\ batch' = batch /\ phase' = phase /\ updated' = updated
      /\ faulted' = faulted /\ attempts' = attempts /\ idx' = idx /\ start' = start
      /\ page' = page /\ lek' = lek /\ unit' = unit
  BY DEF Publish, tableVars, pageVars, unitVars
<1>2. QuietInv /\ SingleInv /\ AheadInv /\ LineInv /\ TypeOK
  BY DEF OnceInv, TypeInv
<1>3. buf # << >>
  <2>1. MustPublish
    BY DEF Publish
  <2>2. CASE Len(buf) = BatchSize
    BY <2>2, EmptyOfAny, ConstantsAssumption
  <2>3. QED BY <2>1, <2>2 DEF MustPublish, Full
<1>4. PICK l \in Nat, n \in Nat :
        /\ DOMAIN through = 1..l /\ DOMAIN buf = 1..n /\ DOMAIN through' = 1..(l + n)
        /\ \A x \in 1..l : through'[x] = through[x]
        /\ \A x \in 1..n : through'[l + x] = buf[x]
  <2>1. buf \in Seq(Buffered) /\ through \in Seq(Buffered)
    BY <1>2 DEF TypeOK
  <2>2. PICK c : c = through'
    OBVIOUS
  <2>3. Joined(through, buf, c)
    BY <1>1, <2>1, <2>2, ConcatJoins
  <2>4. QED BY <2>2, <2>3 DEF Joined
<1>5. ASSUME NEW x \in 1..(l + n)
      PROVE  x \in 1..l \/ (x - l \in 1..n /\ l + (x - l) = x)
  BY <1>4, <1>5
<1>6. \A x \in 1..n : buf[x].uow \notin dealt /\ buf[x].uow.unit # 0
  BY <1>2, <1>4 DEF LineInv, BufferNew
<1>7. Published' = Sent /\ Sent' = Sent
  <2>1. Published' = Sent
    BY <1>1, <1>4, <1>6 DEF Published, Sent
  <2>2. QED BY <1>1, <2>1, EmptyOfAny DEF Sent
<1>8. \A x \in 1..l : through[x].uow \in Published
  BY <1>2, <1>4 DEF LineInv, ThroughEnds
<1>9. Fresh
  <2>1. ASSUME NEW i \in 1..(l + n), i \notin 1..l, NEW k \in 1..(i - 1)
        PROVE  through'[k].uow # through'[i].uow
    <3>1. i - l \in 1..n /\ l + (i - l) = i
      BY <1>5, <2>1
    <3>2. through'[i] = buf[i - l]
      BY <1>4, <3>1
    <3>3. CASE k \in 1..l
      BY <1>4, <1>6, <1>8, <3>1, <3>2, <3>3 DEF Published
    <3>4. CASE k \notin 1..l
      <4>1. k - l \in 1..n /\ l + (k - l) = k /\ k - l # i - l
        BY <1>4, <2>1, <3>4
      <4>2. through'[k] = buf[k - l]
        BY <1>4, <4>1
      <4>3. QED BY <1>2, <1>4, <3>1, <3>2, <4>1, <4>2 DEF LineInv, BufferNew
    <3>5. QED BY <3>3, <3>4
  <2>2. ASSUME NEW i \in 1..(l + n), i \notin 1..l PROVE through'[i].uow \notin dealt
    <3>1. i - l \in 1..n /\ l + (i - l) = i
      BY <1>5, <2>2
    <3>2. through'[i] = buf[i - l]
      BY <1>4, <3>1
    <3>3. QED BY <1>6, <3>1, <3>2
  <2>3. QED BY <1>4, <2>1, <2>2 DEF Fresh
<1>10. LineInv'
  <2>1. BufferNew' /\ BufferEnds'
    BY <1>1, EmptyOfAny DEF BufferNew, BufferEnds
  <2>2. ASSUME NEW x \in 1..(l + n) PROVE through'[x].uow \in Sent
    <3>1. CASE x \in 1..l
      BY <1>4, <1>8, <3>1 DEF Sent
    <3>2. CASE x - l \in 1..n /\ l + (x - l) = x
      <4>1. through'[x] = buf[x - l]
        BY <1>4, <3>2
      <4>2. QED BY <1>4, <3>2, <4>1 DEF Sent
    <3>3. QED BY <1>5, <2>2, <3>1, <3>2
  <2>3. ASSUME NEW x \in 1..(l + n), NEW u \in Sent, u.job = through'[x].uow.job
        PROVE  \/ u.item <= End(through'[x].lek)
               \/ \E y \in 1..(l + n) : y > x /\ through'[y].uow = u
    <3>1. CASE x \in 1..l /\ u \in Published
      <4>1. \/ u.item <= End(through[x].lek)
            \/ \E y \in 1..l : y > x /\ through[y].uow = u
        BY <1>2, <1>4, <2>3, <3>1 DEF LineInv, ThroughEnds
      <4>2. \A y \in 1..l : y \in 1..(l + n)
        BY <1>4
      <4>3. QED BY <1>4, <3>1, <4>1, <4>2
    <3>2. CASE x \in 1..l /\ u \notin Published
      <4>1. PICK z \in 1..n : buf[z].uow = u
        BY <1>4, <3>2 DEF Sent
      <4>2. l + z \in 1..(l + n) /\ l + z > x
        BY <1>4, <3>2
      <4>3. QED BY <1>4, <4>1, <4>2
    <3>3. CASE x - l \in 1..n /\ l + (x - l) = x /\ u \in Published
      <4>1. through'[x] = buf[x - l]
        BY <1>4, <3>3
      <4>2. QED BY <1>2, <1>4, <2>3, <3>3, <4>1 DEF LineInv, BufferEnds
    <3>4. CASE x - l \in 1..n /\ l + (x - l) = x /\ u \notin Published
      <4>1. through'[x] = buf[x - l]
        BY <1>4, <3>4
      <4>2. PICK z \in 1..n : buf[z].uow = u
        BY <1>4, <3>4 DEF Sent
      <4>3. CASE z <= x - l
        BY <1>2, <1>4, <2>3, <3>4, <4>1, <4>2, <4>3 DEF LineInv, BufferEnds
      <4>4. CASE ~(z <= x - l)
        <5>1. l + z \in 1..(l + n) /\ l + z > x
          BY <1>4, <3>4, <4>4
        <5>2. QED BY <1>4, <4>2, <5>1
      <4>5. QED BY <4>3, <4>4
    <3>5. QED BY <1>5, <2>3, <3>1, <3>2, <3>3, <3>4
  <2>4. ThroughEnds'
    BY <1>4, <1>7, <2>2, <2>3 DEF ThroughEnds
  <2>5. QED BY <2>1, <2>4 DEF LineInv
<1>11. QuietInv' /\ SingleInv'
  BY <1>1, <1>2, <1>3, SingleFrame DEF QuietInv
<1>12. StreamAhead'
  <2>1. ASSUME NEW x \in DOMAIN stream, HasWork(stream[x])
        PROVE  Behind(Sent, stream[x].job, stream[x].cursor + 1, 0)
    <3>1. Behind(Published, stream[x].job, stream[x].cursor + 1, 0)
      BY <1>2, <2>1 DEF AheadInv, StreamAhead
    <3>2. ASSUME NEW z \in 1..n PROVE buf[z].uow.job # stream[x].job
      <4>1. PICK k \in DOMAIN batch : batch[k].job = buf[z].uow.job
        BY <1>1, <1>4, <3>2 DEF ReachInv, Reached
      <4>2. updated = {}
        BY <1>2, <1>3 DEF SingleInv
      <4>3. QED BY <1>2, <2>1, <4>1, <4>2 DEF SingleInv
    <3>3. QED BY <1>4, <3>1, <3>2 DEF Behind, Sent
  <2>2. QED BY <1>1, <1>7, <2>1 DEF StreamAhead
<1>13. BatchAhead' /\ PageAhead' /\ PageOrder'
  BY <1>1, <1>2, <1>7 DEF AheadInv, BatchAhead, PageAhead, PageOrder
<1>14. QED BY <1>9, <1>10, <1>11, <1>12, <1>13 DEF OnceInv, AheadInv

\* What comes behind the last record of a stream.
LEMMA AppendRecord ==
  ASSUME NEW s \in Seq(StreamRecord), NEW r \in StreamRecord
  PROVE  \E n \in Nat : /\ DOMAIN s = 1..n /\ DOMAIN Append(s, r) = 1..(n + 1)
                        /\ \A x \in 1..n : Append(s, r)[x] = s[x]
                        /\ Append(s, r)[n + 1] = r
<1>1. PICK n \in Nat : n = Len(s) /\ DOMAIN s = 1..n
  BY LenProperties
<1>2. PICK a : a = Append(s, r)
  OBVIOUS
<1>3. /\ a \in Seq(StreamRecord) /\ Len(a) = n + 1
      /\ \A x \in 1..n : a[x] = s[x]
      /\ a[n + 1] = r
  BY <1>1, <1>2, AppendProperties
<1>4. DOMAIN a = 1..(n + 1)
  BY <1>3, LenProperties
<1>5. QED BY <1>1, <1>2, <1>3, <1>4

\* The group of the next job ends with the last of the job's units.
LEMMA LastIsLast ==
  ASSUME TypeOK, Waiting # {}
  PROVE  \E m \in DOMAIN through :
           /\ LastOf(NextJob) = through[m] /\ through[m].uow.job = NextJob
           /\ \A y \in DOMAIN through : through[y].uow.job = NextJob => y <= m
<1>1. /\ DOMAIN through = 1..Len(through) /\ Len(through) \in Nat
  BY LenProperties DEF TypeOK
<1>2. \E x \in DOMAIN through : through[x].uow.job = NextJob
  BY NextJobWaits
<1> DEFINE mine == {x \in DOMAIN through : through[x].uow.job = NextJob}
<1>3. mine \in SUBSET (0..Len(through)) /\ mine # {}
  BY <1>1, <1>2
<1>4. \E x \in mine : \A y \in mine : y <= x
  BY <1>1, <1>3, HasGreatest
<1>5. \E x \in mine : LastOf(NextJob) = through[x] /\ \A y \in mine : y <= x
  BY <1>4 DEF LastOf
<1>6. QED BY <1>5

LEMMA FlushCursorOnce ==
  ASSUME TypeInv, ReachInv, OnceInv, failures = 0, FlushCursor PROVE OnceInv'
<1>1. /\ phase = "flush" /\ page = << >> /\ buf = << >> /\ TypeOK /\ Waiting # {}
      /\ batch' = batch /\ dealt' = dealt /\ faulted' = faulted /\ phase' = phase
      /\ attempts' = attempts /\ buf' = buf /\ through' = through
      /\ QuietInv /\ SingleInv /\ AheadInv /\ LineInv
  BY DEF FlushCursor, TypeInv, PositionInv, unitVars, OnceInv
<1>2. PICK j, t : j = NextJob /\ t = LastOf(j)
  <2>1. PICK j : j = NextJob
    OBVIOUS
  <2>2. PICK t : t = LastOf(j)
    OBVIOUS
  <2>3. QED BY <2>1, <2>2
<1>3. j \in Jobs /\ j \notin updated
  BY <1>1, <1>2, NextJobWaits
<1>4. PICK m \in DOMAIN through :
        /\ t = through[m] /\ t.uow.job = j
        /\ \A y \in DOMAIN through : through[y].uow.job = j => y <= m
  BY <1>1, <1>2, LastIsLast
<1>5. t \in Buffered /\ \E k \in DOMAIN batch : batch[k].job = j
  <2>1. t \in Buffered
    BY <1>1, <1>4, Types
  <2>2. Reached(t)
    BY <1>1, <1>4 DEF ReachInv
  <2>3. QED BY <1>4, <2>1, <2>2 DEF Reached
<1>6. PICK c \in 0..NumItems : c = t.lek
  BY <1>5 DEF Buffered
<1>7. PICK r \in StreamRecord : r = Record(j, c, FALSE)
  <2>1. Record(j, c, FALSE) \in StreamRecord
    BY <1>3, <1>6 DEF Record, StreamRecord
  <2>2. QED BY <2>1
<1>8. r.job = j /\ r.cursor = c /\ r.created = FALSE
  BY <1>7 DEF Record
<1>9. stream' = Append(stream, r) /\ updated' = updated \cup {j}
  BY <1>2, <1>6, <1>7 DEF FlushCursor
<1>10. PICK n \in Nat : /\ DOMAIN stream = 1..n /\ DOMAIN stream' = 1..(n + 1)
                        /\ \A x \in 1..n : stream'[x] = stream[x]
                        /\ stream'[n + 1] = r
  <2>1. stream \in Seq(StreamRecord)
    BY <1>1 DEF TypeOK
  <2>2. QED BY <1>9, <2>1, AppendRecord
<1>11. \A x \in 1..(n + 1) : x \in 1..n \/ x = n + 1
  BY <1>10
<1>12. Published' = Published
  BY <1>1 DEF Published
<1>13. \A x \in 1..n : stream[x].job # j
  BY <1>1, <1>3, <1>5, <1>10 DEF SingleInv
<1>14. SingleInv'
  <2>1. ASSUME NEW x \in 1..(n + 1), NEW y \in 1..(n + 1), stream'[x].job = stream'[y].job
        PROVE  x = y
    <3>1. CASE x \in 1..n /\ y \in 1..n
      BY <1>1, <1>10, <2>1, <3>1 DEF SingleInv
    <3>2. CASE x = n + 1 /\ y \in 1..n
      BY <1>8, <1>10, <1>13, <2>1, <3>2
    <3>3. CASE x \in 1..n /\ y = n + 1
      BY <1>8, <1>10, <1>13, <2>1, <3>3
    <3>4. QED BY <1>11, <2>1, <3>1, <3>2, <3>3
  <2>2. ASSUME NEW x \in 1..(n + 1), NEW y \in DOMAIN batch, stream'[x].job = batch[y].job
        PROVE  stream'[x].job \in updated'
    <3>1. CASE x \in 1..n
      BY <1>1, <1>9, <1>10, <2>2, <3>1 DEF SingleInv
    <3>2. CASE x = n + 1
      BY <1>8, <1>9, <1>10, <3>2
    <3>3. QED BY <1>11, <2>2, <3>1, <3>2
  <2>3. \A x, y \in DOMAIN batch : batch[x].job = batch[y].job => x = y
    BY <1>1 DEF SingleInv
  <2>4. phase' \notin Working \cup {"next", "rest"} /\ buf' = << >>
    BY <1>1 DEF Working
  <2>5. QED BY <1>1, <1>10, <2>1, <2>2, <2>3, <2>4 DEF SingleInv
<1>15. ASSUME c # None PROVE Behind(Published, j, c + 1, 0)
  <2>1. ASSUME NEW u \in Published, u.job = j PROVE u.item < c + 1
    <3>1. u.item <= End(c)
      <4>1. \/ u.item <= End(through[m].lek)
            \/ \E y \in DOMAIN through : y > m /\ through[y].uow = u
        BY <1>1, <1>4, <2>1 DEF LineInv, ThroughEnds
      <4>2. DOMAIN through \subseteq Nat
        BY <1>1, LenProperties DEF TypeOK
      <4>3. QED BY <1>4, <1>6, <2>1, <4>1, <4>2
    <3>2. u.item \in Int
      BY <1>1, Types, <2>1 DEF UnitRecord, Items
    <3>3. End(c) = c /\ c \in Int
      BY <1>6, <1>15, ConstantsAssumption DEF End
    <3>4. QED BY <3>1, <3>2, <3>3
  <2>2. QED BY <2>1 DEF Behind
<1>16. StreamAhead'
  <2>1. ASSUME NEW x \in 1..(n + 1), HasWork(stream'[x])
        PROVE  Behind(Published, stream'[x].job, stream'[x].cursor + 1, 0)
    <3>1. CASE x \in 1..n
      <4>1. stream'[x] = stream[x]
        BY <1>10, <3>1
      <4>2. QED BY <1>1, <1>10, <2>1, <3>1, <4>1 DEF AheadInv, StreamAhead
    <3>2. CASE x = n + 1
      <4>1. stream'[x] = r
        BY <1>10, <3>2
      <4>2. c # None
        BY <1>8, <2>1, <4>1 DEF HasWork
      <4>3. QED BY <1>8, <1>15, <4>1, <4>2
    <3>3. QED BY <1>11, <2>1, <3>1, <3>2
  <2>2. QED BY <1>10, <1>12, <2>1 DEF StreamAhead
<1>17. BatchAhead' /\ PageAhead' /\ PageOrder'
  BY <1>1 DEF BatchAhead, PageAhead, PageOrder, Working
<1>18. LineInv' /\ QuietInv'
  BY <1>1, <1>12, LineFrame DEF QuietInv
<1>19. QED BY <1>14, <1>16, <1>17, <1>18 DEF OnceInv, AheadInv

LEMMA AcknowledgeOnce == ASSUME OnceInv, failures = 0, Acknowledge PROVE OnceInv'
<1>1. /\ QuietInv /\ SingleInv /\ AheadInv
      /\ stream' = stream /\ batch' = << >> /\ phase' = "idle" /\ faulted' = {} /\ updated' = {}
      /\ attempts' = << >> /\ buf' = << >> /\ through' = << >>
  BY DEF OnceInv, Acknowledge, tableVars, NewLine
<1>2. dealt' = dealt
  BY <1>1 DEF Acknowledge, QuietInv
<1>3. Published' = Published
  BY <1>2 DEF Published
<1>4. SingleInv'
  BY <1>1, EmptyOfAny DEF SingleInv, Working
<1>5. StreamAhead'
  BY <1>1, <1>3 DEF AheadInv, StreamAhead
<1>6. BatchAhead' /\ PageAhead' /\ PageOrder'
  BY <1>1 DEF BatchAhead, PageAhead, PageOrder, Working
<1>7. LineInv' /\ QuietInv'
  BY <1>1, EmptyLineInv DEF QuietInv
<1>8. QED BY <1>4, <1>5, <1>6, <1>7 DEF OnceInv, AheadInv

\* What ends the line without touching the table.
LEMMA RestOnce ==
  ASSUME TypeInv, OnceInv, failures = 0, Rested \/ FlushRejected \/ Flushed PROVE OnceInv'
<1>1. Still /\ phase' \in {"flush", "errored", "completed"}
  BY DEF Rested, FlushRejected, Flushed, Still, tableVars, unitVars, outVars, histVars
<1>2. /\ QuietInv' /\ SingleInv' /\ StreamAhead' /\ LineInv'
  BY <1>1, StillOnce DEF Working
<1>3. BatchAhead' /\ PageAhead' /\ PageOrder'
  BY <1>1 DEF BatchAhead, PageAhead, PageOrder, Working
<1>4. QED BY <1>2, <1>3 DEF OnceInv, AheadInv

LEMMA StutterOnce == ASSUME OnceInv, UNCHANGED vars PROVE OnceInv'
<1>1. /\ UNCHANGED <<cursor, stamped, stream, batch, phase, idx, start, count, page, lek>>
      /\ UNCHANGED <<unit, want, attempts, result, buf, through, faulted, updated, failures, dealt>>
  BY DEF vars, tableVars, pageVars, unitVars, outVars, histVars
<1>2. Published' = Published /\ Sent' = Sent
  BY <1>1 DEF Published, Sent
<1>3. (QuietInv => QuietInv') /\ (SingleInv => SingleInv')
  BY <1>1 DEF QuietInv, SingleInv
<1>4. AheadInv => AheadInv'
  BY <1>1, <1>2 DEF AheadInv, StreamAhead, BatchAhead, PageAhead, PageOrder
<1>5. LineInv => LineInv'
  BY <1>1, <1>2, LineFrame
<1>6. QED BY <1>1, <1>3, <1>4, <1>5 DEF OnceInv

\* A call that has failed is not forgotten.
LEMMA FailuresStay ==
  ASSUME failures \in Nat, [Next]_vars PROVE failures' = 0 => failures = 0
<1>1. failures' = failures \/ failures' = failures + 1
  BY DEF Next, Line, Invoke, NextRecord, Fetch, FetchFails, Fails, Push, PageDone, GetRequest,
         BatchGet, BatchGetPartly, BatchGetExhausted, Put, PutFaults, Rested, Publish, PublishFails,
         FlushCursor, FlushRejected, FlushFails, Flushed, Acknowledge, Kill, TimeOut, Finished, vars
<1>2. QED BY <1>1

LEMMA OnceStep == TypeInv /\ ReadInv /\ OnceInv /\ [Next]_vars => OnceInv'
<1> SUFFICES ASSUME TypeInv, ReadInv, OnceInv, [Next]_vars PROVE OnceInv'
  OBVIOUS
<1>1. failures \in Nat /\ ReachInv
  BY DEF TypeInv, TypeOK, ReadInv
<1>2. CASE failures # 0
  BY <1>1, <1>2, FailuresStay DEF OnceInv
<1>3. CASE failures = 0 /\ (Invoke \/ NextRecord \/ Fetch \/ Push \/ PageDone \/ GetRequest)
  BY <1>3, InvokeOnce, NextRecordOnce, FetchOnce, PushOnce, PageDoneOnce, GetOnce
<1>4. CASE failures = 0 /\ (BatchGet \/ Put \/ Publish \/ FlushCursor \/ Acknowledge)
  BY <1>1, <1>4, GetOnce, PutOnce, PublishOnce, FlushCursorOnce, AcknowledgeOnce
<1>5. CASE failures = 0 /\ (Rested \/ FlushRejected \/ Flushed)
  BY <1>5, RestOnce
<1>6. CASE failures = 0 /\ BatchGetExhausted
  <2>1. Len(attempts) > MaxRetries /\ attempts = << >>
    BY <1>6 DEF BatchGetExhausted, OnceInv, QuietInv
  <2>2. QED BY <2>1, EmptyOfAny, ConstantsAssumption
<1>7. CASE FetchFails \/ BatchGetPartly \/ PutFaults \/ PublishFails \/ FlushFails \/ Kill
  <2>1. failures' = failures + 1
    BY <1>7 DEF FetchFails, BatchGetPartly, PutFaults, PublishFails, FlushFails, Kill, Fails
  <2>2. QED BY <1>1, <2>1 DEF OnceInv
<1>8. CASE failures = 0 /\ TimeOut
  BY <1>8 DEF TimeOut, OnceInv, QuietInv
<1>9. CASE Finished \/ UNCHANGED vars
  BY <1>9, StutterOnce DEF Finished
<1>10. QED BY <1>2, <1>3, <1>4, <1>5, <1>6, <1>7, <1>8, <1>9 DEF Next, Line

LEMMA OnceInit == Init => OnceInv
<1> SUFFICES ASSUME Init PROVE OnceInv
  OBVIOUS
<1>1. /\ stream = [j \in Jobs |-> Record(j, None, TRUE)]
      /\ batch = << >> /\ phase = "idle" /\ buf = << >> /\ through = << >> /\ dealt = {}
      /\ faulted = {} /\ attempts = << >>
  BY DEF Init, EmptyLine
<1>2. DOMAIN batch = {} /\ DOMAIN buf = {} /\ DOMAIN through = {} /\ Published = {}
  BY <1>1, EmptyOfAny DEF Published
<1>3. \A j \in Jobs : stream[j].job = j
  BY <1>1 DEF Record
<1>4. SingleInv
  BY <1>1, <1>2, <1>3 DEF SingleInv, Working
<1>5. AheadInv
  BY <1>1, <1>2 DEF AheadInv, StreamAhead, BatchAhead, PageAhead, PageOrder, Behind, Working
<1>6. LineInv
  BY <1>2 DEF LineInv, BufferNew, ThroughEnds, BufferEnds
<1>7. QED BY <1>1, <1>4, <1>5, <1>6 DEF OnceInv, QuietInv

LEMMA FreshStep ==
  ASSUME TypeInv, ReadInv, OnceInv, failures = 0, [Next]_vars PROVE Fresh
<1>1. CASE Publish
  BY <1>1, PublishOnce DEF ReadInv
<1>2. CASE through' = through \/ through' = << >>
  BY <1>2, EmptyOfAny DEF Fresh
<1>3. CASE Next /\ ~Publish
  <2>1. through' = through \/ through' = << >>
    BY <1>3 DEF Next, Line, Invoke, NextRecord, Fetch, FetchFails, Push, PageDone, GetRequest,
           BatchGet, BatchGetPartly, BatchGetExhausted, UnitFaults, Put, PutFaults, Rested,
           PublishFails, FlushCursor, FlushRejected, FlushFails, Flushed, Acknowledge, Kill,
           TimeOut, Lose, NewLine, Finished, outVars, vars
  <2>2. QED BY <1>2, <2>1
<1>4. CASE UNCHANGED vars
  BY <1>2, <1>4 DEF vars, outVars
<1>5. QED BY <1>1, <1>3, <1>4

\* While no call has failed, a unit of work is published once: what reaches the publisher has
\* neither been published before nor does it come twice in the batch, for any pages, fan-out,
\* buffer and batch size (_publish_batch, _flush_cursor).
THEOREM UnitsPublishedOnce == Spec => PublishedOnce
<1>1. Spec => [](TypeInv /\ ReadInv /\ OnceInv)
  BY TypeInit, TypeStep, ReadInit, ReadStep, OnceInit, OnceStep, PTL DEF Spec
<1>2. TypeInv /\ ReadInv /\ OnceInv /\ [Next]_vars
      => [failures = 0 => \A i \in DOMAIN through' \ DOMAIN through :
            /\ through'[i].uow \notin dealt
            /\ \A k \in 1..(i - 1) : through'[k].uow # through'[i].uow]_vars
  BY FreshStep DEF Fresh
<1>3. QED BY <1>1, <1>2, PTL DEF Spec, PublishedOnce
-----------------------------------------------------------------------------
(***************************************************************************)
(* No job is forgotten.                                                    *)
(***************************************************************************)

\* Records S hold one that makes a line read job j on from cursor c.
Resumes(S, j, c) == \E x \in DOMAIN S : S[x].job = j /\ S[x].cursor = c /\ HasWork(S[x])

\* A job is done, stalled, or has a record that goes on where its cursor is.
NoJobForgotten ==
  \A j \in Jobs : \/ j \in done
                  \/ \E s \in stalled : s.job = j
                  \/ Resumes(batch, j, cursor[j])
                  \/ Resumes(stream, j, cursor[j])

\* The job's next record is there as soon as its cursor is written, and not only when the
\* attempt that wrote it is acknowledged.
UpdatedInv == \A j \in updated : j \in done \/ Resumes(stream, j, cursor[j])

\* Between invocations there is no batch.
RestInv == phase = "idle" => batch = << >>

ResumeInv == NoJobForgotten /\ UpdatedInv /\ RestInv

LEMMA ResumesCut ==
  ASSUME NEW S \in Seq(StreamRecord), NEW n \in 1..Len(S), NEW j, NEW c, Resumes(S, j, c)
  PROVE  Resumes(SubSeq(S, 1, n), j, c) \/ Resumes(SubSeq(S, n + 1, Len(S)), j, c)
<1>1. PICK m \in Nat : m = Len(S) /\ DOMAIN S = 1..m
  BY LenProperties
<1>2. \A i \in 1..m : S[i] \in StreamRecord
  BY <1>1, ElementOfSeq
<1>3. PICK x \in 1..m : S[x].job = j /\ S[x].cursor = c /\ HasWork(S[x])
  BY <1>1 DEF Resumes
<1>4. CASE x <= n
  <2>1. PICK A : A = SubSeq(S, 1, n)
    OBVIOUS
  <2>2. n \in Nat /\ n <= m
    BY <1>1
  <2>3. A \in Seq(StreamRecord) /\ Len(A) = n /\ \A i \in 1..n : A[i] = S[i]
    BY <1>1, <1>2, <2>1, <2>2, SubSeqProperties
  <2>4. DOMAIN A = 1..n
    BY <2>3, LenProperties
  <2>5. x \in DOMAIN A /\ A[x] = S[x]
    BY <1>3, <1>4, <2>2, <2>3, <2>4
  <2>6. QED BY <1>3, <2>1, <2>5 DEF Resumes
<1>5. CASE ~(x <= n)
  <2>1. PICK B : B = SubSeq(S, n + 1, m)
    OBVIOUS
  <2>2. n \in Nat /\ n + 1 <= m /\ n + 1 \in Int /\ m \in Int
    BY <1>1, <1>3, <1>5
  <2>3. \A i \in (n + 1)..m : S[i] \in StreamRecord
    BY <1>2, <2>2
  <2>4. /\ B \in Seq(StreamRecord)
        /\ Len(B) = IF n + 1 <= m THEN m - (n + 1) + 1 ELSE 0
        /\ \A i \in 1..(m - (n + 1) + 1) : B[i] = S[(n + 1) + i - 1]
    BY <2>1, <2>2, <2>3, SubSeqProperties
  <2>5. DOMAIN B = 1..(m - (n + 1) + 1)
    BY <2>2, <2>4, LenProperties
  <2>6. PICK y \in 1..(m - (n + 1) + 1) : (n + 1) + y - 1 = x
    <3>1. x - n \in 1..(m - (n + 1) + 1) /\ (n + 1) + (x - n) - 1 = x
      BY <1>1, <1>3, <1>5, <2>2
    <3>2. QED BY <3>1
  <2>7. y \in DOMAIN B /\ B[y] = S[x]
    BY <2>4, <2>5, <2>6
  <2>8. QED BY <1>1, <1>3, <2>1, <2>7 DEF Resumes
<1>6. QED BY <1>4, <1>5

LEMMA ResumesAdded ==
  ASSUME NEW S \in Seq(StreamRecord), NEW r \in StreamRecord
  PROVE  /\ \A j, c : Resumes(S, j, c) => Resumes(Append(S, r), j, c)
         /\ HasWork(r) => Resumes(Append(S, r), r.job, r.cursor)
<1>1. PICK T : T = Append(S, r)
  OBVIOUS
<1>2. /\ T \in Seq(StreamRecord) /\ Len(T) = Len(S) + 1 /\ Len(S) \in Nat
      /\ \A i \in 1..Len(S) : T[i] = S[i]
      /\ T[Len(S) + 1] = r
  BY <1>1, AppendProperties, LenProperties
<1>3. DOMAIN T = 1..(Len(S) + 1) /\ DOMAIN S = 1..Len(S)
  BY <1>2, LenProperties
<1>4. \A i \in DOMAIN S : i \in DOMAIN T /\ T[i] = S[i]
  BY <1>2, <1>3
<1>5. Len(S) + 1 \in DOMAIN T
  BY <1>2, <1>3
<1>6. QED BY <1>1, <1>2, <1>4, <1>5 DEF Resumes

LEMMA ResumesJoined ==
  ASSUME NEW A \in Seq(StreamRecord), NEW B \in Seq(StreamRecord), NEW j, NEW c,
         Resumes(A, j, c) \/ Resumes(B, j, c)
  PROVE  Resumes(A \o B, j, c)
<1>1. PICK T : T = A \o B
  OBVIOUS
<1>2. PICK m \in Nat, n \in Nat : m = Len(A) /\ n = Len(B) /\ DOMAIN A = 1..m /\ DOMAIN B = 1..n
  BY LenProperties
<1>3. /\ T \in Seq(StreamRecord) /\ Len(T) = m + n
      /\ \A x \in 1..(m + n) : T[x] = IF x <= m THEN A[x] ELSE B[x - m]
  BY <1>1, <1>2, ConcatProperties
<1>4. DOMAIN T = 1..(m + n)
  BY <1>3, LenProperties
<1>5. \A x \in 1..m : x \in DOMAIN T /\ T[x] = A[x]
  BY <1>3, <1>4
<1>6. \A x \in 1..n : m + x \in DOMAIN T /\ T[m + x] = B[x]
  <2>1. \A x \in 1..n : m + x \in 1..(m + n) /\ ~(m + x <= m) /\ (m + x) - m = x
    OBVIOUS
  <2>2. QED BY <1>3, <1>4, <2>1
<1>7. CASE Resumes(A, j, c)
  BY <1>1, <1>2, <1>5, <1>7 DEF Resumes
<1>8. CASE Resumes(B, j, c)
  BY <1>1, <1>2, <1>6, <1>8 DEF Resumes
<1>9. QED BY <1>7, <1>8

\* The write that moves a cursor, or clears it.
LEMMA FlushCursorResumes == TypeInv /\ ResumeInv /\ FlushCursor => ResumeInv'
<1> SUFFICES ASSUME TypeInv, ResumeInv, FlushCursor PROVE ResumeInv'
  OBVIOUS
<1>1. TypeInv'
  BY FlushCursorTypes
<1>2. PICK j, c : j = NextJob /\ c = LastOf(NextJob).lek
  OBVIOUS
<1>3. /\ cursor' = [cursor EXCEPT ![j] = c]
      /\ stream' = Append(stream, Record(j, c, FALSE))
      /\ updated' = updated \cup {j}
      /\ done' = IF c = None THEN done \cup {j} ELSE done
      /\ batch' = batch /\ stalled' = stalled
  BY <1>2 DEF FlushCursor
<1>4. j \in Jobs
  BY <1>1, <1>3 DEF TypeInv, TypeOK
<1>5. cursor'[j] = c /\ c \in 0..NumItems /\ \A k \in Jobs \ {j} : cursor'[k] = cursor[k]
  BY <1>1, <1>3, <1>4 DEF TypeInv, TypeOK
<1>6. PICK r \in StreamRecord : r = Record(j, c, FALSE)
  BY <1>4, <1>5 DEF Record, StreamRecord
<1>7. r.job = j /\ r.cursor = c /\ (c # None => HasWork(r))
  BY <1>6 DEF Record, HasWork
<1>8. stream \in Seq(StreamRecord)
  BY DEF TypeInv, TypeOK
<1>9. j \in done' \/ Resumes(stream', j, c)
  BY <1>3, <1>6, <1>7, <1>8, ResumesAdded
<1>10. \A k \in Jobs : Resumes(stream, k, cursor[k]) => Resumes(stream', k, cursor[k])
  BY <1>3, <1>6, <1>8, ResumesAdded
<1>11. UpdatedInv'
  <2>1. ASSUME NEW k \in updated', k # j PROVE k \in done' \/ Resumes(stream', k, cursor'[k])
    <3>1. k \in updated /\ k \in Jobs
      BY <1>3, <2>1 DEF TypeInv, TypeOK
    <3>2. QED BY <1>3, <1>5, <1>10, <2>1, <3>1 DEF ResumeInv, UpdatedInv
  <2>2. QED BY <1>5, <1>9, <2>1 DEF UpdatedInv
<1>12. NoJobForgotten'
  <2>1. ASSUME NEW k \in Jobs, k # j
        PROVE  \/ k \in done'
               \/ \E s \in stalled' : s.job = k
               \/ Resumes(batch', k, cursor'[k])
               \/ Resumes(stream', k, cursor'[k])
    BY <1>3, <1>5, <1>10, <2>1 DEF ResumeInv, NoJobForgotten
  <2>2. QED BY <1>5, <1>9, <2>1 DEF NoJobForgotten
<1>13. RestInv'
  BY DEF FlushCursor, RestInv
<1>14. QED BY <1>11, <1>12, <1>13 DEF ResumeInv

\* The deliveries, and the ends of an attempt.
LEMMA InvokeResumes == TypeInv /\ ResumeInv /\ Invoke => ResumeInv'
<1> SUFFICES ASSUME TypeInv, ResumeInv, Invoke PROVE ResumeInv'
  OBVIOUS
<1>1. PICK n \in 1..Len(stream) : /\ batch' = SubSeq(stream, 1, n)
                                  /\ stream' = SubSeq(stream, n + 1, Len(stream))
  BY DEF Invoke
<1>2. /\ cursor' = cursor /\ done' = done /\ stalled' = stalled /\ updated' = {}
      /\ stream \in Seq(StreamRecord)
  BY DEF Invoke, NewLine, histVars, TypeInv, TypeOK
<1>3. phase = "idle" /\ phase' = "next"
  BY DEF Invoke
<1>4. \A j : ~Resumes(batch, j, cursor[j])
  BY <1>3, EmptyOfAny DEF ResumeInv, RestInv, Resumes
<1>5. \A j \in Jobs : Resumes(stream, j, cursor[j]) =>
                         Resumes(batch', j, cursor[j]) \/ Resumes(stream', j, cursor[j])
  BY <1>1, <1>2, ResumesCut
<1>6. QED BY <1>2, <1>3, <1>4, <1>5 DEF ResumeInv, NoJobForgotten, UpdatedInv, RestInv

LEMMA EndResumes == TypeInv /\ ResumeInv /\ (Acknowledge \/ Kill \/ TimeOut) => ResumeInv'
<1> SUFFICES ASSUME TypeInv, ResumeInv, Acknowledge \/ Kill \/ TimeOut PROVE ResumeInv'
  OBVIOUS
<1>1. updated' = {} /\ cursor' = cursor /\ done' = done /\ RestInv'
  BY DEF Acknowledge, Kill, TimeOut, Lose, NewLine, tableVars, RestInv
<1>2. CASE Acknowledge
  <2>1. ASSUME NEW j \in Jobs, Resumes(batch, j, cursor[j]), j \notin updated
        PROVE  \E s \in stalled' : s.job = j
    <3>1. PICK x \in DOMAIN batch : batch[x].job = j /\ HasWork(batch[x])
      BY <2>1 DEF Resumes
    <3>2. x \in {k \in DOMAIN batch : HasWork(batch[k]) /\ batch[k].job \notin updated}
      BY <2>1, <3>1
    <3>3. [job |-> batch[x].job, why |-> phase] \in stalled'
      BY <1>2, <3>2 DEF Acknowledge
    <3>4. QED BY <3>1, <3>3
  <2>2. stream' = stream /\ stalled \subseteq stalled'
    BY <1>2 DEF Acknowledge, tableVars
  <2>3. QED BY <1>1, <2>1, <2>2 DEF ResumeInv, NoJobForgotten, UpdatedInv
<1>3. CASE Kill \/ TimeOut
  <2>1. stream' = batch \o stream /\ stalled' = stalled
    BY <1>3 DEF Kill, TimeOut, Lose
  <2>2. batch \in Seq(StreamRecord) /\ stream \in Seq(StreamRecord)
    BY DEF TypeInv, TypeOK
  <2>3. \A j \in Jobs : Resumes(batch, j, cursor[j]) \/ Resumes(stream, j, cursor[j]) =>
                          Resumes(stream', j, cursor[j])
    BY <2>1, <2>2, ResumesJoined
  <2>4. QED BY <1>1, <2>1, <2>3 DEF ResumeInv, NoJobForgotten, UpdatedInv
<1>4. QED BY <1>2, <1>3

LEMMA ResumeStep == TypeInv /\ ResumeInv /\ [Next]_vars => ResumeInv'
<1> SUFFICES ASSUME TypeInv, ResumeInv, [Next]_vars PROVE ResumeInv'
  OBVIOUS
<1>1. CASE Invoke \/ FlushCursor \/ Acknowledge \/ Kill \/ TimeOut
  BY <1>1, InvokeResumes, FlushCursorResumes, EndResumes
<1>2. CASE ~Invoke /\ ~FlushCursor /\ ~Acknowledge /\ ~Kill /\ ~TimeOut
  <2>1. UNCHANGED tableVars /\ batch' = batch /\ updated' = updated /\ done' = done
        /\ stalled' = stalled
    BY <1>2 DEF Next, Line, NextRecord, Fetch, Push, PageDone, GetRequest, BatchGet, BatchGetPartly,
                BatchGetExhausted, Put, PutFaults, UnitFaults, Rested, Publish, PublishFails,
                FetchFails, FlushRejected, FlushFails, Flushed, Finished, outVars, histVars, vars
  <2>2. phase' = "idle" => phase = "idle"
    BY <1>2 DEF Next, Line, NextRecord, Fetch, Push, PageDone, GetRequest, BatchGet, BatchGetPartly,
                BatchGetExhausted, Put, PutFaults, UnitFaults, UnitDone, Rested, Publish,
                PublishFails, FetchFails, FlushRejected, FlushFails, Flushed, Finished, vars
  <2>3. QED BY <2>1, <2>2 DEF tableVars, ResumeInv, NoJobForgotten, UpdatedInv, RestInv
<1>3. QED BY <1>1, <1>2

\* A job that is not done always has a record, on the stream or in the batch, that resumes it at
\* the cursor it has, unless a record of it was acknowledged by an attempt that did not write its
\* cursor: neither a killed container nor a redelivered batch or a stale record loses it.
THEOREM JobsAreNotForgotten == Spec => []NoJobForgotten
<1>1. Init => ResumeInv
  <2> SUFFICES ASSUME Init PROVE ResumeInv
    OBVIOUS
  <2>1. /\ cursor = [j \in Jobs |-> None] /\ stream = [j \in Jobs |-> Record(j, None, TRUE)]
        /\ updated = {} /\ batch = << >>
    BY DEF Init, EmptyLine
  <2>2. \A j \in Jobs : stream[j].job = j /\ stream[j].cursor = cursor[j] /\ HasWork(stream[j])
    BY <2>1 DEF Record, HasWork
  <2>3. DOMAIN stream = Jobs
    BY <2>1
  <2>4. QED BY <2>1, <2>2, <2>3 DEF ResumeInv, NoJobForgotten, UpdatedInv, RestInv, Resumes
<1>2. ResumeInv => NoJobForgotten
  BY DEF ResumeInv
<1>3. QED BY <1>1, <1>2, TypeInit, TypeStep, ResumeStep, PTL DEF Spec
===============================================================================
