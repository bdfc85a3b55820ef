---------------------------- MODULE JobPagesProps ----------------------------
(***************************************************************************)
(* The correctness properties of JobPages.                                 *)
(***************************************************************************)
EXTENDS JobPages

UnitRecord   == [job : Jobs, item : Items, unit : Nat]
StreamRecord == [job : Jobs, cursor : 0..NumItems, created : BOOLEAN]
Buffered     == [uow : UnitRecord, lek : 0..NumItems]

\* Every variable has its type; the publisher's buffer never outgrows its batch size.
TypeOK ==
  /\ cursor \in [Jobs -> 0..NumItems] /\ stamped \subseteq Jobs
  /\ stream \in Seq(StreamRecord) /\ batch \in Seq(StreamRecord)
  /\ phase \in Phases /\ idx \in Nat /\ start \in 0..NumItems /\ count \in Nat
  /\ page \in Seq(Items) /\ lek \in 0..NumItems /\ unit \in Nat
  /\ want \subseteq Keys
  /\ attempts \in Seq(SUBSET Keys) /\ result \in Seq(SUBSET Keys)
  /\ buf \in Seq(Buffered) /\ Len(buf) <= BatchSize /\ through \in Seq(Buffered)
  /\ faulted \subseteq UnitRecord /\ updated \subseteq Jobs
  /\ failures \in Nat
  /\ dealt \subseteq UnitRecord /\ lost \subseteq UnitRecord
  /\ done \subseteq Jobs
  /\ stalled \subseteq [job : Jobs, why : {"completed", "errored"}]
-----------------------------------------------------------------------------
\* The units of work that item i is for job j; unit 0 stands for an item without any.
UnitsOf(j, i) ==
  {[job |-> j, item |-> i, unit |-> u] : u \in IF Units[i] = 0 THEN {0} ELSE 1..Units[i]}

\* A job's cursor never moves past an item that was not published, dropped by the rule or
\* recorded as a fault, wherever pages end, buffers go out and containers die
\* (_flush_cursor takes the page of the last unit that got through).  A fault that the
\* attempt recorded before it wrote the cursor is reported with the batch's
\* acknowledgement; only a container lost in between may keep it from being reported.
CursorBehindWork ==
  \A j \in Jobs, i \in Items :
    i <= cursor[j] \/ j \in done => UnitsOf(j, i) \subseteq dealt \cup Written \cup lost

\* Without failures no unit of a job is published twice, wherever the pages end.
PublishedOnce ==
  [][failures = 0 =>
       \A i \in DOMAIN through' \ DOMAIN through :
         /\ through'[i].uow \notin dealt
         /\ \A k \in 1..(i - 1) : through'[k].uow # through'[i].uow]_vars

\* A batch_get that succeeds has every key in exactly one answer, after at most
\* MaxRetries + 1 calls.
EachKeyAnsweredOnce ==
  phase = "put" /\ Keys # {} =>
    /\ Len(result) <= MaxRetries + 1
    /\ \A k \in Keys : Cardinality({i \in DOMAIN result : k \in result[i]}) = 1

\* Every job is paged to its end and has its cursor cleared, unless a record of it was
\* acknowledged by an attempt in which no unit of it got through, or which ended with
\* on_error.
JobEndsOrStalls ==
  \A j \in Jobs : <>(j \in done \/ \E s \in stalled : s.job = j)
==============================================================================
