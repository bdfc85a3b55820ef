------------------------------- MODULE JobPages -------------------------------
(***************************************************************************)
(* Job records of a DynamoDB table and the Job flavor that they drive.     *)
(*                                                                         *)
(* Inserting a job record puts a record on the table's stream.  The Job    *)
(* line reads pages of items from the record's cursor on, pushes them one  *)
(* by one through its operators, publishes the resulting units of work in  *)
(* batches, and on completion of the stream batch writes into every job    *)
(* record the cursor of the last unit of work that got through.  That      *)
(* write is the stream record of the job's next page.                      *)
(*                                                                         *)
(* One rule takes created and updated job records.  Its callbacks are      *)
(* those of the flavor's tests: the cursor is the LastEvaluatedKey of the  *)
(* unit's page, removed when there is none, and an updated record without  *)
(* a cursor is filtered.  What runs around the line (the latch, the pool,  *)
(* the flush of the faults) is StreamRunner; here an invocation ends when  *)
(* the line completes, ends with on_error, or is lost.                     *)
(***************************************************************************)
EXTENDS Naturals, Sequences, FiniteSets

CONSTANTS
  NumJobs,      \* job records, inserted in this order
  NumItems,     \* items of the paged table, in key order
  Limit,        \* Limit of the page requests; 0 for none
  Units,        \* per item, the units of work it becomes: 0 if the rule's filters
                \* drop it or its related query finds nothing
  Keys,         \* keys of a unit's batch_get request
  MaxRetries,   \* retry_config['max_retries']
  BatchSize,    \* PUBLISH_BATCH_SIZE
  Guarded,      \* jobs whose cursor update carries timestamp_condition
  MaxBatch,     \* records the event source mapping delivers at a time
  MaxFailures   \* bound: failing or partly answered calls of the service clients, and
                \* containers killed while the line works

Jobs  == 1..NumJobs
Items == 1..NumItems
None  == 0      \* no cursor, no LastEvaluatedKey

ASSUME ConstantsAssumption ==
  /\ NumJobs \in Nat /\ NumItems \in Nat \ {0} /\ Limit \in Nat
  /\ Units \in [Items -> Nat]
  /\ IsFiniteSet(Keys)
  /\ MaxRetries \in Nat /\ BatchSize \in Nat \ {0} /\ MaxBatch \in Nat \ {0}
  /\ MaxFailures \in Nat
  /\ Guarded \subseteq Jobs

VARIABLES
  cursor,     \* per job record, its cursor
  stamped,    \* job records that have a timestamp
  stream,     \* stream records not yet delivered
  batch,      \* the delivered batch; empty between invocations
  phase,      \* where the line is
  idx,        \* the record being processed
  start,      \* ExclusiveStartKey of the next page request
  count,      \* items_count of the page loop
  page,       \* items of the response not yet through the operators
  lek,        \* LastEvaluatedKey of the response
  unit,       \* number of the unit of the first of them that is being processed
  want,       \* keys of its batch_get request still unanswered
  attempts,   \* its answers that left keys unprocessed: per answer, the keys it had
  result,     \* the answers in the order in which accumulate lists their items
  buf,        \* the publisher's buffer
  through,    \* units that reached _flush_cursor, in order
  faulted,    \* units recorded in the_faults by this attempt
  updated,    \* jobs whose cursor this attempt has written
  failures,   \* calls failed, containers killed
  dealt,      \* units published, dropped or reported as faults (history)
  lost,       \* faults of attempts that were lost after they wrote the job's cursor (history)
  done,       \* jobs whose cursor has been cleared (history)
  stalled     \* jobs with a record acknowledged without cursor update, and why (history)

tableVars == <<cursor, stamped, stream>>
pageVars  == <<idx, start, count, page, lek>>
unitVars  == <<unit, want, attempts, result>>
outVars   == <<buf, through, faulted, updated>>
histVars  == <<dealt, lost, done, stalled>>
vars == <<tableVars, batch, phase, pageVars, unitVars, outVars, failures, histVars>>

Phases == {"idle", "next", "fetch", "push", "unit", "get", "put", "rest",
           "flush", "completed", "errored", "dead"}
-----------------------------------------------------------------------------
Record(j, c, new) == [job |-> j, cursor |-> c, created |-> new]

EmptyLine ==
  /\ start = None /\ count = 0 /\ page = << >> /\ lek = None
  /\ unit = 0 /\ want = {} /\ attempts = << >> /\ result = << >>
  /\ buf = << >> /\ through = << >> /\ faulted = {} /\ updated = {}

\* A new subscription: nothing that an attempt keeps in memory outlives it.
NewLine ==
  /\ start' = None /\ count' = 0 /\ page' = << >> /\ lek' = None
  /\ unit' = 0 /\ want' = {} /\ attempts' = << >> /\ result' = << >>
  /\ buf' = << >> /\ through' = << >> /\ faulted' = {} /\ updated' = {}

Init ==
  /\ cursor = [j \in Jobs |-> None] /\ stamped = {}
  /\ stream = [j \in Jobs |-> Record(j, None, TRUE)]
  /\ batch = << >> /\ phase = "idle" /\ idx = 0
  /\ EmptyLine
  /\ failures = 0
  /\ dealt = {} /\ lost = {} /\ done = {} /\ stalled = {}

\* The event source mapping invokes the function with the oldest records.
Invoke ==
  /\ phase = "idle"
  /\ stream # << >>
  /\ \E n \in 1..Len(stream) :
       /\ n <= MaxBatch
       /\ batch' = SubSeq(stream, 1, n)
       /\ stream' = SubSeq(stream, n + 1, Len(stream))
  /\ phase' = "next" /\ idx' = 1
  /\ NewLine
  /\ UNCHANGED <<cursor, stamped, failures, histVars>>

\* job_filters: an updated record that has no cursor is not a page to read.
HasWork(r) == r.created \/ r.cursor # None

\* Mutant: the buffer goes out one event late.
MutFullLate == Len(buf) > BatchSize

\* The publisher's buffer is full and goes out before anything else happens.
Full == Len(buf) = BatchSize

\* The next record of the batch: filtered, or its page loop starts at its cursor.
NextRecord ==
  /\ phase = "next"
  /\ ~Full
  /\ \/ /\ idx > Len(batch)
        /\ phase' = "rest"
        /\ UNCHANGED <<idx, start, count>>
     \/ /\ idx <= Len(batch)
        /\ HasWork(batch[idx])
        /\ phase' = "fetch" /\ start' = batch[idx].cursor /\ count' = 0
        /\ UNCHANGED idx
     \/ /\ idx <= Len(batch)
        /\ ~HasWork(batch[idx])
        /\ idx' = idx + 1
        /\ UNCHANGED <<phase, start, count>>
  /\ UNCHANGED <<tableVars, batch, page, lek, unitVars, outVars, failures, histVars>>

\* scan or query_page answers with the items up to some key, no more than Limit.  At
\* the end of the table DynamoDB need not know yet that it is the end.
Fetch ==
  /\ phase = "fetch"
  /\ \E last \in start..NumItems :
       /\ Limit # 0 => last - start <= Limit
       /\ last > start \/ last = NumItems
       /\ page' = [i \in 1..(last - start) |-> start + i]
       /\ lek' \in CASE last < NumItems                 -> {last}
                     [] last = NumItems /\ last > start -> {last, None}
                     [] OTHER                           -> {None}
       /\ count' = count + (last - start)
  /\ phase' = "push"
  /\ UNCHANGED <<tableVars, batch, idx, start, unitVars, outVars, failures, histVars>>

Fails == failures < MaxFailures /\ failures' = failures + 1

\* The client raises outside every try_map: the operator sends on_error.
FetchFails ==
  /\ phase = "fetch"
  /\ Fails
  /\ phase' = "errored"
  /\ UNCHANGED <<tableVars, batch, pageVars, unitVars, outVars, histVars>>

Unit(u) == [job |-> batch[idx].job, item |-> Head(page), unit |-> u]

\* The first item of the page is dropped by a filter or an empty split, or its first
\* unit of work goes on.
Push ==
  /\ phase = "push"
  /\ ~Full
  /\ page # << >>
  /\ \/ /\ Units[Head(page)] = 0
        /\ page' = Tail(page)
        /\ dealt' = dealt \cup {Unit(0)}
        /\ UNCHANGED <<phase, unit>>
     \/ /\ Units[Head(page)] > 0
        /\ phase' = "unit" /\ unit' = 1
        /\ UNCHANGED <<page, dealt>>
  /\ UNCHANGED <<tableVars, batch, idx, start, count, lek, want, attempts, result, outVars,
                 failures, lost, done, stalled>>

\* The page is through: read on while the limit is not reached.
PageDone ==
  /\ phase = "push"
  /\ ~Full
  /\ page = << >>
  /\ IF lek # None /\ (Limit = 0 \/ count < Limit)
     THEN start' = lek /\ phase' = "fetch" /\ UNCHANGED idx
     ELSE idx' = idx + 1 /\ phase' = "next" /\ UNCHANGED start
  /\ UNCHANGED <<tableVars, batch, count, page, lek, unitVars, outVars, failures, histVars>>

\* A unit's batch_get request, if it has one.
GetRequest ==
  /\ phase = "unit"
  /\ ~Full
  /\ phase' = IF Keys = {} THEN "put" ELSE "get"
  /\ want' = Keys
  /\ UNCHANGED <<tableVars, batch, pageVars, unit, attempts, result, outVars, failures, histVars>>

\* The current unit is over; its item too if it was the last one.
UnitDone ==
  /\ want' = {} /\ attempts' = << >> /\ result' = << >>
  /\ IF unit < Units[Head(page)]
     THEN unit' = unit + 1 /\ phase' = "unit" /\ UNCHANGED page
     ELSE unit' = 0 /\ page' = Tail(page) /\ phase' = "push"

\* faulty: the exception carries the unit, which is recorded and dropped.
UnitFaults ==
  /\ faulted' = faulted \cup {Unit(unit)}
  /\ UnitDone
  /\ UNCHANGED <<tableVars, batch, idx, start, count, lek, buf, through, updated, histVars>>

\* accumulate: the last answer's items first, then those of the attempts, newest first.
Accumulate(answer) ==
  LET n == Len(attempts) IN [i \in 1..(n + 1) |-> IF i = 1 THEN answer ELSE attempts[n + 2 - i]]

\* batch_get_item answers all the keys asked for ...
BatchGet ==
  /\ phase = "get"
  /\ Len(attempts) <= MaxRetries
  /\ result' = Accumulate(want)
  /\ want' = {} /\ phase' = "put"
  /\ UNCHANGED <<tableVars, batch, pageVars, unit, attempts, outVars, failures, histVars>>

\* Mutant: the retry asks for all the keys again.
MutBatchGetPartlyAll ==
  /\ phase = "get"
  /\ Len(attempts) <= MaxRetries
  /\ Fails
  /\ \E answer \in SUBSET want :
       /\ answer # want
       /\ attempts' = Append(attempts, answer)
  /\ UNCHANGED <<tableVars, batch, phase, pageVars, unit, want, result, outVars, histVars>>

\* ... or leaves some unprocessed, which are asked for again.
BatchGetPartly ==
  /\ phase = "get"
  /\ Len(attempts) <= MaxRetries
  /\ Fails
  /\ \E answer \in SUBSET want :
       /\ answer # want
       /\ want' = want \ answer
       /\ attempts' = Append(attempts, answer)
  /\ UNCHANGED <<tableVars, batch, phase, pageVars, unit, result, outVars, histVars>>

\* assert_max_retries
BatchGetExhausted ==
  /\ phase = "get"
  /\ Len(attempts) > MaxRetries
  /\ UnitFaults
  /\ UNCHANGED failures

\* The unit's update request and its event; the event enters the publisher's buffer.
Put ==
  /\ phase = "put"
  /\ buf' = Append(buf, [uow |-> Unit(unit), lek |-> lek])
  /\ UnitDone
  /\ UNCHANGED <<tableVars, batch, idx, start, count, lek, through, faulted, updated, failures,
                 histVars>>

\* The update, or a callback, raises.
PutFaults ==
  /\ phase = "put"
  /\ Fails
  /\ UnitFaults

\* The source is exhausted and the rest of the buffer is out.
Rested ==
  /\ phase = "rest"
  /\ buf = << >>
  /\ phase' = "flush"
  /\ UNCHANGED <<tableVars, batch, pageVars, unitVars, outVars, failures, histVars>>

MustPublish == Full \/ (phase = "rest" /\ buf # << >>)

\* put_events; the units go on to _flush_cursor, which keeps them.
Publish ==
  /\ MustPublish
  /\ phase # "dead"
  /\ through' = through \o buf
  /\ buf' = << >>
  /\ dealt' = dealt \cup {buf[i].uow : i \in DOMAIN buf}
  /\ UNCHANGED <<tableVars, batch, phase, pageVars, unitVars, faulted, updated, failures, lost,
                 done, stalled>>

\* put_events raises: the exception carries no unit, stops the line's observers and is
\* swallowed.  The latch never hears of the line.
PublishFails ==
  /\ MustPublish
  /\ phase # "dead"
  /\ Fails
  /\ phase' = "dead"
  /\ buf' = << >>
  /\ UNCHANGED <<tableVars, batch, pageVars, unitVars, through, faulted, updated, histVars>>

\* _flush_cursor goes through its groups in the order of their first units ...
Waiting == {i \in DOMAIN through : through[i].uow.job \notin updated}
NextJob == through[CHOOSE i \in Waiting : \A k \in Waiting : i <= k].uow.job

\* Mutant: the units are not grouped by job.
MutLastOfAll(j) == through[Len(through)]

\* Mutant: the cursor of a group's first unit.
MutLastOfFirst(j) ==
  through[CHOOSE i \in DOMAIN through : /\ through[i].uow.job = j
                                       /\ \A k \in 1..(i - 1) : through[k].uow.job # j]

\* ... and takes the cursor of a group from its last unit.
LastOf(j) ==
  LET mine == {i \in DOMAIN through : through[i].uow.job = j}
  IN  through[CHOOSE i \in mine : \A k \in mine : k <= i]

\* An event has its image's timestamp, which the first guarded update took from the
\* job-created event: no later event of the job is newer.
Rejected(j) == j \in Guarded /\ j \in stamped

\* Mutant: no cursor, no update.
MutFlushCursorIfAny ==
  /\ phase = "flush"
  /\ Waiting # {}
  /\ ~Rejected(NextJob)
  /\ LET j == NextJob
         c == LastOf(j).lek
     IN  /\ updated' = updated \cup {j}
         /\ IF c = None THEN UNCHANGED <<cursor, stream, stamped, done>>
            ELSE /\ cursor' = [cursor EXCEPT ![j] = c]
                 /\ stream' = Append(stream, Record(j, c, FALSE))
                 /\ stamped' = stamped \cup (Guarded \cap {j})
                 /\ UNCHANGED done
  /\ UNCHANGED <<batch, phase, pageVars, unitVars, buf, through, faulted, failures, dealt, lost,
                 stalled>>

\* The cursor update of the next group; the write is on the table's stream.
FlushCursor ==
  /\ phase = "flush"
  /\ Waiting # {}
  /\ ~Rejected(NextJob)
  /\ LET j == NextJob
         c == LastOf(j).lek
     IN  /\ cursor' = [cursor EXCEPT ![j] = c]
         /\ stream' = Append(stream, Record(j, c, FALSE))
         /\ stamped' = stamped \cup (Guarded \cap {j})
         /\ updated' = updated \cup {j}
         /\ done' = IF c = None THEN done \cup {j} ELSE done
  /\ UNCHANGED <<batch, phase, pageVars, unitVars, buf, through, faulted, failures, dealt, lost,
                 stalled>>

\* The update raises, by its condition or otherwise: on_error, and the groups behind
\* it are not looked at.
FlushRejected ==
  /\ phase = "flush"
  /\ Waiting # {}
  /\ Rejected(NextJob)
  /\ phase' = "errored"
  /\ UNCHANGED <<tableVars, batch, pageVars, unitVars, outVars, failures, histVars>>

FlushFails ==
  /\ phase = "flush"
  /\ Waiting # {}
  /\ Fails
  /\ phase' = "errored"
  /\ UNCHANGED <<tableVars, batch, pageVars, unitVars, outVars, histVars>>

Flushed ==
  /\ phase = "flush"
  /\ Waiting = {}
  /\ phase' = "completed"
  /\ UNCHANGED <<tableVars, batch, pageVars, unitVars, outVars, failures, histVars>>

\* on_error and on_completed both count the line down: run flushes the faults and
\* returns, and the batch is acknowledged.
Acknowledge ==
  /\ phase \in {"completed", "errored"}
  /\ dealt' = dealt \cup faulted
  /\ stalled' = stalled \cup {[job |-> batch[i].job, why |-> phase] :
       i \in {k \in DOMAIN batch : HasWork(batch[k]) /\ batch[k].job \notin updated}}
  /\ phase' = "idle" /\ batch' = << >> /\ idx' = 0
  /\ NewLine
  /\ UNCHANGED <<tableVars, failures, lost, done>>

\* A fault whose job has its cursor update, in this attempt.
Written == {u \in faulted : u.job \in updated}

\* The container is lost with the line's memory; its batch is delivered again.
Lose ==
  /\ phase' = "idle" /\ batch' = << >> /\ idx' = 0
  /\ stream' = batch \o stream
  /\ lost' = lost \cup Written
  /\ NewLine
  /\ UNCHANGED <<cursor, stamped, dealt, done, stalled>>

Kill ==
  /\ phase # "idle"
  /\ Fails
  /\ Lose

\* The function's timeout ends an invocation that waits for a dead line.
TimeOut ==
  /\ phase = "dead"
  /\ UNCHANGED failures
  /\ Lose

\* No record is left to deliver.
Finished == phase = "idle" /\ stream = << >> /\ UNCHANGED vars

Line == \/ NextRecord \/ Fetch \/ Push \/ PageDone \/ GetRequest \/ BatchGet \/ BatchGetExhausted
        \/ Put \/ Rested \/ Publish \/ FlushCursor \/ FlushRejected \/ Flushed \/ Acknowledge

Next == Invoke \/ Line \/ FetchFails \/ BatchGetPartly \/ PutFaults \/ PublishFails \/ FlushFails
        \/ Kill \/ TimeOut \/ Finished

Spec == Init /\ [][Next]_vars

\* The line's thread runs; the event source mapping delivers what is on the stream, and
\* the platform enforces the function's timeout.
FairSpec == Spec /\ WF_vars(Line) /\ WF_vars(Invoke) /\ WF_vars(TimeOut)
===============================================================================
