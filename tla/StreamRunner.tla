---------------------------- MODULE StreamRunner ----------------------------
(***************************************************************************)
(* One warm Lambda container running stream/runner.py's `run` on batch     *)
(* after batch.                                                            *)
(*                                                                         *)
(* Each invocation builds one line per registered pipeline over a copy of  *)
(* the batch, subscribes the lines on a thread pool (or, with              *)
(* concurrency=False, on the caller's trampoline), waits for a countdown   *)
(* latch, shuts the pool down and flushes the faults that the lines left   *)
(* in the module-global list the_faults.  An invocation that returns       *)
(* acknowledges its batch; one that raises, or is killed, gets the same    *)
(* batch again.                                                            *)
(*                                                                         *)
(* A line is a worker task of ReactiveX's from_list: items are pushed one  *)
(* by one through the flavor's operators and collected in the buffer of    *)
(* its sink (the EventBridge publisher or the SQS operator), which         *)
(* delivers a full buffer at once and the remainder on completion.         *)
(***************************************************************************)
EXTENDS Naturals, Sequences, FiniteSets

CONSTANTS
  NumPipelines,  \* flavors in the registry, in the order registry.build() yields them
  NumEvents,     \* units of work in a batch
  PoolSize,      \* multiprocessing.cpu_count()
  Concurrency,   \* per invocation, run's parameter of that name
  BatchSize,     \* PUBLISH_BATCH_SIZE: the size of the sinks' buffers
  Outcomes,      \* what the operators before the sink may do with an item
  SinkFailure,   \* per pipeline, what a failing delivery turns into
  FlushFails,    \* may put_events fail while the faults are flushed?
  Raising,       \* the user callbacks that may raise
  OnFault,       \* is an on_fault handler passed to run?
  Kills,         \* may the platform kill the container (timeout, recycling)?
  MaxRuns        \* bound: invocations of the container

Pipelines == 1..NumPipelines
Events    == 1..NumEvents

(***************************************************************************)
(* "forward"  the operators hand the item to the sink                      *)
(* "filter"   a try_filter predicate is false                              *)
(* "fault"    an exception that carries its uow reaches faults()           *)
(* "stray"    an exception without uow reaches faults(), which re-raises   *)
(* "error"    an exception inside ops.map, sent downstream as on_error     *)
(***************************************************************************)
AllOutcomes == {"forward", "filter", "fault", "stray", "error"}

ASSUME ConstantsAssumption ==
  /\ NumPipelines \in Nat
  /\ NumEvents \in Nat
  /\ PoolSize \in Nat \ {0}
  /\ Concurrency \in [1..MaxRuns -> BOOLEAN]
  /\ BatchSize \in Nat \ {0}
  /\ Outcomes \subseteq AllOutcomes
  /\ SinkFailure \in [Pipelines -> {"none", "stray", "error"}]
  /\ FlushFails \in BOOLEAN
  /\ Raising \subseteq {"on_next", "on_error", "on_completed", "on_fault"}
  /\ OnFault \in BOOLEAN
  /\ Kills \in BOOLEAN
  /\ MaxRuns \in Nat

NoHandler == 0      \* active_fault_handler's default; handlers are named by their run
Free      == 0      \* completed_lock held by no line

Fault == [run : 1..MaxRuns, pipeline : Pipelines, event : Events]

VARIABLES
  main,           \* where the invoking thread is
  run,            \* number of the current (or last) invocation
  batch,          \* batches acknowledged so far
  activeHandler,  \* the context variable active_fault_handler of the invoking thread
  subscribed,     \* lines 1..subscribed have been subscribed
  taken,          \* lines 1..taken have been taken off the FIFO work queue
  ctx,            \* the handler in the context copied when a line was scheduled
  stage,          \* how far each line's task is
  pos,            \* items each line has consumed
  buf,            \* items in the buffer of each line's sink
  failed,         \* lines that ended with on_error
  pending, completed, lock,  \* the latch: counter, event, completed_lock
  seen,           \* the value of `pending` each line loaded for `pending -= 1`
  theFaults,      \* the module-global list, shared by all lines and all runs
  handled,        \* on_fault calls of this run
  fate,           \* what this run did with each item (history)
  bus,            \* items each line has delivered in this run, in order
  faultBus,       \* faults published by flush_faults, over all runs
  dropped,        \* faults popped by a flush whose put_events failed
  settled         \* items of the current batch taken care of, in any run (history)

mainVars  == <<main, run, batch, activeHandler>>
poolVars  == <<subscribed, taken, ctx>>
lineVars  == <<stage, pos, buf, failed>>
latchVars == <<pending, completed, lock, seen>>
sentVars  == <<fate, bus, settled>>
faultVars == <<theFaults, handled, faultBus, dropped>>
vars == <<mainVars, poolVars, lineVars, latchVars, sentVars, faultVars>>

Resting == {"idle", "returned", "raised"}
Phases  == Resting \cup {"subscribing", "trampoline", "waiting", "shutdown", "flushing"}
Stages  == {"ready", "active", "ended", "loaded", "stored", "marked", "dead"}

\* Lines whose task occupies a pool thread (or the trampoline).
Busy == {p \in Pipelines : stage[p] \in {"active", "ended", "loaded", "stored"}}
-----------------------------------------------------------------------------
PerLine(v) == [p \in Pipelines |-> v]
NoFate == PerLine([e \in Events |-> "none"])

(* Before a run subscribes its lines: in the initial state ... *)
FreshLines ==
  /\ subscribed = 0 /\ taken = 0 /\ ctx = PerLine(NoHandler)
  /\ stage = PerLine("ready") /\ pos = PerLine(0) /\ buf = PerLine(<< >>) /\ failed = {}
  /\ lock = Free /\ seen = PerLine(0)
  /\ fate = NoFate /\ bus = PerLine(<< >>) /\ handled = {}

(* ... and after a step that builds the lines anew, or loses them. *)
RenewLines ==
  /\ subscribed' = 0 /\ taken' = 0 /\ ctx' = PerLine(NoHandler)
  /\ stage' = PerLine("ready") /\ pos' = PerLine(0) /\ buf' = PerLine(<< >>) /\ failed' = {}
  /\ lock' = Free /\ seen' = PerLine(0)
  /\ fate' = NoFate /\ bus' = PerLine(<< >>) /\ handled' = {}

Init ==
  /\ FreshLines
  /\ main = "idle" /\ run = 0 /\ batch = 0
  /\ activeHandler = NoHandler
  /\ pending = 0 /\ completed = FALSE
  /\ theFaults = << >> /\ faultBus = << >> /\ dropped = << >>
  /\ settled = {}

(***************************************************************************)
(* The invoking thread.                                                    *)
(***************************************************************************)

\* run() up to the first subscription: the handler is put in the context, the
\* lines are built and the latch is armed (set at once for an empty registry).
Invoke ==
  /\ main \in Resting
  /\ run < MaxRuns
  /\ main' = "subscribing"
  /\ run' = run + 1
  /\ activeHandler' = IF OnFault THEN run + 1 ELSE NoHandler
  /\ RenewLines
  /\ pending' = NumPipelines
  /\ completed' = (NumPipelines = 0)
  /\ UNCHANGED <<batch, theFaults, faultBus, dropped, settled>>

\* Mutant: the scheduler starts its threads without copying the caller's context.
MutSubscribeNoContext ==
  /\ main = "subscribing"
  /\ subscribed < NumPipelines
  /\ subscribed' = subscribed + 1
  /\ ctx' = [ctx EXCEPT ![subscribed + 1] = NoHandler]
  /\ UNCHANGED <<mainVars, taken, lineVars, latchVars, sentVars, faultVars>>

\* _emit: the next line's task is queued, with a copy of the caller's context.
Subscribe ==
  /\ main = "subscribing"
  /\ subscribed < NumPipelines
  /\ subscribed' = subscribed + 1
  /\ ctx' = [ctx EXCEPT ![subscribed + 1] = activeHandler]
  /\ UNCHANGED <<mainVars, taken, lineVars, latchVars, sentVars, faultVars>>

\* All lines are subscribed.  Without a pool the caller first runs the
\* trampoline on which the lines were queued.
SubscribedAll ==
  /\ main = "subscribing"
  /\ subscribed = NumPipelines
  /\ main' = IF Concurrency[run] THEN "waiting" ELSE "trampoline"
  /\ UNCHANGED <<run, batch, activeHandler, poolVars, lineVars, latchVars, sentVars, faultVars>>

TrampolineEmpty ==
  /\ main = "trampoline"
  /\ taken = subscribed
  /\ Busy = {}
  /\ main' = "waiting"
  /\ UNCHANGED <<run, batch, activeHandler, poolVars, lineVars, latchVars, sentVars, faultVars>>

\* completed.wait()
Wake ==
  /\ main = "waiting"
  /\ completed
  /\ main' = "shutdown"
  /\ UNCHANGED <<run, batch, activeHandler, poolVars, lineVars, latchVars, sentVars, faultVars>>

\* Mutant: shutdown(wait=False).
MutShutdownNoWait ==
  /\ main = "shutdown"
  /\ main' = "flushing"
  /\ UNCHANGED <<run, batch, activeHandler, poolVars, lineVars, latchVars, sentVars, faultVars>>

\* pool_scheduler.executor.shutdown() joins the pool's threads.
Shutdown ==
  /\ main = "shutdown"
  /\ Busy = {}
  /\ taken = subscribed
  /\ main' = "flushing"
  /\ UNCHANGED <<run, batch, activeHandler, poolVars, lineVars, latchVars, sentVars, faultVars>>

\* How many faults the publisher of flush_faults buffers for its next put_events.
FlushSize == IF Len(theFaults) < BatchSize THEN Len(theFaults) ELSE BatchSize

NextFaults == SubSeq(theFaults, 1, FlushSize)

\* The reactions that this run's faults among fs report.
Reported(fs) == {<<fs[i].pipeline, fs[i].event>> : i \in {j \in DOMAIN fs : fs[j].run = run}}

\* Mutant: flush_faults iterates over the list without popping.
MutFlushCopies ==
  /\ main = "flushing"
  /\ theFaults # << >>
  /\ faultBus' = faultBus \o NextFaults
  /\ settled' = settled \cup Reported(NextFaults)
  /\ UNCHANGED <<mainVars, poolVars, lineVars, latchVars, fate, bus, handled, dropped, theFaults>>

\* flush_faults pops faults into the publisher's buffer; put_events succeeds ...
FlushBatch ==
  /\ main = "flushing"
  /\ theFaults # << >>
  /\ faultBus' = faultBus \o NextFaults
  /\ settled' = settled \cup Reported(NextFaults)
  /\ theFaults' = SubSeq(theFaults, FlushSize + 1, Len(theFaults))
  /\ UNCHANGED <<mainVars, poolVars, lineVars, latchVars, fate, bus, handled, dropped>>

\* ... or raises out of run: the popped faults are gone, the others stay in the
\* list for the container's next run.
FlushRaises ==
  /\ FlushFails
  /\ main = "flushing"
  /\ theFaults # << >>
  /\ dropped' = dropped \o NextFaults
  /\ theFaults' = SubSeq(theFaults, FlushSize + 1, Len(theFaults))
  /\ main' = "raised"
  /\ activeHandler' = NoHandler
  /\ UNCHANGED <<run, batch, poolVars, lineVars, latchVars, sentVars, handled, faultBus>>

\* Mutant: only the first batch of faults is flushed.
MutReturnEarly ==
  /\ main = "flushing"
  /\ main' = "returned"
  /\ activeHandler' = NoHandler
  /\ batch' = batch + 1
  /\ settled' = {}
  /\ UNCHANGED <<run, poolVars, lineVars, latchVars, fate, bus, faultVars>>

\* run returns and the source answers 200: the batch is acknowledged.
Return ==
  /\ main = "flushing"
  /\ theFaults = << >>
  /\ main' = "returned"
  /\ activeHandler' = NoHandler
  /\ batch' = batch + 1
  /\ settled' = {}
  /\ UNCHANGED <<run, poolVars, lineVars, latchVars, fate, bus, faultVars>>

(***************************************************************************)
(* The task of line p, on a pool thread or on the trampoline.              *)
(***************************************************************************)

\* Mutant: a new thread per line.
MutTakeAtOnce(p) ==
  /\ p = taken + 1
  /\ p <= subscribed
  /\ taken' = p
  /\ stage' = [stage EXCEPT ![p] = "active"]
  /\ UNCHANGED <<mainVars, subscribed, ctx, pos, buf, failed, latchVars, sentVars, faultVars>>

\* The work queue is first in, first out; a pool has PoolSize threads, the
\* trampoline runs one task at a time and only after the subscriptions.
Take(p) ==
  /\ p = taken + 1
  /\ p <= subscribed
  /\ IF Concurrency[run] THEN Cardinality(Busy) < PoolSize
                         ELSE main = "trampoline" /\ Busy = {}
  /\ taken' = p
  /\ stage' = [stage EXCEPT ![p] = "active"]
  /\ UNCHANGED <<mainVars, subscribed, ctx, pos, buf, failed, latchVars, sentVars, faultVars>>

\* Mutant: the buffer is delivered one item late.
MutMustDeliverLate(p) ==
  \/ Len(buf[p]) = BatchSize + 1
  \/ pos[p] = NumEvents /\ buf[p] # << >>

\* The sink has something to deliver: a full buffer, or the last one.
MustDeliver(p) ==
  \/ Len(buf[p]) = BatchSize
  \/ pos[p] = NumEvents /\ buf[p] # << >>

\* The line is about to pull item pos + 1 and the outcome o is possible.
Consumes(p, o) ==
  /\ o \in Outcomes
  /\ stage[p] = "active"
  /\ pos[p] < NumEvents
  /\ ~MustDeliver(p)

Item(p) == pos[p] + 1

\* try_filter drops the item.
Filter(p) ==
  /\ Consumes(p, "filter")
  /\ pos' = [pos EXCEPT ![p] = Item(p)]
  /\ fate' = [fate EXCEPT ![p][Item(p)] = "filtered"]
  /\ settled' = settled \cup {<<p, Item(p)>>}
  /\ UNCHANGED <<mainVars, poolVars, stage, buf, failed, latchVars, bus, faultVars>>

\* Mutant: the buffer is a stack.
MutForwardToFront(p) ==
  /\ Consumes(p, "forward")
  /\ pos' = [pos EXCEPT ![p] = Item(p)]
  /\ buf' = [buf EXCEPT ![p] = <<Item(p)>> \o @]
  /\ UNCHANGED <<mainVars, poolVars, stage, failed, latchVars, sentVars, faultVars>>

\* The operators succeed and the item enters the sink's buffer.
Forward(p) ==
  /\ Consumes(p, "forward")
  /\ pos' = [pos EXCEPT ![p] = Item(p)]
  /\ buf' = [buf EXCEPT ![p] = Append(@, Item(p))]
  /\ UNCHANGED <<mainVars, poolVars, stage, failed, latchVars, sentVars, faultVars>>

\* faults(err) calls the handler in the line's context ...
HandlerCalls(p) ==
  IF ctx[p] = NoHandler THEN {}
  ELSE {[run |-> ctx[p], pipeline |-> p, event |-> Item(p)]}

\* Mutant: the newest fault is put first.
MutRecordFaultFirst(p) ==
  /\ Consumes(p, "fault")
  /\ pos' = [pos EXCEPT ![p] = Item(p)]
  /\ handled' = handled \cup HandlerCalls(p)
  /\ theFaults' = <<[run |-> run, pipeline |-> p, event |-> Item(p)]>> \o theFaults
  /\ fate' = [fate EXCEPT ![p][Item(p)] = "faulted"]
  /\ UNCHANGED <<mainVars, poolVars, stage, buf, failed, latchVars, bus, settled, faultBus, dropped>>

\* ... and records the fault; try_map drops the item and the line goes on.
RecordFault(p) ==
  /\ Consumes(p, "fault")
  /\ pos' = [pos EXCEPT ![p] = Item(p)]
  /\ handled' = handled \cup HandlerCalls(p)
  /\ theFaults' = Append(theFaults, [run |-> run, pipeline |-> p, event |-> Item(p)])
  /\ fate' = [fate EXCEPT ![p][Item(p)] = "faulted"]
  /\ UNCHANGED <<mainVars, poolVars, stage, buf, failed, latchVars, bus, settled, faultBus, dropped>>

\* An exception raised through on_next stops every observer of the line: neither
\* on_error nor on_completed reaches the subscriber.
Die(p) == stage' = [stage EXCEPT ![p] = "dead"]

Stray(p) ==
  /\ Consumes(p, "stray")
  /\ Die(p)
  /\ UNCHANGED <<mainVars, poolVars, pos, buf, failed, latchVars, sentVars, faultVars>>

\* The on_fault handler itself raises: the fault is not recorded.
HandlerRaises(p) ==
  /\ "on_fault" \in Raising
  /\ Consumes(p, "fault")
  /\ ctx[p] # NoHandler
  /\ handled' = handled \cup HandlerCalls(p)
  /\ Die(p)
  /\ UNCHANGED <<mainVars, poolVars, pos, buf, failed, latchVars, sentVars, theFaults, faultBus, dropped>>

\* on_error reaches the subscriber: the buffer is discarded with the rest of the
\* line.  The user's on_error runs before mark_completed and may raise.
EndWithError(p) ==
  /\ buf' = [buf EXCEPT ![p] = << >>]
  /\ failed' = failed \cup {p}
  /\ \/ stage' = [stage EXCEPT ![p] = "ended"]
     \/ "on_error" \in Raising /\ Die(p)

MapError(p) ==
  /\ Consumes(p, "error")
  /\ EndWithError(p)
  /\ UNCHANGED <<mainVars, poolVars, pos, latchVars, sentVars, faultVars>>

\* An exception out of from_list's on_completed leaves the task.  The pool's
\* future swallows it; the trampoline drops its other tasks and run raises.
Escape(p) ==
  /\ Die(p)
  /\ IF Concurrency[run] THEN UNCHANGED <<main, activeHandler>>
                         ELSE main' = "raised" /\ activeHandler' = NoHandler

\* The sink delivers its buffer in one call and hands the items on to on_next.
Deliver(p) ==
  /\ stage[p] = "active"
  /\ MustDeliver(p)
  /\ bus' = [bus EXCEPT ![p] = @ \o buf[p]]
  /\ fate' = [fate EXCEPT ![p] = [e \in Events |->
                 IF \E i \in DOMAIN buf[p] : buf[p][i] = e THEN "delivered" ELSE @[e]]]
  /\ settled' = settled \cup {<<p, buf[p][i]>> : i \in DOMAIN buf[p]}
  /\ buf' = [buf EXCEPT ![p] = << >>]
  /\ \/ UNCHANGED <<stage, main, activeHandler>>
     \/ /\ "on_next" \in Raising
        /\ IF Len(buf[p]) = BatchSize THEN Die(p) /\ UNCHANGED <<main, activeHandler>>
                                      ELSE Escape(p)
  /\ UNCHANGED <<run, batch, poolVars, pos, failed, latchVars, faultVars>>

\* The delivery raises.  The publisher's try_map re-raises it (the exception
\* carries no uow); SendToSQS's ops.map turns it into on_error, which may itself
\* raise -- out of on_completed, if it is the remainder that was to be delivered.
DeliverFails(p) ==
  /\ stage[p] = "active"
  /\ MustDeliver(p)
  /\ \/ /\ SinkFailure[p] = "stray"
        /\ IF Len(buf[p]) = BatchSize THEN Die(p) /\ UNCHANGED <<main, activeHandler>>
                                      ELSE Escape(p)
        /\ UNCHANGED <<buf, failed>>
     \/ /\ SinkFailure[p] = "error"
        /\ EndWithError(p)
        /\ IF Len(buf[p]) # BatchSize /\ stage'[p] = "dead" THEN Escape(p)
                                                        ELSE UNCHANGED <<main, activeHandler>>
  /\ UNCHANGED <<run, batch, poolVars, pos, latchVars, sentVars, faultVars>>

\* Mutant: the remainder of the buffer is forgotten on completion.
MutCompleteWithoutRemainder(p) ==
  /\ stage[p] = "active"
  /\ pos[p] = NumEvents
  /\ stage' = [stage EXCEPT ![p] = "ended"]
  /\ UNCHANGED <<mainVars, poolVars, pos, buf, failed, latchVars, sentVars, faultVars>>

\* from_list is exhausted: on_completed, whose user callback may raise.
Complete(p) ==
  /\ stage[p] = "active"
  /\ pos[p] = NumEvents
  /\ buf[p] = << >>
  /\ \/ stage' = [stage EXCEPT ![p] = "ended"] /\ UNCHANGED <<main, activeHandler>>
     \/ "on_completed" \in Raising /\ Escape(p)
  /\ UNCHANGED <<run, batch, poolVars, pos, buf, failed, latchVars, sentVars, faultVars>>

\* Mutant: mark_completed without completed_lock.
MutMarkLoadUnlocked(p) ==
  /\ stage[p] = "ended"
  /\ lock' = p
  /\ seen' = [seen EXCEPT ![p] = pending]
  /\ stage' = [stage EXCEPT ![p] = "loaded"]
  /\ UNCHANGED <<mainVars, poolVars, pos, buf, failed, pending, completed, sentVars, faultVars>>

\* mark_completed: `with completed_lock: pending -= 1` (a load and a store), then
\* completed.set() by the line that brings it to zero.
MarkLoad(p) ==
  /\ stage[p] = "ended"
  /\ lock = Free
  /\ lock' = p
  /\ seen' = [seen EXCEPT ![p] = pending]
  /\ stage' = [stage EXCEPT ![p] = "loaded"]
  /\ UNCHANGED <<mainVars, poolVars, pos, buf, failed, pending, completed, sentVars, faultVars>>

MarkStore(p) ==
  /\ stage[p] = "loaded"
  /\ pending' = seen[p] - 1
  /\ completed' = (completed \/ seen[p] = 1)
  /\ stage' = [stage EXCEPT ![p] = "stored"]
  /\ UNCHANGED <<mainVars, poolVars, pos, buf, failed, lock, seen, sentVars, faultVars>>

\* The lock is released and the task's thread is done.
MarkUnlock(p) ==
  /\ stage[p] = "stored"
  /\ lock' = Free
  /\ stage' = [stage EXCEPT ![p] = "marked"]
  /\ UNCHANGED <<mainVars, poolVars, pos, buf, failed, pending, completed, seen, sentVars, faultVars>>
-----------------------------------------------------------------------------
\* The platform kills the container: a cold start loses the process's memory.
Kill ==
  /\ Kills
  /\ main # "idle"
  /\ main' = "idle"
  /\ activeHandler' = NoHandler
  /\ RenewLines
  /\ pending' = 0 /\ completed' = FALSE
  /\ theFaults' = << >>
  /\ UNCHANGED <<run, batch, faultBus, dropped, settled>>

\* The bound on invocations is reached between two runs.
Finished == main \in Resting /\ run = MaxRuns /\ UNCHANGED vars

Main == \/ Subscribe \/ SubscribedAll \/ TrampolineEmpty \/ Wake \/ Shutdown
        \/ FlushBatch \/ FlushRaises \/ Return

Line(p) == \/ Take(p) \/ Filter(p) \/ Forward(p) \/ RecordFault(p) \/ Stray(p)
           \/ HandlerRaises(p) \/ MapError(p) \/ Deliver(p) \/ DeliverFails(p)
           \/ Complete(p) \/ MarkLoad(p) \/ MarkStore(p) \/ MarkUnlock(p)

Next == Invoke \/ Main \/ (\E p \in Pipelines : Line(p)) \/ Kill \/ Finished

Spec == Init /\ [][Next]_vars

\* The scheduler runs every thread that can run, and every call ends; nothing is
\* assumed of the platform (Invoke, Kill).
FairSpec == Spec /\ WF_vars(Main) /\ \A p \in Pipelines : WF_vars(Line(p))
=============================================================================
