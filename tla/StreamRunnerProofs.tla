-------------------------- MODULE StreamRunnerProofs --------------------------
(***************************************************************************)
(* Theorems about StreamRunner for every number of pipelines, items and    *)
(* threads, every buffer size and every combination of failures.           *)
(***************************************************************************)
EXTENDS StreamRunnerProps, SequenceTheorems, FiniteSetTheorems, TLAPS

(***************************************************************************)
(* Type correctness.                                                       *)
(***************************************************************************)

\* FlushSize takes no more faults than there are.
LEMMA FlushSizeBounds ==
  ASSUME TypeOK
  PROVE  FlushSize \in 0..Len(theFaults)
<1>1. Len(theFaults) \in Nat
  BY LenProperties DEF TypeOK, FaultSeq
<1>2. QED BY <1>1, ConstantsAssumption DEF FlushSize

\* What a flush pops, and what it leaves, are sequences of faults.
LEMMA FlushSplits ==
  ASSUME TypeOK
  PROVE  /\ NextFaults \in FaultSeq
         /\ SubSeq(theFaults, FlushSize + 1, Len(theFaults)) \in FaultSeq
<1>1. theFaults \in Seq(FaultRecord)
  BY DEF TypeOK, FaultSeq
<1>2. /\ Len(theFaults) \in Nat
      /\ theFaults \in [1..Len(theFaults) -> FaultRecord]
  BY <1>1, LenProperties
<1>3. FlushSize \in 0..Len(theFaults)
  BY FlushSizeBounds
<1>4. \A i \in 1..FlushSize : theFaults[i] \in FaultRecord
  BY <1>2, <1>3
<1>5. \A i \in (FlushSize + 1)..Len(theFaults) : theFaults[i] \in FaultRecord
  BY <1>2, <1>3
<1>6. SubSeq(theFaults, 1, FlushSize) \in Seq(FaultRecord)
  BY <1>2, <1>3, <1>4, SubSeqProperties
<1>7. SubSeq(theFaults, FlushSize + 1, Len(theFaults)) \in Seq(FaultRecord)
  BY <1>2, <1>3, <1>5, SubSeqProperties
<1>8. QED BY <1>6, <1>7 DEF FaultSeq, NextFaults

\* The item a line is about to consume is an event of the batch.
LEMMA ItemIsEvent ==
  ASSUME TypeOK, NEW p \in Pipelines, NEW o, Consumes(p, o)
  PROVE  /\ Item(p) \in Events
         /\ Item(p) \in 0..NumEvents
         /\ stage[p] = "active"
         /\ Len(buf[p]) < BatchSize
<1>1. pos[p] \in 0..NumEvents /\ pos[p] < NumEvents
  BY DEF TypeOK, Consumes
<1>2. Len(buf[p]) \in Nat /\ Len(buf[p]) <= BatchSize /\ Len(buf[p]) # BatchSize
  BY LenProperties DEF TypeOK, Consumes, MustDeliver
<1>3. QED BY <1>1, <1>2, ConstantsAssumption DEF Item, Events, Consumes

\* New lines have the types of TypeOK.
LEMMA FreshTypes ==
  ASSUME RenewLines
  PROVE  /\ subscribed' \in 0..NumPipelines /\ taken' \in 0..NumPipelines
         /\ ctx' \in [Pipelines -> Nat] /\ stage' \in [Pipelines -> Stages]
         /\ pos' \in [Pipelines -> 0..NumEvents]
         /\ buf' \in [Pipelines -> Seq(Events)]
         /\ \A p \in Pipelines : Len(buf'[p]) <= BatchSize
         /\ failed' \subseteq Pipelines
         /\ lock' \in {Free} \cup Pipelines /\ seen' \in [Pipelines -> Int]
         /\ handled' \subseteq FaultRecord
         /\ fate' \in [Pipelines -> [Events -> {"none", "filtered", "faulted", "delivered"}]]
         /\ bus' \in [Pipelines -> Seq(Events)]
<1> USE ConstantsAssumption DEF RenewLines, PerLine
<1>1. /\ subscribed' \in 0..NumPipelines /\ taken' \in 0..NumPipelines
      /\ ctx' \in [Pipelines -> Nat] /\ stage' \in [Pipelines -> Stages]
      /\ pos' \in [Pipelines -> 0..NumEvents] /\ seen' \in [Pipelines -> Int]
  BY DEF NoHandler, Stages
<1>2. << >> \in Seq(Events) /\ Len(<< >>) = 0
  BY EmptySeq
<1>3. /\ buf' \in [Pipelines -> Seq(Events)] /\ bus' \in [Pipelines -> Seq(Events)]
      /\ \A p \in Pipelines : Len(buf'[p]) <= BatchSize
  BY <1>2
<1>4. fate' \in [Pipelines -> [Events -> {"none", "filtered", "faulted", "delivered"}]]
  BY DEF NoFate
<1>5. QED BY <1>1, <1>3, <1>4

\* The steps of the invoking thread and of the platform keep the types.
LEMMA TypeMain ==
  ASSUME TypeOK, Invoke \/ Main \/ Kill \/ Finished
  PROVE  TypeOK'
<1> USE ConstantsAssumption
<1>1. CASE Invoke
  <2>1. RenewLines
    BY <1>1 DEF Invoke
  <2>2. /\ main' \in Phases /\ run' \in Nat /\ activeHandler' \in Nat
        /\ pending' \in Int /\ completed' \in BOOLEAN
    BY <1>1 DEF Invoke, TypeOK, Phases, NoHandler
  <2>3. QED BY <1>1, <2>1, <2>2, FreshTypes DEF Invoke, TypeOK
<1>2. CASE Subscribe
  <2>1. subscribed' \in 0..NumPipelines
    BY <1>2 DEF Subscribe, TypeOK
  <2>2. ctx' \in [Pipelines -> Nat]
    BY <1>2 DEF Subscribe, TypeOK, mainVars
  <2>3. QED BY <1>2, <2>1, <2>2 DEF Subscribe, TypeOK, mainVars, lineVars, latchVars,
                                    sentVars, faultVars
<1>3. CASE SubscribedAll \/ TrampolineEmpty \/ Wake \/ Shutdown
  BY <1>3 DEF SubscribedAll, TrampolineEmpty, Wake, Shutdown, TypeOK, Phases, poolVars,
              lineVars, latchVars, sentVars, faultVars
<1>4. CASE FlushBatch
  <2>1. NextFaults \in FaultSeq /\ theFaults' \in FaultSeq
    BY <1>4, FlushSplits DEF FlushBatch
  <2>2. faultBus' \in FaultSeq
    BY <1>4, <2>1, ConcatProperties DEF FlushBatch, TypeOK, FaultSeq
  <2>3. \A i \in DOMAIN NextFaults : NextFaults[i] \in FaultRecord
    BY <2>1, ElementOfSeq, LenProperties DEF FaultSeq
  <2>4. Reported(NextFaults) \subseteq Pipelines \X Events
    BY <2>3 DEF Reported, FaultRecord
  <2>5. settled' \subseteq Pipelines \X Events
    BY <1>4, <2>4 DEF FlushBatch, TypeOK
  <2>6. QED BY <1>4, <2>1, <2>2, <2>5 DEF FlushBatch, TypeOK, mainVars, poolVars, lineVars,
                                          latchVars
<1>5. CASE FlushRaises
  <2>1. NextFaults \in FaultSeq /\ theFaults' \in FaultSeq
    BY <1>5, FlushSplits DEF FlushRaises
  <2>2. dropped' \in FaultSeq
    BY <1>5, <2>1, ConcatProperties DEF FlushRaises, TypeOK, FaultSeq
  <2>3. QED BY <1>5, <2>1, <2>2 DEF FlushRaises, TypeOK, Phases, Resting, NoHandler, poolVars,
                                    lineVars, latchVars, sentVars
<1>6. CASE Return
  BY <1>6 DEF Return, TypeOK, Phases, Resting, NoHandler, poolVars, lineVars, latchVars,
              faultVars
<1>7. CASE Kill
  <2>1. RenewLines
    BY <1>7 DEF Kill
  <2>2. main' \in Phases /\ activeHandler' \in Nat /\ pending' \in Int
    BY <1>7 DEF Kill, Phases, Resting, NoHandler
  <2>c. completed' \in BOOLEAN
    BY <1>7 DEF Kill
  <2>3. theFaults' \in FaultSeq
    BY <1>7, EmptySeq DEF Kill, FaultSeq
  <2>4. QED BY <1>7, <2>1, <2>2, <2>c, <2>3, FreshTypes DEF Kill, TypeOK
<1>8. CASE Finished
  BY <1>8 DEF Finished, vars, mainVars, poolVars, lineVars, latchVars, sentVars, faultVars,
              TypeOK
<1>9. QED BY <1>1, <1>2, <1>3, <1>4, <1>5, <1>6, <1>7, <1>8 DEF Main

\* The steps of a line keep the types.
LEMMA TypeLine ==
  ASSUME TypeOK, NEW p \in Pipelines, Line(p)
  PROVE  TypeOK'
<1> USE ConstantsAssumption
<1> DEFINE S == Seq(Events)
<1>b. buf[p] \in S /\ Len(buf[p]) \in Nat /\ Len(buf[p]) <= BatchSize
  BY LenProperties DEF TypeOK
<1>e. << >> \in S /\ Len(<< >>) = 0
  BY EmptySeq
<1>h. ASSUME NEW o, Consumes(p, o)
      PROVE  HandlerCalls(p) \subseteq FaultRecord
  <2>1. Item(p) \in Events /\ ctx[p] \in Nat
    BY <1>h, ItemIsEvent DEF TypeOK
  <2>2. [run |-> ctx[p], pipeline |-> p, event |-> Item(p)] \in FaultRecord
    BY <2>1 DEF FaultRecord
  <2>3. QED BY <2>2 DEF HandlerCalls
<1>d. ASSUME Die(p)
      PROVE  stage' \in [Pipelines -> Stages]
  BY <1>d DEF Die, TypeOK, Stages
<1>x. ASSUME Escape(p)
      PROVE  stage' \in [Pipelines -> Stages] /\ main' \in Phases /\ activeHandler' \in Nat
  BY <1>x, <1>d DEF Escape, TypeOK, Phases, Resting, NoHandler
<1>r. ASSUME EndWithError(p)
      PROVE  /\ buf' \in [Pipelines -> S] /\ \A q \in Pipelines : Len(buf'[q]) <= BatchSize
             /\ failed' \subseteq Pipelines /\ stage' \in [Pipelines -> Stages]
  <2>1. /\ buf' = [buf EXCEPT ![p] = << >>]
        /\ failed' = failed \cup {p}
    BY <1>r DEF EndWithError
  <2>2. stage' \in [Pipelines -> Stages]
    BY <1>r, <1>d DEF EndWithError, TypeOK, Stages
  <2>3. buf' \in [Pipelines -> S]
    BY <2>1, <1>e DEF TypeOK
  <2>4. \A q \in Pipelines : buf'[q] = buf[q] \/ buf'[q] = << >>
    BY <2>1 DEF TypeOK
  <2>5. QED BY <2>1, <2>2, <2>3, <2>4, <1>e, ConstantsAssumption DEF TypeOK
<1>1. CASE Take(p)
  <2>1. taken' \in 0..NumPipelines /\ stage' \in [Pipelines -> Stages]
    BY <1>1 DEF Take, TypeOK, Stages, Pipelines
  <2>2. QED BY <1>1, <2>1 DEF Take, TypeOK, mainVars, latchVars, sentVars, faultVars
<1>2. CASE Filter(p)
  <2>1. Item(p) \in Events /\ Item(p) \in 0..NumEvents
    BY <1>2, ItemIsEvent DEF Filter
  <2>2. /\ pos' \in [Pipelines -> 0..NumEvents]
        /\ settled' \subseteq Pipelines \X Events
    BY <1>2, <2>1 DEF Filter, TypeOK
  <2>3. fate' \in [Pipelines -> [Events -> {"none", "filtered", "faulted", "delivered"}]]
    BY <1>2, <2>1 DEF Filter, TypeOK
  <2>4. QED BY <1>2, <2>2, <2>3 DEF Filter, TypeOK, mainVars, poolVars, latchVars, faultVars
<1>3. CASE Forward(p)
  <2>1. Item(p) \in Events /\ Item(p) \in 0..NumEvents /\ Len(buf[p]) < BatchSize
    BY <1>3, ItemIsEvent DEF Forward
  <2>2. Append(buf[p], Item(p)) \in S /\ Len(Append(buf[p], Item(p))) <= BatchSize
    BY <2>1, <1>b, AppendProperties
  <2>3. pos' \in [Pipelines -> 0..NumEvents]
    BY <1>3, <2>1 DEF Forward, TypeOK
  <2>4. buf' = [buf EXCEPT ![p] = Append(buf[p], Item(p))]
    BY <1>3 DEF Forward
  <2>5. buf' \in [Pipelines -> S] /\ \A q \in Pipelines : Len(buf'[q]) <= BatchSize
    BY <2>2, <2>4 DEF TypeOK
  <2>6. QED BY <1>3, <2>3, <2>5 DEF Forward, TypeOK, mainVars, poolVars, latchVars, sentVars,
                                    faultVars
<1>4. CASE RecordFault(p)
  <2>1. Item(p) \in Events /\ Item(p) \in 0..NumEvents
    BY <1>4, ItemIsEvent DEF RecordFault
  <2>2. pos' \in [Pipelines -> 0..NumEvents]
    BY <1>4, <2>1 DEF RecordFault, TypeOK
  <2>3. handled' \subseteq FaultRecord
    BY <1>4, <1>h DEF RecordFault, TypeOK
  <2>4. theFaults' \in FaultSeq
    <3>1. [run |-> run, pipeline |-> p, event |-> Item(p)] \in FaultRecord
      BY <2>1 DEF TypeOK, FaultRecord
    <3>2. QED BY <1>4, <3>1, AppendProperties DEF RecordFault, TypeOK, FaultSeq
  <2>5. fate' \in [Pipelines -> [Events -> {"none", "filtered", "faulted", "delivered"}]]
    BY <1>4, <2>1 DEF RecordFault, TypeOK
  <2>6. QED BY <1>4, <2>2, <2>3, <2>4, <2>5 DEF RecordFault, TypeOK, mainVars, poolVars,
                                                latchVars
<1>5. CASE Stray(p)
  BY <1>5, <1>d DEF Stray, TypeOK, mainVars, poolVars, latchVars, sentVars, faultVars
<1>6. CASE HandlerRaises(p)
  <2>1. handled' \subseteq FaultRecord
    BY <1>6, <1>h DEF HandlerRaises, TypeOK
  <2>2. QED BY <1>6, <2>1, <1>d DEF HandlerRaises, TypeOK, mainVars, poolVars, latchVars,
                                    sentVars
<1>7. CASE MapError(p)
  BY <1>7, <1>r DEF MapError, TypeOK, mainVars, poolVars, latchVars, sentVars, faultVars
<1>8. CASE Deliver(p)
  <2>1. bus' \in [Pipelines -> S]
    BY <1>8, <1>b, ConcatProperties DEF Deliver, TypeOK
  <2>2. fate' \in [Pipelines -> [Events -> {"none", "filtered", "faulted", "delivered"}]]
    BY <1>8 DEF Deliver, TypeOK
  <2>3. settled' \subseteq Pipelines \X Events
    <3>1. \A i \in DOMAIN buf[p] : buf[p][i] \in Events
      BY <1>b, ElementOfSeq, LenProperties
    <3>2. QED BY <1>8, <3>1 DEF Deliver, TypeOK
  <2>4. buf' \in [Pipelines -> S] /\ \A q \in Pipelines : Len(buf'[q]) <= BatchSize
    BY <1>8, <1>e DEF Deliver, TypeOK
  <2>5. stage' \in [Pipelines -> Stages] /\ main' \in Phases /\ activeHandler' \in Nat
    BY <1>8, <1>d, <1>x DEF Deliver, TypeOK
  <2>6. QED BY <1>8, <2>1, <2>2, <2>3, <2>4, <2>5 DEF Deliver, TypeOK, poolVars, latchVars,
                                                      faultVars
<1>9. CASE DeliverFails(p)
  <2>1. stage' \in [Pipelines -> Stages] /\ main' \in Phases /\ activeHandler' \in Nat
    BY <1>9, <1>d, <1>x, <1>r DEF DeliverFails, TypeOK
  <2>2. /\ buf' \in [Pipelines -> S] /\ \A q \in Pipelines : Len(buf'[q]) <= BatchSize
        /\ failed' \subseteq Pipelines
    BY <1>9, <1>r DEF DeliverFails, TypeOK
  <2>3. QED BY <1>9, <2>1, <2>2 DEF DeliverFails, TypeOK, poolVars, latchVars, sentVars,
                                    faultVars
<1>10. CASE Complete(p)
  <2>1. stage' \in [Pipelines -> Stages] /\ main' \in Phases /\ activeHandler' \in Nat
    BY <1>10, <1>x DEF Complete, TypeOK, Stages
  <2>2. QED BY <1>10, <2>1 DEF Complete, TypeOK, poolVars, latchVars, sentVars, faultVars
<1>11. CASE MarkLoad(p)
  BY <1>11 DEF MarkLoad, TypeOK, Stages, mainVars, poolVars, sentVars, faultVars
<1>12. CASE MarkStore(p)
  <2>1. /\ pending' \in Int /\ completed' \in BOOLEAN
        /\ stage' \in [Pipelines -> Stages]
    BY <1>12 DEF MarkStore, TypeOK, Stages
  <2>2. QED BY <1>12, <2>1 DEF MarkStore, TypeOK, mainVars, poolVars, sentVars, faultVars
<1>13. CASE MarkUnlock(p)
  BY <1>13 DEF MarkUnlock, TypeOK, Stages, mainVars, poolVars, sentVars, faultVars
<1>14. QED BY <1>1, <1>2, <1>3, <1>4, <1>5, <1>6, <1>7, <1>8, <1>9, <1>10, <1>11, <1>12, <1>13
           DEF Line

\* Every behaviour of a warm container is well typed, and no sink's buffer ever
\* holds more than a batch.
THEOREM TypeCorrect == Spec => []TypeOK
<1>1. Init => TypeOK
  <2> SUFFICES ASSUME Init PROVE TypeOK
    OBVIOUS
  <2>1. /\ << >> \in Seq(Events) /\ Len(<< >>) = 0
        /\ theFaults \in FaultSeq /\ faultBus \in FaultSeq /\ dropped \in FaultSeq
    BY EmptySeq DEF Init, FaultSeq
  <2>2. /\ buf \in [Pipelines -> Seq(Events)] /\ bus \in [Pipelines -> Seq(Events)]
        /\ \A p \in Pipelines : Len(buf[p]) <= BatchSize
    BY <2>1, ConstantsAssumption DEF Init, FreshLines, PerLine
  <2>3. fate \in [Pipelines -> [Events -> {"none", "filtered", "faulted", "delivered"}]]
    BY DEF Init, FreshLines, PerLine, NoFate
  <2>4. /\ subscribed \in 0..NumPipelines /\ taken \in 0..NumPipelines
        /\ ctx \in [Pipelines -> Nat] /\ stage \in [Pipelines -> Stages]
        /\ pos \in [Pipelines -> 0..NumEvents] /\ seen \in [Pipelines -> Int]
    BY ConstantsAssumption DEF Init, FreshLines, PerLine, NoHandler, Stages
  <2>5. main \in Phases
    BY DEF Init, Phases, Resting
  <2>6. /\ failed \subseteq Pipelines /\ handled \subseteq FaultRecord
        /\ settled \subseteq Pipelines \X Events /\ completed \in BOOLEAN
    BY DEF Init, FreshLines
  <2>7. /\ run \in Nat /\ batch \in Nat /\ activeHandler \in Nat /\ pending \in Int
        /\ lock \in {Free} \cup Pipelines
    BY DEF Init, FreshLines, NoHandler
  <2>8. QED BY <2>1, <2>2, <2>3, <2>4, <2>5, <2>6, <2>7 DEF TypeOK
<1>2. TypeOK /\ [Next]_vars => TypeOK'
  <2>1. ASSUME TypeOK, UNCHANGED vars PROVE TypeOK'
    BY <2>1 DEF TypeOK, vars, mainVars, poolVars, lineVars, latchVars, sentVars, faultVars
  <2>2. QED BY <2>1, TypeMain, TypeLine DEF Next
<1>3. QED BY <1>1, <1>2, PTL DEF Spec
-----------------------------------------------------------------------------
(***************************************************************************)
(* The latch.  The two facts of interest, LatchCountsOpenLines and         *)
(* FlushAfterLastLine, become inductive with what completed_lock           *)
(* guarantees (one line at a time is inside mark_completed, and the value  *)
(* it loaded is still current when it stores) and with the shape of the    *)
(* work queue (a line that was not taken has not run; none runs between a  *)
(* cold start and the first invocation).                                   *)
(***************************************************************************)
LockOwned == \A p \in Pipelines : stage[p] \in {"loaded", "stored"} <=> lock = p
LoadedIsCurrent == \A p \in Pipelines : stage[p] = "loaded" => seen[p] = pending
QueuedAreReady == \A p \in Pipelines : p > taken => stage[p] = "ready"
IdleIsReady == main = "idle" => subscribed = 0 /\ \A p \in Pipelines : stage[p] = "ready"

LatchInv ==
  /\ IdleIsReady
  /\ LockOwned
  /\ LoadedIsCurrent
  /\ QueuedAreReady
  /\ LatchCountsOpenLines
  /\ FlushAfterLastLine

\* The lines can be counted, and every set of them is finite.
LEMMA PipelinesFinite ==
  /\ IsFiniteSet(Pipelines)
  /\ Cardinality(Pipelines) = NumPipelines
  /\ Pipelines = {} <=> NumPipelines = 0
  /\ Free \notin Pipelines
<1>1. NumPipelines \in Nat
  BY ConstantsAssumption
<1>2. IsFiniteSet(Pipelines) /\ Cardinality(Pipelines) = NumPipelines
  BY <1>1, FS_Interval DEF Pipelines
<1>3. Pipelines = {} <=> NumPipelines = 0
  BY <1>1 DEF Pipelines
<1>4. QED BY <1>2, <1>3 DEF Free, Pipelines

\* New lines are all open and none is marking.
LEMMA FreshLatch ==
  ASSUME RenewLines
  PROVE  /\ LockOwned' /\ LoadedIsCurrent' /\ QueuedAreReady' /\ IdleIsReady'
         /\ Open' = Pipelines
<1>1. \A p \in Pipelines : stage'[p] = "ready"
  BY DEF RenewLines, PerLine
<1>2. lock' = Free /\ subscribed' = 0
  BY DEF RenewLines
<1>3. QED BY <1>1, <1>2, PipelinesFinite
          DEF LockOwned, LoadedIsCurrent, QueuedAreReady, IdleIsReady, Open

\* The steps of the invoking thread and of the platform keep the latch invariant.
LEMMA LatchMain ==
  ASSUME TypeOK, LatchInv, Invoke \/ Main \/ Kill \/ Finished
  PROVE  LatchInv'
<1> USE DEF LatchInv
<1>1. CASE Invoke
  <2>1. LockOwned' /\ LoadedIsCurrent' /\ QueuedAreReady' /\ IdleIsReady' /\ Open' = Pipelines
    BY <1>1, FreshLatch DEF Invoke
  <2>2. LatchCountsOpenLines'
    BY <1>1, <2>1, PipelinesFinite DEF Invoke, LatchCountsOpenLines
  <2>3. FlushAfterLastLine'
    BY <1>1 DEF Invoke, FlushAfterLastLine
  <2>4. QED BY <2>1, <2>2, <2>3
<1>2. CASE Kill
  <2>1. LockOwned' /\ LoadedIsCurrent' /\ QueuedAreReady' /\ IdleIsReady'
    BY <1>2, FreshLatch DEF Kill
  <2>2. LatchCountsOpenLines' /\ FlushAfterLastLine'
    BY <1>2 DEF Kill, LatchCountsOpenLines, Armed, FlushAfterLastLine
  <2>3. QED BY <2>1, <2>2
<1>3. ASSUME UNCHANGED <<stage, lock, seen, pending, taken, completed>>, Armed, Armed'
      PROVE  /\ LockOwned' /\ LoadedIsCurrent' /\ QueuedAreReady' /\ IdleIsReady'
             /\ LatchCountsOpenLines' /\ Open' = Open /\ Busy' = Busy
  BY <1>3 DEF LockOwned, LoadedIsCurrent, QueuedAreReady, IdleIsReady, LatchCountsOpenLines,
              Armed, Open, Busy
<1>4. CASE Subscribe \/ SubscribedAll \/ TrampolineEmpty \/ FlushRaises
  <2>1. /\ UNCHANGED <<stage, lock, seen, pending, taken, completed>> /\ Armed
        /\ main' \in {"subscribing", "waiting", "trampoline", "raised"}
    BY <1>4 DEF Subscribe, SubscribedAll, TrampolineEmpty, FlushRaises, Armed, mainVars,
                poolVars, lineVars, latchVars
  <2>2. FlushAfterLastLine'
    BY <2>1 DEF FlushAfterLastLine
  <2>3. QED BY <2>1, <2>2, <1>3 DEF Armed
<1>5. CASE Wake
  <2>1. /\ UNCHANGED <<stage, lock, seen, pending, taken, completed>> /\ Armed
        /\ main' = "shutdown" /\ Open = {}
    BY <1>5 DEF Wake, Armed, poolVars, lineVars, latchVars, LatchCountsOpenLines
  <2>2. FlushAfterLastLine'
    BY <2>1 DEF FlushAfterLastLine, Open
  <2>3. QED BY <2>1, <2>2, <1>3 DEF Armed
<1>6. CASE Shutdown \/ FlushBatch \/ Return
  <2>1. /\ UNCHANGED <<stage, lock, seen, pending, taken, completed>> /\ Armed
        /\ main \in {"shutdown", "flushing"} /\ main' \in {"flushing", "returned"}
        /\ main = "shutdown" => Busy = {}
    BY <1>6 DEF Shutdown, FlushBatch, Return, Armed, mainVars, poolVars, lineVars, latchVars
  <2>2. Busy = {}
    BY <2>1 DEF FlushAfterLastLine
  <2>3. FlushAfterLastLine'
    BY <2>1, <2>2 DEF FlushAfterLastLine, Busy
  <2>4. QED BY <2>1, <2>3, <1>3 DEF Armed
<1>7. CASE Finished
  BY <1>7 DEF Finished, vars, mainVars, poolVars, lineVars, latchVars, LockOwned,
              LoadedIsCurrent, QueuedAreReady, IdleIsReady, LatchCountsOpenLines,
              FlushAfterLastLine, Open, Busy, Armed
<1>8. QED BY <1>1, <1>2, <1>4, <1>5, <1>6, <1>7 DEF Main

\* No line runs between a cold start and the first invocation.
LEMMA LinesRunWhenArmed ==
  ASSUME TypeOK, LatchInv, NEW p \in Pipelines, Line(p)
  PROVE  Armed
<1>1. SUFFICES ASSUME main = "idle" PROVE FALSE
  BY DEF Armed
<1>2. subscribed = 0 /\ stage[p] = "ready"
  BY <1>1 DEF LatchInv, IdleIsReady
<1>3. ~Take(p)
  BY <1>2 DEF Take, Pipelines
<1>4. QED BY <1>2, <1>3 DEF Line, Filter, Forward, RecordFault, Stray, HandlerRaises, MapError,
             Consumes, Deliver, DeliverFails, Complete, MarkLoad, MarkStore, MarkUnlock

\* When the invoking thread is past the latch, a line can only release the lock.
LEMMA OnlyUnlocksPastLatch ==
  ASSUME TypeOK, LatchInv, main \in {"shutdown", "flushing", "returned"},
         NEW p \in Pipelines, Line(p)
  PROVE  MarkUnlock(p)
<1>1. stage[p] \in {"stored", "marked"}
  BY DEF LatchInv, FlushAfterLastLine
<1>2. ~Take(p)
  BY <1>1 DEF LatchInv, QueuedAreReady, Take, TypeOK, Pipelines
<1>3. QED BY <1>1, <1>2 DEF Line, Filter, Forward, RecordFault, Stray, HandlerRaises, MapError,
             Consumes, Deliver, DeliverFails, Complete, MarkLoad, MarkStore

\* Until it marks its end, a line's step touches nothing of the latch, takes no lock
\* and leaves the line open.
LEMMA UnmarkedStep ==
  ASSUME TypeOK, LatchInv, NEW p \in Pipelines, Line(p),
         ~MarkLoad(p), ~MarkStore(p), ~MarkUnlock(p)
  PROVE  /\ UNCHANGED latchVars
         /\ taken' \in {taken, p} /\ taken' >= taken /\ p <= taken'
         /\ stage[p] \in {"ready", "active"}
         /\ \E s \in {"active", "ended", "dead"} : stage' = [stage EXCEPT ![p] = s]
         /\ main' \in {main, "raised"}
<1>1. CASE Take(p)
  BY <1>1 DEF Take, LatchInv, QueuedAreReady, TypeOK, Pipelines, mainVars
<1>2. CASE ~Take(p)
  <2>1. stage[p] = "active"
    BY <1>2 DEF Line, Filter, Forward, RecordFault, Stray, HandlerRaises, MapError, Consumes,
                Deliver, DeliverFails, Complete
  <2>2. p <= taken
    BY <2>1 DEF LatchInv, QueuedAreReady, TypeOK, Pipelines
  <2>3. stage = [stage EXCEPT ![p] = "active"]
    BY <2>1 DEF TypeOK
  <2>4. CASE Filter(p) \/ Forward(p) \/ RecordFault(p)
    BY <2>4, <2>1, <2>2, <2>3 DEF Filter, Forward, RecordFault, mainVars, poolVars, TypeOK
  <2>5. CASE Stray(p) \/ HandlerRaises(p) \/ MapError(p)
    BY <2>5, <2>1, <2>2 DEF Stray, HandlerRaises, MapError, EndWithError, Die, mainVars,
                            poolVars, TypeOK
  <2>6. CASE Deliver(p)
    BY <2>6, <2>1, <2>2, <2>3 DEF Deliver, Escape, Die, poolVars, TypeOK
  <2>7. CASE DeliverFails(p)
    <3>1. /\ UNCHANGED latchVars /\ UNCHANGED taken
          /\ Die(p) \/ EndWithError(p)
      BY <2>7 DEF DeliverFails, Escape, poolVars
    <3>2. main' \in {main, "raised"}
      BY <2>7 DEF DeliverFails, Escape
    <3>3. \E s \in {"active", "ended", "dead"} : stage' = [stage EXCEPT ![p] = s]
      BY <3>1 DEF EndWithError, Die
    <3>4. taken' \in {taken, p} /\ taken' >= taken /\ p <= taken'
      BY <2>2, <3>1 DEF TypeOK
    <3>5. stage[p] \in {"ready", "active"}
      BY <2>1
    <3>6. QED BY <3>1, <3>2, <3>3, <3>4, <3>5
  <2>8. CASE Complete(p)
    BY <2>8, <2>1, <2>2 DEF Complete, Escape, Die, poolVars, TypeOK
  <2>9. QED BY <1>2, <2>4, <2>5, <2>6, <2>7, <2>8 DEF Line
<1>3. QED BY <1>1, <1>2

\* The steps of a line keep the latch invariant.
LEMMA LatchLine ==
  ASSUME TypeOK, LatchInv, NEW p \in Pipelines, Line(p)
  PROVE  LatchInv'
<1>0. Armed
  BY LinesRunWhenArmed
<1>1. ASSUME ~MarkLoad(p), ~MarkStore(p), ~MarkUnlock(p)
      PROVE  LatchInv'
  <2>1. /\ UNCHANGED latchVars
        /\ taken' \in {taken, p} /\ taken' >= taken /\ p <= taken'
        /\ stage[p] \in {"ready", "active"}
        /\ main' \in {main, "raised"}
    BY <1>1, UnmarkedStep
  <2>2. PICK s \in {"active", "ended", "dead"} : stage' = [stage EXCEPT ![p] = s]
    BY <1>1, UnmarkedStep
  <2>3. main \notin {"shutdown", "flushing", "returned"}
    BY <1>1, OnlyUnlocksPastLatch
  <2>4. LockOwned' /\ LoadedIsCurrent'
    BY <2>1, <2>2 DEF LatchInv, LockOwned, LoadedIsCurrent, latchVars, TypeOK
  <2>5. QueuedAreReady'
    BY <2>1, <2>2 DEF LatchInv, QueuedAreReady, TypeOK, Pipelines
  <2>6. Open' = Open
    BY <2>1, <2>2 DEF Open, TypeOK
  <2>7. IdleIsReady'
    BY <1>0, <2>1 DEF IdleIsReady, Armed
  <2>8. LatchCountsOpenLines' /\ FlushAfterLastLine'
    BY <1>0, <2>1, <2>3, <2>6 DEF LatchInv, LatchCountsOpenLines, FlushAfterLastLine, latchVars
  <2>9. QED BY <2>4, <2>5, <2>7, <2>8 DEF LatchInv
<1>2. CASE MarkLoad(p)
  <2>1. main \notin {"shutdown", "flushing", "returned"}
    BY <1>2, OnlyUnlocksPastLatch DEF MarkLoad, MarkUnlock
  <2>2. stage' = [stage EXCEPT ![p] = "loaded"] /\ stage[p] = "ended" /\ lock = Free /\ lock' = p
    BY <1>2 DEF MarkLoad
  <2>3. LockOwned'
    BY <2>2, PipelinesFinite DEF LatchInv, LockOwned, TypeOK
  <2>4. LoadedIsCurrent'
    BY <1>2, <2>2, PipelinesFinite DEF LatchInv, LockOwned, LoadedIsCurrent, MarkLoad, TypeOK
  <2>5. QueuedAreReady'
    BY <1>2, <2>2 DEF LatchInv, QueuedAreReady, MarkLoad, poolVars, TypeOK
  <2>6. Open' = Open
    BY <2>2 DEF Open, TypeOK
  <2>7. LatchCountsOpenLines' /\ FlushAfterLastLine'
    BY <1>2, <2>1, <2>6 DEF LatchInv, LatchCountsOpenLines, FlushAfterLastLine, Armed, MarkLoad,
                            mainVars
  <2>8. IdleIsReady'
    BY <1>0, <1>2 DEF IdleIsReady, Armed, MarkLoad, mainVars
  <2>9. QED BY <2>3, <2>4, <2>5, <2>7, <2>8 DEF LatchInv
<1>3. CASE MarkStore(p)
  <2>1. main \notin {"shutdown", "flushing", "returned"}
    BY <1>3, OnlyUnlocksPastLatch DEF MarkStore, MarkUnlock
  <2>2. /\ stage' = [stage EXCEPT ![p] = "stored"] /\ stage[p] = "loaded" /\ lock' = lock
        /\ lock = p /\ seen[p] = pending /\ seen' = seen
    BY <1>3 DEF MarkStore, LatchInv, LockOwned, LoadedIsCurrent
  <2>3. LockOwned'
    BY <2>2 DEF LatchInv, LockOwned, TypeOK
  <2>4. LoadedIsCurrent'
    <3>1. \A q \in Pipelines : stage'[q] # "loaded"
      BY <2>2 DEF LatchInv, LockOwned, TypeOK
    <3>2. QED BY <3>1 DEF LoadedIsCurrent
  <2>5. QueuedAreReady'
    BY <1>3, <2>2 DEF LatchInv, QueuedAreReady, MarkStore, poolVars, TypeOK
  <2>6. p \in Open /\ Open' = Open \ {p} /\ IsFiniteSet(Open)
    BY <2>2, PipelinesFinite, FS_Subset DEF Open, TypeOK
  <2>7. /\ Cardinality(Open') = Cardinality(Open) - 1
        /\ Cardinality(Open) \in Nat
        /\ Cardinality(Open') = 0 <=> Open' = {}
    BY <2>6, FS_RemoveElement, FS_EmptySet, FS_CardinalityType
  <2>8. /\ pending = Cardinality(Open) /\ ~completed
    BY <1>0, <2>6 DEF LatchInv, LatchCountsOpenLines
  <2>9. pending' = Cardinality(Open')
    BY <1>3, <2>2, <2>7, <2>8 DEF MarkStore
  <2>10. seen[p] = 1 <=> Open' = {}
    BY <2>2, <2>7, <2>8
  <2>11. completed' <=> Open' = {}
    BY <1>3, <2>8, <2>10 DEF MarkStore
  <2>12. LatchCountsOpenLines' /\ FlushAfterLastLine' /\ IdleIsReady'
    BY <1>0, <1>3, <2>1, <2>9, <2>11
       DEF LatchCountsOpenLines, FlushAfterLastLine, IdleIsReady, Armed, MarkStore, mainVars
  <2>13. QED BY <2>3, <2>4, <2>5, <2>12 DEF LatchInv
<1>4. CASE MarkUnlock(p)
  <2>1. /\ stage' = [stage EXCEPT ![p] = "marked"] /\ stage[p] = "stored" /\ lock' = Free
        /\ lock = p
    BY <1>4 DEF MarkUnlock, LatchInv, LockOwned
  <2>2. LockOwned' /\ LoadedIsCurrent'
    BY <1>4, <2>1, PipelinesFinite DEF LatchInv, LockOwned, LoadedIsCurrent, MarkUnlock, TypeOK
  <2>3. QueuedAreReady'
    BY <1>4, <2>1 DEF LatchInv, QueuedAreReady, MarkUnlock, poolVars, TypeOK
  <2>4. Open' = Open /\ Busy' \subseteq Busy
    BY <2>1 DEF Open, Busy, TypeOK
  <2>5. LatchCountsOpenLines'
    BY <1>4, <2>4 DEF LatchInv, LatchCountsOpenLines, Armed, MarkUnlock, mainVars
  <2>6. FlushAfterLastLine'
    BY <1>4, <2>1, <2>4 DEF LatchInv, FlushAfterLastLine, MarkUnlock, mainVars, TypeOK
  <2>7. IdleIsReady'
    BY <1>0, <1>4 DEF IdleIsReady, Armed, MarkUnlock, mainVars
  <2>8. QED BY <2>2, <2>3, <2>5, <2>6, <2>7 DEF LatchInv
<1>5. QED BY <1>1, <1>2, <1>3, <1>4

\* The latch invariant holds in every reachable state.
LEMMA LatchInvariant == Spec => []LatchInv
<1>1. Init => LatchInv
  <2> SUFFICES ASSUME Init PROVE LatchInv
    OBVIOUS
  <2>1. /\ \A p \in Pipelines : stage[p] = "ready"
        /\ lock = Free /\ main = "idle" /\ subscribed = 0
    BY DEF Init, FreshLines, PerLine
  <2>2. QED BY <2>1, PipelinesFinite DEF LatchInv, LockOwned, LoadedIsCurrent, QueuedAreReady,
               IdleIsReady, LatchCountsOpenLines, Armed, FlushAfterLastLine
<1>2. TypeOK /\ LatchInv /\ [Next]_vars => LatchInv'
  <2>1. ASSUME LatchInv, UNCHANGED vars PROVE LatchInv'
    BY <2>1 DEF vars, mainVars, poolVars, lineVars, latchVars, LatchInv, LockOwned,
                LoadedIsCurrent, QueuedAreReady, IdleIsReady, LatchCountsOpenLines,
                FlushAfterLastLine, Open, Busy, Armed
  <2>2. QED BY <2>1, LatchMain, LatchLine DEF Next
<1>3. QED BY <1>1, <1>2, TypeCorrect, PTL DEF Spec

\* mark_completed: no decrement is ever lost, whatever the interleaving of the pool's
\* threads, so the latch opens exactly when the last line has marked its end.
THEOREM LatchIsExact == Spec => []LatchCountsOpenLines
<1>1. LatchInv => LatchCountsOpenLines
  BY DEF LatchInv
<1>2. QED BY <1>1, LatchInvariant, PTL

\* run passes completed.wait() and executor.shutdown(), flushes and returns only when
\* every line has marked its end and no pool thread is at work.
THEOREM FlushIsLast == Spec => []FlushAfterLastLine
<1>1. LatchInv => FlushAfterLastLine
  BY DEF LatchInv
<1>2. QED BY <1>1, LatchInvariant, PTL
===============================================================================
