-------------------------- MODULE StreamRunnerProps --------------------------
(***************************************************************************)
(* The correctness properties of StreamRunner.                             *)
(***************************************************************************)
EXTENDS StreamRunner, Integers

FaultRecord == [run : Nat, pipeline : Pipelines, event : Events]
FaultSeq == Seq(FaultRecord)

\* Every variable has its type; the buffer never outgrows the sink's batch size.
TypeOK ==
  /\ main \in Phases
  /\ run \in Nat /\ batch \in Nat /\ activeHandler \in Nat
  /\ subscribed \in 0..NumPipelines
  /\ taken \in 0..NumPipelines
  /\ ctx \in [Pipelines -> Nat]
  /\ stage \in [Pipelines -> Stages]
  /\ pos \in [Pipelines -> 0..NumEvents]
  /\ buf \in [Pipelines -> Seq(Events)]
  /\ \A p \in Pipelines : Len(buf[p]) <= BatchSize
  /\ failed \subseteq Pipelines
  /\ pending \in Int
  /\ completed \in BOOLEAN
  /\ lock \in {Free} \cup Pipelines
  /\ seen \in [Pipelines -> Int]
  /\ theFaults \in FaultSeq /\ faultBus \in FaultSeq /\ dropped \in FaultSeq
  /\ handled \subseteq FaultRecord
  /\ fate \in [Pipelines -> [Events -> {"none", "filtered", "faulted", "delivered"}]]
  /\ bus \in [Pipelines -> Seq(Events)]
  /\ settled \subseteq Pipelines \X Events
-----------------------------------------------------------------------------
(***************************************************************************)
(* The latch.                                                              *)
(***************************************************************************)

\* Lines whose end has not been subtracted from `pending`.
Open == {p \in Pipelines : stage[p] \notin {"stored", "marked"}}

Armed == main # "idle"

\* mark_completed never loses a decrement: the latch counts exactly the lines that
\* have not marked their end, and is open only when there are none.
LatchCountsOpenLines ==
  Armed => /\ pending = Cardinality(Open)
           /\ completed <=> Open = {}

\* run neither flushes the faults nor returns while a line is still running, was
\* dropped, or died without telling the latch: completed.wait() and
\* executor.shutdown() are passed only when every line has marked its end.
FlushAfterLastLine ==
  main \in {"shutdown", "flushing", "returned"} =>
    /\ \A p \in Pipelines : stage[p] \in {"stored", "marked"}
    /\ main # "shutdown" => Busy = {}
-----------------------------------------------------------------------------
(***************************************************************************)
(* The lines.                                                              *)
(***************************************************************************)

\* A line delivers the items of the batch in their order and without repetition,
\* and when it delivers one it has already dealt with every earlier one: neither a
\* fault nor the sink's buffer lets an item be overtaken.
DeliveredInOrder ==
  \A p \in Pipelines :
    /\ \A i, j \in DOMAIN bus[p] : i < j => bus[p][i] < bus[p][j]
    /\ \A i \in DOMAIN bus[p] : \A e \in 1..bus[p][i] : fate[p][e] # "none"

\* A line that completes has dealt with its whole batch: a faulty item takes no
\* other item with it, and no remainder of a buffer is forgotten.
CompletedLineSettledItsBatch ==
  \A p \in Pipelines :
    stage[p] \in {"ended", "loaded", "stored", "marked"} /\ p \notin failed =>
      \A e \in Events : fate[p][e] # "none"

\* In a run with concurrency=False the pipelines run one after the other in registration
\* order: one starts only when all earlier ones are over.
SequentialInRegistrationOrder ==
  (main # "idle" /\ ~Concurrency[run]) => \A p, q \in Pipelines :
    p < q /\ stage[q] # "ready" => stage[p] \in {"marked", "dead"}

-----------------------------------------------------------------------------
(***************************************************************************)
(* The faults.                                                             *)
(***************************************************************************)

Occurrences(f, s) == {i \in DOMAIN s : s[i] = f}

\* Every fault of the current run is in exactly one place -- still in the_faults,
\* published, or in a batch that a failing flush lost -- and exactly once; it is
\* published by the time run returns.
FaultsAccountedFor ==
  \A p \in Pipelines, e \in Events :
    LET f == [run |-> run, pipeline |-> p, event |-> e]
        places == Cardinality(Occurrences(f, theFaults))
                  + Cardinality(Occurrences(f, faultBus))
                  + Cardinality(Occurrences(f, dropped))
    IN  /\ fate[p][e] = "faulted" => places = 1
        /\ fate[p][e] # "faulted" /\ main # "idle" => places = 0
        /\ fate[p][e] = "faulted" /\ main = "returned" => Occurrences(f, faultBus) # {}

\* The on_fault handler of this run, and no other run's, has seen every fault of
\* this run, although the lines fail on pool threads.
HandlerSeesEveryFault ==
  /\ OnFault => \A p \in Pipelines, e \in Events :
       fate[p][e] = "faulted" => [run |-> run, pipeline |-> p, event |-> e] \in handled
  /\ \A h \in handled : h.run = run

\* Within a run, and over runs that raise, the faults are published in the order in
\* which each line recorded them: by run, then by item.
FaultsPublishedInOrder ==
  \A i, j \in DOMAIN faultBus :
    i < j /\ faultBus[i].pipeline = faultBus[j].pipeline =>
      \/ faultBus[i].run < faultBus[j].run
      \/ faultBus[i].run = faultBus[j].run /\ faultBus[i].event < faultBus[j].event
-----------------------------------------------------------------------------
(***************************************************************************)
(* What run promises its caller.                                           *)
(***************************************************************************)

\* run implements the contract of a stream handler: over redeliveries and container
\* losses, a batch is acknowledged only when every reaction has been settled.
Contract == INSTANCE BatchContract WITH Reactions <- Pipelines \X Events
KeepsContract == Contract!ContractSpec

\* Every invocation ends: run returns or raises, or the container is killed.  Only a
\* line that died without telling the latch keeps it from ending.
EveryRunEnds ==
  (main \notin Resting) ~> (main \in Resting \/ \E p \in Pipelines : stage[p] = "dead")

\* faults.py: "raise unhandled/unexpected exceptions to stop processing".  When such
\* an exception has stopped a line, the run comes to an end.
UnhandledExceptionStopsProcessing ==
  (\E p \in Pipelines : stage[p] = "dead") ~> (main \in Resting)

\* README: "keeping the rest of the batch moving if one record fails".  When run
\* returns, no line has left more than the records of one failed delivery behind.
RestOfBatchMoves ==
  main = "returned" =>
    \A p \in Pipelines : Cardinality({e \in Events : fate[p][e] = "none"}) <= BatchSize
=============================================================================
