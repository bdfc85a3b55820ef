------------------------- MODULE StreamContractProofs -------------------------
(***************************************************************************)
(* StreamRunner implements BatchContract, for all values of the constants  *)
(* for which no operator sends on_error: whatever faults, re-raised        *)
(* exceptions, raising callbacks, failing flushes, kills and redeliveries  *)
(* do, a batch is acknowledged only when all its reactions are settled.    *)
(***************************************************************************)
EXTENDS StreamRunnerProofs

\* The contract needs this: a line that ends with on_error discards its remaining
\* items and run returns all the same (run sqs of the model checker shows it).
NoErrors == "error" \notin Outcomes /\ \A p \in Pipelines : SinkFailure[p] # "error"

Held(p, e)   == \E i \in DOMAIN buf[p] : buf[p][i] = e
Listed(p, e) == \E i \in DOMAIN theFaults :
                  theFaults[i] = [run |-> run, pipeline |-> p, event |-> e]

\* Every item a line has consumed has a fate or waits in the sink's buffer.
ConsumedIsKnown ==
  \A p \in Pipelines, e \in Events : e <= pos[p] => fate[p][e] # "none" \/ Held(p, e)

\* A line that ended normally has consumed the batch and emptied the buffer.
EndedIsEmpty ==
  \A p \in Pipelines :
    stage[p] \in {"ended", "loaded", "stored", "marked"} =>
      pos[p] = NumEvents /\ buf[p] = << >>

\* Until the run is over, a reaction with a fate is settled or its fault is listed.
FateIsKept ==
  main \notin {"returned", "raised"} =>
    \A p \in Pipelines, e \in Events :
      fate[p][e] # "none" => <<p, e>> \in settled \/ Listed(p, e)

ContractInv == ConsumedIsKnown /\ EndedIsEmpty /\ FateIsKept

LEMMA FreshContract ==
  ASSUME RenewLines
  PROVE  ContractInv'
<1>1. /\ \A p \in Pipelines : pos'[p] = 0 /\ stage'[p] = "ready"
      /\ \A p \in Pipelines, e \in Events : fate'[p][e] = "none"
  BY DEF RenewLines, PerLine, NoFate
<1>2. QED BY <1>1 DEF ContractInv, ConsumedIsKnown, EndedIsEmpty, FateIsKept, Events

\* A fault that a flush takes off the list is among those it publishes.
LEMMA FlushKeepsFaults ==
  ASSUME TypeOK, FlushBatch, NEW p \in Pipelines, NEW e \in Events, Listed(p, e)
  PROVE  <<p, e>> \in settled' \/ Listed(p, e)'
<1> DEFINE n == Len(theFaults)
<1>1. n \in Nat /\ DOMAIN theFaults = 1..n /\ \A i \in 1..n : theFaults[i] \in FaultRecord
  BY LenProperties, ElementOfSeq DEF TypeOK, FaultSeq
<1>2. FlushSize \in 0..n
  BY FlushSizeBounds
<1>3. PICK i \in 1..n : theFaults[i] = [run |-> run, pipeline |-> p, event |-> e]
  BY <1>1 DEF Listed
<1>4. CASE i <= FlushSize
  <2>1. /\ NextFaults \in Seq(FaultRecord) /\ Len(NextFaults) = FlushSize
        /\ NextFaults[i] = theFaults[i]
    BY <1>1, <1>2, <1>4, SubSeqProperties DEF NextFaults
  <2>2. i \in DOMAIN NextFaults
    BY <2>1, <1>2, <1>4, LenProperties
  <2>3. <<p, e>> \in Reported(NextFaults)
    BY <1>3, <2>1, <2>2 DEF Reported
  <2>4. QED BY <2>3 DEF FlushBatch
<1>5. CASE i > FlushSize
  <2> DEFINE rest == SubSeq(theFaults, FlushSize + 1, n)
  <2>a. /\ FlushSize + 1 \in Int /\ n \in Int
        /\ FlushSize + 1 <= n
        /\ n - (FlushSize + 1) + 1 = n - FlushSize
        /\ i - FlushSize \in 1..(n - FlushSize)
        /\ (FlushSize + 1) + (i - FlushSize) - 1 = i
        /\ \A j \in (FlushSize + 1)..n : j \in 1..n
    BY <1>1, <1>2, <1>5
  <2>b. \A j \in (FlushSize + 1)..n : theFaults[j] \in FaultRecord
    BY <2>a, <1>1
  <2>c. /\ rest \in Seq(FaultRecord)
        /\ Len(rest) = IF FlushSize + 1 <= n THEN n - (FlushSize + 1) + 1 ELSE 0
        /\ \A j \in 1..(n - (FlushSize + 1) + 1) :
              rest[j] = theFaults[(FlushSize + 1) + j - 1]
    <3> HIDE DEF n
    <3> QED BY <2>a, <2>b, SubSeqProperties DEF rest
  <2> HIDE DEF rest, n
  <2>1. rest[i - FlushSize] = theFaults[i]
    BY <2>a, <2>c
  <2>2. i - FlushSize \in DOMAIN rest
    <3>1. DOMAIN rest = 1..(n - FlushSize)
      BY <2>a, <2>c, LenProperties
    <3> QED BY <3>1, <2>a
  <2>3. theFaults' = rest /\ run' = run
    BY DEF FlushBatch, mainVars, rest, n
  <2>4. QED BY <1>3, <2>1, <2>2, <2>3 DEF Listed
<1>6. QED BY <1>2, <1>4, <1>5

LEMMA ContractMain ==
  ASSUME TypeOK, ContractInv, Invoke \/ Main \/ Kill \/ Finished
  PROVE  ContractInv'
<1>1. CASE Invoke \/ Kill
  BY <1>1, FreshContract DEF Invoke, Kill
<1>2. CASE ~Invoke /\ ~Kill
  <2>1. UNCHANGED <<pos, stage, buf, fate, run>>
    BY <1>2 DEF Main, Subscribe, SubscribedAll, TrampolineEmpty, Wake, Shutdown, FlushBatch,
                FlushRaises, Return, Finished, vars, mainVars, lineVars, sentVars
  <2>2. ConsumedIsKnown' /\ EndedIsEmpty'
    BY <2>1 DEF ContractInv, ConsumedIsKnown, EndedIsEmpty, Held
  <2>3. CASE main' \in {"returned", "raised"}
    BY <2>2, <2>3 DEF ContractInv, FateIsKept
  <2>4. CASE main' \notin {"returned", "raised"}
    <3>1. main \notin {"returned", "raised"}
      BY <1>2, <2>4 DEF Main, Subscribe, SubscribedAll, TrampolineEmpty, Wake, Shutdown,
                        FlushBatch, FlushRaises, Return, Finished, vars, mainVars
    <3>2. \A p \in Pipelines, e \in Events :
            fate[p][e] # "none" => <<p, e>> \in settled \/ Listed(p, e)
      BY <3>1 DEF ContractInv, FateIsKept
    <3>3. CASE FlushBatch
      <4>1. settled \subseteq settled'
        BY <3>3 DEF FlushBatch
      <4>2. FateIsKept'
        BY <2>1, <3>2, <3>3, <4>1, FlushKeepsFaults DEF FateIsKept
      <4>3. QED BY <2>2, <4>2 DEF ContractInv
    <3>4. CASE ~FlushBatch
      <4>1. UNCHANGED <<settled, theFaults>>
        BY <1>2, <2>4, <3>4 DEF Main, Subscribe, SubscribedAll, TrampolineEmpty, Wake, Shutdown,
              FlushRaises, Return, Finished, vars, mainVars, sentVars, faultVars
      <4>2. FateIsKept'
        BY <2>1, <3>2, <4>1 DEF FateIsKept, Listed
      <4>3. QED BY <2>2, <4>2 DEF ContractInv
    <3>5. QED BY <3>3, <3>4
  <2>5. QED BY <2>3, <2>4
<1>3. QED BY <1>1, <1>2

\* An item behind a line that pulls item pos + 1 is that item or was behind it before.
LEMMA ConsumedBefore ==
  ASSUME TypeOK, NEW p \in Pipelines, pos' = [pos EXCEPT ![p] = pos[p] + 1],
         NEW q \in Pipelines, NEW e \in Events, e <= pos'[q],
         ~(q = p /\ e = Item(p))
  PROVE  e <= pos[q]
<1>1. e \in Nat /\ pos[p] \in Nat
  BY ConstantsAssumption DEF TypeOK, Events
<1>2. pos'[q] = IF q = p THEN pos[p] + 1 ELSE pos[q]
  BY DEF TypeOK
<1>3. QED BY <1>1, <1>2 DEF Item

LEMMA ContractLine ==
  ASSUME NoErrors, TypeOK, LatchInv, ContractInv, NEW p \in Pipelines, Line(p)
  PROVE  ContractInv'
<1> USE DEF ContractInv
<1>t. /\ pos[p] \in 0..NumEvents /\ NumEvents \in Nat
      /\ buf[p] \in Seq(Events) /\ Len(buf[p]) \in Nat /\ DOMAIN buf[p] = 1..Len(buf[p])
  BY ConstantsAssumption, LenProperties DEF TypeOK
<1>r. run' = run /\ main' \in {main, "raised"}
  BY UnmarkedStep DEF Line, Take, Filter, Forward, RecordFault, Stray, HandlerRaises, MapError,
     Deliver, DeliverFails, Complete, MarkLoad, MarkStore, MarkUnlock, mainVars, Escape
\* Steps that consume no item and touch no record of the past.
<1>s. ASSUME UNCHANGED <<pos, buf, fate, settled, theFaults>>,
             NEW s \in Stages, stage' = [stage EXCEPT ![p] = s],
             s \in {"ended", "loaded", "stored", "marked"} =>
               pos[p] = NumEvents /\ buf[p] = << >>
      PROVE  ContractInv'
  <2>1. ConsumedIsKnown'
    BY <1>s DEF ConsumedIsKnown, Held
  <2>2. EndedIsEmpty'
    BY <1>s DEF EndedIsEmpty, TypeOK
  <2>3. FateIsKept'
    BY <1>s, <1>r DEF FateIsKept, Listed
  <2>4. QED BY <2>1, <2>2, <2>3
<1>1. CASE Take(p) \/ Stray(p) \/ HandlerRaises(p)
  <2>1. /\ UNCHANGED <<pos, buf, fate, settled, theFaults>>
        /\ stage' = [stage EXCEPT ![p] = "active"] \/ stage' = [stage EXCEPT ![p] = "dead"]
    BY <1>1 DEF Take, Stray, HandlerRaises, Die, sentVars, faultVars
  <2>2. QED BY <2>1, <1>s DEF Stages
<1>2. CASE MarkLoad(p) \/ MarkStore(p) \/ MarkUnlock(p)
  <2>1. /\ UNCHANGED <<pos, buf, fate, settled, theFaults>>
        /\ stage[p] \in {"ended", "loaded", "stored"}
        /\ \E s \in {"loaded", "stored", "marked"} : stage' = [stage EXCEPT ![p] = s]
    BY <1>2 DEF MarkLoad, MarkStore, MarkUnlock, sentVars, faultVars
  <2>2. pos[p] = NumEvents /\ buf[p] = << >>
    BY <2>1 DEF EndedIsEmpty
  <2>3. QED BY <2>1, <2>2, <1>s DEF Stages
<1>3. CASE Complete(p)
  <2>1. /\ UNCHANGED <<pos, buf, fate, settled, theFaults>>
        /\ pos[p] = NumEvents /\ buf[p] = << >>
        /\ \E s \in {"ended", "dead"} : stage' = [stage EXCEPT ![p] = s]
    BY <1>3 DEF Complete, Escape, Die, sentVars, faultVars
  <2>2. QED BY <2>1, <1>s DEF Stages
<1>4. CASE MapError(p)
  BY <1>4 DEF MapError, Consumes, NoErrors
<1>5. CASE DeliverFails(p)
  <2>1. /\ UNCHANGED <<pos, buf, fate, settled, theFaults>>
        /\ stage' = [stage EXCEPT ![p] = "dead"]
    BY <1>5 DEF DeliverFails, NoErrors, Escape, Die, sentVars, faultVars
  <2>2. QED BY <2>1, <1>s DEF Stages
<1>6. CASE Filter(p)
  <2>1. /\ stage[p] = "active" /\ Item(p) \in Events
        /\ UNCHANGED <<stage, buf, theFaults>>
        /\ pos' = [pos EXCEPT ![p] = pos[p] + 1]
        /\ fate' = [fate EXCEPT ![p][Item(p)] = "filtered"]
        /\ settled' = settled \cup {<<p, Item(p)>>}
    BY <1>6, ItemIsEvent DEF Filter, Item, Consumes, faultVars
  <2>2. \A q \in Pipelines, e \in Events :
          \/ q = p /\ e = Item(p) /\ fate'[q][e] = "filtered"
          \/ (q # p \/ e # Item(p)) /\ fate'[q][e] = fate[q][e]
    BY <2>1 DEF TypeOK
  <2>3. ConsumedIsKnown'
    <3> SUFFICES ASSUME NEW q \in Pipelines, NEW e \in Events, e <= pos'[q]
                 PROVE  fate'[q][e] # "none" \/ Held(q, e)'
      BY DEF ConsumedIsKnown
    <3>1. CASE q = p /\ e = Item(p)
      BY <3>1, <2>2
    <3>2. CASE ~(q = p /\ e = Item(p))
      <4>1. e <= pos[q] /\ fate'[q][e] = fate[q][e]
        BY <3>2, <2>1, <2>2, ConsumedBefore
      <4>2. Held(q, e) => Held(q, e)'
        BY <2>1 DEF Held
      <4>3. QED BY <4>1, <4>2 DEF ConsumedIsKnown
    <3>3. QED BY <3>1, <3>2
  <2>4. EndedIsEmpty'
    BY <2>1 DEF EndedIsEmpty, TypeOK
  <2>5. FateIsKept'
    BY <2>1, <2>2, <1>r DEF FateIsKept, Listed
  <2>6. QED BY <2>3, <2>4, <2>5
<1>7. CASE Forward(p)
  <2>1. /\ stage[p] = "active" /\ Item(p) \in Events
        /\ UNCHANGED <<stage, fate, settled, theFaults>>
        /\ pos' = [pos EXCEPT ![p] = pos[p] + 1]
        /\ buf' = [buf EXCEPT ![p] = Append(buf[p], Item(p))]
    BY <1>7, ItemIsEvent DEF Forward, Item, Consumes, sentVars, faultVars
  <2>2. /\ Append(buf[p], Item(p)) \in Seq(Events)
        /\ Len(Append(buf[p], Item(p))) = Len(buf[p]) + 1
        /\ \A i \in 1..Len(buf[p]) : Append(buf[p], Item(p))[i] = buf[p][i]
        /\ Append(buf[p], Item(p))[Len(buf[p]) + 1] = Item(p)
    BY <2>1, <1>t, AppendProperties
  <2>3. DOMAIN Append(buf[p], Item(p)) = 1..(Len(buf[p]) + 1)
    BY <2>2, LenProperties
  <2>4. buf'[p] = Append(buf[p], Item(p)) /\ \A q \in Pipelines : q # p => buf'[q] = buf[q]
    BY <2>1 DEF TypeOK
  <2>5. \A q \in Pipelines, e \in Events : Held(q, e) => Held(q, e)'
    BY <2>2, <2>3, <2>4, <1>t DEF Held
  <2>6. \A q \in Pipelines, e \in Events : q = p /\ e = Item(p) => Held(q, e)'
    <3>1. Len(buf[p]) + 1 \in DOMAIN buf'[p] /\ buf'[p][Len(buf[p]) + 1] = Item(p)
      BY <2>2, <2>3, <2>4, <1>t
    <3>2. QED BY <3>1 DEF Held
  <2>7. ConsumedIsKnown'
    <3> SUFFICES ASSUME NEW q \in Pipelines, NEW e \in Events, e <= pos'[q]
                 PROVE  fate'[q][e] # "none" \/ Held(q, e)'
      BY DEF ConsumedIsKnown
    <3>1. CASE q = p /\ e = Item(p)
      BY <3>1, <2>6
    <3>2. CASE ~(q = p /\ e = Item(p))
      BY <3>2, <2>1, <2>5, ConsumedBefore DEF ConsumedIsKnown
    <3>3. QED BY <3>1, <3>2
  <2>8. EndedIsEmpty'
    BY <2>1, <2>4 DEF EndedIsEmpty, TypeOK
  <2>9. FateIsKept'
    BY <2>1, <1>r DEF FateIsKept, Listed
  <2>10. QED BY <2>7, <2>8, <2>9
<1>8. CASE RecordFault(p)
  <2> DEFINE f == [run |-> run, pipeline |-> p, event |-> Item(p)]
  <2>1. /\ stage[p] = "active" /\ Item(p) \in Events
        /\ UNCHANGED <<stage, buf, settled>>
        /\ pos' = [pos EXCEPT ![p] = pos[p] + 1]
        /\ fate' = [fate EXCEPT ![p][Item(p)] = "faulted"]
        /\ theFaults' = Append(theFaults, f)
    BY <1>8, ItemIsEvent DEF RecordFault, Item, Consumes
  <2>2. \A q \in Pipelines, e \in Events :
          \/ q = p /\ e = Item(p) /\ fate'[q][e] = "faulted"
          \/ (q # p \/ e # Item(p)) /\ fate'[q][e] = fate[q][e]
    BY <2>1 DEF TypeOK
  <2>3. f \in FaultRecord
    BY <2>1 DEF FaultRecord, TypeOK
  <2>4. /\ Len(theFaults) \in Nat /\ DOMAIN theFaults = 1..Len(theFaults)
        /\ DOMAIN theFaults' = 1..(Len(theFaults) + 1)
        /\ \A i \in 1..Len(theFaults) : theFaults'[i] = theFaults[i]
        /\ theFaults'[Len(theFaults) + 1] = f
    <3> HIDE DEF f
    <3> QED BY <2>1, <2>3, AppendProperties, LenProperties DEF TypeOK, FaultSeq
  <2>5. \A q \in Pipelines, e \in Events : Listed(q, e) => Listed(q, e)'
    BY <2>4, <1>r DEF Listed
  <2>6. \A q \in Pipelines, e \in Events : q = p /\ e = Item(p) => Listed(q, e)'
    BY <2>4, <1>r DEF Listed
  <2>7. ConsumedIsKnown'
    <3> SUFFICES ASSUME NEW q \in Pipelines, NEW e \in Events, e <= pos'[q]
                 PROVE  fate'[q][e] # "none" \/ Held(q, e)'
      BY DEF ConsumedIsKnown
    <3>1. CASE q = p /\ e = Item(p)
      BY <3>1, <2>2
    <3>2. CASE ~(q = p /\ e = Item(p))
      <4>1. e <= pos[q] /\ fate'[q][e] = fate[q][e]
        BY <3>2, <2>1, <2>2, ConsumedBefore
      <4>2. Held(q, e) => Held(q, e)'
        BY <2>1 DEF Held
      <4>3. QED BY <4>1, <4>2 DEF ConsumedIsKnown
    <3>3. QED BY <3>1, <3>2
  <2>8. EndedIsEmpty'
    BY <2>1 DEF EndedIsEmpty, TypeOK
  <2>9. FateIsKept'
    BY <2>1, <2>2, <2>5, <2>6, <1>r DEF FateIsKept
  <2>10. QED BY <2>7, <2>8, <2>9
<1>9. CASE Deliver(p)
  <2>1. /\ stage[p] = "active" /\ UNCHANGED <<pos, theFaults>>
        /\ fate' = [fate EXCEPT ![p] = [e \in Events |->
                        IF Held(p, e) THEN "delivered" ELSE fate[p][e]]]
        /\ settled' = settled \cup {<<p, buf[p][i]>> : i \in DOMAIN buf[p]}
        /\ buf' = [buf EXCEPT ![p] = << >>]
        /\ stage' = stage \/ stage' = [stage EXCEPT ![p] = "dead"]
    BY <1>9 DEF Deliver, Held, Escape, Die, faultVars
  <2>2. \A q \in Pipelines, e \in Events :
          fate'[q][e] = IF q = p /\ Held(q, e) THEN "delivered" ELSE fate[q][e]
    BY <2>1 DEF TypeOK
  <2>3. \A e \in Events : Held(p, e) => <<p, e>> \in settled'
    BY <2>1 DEF Held
  <2>4. \A q \in Pipelines, e \in Events : q # p /\ Held(q, e) => Held(q, e)'
    BY <2>1 DEF Held, TypeOK
  <2>5. ConsumedIsKnown'
    BY <2>1, <2>2, <2>4 DEF ConsumedIsKnown
  <2>6. EndedIsEmpty'
    BY <2>1 DEF EndedIsEmpty, TypeOK
  <2>7. FateIsKept'
    BY <2>1, <2>2, <2>3, <1>r DEF FateIsKept, Listed
  <2>8. QED BY <2>5, <2>6, <2>7
<1>10. QED BY <1>1, <1>2, <1>3, <1>4, <1>5, <1>6, <1>7, <1>8, <1>9 DEF Line

LEMMA ContractInvariant ==
  ASSUME NoErrors
  PROVE  Spec => []ContractInv
<1>1. Init => ContractInv
  <2> SUFFICES ASSUME Init PROVE ContractInv
    OBVIOUS
  <2>1. /\ \A p \in Pipelines : pos[p] = 0 /\ stage[p] = "ready"
        /\ \A p \in Pipelines, e \in Events : fate[p][e] = "none"
    BY DEF Init, FreshLines, PerLine, NoFate
  <2>2. QED BY <2>1 DEF ContractInv, ConsumedIsKnown, EndedIsEmpty, FateIsKept, Events
<1>2. TypeOK /\ LatchInv /\ ContractInv /\ [Next]_vars => ContractInv'
  <2>1. ASSUME ContractInv, UNCHANGED vars PROVE ContractInv'
    BY <2>1 DEF vars, mainVars, poolVars, lineVars, latchVars, sentVars, faultVars, ContractInv,
                ConsumedIsKnown, EndedIsEmpty, FateIsKept, Held, Listed
  <2>2. QED BY NoErrors, <2>1, ContractMain, ContractLine DEF Next
<1>3. QED BY <1>1, <1>2, TypeCorrect, LatchInvariant, PTL DEF Spec

\* run keeps the contract of a stream handler when no operator ends its line with
\* on_error: it acknowledges a batch only after every reaction was carried out,
\* skipped or reported.
THEOREM ImplementsContract ==
  ASSUME NoErrors
  PROVE  Spec => KeepsContract
<1>1. Init => Contract!ContractInit
  BY DEF Init, Contract!ContractInit
<1>2. ASSUME TypeOK, TypeOK', LatchInv, ContractInv, [Next]_vars
      PROVE  [Contract!ContractNext]_(Contract!contractVars)
  <2>1. settled' \in SUBSET (Pipelines \X Events)
    BY <1>2 DEF TypeOK
  <2>2. CASE Return
    <3>1. \A p \in Pipelines : pos[p] = NumEvents /\ buf[p] = << >>
      BY <1>2, <2>2 DEF Return, LatchInv, FlushAfterLastLine, ContractInv, EndedIsEmpty
    <3>2. \A p \in Pipelines, e \in Events : ~Held(p, e) /\ ~Listed(p, e)
      BY <2>2, <3>1 DEF Held, Listed, Return
    <3>3. \A p \in Pipelines, e \in Events : fate[p][e] # "none"
      BY <1>2, <3>1, <3>2 DEF ContractInv, ConsumedIsKnown, Events
    <3>4. \A p \in Pipelines, e \in Events : <<p, e>> \in settled
      BY <1>2, <2>2, <3>2, <3>3 DEF Return, ContractInv, FateIsKept
    <3>5. settled = Pipelines \X Events
      BY <1>2, <3>4 DEF TypeOK
    <3>6. QED BY <2>2, <3>5 DEF Return, Contract!ContractNext, Contract!Acknowledge
  <2>3. CASE ~Return
    <3>1. batch' = batch /\ settled \subseteq settled'
      BY <1>2, <2>3 DEF Next, Main, Invoke, Kill, Finished, Subscribe, SubscribedAll,
         TrampolineEmpty, Wake, Shutdown, FlushBatch, FlushRaises, Line, Take, Filter, Forward,
         RecordFault, Stray, HandlerRaises, MapError, Deliver, DeliverFails, Complete, MarkLoad,
         MarkStore, MarkUnlock, vars, mainVars, sentVars
    <3>2. QED BY <2>1, <3>1 DEF Contract!ContractNext, Contract!Settle
  <2>4. QED BY <2>2, <2>3
<1>3. QED BY <1>1, <1>2, TypeCorrect, LatchInvariant, ContractInvariant, PTL
          DEF Spec, KeepsContract, Contract!ContractSpec
===============================================================================
