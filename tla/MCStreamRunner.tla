---------------------------- MODULE MCStreamRunner ----------------------------
(***************************************************************************)
(* Instances of StreamRunner for TLC: what the sinks of the pipelines do   *)
(* when a delivery fails.                                                  *)
(***************************************************************************)
EXTENDS StreamRunnerProps

\* Every run uses the pool ...
Pooled == [r \in 1..MaxRuns |-> TRUE]

\* ... or only the first does, and the batch comes again to a run without pool.
PooledThenSequential == [r \in 1..MaxRuns |-> r = 1]

\* Every pipeline publishes to EventBridge: a failing put_events is re-raised.
PublisherSinks == [p \in Pipelines |-> "stray"]

\* Every pipeline sends to SQS: a failing send becomes on_error.
SQSSinks == [p \in Pipelines |-> "error"]

\* The first pipeline publishes, the others send to SQS.
MixedSinks == [p \in Pipelines |-> IF p = 1 THEN "stray" ELSE "error"]
===============================================================================
