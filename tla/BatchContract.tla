---------------------------- MODULE BatchContract ----------------------------
(***************************************************************************)
(* What a stream handler promises the event source that invokes it: a      *)
(* batch is acknowledged only after every reaction to every one of its     *)
(* records has been settled -- carried out, skipped by a filter, or        *)
(* reported as a fault -- in this or in an earlier attempt.                *)
(***************************************************************************)
EXTENDS Naturals

CONSTANTS Reactions   \* the (pipeline, record) pairs of a batch

VARIABLES
  settled,   \* reactions to the current batch that are settled
  batch      \* batches acknowledged so far

contractVars == <<settled, batch>>

ContractInit == settled = {} /\ batch = 0

\* An attempt settles some more reactions.
Settle ==
  /\ settled' \in SUBSET Reactions
  /\ settled \subseteq settled'
  /\ UNCHANGED batch

\* The handler returns: the source moves on to the next batch.
Acknowledge ==
  /\ settled = Reactions
  /\ settled' = {}
  /\ batch' = batch + 1

ContractNext == Settle \/ Acknowledge

ContractSpec == ContractInit /\ [][ContractNext]_contractVars
=============================================================================
