-------------------------- MODULE MCMaterializedView --------------------------
(***************************************************************************)
(* The instance of MaterializedView that TLC checks.                       *)
(***************************************************************************)
EXTENDS MaterializedViewProps, TLC

\* Services differ only in their names.
Symmetry == Permutations(Services)
=============================================================================
