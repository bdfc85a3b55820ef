------------------------------ MODULE MCJobPages ------------------------------
(***************************************************************************)
(* Instances of JobPages for TLC.                                          *)
(***************************************************************************)
EXTENDS JobPagesProps

CONSTANTS k1, k2   \* attribute keys

\* Two items become no unit of work, the others one.
MixedUnits == [i \in Items |-> IF i \in {1, 4} THEN 0 ELSE 1]
===============================================================================
