------------------------------- MODULE MCSaga -------------------------------
(***************************************************************************)
(* Instances of Saga for TLC.                                              *)
(***************************************************************************)
EXTENDS SagaProps

CONSTANTS a, b,            \* event types
          k1, k2,          \* correlation keys
          s1,              \* suffix
          e1, e2, e3,      \* events
          c1,              \* Correlate rule
          v1, v2,          \* Evaluate rules
          x1               \* the Expired rule

\* e1 is the only event of type a; e2 and, if there is one, e3 are of type b.
MCKind == [e \in Events |-> IF e = e1 THEN a ELSE b]

\* Collect stores e3 under another key than the other events; the Correlate rules
\* bring them all together.
MCData == [e \in Events |-> IF e = e3 THEN k2 ELSE k1]
MCCorrelateKey == [c \in Correlates |-> [e \in Events |-> k1]]

\* The first Evaluate rule has suffix s1, the second looks at collected events.
MCCorrelateSuffix == [c \in Correlates |-> s1]
MCEvaluateSuffix  == [v \in Evaluates |-> IF v = v1 THEN s1 ELSE NoSuffix]

BothKinds == [v \in Evaluates |-> {a, b}]

\* Nothing is removed; only the items of e1 are, once each.
NoRemovals == [e \in Events |-> 0]
RemovalsOfE1 == [e \in Events |-> IF e = e1 THEN 1 ELSE 0]

\* e1 expires first.  Collect's rule for e1 has no `expire`; the Correlate rule has one
\* and takes over the ttl of the collected item.
MCTtl == [e \in Events |-> IF e = e1 THEN 1 ELSE 2]
MCExpires == Events \ {e1}
NoOwnTtl == [c \in {} |-> MCTtl]
=============================================================================
