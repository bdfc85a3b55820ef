------------------------ MODULE MaterializedViewProps ------------------------
(***************************************************************************)
(* The correctness properties of MaterializedView.                         *)
(***************************************************************************)
EXTENDS MaterializedView

Versions == DOMAIN saved
Item == [version : Nat \ {0}, timestamp : Nat, deleted : BOOLEAN, latched : BOOLEAN]
Event == [source : Services, type : {"created", "updated", "deleted", "undeleted"},
          version : Nat \ {0}, timestamp : Nat]

\* Every variable has its type, and only versions that were saved are about.
TypeOK ==
  /\ saved \in Seq([author : Services, timestamp : Nat, deleted : BOOLEAN])
  /\ item \in [Services -> Item \cup {NoItem}]
  /\ stream \in [Services -> Seq([old : Item \cup {NoItem}, new : Item \cup {NoItem}])]
  /\ bus \subseteq [to : Services, event : Event]
  /\ reported \subseteq [at : Services, version : Nat \ {0}, kind : {"condition", "error"}]
  /\ removed \subseteq Services
  /\ now \in Nat
  /\ \A s \in Services : item[s] # NoItem => item[s].version \in Versions
-----------------------------------------------------------------------------
\* An item is latched exactly when its version is another service's: a change of the
\* service's own is always announced, and a copied one never looks like its own, even
\* when the service's own events come back after its item was removed.
LatchMarksCopies ==
  \A s \in Services : item[s] # NoItem =>
    (item[s].latched <=> saved[item[s].version].author # s)

\* A service announces only versions it saved itself: two services that mirror each
\* other's entity do not echo a change for ever.
NoEcho == \A m \in bus : saved[m.event.version].author = m.event.source

\* A rejected condition, which the code reports as a fault like any other, never means
\* that a change was lost: the copy already is at that version or a newer one.
RejectedIsStale ==
  \A r \in reported : r.kind = "condition" /\ r.at \notin removed =>
    item[r.at] # NoItem /\ item[r.at].timestamp >= saved[r.version].timestamp
-----------------------------------------------------------------------------
Quiescent == bus = {} /\ \A s \in Services : stream[s] = << >>

\* v is the newest version, and no other has its timestamp.
Newest(v) == \A w \in Versions \ {v} : saved[w].timestamp < saved[v].timestamp

Holds(s, v) ==
  item[s] # NoItem /\ item[s].version = v /\ item[s].deleted = saved[v].deleted

\* Once everything has been delivered, in whatever order and however often, every copy
\* is at the newest version, deleted if that one is; or a fault says which copy missed
\* it and why.  (Items removed from a table, and versions of the same millisecond, have
\* no such promise.)
ConvergesToNewest ==
  Quiescent /\ removed = {} =>
    \A v \in Versions, s \in Services : Newest(v) =>
      \/ Holds(s, v)
      \/ \E r \in reported : r.version = v /\ r.kind = "error" /\ r.at \in {s, saved[v].author}
=============================================================================
