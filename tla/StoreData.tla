----------------------------- MODULE StoreData -----------------------------
(***************************************************************************)
(* The object that file_store.ts keeps in memory and in its file: the      *)
(* tables and, per table, the next id to hand out.  A table is the set of  *)
(* its rows; the fields of a row other than its id are one value.          *)
(***************************************************************************)
EXTENDS Naturals, FiniteSets

CONSTANTS
    Tables,   \* the tables of StoreData
    Values    \* what a row holds beside its id

Ids == Nat \ {0}
Row == [id : Ids, val : Values]

\* An object with the tables T; a file of an earlier release lacks some.
DataOf(T) == [nextIds : [Tables -> Ids], rows : [T -> SUBSET Row]]
StoreData == DataOf(Tables)
IsFile(f) == \E T \in SUBSET Tables : f \in DataOf(T)

DEFAULT_DATA == [nextIds |-> [t \in Tables |-> 1],
                 rows    |-> [t \in Tables |-> {}]]

RowIds(rows) == {r.id : r \in rows}
UniqueIds(rows) == \A r, s \in rows : r.id = s.id => r = s

\* Every id of the object was handed out by its counters, and only once.
FreshIds(d) ==
    \A t \in DOMAIN d.rows :
        /\ UniqueIds(d.rows[t])
        /\ \A r \in d.rows[t] : r.id < d.nextIds[t]

\* e follows d: counters only grow, and a row of e either bears an id that a
\* row of d bears or one that d had not handed out yet.
Follows(e, d) ==
    \A t \in Tables :
        /\ d.nextIds[t] <= e.nextIds[t]
        /\ \A r \in e.rows[t] : r.id \in RowIds(d.rows[t]) \/ d.nextIds[t] <= r.id
=============================================================================
