------------------------------- MODULE Welfare ------------------------------
(***************************************************************************)
(* Welfare codes: the routes that validate and use one, the routes by      *)
(* which administrators maintain them, and the repository behind both.     *)
(* The server is the store that DurableTables abstracts: db is the memory, *)
(* saved the file, and a handler is one action.  The order of the rows     *)
(* matters: nothing keeps two of them from having the same code, and the   *)
(* first one is the one that counts.  A row has a number of its own        *)
(* (born), which is also the order of created_at.  The clients of the      *)
(* administration routes are outside the repository.                       *)
(***************************************************************************)
EXTENDS Naturals, Sequences, FiniteSets, SequencesExt

CONSTANTS
    Names,        \* what customers type
    Counts,       \* total counts
    NoRow,
    MaxRows,      \* bound: rows created
    MaxSetbacks   \* bound: crashes, lost containers and rows written back with an
                  \* older count

ASSUME WelfareAssumption ==
    Counts \subseteq Nat /\ MaxRows \in Nat /\ MaxSetbacks \in Nat

VARIABLES
    db, saved,  \* the table welfare_codes and its next id, in memory and in the file
    born,       \* rows created so far, lost ones included
    draft,      \* a row that a client of the administration routes has read
    accepted,   \* uses acknowledged, by row
    limit,      \* the highest total count each row has had
    setbacks    \* crashes, lost containers and older counts written back

vars == <<db, saved, born, draft, accepted, limit, setbacks>>

Empty == [rows |-> <<>>, next |-> 1]

Init ==
    /\ db = Empty /\ saved = Empty
    /\ born = 0 /\ draft = NoRow /\ setbacks = 0
    /\ accepted = [b \in 1 .. MaxRows |-> 0] /\ limit = [b \in 1 .. MaxRows |-> 0]

Highest(x, y) == IF x > y THEN x ELSE y

-----------------------------------------------------------------------------
(* The routes for customers.                                               *)

Matches(rows, c) == {i \in DOMAIN rows : rows[i].code = c}

\* findByCode: the position of the first one.
FindByCode(rows, c) == {i \in Matches(rows, c) : \A j \in Matches(rows, c) : i <= j}

\* Mutant: one use too many.
HasLeft_OneMore(r) == r.used <= r.total

HasLeft(r) == r.used < r.total

\* validateCode: the row a use of the code will count in.  Status and period,
\* which would refuse some more uses, are left out.
Valid(d, c) == {i \in FindByCode(d.rows, c) : HasLeft(d.rows[i])}

\* update of file_store.ts.
Updated(rows, id, r) == [i \in DOMAIN rows |-> IF rows[i].id = id THEN r ELSE rows[i]]

\* POST /use: a code that is not valid is refused.
Use(c) ==
    /\ \E i \in Valid(db, c) :
          LET r == db.rows[i] IN
          /\ db' = [db EXCEPT !.rows = Updated(@, r.id, [r EXCEPT !.used = @ + 1])]
          /\ accepted' = [accepted EXCEPT ![r.born] = @ + 1]
    /\ UNCHANGED <<saved, born, draft, limit, setbacks>>

-----------------------------------------------------------------------------
(* The routes for administrators.                                          *)

NewRow(d, c, n) == [id |-> d.next, born |-> born + 1, code |-> c, total |-> n, used |-> 0]

\* create and insert.
NextRow(d, c, n) == [d EXCEPT !.rows = Append(@, NewRow(d, c, n)), !.next = @ + 1]

\* POST: nothing looks for another row with the same code.
Create(c, n) ==
    /\ born < MaxRows
    /\ db' = NextRow(db, c, n)
    /\ born' = born + 1 /\ limit' = [limit EXCEPT ![born + 1] = n]
    /\ UNCHANGED <<saved, draft, accepted, setbacks>>

\* The same rows with the newest first.
Sorted(rows) ==
    {s \in {[i \in DOMAIN rows |-> rows[p[i]]] : p \in Injection(DOMAIN rows, DOMAIN rows)} :
        \A i, j \in DOMAIN s : i < j => s[i].born >= s[j].born}

\* GET without keyword: the repository sorts the table itself.
List ==
    /\ \E s \in Sorted(db.rows) : db' = [db EXCEPT !.rows = s]
    /\ UNCHANGED <<saved, born, draft, accepted, limit, setbacks>>

\* GET /:id.
Read(i) ==
    /\ draft = NoRow /\ draft' = db.rows[i]
    /\ UNCHANGED <<db, saved, born, accepted, limit, setbacks>>

\* Mutant: update fills in the defaults of create.
Changed_Defaults(r, n) == [r EXCEPT !.total = n, !.used = 0]

\* The fields of the body replace those of the row.
Changed(r, n) == [r EXCEPT !.total = n]

\* PUT /:id of a total, or of other fields with the total as it was.
Put(i, n) ==
    LET r == db.rows[i] IN
    /\ db' = [db EXCEPT !.rows = Updated(@, r.id, Changed(r, n))]
    /\ limit' = [limit EXCEPT ![r.born] = Highest(@, n)]
    /\ UNCHANGED <<saved, born, draft, accepted, setbacks>>

\* PUT /:id of the whole row that was read before, with another total: the
\* count of uses goes back to what it was then.
PutBack(n) ==
    /\ draft # NoRow /\ setbacks < MaxSetbacks
    /\ db' = [db EXCEPT !.rows = Updated(@, draft.id, [draft EXCEPT !.total = n])]
    /\ limit' = [limit EXCEPT ![draft.born] = Highest(@, n)]
    /\ setbacks' = setbacks + 1 /\ draft' = NoRow
    /\ UNCHANGED <<saved, born, accepted>>

\* DELETE /:id.
Delete(i) ==
    /\ db' = [db EXCEPT !.rows = RemoveAt(@, i)]
    /\ UNCHANGED <<saved, born, draft, accepted, limit, setbacks>>

-----------------------------------------------------------------------------

Flush ==
    /\ saved' = db
    /\ UNCHANGED <<db, born, draft, accepted, limit, setbacks>>

\* A client of the administration routes reads again after a restart.
Restart ==
    /\ setbacks < MaxSetbacks /\ setbacks' = setbacks + 1
    /\ draft' = NoRow
    /\ UNCHANGED <<born, accepted, limit>>

\* The process dies: what was acknowledged since the last save is forgotten.
Crash == Restart /\ db' = saved /\ UNCHANGED saved

\* The container is replaced and takes its /tmp, with the file, along.
Replace == Restart /\ db' = Empty /\ saved' = Empty

Next ==
    \/ \E c \in Names : Use(c) \/ \E n \in Counts : Create(c, n)
    \/ \E i \in DOMAIN db.rows :
          Read(i) \/ Delete(i) \/ \E n \in Counts : Put(i, n)
    \/ \E n \in Counts : PutBack(n)
    \/ List \/ Flush \/ Crash \/ Replace

Spec == Init /\ [][Next]_vars

-----------------------------------------------------------------------------
(* Properties.                                                             *)

Row == [id : Nat, born : 1 .. MaxRows, code : Names, total : Counts, used : Nat]

\* Every variable has its type.
TypeOK ==
    /\ {db, saved} \subseteq [rows : Seq(Row), next : Nat]
    /\ born \in 0 .. MaxRows /\ draft \in Row \cup {NoRow} /\ setbacks \in 0 .. MaxSetbacks
    /\ accepted \in [1 .. MaxRows -> Nat] /\ limit \in [1 .. MaxRows -> Nat]

\* A code is accepted at most as often as its total count says, and that often
\* again after each restart or older count written back, whichever of several
\* rows with the code counts at the time and however total counts change.
AcceptedWithinLimit ==
    \A b \in 1 .. MaxRows : accepted[b] <= limit[b] * (1 + setbacks)

\* A code whose uses have run out is not usable again unless its total count
\* was raised, or a restart or an older count forgot uses: no other edit and no
\* read brings it back.
OnlyRaisingReopens ==
    [][\A i \in DOMAIN db.rows, j \in DOMAIN db'.rows :
          LET now == db.rows[i] later == db'.rows[j] IN
          later.born = now.born /\ setbacks' = setbacks /\ ~HasLeft(now) /\ HasLeft(later)
              => later.total > now.total]_vars
=============================================================================
