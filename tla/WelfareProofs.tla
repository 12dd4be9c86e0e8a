---------------------------- MODULE WelfareProofs ---------------------------
(***************************************************************************)
(* Proofs about Welfare for any number of codes, rows, total counts,       *)
(* crashes and older counts written back.                                  *)
(***************************************************************************)
EXTENDS Welfare, SequenceTheorems, TLAPS

Tables == [rows : Seq(Row), next : Nat]

\* What update does to a sequence of rows.
LEMMA UpdatedRows ==
    ASSUME NEW rows \in Seq(Row), NEW id, NEW r \in Row
    PROVE  /\ Updated(rows, id, r) \in Seq(Row)
           /\ DOMAIN Updated(rows, id, r) = DOMAIN rows
           /\ \A i \in DOMAIN rows :
                 Updated(rows, id, r)[i] = IF rows[i].id = id THEN r ELSE rows[i]
<1>1. Updated(rows, id, r) = [i \in DOMAIN rows |-> IF rows[i].id = id THEN r ELSE rows[i]]
  BY DEF Updated
<1>2. DOMAIN rows = 1 .. Len(rows) /\ Len(rows) \in Nat /\ \A i \in DOMAIN rows : rows[i] \in Row
  OBVIOUS
<1> HIDE DEF Row
<1> QED BY <1>1, <1>2

\* Sorting keeps every row, once.
LEMMA SortedRows ==
    ASSUME NEW rows \in Seq(Row), NEW s \in Sorted(rows)
    PROVE  /\ s \in Seq(Row)
           /\ \E p \in [DOMAIN rows -> DOMAIN rows] :
                 /\ \A i, j \in DOMAIN rows : p[i] = p[j] => i = j
                 /\ DOMAIN s = DOMAIN rows
                 /\ \A i \in DOMAIN rows : s[i] = rows[p[i]]
<1>1. PICK p \in Injection(DOMAIN rows, DOMAIN rows) : s = [i \in DOMAIN rows |-> rows[p[i]]]
  BY DEF Sorted
<1>2. p \in [DOMAIN rows -> DOMAIN rows] /\ \A i, j \in DOMAIN rows : p[i] = p[j] => i = j
  BY DEF Injection, IsInjective
<1>3. DOMAIN rows = 1 .. Len(rows) /\ Len(rows) \in Nat /\ \A i \in DOMAIN rows : rows[i] \in Row
  OBVIOUS
<1> HIDE DEF Row
<1>4. \A i \in 1 .. Len(rows) : rows[p[i]] \in Row
  BY <1>2, <1>3
<1>5. s = [i \in 1 .. Len(rows) |-> rows[p[i]]]
  BY <1>1, <1>3
<1>6. s \in Seq(Row)
  BY <1>3, <1>4, <1>5
<1>7. DOMAIN s = DOMAIN rows /\ \A i \in DOMAIN rows : s[i] = rows[p[i]]
  BY <1>1
<1> QED BY <1>2, <1>6, <1>7

\* Taking a row out shifts the later ones.
LEMMA RemovedRows ==
    ASSUME NEW rows \in Seq(Row), NEW k \in DOMAIN rows
    PROVE  /\ RemoveAt(rows, k) \in Seq(Row)
           /\ DOMAIN RemoveAt(rows, k) = 1 .. Len(rows) - 1
           /\ \A i \in 1 .. Len(rows) - 1 :
                 RemoveAt(rows, k)[i] = IF i < k THEN rows[i] ELSE rows[i + 1]
<1>1. DOMAIN rows = 1 .. Len(rows) /\ Len(rows) \in Nat /\ k \in 1 .. Len(rows)
  OBVIOUS
<1> DEFINE a == SubSeq(rows, 1, k - 1)
           b == SubSeq(rows, k + 1, Len(rows))
<1>2. a \in Seq(Row) /\ Len(a) = k - 1 /\ \A i \in 1 .. k - 1 : a[i] = rows[i]
  BY <1>1
<1>3. b \in Seq(Row) /\ Len(b) = Len(rows) - k /\ \A i \in 1 .. Len(rows) - k : b[i] = rows[k + i]
  BY <1>1
<1>4. RemoveAt(rows, k) = a \o b
  BY DEF RemoveAt
<1> HIDE DEF a, b, Row
<1>5. /\ (a \o b) \in Seq(Row) /\ Len(a \o b) = Len(a) + Len(b)
      /\ \A i \in 1 .. Len(a) + Len(b) : (a \o b)[i] = IF i <= Len(a) THEN a[i] ELSE b[i - Len(a)]
  BY <1>2, <1>3, ConcatProperties
<1> DEFINE s == a \o b
<1> HIDE DEF s
<1>6. Len(s) = Len(rows) - 1 /\ s \in Seq(Row)
  BY <1>1, <1>2, <1>3, <1>5 DEF s
<1>7. ASSUME NEW i \in 1 .. Len(rows) - 1
      PROVE  s[i] = IF i <= k - 1 THEN a[i] ELSE b[i - (k - 1)]
  <2>1. i \in 1 .. Len(a) + Len(b) /\ Len(a) = k - 1
    BY <1>1, <1>2, <1>3
  <2> QED BY <1>5, <2>1 DEF s
<1>8. ASSUME NEW i \in 1 .. Len(rows) - 1
      PROVE  s[i] = IF i < k THEN rows[i] ELSE rows[i + 1]
  <2>1. CASE i < k
    BY <1>1, <1>2, <1>7, <2>1
  <2>2. CASE ~(i < k)
    <3>1. i - (k - 1) \in 1 .. Len(rows) - k /\ k + (i - (k - 1)) = i + 1 /\ ~(i <= k - 1)
      BY <1>1, <2>2
    <3>2. b[i - (k - 1)] = rows[i + 1]
      BY <1>3, <3>1
    <3> QED BY <1>7, <2>2, <3>1, <3>2
  <2> QED BY <2>1, <2>2
<1>9. RemoveAt(rows, k) = s
  BY <1>4 DEF s
<1>10. DOMAIN s = 1 .. Len(rows) - 1
  BY <1>6
<1> QED BY <1>6, <1>8, <1>9, <1>10

LEMMA NextType == TypeOK /\ [Next]_vars => TypeOK'
<1> SUFFICES ASSUME TypeOK, [Next]_vars PROVE TypeOK'
  OBVIOUS
<1> USE WelfareAssumption
<1>1. /\ db \in Tables /\ saved \in Tables /\ db.rows \in Seq(Row)
      /\ \A i \in DOMAIN db.rows : db.rows[i] \in Row
  BY DEF TypeOK, Tables
<1>2. ASSUME NEW rows \in Seq(Row), db' = [db EXCEPT !.rows = rows], saved' = saved
      PROVE  {db', saved'} \subseteq [rows : Seq(Row), next : Nat]
  BY <1>1, <1>2 DEF Tables
<1>3. ASSUME NEW c \in Names, Use(c) PROVE TypeOK'
  <2>1. PICK i \in DOMAIN db.rows :
          /\ db' = [db EXCEPT !.rows = Updated(@, db.rows[i].id, [db.rows[i] EXCEPT !.used = @ + 1])]
          /\ accepted' = [accepted EXCEPT ![db.rows[i].born] = @ + 1]
    BY <1>3 DEF Use, Valid, FindByCode, Matches
  <2>2. [db.rows[i] EXCEPT !.used = @ + 1] \in Row /\ db.rows[i].born \in 1 .. MaxRows
    <3>1. db.rows[i] \in Row
      BY <1>1
    <3>2. db.rows[i].used + 1 \in Nat
      BY <3>1 DEF Row
    <3> QED BY <3>1, <3>2 DEF Row
  <2>3. accepted' \in [1 .. MaxRows -> Nat]
    BY SMTT(20), <2>1, <2>2 DEF TypeOK
  <2>4. Updated(db.rows, db.rows[i].id, [db.rows[i] EXCEPT !.used = @ + 1]) \in Seq(Row)
    BY <1>1, <2>2, UpdatedRows
  <2> QED BY <1>2, <1>3, <2>1, <2>3, <2>4 DEF Use, TypeOK
<1>4. ASSUME NEW c \in Names, NEW n \in Counts, Create(c, n) PROVE TypeOK'
  <2> DEFINE new == NewRow(db, c, n)
             rows == Append(db.rows, new)
             next == db.next + 1
  <2>1. new \in Row /\ born + 1 \in 1 .. MaxRows /\ n \in Nat
    BY <1>1, <1>4 DEF NewRow, Row, Create, TypeOK, Tables
  <2>2. db' = [db EXCEPT !.rows = rows, !.next = next]
    BY <1>4 DEF Create, NextRow
  <2> HIDE DEF new, Row
  <2>3. rows \in Seq(Row) /\ next \in Nat
    BY <1>1, <2>1 DEF Tables
  <2> HIDE DEF rows, next
  <2>4. db' \in Tables
    BY <1>1, <2>2, <2>3 DEF Tables
  <2> QED BY SMTT(20), <1>4, <2>1, <2>4 DEF Create, TypeOK, Tables
<1>5. CASE List
  <2>1. PICK s \in Sorted(db.rows) : db' = [db EXCEPT !.rows = s]
    BY <1>5 DEF List
  <2>2. s \in Seq(Row)
    BY <1>1, SortedRows
  <2> QED BY <1>2, <1>5, <2>1, <2>2 DEF List, TypeOK
<1>6. ASSUME NEW i \in DOMAIN db.rows, Read(i) PROVE TypeOK'
  BY <1>1, <1>6 DEF Read, TypeOK
<1>7. ASSUME NEW i \in DOMAIN db.rows, Delete(i) PROVE TypeOK'
  BY <1>1, <1>2, <1>7, RemovedRows DEF Delete, TypeOK
<1>8. ASSUME NEW i \in DOMAIN db.rows, NEW n \in Counts, Put(i, n) PROVE TypeOK'
  <2>1. Changed(db.rows[i], n) \in Row /\ db.rows[i].born \in 1 .. MaxRows
    BY <1>1 DEF Row, Changed
  <2>2. Updated(db.rows, db.rows[i].id, Changed(db.rows[i], n)) \in Seq(Row)
    BY <1>1, <2>1, UpdatedRows
  <2>3. limit' \in [1 .. MaxRows -> Nat]
    BY <1>8, <2>1 DEF Put, Highest, TypeOK
  <2> QED BY <1>2, <1>8, <2>2, <2>3 DEF Put, TypeOK
<1>9. ASSUME NEW n \in Counts, PutBack(n) PROVE TypeOK'
  <2>1. draft \in Row
    BY <1>9 DEF PutBack, TypeOK
  <2>2. [draft EXCEPT !.total = n] \in Row /\ draft.born \in 1 .. MaxRows
    BY <2>1 DEF Row
  <2>3. Updated(db.rows, draft.id, [draft EXCEPT !.total = n]) \in Seq(Row)
    BY <1>1, <2>2, UpdatedRows
  <2>4. limit' \in [1 .. MaxRows -> Nat]
    BY <1>9, <2>2 DEF PutBack, Highest, TypeOK
  <2>5. {db', saved'} \subseteq [rows : Seq(Row), next : Nat]
    BY <1>2, <1>9, <2>3 DEF PutBack
  <2>6. draft' = NoRow /\ setbacks' \in 0 .. MaxSetbacks
    BY <1>9 DEF PutBack, TypeOK
  <2> HIDE DEF Row
  <2> QED BY <1>9, <2>4, <2>5, <2>6 DEF PutBack, TypeOK
<1>10. CASE Flush \/ UNCHANGED vars
  BY <1>10 DEF Flush, vars, TypeOK
<1>11. CASE Crash \/ Replace
  <2>1. Empty \in [rows : Seq(Row), next : Nat]
    BY DEF Empty
  <2>2. /\ setbacks' \in 0 .. MaxSetbacks /\ draft' = NoRow
        /\ born' = born /\ accepted' = accepted /\ limit' = limit
    BY <1>11, WelfareAssumption DEF Crash, Replace, Restart, TypeOK
  <2>3. {db', saved'} \subseteq [rows : Seq(Row), next : Nat]
    BY <1>11, <2>1 DEF Crash, Replace, TypeOK
  <2> HIDE DEF Row
  <2> QED BY <2>2, <2>3 DEF TypeOK
<1> QED BY <1>11, <1>3, <1>4, <1>5, <1>6, <1>7, <1>8, <1>9, <1>10 DEF Next

\* The rows, in memory and in the file, and the counts of what was accepted
\* always have their types.
THEOREM WelfareTypeCorrect == Spec => []TypeOK
<1>1. Init => TypeOK
  BY WelfareAssumption DEF Init, Empty, TypeOK
<1> QED BY <1>1, NextType, PTL DEF Spec

-----------------------------------------------------------------------------
(* How often a code is accepted.                                           *)

\* Rows differ in id and in origin, and the counter is past their ids.
Distinct(d) ==
    /\ \A i, j \in DOMAIN d.rows :
          d.rows[i].id = d.rows[j].id \/ d.rows[i].born = d.rows[j].born => i = j
    /\ \A i \in DOMAIN d.rows : d.rows[i].id < d.next

\* No count of a row is above the highest total count it has had.
Bounded(r) == r.born <= born /\ r.total <= limit[r.born] /\ r.used <= limit[r.born]

\* What was accepted beyond the count of uses was forgotten by setbacks.
Spent(r) == accepted[r.born] <= limit[r.born] * setbacks + r.used

DraftIsOld ==
    draft # NoRow =>
        /\ Bounded(draft) /\ draft.id < db.next
        /\ \A i \in DOMAIN db.rows : db.rows[i].id = draft.id => db.rows[i].born = draft.born

Budget ==
    /\ AcceptedWithinLimit
    /\ \A b \in 1 .. MaxRows : b > born => accepted[b] = 0
    /\ Distinct(db) /\ Distinct(saved)
    /\ \A i \in DOMAIN db.rows : Bounded(db.rows[i]) /\ Spent(db.rows[i])
    /\ \A i \in DOMAIN saved.rows : Bounded(saved.rows[i])
    /\ DraftIsOld

LEMMA Products ==
    ASSUME NEW l \in Nat, NEW m \in Nat, NEW s \in Nat, NEW t \in Nat, l <= m, s <= t
    PROVE  /\ l * s \in Nat /\ m * t \in Nat /\ l * s <= m * t
           /\ l * (1 + s) = l * s + l
<1>1. l * s \in Nat /\ m * t \in Nat /\ m * s \in Nat
  OBVIOUS
<1>2. PICK d \in Nat : m = l + d
  <2>1. m - l \in Nat /\ m = l + (m - l)
    OBVIOUS
  <2> QED BY <2>1
<1>3. PICK e \in Nat : t = s + e
  <2>1. t - s \in Nat /\ t = s + (t - s)
    OBVIOUS
  <2> QED BY <2>1
<1>4. m * s = l * s + d * s /\ d * s \in Nat
  BY <1>2
<1>5. m * t = m * s + m * e /\ m * e \in Nat
  BY <1>3
<1>6. l * s <= m * t
  BY <1>1, <1>4, <1>5
<1>7. l * (1 + s) = l * s + l
  OBVIOUS
<1> QED BY <1>1, <1>6, <1>7

\* What was accepted stays within the limit when limits and setbacks grow.
LEMMA LimitGrows ==
    ASSUME TypeOK, TypeOK', AcceptedWithinLimit, NEW b \in 1 .. MaxRows,
           accepted'[b] = accepted[b], limit[b] <= limit'[b], setbacks <= setbacks'
    PROVE  accepted'[b] <= limit'[b] * (1 + setbacks')
<1>1. /\ limit[b] \in Nat /\ limit'[b] \in Nat /\ setbacks \in Nat /\ setbacks' \in Nat
      /\ accepted[b] \in Nat
  BY WelfareAssumption DEF TypeOK
<1>2. accepted[b] <= limit[b] * (1 + setbacks)
  BY DEF AcceptedWithinLimit
<1>3. (1 + setbacks) \in Nat /\ (1 + setbacks') \in Nat /\ (1 + setbacks) <= (1 + setbacks')
  <2>1. setbacks <= setbacks'
    OBVIOUS
  <2>2. \A s, t \in Nat : s <= t => (1 + s) \in Nat /\ (1 + t) \in Nat /\ (1 + s) <= (1 + t)
    OBVIOUS
  <2> QED BY <1>1, <2>1, <2>2
<1>4. limit[b] * (1 + setbacks) <= limit'[b] * (1 + setbacks')
      /\ limit[b] * (1 + setbacks) \in Nat /\ limit'[b] * (1 + setbacks') \in Nat
  BY <1>1, <1>3, Products
<1> QED BY <1>1, <1>2, <1>4

\* Replacing one row by a row of the same id and origin whose counts fit.
LEMMA ReplaceKeeps ==
    ASSUME TypeOK, TypeOK', Budget, NEW k \in DOMAIN db.rows, NEW r \in Row,
           r.id = db.rows[k].id, r.born = db.rows[k].born,
           db' = [db EXCEPT !.rows = Updated(@, r.id, r)],
           saved' = saved, born' = born, draft' = draft \/ draft' = NoRow,
           setbacks <= setbacks',
           \A b \in 1 .. MaxRows : limit[b] <= limit'[b],
           \A b \in 1 .. MaxRows : b # r.born => accepted'[b] = accepted[b],
           accepted'[r.born] <= limit'[r.born] * setbacks' + r.used,
           r.total <= limit'[r.born], r.used <= limit'[r.born]
    PROVE  Budget'
<1>1. /\ db.rows \in Seq(Row) /\ saved.rows \in Seq(Row)
      /\ \A i \in DOMAIN db.rows : db.rows[i] \in Row
      /\ \A i \in DOMAIN saved.rows : saved.rows[i] \in Row
  <2>1. db.rows \in Seq(Row) /\ saved.rows \in Seq(Row)
    BY DEF TypeOK
  <2> QED BY <2>1
<1>2. \A i \in DOMAIN db.rows : db.rows[i].id = r.id <=> i = k
  BY DEF Budget, Distinct
<1>3. /\ DOMAIN db'.rows = DOMAIN db.rows /\ db'.next = db.next
      /\ \A i \in DOMAIN db.rows : db'.rows[i] = IF i = k THEN r ELSE db.rows[i]
  <2> DEFINE rows == Updated(db.rows, r.id, r)
  <2>1. /\ DOMAIN rows = DOMAIN db.rows
        /\ \A i \in DOMAIN db.rows : rows[i] = IF i = k THEN r ELSE db.rows[i]
    <3>1. /\ DOMAIN rows = DOMAIN db.rows
          /\ \A i \in DOMAIN db.rows : rows[i] = IF db.rows[i].id = r.id THEN r ELSE db.rows[i]
      BY <1>1, UpdatedRows
    <3> QED BY <1>2, <3>1
  <2> HIDE DEF rows
  <2>2. db' = [db EXCEPT !.rows = rows]
    BY DEF rows
  <2>3. db'.rows = rows /\ db'.next = db.next
    BY <2>2 DEF TypeOK
  <2> QED BY <2>1, <2>3
<1>4. \A i \in DOMAIN db.rows : db'.rows[i].id = db.rows[i].id /\ db'.rows[i].born = db.rows[i].born
  BY <1>3
<1>5. \A q \in Row : q.born \in 1 .. MaxRows /\ q.total \in Nat /\ q.used \in Nat
  BY WelfareAssumption DEF Row
<1>6. /\ setbacks \in Nat /\ setbacks' \in Nat /\ born \in Nat
      /\ \A b \in 1 .. MaxRows : /\ limit[b] \in Nat /\ limit'[b] \in Nat
                                  /\ accepted[b] \in Nat /\ accepted'[b] \in Nat
  BY WelfareAssumption DEF TypeOK
<1> HIDE DEF Row
<1>7. Distinct(db)' /\ Distinct(saved)'
  <2>1. Distinct(db) /\ Distinct(saved)
    BY DEF Budget
  <2>2. Distinct(saved)'
    BY <2>1 DEF Distinct
  <2>3. Distinct(db)'
    <3>1. DOMAIN db'.rows = DOMAIN db.rows /\ db'.next = db.next
      BY <1>3
    <3>2. \A i \in DOMAIN db'.rows : db'.rows[i].id < db'.next
      BY <1>4, <2>1, <3>1 DEF Distinct
    <3>3. ASSUME NEW i \in DOMAIN db'.rows, NEW j \in DOMAIN db'.rows,
                 db'.rows[i].id = db'.rows[j].id \/ db'.rows[i].born = db'.rows[j].born
          PROVE  i = j
      <4>1. i \in DOMAIN db.rows /\ j \in DOMAIN db.rows
        BY <3>1
      <4>2. db.rows[i].id = db.rows[j].id \/ db.rows[i].born = db.rows[j].born
        BY <1>4, <3>3, <4>1
      <4> QED BY <2>1, <4>1, <4>2 DEF Distinct
    <3> QED BY <3>2, <3>3 DEF Distinct
  <2> QED BY <2>2, <2>3
<1>8. ASSUME NEW i \in DOMAIN db.rows, i # k PROVE Bounded(db.rows[i])' /\ Spent(db.rows[i])'
  <2> DEFINE q == db.rows[i]
  <2>1. q \in Row /\ q.born \in 1 .. MaxRows /\ db'.rows[i] = q /\ q.born # r.born
    BY <1>1, <1>3, <1>5, <1>8 DEF Budget, Distinct
  <2>2. /\ Bounded(q) /\ Spent(q)
    BY DEF Budget
  <2> HIDE DEF q
  <2>3. limit[q.born] * setbacks \in Nat /\ limit'[q.born] * setbacks' \in Nat
        /\ limit[q.born] * setbacks <= limit'[q.born] * setbacks'
    BY <1>6, <2>1, Products
  <2>4. q.born <= born' /\ q.total <= limit'[q.born] /\ q.used <= limit'[q.born]
    BY <1>5, <1>6, <2>1, <2>2 DEF Bounded
  <2>5. accepted'[q.born] <= limit'[q.born] * setbacks' + q.used
    BY <1>5, <1>6, <2>1, <2>2, <2>3 DEF Spent
  <2> QED BY <2>1, <2>4, <2>5 DEF Bounded, Spent
<1>9. Bounded(db.rows[k])' /\ Spent(db.rows[k])'
  <2>1. db.rows[k].born <= born
    BY DEF Budget, Bounded
  <2> QED BY <1>3, <2>1 DEF Bounded, Spent
<1>10. \A i \in DOMAIN db'.rows : Bounded(db.rows[i])' /\ Spent(db.rows[i])'
  BY <1>3, <1>8, <1>9
<1>11. \A q \in Row : Bounded(q) => q.born <= born' /\ q.total <= limit'[q.born] /\ q.used <= limit'[q.born]
  BY <1>5, <1>6 DEF Bounded
<1>12. \A i \in DOMAIN saved'.rows : Bounded(saved.rows[i])'
  BY <1>1, <1>11 DEF Budget, Bounded
<1>13. DraftIsOld'
  <2>1. CASE draft' = NoRow
    BY <2>1 DEF DraftIsOld
  <2>2. CASE draft' = draft /\ draft # NoRow
    <3>1. draft \in Row
      BY <2>2 DEF TypeOK
    <3>2. /\ Bounded(draft) /\ draft.id < db.next
          /\ \A i \in DOMAIN db.rows : db.rows[i].id = draft.id => db.rows[i].born = draft.born
      BY <2>2 DEF Budget, DraftIsOld
    <3> QED BY <1>3, <1>4, <1>11, <2>2, <3>1, <3>2 DEF DraftIsOld, Bounded
  <2> QED BY <2>1, <2>2
<1>14. AcceptedWithinLimit'
  <2>1. r.born \in 1 .. MaxRows
    BY <1>5
  <2>2. accepted'[r.born] <= limit'[r.born] * (1 + setbacks')
    <3>1. limit'[r.born] * (1 + setbacks') = limit'[r.born] * setbacks' + limit'[r.born]
          /\ limit'[r.born] * setbacks' \in Nat
      BY <1>6, <2>1, Products
    <3> QED BY <1>5, <1>6, <2>1, <3>1
  <2> QED BY <2>1, <2>2, LimitGrows DEF Budget, AcceptedWithinLimit
<1>15. \A b \in 1 .. MaxRows : b > born' => accepted'[b] = 0
  <2>1. r.born <= born
    BY DEF Budget, Bounded
  <2> QED BY <1>5, <1>6, <2>1 DEF Budget
<1> QED BY <1>7, <1>10, <1>12, <1>13, <1>14, <1>15 DEF Budget

\* Sorting and deleting keep rows as they are.
LEMMA SelectKeeps ==
    ASSUME TypeOK, Budget, NEW p \in [DOMAIN db'.rows -> DOMAIN db.rows],
           \A i, j \in DOMAIN db'.rows : p[i] = p[j] => i = j,
           \A i \in DOMAIN db'.rows : db'.rows[i] = db.rows[p[i]],
           db'.next = db.next,
           UNCHANGED <<saved, born, draft, accepted, limit, setbacks>>
    PROVE  Budget'
<1>1. Distinct(db)' /\ Distinct(saved)'
  BY DEF Budget, Distinct
<1>2. \A i \in DOMAIN db'.rows : Bounded(db.rows[i])' /\ Spent(db.rows[i])'
  BY DEF Budget, Bounded, Spent
<1>3. \A i \in DOMAIN saved'.rows : Bounded(saved.rows[i])'
  BY DEF Budget, Bounded
<1>4. DraftIsOld'
  BY DEF Budget, DraftIsOld, Bounded
<1> QED BY <1>1, <1>2, <1>3, <1>4 DEF Budget, AcceptedWithinLimit

LEMMA CreateKeeps ==
    ASSUME TypeOK, TypeOK', Budget, NEW c \in Names, NEW n \in Counts, Create(c, n)
    PROVE  Budget'
<1> DEFINE new == NewRow(db, c, n)
           k == Len(db.rows) + 1
<1>1. /\ db.rows \in Seq(Row) /\ Len(db.rows) \in Nat /\ DOMAIN db.rows = 1 .. Len(db.rows)
      /\ \A i \in DOMAIN db.rows : db.rows[i] \in Row
      /\ saved.rows \in Seq(Row) /\ \A i \in DOMAIN saved.rows : saved.rows[i] \in Row
      /\ db.next \in Nat
  BY DEF TypeOK
<1>2. /\ new.id = db.next /\ new.born = born + 1 /\ new.total = n /\ new.used = 0
      /\ n \in Nat /\ born + 1 \in 1 .. MaxRows /\ born \in Nat
  BY WelfareAssumption DEF NewRow, Create, TypeOK
<1>3. /\ db'.rows = Append(db.rows, new) /\ db'.next = db.next + 1
      /\ born' = born + 1 /\ limit' = [limit EXCEPT ![born + 1] = n]
      /\ UNCHANGED <<saved, draft, accepted, setbacks>>
  BY <1>1 DEF Create, NextRow, TypeOK
<1>4. \A q \in Row : q.id \in Nat /\ q.born \in 1 .. MaxRows
  BY DEF Row
<1>5. /\ setbacks \in Nat /\ born \in Nat
      /\ \A b \in 1 .. MaxRows : limit[b] \in Nat /\ limit'[b] \in Nat /\ accepted[b] \in Nat
      /\ \A b \in 1 .. MaxRows : b # born + 1 => limit'[b] = limit[b]
      /\ limit'[born + 1] = n /\ accepted[born + 1] = 0
  <2>1. setbacks \in Nat
    BY WelfareAssumption DEF TypeOK
  <2>2. \A b \in 1 .. MaxRows : limit[b] \in Nat /\ limit'[b] \in Nat /\ accepted[b] \in Nat
    BY DEF TypeOK
  <2>3. /\ \A b \in 1 .. MaxRows : b # born + 1 => limit'[b] = limit[b]
        /\ limit'[born + 1] = n
    BY <1>2, <1>3 DEF TypeOK
  <2>4. accepted[born + 1] = 0
    BY <1>2 DEF Budget
  <2> QED BY <1>2, <2>1, <2>2, <2>3, <2>4
<1> HIDE DEF new, Row
<1>6. /\ DOMAIN db'.rows = 1 .. k /\ db'.rows[k] = new /\ k \in Nat
      /\ \A i \in DOMAIN db.rows : db'.rows[i] = db.rows[i]
      /\ \A i \in DOMAIN db'.rows : i \in DOMAIN db.rows \/ i = k
  BY <1>1, <1>3
<1> HIDE DEF k
<1>7. \A q \in Row : Bounded(q) =>
          /\ q.born <= born' /\ q.total <= limit'[q.born] /\ q.used <= limit'[q.born]
          /\ limit'[q.born] = limit[q.born]
  BY <1>3, <1>4, <1>5 DEF Bounded
<1>8. \A i \in DOMAIN db.rows : db.rows[i].born # new.born /\ db.rows[i].id # new.id
  BY <1>1, <1>2, <1>4 DEF Budget, Bounded, Distinct
<1>9. Distinct(db)'
  <2>1. \A i, j \in DOMAIN db'.rows :
          db'.rows[i].id = db'.rows[j].id \/ db'.rows[i].born = db'.rows[j].born => i = j
    BY <1>6, <1>8 DEF Budget, Distinct
  <2>2. \A i \in DOMAIN db.rows : db.rows[i].id < db.next /\ db.rows[i].id \in Nat
    BY <1>1, <1>4 DEF Budget, Distinct
  <2>3. \A i \in DOMAIN db'.rows : db'.rows[i].id < db'.next
    BY <1>1, <1>2, <1>3, <1>6, <2>2
  <2> QED BY <2>1, <2>3 DEF Distinct
<1>10. ASSUME NEW i \in DOMAIN db'.rows PROVE Bounded(db.rows[i])' /\ Spent(db.rows[i])'
  <2>1. CASE i \in DOMAIN db.rows
    BY <2>1, <1>1, <1>3, <1>6, <1>7 DEF Budget, Bounded, Spent
  <2>2. CASE i = k
    <3>1. limit'[born + 1] * setbacks \in Nat
      BY <1>2, <1>5, Products
    <3>2. /\ new.born <= born' /\ new.total <= limit'[new.born] /\ new.used <= limit'[new.born]
          /\ accepted[new.born] <= limit'[new.born] * setbacks + new.used
      BY <1>2, <1>3, <1>5, <3>1
    <3> QED BY <2>2, <3>2, <1>3, <1>6 DEF Bounded, Spent
  <2> QED BY <2>1, <2>2, <1>6
<1>11. \A i \in DOMAIN saved'.rows : Bounded(saved.rows[i])'
  BY <1>1, <1>3, <1>7 DEF Budget, Bounded
<1>12. DraftIsOld'
  <2> SUFFICES ASSUME draft # NoRow
               PROVE  /\ Bounded(draft)' /\ draft.id < db'.next
                      /\ \A i \in DOMAIN db'.rows :
                            db'.rows[i].id = draft.id => db'.rows[i].born = draft.born
    BY <1>3 DEF DraftIsOld
  <2>1. draft \in Row /\ Bounded(draft) /\ draft.id < db.next
    BY DEF TypeOK, Budget, DraftIsOld
  <2>2. draft.id < db'.next /\ new.id # draft.id
    BY <1>1, <1>2, <1>3, <1>4, <2>1
  <2>3. Bounded(draft)'
    BY <1>3, <1>7, <2>1 DEF Bounded
  <2>4. \A i \in DOMAIN db.rows : db.rows[i].id = draft.id => db.rows[i].born = draft.born
    BY DEF Budget, DraftIsOld
  <2> QED BY <1>6, <2>2, <2>3, <2>4
<1>13. AcceptedWithinLimit'
  <2> SUFFICES ASSUME NEW b \in 1 .. MaxRows
               PROVE  accepted'[b] <= limit'[b] * (1 + setbacks')
    BY DEF AcceptedWithinLimit
  <2>1. CASE b = born + 1
    BY <2>1, <1>2, <1>3, <1>5, Products
  <2>2. CASE b # born + 1
    BY <2>2, <1>3, <1>5 DEF Budget, AcceptedWithinLimit
  <2> QED BY <2>1, <2>2
<1>14. \A b \in 1 .. MaxRows : b > born' => accepted'[b] = 0
  BY <1>2, <1>3 DEF Budget
<1>15. Distinct(saved)'
  BY <1>3 DEF Budget, Distinct
<1> QED BY <1>9, <1>10, <1>11, <1>12, <1>13, <1>14, <1>15 DEF Budget

\* A crash brings back rows that are within their limits, and counts as a
\* setback.
LEMMA CrashKeeps == ASSUME TypeOK, TypeOK', Budget, Crash PROVE Budget'
<1>1. /\ saved.rows \in Seq(Row) /\ \A i \in DOMAIN saved.rows : saved.rows[i] \in Row
  BY DEF TypeOK
<1>2. /\ db' = saved /\ saved' = saved /\ setbacks' = setbacks + 1 /\ draft' = NoRow
      /\ born' = born /\ accepted' = accepted /\ limit' = limit
  BY DEF Crash, Restart
<1>3. /\ setbacks \in Nat
      /\ \A b \in 1 .. MaxRows : limit[b] \in Nat /\ accepted[b] \in Nat
  BY WelfareAssumption DEF TypeOK
<1>4. \A b \in 1 .. MaxRows : accepted[b] <= limit[b] * (setbacks + 1)
  BY <1>3 DEF Budget, AcceptedWithinLimit
<1>5. \A q \in Row : q.born \in 1 .. MaxRows /\ q.used \in Nat
  BY DEF Row
<1> HIDE DEF Row
<1>6. ASSUME NEW i \in DOMAIN db'.rows PROVE Bounded(db.rows[i])' /\ Spent(db.rows[i])'
  <2> DEFINE q == saved.rows[i]
  <2>1. q \in Row /\ Bounded(q) /\ q.born \in 1 .. MaxRows /\ q.used \in Nat
    BY <1>1, <1>2, <1>5, <1>6 DEF Budget
  <2> HIDE DEF q
  <2>2. limit[q.born] * (setbacks + 1) \in Nat
    BY <1>3, <2>1, Products
  <2>3. accepted[q.born] <= limit[q.born] * (setbacks + 1) + q.used
    BY <1>3, <1>4, <2>1, <2>2
  <2> QED BY <1>2, <2>1, <2>3 DEF Bounded, Spent, q
<1>7. \A i \in DOMAIN saved'.rows : Bounded(saved.rows[i])'
  BY <1>2 DEF Budget, Bounded
<1>8. AcceptedWithinLimit'
  BY <1>2, <1>3, LimitGrows DEF Budget, AcceptedWithinLimit
<1>9. DraftIsOld'
  BY <1>2 DEF DraftIsOld
<1>10. /\ Distinct(db)' /\ Distinct(saved)'
       /\ \A b \in 1 .. MaxRows : b > born' => accepted'[b] = 0
  BY <1>2 DEF Budget, Distinct
<1> QED BY <1>6, <1>7, <1>8, <1>9, <1>10 DEF Budget

\* A new container begins with no rows, and counts as a setback.
LEMMA ReplaceContainerKeeps == ASSUME TypeOK, TypeOK', Budget, Replace PROVE Budget'
<1>1. /\ setbacks' = setbacks + 1 /\ setbacks \in Nat /\ setbacks' \in Nat /\ setbacks <= setbacks'
  BY WelfareAssumption DEF Replace, Restart, TypeOK
<1>2. /\ DOMAIN db'.rows = {} /\ DOMAIN saved'.rows = {} /\ draft' = NoRow
      /\ born' = born /\ accepted' = accepted /\ limit' = limit
  BY DEF Replace, Restart, Empty
<1>3. \A b \in 1 .. MaxRows : limit[b] \in Nat /\ accepted[b] \in Nat
  BY DEF TypeOK
<1>4. AcceptedWithinLimit'
  BY <1>1, <1>2, <1>3, LimitGrows DEF Budget, AcceptedWithinLimit
<1> QED BY <1>2, <1>4 DEF Budget, Distinct, DraftIsOld

\* Every step that changes the table replaces a row, adds one, keeps some or
\* brings the file back.
LEMMA UseIs ==
    ASSUME TypeOK, NEW c \in Names, Use(c)
    PROVE  \E k \in DOMAIN db.rows :
              LET r == [db.rows[k] EXCEPT !.used = @ + 1] IN
              /\ HasLeft(db.rows[k])
              /\ r \in Row /\ r.id = db.rows[k].id /\ r.born = db.rows[k].born
              /\ r.used = db.rows[k].used + 1 /\ r.total = db.rows[k].total
              /\ db' = [db EXCEPT !.rows = Updated(@, r.id, r)]
              /\ accepted' = [accepted EXCEPT ![r.born] = @ + 1]
<1>1. PICK k \in DOMAIN db.rows :
        /\ HasLeft(db.rows[k])
        /\ db' = [db EXCEPT !.rows = Updated(@, db.rows[k].id, [db.rows[k] EXCEPT !.used = @ + 1])]
        /\ accepted' = [accepted EXCEPT ![db.rows[k].born] = @ + 1]
  BY DEF Use, Valid, FindByCode, Matches
<1> DEFINE r == [db.rows[k] EXCEPT !.used = @ + 1]
<1>2. db.rows[k] \in Row
  BY DEF TypeOK
<1>3. db.rows[k].used + 1 \in Nat
  BY <1>2 DEF Row
<1>4. r \in Row /\ r.id = db.rows[k].id /\ r.born = db.rows[k].born
      /\ r.used = db.rows[k].used + 1 /\ r.total = db.rows[k].total
  BY <1>2, <1>3 DEF Row
<1> QED BY <1>1, <1>4

LEMMA PutIs ==
    ASSUME TypeOK, NEW k \in DOMAIN db.rows, NEW n \in Counts, Put(k, n)
    PROVE  LET r == Changed(db.rows[k], n) IN
           /\ r \in Row /\ r.id = db.rows[k].id /\ r.born = db.rows[k].born
           /\ r.used = db.rows[k].used /\ r.total = n
           /\ db' = [db EXCEPT !.rows = Updated(@, r.id, r)]
<1>1. db.rows[k] \in Row
  BY DEF TypeOK
<1> QED BY <1>1 DEF Changed, Row, Put

LEMMA ListIs ==
    ASSUME TypeOK, List
    PROVE  \E p \in [DOMAIN db'.rows -> DOMAIN db.rows] :
              /\ \A i, j \in DOMAIN db'.rows : p[i] = p[j] => i = j
              /\ \A i \in DOMAIN db'.rows : db'.rows[i] = db.rows[p[i]]
              /\ db'.next = db.next
<1>1. PICK s \in Sorted(db.rows) : db' = [db EXCEPT !.rows = s]
  BY DEF List
<1>2. db'.rows = s /\ db'.next = db.next /\ db.rows \in Seq(Row)
  BY <1>1 DEF TypeOK
<1>3. PICK p \in [DOMAIN db.rows -> DOMAIN db.rows] :
        /\ \A i, j \in DOMAIN db.rows : p[i] = p[j] => i = j
        /\ DOMAIN s = DOMAIN db.rows
        /\ \A i \in DOMAIN db.rows : s[i] = db.rows[p[i]]
  BY <1>2, SortedRows
<1>4. DOMAIN db'.rows = DOMAIN db.rows
  BY <1>2, <1>3
<1>5. /\ p \in [DOMAIN db'.rows -> DOMAIN db.rows]
      /\ \A i, j \in DOMAIN db'.rows : p[i] = p[j] => i = j
  BY <1>3, <1>4
<1>6. \A i \in DOMAIN db'.rows : db'.rows[i] = db.rows[p[i]]
  BY <1>2, <1>3, <1>4
<1> QED BY <1>2, <1>5, <1>6

LEMMA DeleteIs ==
    ASSUME TypeOK, NEW k \in DOMAIN db.rows, Delete(k)
    PROVE  \E p \in [DOMAIN db'.rows -> DOMAIN db.rows] :
              /\ \A i, j \in DOMAIN db'.rows : p[i] = p[j] => i = j
              /\ \A i \in DOMAIN db'.rows : db'.rows[i] = db.rows[p[i]]
              /\ db'.next = db.next
<1>1. db' = [db EXCEPT !.rows = RemoveAt(@, k)] /\ db.rows \in Seq(Row)
  BY DEF Delete, TypeOK
<1>2. /\ DOMAIN db'.rows = 1 .. Len(db.rows) - 1 /\ db'.next = db.next
      /\ \A i \in 1 .. Len(db.rows) - 1 :
            db'.rows[i] = IF i < k THEN db.rows[i] ELSE db.rows[i + 1]
  BY <1>1, RemovedRows DEF TypeOK
<1>3. DOMAIN db.rows = 1 .. Len(db.rows) /\ Len(db.rows) \in Nat
  BY <1>1
<1> DEFINE p == [i \in 1 .. Len(db.rows) - 1 |-> IF i < k THEN i ELSE i + 1]
<1>4. p \in [DOMAIN db'.rows -> DOMAIN db.rows]
  BY <1>2, <1>3
<1>5. \A i, j \in DOMAIN db'.rows : p[i] = p[j] => i = j
  BY <1>2, <1>3
<1>6. \A i \in DOMAIN db'.rows : db'.rows[i] = db.rows[p[i]]
  BY <1>2, <1>3
<1> QED BY <1>2, <1>4, <1>5, <1>6

\* The whole row that was read is written back, if it is still there.
LEMMA PutBackKeeps ==
    ASSUME TypeOK, TypeOK', Budget, NEW n \in Counts, PutBack(n)
    PROVE  Budget'
<1> DEFINE r == [draft EXCEPT !.total = n]
           b == draft.born
<1>1. draft \in Row /\ draft # NoRow /\ n \in Nat
  BY WelfareAssumption DEF PutBack, TypeOK
<1>2. /\ r \in Row /\ r.id = draft.id /\ r.born = b /\ r.used = draft.used /\ r.total = n
      /\ b \in 1 .. MaxRows /\ r.used \in Nat
  BY <1>1 DEF Row
<1>3. /\ db' = [db EXCEPT !.rows = Updated(@, r.id, r)]
      /\ limit' = [limit EXCEPT ![b] = Highest(@, n)]
      /\ setbacks' = setbacks + 1 /\ draft' = NoRow
      /\ saved' = saved /\ born' = born /\ accepted' = accepted
  BY <1>2 DEF PutBack
<1> HIDE DEF r, b, Row
<1>4. /\ setbacks \in Nat /\ setbacks' \in Nat /\ setbacks <= setbacks'
      /\ \A d \in 1 .. MaxRows : limit[d] \in Nat /\ limit'[d] \in Nat /\ accepted[d] \in Nat
  <2>1. setbacks \in Nat
    BY WelfareAssumption DEF TypeOK
  <2>2. setbacks' \in Nat /\ setbacks <= setbacks'
    BY <1>3, <2>1
  <2>3. \A d \in 1 .. MaxRows : limit[d] \in Nat /\ limit'[d] \in Nat /\ accepted[d] \in Nat
    BY DEF TypeOK
  <2> QED BY <2>1, <2>2, <2>3
<1>5. ASSUME NEW d \in 1 .. MaxRows PROVE limit[d] <= limit'[d]
  <2>1. limit'[d] = IF d = b THEN Highest(limit[d], n) ELSE limit[d]
    BY <1>3 DEF TypeOK
  <2> QED BY <1>1, <1>4, <2>1 DEF Highest
<1>6. r.total <= limit'[b] /\ r.used <= limit'[b]
  <2>1. limit'[b] = Highest(limit[b], n)
    BY <1>2, <1>3 DEF TypeOK
  <2>2. r.used <= limit[b]
    BY <1>1, <1>2 DEF Budget, DraftIsOld, Bounded, b
  <2> QED BY <1>1, <1>2, <1>4, <2>1, <2>2 DEF Highest
<1>7. accepted'[b] <= limit'[b] * setbacks' + r.used
  <2>1. accepted'[b] <= limit'[b] * (1 + setbacks)
    <3>1. accepted[b] <= limit[b] * (1 + setbacks) /\ (1 + setbacks) \in Nat
      BY <1>2, <1>4 DEF Budget, AcceptedWithinLimit
    <3>2. limit[b] * (1 + setbacks) \in Nat /\ limit'[b] * (1 + setbacks) \in Nat
          /\ limit[b] * (1 + setbacks) <= limit'[b] * (1 + setbacks)
      BY <1>2, <1>4, <1>5, <3>1, Products
    <3> QED BY <1>2, <1>3, <1>4, <3>1, <3>2
  <2>2. setbacks' = 1 + setbacks
    BY <1>3, <1>4
  <2>3. limit'[b] * setbacks' \in Nat
    BY <1>2, <1>4, Products
  <2> QED BY <1>2, <1>3, <1>4, <2>1, <2>2, <2>3
<1>8. CASE \E k \in DOMAIN db.rows : db.rows[k].id = r.id
  <2>1. PICK k \in DOMAIN db.rows : db.rows[k].id = r.id
    BY <1>8
  <2>2. db.rows[k].born = r.born
    BY <1>1, <1>2, <2>1 DEF Budget, DraftIsOld, b
  <2>3. \A d \in 1 .. MaxRows : d # r.born => accepted'[d] = accepted[d]
    BY <1>3
  <2>4. accepted'[r.born] <= limit'[r.born] * setbacks' + r.used
        /\ r.total <= limit'[r.born] /\ r.used <= limit'[r.born]
    BY <1>2, <1>6, <1>7
  <2> QED BY <1>2, <1>3, <1>4, <1>5, <2>1, <2>2, <2>3, <2>4, ReplaceKeeps
<1>9. CASE ~\E k \in DOMAIN db.rows : db.rows[k].id = r.id
  <2>1. /\ db.rows \in Seq(Row) /\ \A i \in DOMAIN db.rows : db.rows[i] \in Row
        /\ \A i \in DOMAIN saved.rows : saved.rows[i] \in Row
    BY DEF TypeOK
  <2>2. db'.rows = db.rows /\ db'.next = db.next
    <3>1. Updated(db.rows, r.id, r) = [i \in DOMAIN db.rows |-> db.rows[i]]
      BY <1>9 DEF Updated
    <3>2. [i \in DOMAIN db.rows |-> db.rows[i]] = db.rows
      BY <2>1
    <3> QED BY <1>3, <3>1, <3>2 DEF TypeOK
  <2>3. \A q \in Row : q.born \in 1 .. MaxRows /\ q.total \in Nat /\ q.used \in Nat
    BY WelfareAssumption DEF Row
  <2>4. ASSUME NEW q \in Row, Bounded(q)
        PROVE  q.born <= born' /\ q.total <= limit'[q.born] /\ q.used <= limit'[q.born]
    BY <1>3, <1>4, <1>5, <2>3, <2>4 DEF Bounded
  <2>5. ASSUME NEW q \in Row, Spent(q)
        PROVE  accepted'[q.born] <= limit'[q.born] * setbacks' + q.used
    <3>1. limit[q.born] * setbacks \in Nat /\ limit'[q.born] * setbacks' \in Nat
          /\ limit[q.born] * setbacks <= limit'[q.born] * setbacks'
      BY <1>4, <1>5, <2>3, Products
    <3> QED BY <1>3, <1>4, <2>3, <2>5, <3>1 DEF Spent
  <2>6. \A i \in DOMAIN db'.rows : Bounded(db.rows[i])' /\ Spent(db.rows[i])'
    BY <2>1, <2>2, <2>4, <2>5 DEF Budget, Bounded, Spent
  <2>7. \A i \in DOMAIN saved'.rows : Bounded(saved.rows[i])'
    BY <1>3, <2>1, <2>4 DEF Budget, Bounded
  <2>8. AcceptedWithinLimit'
    BY <1>3, <1>4, <1>5, LimitGrows DEF Budget, AcceptedWithinLimit
  <2> QED BY <1>3, <2>2, <2>6, <2>7, <2>8 DEF Budget, Distinct, DraftIsOld
<1> QED BY <1>8, <1>9

LEMMA NextBudget == TypeOK /\ TypeOK' /\ Budget /\ [Next]_vars => Budget'
<1> SUFFICES ASSUME TypeOK, TypeOK', Budget, [Next]_vars PROVE Budget'
  OBVIOUS
<1>1. /\ setbacks \in Nat /\ db.rows \in Seq(Row)
      /\ \A i \in DOMAIN db.rows : db.rows[i] \in Row
      /\ \A b \in 1 .. MaxRows : limit[b] \in Nat /\ limit'[b] \in Nat /\ accepted[b] \in Nat
  <2>1. setbacks \in Nat
    BY WelfareAssumption DEF TypeOK
  <2>2. db.rows \in Seq(Row)
    BY DEF TypeOK
  <2>3. \A b \in 1 .. MaxRows : limit[b] \in Nat /\ limit'[b] \in Nat /\ accepted[b] \in Nat
    BY DEF TypeOK
  <2> QED BY <2>1, <2>2, <2>3
<1>2. \A q \in Row : q.born \in 1 .. MaxRows /\ q.total \in Nat /\ q.used \in Nat
  BY WelfareAssumption DEF Row
<1> HIDE DEF Row
<1>3. ASSUME NEW c \in Names, Use(c) PROVE Budget'
  <2>1. PICK k \in DOMAIN db.rows, r \in Row :
          /\ HasLeft(db.rows[k])
          /\ r.id = db.rows[k].id /\ r.born = db.rows[k].born
          /\ r.used = db.rows[k].used + 1 /\ r.total = db.rows[k].total
          /\ db' = [db EXCEPT !.rows = Updated(@, r.id, r)]
          /\ accepted' = [accepted EXCEPT ![r.born] = @ + 1]
    BY <1>3, UseIs
  <2>2. UNCHANGED <<saved, born, draft, limit, setbacks>>
    BY <1>3 DEF Use
  <2>3. Bounded(db.rows[k]) /\ Spent(db.rows[k]) /\ db.rows[k] \in Row
    BY <1>1 DEF Budget
  <2>4. r.total <= limit[r.born] /\ r.used <= limit[r.born]
    BY <1>1, <1>2, <2>1, <2>3 DEF Bounded, HasLeft
  <2>5. accepted'[r.born] = accepted[r.born] + 1
    BY <1>1, <1>2, <2>1 DEF TypeOK
  <2>6. accepted'[r.born] <= limit'[r.born] * setbacks' + r.used
    <3>1. r.born \in 1 .. MaxRows /\ db.rows[k].used \in Nat /\ setbacks <= setbacks
      BY <1>1, <1>2
    <3>2. limit[r.born] * setbacks \in Nat /\ accepted[r.born] \in Nat
      BY <1>1, <3>1, Products
    <3>3. accepted[r.born] <= limit[r.born] * setbacks + db.rows[k].used
      BY <2>1, <2>3 DEF Spent
    <3>4. limit'[r.born] * setbacks' = limit[r.born] * setbacks
      BY <2>2
    <3> QED BY <2>1, <2>5, <3>1, <3>2, <3>3, <3>4
  <2>7. /\ setbacks <= setbacks' /\ \A b \in 1 .. MaxRows : limit[b] <= limit'[b]
        /\ r.total <= limit'[r.born] /\ r.used <= limit'[r.born]
        /\ \A b \in 1 .. MaxRows : b # r.born => accepted'[b] = accepted[b]
    BY SMTT(20), <1>1, <2>1, <2>2, <2>4 DEF TypeOK
  <2> QED BY <2>1, <2>2, <2>6, <2>7, ReplaceKeeps
<1>4. ASSUME NEW k \in DOMAIN db.rows, NEW n \in Counts, Put(k, n) PROVE Budget'
  <2>1. PICK r \in Row :
          /\ r.id = db.rows[k].id /\ r.born = db.rows[k].born
          /\ r.used = db.rows[k].used /\ r.total = n
          /\ db' = [db EXCEPT !.rows = Updated(@, r.id, r)]
    BY <1>4, PutIs
  <2>2. /\ UNCHANGED <<saved, born, draft, accepted, setbacks>>
        /\ limit' = [limit EXCEPT ![r.born] = Highest(@, n)]
    BY <1>4, <2>1 DEF Put
  <2>3. Bounded(db.rows[k]) /\ Spent(db.rows[k]) /\ db.rows[k] \in Row /\ n \in Nat
    BY <1>1, WelfareAssumption DEF Budget
  <2>4. limit'[r.born] = Highest(limit[r.born], n) /\ r.born \in 1 .. MaxRows
    BY <1>2, <2>2 DEF TypeOK
  <2>5. ASSUME NEW b \in 1 .. MaxRows PROVE limit[b] <= limit'[b]
    <3>1. limit'[b] = IF b = r.born THEN Highest(limit[b], n) ELSE limit[b]
      BY <2>2 DEF TypeOK
    <3> QED BY <1>1, <2>3, <3>1 DEF Highest
  <2>6. r.total <= limit'[r.born] /\ r.used <= limit'[r.born]
    BY <1>1, <1>2, <2>1, <2>3, <2>4 DEF Bounded, Highest
  <2>7. accepted'[r.born] <= limit'[r.born] * setbacks' + r.used
    <3>1. setbacks <= setbacks
      BY <1>1
    <3>2. limit[r.born] * setbacks \in Nat /\ limit'[r.born] * setbacks \in Nat
          /\ limit[r.born] * setbacks <= limit'[r.born] * setbacks
      BY <1>1, <2>4, <2>5, <3>1, Products
    <3>3. accepted[r.born] <= limit[r.born] * setbacks + r.used
      BY <2>1, <2>3 DEF Spent
    <3>4. accepted'[r.born] = accepted[r.born] /\ setbacks' = setbacks
          /\ r.used \in Nat /\ accepted[r.born] \in Nat
      BY <1>1, <1>2, <2>2, <2>4
    <3> QED BY <3>2, <3>3, <3>4
  <2>8. setbacks <= setbacks' /\ \A b \in 1 .. MaxRows : accepted'[b] = accepted[b]
    BY <1>1, <2>2
  <2> QED BY <2>1, <2>2, <2>5, <2>6, <2>7, <2>8, ReplaceKeeps
<1>5. CASE List
  BY <1>5, ListIs, SelectKeeps DEF List
<1>6. ASSUME NEW k \in DOMAIN db.rows, Delete(k) PROVE Budget'
  BY <1>6, DeleteIs, SelectKeeps DEF Delete
<1>7. ASSUME NEW k \in DOMAIN db.rows, Read(k) PROVE Budget'
  <2>1. draft' = db.rows[k] /\ UNCHANGED <<db, saved, born, accepted, limit, setbacks>>
    BY <1>7 DEF Read
  <2>2. Bounded(db.rows[k]) /\ db.rows[k].id < db.next
        /\ \A i \in DOMAIN db.rows : db.rows[i].id = db.rows[k].id => i = k
    BY DEF Budget, Distinct
  <2>3. DraftIsOld'
    BY <2>1, <2>2 DEF DraftIsOld, Bounded
  <2> QED BY <2>1, <2>3 DEF Budget, AcceptedWithinLimit, Distinct, Bounded, Spent
<1>8. CASE Flush
  BY <1>8 DEF Flush, Budget, AcceptedWithinLimit, Distinct, Bounded, Spent, DraftIsOld
<1>9. CASE UNCHANGED vars
  BY <1>9 DEF vars, Budget, AcceptedWithinLimit, Distinct, Bounded, Spent, DraftIsOld
<1> QED
  BY <1>3, <1>4, <1>5, <1>6, <1>7, <1>8, <1>9, CreateKeeps, CrashKeeps,
     ReplaceContainerKeeps, PutBackKeeps DEF Next

LEMMA BudgetAlways == Spec => []Budget
<1>1. Init => Budget
  BY WelfareAssumption DEF Init, Empty, Budget, AcceptedWithinLimit, Distinct, DraftIsOld
<1> QED BY <1>1, NextBudget, WelfareTypeCorrect, PTL DEF Spec

\* useCode accepts a code at most as often as its total count says between two
\* setbacks, whichever of several rows with the code counts at the time.
THEOREM AcceptedWithin == Spec => []AcceptedWithinLimit
BY BudgetAlways, PTL DEF Budget

\* A code that has run out is not usable again by any edit or read that leaves
\* its total count and its uses alone.
THEOREM RaisingReopens == Spec => OnlyRaisingReopens
<1> DEFINE Stays ==
      \A i \in DOMAIN db.rows, j \in DOMAIN db'.rows :
          LET now == db.rows[i] later == db'.rows[j] IN
          later.born = now.born /\ setbacks' = setbacks /\ ~HasLeft(now) /\ HasLeft(later)
              => later.total > now.total
<1>1. TypeOK /\ Budget /\ [Next]_vars => [Stays]_vars
  <2> SUFFICES ASSUME TypeOK, Budget, [Next]_vars,
                      NEW i \in DOMAIN db.rows, NEW j \in DOMAIN db'.rows,
                      db'.rows[j].born = db.rows[i].born, setbacks' = setbacks,
                      ~HasLeft(db.rows[i]), HasLeft(db'.rows[j])
               PROVE  db'.rows[j].total > db.rows[i].total
    OBVIOUS
  <2>1. /\ db.rows \in Seq(Row) /\ \A k \in DOMAIN db.rows : db.rows[k] \in Row
        /\ db.rows[i].total \in Nat /\ db.rows[i].used \in Nat
        /\ setbacks \in Nat
    <3>1. db.rows \in Seq(Row) /\ \A k \in DOMAIN db.rows : db.rows[k] \in Row
      BY DEF TypeOK
    <3>2. \A q \in Row : q.total \in Nat /\ q.used \in Nat
      BY WelfareAssumption DEF Row
    <3>3. setbacks \in Nat
      BY WelfareAssumption DEF TypeOK
    <3> HIDE DEF Row
    <3> QED BY <3>1, <3>2, <3>3
  <2> HIDE DEF Row
  <2>2. \A k \in DOMAIN db.rows : db.rows[k].born = db.rows[i].born => k = i
    BY DEF Budget, Distinct
  <2>3. ~\E k \in DOMAIN db.rows : db'.rows[j] = db.rows[k]
    BY <2>2
  <2>4. ASSUME NEW k \in DOMAIN db.rows, NEW r \in Row, r.id = db.rows[k].id, r.born = db.rows[k].born,
               db' = [db EXCEPT !.rows = Updated(@, r.id, r)]
        PROVE  k = i /\ db'.rows[j] = r
    <3>1. db'.rows = Updated(db.rows, r.id, r)
      BY <2>4 DEF TypeOK
    <3>2. j \in DOMAIN db.rows /\ db'.rows[j] = IF db.rows[j].id = r.id THEN r ELSE db.rows[j]
      BY <2>1, <3>1, UpdatedRows
    <3>3. db'.rows[j] = r
      BY <2>3, <3>2
    <3> QED BY <2>2, <2>4, <3>3
  <2>5. ASSUME NEW c \in Names, Use(c) PROVE FALSE
    <3>1. PICK k \in DOMAIN db.rows, r \in Row :
            /\ HasLeft(db.rows[k])
            /\ r.id = db.rows[k].id /\ r.born = db.rows[k].born
            /\ db' = [db EXCEPT !.rows = Updated(@, r.id, r)]
      BY <2>5, UseIs
    <3> QED BY <2>4, <3>1
  <2>6. ASSUME NEW k \in DOMAIN db.rows, NEW n \in Counts, Put(k, n)
        PROVE  db'.rows[j].total > db.rows[i].total
    <3>1. PICK r \in Row :
            /\ r.id = db.rows[k].id /\ r.born = db.rows[k].born
            /\ r.used = db.rows[k].used /\ r.total = n
            /\ db' = [db EXCEPT !.rows = Updated(@, r.id, r)]
      BY <2>6, PutIs
    <3>2. k = i /\ db'.rows[j] = r
      BY <2>4, <3>1
    <3>3. r.used < n /\ ~(r.used < db.rows[i].total) /\ n \in Nat
      BY <3>1, <3>2, WelfareAssumption DEF HasLeft
    <3> QED BY <2>1, <3>1, <3>2, <3>3
  <2>7. ASSUME NEW c \in Names, NEW n \in Counts, Create(c, n) PROVE FALSE
    <3>1. db'.rows = Append(db.rows, NewRow(db, c, n)) /\ born \in Nat
      BY <2>7, WelfareAssumption DEF Create, NextRow, TypeOK
    <3>2. j \in DOMAIN db.rows \/ db'.rows[j] = NewRow(db, c, n)
      BY <2>1, <3>1
    <3>3. j \in DOMAIN db.rows => db'.rows[j] = db.rows[j]
      BY <2>1, <3>1
    <3>4. db'.rows[j].born = born + 1
      BY <2>3, <3>2, <3>3 DEF NewRow
    <3>5. db.rows[i].born <= born
      BY DEF Budget, Bounded
    <3> QED BY <3>1, <3>4, <3>5
  <2>8. CASE List
    BY <2>3, <2>8, ListIs
  <2>9. ASSUME NEW k \in DOMAIN db.rows, Delete(k) PROVE FALSE
    BY <2>3, <2>9, DeleteIs
  <2>10. ASSUME NEW n \in Counts, PutBack(n) PROVE FALSE
    BY <2>1, <2>10 DEF PutBack
  <2>11. CASE Crash \/ Replace
    BY <2>1, <2>11 DEF Crash, Replace, Restart
  <2>12. ASSUME \/ \E k \in DOMAIN db.rows : Read(k)
                \/ Flush \/ UNCHANGED vars
         PROVE  FALSE
    BY <2>3, <2>12 DEF Read, Flush, vars
  <2> QED BY <2>5, <2>6, <2>7, <2>8, <2>9, <2>10, <2>11, <2>12 DEF Next
<1> HIDE DEF Stays
<1>2. Spec => [][Stays]_vars
  BY <1>1, BudgetAlways, WelfareTypeCorrect, PTL DEF Spec
<1> QED BY <1>2 DEF Stays, OnlyRaisingReopens
-----------------------------------------------------------------------------
(* Implementation of DurableTables: what the repository does to its table  *)
(* is what the store promises its callers.  The store's tables are sets,   *)
(* so that sorting the array in place changes nothing there.               *)

StoreTables == {"welfare_codes"}

TableRows(d) == {[id |-> d.rows[i].id, val |-> d.rows[i]] : i \in DOMAIN d.rows}

StoreOf(d) == [nextIds |-> [t \in StoreTables |-> d.next],
               rows    |-> [t \in StoreTables |-> TableRows(d)]]

Abstract == INSTANCE DurableTables
            WITH Tables <- StoreTables, Values <- Row, mem <- StoreOf(db), durable <- StoreOf(saved)
ImplementsDurableTables == Abstract!Spec

\* Ids begin with 1.
Positive(d) == d.next # 0 /\ \A i \in DOMAIN d.rows : d.rows[i].id # 0

\* The memory e is one that a write may leave behind when it begins with d.
Later(e, d) ==
    /\ d.next <= e.next
    /\ \A i \in DOMAIN e.rows :
          (\E j \in DOMAIN d.rows : e.rows[i].id = d.rows[j].id) \/ d.next <= e.rows[i].id

LEMMA RowsOf ==
    ASSUME NEW d \in Tables
    PROVE  d.next \in Nat /\ \A i \in DOMAIN d.rows : d.rows[i] \in Row /\ d.rows[i].id \in Nat
<1>1. \A r \in Row : r.id \in Nat
  BY DEF Row
<1> HIDE DEF Row
<1>2. d.next \in Nat /\ d.rows \in Seq(Row)
  BY DEF Tables
<1>3. \A i \in DOMAIN d.rows : d.rows[i] \in Row
  BY <1>2
<1> QED BY <1>1, <1>2, <1>3

\* The tables fit the store, and their ids are fresh.
LEMMA StoreOfType ==
    ASSUME NEW d \in Tables, Distinct(d), Positive(d)
    PROVE  StoreOf(d) \in Abstract!StoreData /\ Abstract!FreshIds(StoreOf(d))
<1>1. d.next \in Nat \ {0} /\ \A i \in DOMAIN d.rows : d.rows[i] \in Row /\ d.rows[i].id \in Nat \ {0}
  BY RowsOf DEF Positive
<1>2. \A r \in TableRows(d) : \E i \in DOMAIN d.rows : r = [id |-> d.rows[i].id, val |-> d.rows[i]]
  BY DEF TableRows
<1>3. TableRows(d) \subseteq Abstract!Row
  <2> HIDE DEF Row
  <2> QED BY <1>1, <1>2 DEF Abstract!Row, Abstract!Ids
<1>4. StoreOf(d) \in Abstract!StoreData
  <2>1. StoreOf(d).nextIds \in [StoreTables -> Abstract!Ids]
    BY <1>1 DEF StoreOf, Abstract!Ids
  <2>2. StoreOf(d).rows \in [StoreTables -> SUBSET Abstract!Row]
    BY <1>3 DEF StoreOf
  <2> QED BY <2>1, <2>2 DEF StoreOf, Abstract!StoreData, Abstract!DataOf
<1>5. Abstract!UniqueIds(TableRows(d)) /\ \A r \in TableRows(d) : r.id < d.next
  BY <1>2 DEF Abstract!UniqueIds, Distinct
<1>6. /\ DOMAIN StoreOf(d).rows = StoreTables
      /\ \A t \in StoreTables : StoreOf(d).rows[t] = TableRows(d) /\ StoreOf(d).nextIds[t] = d.next
  BY DEF StoreOf
<1> HIDE DEF StoreOf
<1> QED BY <1>4, <1>5, <1>6 DEF Abstract!FreshIds

LEMMA LaterFollows ==
    ASSUME NEW d, NEW e, Later(e, d)
    PROVE  Abstract!Follows(StoreOf(e), StoreOf(d))
<1>1. \A r \in TableRows(e) : \E i \in DOMAIN e.rows : r = [id |-> e.rows[i].id, val |-> e.rows[i]]
  BY DEF TableRows
<1>2. \A j \in DOMAIN d.rows : \E r \in TableRows(d) : r.id = d.rows[j].id
  <2>1. \A j \in DOMAIN d.rows : [id |-> d.rows[j].id, val |-> d.rows[j]] \in TableRows(d)
    BY DEF TableRows
  <2>2. \A j \in DOMAIN d.rows : [id |-> d.rows[j].id, val |-> d.rows[j]].id = d.rows[j].id
    OBVIOUS
  <2> QED BY <2>1, <2>2
<1>3. \A r \in TableRows(e) : r.id \in Abstract!RowIds(TableRows(d)) \/ d.next <= r.id
  BY <1>1, <1>2 DEF Later, Abstract!RowIds
<1>4. \A t \in StoreTables : /\ StoreOf(d).rows[t] = TableRows(d) /\ StoreOf(d).nextIds[t] = d.next
                             /\ StoreOf(e).rows[t] = TableRows(e) /\ StoreOf(e).nextIds[t] = e.next
  BY DEF StoreOf
<1> HIDE DEF StoreOf
<1> QED BY <1>3, <1>4 DEF Abstract!Follows, Later

\* update leaves the ids of the rows, whichever row it replaces.
LEMMA UpdateIsLater ==
    ASSUME TypeOK, NEW r \in Row, db' = [db EXCEPT !.rows = Updated(@, r.id, r)]
    PROVE  Later(db', db)
<1>1. db.rows \in Seq(Row) /\ db.next \in Nat
  BY DEF TypeOK
<1>2. db'.rows = Updated(db.rows, r.id, r) /\ db'.next = db.next
  BY DEF TypeOK
<1>3. /\ DOMAIN db'.rows = DOMAIN db.rows
      /\ \A i \in DOMAIN db.rows : db'.rows[i] = IF db.rows[i].id = r.id THEN r ELSE db.rows[i]
  BY <1>1, <1>2, UpdatedRows
<1>4. ASSUME NEW i \in DOMAIN db'.rows
      PROVE  \E j \in DOMAIN db.rows : db'.rows[i].id = db.rows[j].id
  BY <1>3
<1> QED BY <1>1, <1>2, <1>4 DEF Later

\* An empty table is the store's empty data.
LEMMA StoreOfEmpty == Positive(Empty) /\ StoreOf(Empty) = Abstract!DEFAULT_DATA
<1>1. Empty.rows = <<>> /\ Empty.next = 1 /\ DOMAIN Empty.rows = {}
  BY DEF Empty
<1>2. TableRows(Empty) = {}
  BY <1>1 DEF TableRows
<1> HIDE DEF Empty, TableRows
<1> QED BY <1>1, <1>2 DEF Positive, StoreOf, Abstract!DEFAULT_DATA

LEMMA CodeSteps ==
    ASSUME TypeOK, [Next]_vars
    PROVE  \/ Later(db', db) /\ saved' = saved
           \/ saved' = db /\ db' = db
           \/ db' = saved /\ saved' = saved
           \/ db' = Empty /\ saved' = Empty
<1>1. db.rows \in Seq(Row) /\ db.next \in Nat /\ \A i \in DOMAIN db.rows : db.rows[i] \in Row
  BY DEF TypeOK
<1>2. ASSUME NEW c \in Names, Use(c) PROVE Later(db', db) /\ saved' = saved
  <2>1. PICK r \in Row : db' = [db EXCEPT !.rows = Updated(@, r.id, r)]
    BY <1>2, UseIs
  <2> QED BY <1>2, <2>1, UpdateIsLater DEF Use
<1>3. ASSUME NEW k \in DOMAIN db.rows, NEW n \in Counts, Put(k, n)
      PROVE  Later(db', db) /\ saved' = saved
  <2>1. PICK r \in Row : db' = [db EXCEPT !.rows = Updated(@, r.id, r)]
    BY <1>3, PutIs
  <2> QED BY <1>3, <2>1, UpdateIsLater DEF Put
<1>4. ASSUME NEW n \in Counts, PutBack(n) PROVE Later(db', db) /\ saved' = saved
  <2> DEFINE r == [draft EXCEPT !.total = n]
  <2>1. draft \in Row
    BY <1>4 DEF PutBack, TypeOK
  <2>2. r \in Row /\ r.id = draft.id
    BY <2>1 DEF Row
  <2>3. db' = [db EXCEPT !.rows = Updated(@, r.id, r)] /\ saved' = saved
    BY <1>4, <2>2 DEF PutBack
  <2> HIDE DEF r, Row
  <2> QED BY <2>2, <2>3, UpdateIsLater
<1>5. ASSUME NEW c \in Names, NEW n \in Counts, Create(c, n) PROVE Later(db', db) /\ saved' = saved
  <2> DEFINE new == NewRow(db, c, n)
  <2>1. /\ db'.rows = Append(db.rows, new) /\ db'.next = db.next + 1 /\ new.id = db.next
        /\ saved' = saved
    BY <1>5 DEF Create, NextRow, NewRow, TypeOK
  <2> HIDE DEF new, Row
  <2>2. \A i \in DOMAIN db'.rows : db'.rows[i] = new \/ (i \in DOMAIN db.rows /\ db'.rows[i] = db.rows[i])
    BY <1>1, <2>1
  <2>3. db.next <= db'.next
    BY <1>1, <2>1
  <2>4. ASSUME NEW i \in DOMAIN db'.rows
        PROVE  (\E j \in DOMAIN db.rows : db'.rows[i].id = db.rows[j].id) \/ db.next <= db'.rows[i].id
    BY <1>1, <2>1, <2>2
  <2> QED BY <2>1, <2>3, <2>4 DEF Later
<1>6. ASSUME List \/ \E k \in DOMAIN db.rows : Delete(k) PROVE Later(db', db) /\ saved' = saved
  <2>1. PICK p \in [DOMAIN db'.rows -> DOMAIN db.rows] :
          (\A i \in DOMAIN db'.rows : db'.rows[i] = db.rows[p[i]]) /\ db'.next = db.next
    BY <1>6, ListIs, DeleteIs
  <2>2. saved' = saved
    BY <1>6 DEF List, Delete
  <2> QED BY <1>1, <2>1, <2>2 DEF Later
<1>7. ASSUME (\E k \in DOMAIN db.rows : Read(k)) \/ UNCHANGED vars PROVE Later(db', db) /\ saved' = saved
  <2>1. db' = db /\ saved' = saved
    BY <1>7 DEF Read, vars
  <2> QED BY <1>1, <2>1 DEF Later
<1> QED BY <1>2, <1>3, <1>4, <1>5, <1>6, <1>7 DEF Next, Flush, Crash, Replace

\* The table of welfare codes is served as the store promises: between two stops
\* of the server no id is handed out twice, the file is only ever replaced by the
\* whole memory, a crash takes the memory back to the file, and a lost container
\* leaves both empty (repositories/welfare_codes.ts).
THEOREM CodesUseTheStore == Spec => ImplementsDurableTables
<1> DEFINE Own == Positive(db) /\ Positive(saved)
<1>1. Init => Own /\ Abstract!Init
  <2> SUFFICES ASSUME Init PROVE Own /\ Abstract!Init
    OBVIOUS
  <2>1. db = saved /\ db \in Tables /\ Distinct(db) /\ Positive(db)
    BY DEF Init, Empty, Tables, Distinct, Positive
  <2>2. StoreOf(db) \in Abstract!StoreData /\ Abstract!FreshIds(StoreOf(db))
    BY <2>1, StoreOfType
  <2> HIDE DEF StoreOf
  <2> QED BY <2>1, <2>2 DEF Abstract!Init
<1>2. ASSUME TypeOK, TypeOK', Budget', Own, [Next]_vars
      PROVE  Own' /\ [Abstract!Next]_<<StoreOf(db), StoreOf(saved)>>
  <2>1. CASE Later(db', db) /\ saved' = saved
    <3>1. db' \in Tables /\ db \in Tables /\ Distinct(db')
      BY <1>2 DEF TypeOK, Budget, Distinct, Tables
    <3>2. Positive(db')
      <4>1. db.next \in Nat /\ db'.next \in Nat /\ \A i \in DOMAIN db'.rows : db'.rows[i].id \in Nat
        BY <3>1, RowsOf
      <4> QED BY <1>2, <2>1, <4>1 DEF Positive, Later
    <3>3. /\ StoreOf(db') \in Abstract!StoreData /\ Abstract!FreshIds(StoreOf(db'))
          /\ Abstract!Follows(StoreOf(db'), StoreOf(db))
      BY <2>1, <3>1, <3>2, StoreOfType, LaterFollows
    <3>4. Own'
      BY <1>2, <2>1, <3>2
    <3> HIDE DEF StoreOf
    <3> QED BY <2>1, <3>3, <3>4 DEF Abstract!Next, Abstract!Write
  <2>2. CASE saved' = db /\ db' = db
    BY <1>2, <2>2 DEF Abstract!Next, Abstract!Sync
  <2>3. CASE db' = saved /\ saved' = saved
    BY <1>2, <2>3 DEF Abstract!Next, Abstract!Lose
  <2>4. CASE db' = Empty /\ saved' = Empty
    <3>1. Positive(Empty) /\ StoreOf(Empty) = Abstract!DEFAULT_DATA
      BY StoreOfEmpty
    <3> HIDE DEF StoreOf
    <3> QED BY <2>4, <3>1 DEF Abstract!Next, Abstract!Vanish
  <2> QED BY <1>2, <2>1, <2>2, <2>3, <2>4, CodeSteps
<1> HIDE DEF Own
<1>3. TypeOK /\ TypeOK' /\ Budget' /\ Own /\ [Next]_vars => Own' /\ [Abstract!Next]_<<StoreOf(db), StoreOf(saved)>>
  BY <1>2
<1> QED BY <1>1, <1>3, WelfareTypeCorrect, BudgetAlways, PTL DEF Spec, ImplementsDurableTables, Abstract!Spec
=============================================================================
