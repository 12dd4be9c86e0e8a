---------------------------- MODULE OrdersProofs ----------------------------
(***************************************************************************)
(* Proofs about Orders for any number of customers, order numbers,         *)
(* remarks, log entries and crashes.                                       *)
(***************************************************************************)
EXTENDS Orders, TLAPS

Fields == {"status", "remark"}

\* What the handlers that change one field of an order do to the memory.
Changes(o, field, value) ==
    /\ db' = [db EXCEPT !.orders = Replaced(o, WithField(o, field, value)),
                        !.logs = Append(@, LogEntry(o, field, value))]
    /\ UNCHANGED <<saved, issued, repeated, deleted, crashes>>

ValueOf(field) == IF field = "status" THEN Statuses ELSE Remarks \cup {NoRemark}

\* Every step is one of seven kinds.
LEMMA Steps ==
    ASSUME [Next]_vars
    PROVE  \/ \E u \in Users, no \in OrderNos : Create(u, no)
           \/ \E o \in db.orders, field \in Fields : \E value \in ValueOf(field) :
                 Changes(o, field, value)
           \/ \E u \in Users, no \in OrderNos : CancelMine(u, no)
           \/ \E no \in OrderNos : Delete(no)
           \/ Flush \/ Crash \/ Replace
           \/ UNCHANGED vars
<1>1. ASSUME NEW u \in Users, NEW no \in OrderNos, Cancel(u, no)
      PROVE  \E o \in db.orders : Changes(o, "status", "CANCELLED")
  BY <1>1 DEF Cancel, ChangeAndLog, Changes, Found
<1>2. ASSUME NEW no \in OrderNos, NEW s \in Statuses, SetStatus(no, s)
      PROVE  \E o \in db.orders : Changes(o, "status", s)
  BY <1>2 DEF SetStatus, ChangeAndLog, Changes, Found
<1>3. ASSUME NEW no \in OrderNos, NEW r \in Remarks \cup {NoRemark}, SetRemark(no, r)
      PROVE  \E o \in db.orders : Changes(o, "remark", r)
  BY <1>3 DEF SetRemark, ChangeAndLog, Changes, Found
<1>4. /\ "status" \in Fields /\ "remark" \in Fields
      /\ ValueOf("status") = Statuses /\ ValueOf("remark") = Remarks \cup {NoRemark}
      /\ "CANCELLED" \in Statuses
  BY DEF Fields, ValueOf, Statuses
<1> QED BY <1>1, <1>2, <1>3, <1>4 DEF Next

\* Changing one field of an order leaves an order.
LEMMA WithFieldType ==
    ASSUME NEW o \in Order, NEW field \in Fields, NEW value \in ValueOf(field)
    PROVE  /\ WithField(o, field, value) \in Order
           /\ WithField(o, field, value).id = o.id
           /\ WithField(o, field, value).no = o.no
           /\ WithField(o, field, value).user = o.user
           /\ OldValue(WithField(o, field, value), field) = value
           /\ \A f \in Fields \ {field} :
                 OldValue(WithField(o, field, value), f) = OldValue(o, f)
BY DEF Order, Fields, ValueOf, WithField, OldValue

LEMMA LogEntryType ==
    ASSUME NEW o \in Order, NEW field \in Fields, NEW value \in ValueOf(field)
    PROVE  LogEntry(o, field, value) \in Entry
BY DEF Order, Fields, ValueOf, LogEntry, OldValue, Entry, Value

LEMMA NextType == TypeOK /\ [Next]_vars => TypeOK'
<1> SUFFICES ASSUME TypeOK, [Next]_vars PROVE TypeOK'
  OBVIOUS
<1>1. ASSUME NEW u \in Users, NEW no \in OrderNos, Create(u, no) PROVE TypeOK'
  <2>1. [id |-> db.next, no |-> no, user |-> u, status |-> "PENDING_PAYMENT",
         remark |-> NoRemark] \in Order
    BY DEF TypeOK, Tables, Order, Statuses
  <2> HIDE DEF Order, Entry
  <2> DEFINE new == [id |-> db.next, no |-> no, user |-> u, status |-> "PENDING_PAYMENT",
                     remark |-> NoRemark]
             orders == db.orders \cup {new}
             next == db.next + 1
  <2>2. orders \subseteq Order /\ next \in Nat
    BY <2>1 DEF TypeOK, Tables
  <2>3. db' = [db EXCEPT !.orders = orders, !.next = next]
    BY <1>1 DEF Create, InsertOrder
  <2> HIDE DEF new, orders, next
  <2>4. db' \in Tables
    BY <2>2, <2>3 DEF TypeOK, Tables
  <2>5. issued' \subseteq OrderNos /\ repeated' \subseteq issued'
    BY <1>1 DEF Create, GenerateOrderNo, TypeOK
  <2> QED BY <1>1, <2>4, <2>5 DEF Create, TypeOK
<1>2. ASSUME NEW o \in db.orders, NEW field \in Fields, NEW value \in ValueOf(field),
             Changes(o, field, value)
      PROVE  TypeOK'
  <2>1. o \in Order
    BY DEF TypeOK, Tables
  <2>2. WithField(o, field, value) \in Order /\ LogEntry(o, field, value) \in Entry
    BY <2>1, WithFieldType, LogEntryType
  <2> HIDE DEF Order, Entry, WithField, LogEntry
  <2>3. Replaced(o, WithField(o, field, value)) \subseteq Order
    BY <2>2 DEF Replaced, TypeOK, Tables
  <2>4. Append(db.logs, LogEntry(o, field, value)) \in Seq(Entry)
    BY <2>2 DEF TypeOK, Tables
  <2>5. db' \in Tables
    BY <1>2, <2>3, <2>4 DEF Changes, TypeOK, Tables
  <2> QED BY <1>2, <2>5 DEF Changes, TypeOK
<1>3. ASSUME NEW u \in Users, NEW no \in OrderNos, CancelMine(u, no) PROVE TypeOK'
  <2>1. PICK o \in db.orders :
          /\ db' = [db EXCEPT !.orders = Replaced(o, WithField(o, "status", "CANCELLED"))]
          /\ UNCHANGED <<saved, issued, repeated, deleted, crashes>>
    BY <1>3 DEF CancelMine, Found
  <2>2. o \in Order
    BY DEF TypeOK, Tables
  <2>3. WithField(o, "status", "CANCELLED") \in Order
    BY <2>2, WithFieldType DEF Fields, ValueOf, Statuses
  <2> HIDE DEF Order, Entry, WithField
  <2>4. Replaced(o, WithField(o, "status", "CANCELLED")) \subseteq Order
    BY <2>3 DEF Replaced, TypeOK, Tables
  <2>5. db' \in Tables
    BY <2>1, <2>4 DEF TypeOK, Tables
  <2> QED BY <2>1, <2>5 DEF TypeOK
<1>4. ASSUME NEW no \in OrderNos, Delete(no) PROVE TypeOK'
  <2>1. PICK o \in db.orders : /\ db' = [db EXCEPT !.orders = @ \ {o}]
                              /\ deleted' = deleted \cup {o.id}
                              /\ UNCHANGED <<saved, issued, repeated, crashes>>
    BY <1>4 DEF Delete, RemoveOrder, Found
  <2>2. o.id \in Nat
    BY DEF TypeOK, Tables, Order
  <2> HIDE DEF Order, Entry
  <2> QED BY <2>1, <2>2 DEF TypeOK, Tables
<1>5. CASE Flush
  BY <1>5 DEF Flush, TypeOK
<1>6. CASE Crash
  BY <1>6, OrdersAssumption DEF Crash, TypeOK
<1>7. CASE Replace
  BY <1>7, OrdersAssumption DEF Replace, Empty, Tables, TypeOK
<1>8. CASE UNCHANGED vars
  BY <1>8 DEF vars, TypeOK
<1> QED BY <1>1, <1>2, <1>3, <1>4, <1>5, <1>6, <1>7, <1>8, Steps

\* The tables, in memory and in the file, and the history of order numbers
\* always have their types: in particular a handler writes a status only to the
\* status of an order.
THEOREM OrdersTypeCorrect == Spec => []TypeOK
<1>1. Init => TypeOK
  BY OrdersAssumption DEF Init, Empty, Tables, TypeOK
<1> QED BY <1>1, NextType, PTL DEF Spec

-----------------------------------------------------------------------------
(* Deletion.                                                               *)

\* An order in the file is in memory, or a handler removed it since the save.
Kept == \A o \in saved.orders : Among(o, db.orders) \/ o.id \in deleted

LEMMA NextKept == TypeOK /\ Kept /\ [Next]_vars => Kept'
<1> SUFFICES ASSUME TypeOK, Kept, [Next]_vars PROVE Kept'
  OBVIOUS
<1>1. ASSUME NEW u \in Users, NEW no \in OrderNos, Create(u, no) PROVE Kept'
  BY <1>1 DEF Create, InsertOrder, TypeOK, Tables, Kept, Among
<1>2. ASSUME NEW o \in db.orders, NEW field \in Fields, NEW value \in ValueOf(field),
             Changes(o, field, value)
      PROVE  Kept'
  <2>1. o \in Order
    BY DEF TypeOK, Tables
  <2>2. /\ WithField(o, field, value).id = o.id /\ WithField(o, field, value).no = o.no
        /\ WithField(o, field, value).user = o.user
    BY <2>1, WithFieldType
  <2>3. /\ db'.orders = (db.orders \ {o}) \cup {WithField(o, field, value)}
        /\ saved' = saved /\ deleted' = deleted
    BY <1>2 DEF Changes, Replaced, TypeOK, Tables
  <2> HIDE DEF WithField
  <2> QED BY <2>2, <2>3 DEF Kept, Among
<1>3. ASSUME NEW u \in Users, NEW no \in OrderNos, CancelMine(u, no) PROVE Kept'
  <2>1. PICK o \in db.orders :
          /\ db' = [db EXCEPT !.orders = Replaced(o, WithField(o, "status", "CANCELLED"))]
          /\ UNCHANGED <<saved, issued, repeated, deleted, crashes>>
    BY <1>3 DEF CancelMine, Found
  <2>2. /\ WithField(o, "status", "CANCELLED").id = o.id
        /\ WithField(o, "status", "CANCELLED").no = o.no
        /\ WithField(o, "status", "CANCELLED").user = o.user
    BY WithFieldType DEF Fields, ValueOf, Statuses, TypeOK, Tables
  <2> HIDE DEF WithField
  <2> QED BY <2>1, <2>2 DEF Replaced, TypeOK, Tables, Kept, Among
<1>4. ASSUME NEW no \in OrderNos, Delete(no) PROVE Kept'
  <2>1. PICK r \in db.orders : /\ db'.orders = db.orders \ {r} /\ saved' = saved
                              /\ deleted' = deleted \cup {r.id}
    BY <1>4 DEF Delete, RemoveOrder, Found, TypeOK, Tables
  <2>2. ASSUME NEW o \in saved.orders, o.id \notin deleted'
        PROVE  Among(o, db'.orders)
    <3>1. PICK p \in db.orders : p.id = o.id /\ p.no = o.no /\ p.user = o.user
      BY <2>1, <2>2 DEF Kept, Among
    <3>2. p # r
      BY <2>1, <2>2, <3>1
    <3> QED BY <2>1, <3>1, <3>2 DEF Among
  <2> QED BY <2>1, <2>2 DEF Kept
<1>5. CASE Flush \/ Crash \/ Replace \/ UNCHANGED vars
  <2>1. CASE Flush \/ Crash \/ Replace
    BY <2>1 DEF Flush, Crash, Replace, Kept, Among
  <2>2. CASE UNCHANGED vars
    BY <2>2 DEF vars, Kept
  <2> QED BY <1>5, <2>1, <2>2
<1> QED BY <1>1, <1>2, <1>3, <1>4, <1>5, Steps

LEMMA KeptAlways == Spec => []Kept
<1>1. Init => Kept
  BY DEF Init, Empty, Kept
<1> QED BY <1>1, NextKept, OrdersTypeCorrect, PTL DEF Spec

\* An order that is in the file leaves it only because DELETE
\* /api/v1/admin/orders/:orderNo removed that very order since the last save,
\* whatever crashes come in between, or with the container's /tmp.
THEOREM OrdersStay == Spec => SavedOrdersStay
<1> DEFINE Stays == saved' # Empty
                      => \A o \in saved.orders : Among(o, saved'.orders) \/ o.id \in deleted
<1>1. Kept /\ [Next]_vars => [Stays]_vars
  <2> SUFFICES ASSUME Kept, [Next]_vars PROVE Stays
    OBVIOUS
  <2>1. saved' = saved \/ saved' = db \/ saved' = Empty
    BY Steps DEF Create, Changes, CancelMine, Delete, Flush, Crash, Replace, vars
  <2> QED BY <2>1 DEF Kept, Among
<1> HIDE DEF Stays
<1>2. Spec => [][Stays]_vars
  BY <1>1, KeptAlways, PTL DEF Spec
<1> QED BY <1>2 DEF Stays, SavedOrdersStay

-----------------------------------------------------------------------------
(* The change log.                                                         *)

\* Appending an entry changes nothing about the positions before it.
LEMMA ReachesBefore ==
    ASSUME NEW log \in Seq(Entry), NEW e \in Entry, NEW no, NEW field, NEW v,
           NEW n \in 1 .. Len(log) + 1
    PROVE  Reaches(Append(log, e), no, field, n, v) <=> Reaches(log, no, field, n, v)
<1>1. \A i \in 1 .. n - 1 : Append(log, e)[i] = log[i]
  OBVIOUS
<1>2. \A i \in 1 .. n - 1 : i + 1 .. n - 1 \subseteq 1 .. n - 1
  OBVIOUS
<1> QED BY <1>1, <1>2 DEF Reaches

\* After an entry about the field, the log reaches the entry's new value.
LEMMA ReachesNew ==
    ASSUME NEW log \in Seq(Entry), NEW e \in Entry
    PROVE  Reaches(Append(log, e), e.no, e.field, Len(log) + 2, e.new)
<1>1. Append(log, e)[Len(log) + 1] = e /\ Len(log) \in Nat
  OBVIOUS
<1>2. About(e, e.no, e.field) /\ Continues(e.new, e.new)
  BY DEF About, Continues
<1>3. Len(log) + 1 \in 1 .. (Len(log) + 2) - 1
  BY <1>1
<1>4. (Len(log) + 1) + 1 .. (Len(log) + 2) - 1 = {}
  BY <1>1
<1> QED BY <1>1, <1>2, <1>3, <1>4 DEF Reaches

\* An entry about something else does not change what the log reaches.
LEMMA ReachesOther ==
    ASSUME NEW log \in Seq(Entry), NEW e \in Entry, NEW no, NEW field, NEW v,
           ~About(e, no, field), Reaches(log, no, field, Len(log) + 1, v)
    PROVE  Reaches(Append(log, e), no, field, Len(log) + 2, v)
<1> DEFINE new == Append(log, e)
           n == Len(log)
<1>1. n \in Nat /\ new[n + 1] = e /\ \A i \in 1 .. n : new[i] = log[i]
  OBVIOUS
<1>2. (n + 1) - 1 = n /\ (n + 2) - 1 = n + 1
  BY <1>1
<1>3. \A k \in 1 .. n + 1 : k \in 1 .. n \/ k = n + 1
  BY <1>1
<1>4. \A i \in 1 .. n : i + 1 .. n \subseteq 1 .. n /\ \A k \in i + 1 .. n + 1 : k \in i + 1 .. n \/ k = n + 1
  BY <1>1
<1>5. 1 .. n \subseteq 1 .. n + 1
  BY <1>1
<1> HIDE DEF new, n
<1>6. CASE \E i \in 1 .. n : /\ About(log[i], no, field) /\ Continues(log[i].new, v)
                           /\ \A k \in i + 1 .. n : ~About(log[k], no, field)
  <2>1. PICK i \in 1 .. n : /\ About(log[i], no, field) /\ Continues(log[i].new, v)
                           /\ \A k \in i + 1 .. n : ~About(log[k], no, field)
    BY <1>6
  <2>2. About(new[i], no, field) /\ Continues(new[i].new, v) /\ i \in 1 .. n + 1
    BY <2>1, <1>1, <1>5
  <2>3. \A k \in i + 1 .. n + 1 : ~About(new[k], no, field)
    BY <2>1, <1>1, <1>4
  <2> QED BY <2>2, <2>3, <1>2 DEF Reaches, new, n
<1>7. CASE /\ \A k \in 1 .. n : ~About(log[k], no, field)
           /\ Continues(Start(field), v)
  <2>1. \A k \in 1 .. n + 1 : ~About(new[k], no, field)
    BY <1>1, <1>3, <1>7
  <2> QED BY <1>2, <1>7, <2>1 DEF Reaches, new, n
<1>8. Reaches(log, no, field, n + 1, v)
  BY DEF n
<1> QED BY <1>2, <1>6, <1>7, <1>8 DEF Reaches

\* The new entry starts where the log ended, so the log still explains the
\* order that was changed, and every order the entry is not about.
LEMMA ExplainsAppend ==
    ASSUME NEW log \in Seq(Entry), NEW e \in Entry, NEW o, NEW new, NEW field,
           Explains(log, o, field), new.no = o.no,
           IF About(e, o.no, field)
           THEN OldValue(o, field) = e.old /\ OldValue(new, field) = e.new
           ELSE OldValue(new, field) = OldValue(o, field)
    PROVE  Explains(Append(log, e), new, field)
<1> DEFINE later == Append(log, e)
<1>1. /\ Len(later) = Len(log) + 1 /\ Len(log) \in Nat /\ later[Len(log) + 1] = e
      /\ \A i \in 1 .. Len(log) : later[i] = log[i]
  OBVIOUS
<1>2. ASSUME NEW j \in 1 .. Len(later), About(later[j], o.no, field)
      PROVE  Reaches(later, o.no, field, j, later[j].old)
  <2>1. CASE j \in 1 .. Len(log)
    <3>1. About(log[j], o.no, field) /\ later[j] = log[j]
      BY <1>1, <1>2, <2>1
    <3>2. Reaches(log, o.no, field, j, log[j].old)
      BY <3>1, <2>1 DEF Explains
    <3>3. j \in 1 .. Len(log) + 1
      BY <1>1, <2>1
    <3> QED BY <3>1, <3>2, <3>3, ReachesBefore
  <2>2. CASE j = Len(log) + 1
    <3>1. Reaches(log, o.no, field, j, e.old)
      BY <1>1, <1>2, <2>2 DEF Explains
    <3>2. j \in 1 .. Len(log) + 1
      BY <1>1, <2>2
    <3> QED BY <1>1, <2>2, <3>1, <3>2, ReachesBefore
  <2> QED BY <1>1, <2>1, <2>2
<1>3. Reaches(later, o.no, field, Len(log) + 2, OldValue(new, field))
  <2>1. CASE About(e, o.no, field)
    BY <2>1, ReachesNew DEF About
  <2>2. CASE ~About(e, o.no, field)
    BY <2>2, ReachesOther DEF Explains
  <2> QED BY <2>1, <2>2
<1>4. Len(later) + 1 = Len(log) + 2
  BY <1>1
<1> HIDE DEF later
<1>5. Explains(later, new, field)
  BY <1>2, <1>3, <1>4 DEF Explains
<1> QED BY <1>5 DEF later

\* Orders and log entries have numbers that were given, and a number that was
\* given once is the number of one order.
Numbered(d) ==
    /\ \A o \in d.orders : o.no \in issued
    /\ \A j \in 1 .. Len(d.logs) : d.logs[j].no \in issued
    /\ \A o, p \in d.orders : o.no = p.no /\ o.no \notin repeated => o = p

Told(d) ==
    \A o \in d.orders, field \in Fields : o.no \notin repeated => Explains(d.logs, o, field)

LogInv == Numbered(db) /\ Numbered(saved) /\ Told(db) /\ Told(saved)

\* Giving a number out keeps what holds of tables that do not change.
LEMMA GenerateKeeps ==
    ASSUME NEW d, NEW no, Numbered(d), Told(d), GenerateOrderNo(no)
    PROVE  /\ \A o \in d.orders : o.no \in issued'
           /\ \A j \in 1 .. Len(d.logs) : d.logs[j].no \in issued'
           /\ \A o, p \in d.orders : o.no = p.no /\ o.no \notin repeated' => o = p
           /\ \A o \in d.orders, field \in Fields :
                 o.no \notin repeated' => Explains(d.logs, o, field)
BY DEF Numbered, Told, GenerateOrderNo

LEMMA CreateKeeps ==
    ASSUME TypeOK, LogInv, NEW u \in Users, NEW no \in OrderNos, Create(u, no)
    PROVE  LogInv'
<1> DEFINE new == [id |-> db.next, no |-> no, user |-> u, status |-> "PENDING_PAYMENT",
                   remark |-> NoRemark]
<1>1. /\ db'.orders = db.orders \cup {new} /\ db'.logs = db.logs
      /\ saved' = saved /\ GenerateOrderNo(no)
  BY DEF Create, InsertOrder, TypeOK, Tables
<1>2. new.no = no /\ OldValue(new, "status") = Start("status")
      /\ OldValue(new, "remark") = Start("remark")
  BY DEF OldValue, Start
<1>3. no \in issued' /\ (no \notin repeated' => no \notin issued)
  BY <1>1 DEF GenerateOrderNo
<1> HIDE DEF new
<1>4. Numbered(saved)' /\ Told(saved)'
  BY <1>1, GenerateKeeps DEF LogInv, Numbered, Told
<1>5. Numbered(db)'
  <2>1. Numbered(db) /\ Told(db)
    BY DEF LogInv
  <2>2. \A o \in db.orders : no \notin repeated' => o.no # no
    BY <1>3, <2>1 DEF Numbered
  <2> QED BY <1>1, <1>2, <1>3, <2>1, <2>2, GenerateKeeps DEF Numbered
<1>6. Told(db)'
  <2>1. \A o \in db.orders, field \in Fields :
          o.no \notin repeated' => Explains(db.logs, o, field)
    BY <1>1, GenerateKeeps DEF LogInv
  <2>2. ASSUME NEW field \in Fields, no \notin repeated' PROVE Explains(db.logs, new, field)
    <3>1. \A j \in 1 .. Len(db.logs) : ~About(db.logs[j], no, field)
      BY <1>3, <2>2 DEF LogInv, Numbered, About
    <3>2. Len(db.logs) \in Nat
      BY DEF TypeOK, Tables
    <3>3. (Len(db.logs) + 1) - 1 = Len(db.logs)
      BY <3>2
    <3>4. Continues(Start(field), OldValue(new, field))
      BY <1>2 DEF Fields, Continues
    <3> QED BY <1>2, <3>1, <3>3, <3>4 DEF Explains, Reaches
  <2> QED BY <1>1, <1>2, <2>1, <2>2 DEF Told
<1> QED BY <1>4, <1>5, <1>6 DEF LogInv

LEMMA ChangeKeeps ==
    ASSUME TypeOK, LogInv, NEW o \in db.orders, NEW field \in Fields,
           NEW value \in ValueOf(field), Changes(o, field, value)
    PROVE  LogInv'
<1> DEFINE new == WithField(o, field, value)
           e == LogEntry(o, field, value)
<1>1. o \in Order /\ db.logs \in Seq(Entry) /\ Len(db.logs) \in Nat
  BY DEF TypeOK, Tables
<1>2. /\ new.no = o.no /\ OldValue(new, field) = value /\ e \in Entry
      /\ \A f \in Fields \ {field} : OldValue(new, f) = OldValue(o, f)
  BY <1>1, WithFieldType, LogEntryType
<1>3. e.no = o.no /\ e.field = field /\ e.old = OldValue(o, field) /\ e.new = value
  BY DEF LogEntry
<1>4. /\ db'.orders = (db.orders \ {o}) \cup {new} /\ db'.logs = Append(db.logs, e)
      /\ saved' = saved /\ issued' = issued /\ repeated' = repeated
  BY DEF Changes, Replaced, TypeOK, Tables
<1> HIDE DEF new, e
<1>5. Numbered(db) /\ Told(db)
  BY DEF LogInv
<1>6. \A p \in db.orders : p # o /\ o.no \notin repeated => p.no # o.no
  BY <1>5 DEF Numbered
<1>7. Numbered(saved)' /\ Told(saved)'
  BY <1>4 DEF LogInv, Numbered, Told
<1>8. Numbered(db)'
  <2>1. ASSUME NEW j \in 1 .. Len(db'.logs) PROVE db'.logs[j].no \in issued'
    <3>1. j \in 1 .. Len(db.logs) \/ db'.logs[j] = e
      BY <1>1, <1>4
    <3>2. j \in 1 .. Len(db.logs) => db'.logs[j] = db.logs[j]
      BY <1>1, <1>4
    <3> QED BY <1>3, <1>4, <1>5, <3>1, <3>2 DEF Numbered
  <2>2. \A p, q \in db'.orders : p.no = q.no /\ p.no \notin repeated' => p = q
    BY <1>2, <1>4, <1>5, <1>6 DEF Numbered
  <2> QED BY <1>2, <1>4, <1>5, <2>1, <2>2 DEF Numbered
<1>9. Told(db)'
  <2>1. ASSUME NEW f \in Fields, o.no \notin repeated PROVE Explains(db'.logs, new, f)
    <3>1. Explains(db.logs, o, f)
      BY <1>5, <2>1 DEF Told
    <3>2. About(e, o.no, f) <=> f = field
      BY <1>3 DEF About
    <3> QED BY <1>1, <1>2, <1>3, <1>4, <3>1, <3>2, ExplainsAppend
  <2>2. ASSUME NEW f \in Fields, NEW p \in db.orders, p # o, p.no \notin repeated
        PROVE  Explains(db'.logs, p, f)
    <3>1. Explains(db.logs, p, f)
      BY <1>5, <2>2 DEF Told
    <3>2. ~About(e, p.no, f)
      BY <1>3, <1>5, <2>2 DEF About, Numbered
    <3> QED BY <1>1, <1>2, <1>4, <3>1, <3>2, ExplainsAppend
  <2> QED BY <1>2, <1>4, <2>1, <2>2 DEF Told
<1> QED BY <1>7, <1>8, <1>9 DEF LogInv

\* The cancellation that is not logged is one that the log may leave out.
LEMMA CancelKeeps ==
    ASSUME TypeOK, LogInv, NEW u \in Users, NEW no \in OrderNos, CancelMine(u, no)
    PROVE  LogInv'
<1>1. PICK o \in db.orders :
        /\ o.status = "PENDING_PAYMENT"
        /\ db' = [db EXCEPT !.orders = Replaced(o, WithField(o, "status", "CANCELLED"))]
        /\ UNCHANGED <<saved, issued, repeated, deleted, crashes>>
  BY DEF CancelMine, Found
<1> DEFINE new == WithField(o, "status", "CANCELLED")
<1>2. o \in Order
  BY DEF TypeOK, Tables
<1>3. /\ new.no = o.no /\ OldValue(new, "status") = "CANCELLED"
      /\ OldValue(new, "remark") = OldValue(o, "remark")
  BY <1>2, WithFieldType DEF Fields, ValueOf, Statuses
<1>4. /\ db'.orders = (db.orders \ {o}) \cup {new} /\ db'.logs = db.logs
  BY <1>1 DEF Replaced, TypeOK, Tables
<1>5. OldValue(o, "status") = "PENDING_PAYMENT"
  BY <1>1 DEF OldValue
<1> HIDE DEF new
<1>6. Numbered(db) /\ Told(db)
  BY DEF LogInv
<1>7. Numbered(saved)' /\ Told(saved)'
  BY <1>1 DEF LogInv, Numbered, Told
<1>8. Numbered(db)'
  BY <1>1, <1>3, <1>4, <1>6 DEF Numbered
<1>9. ASSUME o.no \notin repeated PROVE Explains(db.logs, new, "status")
  <2>1. Explains(db.logs, o, "status")
    BY <1>6, <1>9 DEF Told, Fields
  <2>2. \A v : Continues(v, "PENDING_PAYMENT") => Continues(v, "CANCELLED")
    BY DEF Continues
  <2> QED BY <1>3, <1>5, <2>1, <2>2 DEF Explains, Reaches
<1>10. ASSUME o.no \notin repeated PROVE Explains(db.logs, new, "remark")
  <2>1. Explains(db.logs, o, "remark")
    BY <1>6, <1>10 DEF Told, Fields
  <2> QED BY <1>3, <2>1 DEF Explains
<1>11. Told(db)'
  BY <1>1, <1>3, <1>4, <1>6, <1>9, <1>10 DEF Told, Fields
<1> QED BY <1>7, <1>8, <1>11 DEF LogInv

LEMMA NextLog == TypeOK /\ LogInv /\ [Next]_vars => LogInv'
<1> SUFFICES ASSUME TypeOK, LogInv, [Next]_vars PROVE LogInv'
  OBVIOUS
<1>1. ASSUME NEW no \in OrderNos, Delete(no) PROVE LogInv'
  <2>1. /\ db'.orders \subseteq db.orders /\ db'.logs = db.logs
        /\ saved' = saved /\ issued' = issued /\ repeated' = repeated
    BY <1>1 DEF Delete, RemoveOrder, Found, TypeOK, Tables
  <2> QED BY <2>1 DEF LogInv, Numbered, Told
<1>2. CASE Flush \/ Crash \/ UNCHANGED vars
  BY <1>2 DEF Flush, Crash, vars, LogInv, Numbered, Told
<1>3. CASE Replace
  <2>1. db' = Empty /\ saved' = Empty /\ Empty.orders = {} /\ Empty.logs = <<>>
    BY <1>3 DEF Replace, Empty
  <2> HIDE DEF Empty
  <2> QED BY <2>1 DEF LogInv, Numbered, Told
<1> QED BY <1>1, <1>2, <1>3, Steps, CreateKeeps, ChangeKeeps, CancelKeeps

LEMMA LogAlways == Spec => []LogInv
<1>1. Init => LogInv
  <2> SUFFICES ASSUME Init PROVE LogInv
    OBVIOUS
  <2>1. db = Empty /\ saved = Empty /\ Empty.orders = {} /\ Empty.logs = <<>>
    BY DEF Init, Empty
  <2> HIDE DEF Empty
  <2> QED BY <2>1 DEF LogInv, Numbered, Told
<1> QED BY <1>1, NextLog, OrdersTypeCorrect, PTL DEF Spec

\* The change log explains every order whose number was given once: logChange
\* takes the old value from the row object that update has already replaced,
\* and only /api/v1/me/orders changes an order without an entry.
THEOREM LogExplains == Spec => []LogExplainsOrder
<1>1. LogInv => LogExplainsOrder
  BY DEF LogInv, Told, Fields, LogExplainsOrder
<1> QED BY <1>1, LogAlways, PTL
-----------------------------------------------------------------------------
(* Implementation of DurableTables: what the repository does to its two    *)
(* tables is what the store promises its callers.                          *)

StoreTables == {"orders", "order_change_logs"}

OrderRows(d) == {[id |-> o.id, val |-> o] : o \in d.orders}
LogRows(d) == {[id |-> i, val |-> d.logs[i]] : i \in 1 .. Len(d.logs)}

\* The tables as the store keeps them; entries are numbered as they come.
StoreOf(d) ==
    [nextIds |-> [t \in StoreTables |-> IF t = "orders" THEN d.next ELSE Len(d.logs) + 1],
     rows    |-> [t \in StoreTables |-> IF t = "orders" THEN OrderRows(d) ELSE LogRows(d)]]

Abstract == INSTANCE DurableTables
            WITH Tables <- StoreTables, Values <- Order \cup Entry,
                 mem <- StoreOf(db), durable <- StoreOf(saved)
ImplementsDurableTables == Abstract!Spec

\* Every order has an id of its own, which the counter has passed.
OwnIds(d) ==
    /\ d.next # 0
    /\ \A o \in d.orders : o.id # 0 /\ o.id < d.next
    /\ \A o, p \in d.orders : o.id = p.id => o = p

\* The memory e is one that writes may leave behind when they begin with d.
Later(e, d) ==
    /\ d.next <= e.next /\ Len(d.logs) <= Len(e.logs)
    /\ \A o \in e.orders : (\E p \in d.orders : o.id = p.id) \/ d.next <= o.id

LEMMA RowIdsOf ==
    ASSUME NEW d \in Tables
    PROVE  /\ Abstract!RowIds(OrderRows(d)) = {o.id : o \in d.orders}
           /\ Abstract!RowIds(LogRows(d)) = 1 .. Len(d.logs)
<1>1. /\ \A r \in OrderRows(d) : \E o \in d.orders : r.id = o.id
      /\ \A o \in d.orders : \E r \in OrderRows(d) : r.id = o.id
  <2>1. \A r \in OrderRows(d) : \E o \in d.orders : r = [id |-> o.id, val |-> o]
    BY DEF OrderRows
  <2>2. \A o \in d.orders : [id |-> o.id, val |-> o] \in OrderRows(d)
    BY DEF OrderRows
  <2>3. \A o \in d.orders : [id |-> o.id, val |-> o].id = o.id
    OBVIOUS
  <2> QED BY ZenonT(40), <2>1, <2>2, <2>3
<1>2. /\ \A r \in LogRows(d) : r.id \in 1 .. Len(d.logs)
      /\ \A i \in 1 .. Len(d.logs) : \E r \in LogRows(d) : r.id = i
  <2>1. \A r \in LogRows(d) : \E i \in 1 .. Len(d.logs) : r = [id |-> i, val |-> d.logs[i]]
    BY DEF LogRows
  <2>2. \A i \in 1 .. Len(d.logs) : [id |-> i, val |-> d.logs[i]] \in LogRows(d)
    BY DEF LogRows
  <2>3. \A i \in 1 .. Len(d.logs) : [id |-> i, val |-> d.logs[i]].id = i
    OBVIOUS
  <2> QED BY <2>1, <2>2, <2>3
<1> QED BY <1>1, <1>2 DEF Abstract!RowIds

\* The tables fit the store, and their ids are fresh.
LEMMA StoreOfType ==
    ASSUME NEW d \in Tables, OwnIds(d)
    PROVE  StoreOf(d) \in Abstract!StoreData /\ Abstract!FreshIds(StoreOf(d))
<1>1. /\ d.next \in Nat \ {0} /\ d.orders \subseteq Order /\ d.logs \in Seq(Entry)
      /\ Len(d.logs) \in Nat /\ Len(d.logs) + 1 \in Nat \ {0}
  BY DEF Tables, OwnIds
<1>2. OrderRows(d) \subseteq Abstract!Row
  <2>1. \A o \in d.orders : o.id \in Nat \ {0} /\ o \in Order \cup Entry
    BY <1>1 DEF OwnIds, Order
  <2> HIDE DEF Order, Entry
  <2> QED BY <2>1 DEF OrderRows, Abstract!Row, Abstract!Ids
<1>3. LogRows(d) \subseteq Abstract!Row
  <2>1. \A i \in 1 .. Len(d.logs) : i \in Nat \ {0} /\ d.logs[i] \in Order \cup Entry
    BY <1>1
  <2> HIDE DEF Order, Entry
  <2> QED BY <2>1 DEF LogRows, Abstract!Row, Abstract!Ids
<1>4. StoreOf(d) \in Abstract!StoreData
  <2>1. StoreOf(d).nextIds \in [StoreTables -> Abstract!Ids]
    BY <1>1 DEF StoreOf, Abstract!Ids
  <2>2. StoreOf(d).rows \in [StoreTables -> SUBSET Abstract!Row]
    BY <1>2, <1>3 DEF StoreOf
  <2> QED BY <2>1, <2>2 DEF StoreOf, Abstract!StoreData, Abstract!DataOf
<1>5. Abstract!UniqueIds(OrderRows(d)) /\ \A r \in OrderRows(d) : r.id < d.next
  <2>1. \A r \in OrderRows(d) : \E o \in d.orders : r = [id |-> o.id, val |-> o]
    BY DEF OrderRows
  <2> QED BY <2>1 DEF Abstract!UniqueIds, OwnIds
<1>6. Abstract!UniqueIds(LogRows(d)) /\ \A r \in LogRows(d) : r.id < Len(d.logs) + 1
  <2>1. \A r \in LogRows(d) : \E i \in 1 .. Len(d.logs) : r = [id |-> i, val |-> d.logs[i]]
    BY DEF LogRows
  <2> QED BY <1>1, <2>1 DEF Abstract!UniqueIds
<1>7. /\ DOMAIN StoreOf(d).rows = StoreTables
      /\ \A t \in StoreTables :
            \/ StoreOf(d).rows[t] = OrderRows(d) /\ StoreOf(d).nextIds[t] = d.next
            \/ StoreOf(d).rows[t] = LogRows(d) /\ StoreOf(d).nextIds[t] = Len(d.logs) + 1
  BY DEF StoreOf
<1> HIDE DEF StoreOf
<1> QED BY <1>4, <1>5, <1>6, <1>7 DEF Abstract!FreshIds

LEMMA LaterFollows ==
    ASSUME NEW d \in Tables, NEW e \in Tables, Later(e, d)
    PROVE  Abstract!Follows(StoreOf(e), StoreOf(d))
<1>1. /\ d.next \in Nat /\ e.next \in Nat /\ Len(d.logs) \in Nat /\ Len(e.logs) \in Nat
  BY DEF Tables
<1>2. \A r \in OrderRows(e) : r.id \in Abstract!RowIds(OrderRows(d)) \/ d.next <= r.id
  <2>1. \A r \in OrderRows(e) : \E o \in e.orders : r = [id |-> o.id, val |-> o]
    BY DEF OrderRows
  <2>2. \A o \in e.orders : o.id \in Abstract!RowIds(OrderRows(d)) \/ d.next <= o.id
    BY RowIdsOf DEF Later
  <2> QED BY <2>1, <2>2
<1>3. \A r \in LogRows(e) : r.id \in Abstract!RowIds(LogRows(d)) \/ Len(d.logs) + 1 <= r.id
  <2>1. \A r \in LogRows(e) : r.id \in 1 .. Len(e.logs)
    BY DEF LogRows
  <2> QED BY <1>1, <2>1, RowIdsOf
<1>4. \A t \in StoreTables :
            \/ /\ StoreOf(d).rows[t] = OrderRows(d) /\ StoreOf(d).nextIds[t] = d.next
               /\ StoreOf(e).rows[t] = OrderRows(e) /\ StoreOf(e).nextIds[t] = e.next
            \/ /\ StoreOf(d).rows[t] = LogRows(d) /\ StoreOf(d).nextIds[t] = Len(d.logs) + 1
               /\ StoreOf(e).rows[t] = LogRows(e) /\ StoreOf(e).nextIds[t] = Len(e.logs) + 1
  BY DEF StoreOf
<1> HIDE DEF StoreOf
<1> QED BY <1>1, <1>2, <1>3, <1>4 DEF Abstract!Follows, Later

\* Empty tables are the store's empty data.
LEMMA StoreOfEmpty == OwnIds(Empty) /\ StoreOf(Empty) = Abstract!DEFAULT_DATA
<1>1. Empty.next = 1 /\ Empty.orders = {} /\ Empty.logs = <<>> /\ Len(Empty.logs) + 1 = 1
  BY DEF Empty
<1>2. OrderRows(Empty) = {} /\ LogRows(Empty) = {}
  BY <1>1 DEF OrderRows, LogRows
<1> HIDE DEF Empty
<1> QED BY <1>1, <1>2 DEF OwnIds, StoreOf, Abstract!DEFAULT_DATA

\* A handler leaves a later memory with ids of its own, or only the file or
\* the memory is copied, or both begin again.
LEMMA OrderSteps ==
    ASSUME TypeOK, OwnIds(db), [Next]_vars
    PROVE  \/ OwnIds(db') /\ Later(db', db) /\ saved' = saved
           \/ saved' = db /\ db' = db
           \/ db' = saved /\ saved' = saved
           \/ db' = Empty /\ saved' = Empty
<1>1. db \in Tables /\ db.next \in Nat /\ Len(db.logs) \in Nat /\ \A o \in db.orders : o \in Order
  BY DEF TypeOK, Tables
<1>2. ASSUME NEW u \in Users, NEW no \in OrderNos, Create(u, no)
      PROVE  OwnIds(db') /\ Later(db', db) /\ saved' = saved
  <2> DEFINE new == [id |-> db.next, no |-> no, user |-> u, status |-> "PENDING_PAYMENT",
                     remark |-> NoRemark]
  <2>1. /\ db'.orders = db.orders \cup {new} /\ db'.next = db.next + 1 /\ db'.logs = db.logs
        /\ saved' = saved
    BY <1>1, <1>2 DEF Create, InsertOrder, Tables
  <2>2. new.id = db.next
    OBVIOUS
  <2>3. \A o \in db.orders : o.id \in Nat
    BY <1>1 DEF Order
  <2> HIDE DEF new
  <2> QED BY <1>1, <2>1, <2>2, <2>3 DEF OwnIds, Later
<1>3. ASSUME NEW o \in db.orders, NEW field \in Fields, NEW value \in ValueOf(field),
             db'.orders = Replaced(o, WithField(o, field, value)), db'.next = db.next,
             Len(db.logs) <= Len(db'.logs)
      PROVE  OwnIds(db') /\ Later(db', db)
  <2>1. WithField(o, field, value).id = o.id
    BY <1>1, WithFieldType
  <2> HIDE DEF WithField
  <2> QED BY <1>1, <1>3, <2>1 DEF Replaced, OwnIds, Later
<1>4. ASSUME NEW o \in db.orders, NEW field \in Fields, NEW value \in ValueOf(field),
             Changes(o, field, value)
      PROVE  OwnIds(db') /\ Later(db', db) /\ saved' = saved
  <2>1. /\ db'.orders = Replaced(o, WithField(o, field, value)) /\ db'.next = db.next
        /\ db'.logs = Append(db.logs, LogEntry(o, field, value)) /\ saved' = saved
    BY <1>1, <1>4 DEF Changes, Tables
  <2>2. LogEntry(o, field, value) \in Entry
    BY <1>1, LogEntryType
  <2>3. Len(db.logs) <= Len(db'.logs)
    <3> HIDE DEF Entry, LogEntry
    <3> QED BY <1>1, <2>1, <2>2 DEF Tables
  <2> QED BY <1>3, <2>1, <2>3
<1>5. ASSUME NEW u \in Users, NEW no \in OrderNos, CancelMine(u, no)
      PROVE  OwnIds(db') /\ Later(db', db) /\ saved' = saved
  <2>1. PICK o \in db.orders :
          /\ db' = [db EXCEPT !.orders = Replaced(o, WithField(o, "status", "CANCELLED"))]
          /\ saved' = saved
    BY <1>5 DEF CancelMine, Found
  <2>2. "status" \in Fields /\ "CANCELLED" \in ValueOf("status")
    BY DEF Fields, ValueOf, Statuses
  <2>3. /\ db'.orders = Replaced(o, WithField(o, "status", "CANCELLED")) /\ db'.next = db.next
        /\ Len(db.logs) <= Len(db'.logs)
    BY <1>1, <2>1 DEF Tables
  <2> QED BY <1>3, <2>1, <2>2, <2>3
<1>6. ASSUME NEW no \in OrderNos, Delete(no)
      PROVE  OwnIds(db') /\ Later(db', db) /\ saved' = saved
  <2>1. PICK o \in db.orders : db' = [db EXCEPT !.orders = @ \ {o}]
    BY <1>6 DEF Delete, RemoveOrder, Found
  <2>2. db'.orders \subseteq db.orders /\ db'.next = db.next /\ db'.logs = db.logs
    BY <1>1, <2>1 DEF Tables
  <2> QED BY <1>1, <1>6, <2>2 DEF Delete, OwnIds, Later
<1>7. CASE UNCHANGED vars
  <2>1. db' = db /\ saved' = saved
    BY <1>7 DEF vars
  <2> QED BY <1>1, <2>1 DEF Later
<1> QED BY <1>2, <1>4, <1>5, <1>6, <1>7, Steps DEF Flush, Crash, Replace

\* The orders and their log are served as the store promises: between two stops
\* of the server no id is handed out twice, the file is only ever replaced by
\* the whole memory, a crash takes the memory back to the file, and a lost
\* container takes both (repositories/orders.ts).
THEOREM OrdersUseTheStore == Spec => ImplementsDurableTables
<1> DEFINE Own == OwnIds(db) /\ OwnIds(saved)
<1>1. Init => Own /\ Abstract!Init
  <2> SUFFICES ASSUME Init PROVE Own /\ Abstract!Init
    OBVIOUS
  <2>1. db = Empty /\ saved = Empty /\ Empty \in Tables /\ OwnIds(Empty)
    BY DEF Init, Empty, Tables, OwnIds
  <2>2. StoreOf(Empty) \in Abstract!StoreData /\ Abstract!FreshIds(StoreOf(Empty))
    BY <2>1, StoreOfType
  <2> HIDE DEF StoreOf
  <2> QED BY <2>1, <2>2 DEF Abstract!Init
<1>2. ASSUME TypeOK, TypeOK', Own, [Next]_vars
      PROVE  Own' /\ [Abstract!Next]_<<StoreOf(db), StoreOf(saved)>>
  <2>1. CASE OwnIds(db') /\ Later(db', db) /\ saved' = saved
    <3>1. db' \in Tables /\ db \in Tables
      BY <1>2 DEF TypeOK
    <3>2. /\ StoreOf(db') \in Abstract!StoreData /\ Abstract!FreshIds(StoreOf(db'))
          /\ Abstract!Follows(StoreOf(db'), StoreOf(db))
      BY <2>1, <3>1, StoreOfType, LaterFollows
    <3> HIDE DEF StoreOf
    <3> QED BY <1>2, <2>1, <3>2 DEF Abstract!Next, Abstract!Write
  <2>2. CASE saved' = db /\ db' = db
    BY <1>2, <2>2 DEF Abstract!Next, Abstract!Sync
  <2>3. CASE db' = saved /\ saved' = saved
    BY <1>2, <2>3 DEF Abstract!Next, Abstract!Lose
  <2>4. CASE db' = Empty /\ saved' = Empty
    <3>1. OwnIds(Empty) /\ StoreOf(Empty) = Abstract!DEFAULT_DATA
      BY StoreOfEmpty
    <3> HIDE DEF StoreOf
    <3> QED BY <2>4, <3>1 DEF Abstract!Next, Abstract!Vanish
  <2> QED BY <1>2, <2>1, <2>2, <2>3, <2>4, OrderSteps
<1> HIDE DEF Own
<1>3. TypeOK /\ TypeOK' /\ Own /\ [Next]_vars => Own' /\ [Abstract!Next]_<<StoreOf(db), StoreOf(saved)>>
  BY <1>2
<1> QED BY <1>1, <1>3, OrdersTypeCorrect, PTL DEF Spec, ImplementsDurableTables, Abstract!Spec
=============================================================================
