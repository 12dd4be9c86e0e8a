------------------------------- MODULE Orders ------------------------------
(***************************************************************************)
(* Orders: storage/repositories/orders.ts and the routes that create,      *)
(* cancel, administer and delete orders, over the store that               *)
(* DurableTables abstracts (FileStore implements it): db is the memory,    *)
(* saved the file.  A handler runs without interruption, so each is one    *)
(* action.                                                                 *)
(***************************************************************************)
EXTENDS Naturals, Sequences, FiniteSets

CONSTANTS
    Users,       \* authenticated customers
    OrderNos,    \* order numbers: a second and four random digits
    Remarks,     \* remarks an administrator writes
    MaxLogs,     \* bound: entries of order_change_logs
    MaxCrashes,  \* bound: crashes and lost containers
    NoRemark

ASSUME OrdersAssumption ==
    /\ MaxLogs \in Nat /\ MaxCrashes \in Nat
    /\ NoRemark \notin Remarks

VARIABLES
    db,        \* the tables orders and order_change_logs in memory
    saved,     \* the same tables in the file
    issued,    \* numbers generateOrderNo has returned for these tables
    repeated,  \* numbers it has returned more than once
    deleted,   \* ids of the orders deleted since memory and file last agreed
    crashes

vars == <<db, saved, issued, repeated, deleted, crashes>>

\* The statuses that the handlers name; an administrator may set any.
Statuses == {"PENDING_PAYMENT", "CANCELLED", "PENDING_FREIGHT"}

Order == [id : Nat, no : OrderNos, user : Users, status : Statuses,
          remark : Remarks \cup {NoRemark}]

Value == Statuses \cup Remarks \cup {NoRemark}
Entry == [no : OrderNos, field : {"status", "remark"}, old : Value, new : Value]

Tables == [orders : SUBSET Order, next : Nat, logs : Seq(Entry)]

Empty == [orders |-> {}, next |-> 1, logs |-> <<>>]

Init == /\ db = Empty /\ saved = Empty
        /\ issued = {} /\ repeated = {} /\ deleted = {}
        /\ crashes = 0

-----------------------------------------------------------------------------
(* The repository.                                                         *)

\* generateOrderNo: the second and four random digits, without a look at the
\* table, so that a number may come again.
GenerateOrderNo(no) ==
    /\ issued' = issued \cup {no}
    /\ repeated' = repeated \cup ({no} \cap issued)

\* create: insert takes the next id.
InsertOrder(u, no) ==
    db' = [db EXCEPT !.orders = @ \cup {[id |-> db.next, no |-> no, user |-> u,
                                         status |-> "PENDING_PAYMENT", remark |-> NoRemark]},
                     !.next = @ + 1]

\* findByOrderNo: the first row with the number; which one is first changes,
\* because list sorts the table itself.
Found(no) == {o \in db.orders : o.no = no}

\* updateStatus and update put a new row object in the table, so the order
\* the handler holds still has its old fields when logChange reads them.
WithField(o, field, value) ==
    CASE field = "status" -> [o EXCEPT !.status = value]
      [] field = "remark" -> [o EXCEPT !.remark = value]

OldValue(o, field) == IF field = "status" THEN o.status ELSE o.remark

\* Mutant: the row object is changed in place before it is logged.
LogEntry_AfterUpdate(o, field, value) ==
    [no |-> o.no, field |-> field, old |-> value, new |-> value]

\* logChange(orderNo, field, order's old value, new value).
LogEntry(o, field, value) ==
    [no |-> o.no, field |-> field, old |-> OldValue(o, field), new |-> value]

Replaced(o, new) == (db.orders \ {o}) \cup {new}

ChangeAndLog(o, field, value) ==
    /\ Len(db.logs) < MaxLogs
    /\ db' = [db EXCEPT !.orders = Replaced(o, WithField(o, field, value)),
                        !.logs = Append(@, LogEntry(o, field, value))]
    /\ UNCHANGED <<saved, issued, repeated, deleted, crashes>>

\* Mutant: findIndex is not checked for -1 and splice takes a wrong row.
RemoveOrder_WrongRow(o) ==
    \E p \in db.orders : db' = [db EXCEPT !.orders = @ \ {p}]

\* remove: the order found and its items (nothing ever inserts an item); its
\* log stays.
RemoveOrder(o) == db' = [db EXCEPT !.orders = @ \ {o}]

-----------------------------------------------------------------------------
(* The routes.                                                             *)

\* POST /orders and POST /api/v1/orders: skuItems are accepted and ignored.
Create(u, no) ==
    /\ db.next <= Cardinality(OrderNos)
    /\ InsertOrder(u, no)
    /\ GenerateOrderNo(no)
    /\ UNCHANGED <<saved, deleted, crashes>>

\* POST /api/v1/orders/:orderNo/cancel, by the owner, before payment.
Cancel(u, no) ==
    \E o \in Found(no) :
        /\ o.user = u /\ o.status = "PENDING_PAYMENT"
        /\ ChangeAndLog(o, "status", "CANCELLED")

\* POST /api/v1/me/orders/:orderNo/cancel: the same, without a log entry.
CancelMine(u, no) ==
    \E o \in Found(no) :
        /\ o.user = u /\ o.status = "PENDING_PAYMENT"
        /\ db' = [db EXCEPT !.orders = Replaced(o, WithField(o, "status", "CANCELLED"))]
        /\ UNCHANGED <<saved, issued, repeated, deleted, crashes>>

\* PUT /api/v1/admin/orders/:orderNo/status, to any status.
SetStatus(no, status) == \E o \in Found(no) : ChangeAndLog(o, "status", status)

\* PUT /api/v1/admin/orders/:orderNo/remark.
SetRemark(no, remark) == \E o \in Found(no) : ChangeAndLog(o, "remark", remark)

\* DELETE /api/v1/admin/orders/:orderNo: the administrator names a number, and
\* the first order that bears it goes.
Delete(no) ==
    \E o \in Found(no) :
        /\ RemoveOrder(o)
        /\ deleted' = deleted \cup {o.id}
        /\ UNCHANGED <<saved, issued, repeated, crashes>>

\* The store saves everything at once, at any time after a write.
Flush == saved' = db /\ deleted' = {} /\ UNCHANGED <<db, issued, repeated, crashes>>

\* The process dies and starts again from its file.
Crash == /\ crashes < MaxCrashes
         /\ db' = saved
         /\ deleted' = {}
         /\ crashes' = crashes + 1
         /\ UNCHANGED <<saved, issued, repeated>>

\* The container is replaced and takes its /tmp, with the file, along.
Replace == /\ crashes < MaxCrashes
           /\ db' = Empty /\ saved' = Empty
           /\ issued' = {} /\ repeated' = {} /\ deleted' = {}
           /\ crashes' = crashes + 1

Next ==
    \/ \E u \in Users, no \in OrderNos : Create(u, no) \/ Cancel(u, no) \/ CancelMine(u, no)
    \/ \E no \in OrderNos, s \in Statuses : SetStatus(no, s)
    \/ \E no \in OrderNos, r \in Remarks \cup {NoRemark} : SetRemark(no, r)
    \/ \E no \in OrderNos : Delete(no)
    \/ Flush \/ Crash \/ Replace

Spec == Init /\ [][Next]_vars

-----------------------------------------------------------------------------
(* Properties.                                                             *)

\* Every variable has its type: in particular a handler writes a status only
\* to the status of an order.
TypeOK ==
    /\ db \in Tables /\ saved \in Tables
    /\ issued \subseteq OrderNos /\ deleted \subseteq Nat
    /\ repeated \subseteq issued
    /\ crashes \in 0 .. MaxCrashes

\* Is the entry about this field of this order?
About(e, no, field) == e.no = no /\ e.field = field

\* From one logged value to the next there is no gap, except the cancellation
\* that /api/v1/me/orders does not log.
Continues(before, after) ==
    before = after \/ (before = "PENDING_PAYMENT" /\ after = "CANCELLED")

Start(field) == IF field = "status" THEN "PENDING_PAYMENT" ELSE NoRemark

\* Before position n the log takes the field to a value that v continues: the
\* last entry about it ends there or, without any, it starts there.
Reaches(log, no, field, n, v) ==
    \/ \E i \in 1 .. n - 1 :
          /\ About(log[i], no, field) /\ Continues(log[i].new, v)
          /\ \A k \in i + 1 .. n - 1 : ~About(log[k], no, field)
    \/ /\ \A k \in 1 .. n - 1 : ~About(log[k], no, field)
       /\ Continues(Start(field), v)

\* The log tells the field's story without a gap, up to the order's value.
Explains(log, o, field) ==
    /\ \A j \in 1 .. Len(log) :
          About(log[j], o.no, field) => Reaches(log, o.no, field, j, log[j].old)
    /\ Reaches(log, o.no, field, Len(log) + 1, OldValue(o, field))

\* The change log explains every order whose number was given once, in memory
\* and in the file: it starts at the value the order was created with, every
\* entry starts where the previous one ended, and the last one ends at the
\* order's value.
LogExplainsOrder ==
    \A d \in {db, saved} : \A o \in d.orders, field \in {"status", "remark"} :
        o.no \notin repeated => Explains(d.logs, o, field)

\* Is the order, with its number and its owner, still among the orders?
Among(o, orders) == \E p \in orders : p.id = o.id /\ p.no = o.no /\ p.user = o.user

\* An order that is in the file stays there with its number and its customer,
\* whatever is written, saved and lost in a crash meanwhile, until the handler
\* of a deletion has removed that very order since the last save, or the file
\* goes with its container.
SavedOrdersStay ==
    [][saved' # Empty
         => \A o \in saved.orders : Among(o, saved'.orders) \/ o.id \in deleted]_vars
=============================================================================
