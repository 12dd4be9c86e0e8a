------------------------------- MODULE Upgrade ------------------------------
(***************************************************************************)
(* The scripts of src/scripts that upgrade the MySQL database of the shop  *)
(* and check the upgrade: the move of welfare notes to the buyers' notes,  *)
(* the items of the old welfare codes, and the three verifications.  An    *)
(* operator runs one script at a time and again after a failure, while the *)
(* shop keeps selling.  Each awaited statement is a step; a statement      *)
(* outside a transaction commits at once.                                  *)
(***************************************************************************)
EXTENDS Naturals, FiniteSets

CONSTANTS
    Codes,       \* welfare codes of product 1
    OrderNos,
    First,       \* the order that the code FirstCode has bought
    FirstCode,
    Plain,       \* an order without a code
    Notes,       \* notes of welfare codes
    BuyerNote,   \* what a buyer wrote
    None,        \* no order, or no code
    MaxScripts,  \* bound: scripts started
    MaxAborts,   \* bound: failed statements and killed scripts
    MaxEdits     \* bound: changes the shop makes meanwhile

ASSUME UpgradeAssumption ==
    /\ IsFiniteSet(OrderNos) /\ First \in OrderNos /\ Plain \in OrderNos /\ First # Plain
    /\ FirstCode \in Codes
    /\ None \notin Codes \cup OrderNos /\ BuyerNote \notin Notes /\ Notes # {}
    /\ MaxScripts \in Nat /\ MaxAborts \in Nat /\ MaxEdits \in Nat

VARIABLES
    db,       \* the committed tables
    backup,   \* when the orders of the backup were made, and its items
    second,   \* the second in which orders are created, 0 or later than 0
    pc,       \* the statement the running script is at
    tx,       \* what the open transaction has written
    view,     \* what the running script has read, and its verdict so far
    files,    \* before_consumed_orders.jsonl and before_..._items.jsonl
    wrote,    \* the buyers' notes the last committed move replaced
    report,   \* the outcome of the last script, by name
    deleted,  \* orders the shop deleted
    late,     \* orders the backup lacks, made no later than its last one
    starts, aborts, edits

upgradeVars == <<db, backup, second, pc, tx, view, files, wrote, report, deleted, late, starts, aborts, edits>>

Scripts == {"note", "multi", "verify", "items", "log"}
Outcomes == {"none", "dry", "ok", "errors"}

ItemIds == 1 .. 2 * Cardinality(OrderNos)

\* An order buys the product of SKU 1 and another one.
ItemsOf(o, n) == {[id |-> n, order |-> o, sku |-> 1, attrs |-> TRUE],
                  [id |-> n + 1, order |-> o, sku |-> 2, attrs |-> TRUE]}

NoTx == [open |-> FALSE, notes |-> [o \in {} |-> BuyerNote], cleared |-> {}, inserted |-> {}, priced |-> {}]
NoView == [orders |-> [o \in {} |-> BuyerNote], items |-> {}, codes |-> {}, left |-> {}, ok |-> TRUE, apply |-> FALSE]

UpgradeInit ==
    /\ \E c \in Codes, n \in Notes, priced \in SUBSET Codes :
          db = [orders |-> [o \in {First, Plain} |->
                              [invite |-> IF o = First THEN c ELSE None, note |-> BuyerNote, at |-> 0]],
                items |-> ItemsOf(First, 1) \cup ItemsOf(Plain, 3),
                codes |-> [d \in Codes |-> [order |-> IF d = FirstCode THEN First ELSE None,
                                            note |-> n, original |-> d \in priced]],
                codeItems |-> {}, sku |-> FALSE]
    /\ backup = [taken |-> FALSE, orders |-> [o \in {} |-> 0], items |-> {}]
    /\ second = 0 /\ pc = "idle" /\ tx = NoTx /\ view = NoView
    /\ files = [orders |-> [o \in {} |-> BuyerNote], items |-> {}]
    /\ wrote = [o \in {} |-> BuyerNote]
    /\ report = [s \in Scripts |-> "none"]
    /\ deleted = {} /\ late = {} /\ starts = 0 /\ aborts = 0 /\ edits = 0

Keys(f) == DOMAIN f
Merge(f, g) == [x \in Keys(f) \cup Keys(g) |-> IF x \in Keys(g) THEN g[x] ELSE f[x]]

\* created_at <= (SELECT MAX(created_at) FROM the backup): some order of it is
\* as late. Of an empty backup MAX is NULL, and no time compares with it.
UpToLast(time) == \E b \in Keys(backup.orders) : time <= backup.orders[b]

-----------------------------------------------------------------------------
(* The shop and the operator, outside the repository.                      *)

Shop == edits < MaxEdits /\ edits' = edits + 1
        /\ UNCHANGED <<backup, pc, tx, view, files, wrote, report, starts, aborts>>

\* Rows the transaction has read or written under lock.
Locked(c) == tx.open /\ db.codes[c].order \in Keys(tx.notes)

\* A buyer uses a code: the order, its items and the code, in a transaction.
Consume(c, o) ==
    /\ Shop
    /\ o \notin Keys(db.orders) \cup deleted /\ db.codes[c].order = None
    /\ db' = [db EXCEPT !.orders = Merge(@, [x \in {o} |-> [invite |-> c, note |-> BuyerNote, at |-> second]]),
                        !.items = @ \cup ItemsOf(o, 2 * (Cardinality(Keys(db.orders)) + Cardinality(deleted)) + 1),
                        !.codes[c].order = o]
    /\ late' = IF UpToLast(second) THEN late \cup {o} ELSE late
    /\ UNCHANGED <<second, deleted>>

EditNote(c, n) ==
    /\ Shop /\ ~Locked(c) /\ n # db.codes[c].note
    /\ db' = [db EXCEPT !.codes[c].note = n]
    /\ UNCHANGED <<second, deleted, late>>

DeleteOrder(o) ==
    /\ Shop /\ o \in Keys(db.orders) \ Keys(tx.notes)
    /\ ~\E i \in db.items : i.order = o /\ i.id \in tx.cleared
    /\ db' = [db EXCEPT !.orders = [x \in Keys(@) \ {o} |-> @[x]],
                        !.items = {i \in @ : i.order # o}]
    /\ deleted' = deleted \cup {o}
    /\ UNCHANGED <<second, late>>

NextSecond == second = 0 /\ second' = 1
        /\ UNCHANGED <<db, backup, pc, tx, view, files, wrote, report, deleted, late, starts, aborts, edits>>

\* The backup tables and the backup file, taken together before the upgrade.
TakeBackup ==
    /\ pc = "idle" /\ ~backup.taken
    /\ backup' = [taken |-> TRUE, orders |-> [o \in Keys(db.orders) |-> db.orders[o].at], items |-> db.items]
    /\ UNCHANGED <<db, second, pc, tx, view, files, wrote, report, deleted, late, starts, aborts, edits>>

-----------------------------------------------------------------------------
(* Scripts in general.                                                     *)

Goto(label) == pc' = label
               /\ UNCHANGED <<backup, second, deleted, late, starts, aborts, edits>>

\* A script starts: arguments, connection, for a verification its backup.
Start(s, apply) ==
    /\ pc = "idle" /\ starts < MaxScripts
    /\ s \in {"verify", "items", "log"} => backup.taken
    /\ pc' = s
    /\ view' = [NoView EXCEPT !.apply = apply, !.left = IF s = "verify" THEN {i.order : i \in backup.items} ELSE {}]
    /\ report' = [report EXCEPT ![s] = "none"]
    /\ starts' = starts + 1
    /\ UNCHANGED <<db, backup, second, tx, files, wrote, deleted, late, aborts, edits>>

Finish(s, outcome) ==
    /\ Goto("idle")
    /\ report' = [report EXCEPT ![s] = outcome]

\* A statement throws or the process is killed: what the transaction wrote is
\* rolled back, by the script or by MySQL; files that were written stay.
Abort ==
    /\ pc # "idle" /\ aborts < MaxAborts
    /\ pc' = "idle" /\ tx' = NoTx /\ view' = NoView
    /\ aborts' = aborts + 1
    /\ UNCHANGED <<db, backup, second, files, wrote, report, deleted, late, starts, edits>>

-----------------------------------------------------------------------------
(* migrate_welfare_note_to_buyer_note.ts                                   *)

\* The codes that name an existing order as the one that consumed them.
Consumed == {c \in Codes : db.codes[c].order \in Keys(db.orders)}

\* ... and the order carries the code.
Targets == {c \in Consumed : db.orders[db.codes[c].order].invite = c}

ConsumedOrders == {db.codes[c].order : c \in Consumed}
CodeOf(o) == CHOOSE c \in Codes : db.codes[c].order = o

\* Reads the consumed codes; a code whose order does not carry it ends the script.
ReadTargets ==
    /\ pc = "note"
    /\ IF Targets = Consumed
       THEN Goto("note_orders") /\ UNCHANGED report
       ELSE Finish("note", "errors")
    /\ UNCHANGED <<db, tx, view, files, wrote>>

ReadOrders ==
    /\ pc = "note_orders"
    /\ view' = [view EXCEPT !.orders = [o \in ConsumedOrders |-> db.orders[o].note]]
    /\ Goto("note_items")
    /\ UNCHANGED <<db, tx, files, wrote, report>>

\* Reads the items and writes the snapshot; a dry run ends here.
ReadItems ==
    /\ pc = "note_items"
    /\ LET items == {i \in db.items : i.order \in ConsumedOrders}
       IN  /\ view' = [view EXCEPT !.items = items]
           /\ IF view.apply
              THEN /\ files' = [orders |-> view.orders, items |-> items]
                   /\ Goto("note_update") /\ UNCHANGED report
              ELSE Finish("note", "dry") /\ UNCHANGED files
    /\ UNCHANGED <<db, tx, wrote>>

UpdateNotes ==
    /\ pc = "note_update"
    /\ tx' = [NoTx EXCEPT !.open = TRUE,
                !.notes = [o \in {db.codes[c].order : c \in Targets} |-> db.codes[CodeOf(o)].note]]
    /\ Goto("note_clear")
    /\ UNCHANGED <<db, view, files, wrote, report>>

\* Mutant: the items are cleared after the commit, outside the transaction.
ClearAttrs_AfterCommit ==
    /\ pc = "note_clear"
    /\ db' = [db EXCEPT !.orders = [o \in Keys(@) |-> IF o \in Keys(tx.notes) THEN [@[o] EXCEPT !.note = tx.notes[o]] ELSE @[o]]]
    /\ tx' = [tx EXCEPT !.cleared = {i.id : i \in {j \in db.items : j.sku = 1 /\ \E c \in Targets : db.codes[c].order = j.order}}]
    /\ Goto("note_commit")
    /\ UNCHANGED <<view, files, wrote, report>>

ClearAttrs ==
    /\ pc = "note_clear"
    /\ tx' = [tx EXCEPT !.cleared =
                {i.id : i \in {j \in db.items : j.sku = 1 /\ \E c \in Targets : db.codes[c].order = j.order}}]
    /\ Goto("note_commit")
    /\ UNCHANGED <<db, view, files, wrote, report>>

CommitMove ==
    /\ pc = "note_commit"
    /\ db' = [db EXCEPT
                !.orders = [o \in Keys(@) |-> IF o \in Keys(tx.notes) THEN [@[o] EXCEPT !.note = tx.notes[o]] ELSE @[o]],
                !.items = {IF i.id \in tx.cleared THEN [i EXCEPT !.attrs = FALSE] ELSE i : i \in @}]
    /\ wrote' = [o \in Keys(tx.notes) |-> db.orders[o].note]
    /\ tx' = NoTx
    /\ Goto("note_final")
    /\ UNCHANGED <<view, files, report>>

\* Mutant: an order that the snapshot lacks is not an error.
OrderErrors_NoMissing ==
    {o \in ConsumedOrders : db.orders[o].note # db.codes[CodeOf(o)].note}

\* Orders whose note is not the code's, or that the snapshot lacks.
OrderErrors ==
    {o \in ConsumedOrders : \/ o \notin Keys(files.orders)
                            \/ db.orders[o].note # db.codes[CodeOf(o)].note}

\* Items that the snapshot lacks, that changed, or that were not cleared.
ItemErrors ==
    {i \in db.items :
        /\ i.order \in ConsumedOrders
        /\ ~\E j \in files.items :
              i = IF i.sku = 1 THEN [j EXCEPT !.attrs = FALSE] ELSE j}

CheckOrders ==
    /\ pc = "note_final"
    /\ view' = [view EXCEPT !.ok = OrderErrors = {}]
    /\ Goto("note_final_items")
    /\ UNCHANGED <<db, tx, files, wrote, report>>

\* Mutant: only the orders whose note was replaced are compared.
CheckItems_UpdatedOnly ==
    /\ pc = "note_final_items"
    /\ Finish("note", IF Keys(wrote) \subseteq Keys(files.orders) THEN "ok" ELSE "errors")
    /\ UNCHANGED <<db, tx, view, files, wrote>>

CheckItems ==
    /\ pc = "note_final_items"
    /\ Finish("note", IF view.ok /\ ItemErrors = {} THEN "ok" ELSE "errors")
    /\ UNCHANGED <<db, tx, view, files, wrote>>

-----------------------------------------------------------------------------
(* migrate_welfare_codes_to_multi_sku.ts                                   *)

\* The SKU of the items, by its code.
FindSku ==
    /\ pc = "multi"
    /\ Goto(IF db.sku THEN "multi_read" ELSE "multi_sku")
    /\ UNCHANGED <<db, tx, view, files, wrote, report>>

DefaultSku ==
    /\ pc = "multi_sku"
    /\ db' = [db EXCEPT !.sku = TRUE]
    /\ Goto("multi_read")
    /\ UNCHANGED <<tx, view, files, wrote, report>>

\* Mutant: every code is migrated, not only those without an item.
WithoutItem_All == Codes

WithoutItem == {c \in Codes : ~\E i \in db.codeItems : i.code = c}

ReadCodes ==
    /\ pc = "multi_read"
    /\ IF WithoutItem = {}
       THEN Finish("multi", "ok") /\ UNCHANGED <<tx, view>>
       ELSE /\ view' = [view EXCEPT !.left = WithoutItem, !.codes = {c \in WithoutItem : ~db.codes[c].original}]
            /\ tx' = [NoTx EXCEPT !.open = TRUE]
            /\ Goto("multi_insert") /\ UNCHANGED report
    /\ UNCHANGED <<db, files, wrote>>

\* The item of the next code, and its original price where it had none.
InsertItem(c) ==
    /\ pc = "multi_insert" /\ c \in view.left
    /\ tx' = [tx EXCEPT !.inserted = @ \cup {c},
                        !.priced = IF c \in view.codes THEN @ \cup {c} ELSE @]
    /\ view' = [view EXCEPT !.left = @ \ {c}]
    /\ Goto(IF view.left = {c} THEN "multi_commit" ELSE "multi_insert")
    /\ UNCHANGED <<db, files, wrote, report>>

CommitItems ==
    /\ pc = "multi_commit"
    /\ db' = [db EXCEPT !.codeItems = @ \cup {[code |-> c, run |-> starts] : c \in tx.inserted},
                        !.codes = [c \in Codes |-> IF c \in tx.priced THEN [@[c] EXCEPT !.original = TRUE] ELSE @[c]]]
    /\ tx' = NoTx
    /\ Finish("multi", "ok")
    /\ UNCHANGED <<view, files, wrote>>

-----------------------------------------------------------------------------
(* The verifications.                                                      *)

\* verify_orders_after_upgrade.ts, step 3: orders of the backup that are
\* gone, and orders it lacks that were made no later than its last one.
CompareOrders ==
    /\ pc = "verify"
    /\ view' = [view EXCEPT !.ok = /\ Keys(backup.orders) \subseteq Keys(db.orders)
                                   /\ \A o \in Keys(db.orders) \ Keys(backup.orders) : ~UpToLast(db.orders[o].at)]
    /\ Goto(IF view.left = {} THEN "verify_end" ELSE "verify_items")
    /\ UNCHANGED <<db, tx, files, wrote, report>>

\* Mutant: the comparison includes the attributes.
SameItem_Attrs(a, b) == a = b

\* The fields that the verification compares.
SameItem(a, b) == a.id = b.id /\ a.order = b.order /\ a.sku = b.sku

\* Step 4, one order of the backup: its items by id.
CompareItems(o) ==
    /\ pc = "verify_items" /\ o \in view.left
    /\ view' = [view EXCEPT !.left = @ \ {o},
                            !.ok = @ /\ \A b \in backup.items :
                                          b.order = o => \E i \in db.items : SameItem(b, i)]
    /\ Goto(IF view.left = {o} THEN "verify_end" ELSE "verify_items")
    /\ UNCHANGED <<db, tx, files, wrote, report>>

VerifyReport ==
    /\ pc = "verify_end"
    /\ Finish("verify", IF view.ok THEN "ok" ELSE "errors")
    /\ UNCHANGED <<db, tx, view, files, wrote>>

\* The rows of a table in the order of their ids.
Ranked(items, n) == CHOOSE i \in items : Cardinality({j \in items : j.id < i.id}) = n - 1

\* verify_order_items_migration.ts: as many rows, and the n-th of one the n-th
\* of the other, the attributes included.
SameRows(a, b) ==
    /\ Cardinality(a) = Cardinality(b)
    /\ \A n \in 1 .. Cardinality(a) : LET x == Ranked(a, n) y == Ranked(b, n)
                                      IN  SameItem(x, y) /\ x.attrs = y.attrs

VerifyItems ==
    /\ pc = "items"
    /\ Finish("items", IF SameRows(backup.items, db.items) THEN "ok" ELSE "errors")
    /\ UNCHANGED <<db, tx, view, files, wrote>>

\* verify_changelog_migration.ts: the two counts, then a sample by position.
CountOrders ==
    /\ pc = "log"
    /\ IF Cardinality(Keys(db.orders)) = Cardinality(Keys(backup.orders))
       THEN Goto("log_items") /\ UNCHANGED report ELSE Finish("log", "errors")
    /\ UNCHANGED <<db, tx, view, files, wrote>>

CountItems ==
    /\ pc = "log_items"
    /\ IF Cardinality(db.items) = Cardinality(backup.items)
       THEN Goto("log_sample") /\ UNCHANGED report ELSE Finish("log", "errors")
    /\ UNCHANGED <<db, tx, view, files, wrote>>

SampleItems ==
    /\ pc = "log_sample"
    /\ Finish("log", IF \A n \in ItemIds :
                          n <= Cardinality(db.items) /\ n <= Cardinality(backup.items)
                              => SameItem(Ranked(db.items, n), Ranked(backup.items, n))
                     THEN "ok" ELSE "errors")
    /\ UNCHANGED <<db, tx, view, files, wrote>>

NoteScript == ReadTargets \/ ReadOrders \/ ReadItems \/ UpdateNotes \/ ClearAttrs \/ CommitMove
              \/ CheckOrders \/ CheckItems
MultiScript == FindSku \/ DefaultSku \/ ReadCodes \/ CommitItems \/ \E c \in Codes : InsertItem(c)
Verification == CompareOrders \/ VerifyReport \/ VerifyItems \/ CountOrders \/ CountItems \/ SampleItems
                \/ \E o \in OrderNos : CompareItems(o)

UpgradeNext ==
    \/ \E c \in Codes, o \in OrderNos : Consume(c, o)
    \/ \E c \in Codes, n \in Notes : EditNote(c, n)
    \/ \E o \in OrderNos : DeleteOrder(o)
    \/ NextSecond \/ TakeBackup \/ Abort
    \/ \E s \in Scripts, apply \in BOOLEAN : (apply => s = "note") /\ Start(s, apply)
    \/ NoteScript \/ MultiScript \/ Verification

UpgradeSpec == UpgradeInit /\ [][UpgradeNext]_upgradeVars

-----------------------------------------------------------------------------
(* Properties.                                                             *)

OrderRow == [invite : Codes \cup {None}, note : Notes \cup {BuyerNote}, at : 0 .. 1]
ItemRow == [id : ItemIds, order : OrderNos, sku : 1 .. 2, attrs : BOOLEAN]

\* Every table has rows of its schema, and no two items share an id.
UpgradeTypeOK ==
    /\ Keys(db.orders) \subseteq OrderNos /\ \A o \in Keys(db.orders) : db.orders[o] \in OrderRow
    /\ db.items \subseteq ItemRow /\ \A i, j \in db.items : i.id = j.id => i = j
    /\ db.codes \in [Codes -> [order : OrderNos \cup {None}, note : Notes, original : BOOLEAN]]
    /\ backup.items \subseteq ItemRow
    /\ report \in [Scripts -> Outcomes]

Cleared(o) == \E i \in db.items : i.order = o /\ i.sku = 1 /\ ~i.attrs

\* Wherever the script stops, an order never has its code's note while its
\* items keep the attributes that the note replaces.
CopiedIsCleared ==
    \A i \in db.items : i.sku = 1 /\ i.attrs => db.orders[i.order].note = BuyerNote

\* An apply that reports success cleared no order's attributes without
\* copying the note, although orders came in between its two updates.
OkMovedBoth ==
    report["note"] = "ok" => \A o \in Keys(db.orders) : Cleared(o) => db.orders[o].note # BuyerNote

\* An apply that reports success replaced only buyers' notes (of orders that
\* still exist) that are in its before file, so that it can be undone from there.
OkCanBeUndone ==
    report["note"] = "ok" =>
        \A o \in Keys(wrote) \cap Keys(db.orders) : o \in Keys(files.orders) /\ files.orders[o] = wrote[o]

\* Runs, failures and runs again leave every code with at most one item, and a
\* successful run leaves none without.
OneItemPerCode ==
    /\ \A i, j \in db.codeItems : i.code = j.code => i = j
    /\ report["multi"] = "ok" => WithoutItem = {}

\* No migration, however often it failed, makes the verification of the
\* orders fail: a difference means that an order of the backup was deleted, or
\* that one came after the backup, in the second of its last order.
DifferenceMeansLoss ==
    report["verify"] = "errors" => deleted \cap Keys(backup.orders) # {} \/ late # {}
=============================================================================
