------------------------------ MODULE Catalog -------------------------------
(***************************************************************************)
(* Properties and their categories: the administration site in several     *)
(* browser tabs, the routes behind it and the spreadsheet import.  The     *)
(* server is the store that DurableTables abstracts: db is the memory,     *)
(* saved the file, and a handler is one action; one that finds no row      *)
(* changes nothing, so old rows on a page need no state.  Rows carry a     *)
(* number of their own (born), by which the properties below tell a row    *)
(* from another that has got its id after a crash or in a new container.   *)
(***************************************************************************)
EXTENDS Naturals, FiniteSets, FiniteSetsExt

CONSTANTS
    Tabs,        \* browser tabs with a form
    None,
    MaxCats,     \* bound: categories created
    MaxProps,    \* bound: properties created
    MaxCrashes   \* bound: crashes and lost containers of the server

ASSUME CatalogAssumption ==
    MaxCats \in Nat /\ MaxProps \in Nat /\ MaxCrashes \in Nat

VARIABLES
    db, saved,  \* the tables categories and properties, in memory and in the file
    born,       \* rows created so far, lost ones included
    crashes,
    form,       \* the form open in each tab
    imported    \* rows of imports that were acknowledged, and not deleted since,
                \* in the container that runs

vars == <<db, saved, born, crashes, form, imported>>

Empty == [cats |-> {}, props |-> {}, nextCat |-> 1, nextProp |-> 1]

Init ==
    /\ db = Empty /\ saved = Empty /\ born = [cats |-> 0, props |-> 0] /\ crashes = 0
    /\ form = [t \in Tabs |-> None]
    /\ imported = {}

-----------------------------------------------------------------------------
(* The repositories.                                                       *)

Ids(rows) == {r.id : r \in rows}

\* Mutant: the next id is computed from the rows that are left.
NextCat_FromRows(d) == IF d.cats = {} THEN 1 ELSE Max(Ids(d.cats)) + 1

\* nextId('categories').
NextCat(d) == d.nextCat

\* categories.create.
WithCategory(d, b) ==
    [d EXCEPT !.cats = @ \cup {[id |-> NextCat(d), born |-> b]}, !.nextCat = NextCat(d) + 1]

\* properties.create.
WithProperty(d, b, f) ==
    [d EXCEPT !.props = @ \cup {[id |-> d.nextProp, born |-> b, cat |-> f.cat, chosen |-> f.chosen]},
              !.nextProp = @ + 1]

\* existsByCategoryId.
InUse(d, c) == \E p \in d.props : p.cat = c

-----------------------------------------------------------------------------
(* The page of categories.                                                 *)

Server == UNCHANGED <<db, saved, born, crashes, imported>>
Quiet == UNCHANGED <<saved, crashes, imported>>

\* handleSubmit of a new category.
CreateCategory ==
    /\ born.cats < MaxCats
    /\ db' = WithCategory(db, born.cats + 1)
    /\ born' = [born EXCEPT !.cats = @ + 1]
    /\ Quiet /\ UNCHANGED form

\* Mutant: the check looks in the file, which lags behind.
MayDelete_Saved(c) == ~InUse(saved, c)

\* The check of router.delete('/:id').
MayDelete(c) == ~InUse(db, c)

DeleteCategory(c) ==
    /\ c \in Ids(db.cats) /\ MayDelete(c)
    /\ db' = [db EXCEPT !.cats = {r \in @ : r.id # c}]
    /\ Quiet /\ UNCHANGED <<born, form>>

-----------------------------------------------------------------------------
(* The page of properties and the form.                                    *)

\* The form of a new property, for which one of the categories on offer is
\* chosen, or none.
OpenNew(t, c) ==
    /\ form[t] = None /\ c \in db.cats \cup {None}
    /\ form' = [form EXCEPT ![t] = [prop |-> 0,
                                    cat |-> IF c = None THEN 0 ELSE c.id,
                                    chosen |-> IF c = None THEN 0 ELSE c.born]]
    /\ Server

\* The form of a property, with the category it has or another one.
OpenEdit(t, p, c) ==
    /\ form[t] = None /\ p \in db.props /\ c \in db.cats \cup {None}
    /\ form' = [form EXCEPT ![t] = [prop |-> p.id,
                                    cat |-> IF c = None THEN p.cat ELSE c.id,
                                    chosen |-> IF c = None THEN p.chosen ELSE c.born]]
    /\ Server

\* handleBack.
CloseForm(t) ==
    /\ form[t] # None /\ form' = [form EXCEPT ![t] = None]
    /\ Server

\* Saving: an unknown id is refused, the category is not looked up.  When the
\* answer is lost the form stays open and can be saved again.
Save(t, answered) ==
    LET f == form[t] IN
    /\ f # None
    /\ IF f.prop = 0
       THEN /\ born.props < MaxProps
            /\ db' = WithProperty(db, born.props + 1, f)
            /\ born' = [born EXCEPT !.props = @ + 1]
       ELSE /\ f.prop \in Ids(db.props)
            /\ db' = [db EXCEPT !.props = {IF r.id = f.prop
                                           THEN [r EXCEPT !.cat = f.cat, !.chosen = f.chosen]
                                           ELSE r : r \in @}]
            /\ UNCHANGED born
    /\ form' = IF answered THEN [form EXCEPT ![t] = None] ELSE form
    /\ Quiet

\* handleDelete, confirmed, of a row that is shown: 404 when it is gone.
DeleteProperty(p) ==
    /\ p \in db.props
    /\ db' = [db EXCEPT !.props = @ \ {p}]
    /\ imported' = imported \ {p.born}
    /\ UNCHANGED <<saved, born, crashes, form>>

\* Mutant: bulkInsert leaves saving to the timer.
AfterImport_Later(d) == saved

\* flushNow at the end of bulkInsert.
AfterImport(d) == d

\* The row a spreadsheet line becomes.
Line == [cat |-> 0, chosen |-> 0]

\* handleImport and POST /import of a file with a valid line: acknowledged
\* after flushNow; when that throws the row stays in memory all the same.
Import(ok) ==
    LET d == WithProperty(db, born.props + 1, Line) IN
    /\ born.props < MaxProps
    /\ db' = d /\ born' = [born EXCEPT !.props = @ + 1]
    /\ saved' = IF ok THEN AfterImport(d) ELSE saved
    /\ imported' = IF ok THEN imported \cup {born.props + 1} ELSE imported
    /\ UNCHANGED <<crashes, form>>

-----------------------------------------------------------------------------

Flush ==
    /\ saved' = db
    /\ UNCHANGED <<db, born, crashes, form, imported>>

\* Forms stay open over a restart of the server; what they chose is then no
\* longer claimed.
Restart ==
    /\ crashes < MaxCrashes /\ crashes' = crashes + 1
    /\ form' = [t \in Tabs |-> IF form[t] = None THEN None ELSE [form[t] EXCEPT !.chosen = 0]]
    /\ UNCHANGED born

\* The process dies and is started again on its file.
Crash == Restart /\ db' = saved /\ UNCHANGED <<saved, imported>>

\* The container is replaced and takes its /tmp, with the file, along.
Replace == Restart /\ db' = Empty /\ saved' = Empty /\ imported' = {}

Next ==
    \/ \E t \in Tabs :
          \/ CloseForm(t) \/ \E answered \in BOOLEAN : Save(t, answered)
          \/ \E c \in db.cats \cup {None} :
                OpenNew(t, c) \/ \E p \in db.props : OpenEdit(t, p, c)
    \/ CreateCategory \/ \E c \in Ids(db.cats) : DeleteCategory(c)
    \/ \E p \in db.props : DeleteProperty(p)
    \/ \E ok \in BOOLEAN : Import(ok)
    \/ Flush \/ Crash \/ Replace

Spec == Init /\ [][Next]_vars

-----------------------------------------------------------------------------
(* Properties.                                                             *)

Category == [id : Nat, born : Nat]
Property == [id : Nat, born : Nat, cat : Nat, chosen : Nat]
Form == [prop : Nat, cat : Nat, chosen : Nat]
Tables == [cats : SUBSET Category, props : SUBSET Property, nextCat : Nat, nextProp : Nat]

\* Every variable has its type.
TypeOK ==
    /\ db \in Tables /\ saved \in Tables
    /\ born \in [cats : Nat, props : Nat] /\ crashes \in 0 .. MaxCrashes
    /\ form \in [Tabs -> Form \cup {None}]
    /\ imported \subseteq Nat

\* A property is never found under a category that nobody chose for it: the
\* form may name a category that has been deleted since, but no later category
\* gets its id, unless a restart made the server forget that it was handed out.
CategoryAsChosen ==
    \A p \in db.props, c \in db.cats : p.cat = c.id /\ p.chosen # 0 => p.chosen = c.born

\* A category that was chosen for a property does not go away while the
\* property is in it, whoever deletes categories and moves properties meanwhile,
\* and also not by a crash: a restart leaves both or neither.
CategoryInUseStays ==
    [][\A p \in db.props :
          p.chosen # 0 /\ p.cat \in Ids(db.cats) /\ p \in db'.props => p.cat \in Ids(db'.cats)]_vars

\* The rows of an import that was acknowledged are in the file, through crashes
\* too, until an administrator deletes them or the container is replaced and the
\* file with it: an import saves before it answers, where other handlers leave
\* that to the timer.
ImportedIsSaved ==
    \A b \in imported : \E p \in saved.props : p.born = b
=============================================================================
