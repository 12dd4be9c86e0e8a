---------------------------- MODULE CatalogProofs ---------------------------
(***************************************************************************)
(* Proofs about Catalog for any number of tabs, categories, properties and *)
(* restarts.                                                               *)
(***************************************************************************)
EXTENDS Catalog, TLAPS

\* The tables after a property was created.
LEMMA WithPropertyType ==
    ASSUME NEW d \in Tables, NEW b \in Nat, NEW f \in Form \cup {Line}
    PROVE  /\ WithProperty(d, b, f) \in Tables
           /\ WithProperty(d, b, f).cats = d.cats /\ WithProperty(d, b, f).nextCat = d.nextCat
           /\ WithProperty(d, b, f).props =
                d.props \cup {[id |-> d.nextProp, born |-> b, cat |-> f.cat, chosen |-> f.chosen]}
<1> DEFINE new == [id |-> d.nextProp, born |-> b, cat |-> f.cat, chosen |-> f.chosen]
           props == d.props \cup {new}
           next == d.nextProp + 1
<1>1. props \subseteq Property /\ next \in Nat
  BY DEF Tables, Property, Form, Line
<1>2. WithProperty(d, b, f) = [d EXCEPT !.props = props, !.nextProp = next]
  BY DEF WithProperty
<1> HIDE DEF props, next
<1>3. [d EXCEPT !.props = props, !.nextProp = next] \in Tables
  BY <1>1 DEF Tables
<1>4. /\ WithProperty(d, b, f).cats = d.cats /\ WithProperty(d, b, f).nextCat = d.nextCat
      /\ WithProperty(d, b, f).props = props
  BY <1>2 DEF Tables
<1> QED BY <1>2, <1>3, <1>4 DEF props

\* The tables after a category was created.
LEMMA WithCategoryType ==
    ASSUME NEW d \in Tables, NEW b \in Nat
    PROVE  /\ WithCategory(d, b) \in Tables
           /\ WithCategory(d, b).props = d.props /\ WithCategory(d, b).nextCat = d.nextCat + 1
           /\ WithCategory(d, b).cats = d.cats \cup {[id |-> d.nextCat, born |-> b]}
<1> DEFINE cats == d.cats \cup {[id |-> d.nextCat, born |-> b]}
           next == d.nextCat + 1
<1>1. cats \subseteq Category /\ next \in Nat
  BY DEF Tables, Category
<1>2. WithCategory(d, b) = [d EXCEPT !.cats = cats, !.nextCat = next]
  BY DEF WithCategory, NextCat
<1> HIDE DEF cats, next
<1>3. [d EXCEPT !.cats = cats, !.nextCat = next] \in Tables
  BY <1>1 DEF Tables
<1>4. /\ WithCategory(d, b).props = d.props /\ WithCategory(d, b).nextCat = next
      /\ WithCategory(d, b).cats = cats
  BY <1>2 DEF Tables
<1> QED BY <1>2, <1>3, <1>4 DEF cats, next

\* The rows after the form of a property was saved.
Edited(rows, f) ==
    {IF r.id = f.prop THEN [r EXCEPT !.cat = f.cat, !.chosen = f.chosen] ELSE r : r \in rows}

LEMMA EditedRows ==
    ASSUME NEW rows \in SUBSET Property, NEW f \in Form
    PROVE  /\ Edited(rows, f) \subseteq Property
           /\ \A r \in rows : \E s \in Edited(rows, f) : s.born = r.born
           /\ \A s \in Edited(rows, f) :
                 s \in rows \/ (s.cat = f.cat /\ s.chosen = f.chosen)
<1> DEFINE New(r) == IF r.id = f.prop THEN [r EXCEPT !.cat = f.cat, !.chosen = f.chosen] ELSE r
<1>1. \A r \in rows : /\ New(r) \in Property /\ New(r).born = r.born
                      /\ New(r) = r \/ (New(r).cat = f.cat /\ New(r).chosen = f.chosen)
  BY DEF Property, Form
<1>2. Edited(rows, f) = {New(r) : r \in rows}
  BY DEF Edited
<1> HIDE DEF New
<1> QED BY <1>1, <1>2

\* What saving a form does.
LEMMA SaveType ==
    ASSUME TypeOK, NEW t \in Tabs, NEW answered \in BOOLEAN, Save(t, answered)
    PROVE  /\ form[t] \in Form
           /\ db' \in Tables /\ db'.cats = db.cats /\ db'.nextCat = db.nextCat
           /\ \A r \in db.props : \E s \in db'.props : s.born = r.born
           /\ \A s \in db'.props :
                 s \in db.props \/ (s.cat = form[t].cat /\ s.chosen = form[t].chosen)
           /\ born' \in [cats : Nat, props : Nat]
           /\ form' \in [Tabs -> Form \cup {None}]
           /\ \A u \in Tabs : form'[u] = None \/ form'[u] = form[u]
           /\ UNCHANGED <<saved, crashes, imported>>
<1> DEFINE f == form[t]
<1>1. f \in Form
  <2>1. f # None
    BY DEF Save
  <2> HIDE DEF Form
  <2> QED BY <2>1 DEF TypeOK
<1>2. /\ UNCHANGED <<saved, crashes, imported>>
      /\ form' \in [Tabs -> Form \cup {None}]
      /\ \A u \in Tabs : form'[u] = None \/ form'[u] = form[u]
  BY DEF TypeOK, Save, Quiet
<1>3. CASE f.prop = 0
  <2> DEFINE b == born.props + 1
             new == [id |-> db.nextProp, born |-> b, cat |-> f.cat, chosen |-> f.chosen]
  <2>1. db' = WithProperty(db, b, f) /\ born' = [born EXCEPT !.props = @ + 1]
    BY <1>3 DEF Save
  <2>2. b \in Nat /\ born' \in [cats : Nat, props : Nat] /\ db \in Tables
    BY <2>1 DEF TypeOK
  <2> HIDE DEF b, f
  <2>3. /\ db' \in Tables /\ db'.cats = db.cats /\ db'.nextCat = db.nextCat
        /\ db'.props = db.props \cup {new}
    BY <1>1, <2>1, <2>2, WithPropertyType
  <2>4. new.cat = f.cat /\ new.chosen = f.chosen
    OBVIOUS
  <2> HIDE DEF new
  <2> QED BY <1>1, <1>2, <2>2, <2>3, <2>4 DEF f
<1>4. CASE f.prop # 0
  <2>1. db' = [db EXCEPT !.props = Edited(@, f)] /\ born' = born
    BY <1>4 DEF Save, Edited
  <2>2. db.props \in SUBSET Property
    BY DEF TypeOK, Tables
  <2> HIDE DEF f
  <2>3. Edited(db.props, f) \subseteq Property
    BY <1>1, <2>2, EditedRows
  <2>4. /\ db' \in Tables /\ db'.cats = db.cats /\ db'.nextCat = db.nextCat
        /\ db'.props = Edited(db.props, f)
    BY <2>1, <2>3 DEF TypeOK, Tables
  <2> QED BY <1>1, <1>2, <2>1, <2>2, <2>4, EditedRows DEF TypeOK, f
<1> QED BY <1>3, <1>4

LEMMA NextType == TypeOK /\ [Next]_vars => TypeOK'
<1> SUFFICES ASSUME TypeOK, [Next]_vars PROVE TypeOK'
  OBVIOUS
<1>1. ASSUME NEW t \in Tabs, CloseForm(t) PROVE TypeOK'
  BY <1>1 DEF CloseForm, Server, TypeOK
<1>2. ASSUME NEW t \in Tabs, NEW answered \in BOOLEAN, Save(t, answered) PROVE TypeOK'
  BY <1>2, SaveType DEF TypeOK
<1>3. ASSUME NEW t \in Tabs, NEW c \in db.cats \cup {None}, OpenNew(t, c) PROVE TypeOK'
  <2>1. [prop |-> 0, cat |-> IF c = None THEN 0 ELSE c.id,
         chosen |-> IF c = None THEN 0 ELSE c.born] \in Form
    BY DEF TypeOK, Tables, Category, Form
  <2> HIDE DEF Form
  <2> QED BY <1>3, <2>1 DEF OpenNew, Server, TypeOK
<1>4. ASSUME NEW t \in Tabs, NEW c \in db.cats \cup {None}, NEW p \in db.props, OpenEdit(t, p, c)
      PROVE  TypeOK'
  <2>1. [prop |-> p.id, cat |-> IF c = None THEN p.cat ELSE c.id,
         chosen |-> IF c = None THEN p.chosen ELSE c.born] \in Form
    BY DEF TypeOK, Tables, Category, Property, Form
  <2> HIDE DEF Form
  <2> QED BY <1>4, <2>1 DEF OpenEdit, Server, TypeOK
<1>5. CASE CreateCategory
  <2>1. db \in Tables /\ born.cats + 1 \in Nat
    BY DEF TypeOK
  <2>2. db' \in Tables
    BY <1>5, <2>1, WithCategoryType DEF CreateCategory
  <2> QED BY <1>5, <2>2 DEF CreateCategory, Quiet, TypeOK
<1>6. ASSUME NEW c, DeleteCategory(c) PROVE TypeOK'
  <2>1. db' = [db EXCEPT !.cats = {r \in @ : r.id # c}]
    BY <1>6 DEF DeleteCategory
  <2>2. db' \in Tables
    BY <2>1 DEF TypeOK, Tables
  <2> QED BY <1>6, <2>2 DEF DeleteCategory, Quiet, TypeOK
<1>7. ASSUME NEW p, DeleteProperty(p) PROVE TypeOK'
  <2>1. db' \in Tables
    BY <1>7 DEF DeleteProperty, TypeOK, Tables
  <2> QED BY <1>7, <2>1 DEF DeleteProperty, TypeOK
<1>8. ASSUME NEW ok \in BOOLEAN, Import(ok) PROVE TypeOK'
  <2>1. db \in Tables /\ born.props + 1 \in Nat
    BY DEF TypeOK
  <2>2. db' \in Tables
    BY <1>8, <2>1, WithPropertyType DEF Import
  <2> QED BY <1>8, <2>1, <2>2 DEF Import, AfterImport, TypeOK
<1>9. CASE Crash \/ Replace
  <2>1. /\ form' \in [Tabs -> Form \cup {None}] /\ crashes' \in 0 .. MaxCrashes
        /\ born' = born
    BY <1>9, CatalogAssumption DEF Crash, Replace, Restart, TypeOK, Form
  <2>2. Empty \in Tables
    BY DEF Empty, Tables
  <2> QED BY <1>9, <2>1, <2>2 DEF Crash, Replace, TypeOK
<1>10. CASE Flush \/ UNCHANGED vars
  BY <1>10 DEF Flush, vars, TypeOK
<1> QED BY <1>1, <1>2, <1>3, <1>4, <1>5, <1>6, <1>7, <1>8, <1>9, <1>10 DEF Next

\* The tables, in memory and in the file, and the open forms always have their
\* types.
THEOREM CatalogTypeCorrect == Spec => []TypeOK
<1>1. Init => TypeOK
  BY CatalogAssumption DEF Init, Empty, Tables, TypeOK
<1> QED BY <1>1, NextType, PTL DEF Spec

-----------------------------------------------------------------------------
(* Imports.                                                                *)

\* The rows of an acknowledged import are in memory and in the file.
ImportedKept ==
    \A b \in imported : /\ \E p \in db.props : p.born = b
                        /\ \E p \in saved.props : p.born = b

LEMMA NextImported == TypeOK /\ ImportedKept /\ [Next]_vars => ImportedKept'
<1> SUFFICES ASSUME TypeOK, ImportedKept, [Next]_vars PROVE ImportedKept'
  OBVIOUS
<1>1. ASSUME NEW t \in Tabs, NEW answered \in BOOLEAN, Save(t, answered) PROVE ImportedKept'
  <2>1. /\ saved' = saved /\ imported' = imported
        /\ \A r \in db.props : \E s \in db'.props : s.born = r.born
    BY <1>1, SaveType
  <2> QED BY <2>1 DEF ImportedKept
<1>2. CASE CreateCategory
  <2>1. db \in Tables /\ born.cats + 1 \in Nat
    BY DEF TypeOK
  <2>2. db'.props = db.props
    BY <1>2, <2>1, WithCategoryType DEF CreateCategory
  <2> QED BY <1>2, <2>2 DEF CreateCategory, Quiet, ImportedKept
<1>3. ASSUME NEW c, DeleteCategory(c) PROVE ImportedKept'
  <2>1. db'.props = db.props
    BY <1>3 DEF DeleteCategory, TypeOK, Tables
  <2> QED BY <1>3, <2>1 DEF DeleteCategory, Quiet, ImportedKept
<1>4. ASSUME NEW p, DeleteProperty(p) PROVE ImportedKept'
  <2>1. db'.props = db.props \ {p} /\ imported' = imported \ {p.born} /\ saved' = saved
    BY <1>4 DEF DeleteProperty, TypeOK, Tables
  <2> QED BY <2>1 DEF ImportedKept
<1>5. ASSUME NEW ok \in BOOLEAN, Import(ok) PROVE ImportedKept'
  <2> DEFINE b == born.props + 1
             new == [id |-> db.nextProp, born |-> b, cat |-> Line.cat, chosen |-> Line.chosen]
  <2>1. b \in Nat /\ db \in Tables
    BY DEF TypeOK
  <2>2. db' = WithProperty(db, b, Line) /\ db'.props = db.props \cup {new}
    BY <1>5, <2>1, WithPropertyType DEF Import
  <2>3. CASE ok
    <3>1. imported' = imported \cup {b} /\ saved' = db'
      BY <1>5, <2>3 DEF Import, AfterImport
    <3>2. new.born = b
      OBVIOUS
    <3> HIDE DEF new, b
    <3> QED BY <2>2, <3>1, <3>2 DEF ImportedKept
  <2>4. CASE ~ok
    BY <1>5, <2>2, <2>4 DEF Import, ImportedKept
  <2> QED BY <2>3, <2>4
<1>6. CASE Flush \/ Crash \/ Replace \/ UNCHANGED vars
  BY <1>6 DEF Flush, Crash, Replace, vars, ImportedKept
<1>7. ASSUME NEW t \in Tabs,
             \/ CloseForm(t)
             \/ \E c \in db.cats \cup {None} :
                   OpenNew(t, c) \/ \E p \in db.props : OpenEdit(t, p, c)
      PROVE  ImportedKept'
  BY <1>7 DEF CloseForm, OpenNew, OpenEdit, Server, ImportedKept
<1> QED BY <1>1, <1>2, <1>3, <1>4, <1>5, <1>6, <1>7 DEF Next

\* The rows of an import that bulkInsert acknowledged after flushNow stay in the
\* file until an administrator deletes them or the container is replaced.
THEOREM ImportsAreSaved == Spec => []ImportedIsSaved
<1>1. Init => ImportedKept
  BY DEF Init, ImportedKept
<1>2. ImportedKept => ImportedIsSaved
  BY DEF ImportedKept, ImportedIsSaved
<1> QED BY <1>1, <1>2, NextImported, CatalogTypeCorrect, PTL DEF Spec

-----------------------------------------------------------------------------
(* Categories.                                                             *)

\* A chosen category was handed out, and the id still means it.
Means(d, cat, chosen) ==
    chosen # 0 => /\ cat < d.nextCat
                  /\ \A c \in d.cats : c.id = cat => c.born = chosen

\* Ids of categories are below the counter and are not used twice; what
\* properties say they are in is what was chosen.
CatsIn(d) ==
    /\ \A c \in d.cats : c.id < d.nextCat
    /\ \A b, c \in d.cats : b.id = c.id => b = c
    /\ \A p \in d.props : Means(d, p.cat, p.chosen)

\* The memory has no category that the file lacks and whose id the file has
\* handed out.
Ahead ==
    /\ saved.nextCat <= db.nextCat
    /\ \A c \in db.cats : c.id < saved.nextCat => c \in saved.cats

FormsMean == \A t \in Tabs : form[t] # None => Means(db, form[t].cat, form[t].chosen)

CatsInv == CatsIn(db) /\ CatsIn(saved) /\ Ahead /\ FormsMean

LEMMA NextCats == TypeOK /\ CatsInv /\ [Next]_vars => CatsInv'
<1> SUFFICES ASSUME TypeOK, CatsInv, [Next]_vars PROVE CatsInv'
  OBVIOUS
<1>1. ASSUME NEW t \in Tabs, NEW answered \in BOOLEAN, Save(t, answered) PROVE CatsInv'
  <2>1. /\ db'.cats = db.cats /\ db'.nextCat = db.nextCat /\ saved' = saved
        /\ \A s \in db'.props : s \in db.props \/ (s.cat = form[t].cat /\ s.chosen = form[t].chosen)
        /\ \A u \in Tabs : form'[u] = None \/ form'[u] = form[u]
    BY <1>1, SaveType
  <2>2. Means(db, form[t].cat, form[t].chosen)
    BY <1>1 DEF Save, CatsInv, FormsMean
  <2>3. CatsIn(db)'
    BY <2>1, <2>2 DEF CatsInv, CatsIn, Means
  <2>4. FormsMean'
    BY <2>1 DEF CatsInv, FormsMean, Means
  <2> QED BY <2>1, <2>3, <2>4 DEF CatsInv, CatsIn, Means, Ahead
<1>2. ASSUME NEW t \in Tabs, NEW c \in db.cats \cup {None}, OpenNew(t, c) PROVE CatsInv'
  <2> DEFINE f == [prop |-> 0, cat |-> IF c = None THEN 0 ELSE c.id,
                   chosen |-> IF c = None THEN 0 ELSE c.born]
  <2>1. form' = [form EXCEPT ![t] = f] /\ db' = db /\ saved' = saved
    BY <1>2 DEF OpenNew, Server
  <2>2. Means(db, f.cat, f.chosen)
    BY DEF Means, CatsInv, CatsIn
  <2> HIDE DEF f
  <2>3. FormsMean'
    BY <2>1, <2>2 DEF CatsInv, FormsMean, Means, TypeOK
  <2> QED BY <2>1, <2>3 DEF CatsInv, CatsIn, Means, Ahead
<1>3. ASSUME NEW t \in Tabs, NEW c \in db.cats \cup {None}, NEW p \in db.props, OpenEdit(t, p, c)
      PROVE  CatsInv'
  <2> DEFINE f == [prop |-> p.id, cat |-> IF c = None THEN p.cat ELSE c.id,
                   chosen |-> IF c = None THEN p.chosen ELSE c.born]
  <2>1. form' = [form EXCEPT ![t] = f] /\ db' = db /\ saved' = saved
    BY <1>3 DEF OpenEdit, Server
  <2>2. Means(db, f.cat, f.chosen)
    BY DEF Means, CatsInv, CatsIn
  <2> HIDE DEF f
  <2>3. FormsMean'
    BY <2>1, <2>2 DEF CatsInv, FormsMean, Means, TypeOK
  <2> QED BY <2>1, <2>3 DEF CatsInv, CatsIn, Means, Ahead
<1>4. CASE CreateCategory
  <2> DEFINE new == [id |-> db.nextCat, born |-> born.cats + 1]
  <2>1. db \in Tables /\ born.cats + 1 \in Nat
    BY DEF TypeOK
  <2>2. /\ db'.props = db.props /\ db'.nextCat = db.nextCat + 1
        /\ db'.cats = db.cats \cup {new}
    BY <1>4, <2>1, WithCategoryType DEF CreateCategory
  <2>3. saved' = saved /\ form' = form
    BY <1>4 DEF CreateCategory, Quiet
  <2>4. /\ db.nextCat \in Nat /\ saved.nextCat \in Nat /\ new.id = db.nextCat
        /\ \A c \in db.cats : c.id \in Nat
    BY DEF TypeOK, Tables, Category
  <2> HIDE DEF new
  <2>5. ASSUME NEW cat \in Nat, NEW chosen, Means(db, cat, chosen) PROVE Means(db', cat, chosen)
    BY <2>2, <2>4, <2>5 DEF Means
  <2>6. CatsIn(db)'
    <3>1. \A p \in db.props : p.cat \in Nat /\ Means(db, p.cat, p.chosen)
      BY DEF TypeOK, Tables, Property, CatsInv, CatsIn
    <3>2. \A p \in db'.props : Means(db', p.cat, p.chosen)
      BY <2>2, <2>5, <3>1
    <3>3. \A c \in db.cats : c.id < db.nextCat
      BY DEF CatsInv, CatsIn
    <3>4. \A c \in db'.cats : c.id < db'.nextCat
      BY <2>2, <2>4, <3>3
    <3>5. \A b, c \in db'.cats : b.id = c.id => b = c
      BY <2>2, <2>4, <3>3 DEF CatsInv, CatsIn
    <3> QED BY <3>2, <3>4, <3>5 DEF CatsIn
  <2>7. FormsMean'
    BY <2>3, <2>5 DEF CatsInv, FormsMean, TypeOK, Form
  <2>8. Ahead'
    BY <2>2, <2>3, <2>4 DEF CatsInv, Ahead
  <2> QED BY <2>3, <2>6, <2>7, <2>8 DEF CatsInv, CatsIn, Means
<1>5. ASSUME NEW c, DeleteCategory(c) PROVE CatsInv'
  <2>1. /\ db'.cats \subseteq db.cats /\ db'.props = db.props /\ db'.nextCat = db.nextCat
        /\ saved' = saved /\ form' = form
    BY <1>5 DEF DeleteCategory, Quiet, TypeOK, Tables
  <2> QED BY <2>1 DEF CatsInv, CatsIn, Means, Ahead, FormsMean
<1>6. ASSUME NEW p, DeleteProperty(p) PROVE CatsInv'
  <2>1. /\ db'.cats = db.cats /\ db'.props \subseteq db.props /\ db'.nextCat = db.nextCat
        /\ saved' = saved /\ form' = form
    BY <1>6 DEF DeleteProperty, TypeOK, Tables
  <2> QED BY <2>1 DEF CatsInv, CatsIn, Means, Ahead, FormsMean
<1>7. ASSUME NEW ok \in BOOLEAN, Import(ok) PROVE CatsInv'
  <2> DEFINE new == [id |-> db.nextProp, born |-> born.props + 1, cat |-> Line.cat, chosen |-> Line.chosen]
  <2>1. db \in Tables /\ born.props + 1 \in Nat
    BY DEF TypeOK
  <2>2. /\ db'.cats = db.cats /\ db'.nextCat = db.nextCat
        /\ db'.props = db.props \cup {new} /\ form' = form
    BY <1>7, <2>1, WithPropertyType DEF Import
  <2>3. new.chosen = 0
    BY DEF Line
  <2> HIDE DEF new
  <2>4. CatsIn(db)' /\ FormsMean'
    BY <2>2, <2>3 DEF CatsInv, CatsIn, Means, FormsMean
  <2>5. saved' = db' \/ saved' = saved
    BY <1>7 DEF Import, AfterImport
  <2>6. db'.nextCat \in Nat
    BY <2>1, <2>2 DEF Tables
  <2> QED BY <2>2, <2>4, <2>5, <2>6 DEF CatsInv, CatsIn, Means, Ahead
<1>8. CASE Flush
  <2>1. saved' = db /\ db' = db /\ form' = form /\ db.nextCat \in Nat
    BY <1>8 DEF Flush, TypeOK, Tables
  <2> QED BY <2>1 DEF CatsInv, CatsIn, Means, Ahead, FormsMean
<1>9. CASE Crash
  <2>1. saved' = saved /\ db' = saved /\ saved.nextCat \in Nat
    BY <1>9 DEF Crash, TypeOK, Tables
  <2>2. \A t \in Tabs : form'[t] = None \/ form'[t].chosen = 0
    BY <1>9 DEF Crash, Restart, TypeOK, Form
  <2> QED BY <2>1, <2>2 DEF CatsInv, CatsIn, Means, Ahead, FormsMean
<1>10. CASE UNCHANGED vars
  BY <1>10 DEF vars, CatsInv, CatsIn, Means, Ahead, FormsMean
<1>11. ASSUME NEW t \in Tabs, CloseForm(t) PROVE CatsInv'
  BY <1>11 DEF CloseForm, Server, TypeOK, CatsInv, CatsIn, Means, Ahead, FormsMean
<1>12. CASE Replace
  <2>1. /\ saved' = db' /\ db'.cats = {} /\ db'.props = {} /\ db'.nextCat = 1
    BY <1>12 DEF Replace, Empty
  <2>2. \A t \in Tabs : form'[t] = None \/ form'[t].chosen = 0
    BY <1>12 DEF Replace, Restart, TypeOK, Form
  <2> QED BY <2>1, <2>2 DEF CatsInv, CatsIn, Means, Ahead, FormsMean
<1> QED BY <1>1, <1>2, <1>3, <1>4, <1>5, <1>6, <1>7, <1>8, <1>9, <1>10, <1>11, <1>12 DEF Next

LEMMA CatsAlways == Spec => []CatsInv
<1>1. Init => CatsInv
  <2> SUFFICES ASSUME Init PROVE CatsInv
    OBVIOUS
  <2>1. /\ db = Empty /\ saved = Empty /\ \A t \in Tabs : form[t] = None
        /\ Empty.cats = {} /\ Empty.props = {} /\ Empty.nextCat = 1
    BY DEF Init, Empty
  <2> HIDE DEF Empty
  <2> QED BY <2>1 DEF CatsInv, CatsIn, Means, Ahead, FormsMean
<1> QED BY <1>1, NextCats, CatalogTypeCorrect, PTL DEF Spec

\* A property is under the category that was chosen for it or under none:
\* nextId('categories') never hands an id out again that a form still offers.
THEOREM CategoriesAsChosen == Spec => []CategoryAsChosen
<1>1. CatsInv => CategoryAsChosen
  BY DEF CatsInv, CatsIn, Means, CategoryAsChosen
<1> QED BY <1>1, CatsAlways, PTL

\* existsByCategoryId keeps a category while a property it was chosen for is in
\* it, and so does a crash: where the file has the property it has the category,
\* or both are gone, as they are with a lost container.
THEOREM CategoriesStay == Spec => CategoryInUseStays
<1> DEFINE Stays ==
      \A p \in db.props :
         p.chosen # 0 /\ p.cat \in Ids(db.cats) /\ p \in db'.props => p.cat \in Ids(db'.cats)
<1>1. TypeOK /\ CatsInv /\ [Next]_vars => [Stays]_vars
  <2> SUFFICES ASSUME TypeOK, CatsInv, [Next]_vars,
                      NEW p \in db.props, p.chosen # 0, p.cat \in Ids(db.cats), p \in db'.props
               PROVE  p.cat \in Ids(db'.cats)
    OBVIOUS
  <2>1. ASSUME db.cats \subseteq db'.cats PROVE p.cat \in Ids(db'.cats)
    BY <2>1 DEF Ids
  <2>2. CASE CreateCategory
    <3>1. db \in Tables /\ born.cats + 1 \in Nat
      BY DEF TypeOK
    <3> QED BY <2>1, <2>2, <3>1, WithCategoryType DEF CreateCategory
  <2>3. ASSUME NEW c, DeleteCategory(c) PROVE p.cat \in Ids(db'.cats)
    <3>1. p.cat # c
      BY <2>3 DEF DeleteCategory, MayDelete, InUse
    <3>2. db'.cats = {r \in db.cats : r.id # c}
      BY <2>3 DEF DeleteCategory, TypeOK, Tables
    <3> QED BY <3>1, <3>2 DEF Ids
  <2>4. ASSUME NEW q, DeleteProperty(q) PROVE p.cat \in Ids(db'.cats)
    BY <2>1, <2>4 DEF DeleteProperty, TypeOK, Tables
  <2>5. ASSUME NEW ok \in BOOLEAN, Import(ok) PROVE p.cat \in Ids(db'.cats)
    <3>1. db \in Tables /\ born.props + 1 \in Nat
      BY DEF TypeOK
    <3>2. db'.cats = db.cats
      BY <2>5, <3>1, WithPropertyType DEF Import
    <3> QED BY <2>1, <3>2
  <2>6. ASSUME NEW t \in Tabs, NEW answered \in BOOLEAN, Save(t, answered)
        PROVE  p.cat \in Ids(db'.cats)
    BY <2>1, <2>6, SaveType
  <2>7. CASE Crash
    <3>1. db' = saved
      BY <2>7 DEF Crash
    <3>2. p.cat < saved.nextCat
      BY <3>1 DEF CatsInv, CatsIn, Means
    <3> QED BY <3>1, <3>2 DEF Ids, CatsInv, Ahead
  <2>8. CASE UNCHANGED db
    BY <2>1, <2>8
  <2>9. ASSUME NEW t \in Tabs,
               \/ CloseForm(t)
               \/ \E c \in db.cats \cup {None} :
                     OpenNew(t, c) \/ \E q \in db.props : OpenEdit(t, q, c)
        PROVE  UNCHANGED db
    BY <2>9 DEF CloseForm, OpenNew, OpenEdit, Server
  <2>10. Flush \/ UNCHANGED vars => UNCHANGED db
    BY DEF Flush, vars
  <2>11. ~Replace
    BY DEF Replace, Empty
  <2> QED BY <2>2, <2>3, <2>4, <2>5, <2>6, <2>7, <2>8, <2>9, <2>10, <2>11 DEF Next
<1> HIDE DEF Stays
<1>2. Spec => [][Stays]_vars
  BY <1>1, CatsAlways, CatalogTypeCorrect, PTL DEF Spec
<1> QED BY <1>2 DEF Stays, CategoryInUseStays
-----------------------------------------------------------------------------
(* Implementation of DurableTables: what the repositories do to their two  *)
(* tables is what the store promises its callers.                          *)

StoreTables == {"categories", "properties"}

RowsOf(d, t) == IF t = "categories" THEN d.cats ELSE d.props
NextOf(d, t) == IF t = "categories" THEN d.nextCat ELSE d.nextProp

StoreRows(rows) == {[id |-> r.id, val |-> r] : r \in rows}

StoreOf(d) == [nextIds |-> [t \in StoreTables |-> NextOf(d, t)],
               rows    |-> [t \in StoreTables |-> StoreRows(RowsOf(d, t))]]

Abstract == INSTANCE DurableTables
            WITH Tables <- StoreTables, Values <- Category \cup Property,
                 mem <- StoreOf(db), durable <- StoreOf(saved)

\* A write and the flush that its handler waits for before it answers.
Written == /\ StoreOf(db') \in Abstract!StoreData /\ Abstract!FreshIds(StoreOf(db'))
           /\ Abstract!Follows(StoreOf(db'), StoreOf(db))
WriteAndSave == Written /\ StoreOf(saved') = StoreOf(db')

ServedByTheStore ==
    Abstract!Init /\ [][Abstract!Next \/ WriteAndSave]_<<StoreOf(db), StoreOf(saved)>>

\* Every row has an id of its own, from 1, which the counter has passed.
Own(rows, next) ==
    /\ next # 0 /\ \A r \in rows : r.id # 0 /\ r.id < next
    /\ \A r, s \in rows : r.id = s.id => r = s

OwnIds(d) == Own(d.cats, d.nextCat) /\ Own(d.props, d.nextProp)

\* What a write may leave behind of a table: ids that were there, or new ones.
Grown(rows, next, before, nextBefore) ==
    /\ nextBefore <= next
    /\ \A r \in rows : (\E s \in before : r.id = s.id) \/ nextBefore <= r.id

Later(e, d) ==
    /\ Grown(e.cats, e.nextCat, d.cats, d.nextCat)
    /\ Grown(e.props, e.nextProp, d.props, d.nextProp)

\* The tables fit the store, and their ids are fresh.
LEMMA StoreOfType ==
    ASSUME NEW d \in Tables, OwnIds(d)
    PROVE  StoreOf(d) \in Abstract!StoreData /\ Abstract!FreshIds(StoreOf(d))
<1>1. ASSUME NEW t \in StoreTables
      PROVE  /\ NextOf(d, t) \in Nat \ {0}
             /\ \A r \in RowsOf(d, t) : r \in Category \cup Property /\ r.id \in Nat \ {0}
             /\ Own(RowsOf(d, t), NextOf(d, t))
  <2>1. /\ d.nextCat \in Nat /\ d.nextProp \in Nat
        /\ \A r \in d.cats : r \in Category /\ r.id \in Nat
        /\ \A r \in d.props : r \in Property /\ r.id \in Nat
    BY DEF Tables, Category, Property
  <2>2. CASE t = "categories"
    <3>1. RowsOf(d, t) = d.cats /\ NextOf(d, t) = d.nextCat
      BY <2>2 DEF RowsOf, NextOf
    <3> HIDE DEF Category, Property
    <3> QED BY <2>1, <3>1 DEF OwnIds, Own
  <2>3. CASE t = "properties"
    <3>1. RowsOf(d, t) = d.props /\ NextOf(d, t) = d.nextProp
      BY <2>3 DEF RowsOf, NextOf
    <3> HIDE DEF Category, Property
    <3> QED BY <2>1, <3>1 DEF OwnIds, Own
  <2> QED BY <2>2, <2>3 DEF StoreTables
<1>2. \A t \in StoreTables : \A x \in StoreRows(RowsOf(d, t)) :
         \E r \in RowsOf(d, t) : x = [id |-> r.id, val |-> r]
  BY DEF StoreRows
<1> HIDE DEF Category, Property, RowsOf, NextOf
<1>3. ASSUME NEW t \in StoreTables PROVE StoreRows(RowsOf(d, t)) \subseteq Abstract!Row
  BY <1>1, <1>2 DEF Abstract!Row, Abstract!Ids
<1>4. StoreOf(d) \in Abstract!StoreData
  <2>1. StoreOf(d).nextIds \in [StoreTables -> Abstract!Ids]
    BY <1>1 DEF StoreOf, Abstract!Ids
  <2>2. StoreOf(d).rows \in [StoreTables -> SUBSET Abstract!Row]
    BY <1>3 DEF StoreOf
  <2> QED BY <2>1, <2>2 DEF StoreOf, Abstract!StoreData, Abstract!DataOf
<1>5. ASSUME NEW t \in StoreTables
      PROVE  /\ Abstract!UniqueIds(StoreRows(RowsOf(d, t)))
             /\ \A x \in StoreRows(RowsOf(d, t)) : x.id < NextOf(d, t)
  BY <1>1, <1>2 DEF Abstract!UniqueIds, Own
<1>6. /\ DOMAIN StoreOf(d).rows = StoreTables
      /\ \A t \in StoreTables : /\ StoreOf(d).rows[t] = StoreRows(RowsOf(d, t))
                                /\ StoreOf(d).nextIds[t] = NextOf(d, t)
  BY DEF StoreOf
<1> HIDE DEF StoreOf
<1> QED BY <1>4, <1>5, <1>6 DEF Abstract!FreshIds

LEMMA LaterFollows ==
    ASSUME NEW d, NEW e, Later(e, d)
    PROVE  Abstract!Follows(StoreOf(e), StoreOf(d))
<1>1. ASSUME NEW t \in StoreTables PROVE Grown(RowsOf(e, t), NextOf(e, t), RowsOf(d, t), NextOf(d, t))
  BY DEF StoreTables, RowsOf, NextOf, Later
<1>2. \A rows : \A x \in StoreRows(rows) : \E r \in rows : x = [id |-> r.id, val |-> r]
  BY DEF StoreRows
<1>3. \A rows : \A s \in rows : \E x \in StoreRows(rows) : x.id = s.id
  <2>1. \A rows : \A s \in rows : [id |-> s.id, val |-> s] \in StoreRows(rows)
    BY DEF StoreRows
  <2>2. \A s : [id |-> s.id, val |-> s].id = s.id
    OBVIOUS
  <2> QED BY <2>1, <2>2
<1> HIDE DEF RowsOf, NextOf
<1>4. ASSUME NEW t \in StoreTables, NEW x \in StoreRows(RowsOf(e, t))
      PROVE  x.id \in Abstract!RowIds(StoreRows(RowsOf(d, t))) \/ NextOf(d, t) <= x.id
  <2>1. PICK r \in RowsOf(e, t) : x.id = r.id
    BY <1>2
  <2>2. CASE \E s \in RowsOf(d, t) : r.id = s.id
    <3>1. \E y \in StoreRows(RowsOf(d, t)) : y.id = x.id
      BY <1>3, <2>1, <2>2
    <3> QED BY <3>1 DEF Abstract!RowIds
  <2> QED BY <1>1, <2>1, <2>2 DEF Grown
<1>5. \A t \in StoreTables : /\ StoreOf(d).rows[t] = StoreRows(RowsOf(d, t))
                             /\ StoreOf(d).nextIds[t] = NextOf(d, t)
                             /\ StoreOf(e).rows[t] = StoreRows(RowsOf(e, t))
                             /\ StoreOf(e).nextIds[t] = NextOf(e, t)
  BY DEF StoreOf
<1> HIDE DEF StoreOf
<1> QED BY <1>1, <1>4, <1>5 DEF Abstract!Follows, Grown

\* insert, update and remove of the store keep the ids of a table in order.
LEMMA Inserted ==
    ASSUME NEW rows, NEW next \in Nat, \A r \in rows : r.id \in Nat, NEW new, new.id = next,
           Own(rows, next)
    PROVE  Own(rows \cup {new}, next + 1) /\ Grown(rows \cup {new}, next + 1, rows, next)
BY DEF Own, Grown

LEMMA Kept ==
    ASSUME NEW rows, NEW next \in Nat, NEW some \in SUBSET rows, Own(rows, next)
    PROVE  Own(some, next) /\ Grown(some, next, rows, next)
BY DEF Own, Grown

LEMMA EditKeeps ==
    ASSUME NEW rows \in SUBSET Property, NEW next \in Nat, NEW f \in Form, Own(rows, next)
    PROVE  Own(Edited(rows, f), next) /\ Grown(Edited(rows, f), next, rows, next)
<1> DEFINE New(r) == IF r.id = f.prop THEN [r EXCEPT !.cat = f.cat, !.chosen = f.chosen] ELSE r
<1>1. \A r \in rows : New(r).id = r.id
  BY DEF Property
<1>2. \A s \in Edited(rows, f) : \E r \in rows : s = New(r)
  BY DEF Edited
<1> HIDE DEF New
<1> QED BY <1>1, <1>2 DEF Own, Grown

\* Empty tables are the store's empty data.
LEMMA StoreOfEmpty == StoreOf(Empty) = Abstract!DEFAULT_DATA
<1>1. Empty.cats = {} /\ Empty.props = {} /\ Empty.nextCat = 1 /\ Empty.nextProp = 1
  BY DEF Empty
<1>2. \A t \in StoreTables : StoreRows(RowsOf(Empty, t)) = {} /\ NextOf(Empty, t) = 1
  BY <1>1 DEF StoreRows, RowsOf, NextOf
<1> HIDE DEF Empty, StoreRows, RowsOf, NextOf
<1> QED BY <1>2 DEF StoreOf, Abstract!DEFAULT_DATA

\* A handler leaves a later memory with ids of its own, saved or not; only a
\* flush, a crash and a lost container do anything else.
LEMMA CatalogSteps ==
    ASSUME TypeOK, OwnIds(db), [Next]_vars
    PROVE  \/ OwnIds(db') /\ Later(db', db) /\ saved' \in {saved, db'}
           \/ saved' = db /\ db' = db
           \/ db' = saved /\ saved' = saved
           \/ db' = Empty /\ saved' = Empty
<1> DEFINE Fine == OwnIds(db') /\ Later(db', db)
<1>1. /\ db \in Tables /\ db.nextCat \in Nat /\ db.nextProp \in Nat
      /\ db.cats \subseteq Category /\ db.props \subseteq Property
      /\ \A c \in db.cats : c.id \in Nat
      /\ \A p \in db.props : p.id \in Nat
      /\ Own(db.cats, db.nextCat) /\ Own(db.props, db.nextProp)
  BY DEF TypeOK, Tables, Category, Property, OwnIds
<1>2. db.cats \in SUBSET db.cats /\ db.props \in SUBSET db.props
  OBVIOUS
<1>3. ASSUME db'.cats = db.cats, db'.nextCat = db.nextCat,
             Own(db'.props, db'.nextProp), Grown(db'.props, db'.nextProp, db.props, db.nextProp)
      PROVE  Fine
  BY <1>1, <1>2, <1>3, Kept DEF OwnIds, Later
<1>4. ASSUME db'.props = db.props, db'.nextProp = db.nextProp,
             Own(db'.cats, db'.nextCat), Grown(db'.cats, db'.nextCat, db.cats, db.nextCat)
      PROVE  Fine
  BY <1>1, <1>2, <1>4, Kept DEF OwnIds, Later
<1> HIDE DEF Fine
<1>5. ASSUME NEW b, NEW f, db' = WithProperty(db, b, f) PROVE Fine
  <2> DEFINE new == [id |-> db.nextProp, born |-> b, cat |-> f.cat, chosen |-> f.chosen]
  <2>1. /\ db'.cats = db.cats /\ db'.nextCat = db.nextCat
        /\ db'.props = db.props \cup {new} /\ db'.nextProp = db.nextProp + 1
    BY <1>1, <1>5 DEF WithProperty, Tables
  <2>2. new.id = db.nextProp
    OBVIOUS
  <2> HIDE DEF new
  <2>3. /\ Own(db.props \cup {new}, db.nextProp + 1)
        /\ Grown(db.props \cup {new}, db.nextProp + 1, db.props, db.nextProp)
    BY <1>1, <2>2, Inserted
  <2> QED BY <1>3, <2>1, <2>3
<1>6. ASSUME db' = db PROVE Fine
  BY <1>1, <1>2, <1>3, <1>6, Kept
<1>7. ASSUME NEW t \in Tabs, NEW answered \in BOOLEAN, Save(t, answered) PROVE Fine /\ saved' = saved
  <2>1. saved' = saved /\ form[t] \in Form
    BY <1>7, SaveType
  <2>2. CASE form[t].prop = 0
    <3>1. db' = WithProperty(db, born.props + 1, form[t])
      BY <1>7, <2>2 DEF Save
    <3> QED BY <1>5, <2>1, <3>1
  <2>3. CASE form[t].prop # 0
    <3>1. db' = [db EXCEPT !.props = Edited(@, form[t])]
      BY <1>7, <2>3 DEF Save, Edited
    <3>2. /\ db'.cats = db.cats /\ db'.nextCat = db.nextCat
          /\ db'.props = Edited(db.props, form[t]) /\ db'.nextProp = db.nextProp
      BY <1>1, <3>1 DEF Tables
    <3>3. db.props \in SUBSET Property
      BY <1>1
    <3> QED BY <1>1, <1>3, <2>1, <3>2, <3>3, EditKeeps
  <2> QED BY <2>2, <2>3
<1>8. ASSUME CreateCategory PROVE Fine /\ saved' = saved
  <2> DEFINE new == [id |-> db.nextCat, born |-> born.cats + 1]
  <2>1. /\ db'.props = db.props /\ db'.nextProp = db.nextProp
        /\ db'.cats = db.cats \cup {new} /\ db'.nextCat = db.nextCat + 1
        /\ saved' = saved
    BY <1>1, <1>8 DEF CreateCategory, WithCategory, NextCat, Quiet, Tables
  <2>2. new.id = db.nextCat
    OBVIOUS
  <2> HIDE DEF new
  <2> QED BY <1>1, <1>4, <2>1, <2>2, Inserted
<1>9. ASSUME NEW c, DeleteCategory(c) PROVE Fine /\ saved' = saved
  <2>1. /\ db'.props = db.props /\ db'.nextProp = db.nextProp
        /\ db'.cats \in SUBSET db.cats /\ db'.nextCat = db.nextCat
        /\ saved' = saved
    BY <1>1, <1>9 DEF DeleteCategory, Quiet, Tables
  <2> QED BY <1>1, <1>4, <2>1, Kept
<1>10. ASSUME NEW p, DeleteProperty(p) PROVE Fine /\ saved' = saved
  <2>1. /\ db'.cats = db.cats /\ db'.nextCat = db.nextCat
        /\ db'.props \in SUBSET db.props /\ db'.nextProp = db.nextProp
        /\ saved' = saved
    BY <1>1, <1>10 DEF DeleteProperty, Tables
  <2> QED BY <1>1, <1>3, <2>1, Kept
<1>11. ASSUME NEW ok \in BOOLEAN, Import(ok) PROVE Fine /\ saved' \in {saved, db'}
  BY <1>5, <1>11 DEF Import, AfterImport
<1>12. ASSUME NEW t \in Tabs,
              \/ CloseForm(t)
              \/ \E c \in db.cats \cup {None} :
                    OpenNew(t, c) \/ \E p \in db.props : OpenEdit(t, p, c)
       PROVE  Fine /\ saved' = saved
  BY <1>6, <1>12 DEF CloseForm, OpenNew, OpenEdit, Server
<1>13. CASE UNCHANGED vars
  BY <1>6, <1>13 DEF vars, Fine
<1>14. CASE Flush \/ Crash \/ Replace
  BY <1>14 DEF Flush, Crash, Replace
<1> QED BY <1>7, <1>8, <1>9, <1>10, <1>11, <1>12, <1>13, <1>14 DEF Next, Fine

\* The catalog is served as the store promises: between two stops of the server
\* no id of a category or of a property is handed out twice, the file is only
\* ever replaced by the whole memory, an import does so before it answers, a
\* crash takes the memory back to the file, and a lost container leaves both
\* empty (repositories/categories.ts, properties.ts).
THEOREM CatalogUsesTheStore == Spec => ServedByTheStore
<1> DEFINE OwnBoth == OwnIds(db) /\ OwnIds(saved)
<1>1. Init => OwnBoth /\ Abstract!Init
  <2> SUFFICES ASSUME Init PROVE OwnBoth /\ Abstract!Init
    OBVIOUS
  <2>1. db = Empty /\ saved = Empty /\ Empty \in Tables /\ OwnIds(Empty)
    BY DEF Init, Empty, Tables, OwnIds, Own
  <2>2. StoreOf(Empty) \in Abstract!StoreData /\ Abstract!FreshIds(StoreOf(Empty))
    BY <2>1, StoreOfType
  <2> HIDE DEF StoreOf
  <2> QED BY <2>1, <2>2 DEF Abstract!Init
<1>2. ASSUME TypeOK, TypeOK', OwnBoth, [Next]_vars
      PROVE  OwnBoth' /\ [Abstract!Next \/ WriteAndSave]_<<StoreOf(db), StoreOf(saved)>>
  <2>1. CASE OwnIds(db') /\ Later(db', db) /\ saved' \in {saved, db'}
    <3>1. db' \in Tables /\ db \in Tables
      BY <1>2 DEF TypeOK
    <3>2. Written
      BY <2>1, <3>1, StoreOfType, LaterFollows DEF Written
    <3>3. OwnBoth'
      BY <1>2, <2>1
    <3>4. CASE saved' = db'
      <4> HIDE DEF StoreOf
      <4> QED BY <3>2, <3>3, <3>4 DEF WriteAndSave
    <3>5. CASE saved' = saved
      <4> HIDE DEF StoreOf
      <4> QED BY <3>2, <3>3, <3>5 DEF Written, Abstract!Next, Abstract!Write
    <3> QED BY <2>1, <3>4, <3>5
  <2>2. CASE saved' = db /\ db' = db
    BY <1>2, <2>2 DEF Abstract!Next, Abstract!Sync
  <2>3. CASE db' = saved /\ saved' = saved
    BY <1>2, <2>3 DEF Abstract!Next, Abstract!Lose
  <2>4. CASE db' = Empty /\ saved' = Empty
    <3>1. OwnIds(Empty)
      BY DEF Empty, OwnIds, Own
    <3> HIDE DEF StoreOf
    <3> QED BY <2>4, <3>1, StoreOfEmpty DEF Abstract!Next, Abstract!Vanish
  <2> QED BY <1>2, <2>1, <2>2, <2>3, <2>4, CatalogSteps
<1> HIDE DEF OwnBoth
<1>3. TypeOK /\ TypeOK' /\ OwnBoth /\ [Next]_vars
         => OwnBoth' /\ [Abstract!Next \/ WriteAndSave]_<<StoreOf(db), StoreOf(saved)>>
  BY <1>2
<1> QED BY <1>1, <1>3, CatalogTypeCorrect, PTL DEF Spec, ServedByTheStore
=============================================================================
