---------------------------- MODULE PropertyForm ---------------------------
(***************************************************************************)
(* The form of the administration site that creates and edits a property   *)
(* (jintai-property/admin/src/views/PropertyForm.vue) with the routes      *)
(* behind it (routes/api_v1/admin/properties.ts) and the page on which     *)
(* visitors see the property: amounts that the form computes from other    *)
(* amounts, the image list, the configuration of the tabs, and loading and *)
(* saving.  The form is masked while it loads; while it saves only its     *)
(* button is.  The components Upload (Element Plus) and Sortable are       *)
(* external.                                                               *)
(***************************************************************************)
EXTENDS Naturals, Sequences, FiniteSets, SequencesExt

CONSTANTS
    Amounts,      \* values of an amount field, 0 for blank or no number
    Edited,       \* the amount fields the administrator types in
    Images,       \* urls of images
    Limit,        \* images per property (:limit, 40)
    Keys,         \* the tabs, in their default order
    FirstRows,    \* properties there may be at the start
    MaxRows,      \* bound: properties ever created
    MaxEdits,     \* bound: changes to the form each time it is open
    MaxSaves,     \* bound: clicks on save
    NoImage, NoTabs, Blank, Typed, Nothing

(* The amounts that a watcher computes, the fields it watches, and the     *)
(* fields that must be positive for it to compute.  loan stands for the    *)
(* three loan fields, which are computed together.                         *)
Watched ==
    [starting_unit_price   |-> {"starting_price", "building_area"},
     evaluation_unit_price |-> {"evaluation_total_price", "building_area"},
     loan                  |-> {"evaluation_total_price", "building_area"},
     market_unit_price     |-> {"market_total_price", "building_area"},
     deed_tax_amount       |-> {"starting_price", "deed_tax_rate"},
     vat_amount            |-> {"starting_price", "vat_rate"},
     income_tax_amount     |-> {"starting_price", "income_tax_rate"},
     profit_space          |-> {"market_total_price", "starting_price"}]

Derived == DOMAIN Watched
Inputs == UNION {Watched[d] : d \in Derived}
Needed(d) == IF d = "loan" THEN {"evaluation_total_price"} ELSE Watched[d]

\* What a watcher computes: a quotient, a product or a share, which depends on
\* the fields it needs; for profit_space a difference, blank if it is zero.
Formula(d, inputs) ==
    IF d = "profit_space" /\ inputs["market_total_price"] = inputs["starting_price"]
    THEN Blank
    ELSE [f \in Needed(d) |-> inputs[f]]

Computable(d, inputs) == \A f \in Needed(d) : inputs[f] > 0

DerivedValue == {Blank, Typed} \cup UNION {[Needed(d) -> Amounts] : d \in Derived}
Tab == [key : Range(Keys), visible : BOOLEAN, order : Nat]

\* A stored property, as far as the form is concerned.
IsRow(r) == /\ r.inputs \in [Inputs -> Amounts]
            /\ r.derived \in [Derived -> DerivedValue]
            /\ r.images \in Seq(Images)
            /\ r.cover \in Images \cup {NoImage}
            /\ r.tabs = NoTabs \/ (r.tabs \in Seq(Tab) /\ r.tabs # <<>>)

HasVisible(tabs) == \E i \in DOMAIN tabs : tabs[i].visible

ASSUME PropertyFormAssumption ==
    /\ 0 \in Amounts /\ Amounts \subseteq Nat
    /\ Edited \subseteq Inputs
    /\ Keys \in Seq(Range(Keys)) /\ IsInjective(Keys) /\ Keys # <<>>
    /\ \A r \in FirstRows :
          IsRow(r) /\ IsInjective(r.images) /\ (r.tabs # NoTabs => HasVisible(r.tabs))
    /\ {Limit, MaxRows, MaxEdits, MaxSaves} \subseteq Nat /\ MaxRows > 0
    /\ NoImage \notin Images /\ Blank \notin Images

VARIABLES
    rows,        \* the table properties
    next,        \* its next id
    deleted,     \* ids of properties that were deleted
    view,        \* "list", "loading" or "form"
    id,          \* the property being edited, 0 for a new one
    form,        \* the fields of the form
    imageList,   \* imageList
    files,       \* the files that the Upload component shows
    uploads,     \* uploads in flight
    uploaded,    \* images uploaded since the form was opened
    moduleTabs,  \* moduleTabs
    onScreen,    \* the order in which the tabs are on the screen
    typed,       \* computed amounts typed over since their watcher last ran
    pending,     \* the save that the form waits for (submitting), or Nothing
    late,        \* saves in flight of forms that were left
    edits, saves

fields == <<form, typed>>
pictures == <<imageList, files, uploads, uploaded>>
tabs == <<moduleTabs, onScreen>>
table == <<rows, next, deleted>>
saving == <<pending, late>>
formVars == <<table, view, id, fields, pictures, tabs, saving, edits, saves>>

-----------------------------------------------------------------------------
(* The empty form, and a form filled from a property.                      *)

BlankForm == [inputs |-> [f \in Inputs |-> 0], derived |-> [d \in Derived |-> Blank],
              cover |-> NoImage]

DefaultTabs == [i \in DOMAIN Keys |-> [key |-> Keys[i], visible |-> TRUE, order |-> i]]

\* Mutant: the watchers do not list the area.
Triggers_NotArea(d, changed) == Watched[d] \cap (changed \ {"building_area"}) # {}

Triggers(d, changed) == Watched[d] \cap changed # {}

\* The computed amounts after some fields have changed and the watchers ran.
\* A watcher whose fields are not all positive leaves the amount as it is.
Recomputed(derived, inputs, changed) ==
    [d \in Derived |-> IF Triggers(d, changed) /\ Computable(d, inputs)
                       THEN Formula(d, inputs) ELSE derived[d]]

\* initImageList: a property without images shows its cover.
ImagesOf(r) == IF r.images = <<>> /\ r.cover # NoImage THEN <<r.cover>> ELSE r.images

\* sort((a, b) => a.order - b.order), which keeps tabs of one order as they are.
Before(ts, i, j) == ts[i].order < ts[j].order \/ (ts[i].order = ts[j].order /\ i < j)

Sorted(ts) ==
    [n \in DOMAIN ts |->
        ts[CHOOSE i \in DOMAIN ts : Cardinality({j \in DOMAIN ts : Before(ts, j, i)}) = n - 1]]

\* initModuleConfig: the stored tabs by their order, else the default ones.
TabsOf(r) == IF r.tabs = NoTabs THEN DefaultTabs ELSE Sorted(r.tabs)

KeysOf(ts) == [i \in DOMAIN ts |-> ts[i].key]

FormInit ==
    /\ rows = <<>> \/ \E r \in FirstRows : rows = <<r>>
    /\ next = Len(rows) + 1
    /\ deleted = {}
    /\ view = "list" /\ id = 0 /\ pending = Nothing /\ late = {}
    /\ form = BlankForm /\ typed = {}
    /\ imageList = <<>> /\ files = <<>> /\ uploads = {} /\ uploaded = {}
    /\ moduleTabs = DefaultTabs /\ onScreen = Keys
    /\ edits = 0 /\ saves = 0

Fresh ==
    /\ form' = BlankForm /\ typed' = {}
    /\ imageList' = <<>> /\ files' = <<>> /\ uploads' = {} /\ uploaded' = {}
    /\ moduleTabs' = DefaultTabs /\ onScreen' = Keys
    /\ edits' = 0

OpenNew ==
    /\ view = "list"
    /\ view' = "form" /\ id' = 0
    /\ Fresh
    /\ UNCHANGED <<table, saving, saves>>

OpenEdit(i) ==
    /\ view = "list" /\ i \in DOMAIN rows
    /\ view' = "loading" /\ id' = i
    /\ Fresh
    /\ UNCHANGED <<table, saving, saves>>

\* The answer to getPropertyDetail.  The watchers run for what it fills in,
\* over amounts that came with it.
Loaded ==
    /\ view = "loading" /\ id \in DOMAIN rows
    /\ view' = "form"
    /\ LET r == rows[id]
           filled == {f \in Inputs : r.inputs[f] # form.inputs[f]}
       IN  /\ form' = [inputs |-> r.inputs,
                       derived |-> Recomputed(r.derived, r.inputs, filled),
                       cover |-> r.cover]
           /\ imageList' = ImagesOf(r)
           /\ files' = [i \in DOMAIN ImagesOf(r) |-> [url |-> ImagesOf(r)[i], image |-> ImagesOf(r)[i]]]
           /\ moduleTabs' = TabsOf(r)
           /\ onScreen' = KeysOf(TabsOf(r))
    /\ UNCHANGED <<table, id, typed, uploads, uploaded, saving, edits, saves>>

\* It fails, or the property is gone: the form stays empty and open.
LoadFails ==
    /\ view = "loading"
    /\ view' = "form"
    /\ UNCHANGED <<table, id, fields, pictures, tabs, saving, edits, saves>>

\* The saves that the server has yet to answer.
InFlight == late \cup ({pending} \ {Nothing})

\* handleBack, or another page.  handleSubmit goes on without its page.
Leave ==
    /\ view # "list"
    /\ view' = "list"
    /\ Fresh
    /\ pending' = Nothing /\ late' = InFlight
    /\ UNCHANGED <<table, id, saves>>

-----------------------------------------------------------------------------
(* Changes to the form.                                                    *)

Edit == /\ view = "form" /\ edits < MaxEdits
        /\ edits' = edits + 1
        /\ UNCHANGED <<table, view, id, saving, saves>>

\* An amount is typed, and the watchers of its field run.
TypeAmount(f, a) ==
    /\ Edit
    /\ form.inputs[f] # a
    /\ LET inputs == [form.inputs EXCEPT ![f] = a]
       IN  form' = [form EXCEPT !.inputs = inputs,
                                !.derived = Recomputed(@, inputs, {f})]
    /\ typed' = {d \in typed : f \notin Watched[d]}
    /\ UNCHANGED <<pictures, tabs>>

\* A computed amount is typed over.
TypeDerived(d) ==
    /\ Edit
    /\ form' = [form EXCEPT !.derived[d] = Typed]
    /\ typed' = typed \cup {d}
    /\ UNCHANGED <<pictures, tabs>>

\* updateFormImages: the first image becomes the cover.
CoverOf(images) == IF images = <<>> THEN NoImage ELSE Head(images)

\* External: Upload adds a file, under the local url of its preview, unless it
\* shows Limit files already.
ChooseFile(u) ==
    /\ Edit
    /\ \A i \in DOMAIN files : files[i].image # u
    /\ u \notin Range(imageList)
    /\ Len(files) < Limit
    /\ files' = Append(files, [url |-> Blank, image |-> u])
    /\ uploads' = uploads \cup {u}
    /\ UNCHANGED <<fields, imageList, uploaded, tabs>>

\* handleUploadSuccess, in whatever order the uploads finish.
UploadSuccess(u) ==
    /\ view = "form" /\ u \in uploads
    /\ uploads' = uploads \ {u} /\ uploaded' = uploaded \cup {u}
    /\ imageList' = Append(imageList, u)
    /\ form' = [form EXCEPT !.cover = CoverOf(imageList')]
    /\ UNCHANGED <<table, view, id, typed, files, tabs, saving, edits, saves>>

\* handleUploadError; Upload takes the file off its list.
UploadError(u) ==
    /\ view = "form" /\ u \in uploads
    /\ uploads' = uploads \ {u}
    /\ \E k \in DOMAIN files : files[k].image = u /\ files' = RemoveAt(files, k)
    /\ UNCHANGED <<table, view, id, fields, imageList, uploaded, tabs, saving, edits, saves>>

\* Mutant: the cover is not updated.
RemoveImage_KeepsCover(k) ==
    /\ Edit
    /\ k \in DOMAIN files
    /\ files' = RemoveAt(files, k)
    /\ uploads' = uploads \ {files[k].image}
    /\ imageList' = SelectSeq(imageList, LAMBDA u : u # files[k].url)
    /\ UNCHANGED <<fields, uploaded, tabs>>

\* handleRemoveImage looks for the url of the file in imageList.  Upload shows
\* a file uploaded on this visit under a local url, which is not there.
RemoveImage(k) ==
    /\ Edit
    /\ k \in DOMAIN files
    /\ files' = RemoveAt(files, k)
    /\ uploads' = uploads \ {files[k].image}
    /\ IF files[k].url \in Range(imageList)
       THEN /\ imageList' = RemoveFirst(imageList, files[k].url)
            /\ form' = [form EXCEPT !.cover = CoverOf(imageList')]
       ELSE UNCHANGED <<imageList, form>>
    /\ UNCHANGED <<typed, uploaded, tabs>>

\* Mutant: the last visible tab may be switched off.
ToggleTab_Unchecked(k) ==
    /\ Edit
    /\ moduleTabs' = [moduleTabs EXCEPT ![k].visible = ~@]
    /\ UNCHANGED <<fields, pictures, onScreen>>

\* The switch of a tab and handleModuleVisibilityChange: when no tab is left,
\* the last one of the list comes back.
ToggleTab(k) ==
    /\ Edit
    /\ LET new == [moduleTabs EXCEPT ![k].visible = ~@]
       IN  moduleTabs' = IF HasVisible(new) THEN new
                         ELSE [new EXCEPT ![Len(new)].visible = TRUE]
    /\ UNCHANGED <<fields, pictures, onScreen>>

\* Sortable moves the tab on the screen; onEnd numbers moduleTabs.
DragTab(from, to) ==
    /\ Edit
    /\ from # to
    /\ onScreen' = InsertAt(RemoveAt(onScreen, from), to, onScreen[from])
    /\ moduleTabs' = [i \in DOMAIN moduleTabs |-> [moduleTabs[i] EXCEPT !.order = i]]
    /\ UNCHANGED <<fields, pictures>>

-----------------------------------------------------------------------------
(* Saving.                                                                 *)

\* submitData.
ToSave == [inputs |-> form.inputs, derived |-> form.derived, images |-> imageList,
           cover |-> IF imageList = <<>> THEN form.cover ELSE Head(imageList),
           tabs |-> moduleTabs]

\* handleSubmit up to its await.
Submit ==
    /\ view = "form" /\ pending = Nothing /\ saves < MaxSaves
    /\ pending' = [no |-> saves + 1, id |-> id, row |-> ToSave]
    /\ saves' = saves + 1
    /\ UNCHANGED <<table, view, id, fields, pictures, tabs, late, edits>>

\* Mutant: PUT does not look whether the property exists.
Stored_Upsert(s) ==
    IF s.id = 0
    THEN /\ next <= MaxRows
         /\ rows' = [i \in DOMAIN rows \cup {next} |-> IF i = next THEN s.row ELSE rows[i]]
         /\ next' = next + 1
    ELSE /\ rows' = [i \in DOMAIN rows \cup {s.id} |-> IF i = s.id THEN s.row ELSE rows[i]]
         /\ UNCHANGED next

\* POST inserts a property, PUT replaces its fields if it exists.
Stored(s) ==
    IF s.id = 0
    THEN /\ next <= MaxRows
         /\ rows' = [i \in DOMAIN rows \cup {next} |-> IF i = next THEN s.row ELSE rows[i]]
         /\ next' = next + 1
    ELSE /\ s.id \in DOMAIN rows
         /\ rows' = [rows EXCEPT ![s.id] = s.row]
         /\ UNCHANGED next

\* The server has saved, and router.push goes to the list, from whatever page is
\* in front by now: the form of another property is left as it is.
SubmitDone(s) ==
    /\ s \in InFlight
    /\ Stored(s)
    /\ view' = "list" /\ pending' = Nothing /\ late' = InFlight \ {s}
    /\ Fresh
    /\ UNCHANGED <<deleted, id, saves>>

\* Nobody waits for the save any longer.
GivenUp(s) ==
    /\ pending' = (IF s = pending THEN Nothing ELSE pending)
    /\ late' = late \ {s}

\* The server has saved and its answer is lost or late: the page stays, and
\* the administrator may save again.
SubmitLost(s) ==
    /\ s \in InFlight
    /\ Stored(s)
    /\ GivenUp(s)
    /\ UNCHANGED <<deleted, view, id, fields, pictures, tabs, edits, saves>>

\* Nothing is saved: no connection, 404, 401, 500.
SubmitFails(s) ==
    /\ s \in InFlight
    /\ GivenUp(s)
    /\ UNCHANGED <<table, view, id, fields, pictures, tabs, edits, saves>>

\* DELETE /api/v1/admin/properties/:id, here or in another window.
Delete(i) ==
    /\ i \in DOMAIN rows
    /\ rows' = [j \in DOMAIN rows \ {i} |-> rows[j]]
    /\ deleted' = deleted \cup {i}
    /\ UNCHANGED <<next, view, id, fields, pictures, tabs, saving, edits, saves>>

-----------------------------------------------------------------------------
(* What visitors see of a stored property (PropertyDetail.vue).            *)

\* findMallById: with the default tabs when none are stored.
MallDetail(r) ==
    [images |-> r.images, cover |-> r.cover, tabs |-> IF r.tabs = NoTabs THEN DefaultTabs ELSE r.tabs]

\* visibleTabs: their places in the stored configuration.
VisibleTabs(p) == {i \in DOMAIN p.tabs : p.tabs[i].visible}

\* The sections for which isModuleVisible.
Sections(p) == {p.tabs[i].key : i \in VisibleTabs(p)}

\* fetchDetail opens the first of visibleTabs in their order; without one the
\* initial tab stays.
ActiveTab(p) ==
    IF VisibleTabs(p) = {} THEN Head(Keys)
    ELSE p.tabs[CHOOSE i \in VisibleTabs(p) : \A j \in VisibleTabs(p) : ~Before(p.tabs, j, i)].key

\* allImages.
AllImages(p) == IF p.images = <<>> /\ p.cover # NoImage THEN <<p.cover>> ELSE p.images

FormNext ==
    \/ OpenNew \/ Loaded \/ LoadFails \/ Leave
    \/ \E i \in 1 .. MaxRows : OpenEdit(i) \/ Delete(i)
    \/ \E f \in Edited, a \in Amounts : TypeAmount(f, a)
    \/ \E d \in Derived : Watched[d] \subseteq Edited /\ TypeDerived(d)
    \/ \E u \in Images : ChooseFile(u) \/ UploadSuccess(u) \/ UploadError(u)
    \/ \E k \in DOMAIN files : RemoveImage(k)
    \/ \E k \in DOMAIN moduleTabs : ToggleTab(k)
    \/ \E j, k \in DOMAIN moduleTabs : DragTab(j, k)
    \/ Submit \/ \E s \in InFlight : SubmitDone(s) \/ SubmitLost(s) \/ SubmitFails(s)

FormSpec == FormInit /\ [][FormNext]_formVars

-----------------------------------------------------------------------------
(* Properties.                                                             *)

\* Every variable has its type; every stored property is one the form can show.
FormTypeOK ==
    /\ DOMAIN rows \subseteq 1 .. MaxRows /\ next \in 1 .. MaxRows + 1
    /\ \A i \in DOMAIN rows : i < next /\ IsRow(rows[i])
    /\ deleted \subseteq 1 .. MaxRows
    /\ view \in {"list", "loading", "form"} /\ id \in 0 .. MaxRows
    /\ form \in [inputs : [Inputs -> Amounts], derived : [Derived -> DerivedValue], cover : Images \cup {NoImage}]
    /\ imageList \in Seq(Images) /\ uploads \subseteq Images /\ uploaded \subseteq Images
    /\ files \in Seq([url : Images \cup {Blank}, image : Images])
    /\ moduleTabs \in Seq(Tab) /\ moduleTabs # <<>> /\ typed \subseteq Derived
    /\ Range(onScreen) = Range(KeysOf(moduleTabs)) /\ Len(onScreen) = Len(moduleTabs)
    /\ edits \in 0 .. MaxEdits /\ saves \in 0 .. MaxSaves
    /\ \A s \in InFlight : s.id \in 0 .. MaxRows /\ IsRow(s.row)

\* An amount the page computes agrees with the amounts it is computed from,
\* in whatever order they were typed or loaded, unless it was typed over since.
DerivedAgrees ==
    \A d \in Derived \ typed :
        Computable(d, form.inputs) => form.derived[d] = Formula(d, form.inputs)

\* Whenever the form is saved, visitors see its list of images, in that order
\* and led by its cover.  Of the images that were there when the form was opened
\* they see those that the form still shows and none that was taken away,
\* whatever uploads were in flight.  (An image uploaded since then is seen even
\* if it was taken away again: RemoveImage does not find it.)
VisitorsSeeImages ==
    LET seen == AllImages(MallDetail(ToSave))
        shown == {files[k].url : k \in DOMAIN files} \ {Blank}
    IN  /\ seen = imageList /\ ToSave.cover = CoverOf(seen)
        /\ Range(seen) \ uploaded = shown

\* Whatever is switched, dragged, saved and loaded again, the page of a property
\* opens on a section that it shows.
PageOpensOnSection ==
    \A i \in DOMAIN rows : LET p == MallDetail(rows[i]) IN ActiveTab(p) \in Sections(p)

\* A property that was deleted while somebody edits it stays deleted.
DeletedStays == deleted \cap DOMAIN rows = {}
=============================================================================
