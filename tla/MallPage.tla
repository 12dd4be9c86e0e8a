------------------------------ MODULE MallPage -----------------------------
(***************************************************************************)
(* The home page of the H5 mall (jintai-property/h5/src/views/Home.vue):   *)
(* the list of properties, its filters, the requests that are in flight    *)
(* and the spinners of the cover images.  Every handler runs up to its     *)
(* await in one step; what comes after the await is the step Reply.        *)
(* Replies may arrive in any order.  The Vant components List and          *)
(* PullRefresh are external.                                               *)
(***************************************************************************)
EXTENDS Naturals, Sequences, FiniteSets, SequencesExt

CONSTANTS
    Items,        \* ids of properties
    Covers,       \* the ones with a cover image
    Categories,   \* ids of categories
    Keywords,     \* what the visitor may type
    NoCategory,   \* activeCategoryId is undefined
    NoKeyword,    \* the empty keyword
    Rows,         \* the properties as the server has them, by id
    Shelf,        \* the status of each category
    PageSize,     \* pageSize
    MaxRequests   \* bound: calls of fetchData

Filters == (Categories \cup {NoCategory}) \X Keywords

Row == [category_id : Categories \cup {NoCategory}, words : SUBSET Keywords, status : {0, 1},
        is_featured : {0, 1}, sort_order : Nat, created_at : Nat,
        place : Nat]  \* where the row stands in the table

ASSUME MallPageAssumption ==
    /\ IsFiniteSet(Items) /\ Covers \subseteq Items
    /\ Rows \in [Items -> Row] /\ Shelf \in [Categories -> {0, 1}]
    /\ NoCategory \notin Categories
    /\ NoKeyword \in Keywords
    /\ \A i, j \in Items : Rows[i].place = Rows[j].place => i = j
    /\ PageSize \in Nat \ {0}
    /\ MaxRequests \in Nat \ {0}

VARIABLES
    list, categories, activeCategoryId, keyword,
    loading, refreshing, finished, page,
    spinners,   \* items whose imageLoadingStates is true
    timers,     \* items whose timer in imageLoadTimeouts is armed
    requests,   \* calls of getPropertyList without an answer
    catsAsked,  \* is getCategories without an answer?
    atEnd,      \* is the end of the list in view?
    sent,       \* number of requests sent so far
    asked,      \* ghost: the keyword when the last request was sent
    shown       \* ghost: the request whose answer list shows, 0 if none

vars == <<list, categories, activeCategoryId, keyword, loading, refreshing, finished,
          page, spinners, timers, requests, catsAsked, atEnd, sent, asked, shown>>

images == <<spinners, timers>>
cats == <<categories, catsAsked>>

Request == [id : 1 .. MaxRequests, filter : Filters, page : Nat, more : BOOLEAN]

-----------------------------------------------------------------------------
(* The server.                                                             *)

\* list's filters as listMall sets them: on the shelf, in the category, with
\* the keyword in its name or its address.
Selected(f, i) ==
    /\ Rows[i].status = 1
    /\ f[1] = NoCategory \/ Rows[i].category_id = f[1]
    /\ f[2] = NoKeyword \/ f[2] \in Rows[i].words

\* list's order: featured first, then by sort_order, then the newest; rows of one
\* import share their created_at, and sort leaves them as they are in the table.
Precedes(i, j) ==
    LET a == Rows[i]  b == Rows[j] IN
    IF a.is_featured # b.is_featured THEN a.is_featured > b.is_featured
    ELSE IF a.sort_order # b.sort_order THEN a.sort_order > b.sort_order
    ELSE IF a.created_at # b.created_at THEN a.created_at > b.created_at
    ELSE a.place < b.place

\* listMall: what the server finds for a filter, in its order.
Results == [f \in Filters |->
    LET found == {i \in Items : Selected(f, i)}
    IN  [n \in 1 .. Cardinality(found) |->
            CHOOSE i \in found : Cardinality({j \in found : Precedes(j, i)}) = n - 1]]

\* listEnabled: the categories offered to visitors.
Enabled == {c \in Categories : Shelf[c] = 1}

\* Array.slice: the part of s between two positions, less at its end.
Slice(s, from, to) == SubSeq(s, from, Min({to, Len(s)}))

\* GET /api/v1/properties/mall: one page of the properties that the filter
\* selects.
PageOf(f, n) ==
    LET from == (n - 1) * PageSize + 1
    IN  Slice(Results[f], from, from + PageSize - 1)

-----------------------------------------------------------------------------
(* Requests and their answers.                                             *)

\* fetchData up to its await.
FetchData(more, category, n) ==
    /\ sent < MaxRequests
    /\ requests' = requests \cup
          {[id |-> sent + 1, filter |-> <<category, keyword>>, page |-> n, more |-> more]}
    /\ sent' = sent + 1
    /\ asked' = keyword
    /\ loading' = TRUE

Init ==
    /\ list = <<>> /\ categories = {} /\ activeCategoryId = NoCategory
    /\ keyword = NoKeyword
    /\ refreshing = FALSE /\ finished = FALSE /\ page = 1
    /\ spinners = {} /\ timers = {}
    /\ atEnd = TRUE
    \* onMounted calls fetchCategoriesData and fetchData
    /\ catsAsked = TRUE
    /\ loading = TRUE /\ sent = 1 /\ asked = keyword /\ shown = 0
    /\ requests = {[id |-> 1, filter |-> <<NoCategory, keyword>>, page |-> 1, more |-> FALSE]}

\* Mutant: the timers are cleared and the spinners kept.
ResetImages_KeepsSpinners(more) ==
    [spinners |-> spinners, timers |-> IF more THEN timers ELSE {}]

\* fetchData forgets the images of the old list before it shows a new one.
ResetImages(more) ==
    [spinners |-> IF more THEN spinners ELSE {}, timers |-> IF more THEN timers ELSE {}]

\* The items whose cover the browser will load.
Covered(items) == Range(items) \cap Covers

\* fetchData's answer, whichever request it belongs to.  Every image of the
\* page gets a spinner and a timer, and an item without a cover gets neither.
ReplyOk(r) ==
    LET new   == PageOf(r.filter, r.page)
        reset == ResetImages(r.more)
        now   == IF r.more THEN list \o new ELSE new
    IN  /\ list' = now
        /\ spinners' = (reset.spinners \ Range(new)) \cup Covered(new)
        /\ timers' = reset.timers \cup Covered(new)
        /\ finished' = (Len(now) >= Len(Results[r.filter]) \/ Len(new) < PageSize)
        /\ shown' = r.id

\* Mutant: without the finally clause.
ReplyFailed_NoFinally(r) ==
    /\ requests' = requests \ {r}
    /\ UNCHANGED <<list, images, finished, shown, loading, refreshing, page, cats,
                   activeCategoryId, keyword, atEnd, sent, asked>>

\* The request fails or reaches the timeout of 30 s: catch and finally.
ReplyFailed(r) ==
    /\ requests' = requests \ {r}
    /\ loading' = FALSE /\ refreshing' = FALSE
    /\ UNCHANGED <<list, images, finished, shown, page, cats,
                   activeCategoryId, keyword, atEnd, sent, asked>>

Reply(r) ==
    \/ /\ ReplyOk(r)
       /\ requests' = requests \ {r}
       /\ loading' = FALSE /\ refreshing' = FALSE
       /\ UNCHANGED <<page, cats, activeCategoryId, keyword, atEnd, sent, asked>>
    \/ ReplyFailed(r)

\* fetchCategoriesData: it is asked once; after a failure there are none.
CategoriesReply(answer) ==
    /\ catsAsked
    /\ catsAsked' = FALSE
    /\ categories' = answer
    /\ UNCHANGED <<list, images, activeCategoryId, keyword, loading, refreshing, finished,
                   page, requests, atEnd, sent, asked, shown>>

-----------------------------------------------------------------------------
(* The visitor.                                                            *)

\* onSearch and onRefresh: back to the first page of what is now selected.
Restart(category) ==
    /\ page' = 1 /\ finished' = FALSE /\ list' = <<>> /\ shown' = 0
    /\ atEnd' = TRUE
    /\ FetchData(FALSE, category, 1)
    /\ UNCHANGED <<images, cats, keyword>>

\* Typing alone sends nothing.
Type(k) ==
    /\ keyword' = k
    /\ UNCHANGED <<list, cats, activeCategoryId, loading, refreshing, finished, page,
                   images, requests, atEnd, sent, asked, shown>>

OnSearch == Restart(activeCategoryId) /\ UNCHANGED <<activeCategoryId, refreshing>>

\* Mutant: the search runs before the category changes.
OnSelectCategory_SearchFirst(c) ==
    /\ c \in categories
    /\ activeCategoryId' = IF activeCategoryId = c THEN NoCategory ELSE c
    /\ Restart(activeCategoryId)
    /\ UNCHANGED refreshing

\* A second click on the selected category deselects it.
OnSelectCategory(c) ==
    /\ c \in categories
    /\ activeCategoryId' = IF activeCategoryId = c THEN NoCategory ELSE c
    /\ Restart(activeCategoryId')
    /\ UNCHANGED refreshing

\* PullRefresh sets refreshing and emits refresh, and is inert meanwhile.
PullRefresh ==
    /\ ~refreshing
    /\ refreshing' = TRUE
    /\ Restart(activeCategoryId)
    /\ UNCHANGED activeCategoryId

\* The visitor scrolls to the end of the list, or back.
Scroll ==
    /\ list # <<>>
    /\ atEnd' = ~atEnd
    /\ UNCHANGED <<list, cats, activeCategoryId, keyword, loading, refreshing, finished,
                   page, images, requests, sent, asked, shown>>

\* Mutant: the guard does not look at loading.
OnLoad_NoLoadingGuard(isLoading) ==
    IF finished
    THEN loading' = isLoading /\ UNCHANGED <<page, requests, sent, asked>>
    ELSE page' = page + 1 /\ FetchData(TRUE, activeCategoryId, page + 1)

\* onLoad, as called when loading has the value isLoading.
OnLoad(isLoading) ==
    IF finished \/ isLoading
    THEN loading' = isLoading /\ UNCHANGED <<page, requests, sent, asked>>
    ELSE page' = page + 1 /\ FetchData(TRUE, activeCategoryId, page + 1)

\* List checks its position when it is scrolled and when loading or finished
\* change.  Near the end it writes TRUE to v-model:loading, then emits load.
ListCheck ==
    /\ atEnd /\ ~loading /\ ~finished
    /\ OnLoad(TRUE)
    /\ UNCHANGED <<list, cats, activeCategoryId, keyword, refreshing, finished, images,
                   atEnd, shown>>

-----------------------------------------------------------------------------
(* The images.                                                             *)

\* onImgLoad, onImgError, or the timer after 5 s without either; the image may
\* have left the page since.
ImageDone(i) ==
    /\ i \in timers
    /\ timers' = timers \ {i} /\ spinners' = spinners \ {i}
    /\ UNCHANGED <<list, cats, activeCategoryId, keyword, loading, refreshing, finished,
                   page, requests, atEnd, sent, asked, shown>>

Next ==
    \/ \E r \in requests : Reply(r)
    \/ \E answer \in {Enabled, {}} : CategoriesReply(answer)
    \/ \E k \in Keywords : Type(k)
    \/ OnSearch \/ PullRefresh \/ Scroll \/ ListCheck
    \/ \E c \in Enabled : OnSelectCategory(c)
    \/ \E i \in Items : ImageDone(i)

\* Every request is answered or times out: only Reply takes a request away.  The
\* List component checks its position.  The visitor does nothing by duty.
Fairness ==
    /\ WF_requests(\E r \in requests : requests' = requests \ {r})
    /\ WF_vars(ListCheck)

Spec == Init /\ [][Next]_vars /\ Fairness

-----------------------------------------------------------------------------
(* Properties.                                                             *)

\* Every variable has its type, and requests are numbered.
TypeOK ==
    /\ list \in Seq(Items)
    /\ categories \subseteq Enabled
    /\ <<activeCategoryId, keyword>> \in Filters /\ asked \in Keywords
    /\ {loading, refreshing, finished, catsAsked, atEnd} \subseteq BOOLEAN
    /\ page \in 1 .. MaxRequests
    /\ spinners \subseteq Covers /\ timers \subseteq Covers
    /\ requests \subseteq Request
    /\ \A r \in requests : r.id <= sent
    /\ sent \in 1 .. MaxRequests /\ shown \in 0 .. sent

\* A spinner over a cover never outlives its timer: whatever searches and late
\* answers replace the list, something is left that will stop it.
SpinnerHasTimer == spinners \subseteq timers

\* The list has no gap and shows nothing twice: it is a prefix of what the
\* server has for one filter, even when answers overtake each other.
ListIsPrefix == \E f \in Filters : IsPrefix(list, Results[f])

\* When the answer to the last request is on the page, the page shows what the
\* selected category and the keyword of the last search ask for, and says
\* "no more" only if that is all of it or less than a page.
AnswerIsForSelection ==
    shown = sent =>
        LET f == <<activeCategoryId, asked>>
        IN  /\ list = Slice(Results[f], 1, page * PageSize)
            /\ finished <=> (Len(list) = Len(Results[f]) \/ Len(list) < PageSize)

\* Pulling the page down ends: the indicator disappears again.
RefreshEnds == refreshing ~> ~refreshing

\* jintai-property/DEPLOYMENT_SUMMARY.md:76, "pull up to load more": a visitor
\* at the end of a list that has more items gets the next page, unless the
\* visitor leaves or replaces the list (and while the bound allows a request).
ScrollLoadsMore ==
    (atEnd /\ list # <<>> /\ ~finished /\ sent < MaxRequests) ~> (~atEnd \/ list = <<>> \/ page > 1)
=============================================================================
