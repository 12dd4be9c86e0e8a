---------------------------- MODULE MiniAccount -----------------------------
(***************************************************************************)
(* The mini program's account: the login state in memory and in storage,   *)
(* the request wrapper that ends it on a 401, and the pages behind it: the *)
(* profile, the list of orders and the detail of one, opened above each    *)
(* other.  A handler runs to its await; what it awaits is a task, which    *)
(* goes on when its page is closed.  Every login is of the same customer   *)
(* and has a number, which stands for its token and its user.              *)
(***************************************************************************)
EXTENDS Naturals, Sequences, FiniteSets

CONSTANTS
    Slots,      \* bound: handlers that wait at the same time
    MaxLogins,  \* bound: logins the server accepts
    PageSize,   \* orders per page of the list
    MaxPage,    \* bound: pages asked for, a failed one is not asked for again
    Placed,     \* orders of the customer at first
    Kept,       \* bound: orders that are never deleted
    MaxOrders   \* bound: orders of the customer

ASSUME MiniAccountAssumption ==
    /\ MaxLogins \in Nat /\ {MaxPage, PageSize} \subseteq Nat \ {0}
    /\ {Placed, Kept, MaxOrders} \subseteq Nat /\ Placed <= MaxOrders

VARIABLES
    memory,  \* globalData: token and userInfo, 0 when null
    disk,    \* 'token' and 'userInfo' in storage
    live,    \* tokens the server accepts
    issued,  \* logins so far
    orders,  \* how many orders the customer has; 1 names the oldest of them
    page,    \* the page in front
    profile, list, detail,  \* data of the pages
    task,    \* what each slot waits for
    mixed    \* the list was reloaded over a load, a page of it is missing, or the
             \* orders changed since

accountVars == <<memory, disk, live, issued, orders, page, profile, list, detail, task, mixed>>

NoLogin == [token |-> 0, user |-> 0]
LoginOf(n) == [token |-> n, user |-> n]

Idle == [kind |-> "idle", phase |-> "idle", replace |-> FALSE, token |-> 0, page |-> 0, total |-> 0, gone |-> FALSE]
Task(kind, replace) == [Idle EXCEPT !.kind = kind, !.phase = "login", !.replace = replace]

EmptyList == [orders |-> <<>>, page |-> 1, total |-> 0, loading |-> FALSE]
NoDetail == [status |-> "none", loading |-> FALSE]

\* onLaunch: the login is restored only when both parts are in storage.
Restored(d) == IF d.token # 0 /\ d.user # 0 THEN d ELSE NoLogin

\* The app was never used; the profile is the first tab that asks for a login.
AccountInit ==
    /\ memory = NoLogin /\ disk = NoLogin /\ live = {} /\ issued = 0
    /\ orders = Placed
    /\ page = "home" /\ profile = [loggedIn |-> FALSE, loading |-> FALSE]
    /\ list = EmptyList /\ detail = NoDetail
    /\ task = [s \in Slots |-> Idle] /\ mixed = FALSE

-----------------------------------------------------------------------------
(* Starting a handler.                                                     *)

\* The first slot that waits for nothing.
HasSlot(ts) == \E s \in Slots : ts[s] = Idle
Slot(ts) == CHOOSE s \in Slots : ts[s] = Idle

Loads(kind) == {s \in Slots : task[s].kind = kind /\ ~task[s].gone}

\* After ensureLogin: the request carries the token of that moment, and the
\* list reads which page it is to ask for.
Sent(t, token, n) == [t EXCEPT !.phase = "call", !.token = token, !.page = n]

\* ensureLogin: nothing is awaited when logged in.
Started(t, n) == IF memory.token # 0 THEN Sent(t, memory.token, n) ELSE t

\* refreshUser with a login is done at once.
RefreshUser(ts) ==
    IF memory.token # 0
    THEN profile' = [loggedIn |-> TRUE, loading |-> FALSE] /\ task' = ts
    ELSE /\ HasSlot(ts)
         /\ profile' = [profile EXCEPT !.loading = TRUE]
         /\ task' = [ts EXCEPT ![Slot(ts)] = Task("profile", FALSE)]

\* reload: page 1, an empty list and a load that replaces it.
Reload(ts) ==
    /\ HasSlot(ts)
    /\ list' = [list EXCEPT !.orders = <<>>, !.page = 1, !.loading = TRUE]
    /\ task' = [ts EXCEPT ![Slot(ts)] = Started(Task("list", TRUE), 1)]
    /\ mixed' = (Loads("list") # {})

Account == UNCHANGED <<memory, disk, live, issued>>
Server == UNCHANGED <<live, issued, orders>>

\* The kind of a task that pays on the list, or on the detail page.
PayOn(kind) == IF kind = "list" THEN "pay list" ELSE "pay detail"

\* A page that is closed: its handlers go on without it.
Closed(kind) ==
    [s \in Slots |-> IF task[s].kind \in {kind, PayOn(kind)}
                     THEN [task[s] EXCEPT !.gone = TRUE, !.replace = FALSE, !.page = 0, !.total = 0]
                     ELSE task[s]]

\* The profile tab is shown.
ShowProfile ==
    /\ page = "home" /\ page' = "profile"
    /\ RefreshUser(task)
    /\ Account /\ UNCHANGED <<orders, list, detail, mixed>>

LeaveProfile ==
    /\ page = "profile" /\ page' = "home"
    /\ Account /\ UNCHANGED <<orders, profile, list, detail, task, mixed>>

\* goOrders: a new page, whose onShow loads it.
GoOrders ==
    /\ page = "profile" /\ page' = "list"
    /\ HasSlot(task)
    /\ list' = [EmptyList EXCEPT !.loading = TRUE]
    /\ task' = [task EXCEPT ![Slot(task)] = Started(Task("list", TRUE), 1)]
    /\ mixed' = FALSE
    /\ Account /\ UNCHANGED <<orders, profile, detail>>

\* onPullDownRefresh.
PullList ==
    /\ page = "list" /\ Reload(task)
    /\ Account /\ UNCHANGED <<orders, page, profile, detail>>

\* Mutant: the page under way is not waited for.
MayLoadMore_Loading == Len(list.orders) < list.total

MayLoadMore == ~list.loading /\ Len(list.orders) < list.total

OnReachBottom ==
    /\ page = "list" /\ MayLoadMore /\ list.page < MaxPage
    /\ HasSlot(task)
    /\ list' = [list EXCEPT !.page = @ + 1, !.loading = TRUE]
    /\ task' = [task EXCEPT ![Slot(task)] = Started(Task("list", FALSE), list.page + 1)]
    /\ Account /\ UNCHANGED <<orders, page, profile, detail, mixed>>

\* goDetail and onLoad of the detail page.
GoDetail ==
    /\ page = "list" /\ list.orders # <<>>
    /\ page' = "detail"
    /\ HasSlot(task)
    /\ detail' = [NoDetail EXCEPT !.loading = TRUE]
    /\ task' = [task EXCEPT ![Slot(task)] = Started(Task("detail", FALSE), 0)]
    /\ Account /\ UNCHANGED <<orders, profile, list, mixed>>

PullDetail ==
    /\ page = "detail"
    /\ HasSlot(task)
    /\ detail' = [detail EXCEPT !.loading = TRUE]
    /\ task' = [task EXCEPT ![Slot(task)] = Started(Task("detail", FALSE), 0)]
    /\ Account /\ UNCHANGED <<orders, page, profile, list, mixed>>

\* Back to the page below, which is shown again.
BackToList ==
    /\ page = "detail" /\ page' = "list"
    /\ Reload(Closed("detail")) /\ detail' = NoDetail
    /\ Account /\ UNCHANGED <<orders, profile>>

BackToProfile ==
    /\ page = "list" /\ page' = "profile"
    /\ RefreshUser(Closed("list")) /\ list' = EmptyList /\ mixed' = FALSE
    /\ Account /\ UNCHANGED <<orders, detail>>

\* payNow: the list has the button at orders it shows as pending, the detail
\* page tests the status it shows; either may be old.
PayNow(kind) ==
    /\ page = kind
    /\ kind = "list" => list.orders # <<>>
    /\ kind = "detail" => detail.status = "pending"
    /\ HasSlot(task)
    /\ task' = [task EXCEPT ![Slot(task)] = Started(Task(PayOn(kind), FALSE), 0)]
    /\ Account /\ UNCHANGED <<orders, page, profile, list, detail, mixed>>

-----------------------------------------------------------------------------
(* Continuations.                                                          *)

\* catch: the indicator of a page that is still open goes out; a page of the
\* list that failed is not asked for again.
Failed(t) ==
    /\ profile' = IF t.kind = "profile" THEN [loggedIn |-> FALSE, loading |-> FALSE] ELSE profile
    /\ list' = IF t.kind = "list" /\ ~t.gone THEN [list EXCEPT !.loading = FALSE] ELSE list
    /\ detail' = IF t.kind = "detail" /\ ~t.gone THEN [detail EXCEPT !.loading = FALSE] ELSE detail
    /\ mixed' = (mixed \/ (t.kind = "list" /\ ~t.gone))

\* silentLogin succeeds, and the handler that awaited it goes on.
LoginArrives(s) ==
    LET n == issued + 1 IN
    /\ task[s].phase = "login" /\ n <= MaxLogins
    /\ issued' = n /\ live' = live \cup {n}
    /\ memory' = LoginOf(n) /\ disk' = LoginOf(n)
    /\ IF task[s].kind = "profile"
       THEN profile' = [loggedIn |-> TRUE, loading |-> FALSE] /\ task' = [task EXCEPT ![s] = Idle]
       ELSE UNCHANGED profile /\ task' = [task EXCEPT ![s] = Sent(@, n, IF @.kind = "list" /\ ~@.gone THEN list.page ELSE 0)]
    /\ UNCHANGED <<orders, page, list, detail, mixed>>

\* wx.login, the login request, a request or the payment fails or times out.
Fails(s) ==
    /\ task[s].phase \in {"login", "call", "dialog"}
    /\ Failed(task[s]) /\ task' = [task EXCEPT ![s] = Idle]
    /\ Server /\ UNCHANGED <<memory, disk, page>>

\* The server serves a request, with a 401 unless it accepts the token.
Serve(s) ==
    /\ task[s].phase = "call"
    /\ task' = [task EXCEPT ![s].phase = IF task[s].token \in live THEN "answer" ELSE "refusal",
                            ![s].total = IF task[s].kind = "list" /\ ~task[s].gone THEN orders ELSE 0]
    /\ Server /\ UNCHANGED <<memory, disk, page, profile, list, detail, mixed>>

\* Mutant: storage keeps the login.
LogoutOnDisk_Kept == disk

\* logout of the app removes both keys.
LogoutOnDisk == NoLogin

\* Mutant: after logging out the promise is left unsettled.
Refused_Unsettled(s) ==
    /\ task' = [task EXCEPT ![s].phase = "unsettled"] /\ UNCHANGED <<profile, list, detail, mixed>>

Refused(s) == Failed(task[s]) /\ task' = [task EXCEPT ![s] = Idle]

\* A 401 ends whatever login there is now, and the request fails.
Unauthorized(s) ==
    /\ task[s].phase = "refusal"
    /\ memory' = NoLogin /\ disk' = LogoutOnDisk
    /\ Refused(s)
    /\ Server /\ UNCHANGED page

\* Page p of the orders, newest first, when there are n of them.
Slice(n, p) ==
    LET first == (p - 1) * PageSize
        size == IF n <= first THEN 0 ELSE IF n - first < PageSize THEN n - first ELSE PageSize
    IN [i \in 1 .. size |-> n + 1 - (first + i)]

ListArrives(s) ==
    LET got == Slice(task[s].total, task[s].page) IN
    /\ task[s].phase = "answer" /\ task[s].kind = "list"
    /\ list' = IF task[s].gone THEN list
               ELSE [list EXCEPT !.orders = IF task[s].replace THEN got ELSE @ \o got,
                                 !.total = task[s].total, !.loading = FALSE]
    /\ task' = [task EXCEPT ![s] = Idle]
    /\ Server /\ UNCHANGED <<memory, disk, page, profile, detail, mixed>>

\* An order is pending or not: payments reach the server on their own way.
DetailArrives(s, status) ==
    /\ task[s].phase = "answer" /\ task[s].kind = "detail"
    /\ detail' = IF task[s].gone THEN detail
                 ELSE [detail EXCEPT !.status = status, !.loading = FALSE]
    /\ task' = [task EXCEPT ![s] = Idle]
    /\ Server /\ UNCHANGED <<memory, disk, page, profile, list, mixed>>

\* miniPrepay answered: the payment dialog opens.
PrepayArrives(s) ==
    /\ task[s].phase = "answer" /\ task[s].kind \in {"pay list", "pay detail"}
    /\ task' = [task EXCEPT ![s].phase = "dialog"]
    /\ Server /\ UNCHANGED <<memory, disk, page, profile, list, detail, mixed>>

\* The payment succeeds and the page is loaded again, also when it is closed.
Paid(s) ==
    LET t == task[s]
        again == t.kind = "pay list" /\ ~t.gone
        next == [Started(Task(IF t.kind = "pay list" THEN "list" ELSE "detail", again), IF again THEN 1 ELSE 0)
                   EXCEPT !.gone = t.gone]
    IN
    /\ t.phase = "dialog"
    /\ task' = [task EXCEPT ![s] = next]
    /\ list' = IF again THEN [list EXCEPT !.orders = <<>>, !.page = 1, !.loading = TRUE] ELSE list
    /\ mixed' = IF again THEN Loads("list") # {} ELSE mixed
    /\ detail' = IF t.kind = "pay detail" /\ ~t.gone THEN [detail EXCEPT !.loading = TRUE] ELSE detail
    /\ Account /\ UNCHANGED <<orders, page, profile>>

Continuation(s) ==
    \/ LoginArrives(s) \/ Fails(s) \/ Serve(s) \/ Unauthorized(s)
    \/ ListArrives(s) \/ PrepayArrives(s) \/ Paid(s)
    \/ \E status \in {"pending", "paid"} : DetailArrives(s, status)

-----------------------------------------------------------------------------
(* The rest.                                                               *)

\* logout of the profile page.
Logout ==
    /\ page = "profile" /\ profile.loggedIn
    /\ memory' = NoLogin /\ disk' = LogoutOnDisk
    /\ profile' = [profile EXCEPT !.loggedIn = FALSE]
    /\ Server /\ UNCHANGED <<page, list, detail, task, mixed>>

\* A token expires after seven days, or the server's secret changes.
Expire(n) ==
    /\ n \in live /\ live' = live \ {n}
    /\ UNCHANGED <<memory, disk, issued, orders, page, profile, list, detail, task, mixed>>

\* An order is placed on the checkout of another device.
PlaceOrder ==
    /\ orders < MaxOrders /\ orders' = orders + 1
    /\ mixed' = TRUE
    /\ Account /\ UNCHANGED <<page, profile, list, detail, task>>

\* An administrator deletes an order, whichever: the younger ones move up, and
\* the pages that follow start one order later than they would have.
DeleteOrder ==
    /\ orders > Kept /\ orders' = orders - 1
    /\ mixed' = TRUE
    /\ Account /\ UNCHANGED <<page, profile, list, detail, task>>

\* What storage holds when the app is killed: all of the last write, or of a
\* login that arrives or a logout only the token.
Killed ==
    {disk}
    \cup {[disk EXCEPT !.token = issued + 1] : s \in {r \in Slots : task[r].phase = "login" /\ issued < MaxLogins}}
    \cup {[disk EXCEPT !.token = 0] : s \in {r \in Slots : task[r].phase = "refusal" \/ page = "profile"}}

\* The app is killed and launched again.
Relaunch ==
    /\ \E d \in Killed :
          /\ disk' = d /\ memory' = Restored(d)
          /\ IF d.token > issued THEN issued' = d.token /\ live' = live \cup {d.token} ELSE UNCHANGED <<issued, live>>
    /\ page' = "home" /\ profile' = [loggedIn |-> FALSE, loading |-> FALSE]
    /\ list' = EmptyList /\ detail' = NoDetail
    /\ task' = [s \in Slots |-> Idle] /\ mixed' = FALSE
    /\ UNCHANGED <<orders>>

AccountNext ==
    \/ ShowProfile \/ LeaveProfile \/ GoOrders \/ PullList \/ OnReachBottom
    \/ PullDetail \/ BackToList \/ BackToProfile \/ Logout \/ PlaceOrder \/ DeleteOrder \/ Relaunch
    \/ GoDetail \/ \E kind \in {"list", "detail"} : PayNow(kind)
    \/ \E s \in Slots : Continuation(s)
    \/ \E n \in 1 .. MaxLogins : Expire(n)

\* Every request is answered or times out after 15 seconds, and the payment
\* dialog closes.
AccountSpec == AccountInit /\ [][AccountNext]_accountVars /\ \A s \in Slots : WF_accountVars(Continuation(s))

-----------------------------------------------------------------------------
(* Properties.                                                             *)

Session == [token : 0 .. MaxLogins, user : 0 .. MaxLogins]
Handler == [kind : {"idle", "profile", "list", "detail", "pay list", "pay detail"},
            phase : {"idle", "login", "call", "answer", "refusal", "dialog"},
            replace : BOOLEAN, token : 0 .. MaxLogins, page : 0 .. MaxPage,
            total : 0 .. MaxOrders, gone : BOOLEAN]

\* Every variable has its type.
AccountTypeOK ==
    /\ memory \in Session /\ disk \in Session
    /\ live \subseteq 1 .. issued /\ issued \in 0 .. MaxLogins
    /\ orders \in 0 .. MaxOrders
    /\ page \in {"home", "profile", "list", "detail"}
    /\ profile \in [loggedIn : BOOLEAN, loading : BOOLEAN]
    /\ list \in [orders : Seq(1 .. MaxOrders), page : 1 .. MaxPage, total : 0 .. MaxOrders, loading : BOOLEAN]
    /\ detail \in [status : {"none", "pending", "paid"}, loading : BOOLEAN]
    /\ task \in [Slots -> Handler] /\ mixed \in BOOLEAN

\* The login in memory and the one in storage are the same, whichever of
\* several logins, logouts and refusals came last and wherever the app was
\* killed: a logged out app is not logged in again by a restart.
SessionAgrees ==
    IF memory.token # 0 THEN disk = memory ELSE disk.token = 0 \/ disk.user = 0

\* The list is the newest orders without gap or repetition, as many as its
\* pages hold, unless a reload overtook a load, a page failed, or since the list
\* was last loaded from its start an order was placed (the next page repeats
\* one) or deleted by an administrator (the next page skips one).
ListIsPages ==
    ~mixed /\ Loads("list") = {} /\ page \in {"list", "detail"} =>
        /\ Len(list.orders) = IF orders < list.page * PageSize THEN orders ELSE list.page * PageSize
        /\ \A i \in 1 .. Len(list.orders) : list.orders[i] = orders + 1 - i

\* The list of orders stops loading, whatever becomes of the login on the way
\* and however often the customer asks again.
LoadingEnds == list.loading ~> ~list.loading
=============================================================================
