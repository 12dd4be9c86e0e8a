------------------------------- MODULE Users -------------------------------
(***************************************************************************)
(* Accounts and logins: storage/repositories/users.ts and the two login    *)
(* routes, over the store that DurableTables abstracts (db is the memory,  *)
(* saved the file).  A person has one openid per application and one       *)
(* unionid, which WeChat returns only for linked applications.  Tokens are *)
(* the clients': nothing that happens to the server takes them back.       *)
(***************************************************************************)
EXTENDS Naturals, FiniteSets

CONSTANTS
    Persons,     \* people who log in; also their unionids
    Mini,        \* the mini program: 'wechat_mini', the one identity provider
    Mp,          \* the public account, whose login leaves no identity
    MaxUsers,    \* bound: accounts created
    MaxCrashes,  \* bound: crashes and lost containers
    NoUnion

ASSUME UsersAssumption ==
    /\ Mini # Mp
    /\ NoUnion \notin Persons
    /\ MaxUsers \in Nat /\ MaxCrashes \in Nat

VARIABLES
    db,       \* the tables users and user_identities in memory
    saved,    \* the same tables in the file
    tokens,   \* the JWTs handed out
    unsaved,  \* openids whose registration could not be flushed, until a save
    crashes

vars == <<db, saved, tokens, unsaved, crashes>>

Unions == Persons \cup {NoUnion}

\* The openid of a person in an application.
Openid == {Mini, Mp} \X Persons
User == [id : 1 .. MaxUsers, openid : Openid, unionid : Unions]
Identity == [user : 1 .. MaxUsers, openid : Openid, unionid : Unions]

\* The claims sub and openid; lasting is TRUE for a token that should outlive
\* every crash: its login came after the flush of its account, or found it
\* flushed, and the container that signed it still has its file.
Token == [sub : 1 .. MaxUsers, openid : Openid, lasting : BOOLEAN]

Tables == [users : SUBSET User, next : 1 .. MaxUsers + 1, identities : SUBSET Identity]

Empty == [users |-> {}, next |-> 1, identities |-> {}]

Init == /\ db = Empty /\ saved = Empty
        /\ tokens = {} /\ unsaved = {} /\ crashes = 0

\* What WeChat may return as the unionid of a person.
UnionOf(p) == {p, NoUnion}

\* signJwt({sub, openid}) after the handler found or created the account.
Issue(id, openid, lasting) ==
    tokens' = tokens \cup {[sub |-> id, openid |-> openid, lasting |-> lasting]}

NewUser(openid, union) == [id |-> db.next, openid |-> openid, unionid |-> union]

NewIdentity(id, openid, union) == [user |-> id, openid |-> openid, unionid |-> union]

-----------------------------------------------------------------------------
(* GET /auth/wechat/oauth-callback: findOrCreateUser, which does not flush. *)

\* A known openid: the unionid is updated when it is given and differs.
MpLoginKnown(p, union) ==
    \E u \in db.users :
        /\ u.openid = <<Mp, p>>
        /\ db' = [db EXCEPT !.users = (@ \ {u}) \cup
                     {[u EXCEPT !.unionid = IF union = NoUnion THEN @ ELSE union]}]
        /\ Issue(u.id, <<Mp, p>>, FALSE)
        /\ UNCHANGED <<saved, unsaved, crashes>>

MpLoginNew(p, union) ==
    /\ \A u \in db.users : u.openid # <<Mp, p>>
    /\ db.next <= MaxUsers
    /\ db' = [db EXCEPT !.users = @ \cup {NewUser(<<Mp, p>>, union)}, !.next = @ + 1]
    /\ Issue(db.next, <<Mp, p>>, FALSE)
    /\ UNCHANGED <<saved, unsaved, crashes>>

MpLogin(p, union) == MpLoginKnown(p, union) \/ MpLoginNew(p, union)

-----------------------------------------------------------------------------
(* POST /auth/mini/login: findOrCreateUserByIdentity.                      *)

\* Step 1: the identity and its account exist.  Only session_key is updated,
\* and nothing is flushed: after a failed flush of this registration the token
\* names an account that a crash may still take away.
LoginKnown(openid) ==
    \E i \in db.identities, u \in db.users :
        /\ i.openid = openid /\ u.id = i.user
        /\ Issue(u.id, openid, openid \notin unsaved)
        /\ UNCHANGED <<db, saved, unsaved, crashes>>

\* Mutant: the guard if (params.unionid) is dropped, and null equals null.
SameUnion_NoGuard(union) == {i \in db.identities : i.unionid = union}

\* Step 2: identities with the same unionid, when there is one.  A person has
\* one identity per provider, and auth_mini.ts is the only caller, so step 2
\* finds nobody as long as it compares real unionids.
SameUnion(union) == {i \in db.identities : union # NoUnion /\ i.unionid = union}

\* Steps 2 to 4 for a new identity: it joins the account id of its unionid, or
\* a new account.
Register(openid, union, id) ==
    LET joins == SameUnion(union) # {}
    IN  /\ \A i \in db.identities : i.openid # openid
        /\ id \in (IF joins THEN {i.user : i \in SameUnion(union)} ELSE {db.next})
        /\ db' = [users |-> IF joins THEN db.users
                                    ELSE db.users \cup {NewUser(openid, union)},
                  next |-> IF joins THEN db.next ELSE db.next + 1,
                  identities |-> db.identities \cup {NewIdentity(id, openid, union)}]

\* Mutant: the flush is left to the timer.
LoginNew_NoFlush(openid, union) ==
    /\ \E id \in 1 .. MaxUsers : Register(openid, union, id) /\ Issue(id, openid, TRUE)
    /\ UNCHANGED <<saved, unsaved, crashes>>

\* flushNow comes before the token; it saves the whole memory, with whatever an
\* earlier flush could not save.
LoginNew(openid, union) ==
    /\ \E id \in 1 .. MaxUsers : Register(openid, union, id) /\ Issue(id, openid, TRUE)
    /\ saved' = db' /\ unsaved' = {}
    /\ UNCHANGED crashes

\* flushNow throws: the client gets an error and no token; the rows stay in
\* memory for a later save.
LoginNewFails(openid, union) ==
    /\ \E id \in 1 .. MaxUsers : Register(openid, union, id)
    /\ unsaved' = unsaved \cup {openid}
    /\ UNCHANGED <<saved, tokens, crashes>>

Login(openid, union) ==
    LoginKnown(openid) \/ LoginNew(openid, union) \/ LoginNewFails(openid, union)

-----------------------------------------------------------------------------
\* The store saves everything at once, at any time.
Flush == saved' = db /\ unsaved' = {} /\ UNCHANGED <<db, tokens, crashes>>

\* The process dies and starts again from its file.
Crash == /\ crashes < MaxCrashes
         /\ db' = saved /\ unsaved' = {}
         /\ crashes' = crashes + 1
         /\ UNCHANGED <<saved, tokens>>

\* The container is replaced and takes its /tmp, with the file, along: ids begin
\* again at 1, while the tokens are valid for seven days.
Replace == /\ crashes < MaxCrashes
           /\ db' = Empty /\ saved' = Empty /\ unsaved' = {}
           /\ tokens' = {[tok EXCEPT !.lasting = FALSE] : tok \in tokens}
           /\ crashes' = crashes + 1

Next ==
    \/ \E p \in Persons : \E union \in UnionOf(p) :
          MpLogin(p, union) \/ Login(<<Mini, p>>, union)
    \/ Flush \/ Crash \/ Replace

Spec == Init /\ [][Next]_vars

-----------------------------------------------------------------------------
(* Properties.                                                             *)

\* Every variable has its type.
TypeOK ==
    /\ db \in Tables /\ saved \in Tables
    /\ tokens \subseteq Token
    /\ unsaved \subseteq Openid /\ crashes \in 0 .. MaxCrashes

\* A mini-program token names an account that survives every crash, in memory
\* and in the file, as long as the container keeps its file.  The only token
\* without this promise is the one that a retry is given after its own
\* registration could not be flushed and before anything else was saved:
\* somebody else's failed flush takes nothing from it.
TokenKeepsAccount ==
    \A tok \in tokens : tok.lasting =>
        \A d \in {db, saved} :
            \E i \in d.identities : i.openid = tok.openid /\ i.user = tok.sub

\* Two people never hold such tokens for the same account, although the ids of
\* accounts that a crash took away are handed out again.
TokensTellPeopleApart ==
    \A a, b \in tokens :
        a.lasting /\ b.lasting /\ a.sub = b.sub => a.openid[2] = b.openid[2]
=============================================================================
