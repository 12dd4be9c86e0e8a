--------------------------- MODULE AccountProofs ---------------------------
(***************************************************************************)
(* Proofs about the account on both sides: Users, the accounts and tokens  *)
(* of the server, for any number of people, accounts, crashes and lost     *)
(* containers, and MiniAccount, the login and the pages of the mini        *)
(* program, for any number of handlers, logins, pages and orders.          *)
(***************************************************************************)
EXTENDS Users, MiniAccount, TLAPS

-----------------------------------------------------------------------------
(* Users: types.                                                           *)

\* What registering an identity puts into the tables is of their type.
LEMMA RegisterType ==
    ASSUME TypeOK, NEW openid \in Openid, NEW union \in Unions,
           NEW id \in 1 .. MaxUsers, Register(openid, union, id)
    PROVE  db' \in Tables
<1>1. NewIdentity(id, openid, union) \in Identity
  BY DEF NewIdentity, Identity
<1>2. ASSUME id = db.next PROVE NewUser(openid, union) \in User /\ db.next + 1 \in 1 .. MaxUsers + 1
  BY <1>2, UsersAssumption DEF NewUser, User
<1> HIDE DEF User, Identity, Openid
<1> QED BY <1>1, <1>2 DEF Register, TypeOK, Tables

LEMMA NextType == TypeOK /\ [Next]_vars => TypeOK'
<1> SUFFICES ASSUME TypeOK, [Next]_vars PROVE TypeOK'
  OBVIOUS
<1>1. ASSUME NEW p \in Persons, NEW union \in UnionOf(p), MpLogin(p, union) PROVE TypeOK'
  <2>1. <<Mp, p>> \in Openid /\ union \in Unions
    BY DEF Openid, UnionOf, Unions
  <2>2. CASE MpLoginKnown(p, union)
    <3>1. PICK u \in db.users :
            /\ db' = [db EXCEPT !.users = (@ \ {u}) \cup
                        {[u EXCEPT !.unionid = IF union = NoUnion THEN @ ELSE union]}]
            /\ Issue(u.id, <<Mp, p>>, FALSE)
            /\ UNCHANGED <<saved, unsaved, crashes>>
      BY <2>2 DEF MpLoginKnown
    <3>2. u \in User
      BY DEF TypeOK, Tables
    <3>3. [u EXCEPT !.unionid = IF union = NoUnion THEN @ ELSE union] \in User
      BY <2>1, <3>2 DEF User, Unions
    <3>4. [sub |-> u.id, openid |-> <<Mp, p>>, lasting |-> FALSE] \in Token
      BY <2>1, <3>2 DEF User, Token
    <3> HIDE DEF User, Identity, Token
    <3> QED BY <3>1, <3>3, <3>4 DEF TypeOK, Tables, Issue
  <2>3. CASE MpLoginNew(p, union)
    <3>1. db.next \in 1 .. MaxUsers /\ db.next + 1 \in 1 .. MaxUsers + 1
      BY <2>3, UsersAssumption DEF MpLoginNew, TypeOK, Tables
    <3>2. /\ NewUser(<<Mp, p>>, union) \in User
          /\ [sub |-> db.next, openid |-> <<Mp, p>>, lasting |-> FALSE] \in Token
      BY <2>1, <3>1 DEF NewUser, User, Token
    <3> HIDE DEF User, Identity, Token
    <3> QED BY <2>3, <3>1, <3>2 DEF MpLoginNew, TypeOK, Tables, Issue
  <2> QED BY <1>1, <2>2, <2>3 DEF MpLogin
<1>2. ASSUME NEW openid \in Openid, LoginKnown(openid) PROVE TypeOK'
  <2>1. PICK u \in db.users : Issue(u.id, openid, openid \notin unsaved)
    BY <1>2 DEF LoginKnown
  <2>2. [sub |-> u.id, openid |-> openid, lasting |-> openid \notin unsaved] \in Token
    <3>1. u.id \in 1 .. MaxUsers
      BY DEF TypeOK, Tables, User
    <3>2. (openid \notin unsaved) \in BOOLEAN
      OBVIOUS
    <3> QED BY Zenon, <3>1, <3>2 DEF Token
  <2>3. db' = db /\ saved' = saved /\ unsaved' = unsaved /\ crashes' = crashes
    BY <1>2 DEF LoginKnown
  <2>4. tokens' \subseteq Token
    BY Zenon, <2>1, <2>2 DEF Issue, TypeOK
  <2> QED BY <2>3, <2>4 DEF TypeOK
<1>3. ASSUME NEW openid \in Openid, NEW union \in Unions, NEW id \in 1 .. MaxUsers,
             Register(openid, union, id)
      PROVE  db' \in Tables /\ [sub |-> id, openid |-> openid, lasting |-> TRUE] \in Token
  BY <1>3, RegisterType DEF Token
<1>4. ASSUME NEW openid \in Openid, NEW union \in Unions, LoginNew(openid, union) PROVE TypeOK'
  BY <1>3, <1>4 DEF LoginNew, Issue, TypeOK
<1>5. ASSUME NEW openid \in Openid, NEW union \in Unions, LoginNewFails(openid, union) PROVE TypeOK'
  BY <1>3, <1>5 DEF LoginNewFails, TypeOK
<1>6. CASE Flush \/ Crash \/ UNCHANGED vars
  BY <1>6, UsersAssumption DEF Flush, Crash, vars, TypeOK
<1>7. CASE Replace
  <2>1. Empty \in Tables
    BY UsersAssumption DEF Empty, Tables
  <2>2. \A tok \in Token : [tok EXCEPT !.lasting = FALSE] \in Token
    BY DEF Token
  <2> HIDE DEF Token, Tables, Empty
  <2> QED BY <1>7, <2>1, <2>2, UsersAssumption DEF Replace, TypeOK
<1>8. \A p \in Persons : <<Mini, p>> \in Openid
  BY DEF Openid
<1>9. \A p \in Persons : UnionOf(p) \subseteq Unions
  BY DEF UnionOf, Unions
<1> QED BY <1>1, <1>2, <1>4, <1>5, <1>6, <1>7, <1>8, <1>9 DEF Next, Login

\* The tables, the file and the tokens are always of their types.
THEOREM UsersTypeCorrect == Spec => []TypeOK
<1>1. Init => TypeOK
  <2> SUFFICES ASSUME Init PROVE TypeOK
    OBVIOUS
  <2>1. db \in Tables /\ saved \in Tables
    BY UsersAssumption DEF Init, Empty, Tables
  <2>2. tokens \subseteq Token /\ unsaved \subseteq Openid /\ crashes \in 0 .. MaxCrashes
    BY UsersAssumption DEF Init
  <2> QED BY <2>1, <2>2 DEF TypeOK
<1> QED BY <1>1, NextType, PTL DEF Spec

-----------------------------------------------------------------------------
(* Accounts and identities, in memory and in the file.                     *)

\* The counter is past every account that an identity names, an account has
\* identities of one person only, and a unionid is its person's.
Accounts(d) ==
    /\ \A i \in d.identities : i.user < d.next
    /\ \A i \in d.identities : i.unionid \in {NoUnion, i.openid[2]}
    /\ \A i, j \in d.identities : i.user = j.user => i.openid[2] = j.openid[2]

AccountsInv == Accounts(db) /\ Accounts(saved)

\* What registering an identity adds to the tables.
LEMMA RegisterAdds ==
    ASSUME TypeOK, NEW openid, NEW union, NEW id, Register(openid, union, id)
    PROVE  /\ db'.identities = db.identities \cup {NewIdentity(id, openid, union)}
           /\ \/ /\ \E i \in db.identities : i.user = id /\ i.unionid = union /\ union # NoUnion
                 /\ db'.next = db.next
              \/ id = db.next /\ db'.next = db.next + 1
BY DEF Register, SameUnion, TypeOK, Tables

\* Registering an identity keeps people apart.
LEMMA RegisterAccounts ==
    ASSUME TypeOK, AccountsInv, NEW p \in Persons,
           NEW union \in UnionOf(p), NEW id \in 1 .. MaxUsers,
           Register(<<Mini, p>>, union, id)
    PROVE  Accounts(db')
<1> DEFINE new == NewIdentity(id, <<Mini, p>>, union)
<1>1. /\ new.user = id /\ new.openid[2] = p /\ new.unionid = union
      /\ union \in {NoUnion, p} /\ id \in Nat
  BY UsersAssumption DEF NewIdentity, UnionOf
<1>2. db.next \in Nat /\ \A i \in db.identities : i.user \in Nat
  BY UsersAssumption DEF TypeOK, Tables, Identity
<1>3. /\ db'.identities = db.identities \cup {new}
      /\ \/ /\ \E i \in db.identities : i.user = id /\ i.unionid = union /\ union # NoUnion
            /\ db'.next = db.next
         \/ id = db.next /\ db'.next = db.next + 1
  BY RegisterAdds
<1>4. Accounts(db)
  BY DEF AccountsInv
<1> HIDE DEF new
<1>5. \A i \in db'.identities : i.user < db'.next
  BY <1>1, <1>2, <1>3, <1>4 DEF Accounts
<1>6. \A i \in db.identities : i.user = id => i.openid[2] = p
  BY <1>1, <1>2, <1>3, <1>4 DEF Accounts
<1>7. \A i \in db'.identities : i \in db.identities \/ i = new
  BY <1>3
<1>8. \A i \in db'.identities : i.unionid \in {NoUnion, i.openid[2]}
  BY <1>1, <1>4, <1>7 DEF Accounts
<1>9. \A i, j \in db'.identities : i.user = j.user => i.openid[2] = j.openid[2]
  BY <1>1, <1>4, <1>6, <1>7 DEF Accounts
<1> QED BY <1>5, <1>8, <1>9 DEF Accounts

\* A login through the public account leaves the identities alone.
LEMMA MpLoginAdds ==
    ASSUME TypeOK, NEW p, NEW union, MpLogin(p, union)
    PROVE  /\ db'.identities = db.identities /\ saved' = saved /\ unsaved' = unsaved
           /\ db'.next = db.next \/ db'.next = db.next + 1
           /\ \E id : tokens' = tokens \cup
                         {[sub |-> id, openid |-> <<Mp, p>>, lasting |-> FALSE]}
BY DEF MpLogin, MpLoginKnown, MpLoginNew, Issue, TypeOK, Tables

LEMMA NextAccounts == TypeOK /\ AccountsInv /\ [Next]_vars => AccountsInv'
<1> SUFFICES ASSUME TypeOK, AccountsInv, [Next]_vars PROVE AccountsInv'
  OBVIOUS
<1>1. ASSUME NEW p \in Persons, NEW union \in UnionOf(p), MpLogin(p, union) PROVE AccountsInv'
  <2>1. db.next \in Nat /\ \A i \in db.identities : i.user \in Nat
    BY UsersAssumption DEF TypeOK, Tables, Identity
  <2>2. /\ db'.identities = db.identities /\ saved' = saved
        /\ db'.next = db.next \/ db'.next = db.next + 1
    BY <1>1, MpLoginAdds
  <2> QED BY <2>1, <2>2 DEF AccountsInv, Accounts
<1>2. ASSUME NEW openid, LoginKnown(openid) PROVE AccountsInv'
  BY <1>2 DEF LoginKnown, AccountsInv
<1>3. ASSUME NEW p \in Persons, NEW union \in UnionOf(p),
             LoginNew(<<Mini, p>>, union) \/ LoginNewFails(<<Mini, p>>, union)
      PROVE  AccountsInv'
  <2>1. Accounts(db')
    BY <1>3, RegisterAccounts DEF LoginNew, LoginNewFails
  <2>2. saved' = db' \/ saved' = saved
    BY <1>3 DEF LoginNew, LoginNewFails
  <2> QED BY <2>1, <2>2 DEF AccountsInv
<1>4. CASE Flush \/ Crash \/ UNCHANGED vars
  BY <1>4 DEF Flush, Crash, vars, AccountsInv
<1>5. CASE Replace
  BY <1>5 DEF Replace, Empty, AccountsInv, Accounts
<1> QED BY <1>1, <1>2, <1>3, <1>4, <1>5 DEF Next, Login

LEMMA AccountsAlways == Spec => []AccountsInv
<1>1. Init => AccountsInv
  BY DEF Init, Empty, AccountsInv, Accounts
<1> QED BY <1>1, NextAccounts, UsersTypeCorrect, PTL DEF Spec

-----------------------------------------------------------------------------
(* Tokens.                                                                 *)

\* What the file knows of identities the memory knows, and the other way round
\* except for those whose own flush failed since the last save; a lasting token
\* names the account of an identity in the file.
TokensInv ==
    /\ saved.identities \subseteq db.identities
    /\ \A i \in db.identities : i \in saved.identities \/ i.openid \in unsaved
    /\ \A tok \in tokens : tok.lasting =>
          \E i \in saved.identities : i.openid = tok.openid /\ i.user = tok.sub

LEMMA NextTokens == TypeOK /\ TokensInv /\ [Next]_vars => TokensInv'
<1> SUFFICES ASSUME TypeOK, TokensInv, [Next]_vars PROVE TokensInv'
  OBVIOUS
<1>1. ASSUME NEW p \in Persons, NEW union \in UnionOf(p), MpLogin(p, union) PROVE TokensInv'
  <2>1. db'.identities = db.identities /\ saved' = saved /\ unsaved' = unsaved
    BY <1>1, MpLoginAdds
  <2>2. PICK id : tokens' = tokens \cup {[sub |-> id, openid |-> <<Mp, p>>, lasting |-> FALSE]}
    BY <1>1, MpLoginAdds
  <2> QED BY <2>1, <2>2 DEF TokensInv
<1>2. ASSUME NEW openid, LoginKnown(openid) PROVE TokensInv'
  <2>1. PICK i \in db.identities :
          /\ i.openid = openid
          /\ tokens' = tokens \cup {[sub |-> i.user, openid |-> openid,
                                     lasting |-> openid \notin unsaved]}
    BY <1>2 DEF LoginKnown, Issue
  <2>2. db' = db /\ saved' = saved /\ unsaved' = unsaved
    BY <1>2 DEF LoginKnown
  <2> DEFINE tok == [sub |-> i.user, openid |-> openid, lasting |-> openid \notin unsaved]
  <2>3. tok.sub = i.user /\ tok.openid = openid /\ (tok.lasting => openid \notin unsaved)
    OBVIOUS
  <2>4. tok.lasting => i \in saved.identities
    BY <2>1, <2>3 DEF TokensInv
  <2> HIDE DEF tok
  <2>5. \A t \in tokens' : t.lasting =>
          \E j \in saved.identities : j.openid = t.openid /\ j.user = t.sub
    BY <2>1, <2>3, <2>4 DEF TokensInv, tok
  <2> QED BY <2>2, <2>5 DEF TokensInv
<1>3. ASSUME NEW openid, NEW union, LoginNew(openid, union) PROVE TokensInv'
  <2>1. PICK id \in 1 .. MaxUsers :
          /\ Register(openid, union, id)
          /\ tokens' = tokens \cup {[sub |-> id, openid |-> openid, lasting |-> TRUE]}
    BY <1>3 DEF LoginNew, Issue
  <2> DEFINE new == NewIdentity(id, openid, union)
  <2>2. saved' = db'
    BY <1>3 DEF LoginNew
  <2>3. db'.identities = db.identities \cup {new}
    BY <2>1, RegisterAdds
  <2>4. new.user = id /\ new.openid = openid
    BY DEF NewIdentity
  <2> HIDE DEF new
  <2>5. \A t \in tokens' : t.lasting =>
          \E j \in db'.identities : j.openid = t.openid /\ j.user = t.sub
    BY <2>1, <2>3, <2>4 DEF TokensInv
  <2> QED BY <2>2, <2>5 DEF TokensInv
<1>4. ASSUME NEW openid, NEW union, LoginNewFails(openid, union) PROVE TokensInv'
  <2>1. PICK id \in 1 .. MaxUsers : Register(openid, union, id)
    BY <1>4 DEF LoginNewFails
  <2>2. /\ db'.identities = db.identities \cup {NewIdentity(id, openid, union)}
        /\ NewIdentity(id, openid, union).openid = openid
    BY <2>1, RegisterAdds DEF NewIdentity
  <2>3. saved' = saved /\ tokens' = tokens /\ unsaved' = unsaved \cup {openid}
    BY <1>4 DEF LoginNewFails
  <2> QED BY <2>2, <2>3 DEF TokensInv
<1>5. CASE Flush
  BY <1>5 DEF Flush, TokensInv
<1>6. CASE Crash
  BY <1>6 DEF Crash, TokensInv
<1>7. CASE Replace
  <2>1. db'.identities = {} /\ saved'.identities = {}
    BY <1>7 DEF Replace, Empty
  <2>2. \A t \in tokens' : ~t.lasting
    <3>1. \A t \in Token : ~[t EXCEPT !.lasting = FALSE].lasting
      BY DEF Token
    <3> QED BY <1>7, <3>1 DEF Replace, TypeOK
  <2> QED BY <2>1, <2>2 DEF TokensInv
<1>8. CASE UNCHANGED vars
  BY <1>8 DEF vars, TokensInv
<1> QED BY <1>1, <1>2, <1>3, <1>4, <1>5, <1>6, <1>7, <1>8 DEF Next, Login

LEMMA TokensAlways == Spec => []TokensInv
<1>1. Init => TokensInv
  BY DEF Init, Empty, TokensInv
<1> QED BY <1>1, NextTokens, UsersTypeCorrect, PTL DEF Spec

\* The account that a lasting mini-program token names is in memory and in the
\* file, whatever crashes and whoever else's flushes fail:
\* findOrCreateUserByIdentity flushes before the token is signed.
THEOREM TokensKeepAccounts == Spec => []TokenKeepsAccount
<1>1. TokensInv => TokenKeepsAccount
  BY DEF TokensInv, TokenKeepsAccount
<1> QED BY <1>1, TokensAlways, PTL

\* No two people hold lasting mini-program tokens for one account.
THEOREM TokensApart == Spec => []TokensTellPeopleApart
<1>1. TokensInv /\ AccountsInv => TokensTellPeopleApart
  BY DEF TokensInv, AccountsInv, Accounts, TokensTellPeopleApart
<1> QED BY <1>1, TokensAlways, AccountsAlways, PTL

-----------------------------------------------------------------------------
(* The table users over DurableTables: what the repository does to it is   *)
(* what the store promises its callers.                                    *)

StoreTables == {"users"}

UserRows(d) == {[id |-> u.id, val |-> u] : u \in d.users}

StoreOf(d) == [nextIds |-> [t \in StoreTables |-> d.next],
               rows    |-> [t \in StoreTables |-> UserRows(d)]]

Abstract == INSTANCE DurableTables
            WITH Tables <- StoreTables, Values <- User, mem <- StoreOf(db), durable <- StoreOf(saved)

\* A write and the flush that its handler waits for before it answers.
Written == /\ StoreOf(db') \in Abstract!StoreData /\ Abstract!FreshIds(StoreOf(db'))
           /\ Abstract!Follows(StoreOf(db'), StoreOf(db))
WriteAndSave == Written /\ StoreOf(saved') = StoreOf(db')

ServedByTheStore ==
    Abstract!Init /\ [][Abstract!Next \/ WriteAndSave]_<<StoreOf(db), StoreOf(saved)>>

\* Every user has an id of its own, which the counter has passed.
OwnIds(d) ==
    /\ \A u \in d.users : u.id < d.next
    /\ \A u, v \in d.users : u.id = v.id => u = v

\* The memory e is one that a write may leave behind when it begins with d.
Later(e, d) ==
    /\ d.next <= e.next
    /\ \A u \in e.users : (\E v \in d.users : u.id = v.id) \/ d.next <= u.id

\* The tables fit the store, and their ids are fresh.
LEMMA StoreOfType ==
    ASSUME NEW d \in Tables, OwnIds(d)
    PROVE  StoreOf(d) \in Abstract!StoreData /\ Abstract!FreshIds(StoreOf(d))
<1>1. d.next \in Nat \ {0} /\ \A u \in d.users : u \in User /\ u.id \in Nat \ {0}
  BY UsersAssumption DEF Tables, User
<1>2. \A r \in UserRows(d) : \E u \in d.users : r = [id |-> u.id, val |-> u]
  BY DEF UserRows
<1>3. UserRows(d) \subseteq Abstract!Row
  <2> HIDE DEF User
  <2> QED BY <1>1, <1>2 DEF Abstract!Row, Abstract!Ids
<1>4. StoreOf(d) \in Abstract!StoreData
  <2>1. StoreOf(d).nextIds \in [StoreTables -> Abstract!Ids]
    BY <1>1 DEF StoreOf, Abstract!Ids
  <2>2. StoreOf(d).rows \in [StoreTables -> SUBSET Abstract!Row]
    BY <1>3 DEF StoreOf
  <2> QED BY <2>1, <2>2 DEF StoreOf, Abstract!StoreData, Abstract!DataOf
<1>5. Abstract!UniqueIds(UserRows(d)) /\ \A r \in UserRows(d) : r.id < d.next
  BY <1>2 DEF Abstract!UniqueIds, OwnIds
<1>6. /\ DOMAIN StoreOf(d).rows = StoreTables
      /\ \A t \in StoreTables : StoreOf(d).rows[t] = UserRows(d) /\ StoreOf(d).nextIds[t] = d.next
  BY DEF StoreOf
<1> HIDE DEF StoreOf
<1> QED BY <1>4, <1>5, <1>6 DEF Abstract!FreshIds

LEMMA LaterFollows ==
    ASSUME NEW d, NEW e, Later(e, d)
    PROVE  Abstract!Follows(StoreOf(e), StoreOf(d))
<1>1. \A r \in UserRows(e) : \E u \in e.users : r = [id |-> u.id, val |-> u]
  BY DEF UserRows
<1>2. \A v \in d.users : \E r \in UserRows(d) : r.id = v.id
  <2>1. \A v \in d.users : [id |-> v.id, val |-> v] \in UserRows(d)
    BY DEF UserRows
  <2>2. \A v \in d.users : [id |-> v.id, val |-> v].id = v.id
    OBVIOUS
  <2> QED BY <2>1, <2>2
<1>3. \A r \in UserRows(e) : r.id \in Abstract!RowIds(UserRows(d)) \/ d.next <= r.id
  BY <1>1, <1>2 DEF Later, Abstract!RowIds
<1>4. \A t \in StoreTables : /\ StoreOf(d).rows[t] = UserRows(d) /\ StoreOf(d).nextIds[t] = d.next
                             /\ StoreOf(e).rows[t] = UserRows(e) /\ StoreOf(e).nextIds[t] = e.next
  BY DEF StoreOf
<1> HIDE DEF StoreOf
<1> QED BY <1>3, <1>4 DEF Abstract!Follows, Later

\* Empty tables are the store's empty data.
LEMMA StoreOfEmpty == OwnIds(Empty) /\ StoreOf(Empty) = Abstract!DEFAULT_DATA
<1>1. Empty.next = 1 /\ Empty.users = {}
  BY DEF Empty
<1>2. UserRows(Empty) = {}
  BY <1>1 DEF UserRows
<1> HIDE DEF Empty
<1> QED BY <1>1, <1>2 DEF OwnIds, StoreOf, Abstract!DEFAULT_DATA

\* A login leaves a later memory with ids of its own, saved or not; only a
\* flush, a crash and a lost container do anything else.
LEMMA LoginSteps ==
    ASSUME TypeOK, OwnIds(db), [Next]_vars
    PROVE  \/ OwnIds(db') /\ Later(db', db) /\ saved' \in {saved, db'}
           \/ saved' = db /\ db' = db
           \/ db' = saved /\ saved' = saved
           \/ db' = Empty /\ saved' = Empty
<1>1. db \in Tables /\ db.next \in Nat /\ \A u \in db.users : u \in User /\ u.id \in Nat
  BY UsersAssumption DEF TypeOK, Tables, User
<1>2. ASSUME NEW new, new.id = db.next, db'.users = db.users \cup {new}, db'.next = db.next + 1
      PROVE  OwnIds(db') /\ Later(db', db)
  BY <1>1, <1>2 DEF OwnIds, Later
<1>3. ASSUME db'.users = db.users, db'.next = db.next PROVE OwnIds(db') /\ Later(db', db)
  BY <1>1, <1>3 DEF OwnIds, Later
<1>4. ASSUME NEW p \in Persons, NEW union \in UnionOf(p), MpLogin(p, union)
      PROVE  OwnIds(db') /\ Later(db', db) /\ saved' = saved
  <2>1. CASE MpLoginKnown(p, union)
    <3>1. PICK u \in db.users :
            /\ db' = [db EXCEPT !.users = (@ \ {u}) \cup
                        {[u EXCEPT !.unionid = IF union = NoUnion THEN @ ELSE union]}]
            /\ saved' = saved
      BY <2>1 DEF MpLoginKnown
    <3> DEFINE new == [u EXCEPT !.unionid = IF union = NoUnion THEN @ ELSE union]
    <3>2. new.id = u.id
      BY <1>1 DEF User
    <3>3. db'.users = (db.users \ {u}) \cup {new} /\ db'.next = db.next
      BY <1>1, <3>1 DEF Tables
    <3> HIDE DEF new
    <3> QED BY <1>1, <3>1, <3>2, <3>3 DEF OwnIds, Later
  <2>2. CASE MpLoginNew(p, union)
    <3> DEFINE new == NewUser(<<Mp, p>>, union)
    <3>1. new.id = db.next
      BY DEF NewUser
    <3>2. db'.users = db.users \cup {new} /\ db'.next = db.next + 1 /\ saved' = saved
      BY <1>1, <2>2 DEF MpLoginNew, Tables
    <3> HIDE DEF new
    <3> QED BY <1>2, <3>1, <3>2
  <2> QED BY <1>4, <2>1, <2>2 DEF MpLogin
<1>5. ASSUME NEW openid, NEW union, NEW id, Register(openid, union, id)
      PROVE  OwnIds(db') /\ Later(db', db)
  <2> DEFINE new == NewUser(openid, union)
  <2>1. new.id = db.next
    BY DEF NewUser
  <2>2. \/ db'.users = db.users /\ db'.next = db.next
        \/ db'.users = db.users \cup {new} /\ db'.next = db.next + 1
    BY <1>1, <1>5 DEF Register, Tables
  <2> HIDE DEF new
  <2> QED BY <1>2, <1>3, <2>1, <2>2
<1>6. ASSUME NEW openid, NEW union, Login(openid, union)
      PROVE  OwnIds(db') /\ Later(db', db) /\ saved' \in {saved, db'}
  <2>1. CASE LoginKnown(openid)
    BY <1>3, <2>1 DEF LoginKnown
  <2>2. CASE LoginNew(openid, union) \/ LoginNewFails(openid, union)
    BY <1>5, <2>2 DEF LoginNew, LoginNewFails
  <2> QED BY <1>6, <2>1, <2>2 DEF Login
<1>7. CASE UNCHANGED vars
  BY <1>3, <1>7 DEF vars
<1> QED BY <1>4, <1>6, <1>7 DEF Next, Flush, Crash, Replace

\* The table users is served as the store promises: between two stops of the
\* server no id is handed out twice, the file is only ever replaced by the whole
\* memory, by a new mini-program login before it answers, and a crash takes the
\* memory back to the file, with its counter: the ids of logins through the
\* public account that were not saved are then handed out again
\* (repositories/users.ts).
THEOREM LoginsUseTheStore == Spec => ServedByTheStore
<1> DEFINE Own == OwnIds(db) /\ OwnIds(saved)
<1>1. Init => Own /\ Abstract!Init
  <2> SUFFICES ASSUME Init PROVE Own /\ Abstract!Init
    OBVIOUS
  <2>1. db = Empty /\ saved = Empty /\ Empty \in Tables /\ OwnIds(Empty)
    BY UsersAssumption DEF Init, Empty, Tables, OwnIds
  <2>2. StoreOf(Empty) \in Abstract!StoreData /\ Abstract!FreshIds(StoreOf(Empty))
    BY <2>1, StoreOfType
  <2> HIDE DEF StoreOf
  <2> QED BY <2>1, <2>2 DEF Abstract!Init
<1>2. ASSUME TypeOK, TypeOK', Own, [Next]_vars
      PROVE  Own' /\ [Abstract!Next \/ WriteAndSave]_<<StoreOf(db), StoreOf(saved)>>
  <2>1. CASE OwnIds(db') /\ Later(db', db) /\ saved' \in {saved, db'}
    <3>1. db' \in Tables /\ db \in Tables
      BY <1>2 DEF TypeOK
    <3>2. Written
      BY <2>1, <3>1, StoreOfType, LaterFollows DEF Written
    <3>3. Own'
      BY <1>2, <2>1
    <3>4. CASE saved' = db'
      <4> HIDE DEF StoreOf
      <4> QED BY <3>2, <3>3, <3>4 DEF WriteAndSave
    <3>5. CASE saved' = saved
      <4> HIDE DEF StoreOf
      <4> QED BY <3>2, <3>3, <3>5 DEF Written, Abstract!Next, Abstract!Write
    <3> QED BY <2>1, <3>4, <3>5
  <2>2. CASE saved' = db /\ db' = db
    BY <1>2, <2>2 DEF Abstract!Next, Abstract!Sync
  <2>3. CASE db' = saved /\ saved' = saved
    BY <1>2, <2>3 DEF Abstract!Next, Abstract!Lose
  <2>4. CASE db' = Empty /\ saved' = Empty
    <3>1. OwnIds(Empty) /\ StoreOf(Empty) = Abstract!DEFAULT_DATA
      BY StoreOfEmpty
    <3> HIDE DEF StoreOf
    <3> QED BY <2>4, <3>1 DEF Abstract!Next, Abstract!Vanish
  <2> QED BY <1>2, <2>1, <2>2, <2>3, <2>4, LoginSteps
<1> HIDE DEF Own
<1>3. TypeOK /\ TypeOK' /\ Own /\ [Next]_vars
         => Own' /\ [Abstract!Next \/ WriteAndSave]_<<StoreOf(db), StoreOf(saved)>>
  BY <1>2
<1> QED BY <1>1, <1>3, UsersTypeCorrect, PTL DEF Spec, ServedByTheStore

-----------------------------------------------------------------------------
(* MiniAccount: handlers and the list.                                     *)

Kinds == {"idle", "profile", "list", "detail", "pay list", "pay detail"}

Phases == {"idle", "login", "call", "answer", "refusal", "dialog"}

\* One field of a handler changes.
LEMMA SetPhase == ASSUME NEW t \in Handler, NEW x \in Phases PROVE [t EXCEPT !.phase = x] \in Handler
BY DEF Handler, Phases

LEMMA SetToken == ASSUME NEW t \in Handler, NEW x \in 0 .. MaxLogins PROVE [t EXCEPT !.token = x] \in Handler
BY DEF Handler

LEMMA SetPage == ASSUME NEW t \in Handler, NEW x \in 0 .. MaxPage PROVE [t EXCEPT !.page = x] \in Handler
BY DEF Handler

LEMMA SetTotal == ASSUME NEW t \in Handler, NEW x \in 0 .. MaxOrders PROVE [t EXCEPT !.total = x] \in Handler
BY DEF Handler

LEMMA SetReplace == ASSUME NEW t \in Handler, NEW x \in BOOLEAN PROVE [t EXCEPT !.replace = x] \in Handler
BY DEF Handler

LEMMA SetGone == ASSUME NEW t \in Handler, NEW x \in BOOLEAN PROVE [t EXCEPT !.gone = x] \in Handler
BY DEF Handler

LEMMA Zeros == 0 \in 0 .. MaxLogins /\ 0 \in 0 .. MaxPage /\ 0 \in 0 .. MaxOrders /\ 1 \in 1 .. MaxPage /\ 1 \in 0 .. MaxPage
BY MiniAccountAssumption

LEMMA SentHandler ==
    ASSUME NEW t \in Handler, NEW token \in 0 .. MaxLogins, NEW n \in 0 .. MaxPage
    PROVE  /\ Sent(t, token, n) \in Handler
           /\ Sent(t, token, n).kind = t.kind /\ Sent(t, token, n).replace = t.replace
           /\ Sent(t, token, n).gone = t.gone /\ Sent(t, token, n).total = t.total
           /\ Sent(t, token, n).phase = "call" /\ Sent(t, token, n).page = n
<1>1. [[[t EXCEPT !.phase = "call"] EXCEPT !.token = token] EXCEPT !.page = n] \in Handler
  BY SetPhase, SetToken, SetPage DEF Phases
<1>2. Sent(t, token, n) = [[[t EXCEPT !.phase = "call"] EXCEPT !.token = token] EXCEPT !.page = n]
  BY DEF Sent
<1> QED BY <1>1, <1>2 DEF Handler

\* A handler that starts waits for the login, or its request is sent.
LEMMA StartedHandler ==
    ASSUME AccountTypeOK, NEW kind \in Kinds, NEW replace \in BOOLEAN, NEW n \in 0 .. MaxPage
    PROVE  LET t == Started(Task(kind, replace), n) IN
           /\ t \in Handler /\ t.kind = kind /\ t.replace = replace /\ ~t.gone /\ t.total = 0
           /\ (t.phase = "login" /\ t.page = 0) \/ (t.phase = "call" /\ t.page = n)
<1> DEFINE b == Task(kind, replace)
<1>1. memory.token \in 0 .. MaxLogins
  BY DEF AccountTypeOK, Session
<1>2. b \in Handler
  BY Zeros DEF Task, Idle, Handler, Kinds
<1>3. b.kind = kind /\ b.replace = replace /\ b.phase = "login" /\ b.page = 0 /\ b.total = 0 /\ b.gone = FALSE
  BY DEF Task, Idle
<1> HIDE DEF b
<1>4. CASE memory.token # 0
  <2>1. Started(b, n) = Sent(b, memory.token, n)
    BY <1>4 DEF Started
  <2> QED BY <2>1, <1>1, <1>2, <1>3, SentHandler DEF b
<1>5. CASE memory.token = 0
  BY <1>2, <1>3, <1>5 DEF Started, b
<1> QED BY <1>4, <1>5

LEMMA FreeSlot ==
    ASSUME NEW ts, HasSlot(ts)
    PROVE  Slot(ts) \in Slots /\ ts[Slot(ts)] = Idle
BY DEF HasSlot, Slot

LEMMA IdleHandler == Idle \in Handler
BY Zeros DEF Idle, Handler

LEMMA ClosedHandlers ==
    ASSUME AccountTypeOK, NEW kind
    PROVE  /\ Closed(kind) \in [Slots -> Handler]
           /\ \A s \in Slots : task[s].kind \notin {kind, PayOn(kind)} => Closed(kind)[s] = task[s]
           /\ \A s \in Slots : task[s].kind \in {kind, PayOn(kind)} => Closed(kind)[s].gone = TRUE /\ Closed(kind)[s].kind = task[s].kind
<1>1. ASSUME NEW t \in Handler
      PROVE  LET u == [t EXCEPT !.gone = TRUE, !.replace = FALSE, !.page = 0, !.total = 0] IN
             u \in Handler /\ u.gone /\ u.kind = t.kind
  <2> DEFINE u == [[[[t EXCEPT !.gone = TRUE] EXCEPT !.replace = FALSE] EXCEPT !.page = 0] EXCEPT !.total = 0]
  <2>1. u \in Handler
    BY SetGone, SetReplace, SetPage, SetTotal, Zeros
  <2>2. u.gone = TRUE /\ u.kind = t.kind
    BY DEF Handler
  <2> QED BY <2>1, <2>2
<1>2. \A s \in Slots : task[s] \in Handler
  BY DEF AccountTypeOK
<1> QED BY <1>1, <1>2 DEF Closed

\* A handler that starts in a free slot.
LEMMA Begun ==
    ASSUME AccountTypeOK, NEW ts \in [Slots -> Handler], HasSlot(ts), NEW t \in Handler
    PROVE  [ts EXCEPT ![Slot(ts)] = t] \in [Slots -> Handler]
BY FreeSlot

List == [orders : Seq(1 .. MaxOrders), page : 1 .. MaxPage, total : 0 .. MaxOrders, loading : BOOLEAN]

\* One field of the list changes.
LEMMA SetListOrders == ASSUME NEW l \in List, NEW x \in Seq(1 .. MaxOrders) PROVE [l EXCEPT !.orders = x] \in List
BY DEF List

LEMMA SetListPage == ASSUME NEW l \in List, NEW x \in 1 .. MaxPage PROVE [l EXCEPT !.page = x] \in List
BY DEF List

LEMMA SetListTotal == ASSUME NEW l \in List, NEW x \in 0 .. MaxOrders PROVE [l EXCEPT !.total = x] \in List
BY DEF List

LEMMA SetListLoading == ASSUME NEW l \in List, NEW x \in BOOLEAN PROVE [l EXCEPT !.loading = x] \in List
BY DEF List

LEMMA EmptyListType == EmptyList \in List
<1>1. <<>> \in Seq(1 .. MaxOrders)
  OBVIOUS
<1> QED BY <1>1, Zeros DEF EmptyList, List

\* The list when it is loaded anew.
Reloaded(l) == [l EXCEPT !.orders = <<>>, !.page = 1, !.loading = TRUE]

LEMMA ReloadedList ==
    ASSUME NEW l \in List
    PROVE  /\ Reloaded(l) \in List
           /\ Reloaded(l).orders = <<>> /\ Reloaded(l).page = 1
           /\ Reloaded(l).loading = TRUE /\ Reloaded(l).total = l.total
<1> DEFINE r == [[[l EXCEPT !.orders = <<>>] EXCEPT !.page = 1] EXCEPT !.loading = TRUE]
<1>1. <<>> \in Seq(1 .. MaxOrders)
  OBVIOUS
<1>2. r \in List
  BY <1>1, SetListOrders, SetListPage, SetListLoading, Zeros
<1>3. Reloaded(l) = r
  BY DEF Reloaded
<1>4. r.orders = <<>> /\ r.page = 1 /\ r.loading = TRUE /\ r.total = l.total
  BY DEF List
<1> QED BY <1>2, <1>3, <1>4

LEMMA Joined ==
    ASSUME NEW S, NEW a \in Seq(S), NEW b \in Seq(S)
    PROVE  /\ a \o b \in Seq(S) /\ Len(a \o b) = Len(a) + Len(b)
           /\ Len(a) \in Nat /\ Len(b) \in Nat
           /\ \A i \in 1 .. Len(a) : (a \o b)[i] = a[i]
           /\ \A i \in 1 .. Len(b) : (a \o b)[Len(a) + i] = b[i]
OBVIOUS

\* The first orders, in the number of the last and in the length of the list.
LEMMA SliceType ==
    ASSUME NEW n \in 0 .. MaxOrders, NEW p \in 1 .. MaxPage
    PROVE  /\ Slice(n, p) \in Seq(1 .. MaxOrders)
           /\ LET first == (p - 1) * PageSize IN
              /\ first \in Nat
              /\ Len(Slice(n, p)) = IF n <= first THEN 0 ELSE IF n - first < PageSize THEN n - first ELSE PageSize
              /\ \A i \in 1 .. Len(Slice(n, p)) : Slice(n, p)[i] = n + 1 - (first + i)
<1> DEFINE first == (p - 1) * PageSize
           size == IF n <= first THEN 0 ELSE IF n - first < PageSize THEN n - first ELSE PageSize
           Item(i) == n + 1 - (first + i)
<1>1. n \in Nat /\ p - 1 \in Nat /\ PageSize \in Nat /\ MaxOrders \in Nat /\ n <= MaxOrders
  BY MiniAccountAssumption
<1>2. first \in Nat
  BY <1>1
<1>3. Slice(n, p) = [i \in 1 .. size |-> Item(i)]
  BY DEF Slice
<1> HIDE DEF first
<1>4. size \in Nat /\ (size = 0 \/ first + size <= n)
  BY <1>1, <1>2
<1> HIDE DEF size
<1>5. \A i \in 1 .. size : Item(i) \in 1 .. MaxOrders
  BY <1>1, <1>2, <1>4
<1> HIDE DEF Item
<1>6. [i \in 1 .. size |-> Item(i)] \in Seq(1 .. MaxOrders)
  BY <1>4, <1>5
<1>7. Slice(n, p) \in Seq(1 .. MaxOrders)
  BY <1>3, <1>6
<1>8. Len(Slice(n, p)) = size
  BY <1>3, <1>4
<1>9. \A i \in 1 .. Len(Slice(n, p)) : Slice(n, p)[i] = Item(i)
  BY <1>3, <1>8
<1> QED BY <1>2, <1>7, <1>8, <1>9 DEF first, size, Item

-----------------------------------------------------------------------------
(* Types.                                                                  *)

Profile == [loggedIn : BOOLEAN, loading : BOOLEAN]
Detail == [status : {"none", "pending", "paid"}, loading : BOOLEAN]

Pages == {"home", "profile", "list", "detail"}

LoginType == memory \in Session /\ disk \in Session /\ live \subseteq 1 .. issued /\ issued \in 0 .. MaxLogins
ScreenType == page \in Pages /\ profile \in Profile /\ list \in List /\ detail \in Detail
TasksType == task \in [Slots -> Handler] /\ mixed \in BOOLEAN

LEMMA TypeParts ==
    /\ AccountTypeOK <=> LoginType /\ orders \in 0 .. MaxOrders /\ ScreenType /\ TasksType
    /\ AccountTypeOK' <=> LoginType' /\ orders' \in 0 .. MaxOrders /\ ScreenType' /\ TasksType'
<1>1. AccountTypeOK <=> LoginType /\ orders \in 0 .. MaxOrders /\ ScreenType /\ TasksType
  BY Zenon DEF AccountTypeOK, LoginType, ScreenType, TasksType, Pages, Profile, List, Detail
<1>2. AccountTypeOK' <=> LoginType' /\ orders' \in 0 .. MaxOrders /\ ScreenType' /\ TasksType'
  BY Zenon DEF AccountTypeOK, LoginType, ScreenType, TasksType, Pages, Profile, List, Detail
<1> QED BY <1>1, <1>2

LEMMA SetProfile ==
    ASSUME NEW x \in Profile, NEW b \in BOOLEAN
    PROVE  [x EXCEPT !.loggedIn = b] \in Profile /\ [x EXCEPT !.loading = b] \in Profile
BY DEF Profile

LEMMA SetDetail ==
    ASSUME NEW x \in Detail, NEW b \in BOOLEAN, NEW status \in {"pending", "paid"}
    PROVE  /\ [x EXCEPT !.loading = b] \in Detail
           /\ [x EXCEPT !.status = status, !.loading = b] \in Detail
<1>1. \A y \in Detail : [y EXCEPT !.loading = b] \in Detail
  BY DEF Detail
<1>2. [x EXCEPT !.status = status] \in Detail
  BY DEF Detail
<1>3. [x EXCEPT !.status = status, !.loading = b] = [[x EXCEPT !.status = status] EXCEPT !.loading = b]
  OBVIOUS
<1> QED BY <1>1, <1>2, <1>3

LEMMA NoDetailType == NoDetail \in Detail
BY DEF NoDetail, Detail

LEMMA RefreshType ==
    ASSUME AccountTypeOK, NEW ts \in [Slots -> Handler], RefreshUser(ts)
    PROVE  profile' \in Profile /\ task' \in [Slots -> Handler]
<1>1. profile \in Profile
  BY TypeParts DEF ScreenType
<1>2. CASE memory.token # 0
  <2>1. [loggedIn |-> TRUE, loading |-> FALSE] \in Profile
    BY DEF Profile
  <2> QED BY <1>2, <2>1 DEF RefreshUser
<1>3. CASE memory.token = 0
  <2>1. Task("profile", FALSE) \in Handler
    BY Zeros DEF Task, Idle, Handler
  <2> QED BY <1>1, <1>3, <2>1, SetProfile, Begun DEF RefreshUser
<1> QED BY <1>2, <1>3

\* A page of the list is asked for by a handler.
LEMMA ListHandler ==
    ASSUME AccountTypeOK, NEW replace \in BOOLEAN, NEW n \in 0 .. MaxPage
    PROVE  Started(Task("list", replace), n) \in Handler
<1>1. "list" \in Kinds
  BY DEF Kinds
<1> QED BY <1>1, StartedHandler

LEMMA ReloadType ==
    ASSUME AccountTypeOK, NEW ts \in [Slots -> Handler], Reload(ts)
    PROVE  list' \in List /\ task' \in [Slots -> Handler] /\ mixed' \in BOOLEAN
<1>1. list \in List
  BY TypeParts DEF ScreenType
<1>2. list' = Reloaded(list) /\ HasSlot(ts) /\ mixed' \in BOOLEAN
  BY DEF Reload, Reloaded
<1>3. task' = [ts EXCEPT ![Slot(ts)] = Started(Task("list", TRUE), 1)]
  BY DEF Reload
<1>4. Started(Task("list", TRUE), 1) \in Handler
  BY ListHandler, Zeros
<1> QED BY <1>1, <1>2, <1>3, <1>4, ReloadedList, Begun

LEMMA FailedType ==
    ASSUME AccountTypeOK, NEW t \in Handler, Failed(t)
    PROVE  /\ profile' \in Profile /\ list' \in List /\ detail' \in Detail /\ mixed' \in BOOLEAN
<1>1. profile \in Profile /\ list \in List /\ detail \in Detail /\ mixed \in BOOLEAN
  BY TypeParts DEF ScreenType, TasksType
<1>2. profile' \in Profile
  BY <1>1 DEF Failed, Profile
<1>3. list' \in List
  BY <1>1, SetListLoading DEF Failed
<1>4. detail' \in Detail
  <2>1. detail' = detail \/ detail' = [detail EXCEPT !.loading = FALSE]
    BY DEF Failed
  <2> QED BY <1>1, <2>1, SetDetail
<1>5. mixed' \in BOOLEAN
  BY <1>1 DEF Failed
<1> QED BY <1>2, <1>3, <1>4, <1>5

\* A step that leaves the login alone.
LEMMA LoginStays == AccountTypeOK /\ Account => LoginType'
BY TypeParts DEF Account, LoginType

\* A page of the list that is on its way has a number.
Asks(t) == t.kind = "list" /\ ~t.gone /\ t.phase # "login" => t.page >= 1
Asking(ts) == \A r \in Slots : Asks(ts[r])

LEMMA AsksStarted ==
    ASSUME AccountTypeOK, NEW kind \in Kinds, NEW replace \in BOOLEAN, NEW n \in 0 .. MaxPage, kind = "list" => n >= 1
    PROVE  Asks(Started(Task(kind, replace), n))
BY StartedHandler DEF Asks

LEMMA AskingOne ==
    ASSUME NEW ts \in [Slots -> Handler], Asking(ts), NEW s \in Slots, NEW t, Asks(t)
    PROVE  Asking([ts EXCEPT ![s] = t])
<1> HIDE DEF Asks
<1> QED BY DEF Asking

LEMMA AskingSlot ==
    ASSUME NEW ts \in [Slots -> Handler], Asking(ts), HasSlot(ts), NEW t, Asks(t)
    PROVE  Asking([ts EXCEPT ![Slot(ts)] = t])
BY FreeSlot, AskingOne

LEMMA AskingClosed == ASSUME AccountTypeOK, Asking(task), NEW kind PROVE Asking(Closed(kind))
<1>1. \A r \in Slots : Asks(task[r])
  BY DEF Asking
<1>2. \A r \in Slots : Closed(kind)[r] = task[r] \/ Closed(kind)[r].gone
  BY ClosedHandlers
<1> QED BY <1>1, <1>2 DEF Asking, Asks

LEMMA ScreenStepAsking ==
    ASSUME AccountTypeOK, Asking(task),
           \/ ShowProfile \/ LeaveProfile \/ GoOrders \/ PullList \/ OnReachBottom
           \/ GoDetail \/ PullDetail \/ BackToList \/ BackToProfile
           \/ \E kind \in {"list", "detail"} : PayNow(kind)
    PROVE  Asking(task')
<1>1. task \in [Slots -> Handler] /\ list \in List
  BY TypeParts DEF ScreenType, TasksType
<1>2. \A kind \in Kinds \ {"list"} : Asks(Started(Task(kind, FALSE), 0))
  BY AsksStarted, Zeros
<1>3. Asks(Started(Task("list", TRUE), 1))
  <2>1. "list" \in Kinds /\ TRUE \in BOOLEAN /\ 1 \in 0 .. MaxPage
    BY Zeros DEF Kinds
  <2>2. \A b \in BOOLEAN : Asks(Started(Task("list", b), 1))
    BY <2>1, AsksStarted
  <2> QED BY <2>1, <2>2
<1>4. Asks(Task("profile", FALSE))
  BY DEF Asks, Task, Idle
<1>5. ASSUME NEW ts \in [Slots -> Handler], Asking(ts), Reload(ts) \/ RefreshUser(ts) PROVE Asking(task')
  BY <1>3, <1>4, <1>5, AskingSlot DEF Reload, RefreshUser
<1>6. CASE ShowProfile \/ LeaveProfile \/ PullList
  BY <1>1, <1>5, <1>6 DEF ShowProfile, LeaveProfile, PullList
<1>7. CASE BackToList \/ BackToProfile
  BY <1>5, <1>7, ClosedHandlers, AskingClosed DEF BackToList, BackToProfile
<1>8. CASE GoOrders
  BY <1>1, <1>3, <1>8, AskingSlot DEF GoOrders
<1>9. CASE OnReachBottom
  <2>1. list.page + 1 \in 0 .. MaxPage /\ list.page + 1 >= 1
    BY <1>1, <1>9, MiniAccountAssumption DEF OnReachBottom, List
  <2>2. Asks(Started(Task("list", FALSE), list.page + 1))
    BY <2>1, AsksStarted DEF Kinds
  <2> QED BY <1>1, <1>9, <2>2, AskingSlot DEF OnReachBottom
<1>10. CASE GoDetail \/ PullDetail
  BY <1>1, <1>2, <1>10, AskingSlot DEF GoDetail, PullDetail, Kinds
<1>11. ASSUME NEW kind \in {"list", "detail"}, PayNow(kind) PROVE Asking(task')
  <2>1. PayOn(kind) \in Kinds \ {"list"}
    BY DEF PayOn, Kinds
  <2> QED BY <1>1, <1>2, <1>11, <2>1, AskingSlot DEF PayNow
<1> QED BY <1>6, <1>7, <1>8, <1>9, <1>10, <1>11

LEMMA ContinuationAsking ==
    ASSUME AccountTypeOK, Asking(task), NEW s \in Slots, Continuation(s)
    PROVE  Asking(task')
<1>1. task \in [Slots -> Handler] /\ list \in List /\ task[s] \in Handler /\ Asks(task[s])
  BY TypeParts DEF ScreenType, TasksType, Asking
<1>2. \A t : Asks(t) => Asking([task EXCEPT ![s] = t])
  BY <1>1, AskingOne
<1>3. Asks(Idle)
  BY DEF Asks, Idle
<1>4. CASE LoginArrives(s)
  <2>1. CASE task[s].kind = "profile"
    BY <1>2, <1>3, <1>4, <2>1 DEF LoginArrives
  <2>2. CASE task[s].kind # "profile"
    <3> DEFINE n == IF task[s].kind = "list" /\ ~task[s].gone THEN list.page ELSE 0
    <3>1. n \in 0 .. MaxPage /\ list.page >= 1
      BY <1>1, Zeros DEF List
    <3>2. issued + 1 \in 0 .. MaxLogins
      BY <1>4, TypeParts DEF LoginArrives, LoginType
    <3>3. task' = [task EXCEPT ![s] = Sent(task[s], issued + 1, n)]
      BY <1>1, <1>4, <2>2 DEF LoginArrives
    <3>4. Asks(Sent(task[s], issued + 1, n))
      BY <1>1, <3>1, <3>2, SentHandler DEF Asks
    <3> QED BY <1>2, <3>3, <3>4
  <2> QED BY <2>1, <2>2
<1>5. CASE Fails(s) \/ Unauthorized(s) \/ ListArrives(s) \/ \E status \in {"pending", "paid"} : DetailArrives(s, status)
  BY <1>2, <1>3, <1>5 DEF Fails, Unauthorized, Refused, ListArrives, DetailArrives
<1>6. CASE Serve(s)
  <2> DEFINE phase == IF task[s].token \in live THEN "answer" ELSE "refusal"
             total == IF task[s].kind = "list" /\ ~task[s].gone THEN orders ELSE 0
             served == [[task[s] EXCEPT !.phase = phase] EXCEPT !.total = total]
  <2>1. task' = [task EXCEPT ![s] = served]
    BY <1>1, <1>6 DEF Serve
  <2>2. served.kind = task[s].kind /\ served.gone = task[s].gone /\ served.page = task[s].page
    BY <1>1 DEF Handler
  <2>3. task[s].phase = "call"
    BY <1>6 DEF Serve
  <2>4. Asks(served)
    BY <1>1, <2>2, <2>3 DEF Asks
  <2> QED BY <1>2, <2>1, <2>4
<1>7. CASE PrepayArrives(s)
  <2>1. task' = [task EXCEPT ![s] = [task[s] EXCEPT !.phase = "dialog"]]
    BY <1>1, <1>7 DEF PrepayArrives
  <2>2. Asks([task[s] EXCEPT !.phase = "dialog"])
    BY <1>1, <1>7 DEF PrepayArrives, Asks, Handler
  <2> QED BY <1>2, <2>1, <2>2
<1>8. CASE Paid(s)
  <2> DEFINE t == task[s]
             again == t.kind = "pay list" /\ ~t.gone
             kind == IF t.kind = "pay list" THEN "list" ELSE "detail"
             n == IF again THEN 1 ELSE 0
             start == Started(Task(kind, again), n)
  <2>0. kind \in Kinds /\ again \in BOOLEAN /\ n \in 0 .. MaxPage
    BY Zeros DEF Kinds
  <2>1. /\ start \in Handler /\ start.kind = kind
        /\ start.phase = "login" \/ start.page = n
    <3> HIDE DEF kind, again, n
    <3> QED BY <2>0, StartedHandler
  <2> HIDE DEF start
  <2>2. t.gone \in BOOLEAN /\ (start.kind = "list" /\ ~t.gone => start.phase = "login" \/ start.page = 1)
    BY <1>1, <2>1 DEF Handler
  <2> DEFINE u == [start EXCEPT !.gone = t.gone]
  <2>3. u.kind = start.kind /\ u.gone = t.gone /\ u.phase = start.phase /\ u.page = start.page
    BY <2>1 DEF Handler
  <2>4. Asks(u)
    BY <2>2, <2>3 DEF Asks
  <2>5. task' = [task EXCEPT ![s] = u]
    BY <1>8 DEF Paid, start
  <2> QED BY <1>2, <2>4, <2>5
<1> QED BY <1>4, <1>5, <1>6, <1>7, <1>8 DEF Continuation

\* A page is opened, left or loaded again.
LEMMA ScreenStepType ==
    ASSUME AccountTypeOK,
           \/ ShowProfile \/ LeaveProfile \/ GoOrders \/ PullList \/ OnReachBottom
           \/ GoDetail \/ PullDetail \/ BackToList \/ BackToProfile
           \/ \E kind \in {"list", "detail"} : PayNow(kind)
    PROVE  AccountTypeOK'
<1>1. /\ profile \in Profile /\ list \in List /\ detail \in Detail /\ page \in Pages
      /\ task \in [Slots -> Handler] /\ mixed \in BOOLEAN /\ orders \in 0 .. MaxOrders
  BY TypeParts DEF ScreenType, TasksType
<1>2. \A ts \in [Slots -> Handler], t \in Handler :
        HasSlot(ts) => [ts EXCEPT ![Slot(ts)] = t] \in [Slots -> Handler]
  BY Begun
<1>3. \A kind \in Kinds : Started(Task(kind, FALSE), 0) \in Handler
  BY StartedHandler, Zeros
<1>4. LoginType'
  <2>1. Account
    BY DEF ShowProfile, LeaveProfile, GoOrders, PullList, OnReachBottom, GoDetail, PullDetail,
           BackToList, BackToProfile, PayNow
  <2> QED BY <2>1, LoginStays
<1>5. CASE ShowProfile
  <2>1. profile' \in Profile /\ task' \in [Slots -> Handler]
    BY <1>1, <1>5, RefreshType DEF ShowProfile
  <2> QED BY <1>1, <1>4, <1>5, <2>1, TypeParts DEF ShowProfile, ScreenType, TasksType, Pages
<1>6. CASE LeaveProfile
  BY <1>1, <1>4, <1>6, TypeParts DEF LeaveProfile, ScreenType, TasksType, Pages
<1>7. CASE GoOrders
  <2>1. list' \in List
    BY <1>7, EmptyListType, SetListLoading DEF GoOrders
  <2>2. Started(Task("list", TRUE), 1) \in Handler
    BY ListHandler, Zeros
  <2>3. task' \in [Slots -> Handler]
    BY <1>1, <1>2, <1>7, <2>2 DEF GoOrders
  <2> QED BY <1>1, <1>4, <1>7, <2>1, <2>3, TypeParts DEF GoOrders, ScreenType, TasksType, Pages
<1>8. CASE PullList
  <2>1. list' \in List /\ task' \in [Slots -> Handler] /\ mixed' \in BOOLEAN
    BY <1>1, <1>8, ReloadType DEF PullList
  <2> QED BY <1>1, <1>4, <1>8, <2>1, TypeParts DEF PullList, ScreenType, TasksType
<1>9. CASE OnReachBottom
  <2>1. list.page + 1 \in 1 .. MaxPage /\ list.page + 1 \in 0 .. MaxPage
    BY <1>1, <1>9, MiniAccountAssumption DEF OnReachBottom, List
  <2>2. list' = [[list EXCEPT !.page = list.page + 1] EXCEPT !.loading = TRUE]
    BY <1>1, <1>9 DEF OnReachBottom, List
  <2>3. list' \in List
    BY <1>1, <2>1, <2>2, SetListPage, SetListLoading
  <2>4. Started(Task("list", FALSE), list.page + 1) \in Handler
    BY <2>1, ListHandler
  <2>5. task' \in [Slots -> Handler]
    BY <1>1, <1>2, <1>9, <2>4 DEF OnReachBottom
  <2> QED BY <1>1, <1>4, <1>9, <2>3, <2>5, TypeParts DEF OnReachBottom, ScreenType, TasksType
<1>10. CASE GoDetail \/ PullDetail
  <2>1. detail' \in Detail
    BY <1>1, <1>10, NoDetailType, SetDetail DEF GoDetail, PullDetail
  <2>2. task' \in [Slots -> Handler]
    BY <1>1, <1>2, <1>3, <1>10 DEF GoDetail, PullDetail, Kinds
  <2> QED BY <1>1, <1>4, <1>10, <2>1, <2>2, TypeParts DEF GoDetail, PullDetail, ScreenType, TasksType, Pages
<1>11. CASE BackToList
  <2>1. list' \in List /\ task' \in [Slots -> Handler] /\ mixed' \in BOOLEAN
    BY <1>11, ClosedHandlers, ReloadType DEF BackToList
  <2> QED BY <1>1, <1>4, <1>11, <2>1, NoDetailType, TypeParts DEF BackToList, ScreenType, TasksType, Pages
<1>12. CASE BackToProfile
  <2>1. profile' \in Profile /\ task' \in [Slots -> Handler]
    BY <1>12, ClosedHandlers, RefreshType DEF BackToProfile
  <2> QED BY <1>1, <1>4, <1>12, <2>1, EmptyListType, TypeParts DEF BackToProfile, ScreenType, TasksType, Pages
<1>13. ASSUME NEW kind \in {"list", "detail"}, PayNow(kind) PROVE AccountTypeOK'
  <2>1. PayOn(kind) \in Kinds
    BY DEF PayOn, Kinds
  <2>2. task' \in [Slots -> Handler]
    BY <1>1, <1>2, <1>3, <1>13, <2>1 DEF PayNow
  <2> QED BY <1>1, <1>4, <1>13, <2>2, TypeParts DEF PayNow, ScreenType, TasksType
<1> QED BY <1>5, <1>6, <1>7, <1>8, <1>9, <1>10, <1>11, <1>12, <1>13

\* One handler goes on, and the rest of the tasks stay.
LEMMA ContinuationType ==
    ASSUME AccountTypeOK, Asking(task), NEW s \in Slots, Continuation(s)
    PROVE  AccountTypeOK'
<1>1. /\ profile \in Profile /\ list \in List /\ detail \in Detail /\ page \in Pages
      /\ task \in [Slots -> Handler] /\ mixed \in BOOLEAN /\ orders \in 0 .. MaxOrders
  BY TypeParts DEF ScreenType, TasksType
<1>2. task[s] \in Handler
  BY <1>1
<1>3. \A t \in Handler : [task EXCEPT ![s] = t] \in [Slots -> Handler]
  BY <1>1
<1>4. [task EXCEPT ![s] = Idle] \in [Slots -> Handler]
  BY <1>3, IdleHandler
<1>5. ASSUME Server, UNCHANGED <<memory, disk>> PROVE LoginType'
  BY <1>5, TypeParts DEF Server, LoginType
<1>6. CASE LoginArrives(s)
  <2>1. issued + 1 \in 0 .. MaxLogins /\ live \cup {issued + 1} \subseteq 1 .. issued + 1
    BY <1>6, TypeParts DEF LoginArrives, LoginType
  <2>2. LoginOf(issued + 1) \in Session
    BY <2>1 DEF LoginOf, Session
  <2>3. LoginType'
    BY <1>6, <2>1, <2>2 DEF LoginArrives, LoginType
  <2>4. CASE task[s].kind = "profile"
    <3>1. [loggedIn |-> TRUE, loading |-> FALSE] \in Profile
      BY DEF Profile
    <3>2. profile' \in Profile /\ task' \in [Slots -> Handler]
      BY <1>4, <1>6, <2>4, <3>1 DEF LoginArrives
    <3> QED BY <1>1, <1>6, <2>3, <3>2, TypeParts DEF LoginArrives, ScreenType, TasksType
  <2>5. CASE task[s].kind # "profile"
    <3> DEFINE n == IF task[s].kind = "list" /\ ~task[s].gone THEN list.page ELSE 0
    <3>1. n \in 0 .. MaxPage
      BY <1>1, Zeros DEF List
    <3>2. task' = [task EXCEPT ![s] = Sent(task[s], issued + 1, n)]
      BY <1>1, <1>6, <2>5 DEF LoginArrives
    <3>3. Sent(task[s], issued + 1, n) \in Handler
      BY <1>2, <2>1, <3>1, SentHandler
    <3>4. task' \in [Slots -> Handler] /\ profile' = profile
      BY <1>3, <1>6, <2>5, <3>2, <3>3 DEF LoginArrives
    <3> QED BY <1>1, <1>6, <2>3, <3>4, TypeParts DEF LoginArrives, ScreenType, TasksType
  <2> QED BY <2>4, <2>5
<1>7. CASE Fails(s)
  <2>1. profile' \in Profile /\ list' \in List /\ detail' \in Detail /\ mixed' \in BOOLEAN
    BY <1>2, <1>7, FailedType DEF Fails
  <2> QED BY <1>1, <1>4, <1>5, <1>7, <2>1, TypeParts DEF Fails, Server, ScreenType, TasksType
<1>8. CASE Serve(s)
  <2> DEFINE phase == IF task[s].token \in live THEN "answer" ELSE "refusal"
             total == IF task[s].kind = "list" /\ ~task[s].gone THEN orders ELSE 0
             served == [[task[s] EXCEPT !.phase = phase] EXCEPT !.total = total]
  <2>1. phase \in Phases /\ total \in 0 .. MaxOrders
    BY <1>1, Zeros DEF Phases
  <2>2. served \in Handler
    BY <1>2, <2>1, SetPhase, SetTotal
  <2>3. task' = [task EXCEPT ![s] = served]
    BY <1>1, <1>8 DEF Serve
  <2>4. task' \in [Slots -> Handler]
    BY <1>3, <2>2, <2>3
  <2> QED BY <1>1, <1>5, <1>8, <2>4, TypeParts DEF Serve, Server, ScreenType, TasksType
<1>9. CASE Unauthorized(s)
  <2>1. profile' \in Profile /\ list' \in List /\ detail' \in Detail /\ mixed' \in BOOLEAN
    BY <1>2, <1>9, FailedType DEF Unauthorized, Refused
  <2>2. NoLogin \in Session
    BY Zeros DEF NoLogin, Session
  <2>3. LoginType'
    BY <1>9, <2>2, TypeParts DEF Unauthorized, LogoutOnDisk, Server, LoginType
  <2> QED BY <1>1, <1>4, <1>9, <2>1, <2>3, TypeParts DEF Unauthorized, Refused, Server, ScreenType, TasksType
<1>10. CASE ListArrives(s)
  <2>1. list' \in List
    <3>1. CASE task[s].gone
      BY <1>1, <1>10, <3>1 DEF ListArrives
    <3>2. CASE ~task[s].gone
      <4> DEFINE got == Slice(task[s].total, task[s].page)
                 all == IF task[s].replace THEN got ELSE list.orders \o got
      <4>1. task[s].total \in 0 .. MaxOrders /\ list.orders \in Seq(1 .. MaxOrders)
        BY <1>1, <1>2 DEF Handler, List
      <4>2. task[s].page \in 1 .. MaxPage
        <5>1. task[s].page \in 0 .. MaxPage
          BY <1>2 DEF Handler
        <5>2. Asks(task[s])
          BY DEF Asking
        <5>3. task[s].page >= 1
          BY <1>10, <3>2, <5>2 DEF Asks, ListArrives
        <5> QED BY <5>1, <5>3, MiniAccountAssumption
      <4>3. got \in Seq(1 .. MaxOrders)
        BY <4>1, <4>2, SliceType
      <4> HIDE DEF got
      <4>4. all \in Seq(1 .. MaxOrders)
        BY <4>1, <4>3, Joined
      <4>5. list' = [[[list EXCEPT !.orders = all] EXCEPT !.total = task[s].total] EXCEPT !.loading = FALSE]
        <5>1. list' = [list EXCEPT !.orders = all, !.total = task[s].total, !.loading = FALSE]
          BY <1>10, <3>2 DEF ListArrives, got
        <5> HIDE DEF all
        <5> QED BY <5>1
      <4> HIDE DEF all
      <4>6. [list EXCEPT !.orders = all] \in List
        BY <1>1, <4>4, SetListOrders
      <4>7. [[list EXCEPT !.orders = all] EXCEPT !.total = task[s].total] \in List
        BY <4>1, <4>6, SetListTotal
      <4> QED BY <4>5, <4>7, SetListLoading
    <3> QED BY <3>1, <3>2
  <2> QED BY <1>1, <1>4, <1>5, <1>10, <2>1, TypeParts DEF ListArrives, Server, ScreenType, TasksType
<1>11. ASSUME NEW status \in {"pending", "paid"}, DetailArrives(s, status) PROVE AccountTypeOK'
  <2>1. detail' \in Detail
    BY <1>1, <1>11, SetDetail DEF DetailArrives
  <2> QED BY <1>1, <1>4, <1>5, <1>11, <2>1, TypeParts DEF DetailArrives, Server, ScreenType, TasksType
<1>12. CASE PrepayArrives(s)
  <2>1. task' = [task EXCEPT ![s] = [task[s] EXCEPT !.phase = "dialog"]]
    BY <1>1, <1>12 DEF PrepayArrives
  <2>2. task' \in [Slots -> Handler]
    BY <1>2, <1>3, <2>1, SetPhase DEF Phases
  <2> QED BY <1>1, <1>5, <1>12, <2>2, TypeParts DEF PrepayArrives, Server, ScreenType, TasksType
<1>13. CASE Paid(s)
  <2> DEFINE t == task[s]
             again == t.kind = "pay list" /\ ~t.gone
             kind == IF t.kind = "pay list" THEN "list" ELSE "detail"
             n == IF again THEN 1 ELSE 0
             start == Started(Task(kind, again), n)
  <2>0. kind \in Kinds /\ again \in BOOLEAN /\ n \in 0 .. MaxPage
    BY Zeros DEF Kinds
  <2>1. start \in Handler
    <3> HIDE DEF kind, again, n
    <3> QED BY <2>0, StartedHandler
  <2>2. task[s].gone \in BOOLEAN
    BY <1>2 DEF Handler
  <2>3. task' = [task EXCEPT ![s] = [start EXCEPT !.gone = t.gone]]
    BY <1>13 DEF Paid
  <2>4. task' \in [Slots -> Handler]
    BY <1>3, <2>1, <2>2, <2>3, SetGone
  <2>5. list' \in List
    BY <1>1, <1>13, ReloadedList DEF Paid, Reloaded
  <2>6. detail' \in Detail
    BY <1>1, <1>13, SetDetail DEF Paid
  <2>7. mixed' \in BOOLEAN
    BY <1>1, <1>13 DEF Paid
  <2>8. LoginType'
    BY <1>13, LoginStays DEF Paid
  <2> QED BY <1>1, <1>13, <2>4, <2>5, <2>6, <2>7, <2>8, TypeParts DEF Paid, ScreenType, TasksType
<1> QED BY <1>6, <1>7, <1>8, <1>9, <1>10, <1>11, <1>12, <1>13 DEF Continuation

\* What storage may hold after the app was killed.
LEMMA KilledType ==
    ASSUME AccountTypeOK, NEW d \in Killed
    PROVE  /\ d \in Session /\ d.token \in 0 .. MaxLogins /\ issued \in Nat
           /\ d = disk \/ (d.token = 0 /\ d.user = disk.user) \/ (d.token = issued + 1 /\ d.user = disk.user)
           /\ d.token <= issued \/ d.token = issued + 1 \/ d = disk
<1>1. disk \in Session /\ issued \in 0 .. MaxLogins
  BY TypeParts DEF LoginType
<1>2. d = disk \/ d = [disk EXCEPT !.token = 0] \/ (d = [disk EXCEPT !.token = issued + 1] /\ issued < MaxLogins)
  BY DEF Killed
<1>3. ASSUME NEW n \in 0 .. MaxLogins, d = [disk EXCEPT !.token = n]
      PROVE  d \in Session /\ d.token = n /\ d.user = disk.user
  BY <1>1, <1>3 DEF Session
<1>4. CASE d = disk
  BY <1>1, <1>4, MiniAccountAssumption DEF Session
<1>5. CASE d = [disk EXCEPT !.token = 0]
  <2>1. d \in Session /\ d.token = 0 /\ d.user = disk.user
    BY <1>3, <1>5, Zeros
  <2> QED BY <1>1, <2>1, MiniAccountAssumption
<1>6. CASE d = [disk EXCEPT !.token = issued + 1] /\ issued < MaxLogins
  <2>1. issued + 1 \in 0 .. MaxLogins /\ issued \in Nat
    BY <1>1, <1>6, MiniAccountAssumption
  <2>2. d \in Session /\ d.token = issued + 1 /\ d.user = disk.user
    BY <1>3, <1>6, <2>1
  <2> QED BY <2>1, <2>2
<1> QED BY <1>2, <1>4, <1>5, <1>6

\* The rest of the steps.
LEMMA OtherType ==
    ASSUME AccountTypeOK,
           Logout \/ PlaceOrder \/ DeleteOrder \/ Relaunch \/ (\E n \in 1 .. MaxLogins : Expire(n)) \/ UNCHANGED accountVars
    PROVE  AccountTypeOK'
<1>1. /\ profile \in Profile /\ list \in List /\ detail \in Detail /\ page \in Pages
      /\ task \in [Slots -> Handler] /\ mixed \in BOOLEAN /\ orders \in 0 .. MaxOrders
      /\ memory \in Session /\ disk \in Session /\ live \subseteq 1 .. issued /\ issued \in 0 .. MaxLogins
  BY TypeParts DEF ScreenType, TasksType, LoginType
<1>2. NoLogin \in Session
  BY Zeros DEF NoLogin, Session
<1>3. CASE Logout
  <2>1. LoginType'
    BY <1>1, <1>2, <1>3 DEF Logout, LogoutOnDisk, Server, LoginType
  <2>2. profile' \in Profile
    BY <1>1, <1>3, SetProfile DEF Logout
  <2> QED BY <1>1, <1>3, <2>1, <2>2, TypeParts DEF Logout, Server, ScreenType, TasksType
<1>4. CASE PlaceOrder \/ DeleteOrder
  <2>1. orders' \in 0 .. MaxOrders /\ mixed' = TRUE
    BY <1>1, <1>4, MiniAccountAssumption DEF PlaceOrder, DeleteOrder
  <2>2. LoginType'
    BY <1>4, LoginStays DEF PlaceOrder, DeleteOrder
  <2> QED BY <1>1, <1>4, <2>1, <2>2, TypeParts DEF PlaceOrder, DeleteOrder, ScreenType, TasksType
<1>5. CASE Relaunch
  <2>1. PICK d \in Killed :
          /\ disk' = d /\ memory' = Restored(d)
          /\ IF d.token > issued THEN issued' = d.token /\ live' = live \cup {d.token} ELSE UNCHANGED <<issued, live>>
    BY <1>5 DEF Relaunch
  <2>2. d \in Session /\ d.token \in 0 .. MaxLogins
    BY KilledType
  <2>3. Restored(d) \in Session
    BY <1>2, <2>2 DEF Restored
  <2>4. issued' \in 0 .. MaxLogins /\ live' \subseteq 1 .. issued'
    <3>1. CASE d.token > issued
      <4> DEFINE n == d.token
      <4>1. issued' = n /\ live' = live \cup {n} /\ n \in 0 .. MaxLogins /\ n > issued
        BY <2>1, <2>2, <3>1
      <4> HIDE DEF n
      <4> QED BY <1>1, <4>1, MiniAccountAssumption
    <3>2. CASE ~(d.token > issued)
      BY <1>1, <2>1, <3>2
    <3> QED BY <3>1, <3>2
  <2>5. LoginType'
    BY <2>1, <2>2, <2>3, <2>4 DEF LoginType
  <2>6. [loggedIn |-> FALSE, loading |-> FALSE] \in Profile
    BY DEF Profile
  <2>7. [s \in Slots |-> Idle] \in [Slots -> Handler]
    BY IdleHandler
  <2> QED BY <1>1, <1>5, <2>5, <2>6, <2>7, EmptyListType, NoDetailType, TypeParts
          DEF Relaunch, ScreenType, TasksType, Pages
<1>6. ASSUME NEW n \in 1 .. MaxLogins, Expire(n) PROVE AccountTypeOK'
  BY <1>1, <1>6, TypeParts DEF Expire, LoginType, ScreenType, TasksType
<1>7. CASE UNCHANGED accountVars
  BY <1>1, <1>7, TypeParts DEF accountVars, LoginType, ScreenType, TasksType
<1> QED BY <1>3, <1>4, <1>5, <1>6, <1>7

LEMMA OtherAsking ==
    ASSUME AccountTypeOK, Asking(task),
           Logout \/ PlaceOrder \/ DeleteOrder \/ Relaunch \/ (\E n \in 1 .. MaxLogins : Expire(n)) \/ UNCHANGED accountVars
    PROVE  Asking(task')
<1>1. CASE Logout \/ PlaceOrder \/ DeleteOrder \/ (\E n \in 1 .. MaxLogins : Expire(n)) \/ UNCHANGED accountVars
  BY <1>1 DEF Logout, PlaceOrder, DeleteOrder, Expire, accountVars
<1>2. CASE Relaunch
  <2>1. \A r \in Slots : task'[r] = Idle
    BY <1>2 DEF Relaunch
  <2> QED BY <2>1 DEF Asking, Asks, Idle
<1> QED BY <1>1, <1>2

\* Every step is one of three groups.
LEMMA NextGroups ==
    ASSUME [AccountNext]_accountVars
    PROVE  \/ \/ ShowProfile \/ LeaveProfile \/ GoOrders \/ PullList \/ OnReachBottom
              \/ GoDetail \/ PullDetail \/ BackToList \/ BackToProfile
              \/ \E kind \in {"list", "detail"} : PayNow(kind)
           \/ \E s \in Slots : Continuation(s)
           \/ Logout \/ PlaceOrder \/ DeleteOrder \/ Relaunch \/ (\E n \in 1 .. MaxLogins : Expire(n)) \/ UNCHANGED accountVars
BY DEF AccountNext

MiniInv == AccountTypeOK /\ Asking(task)

LEMMA NextMini == MiniInv /\ [AccountNext]_accountVars => MiniInv'
<1> SUFFICES ASSUME AccountTypeOK, Asking(task), [AccountNext]_accountVars PROVE AccountTypeOK' /\ Asking(task')
  BY DEF MiniInv
<1> QED BY NextGroups, ScreenStepType, ContinuationType, OtherType, ScreenStepAsking, ContinuationAsking, OtherAsking

LEMMA InitMini == AccountInit => MiniInv
<1> SUFFICES ASSUME AccountInit PROVE MiniInv
  OBVIOUS
<1>1. NoLogin \in Session /\ Idle \in Handler
  BY Zeros, IdleHandler DEF NoLogin, Session
<1>2. LoginType /\ orders \in 0 .. MaxOrders
  BY <1>1, MiniAccountAssumption DEF AccountInit, LoginType
<1>3. [loggedIn |-> FALSE, loading |-> FALSE] \in Profile
  BY DEF Profile
<1>4. ScreenType
  BY <1>3, EmptyListType, NoDetailType DEF AccountInit, ScreenType, Pages
<1>5. TasksType
  BY <1>1 DEF AccountInit, TasksType
<1>6. Asking(task)
  BY DEF AccountInit, Asking, Asks, Idle
<1> QED BY <1>2, <1>4, <1>5, <1>6, TypeParts DEF MiniInv

LEMMA MiniAlways == AccountSpec => []MiniInv
BY InitMini, NextMini, PTL DEF AccountSpec

\* The login, the pages and what the handlers wait for are always of their
\* types; a page of the list that is asked for has a number.
THEOREM AccountTypeCorrect == AccountSpec => []AccountTypeOK
<1>1. MiniInv => AccountTypeOK
  BY DEF MiniInv
<1> QED BY <1>1, MiniAlways, PTL

-----------------------------------------------------------------------------
(* The login in memory and in storage.                                     *)

LEMMA NextSession == AccountTypeOK /\ SessionAgrees /\ [AccountNext]_accountVars => SessionAgrees'
<1> SUFFICES ASSUME AccountTypeOK, SessionAgrees, [AccountNext]_accountVars PROVE SessionAgrees'
  OBVIOUS
<1>1. memory \in Session /\ disk \in Session /\ issued \in Nat
  BY TypeParts, MiniAccountAssumption DEF LoginType
<1>2. ASSUME UNCHANGED <<memory, disk>> PROVE SessionAgrees'
  BY <1>2 DEF SessionAgrees
<1>3. ASSUME memory' = NoLogin, disk' = NoLogin PROVE SessionAgrees'
  BY <1>3 DEF SessionAgrees, NoLogin
<1>4. CASE \/ ShowProfile \/ LeaveProfile \/ GoOrders \/ PullList \/ OnReachBottom
           \/ GoDetail \/ PullDetail \/ BackToList \/ BackToProfile
           \/ \E kind \in {"list", "detail"} : PayNow(kind)
  BY <1>2, <1>4 DEF ShowProfile, LeaveProfile, GoOrders, PullList, OnReachBottom, GoDetail, PullDetail,
           BackToList, BackToProfile, PayNow, Account
<1>5. ASSUME NEW s \in Slots, Continuation(s) PROVE SessionAgrees'
  <2>1. CASE LoginArrives(s)
    BY <1>1, <2>1 DEF LoginArrives, LoginOf, SessionAgrees
  <2>2. CASE Unauthorized(s)
    BY <1>3, <2>2 DEF Unauthorized, LogoutOnDisk
  <2>3. CASE Fails(s) \/ Serve(s) \/ ListArrives(s) \/ PrepayArrives(s) \/ Paid(s)
               \/ \E status \in {"pending", "paid"} : DetailArrives(s, status)
    BY <1>2, <2>3 DEF Fails, Serve, ListArrives, PrepayArrives, Paid, DetailArrives, Account
  <2> QED BY <1>5, <2>1, <2>2, <2>3 DEF Continuation
<1>6. CASE Logout
  BY <1>3, <1>6 DEF Logout, LogoutOnDisk
<1>7. CASE Relaunch
  <2>1. PICK d \in Killed : disk' = d /\ memory' = Restored(d)
    BY <1>7 DEF Relaunch
  <2>2. CASE d.token # 0 /\ d.user # 0
    BY <2>1, <2>2 DEF Restored, SessionAgrees
  <2>3. CASE d.token = 0 \/ d.user = 0
    BY <2>1, <2>3 DEF Restored, SessionAgrees, NoLogin
  <2> QED BY <2>2, <2>3
<1>8. CASE PlaceOrder \/ DeleteOrder \/ (\E n \in 1 .. MaxLogins : Expire(n)) \/ UNCHANGED accountVars
  BY <1>2, <1>8 DEF PlaceOrder, DeleteOrder, Expire, accountVars, Account
<1> QED BY NextGroups, <1>4, <1>5, <1>6, <1>7, <1>8

\* The login of the running app and the one that a restart would find are the
\* same, after any order of silent logins, logouts, refusals and kills between
\* the two writes to storage: ensureLogin writes both, logout and the 401
\* branch of request remove both, and onLaunch wants both.
THEOREM SessionsAgree == AccountSpec => []SessionAgrees
<1>1. AccountInit => SessionAgrees
  BY DEF AccountInit, NoLogin, SessionAgrees
<1> QED BY <1>1, NextSession, AccountTypeCorrect, PTL DEF AccountSpec

-----------------------------------------------------------------------------
(* The list of orders.                                                     *)

\* A load of the list that is open, and the slots that hold one.
IsLoad(t) == t.kind = "list" /\ ~t.gone
LoadsOf(ts) == {s \in Slots : IsLoad(ts[s])}

\* The newest of o orders, as many as k pages hold.
Newest(items, k, o) ==
    /\ Len(items) = IF o < k * PageSize THEN o ELSE k * PageSize
    /\ \A i \in 1 .. Len(items) : items[i] = o + 1 - i

\* What a load that is under way will do to the list l.
Joins(t, l, o) ==
    /\ t.replace => l.page = 1
    /\ ~t.replace => l.page > 1 /\ Newest(l.orders, l.page - 1, o)
    /\ t.phase # "login" => t.page = l.page
    /\ t.phase = "answer" => t.total = o
    /\ t.phase # "dialog"

\* One load at most is under way; it adds the page it will be, and without it
\* the pages are all there.
OneLoad(ts, l, o) ==
    /\ \A r, s \in LoadsOf(ts) : r = s
    /\ LoadsOf(ts) # {} => l.loading
    /\ LoadsOf(ts) = {} => Newest(l.orders, l.page, o)
    /\ \A s \in LoadsOf(ts) : Joins(ts[s], l, o)

\* Below the list nothing is left of it but handlers without a page.
Listed(t) == t.kind \in {"list", "pay list"} => t.gone
Alone(ts, at) == at \in {"home", "profile"} => \A s \in Slots : Listed(ts[s])

ListInv ==
    /\ Alone(task, page)
    /\ ~mixed /\ page \in {"list", "detail"} => OneLoad(task, list, orders)

LEMMA LoadsAre == Loads("list") = LoadsOf(task)
BY DEF Loads, LoadsOf, IsLoad

\* Another handler changes.
LEMMA OneLoadStays ==
    ASSUME NEW ts \in [Slots -> Handler], NEW s \in Slots, NEW u, ~IsLoad(ts[s]), ~IsLoad(u),
           NEW l, NEW o, OneLoad(ts, l, o)
    PROVE  OneLoad([ts EXCEPT ![s] = u], l, o)
<1> DEFINE us == [ts EXCEPT ![s] = u]
<1>1. LoadsOf(us) = LoadsOf(ts) /\ \A r \in LoadsOf(ts) : us[r] = ts[r]
  BY DEF LoadsOf
<1> HIDE DEF us
<1>2. OneLoad(us, l, o)
  BY <1>1 DEF OneLoad
<1> QED BY <1>2 DEF us

\* A load begins when there is none.
LEMMA LoadBegins ==
    ASSUME NEW ts \in [Slots -> Handler], NEW s \in Slots, NEW u, LoadsOf(ts) = {}, IsLoad(u),
           NEW l, NEW o, l.loading, Joins(u, l, o)
    PROVE  OneLoad([ts EXCEPT ![s] = u], l, o)
<1> DEFINE us == [ts EXCEPT ![s] = u]
<1>1. LoadsOf(us) = {s} /\ us[s] = u
  BY DEF LoadsOf
<1> HIDE DEF us
<1>2. OneLoad(us, l, o)
  BY <1>1 DEF OneLoad
<1> QED BY <1>2 DEF us

\* The load goes on.
LEMMA LoadMoves ==
    ASSUME NEW ts \in [Slots -> Handler], NEW s \in Slots, NEW u, IsLoad(ts[s]), IsLoad(u),
           NEW l, NEW o, OneLoad(ts, l, o), Joins(ts[s], l, o) => Joins(u, l, o)
    PROVE  OneLoad([ts EXCEPT ![s] = u], l, o)
<1> DEFINE us == [ts EXCEPT ![s] = u]
<1>1. LoadsOf(us) = LoadsOf(ts) /\ s \in LoadsOf(ts) /\ us[s] = u
  BY DEF LoadsOf
<1>2. Joins(ts[s], l, o)
  BY <1>1 DEF OneLoad
<1> HIDE DEF us
<1>3. OneLoad(us, l, o)
  BY <1>1, <1>2 DEF OneLoad
<1> QED BY <1>3 DEF us

\* The load is done.
LEMMA LoadIsDone ==
    ASSUME NEW ts \in [Slots -> Handler], NEW s \in Slots, NEW u, IsLoad(ts[s]), ~IsLoad(u),
           NEW l, NEW m, NEW o, OneLoad(ts, l, o), Newest(m.orders, m.page, o)
    PROVE  OneLoad([ts EXCEPT ![s] = u], m, o)
<1> DEFINE us == [ts EXCEPT ![s] = u]
<1>1. \A r \in LoadsOf(ts) : r = s
  BY DEF OneLoad, LoadsOf
<1>2. LoadsOf(us) = {}
  BY <1>1 DEF LoadsOf
<1> HIDE DEF us
<1>3. OneLoad(us, m, o)
  BY <1>2 DEF OneLoad
<1> QED BY <1>3 DEF us

\* The first page alone, and the next page after the ones that are there.
LEMMA FirstPage ==
    ASSUME NEW o \in 0 .. MaxOrders
    PROVE  Newest(Slice(o, 1), 1, o)
<1>1. /\ Len(Slice(o, 1)) = IF o <= (1 - 1) * PageSize THEN 0
                            ELSE IF o - (1 - 1) * PageSize < PageSize THEN o - (1 - 1) * PageSize ELSE PageSize
      /\ \A i \in 1 .. Len(Slice(o, 1)) : Slice(o, 1)[i] = o + 1 - ((1 - 1) * PageSize + i)
  BY SliceType, Zeros
<1>2. (1 - 1) * PageSize = 0 /\ 1 * PageSize = PageSize /\ PageSize \in Nat \ {0} /\ o \in Nat
  BY MiniAccountAssumption
<1>3. Slice(o, 1) \in Seq(1 .. MaxOrders)
  BY SliceType, Zeros
<1>4. Len(Slice(o, 1)) \in Nat
  BY <1>3
<1> QED BY <1>1, <1>2, <1>4 DEF Newest

LEMMA NextPage ==
    ASSUME NEW o \in 0 .. MaxOrders, NEW p \in 1 .. MaxPage,
           NEW items \in Seq(1 .. MaxOrders), Newest(items, p - 1, o)
    PROVE  Newest(items \o Slice(o, p), p, o)
<1> DEFINE first == (p - 1) * PageSize
           got == Slice(o, p)
<1>1. PageSize \in Nat \ {0} /\ o \in Nat /\ p \in Nat /\ first \in Nat /\ p * PageSize = first + PageSize
  BY MiniAccountAssumption
<1>2. /\ got \in Seq(1 .. MaxOrders)
      /\ Len(got) = IF o <= first THEN 0 ELSE IF o - first < PageSize THEN o - first ELSE PageSize
      /\ \A i \in 1 .. Len(got) : got[i] = o + 1 - (first + i)
  BY SliceType
<1>3. /\ Len(items) = IF o < first THEN o ELSE first
      /\ \A i \in 1 .. Len(items) : items[i] = o + 1 - i
  BY DEF Newest
<1> HIDE DEF first, got
<1>4. /\ Len(items \o got) = Len(items) + Len(got)
      /\ Len(items) \in Nat /\ Len(got) \in Nat
      /\ \A i \in 1 .. Len(items) : (items \o got)[i] = items[i]
      /\ \A i \in 1 .. Len(got) : (items \o got)[Len(items) + i] = got[i]
  BY <1>2, Joined
<1>5. Len(items \o got) = IF o < p * PageSize THEN o ELSE p * PageSize
  BY <1>1, <1>2, <1>3, <1>4
<1>6. ASSUME NEW i \in 1 .. Len(items \o got) PROVE (items \o got)[i] = o + 1 - i
  <2>1. CASE i <= Len(items)
    BY <1>3, <1>4, <2>1
  <2>2. CASE i > Len(items)
    <3> DEFINE j == i - Len(items)
    <3>1. j \in 1 .. Len(got) /\ i = Len(items) + j
      BY <1>4, <2>2
    <3>2. Len(items) = first
      BY <1>1, <1>2, <1>3, <3>1
    <3> HIDE DEF j
    <3>3. (items \o got)[i] = got[j]
      BY <1>4, <3>1
    <3>4. got[j] = o + 1 - (first + j)
      BY <1>2, <3>1
    <3> QED BY <1>1, <3>1, <3>2, <3>3, <3>4
  <2> QED BY <1>4, <2>1, <2>2
<1> QED BY <1>5, <1>6 DEF Newest, got

\* The first load of the list, and another.
LEMMA FirstLoad ==
    ASSUME AccountTypeOK
    PROVE  LET u == Started(Task("list", TRUE), 1) IN
           IsLoad(u) /\ u.replace /\ u.phase \notin {"answer", "dialog"} /\ (u.phase # "login" => u.page = 1)
<1>1. "list" \in Kinds /\ 1 \in 0 .. MaxPage
  BY Zeros DEF Kinds
<1>2. \A b \in BOOLEAN : LET u == Started(Task("list", b), 1) IN
        /\ u.kind = "list" /\ u.replace = b /\ ~u.gone
        /\ (u.phase = "login" /\ u.page = 0) \/ (u.phase = "call" /\ u.page = 1)
  BY <1>1, StartedHandler
<1> DEFINE u == Started(Task("list", TRUE), 1)
<1>3. u.kind = "list" /\ u.replace = TRUE /\ ~u.gone /\ (u.phase = "login" \/ (u.phase = "call" /\ u.page = 1))
  BY <1>2
<1> HIDE DEF u
<1>4. IsLoad(u) /\ u.replace /\ u.phase \notin {"answer", "dialog"} /\ (u.phase # "login" => u.page = 1)
  BY <1>3 DEF IsLoad
<1> QED BY <1>4 DEF u

\* A reload that overtakes no load.
LEMMA ReloadOne ==
    ASSUME AccountTypeOK, NEW ts \in [Slots -> Handler], NEW s \in Slots, LoadsOf(ts) = {}, NEW o
    PROVE  OneLoad([ts EXCEPT ![s] = Started(Task("list", TRUE), 1)], Reloaded(list), o)
<1>1. list \in List
  BY TypeParts DEF ScreenType
<1> DEFINE u == Started(Task("list", TRUE), 1)
           l == Reloaded(list)
<1>2. l.page = 1 /\ l.loading = TRUE
  BY <1>1, ReloadedList
<1>3. IsLoad(u) /\ u.replace /\ u.phase \notin {"answer", "dialog"} /\ (u.phase # "login" => u.page = 1)
  BY FirstLoad
<1> HIDE DEF u, l
<1>4. Joins(u, l, o)
  BY <1>2, <1>3 DEF Joins
<1>5. OneLoad([ts EXCEPT ![s] = u], l, o)
  BY <1>2, <1>3, <1>4, LoadBegins
<1> QED BY <1>5 DEF u, l

\* Handlers without a part in the list.
LEMMA OtherKinds ==
    ASSUME AccountTypeOK, NEW kind \in Kinds \ {"list"}, NEW n \in 0 .. MaxPage
    PROVE  ~IsLoad(Started(Task(kind, FALSE), n))
<1> DEFINE start == Started(Task(kind, FALSE), n)
<1>1. \A k \in Kinds, b \in BOOLEAN : LET t == Started(Task(k, b), n) IN t.kind = k
  BY StartedHandler
<1>2. start.kind = kind
  BY <1>1
<1> QED BY <1>2 DEF IsLoad

LEMMA NotLoads == ~IsLoad(Idle) /\ ~IsLoad(Task("profile", FALSE)) /\ Listed(Idle) /\ Listed(Task("profile", FALSE))
BY DEF IsLoad, Listed, Idle, Task

LEMMA ListedOne ==
    ASSUME NEW ts \in [Slots -> Handler], NEW s \in Slots, NEW u, Listed(u), \A r \in Slots : Listed(ts[r])
    PROVE  \A r \in Slots : Listed([ts EXCEPT ![s] = u][r])
<1> HIDE DEF Listed
<1> QED OBVIOUS

LEMMA ScreenStepList ==
    ASSUME AccountTypeOK, ListInv,
           \/ ShowProfile \/ LeaveProfile \/ GoOrders \/ PullList \/ OnReachBottom
           \/ GoDetail \/ PullDetail \/ BackToList \/ BackToProfile
           \/ \E kind \in {"list", "detail"} : PayNow(kind)
    PROVE  ListInv'
<1>1. task \in [Slots -> Handler] /\ list \in List
  BY TypeParts DEF ScreenType, TasksType
<1>2. ASSUME page' \in {"list", "detail"}, ~mixed' => OneLoad(task', list', orders') PROVE ListInv'
  BY <1>2 DEF ListInv, Alone
<1>3. ASSUME page' \in {"home", "profile"}, \A r \in Slots : Listed(task'[r]) PROVE ListInv'
  BY <1>3 DEF ListInv, Alone
<1>4. page \in {"list", "detail"} /\ ~mixed => OneLoad(task, list, orders)
  BY DEF ListInv
<1>5. page \in {"home", "profile"} => \A r \in Slots : Listed(task[r])
  BY DEF ListInv, Alone
<1>6. ASSUME NEW ts \in [Slots -> Handler], \A r \in Slots : Listed(ts[r]), RefreshUser(ts)
      PROVE  \A r \in Slots : Listed(task'[r])
  <2>1. task' = ts \/ (HasSlot(ts) /\ task' = [ts EXCEPT ![Slot(ts)] = Task("profile", FALSE)])
    BY <1>6 DEF RefreshUser
  <2> QED BY <1>6, <2>1, NotLoads, FreeSlot, ListedOne
<1>7. ASSUME NEW ts \in [Slots -> Handler], LoadsOf(ts) = LoadsOf(task), Reload(ts)
      PROVE  ~mixed' => OneLoad(task', list', orders)
  <2>1. /\ Slot(ts) \in Slots /\ list' = Reloaded(list)
        /\ task' = [ts EXCEPT ![Slot(ts)] = Started(Task("list", TRUE), 1)]
    BY <1>7, FreeSlot DEF Reload, Reloaded
  <2>2. ~mixed' => LoadsOf(ts) = {}
    BY <1>7, LoadsAre DEF Reload
  <2> QED BY <1>7, <2>1, <2>2, ReloadOne
<1>8. ASSUME NEW u, ~IsLoad(u), HasSlot(task), ~mixed, page \in {"list", "detail"}
      PROVE  OneLoad([task EXCEPT ![Slot(task)] = u], list, orders)
  <2>1. Slot(task) \in Slots /\ ~IsLoad(task[Slot(task)])
    BY <1>8, FreeSlot, NotLoads
  <2> QED BY <1>1, <1>4, <1>8, <2>1, OneLoadStays
<1>9. CASE ShowProfile
  BY <1>1, <1>3, <1>5, <1>6, <1>9 DEF ShowProfile
<1>10. CASE LeaveProfile
  BY <1>3, <1>5, <1>10 DEF LeaveProfile
<1>11. CASE GoOrders
  <2>1. LoadsOf(task) = {}
    BY <1>5, <1>11 DEF GoOrders, LoadsOf, IsLoad, Listed
  <2> DEFINE u == Started(Task("list", TRUE), 1)
             l == [EmptyList EXCEPT !.loading = TRUE]
  <2>2. l.page = 1 /\ l.loading = TRUE
    BY DEF EmptyList
  <2>3. IsLoad(u) /\ u.replace /\ u.phase \notin {"answer", "dialog"} /\ (u.phase # "login" => u.page = 1)
    BY FirstLoad
  <2>4. Slot(task) \in Slots /\ list' = l /\ task' = [task EXCEPT ![Slot(task)] = u] /\ page' = "list"
    BY <1>11, FreeSlot DEF GoOrders
  <2> HIDE DEF u, l
  <2>5. Joins(u, l, orders')
    BY <2>2, <2>3 DEF Joins
  <2>6. OneLoad(task', list', orders')
    BY <1>1, <2>1, <2>2, <2>3, <2>4, <2>5, LoadBegins
  <2> QED BY <1>2, <2>4, <2>6
<1>12. CASE PullList
  BY <1>1, <1>2, <1>7, <1>12 DEF PullList
<1>13. CASE OnReachBottom
  <2>1. page' = "list" /\ page = "list" /\ mixed' = mixed /\ orders' = orders
    BY <1>13 DEF OnReachBottom
  <2>2. ASSUME ~mixed PROVE OneLoad(task', list', orders')
    <3>1. ~list.loading /\ OneLoad(task, list, orders)
      BY <1>4, <1>13, <2>1, <2>2 DEF OnReachBottom, MayLoadMore
    <3>2. LoadsOf(task) = {} /\ Newest(list.orders, list.page, orders)
      BY <3>1 DEF OneLoad
    <3> DEFINE n == list.page + 1
               u == Started(Task("list", FALSE), n)
               l == [list EXCEPT !.page = n, !.loading = TRUE]
    <3>3. n \in 0 .. MaxPage /\ n - 1 = list.page /\ n > 1
      BY <1>1, <1>13, MiniAccountAssumption DEF OnReachBottom, List
    <3>4. l.page = n /\ l.loading = TRUE /\ l.orders = list.orders
      BY <1>1 DEF List
    <3>5. u.kind = "list" /\ u.replace = FALSE /\ ~u.gone /\ (u.phase = "login" \/ (u.phase = "call" /\ u.page = n))
      <4>1. "list" \in Kinds
        BY DEF Kinds
      <4>2. \A b \in BOOLEAN : LET v == Started(Task("list", b), n) IN
              /\ v.kind = "list" /\ v.replace = b /\ ~v.gone
              /\ (v.phase = "login" /\ v.page = 0) \/ (v.phase = "call" /\ v.page = n)
        <5> HIDE DEF n
        <5> QED BY <3>3, <4>1, StartedHandler
      <4> QED BY <4>2
    <3>6. Slot(task) \in Slots /\ list' = l /\ task' = [task EXCEPT ![Slot(task)] = u]
      BY <1>13, FreeSlot DEF OnReachBottom
    <3> HIDE DEF u, l, n
    <3>7. Joins(u, l, orders) /\ IsLoad(u)
      BY <3>2, <3>3, <3>4, <3>5 DEF Joins, IsLoad
    <3> QED BY <1>1, <2>1, <3>2, <3>4, <3>6, <3>7, LoadBegins
  <2> QED BY <1>2, <2>1, <2>2
<1>14. CASE GoDetail \/ PullDetail
  <2>1. ~IsLoad(Started(Task("detail", FALSE), 0))
    BY OtherKinds, Zeros DEF Kinds
  <2>2. /\ HasSlot(task) /\ task' = [task EXCEPT ![Slot(task)] = Started(Task("detail", FALSE), 0)]
        /\ list' = list /\ orders' = orders /\ mixed' = mixed
        /\ page \in {"list", "detail"} /\ page' = "detail"
    BY <1>14 DEF GoDetail, PullDetail
  <2>3. "detail" \in Kinds \ {"list"}
    BY DEF Kinds
  <2> QED BY <1>2, <1>8, <2>1, <2>2, <2>3
<1>15. CASE BackToList
  <2>1. LoadsOf(Closed("detail")) = LoadsOf(task)
    <3>1. \A r \in Slots : task[r].kind \notin {"detail", "pay detail"} => Closed("detail")[r] = task[r]
      BY ClosedHandlers DEF PayOn
    <3>2. \A r \in Slots : task[r].kind \in {"detail", "pay detail"} => Closed("detail")[r].kind = task[r].kind
      BY ClosedHandlers DEF PayOn
    <3>3. \A r \in Slots : IsLoad(Closed("detail")[r]) <=> IsLoad(task[r])
      BY <3>1, <3>2 DEF IsLoad
    <3> QED BY <3>3 DEF LoadsOf
  <2>2. Closed("detail") \in [Slots -> Handler]
    BY ClosedHandlers
  <2> QED BY <1>2, <1>7, <1>15, <2>1, <2>2 DEF BackToList
<1>16. CASE BackToProfile
  <2>1. \A r \in Slots : Listed(Closed("list")[r])
    <3>1. \A r \in Slots : task[r].kind \notin {"list", "pay list"} => Closed("list")[r] = task[r]
      BY ClosedHandlers DEF PayOn
    <3>2. \A r \in Slots : task[r].kind \in {"list", "pay list"} => Closed("list")[r].gone = TRUE
      BY ClosedHandlers DEF PayOn
    <3> QED BY <3>1, <3>2 DEF Listed
  <2>2. Closed("list") \in [Slots -> Handler]
    BY ClosedHandlers
  <2> QED BY <1>3, <1>6, <1>16, <2>1, <2>2 DEF BackToProfile
<1>17. ASSUME NEW kind \in {"list", "detail"}, PayNow(kind) PROVE ListInv'
  <2>1. PayOn(kind) \in Kinds \ {"list"}
    BY DEF PayOn, Kinds
  <2> DEFINE u == Started(Task(PayOn(kind), FALSE), 0)
  <2>2. ~IsLoad(u)
    BY <2>1, OtherKinds, Zeros
  <2>3. /\ HasSlot(task) /\ task' = [task EXCEPT ![Slot(task)] = u]
        /\ list' = list /\ orders' = orders /\ mixed' = mixed
        /\ page \in {"list", "detail"} /\ page' = page
    BY <1>17 DEF PayNow
  <2> HIDE DEF u
  <2> QED BY <1>2, <1>8, <2>1, <2>2, <2>3
<1> QED BY <1>9, <1>10, <1>11, <1>12, <1>13, <1>14, <1>15, <1>16, <1>17

\* A request of a handler goes out, or is answered; what it is for stays.
LEMMA SameErrand ==
    ASSUME NEW t, NEW u, u.kind = t.kind, u.gone = t.gone
    PROVE  (IsLoad(u) <=> IsLoad(t)) /\ (Listed(u) <=> Listed(t))
BY DEF IsLoad, Listed

LEMMA ContinuationList ==
    ASSUME AccountTypeOK, Asking(task), ListInv, NEW s \in Slots, Continuation(s)
    PROVE  ListInv'
<1>1. task \in [Slots -> Handler] /\ list \in List /\ task[s] \in Handler /\ orders \in 0 .. MaxOrders
  BY TypeParts DEF ScreenType, TasksType
<1>2. Alone(task, page) /\ (~mixed /\ page \in {"list", "detail"} => OneLoad(task, list, orders))
  BY DEF ListInv
<1>3. page' = page /\ orders' = orders
  BY DEF Continuation, LoginArrives, Fails, Serve, Unauthorized, ListArrives, PrepayArrives, Paid, DetailArrives,
         Server, Account
<1>4. ASSUME NEW u, task' = [task EXCEPT ![s] = u], Listed(task[s]) => Listed(u) PROVE Alone(task', page')
  <2>1. ASSUME NEW r \in Slots, Listed(task[r]) PROVE Listed(task'[r])
    <3> HIDE DEF Listed
    <3> QED BY <1>1, <1>4, <2>1
  <2> QED BY <1>2, <1>3, <2>1 DEF Alone
<1>5. ASSUME NEW u, task' = [task EXCEPT ![s] = u], Listed(task[s]) => Listed(u),
             ~mixed' /\ page \in {"list", "detail"} => OneLoad(task', list', orders)
      PROVE  ListInv'
  BY <1>3, <1>4, <1>5 DEF ListInv
<1>6. ASSUME NEW u, task' = [task EXCEPT ![s] = u], Listed(task[s]) => Listed(u), ~IsLoad(task[s]), ~IsLoad(u),
             list' = list, mixed' = mixed
      PROVE  ListInv'
  BY <1>1, <1>2, <1>5, <1>6, OneLoadStays
<1>7. ASSUME NEW u, task' = [task EXCEPT ![s] = u], u.kind = task[s].kind, u.gone = task[s].gone,
             IsLoad(task[s]) /\ Joins(task[s], list, orders) => Joins(u, list, orders),
             list' = list, mixed' = mixed
      PROVE  ListInv'
  <2>1. (IsLoad(u) <=> IsLoad(task[s])) /\ (Listed(u) <=> Listed(task[s]))
    BY <1>7, SameErrand
  <2>2. CASE IsLoad(task[s])
    BY <1>1, <1>2, <1>5, <1>7, <2>1, <2>2, LoadMoves
  <2>3. CASE ~IsLoad(task[s])
    BY <1>6, <1>7, <2>1, <2>3
  <2> QED BY <2>2, <2>3
<1>8. ASSUME Failed(task[s]), task' = [task EXCEPT ![s] = Idle] PROVE ListInv'
  <2>1. CASE IsLoad(task[s])
    <3>1. mixed' = TRUE
      BY <1>8, <2>1 DEF Failed, IsLoad
    <3> QED BY <1>5, <1>8, <3>1, NotLoads
  <2>2. CASE ~IsLoad(task[s])
    <3>1. list' = list
      BY <1>8, <2>2 DEF Failed, IsLoad
    <3>2. mixed' <=> mixed
      BY <1>8, <2>2 DEF Failed, IsLoad
    <3> QED BY <1>1, <1>2, <1>5, <1>8, <2>2, <3>1, <3>2, NotLoads, OneLoadStays
  <2> QED BY <2>1, <2>2
<1>9. CASE LoginArrives(s)
  <2>1. list' = list /\ mixed' = mixed
    BY <1>9 DEF LoginArrives
  <2>2. CASE task[s].kind = "profile"
    <3>1. task' = [task EXCEPT ![s] = Idle] /\ ~IsLoad(task[s])
      BY <1>9, <2>2 DEF LoginArrives, IsLoad
    <3> QED BY <1>6, <2>1, <3>1, NotLoads
  <2>3. CASE task[s].kind # "profile"
    <3> DEFINE n == IF task[s].kind = "list" /\ ~task[s].gone THEN list.page ELSE 0
               u == Sent(task[s], issued + 1, n)
    <3>1. n \in 0 .. MaxPage /\ issued + 1 \in 0 .. MaxLogins
      BY <1>1, <1>9, Zeros, TypeParts DEF List, LoginArrives, LoginType
    <3>2. task' = [task EXCEPT ![s] = u]
      BY <1>1, <1>9, <2>3 DEF LoginArrives
    <3>3. /\ u.kind = task[s].kind /\ u.gone = task[s].gone /\ u.replace = task[s].replace
          /\ u.phase = "call" /\ u.page = n
      <4> HIDE DEF n
      <4> QED BY <1>1, <3>1, SentHandler
    <3>4. IsLoad(task[s]) => n = list.page
      BY DEF IsLoad
    <3> HIDE DEF u, n
    <3>5. IsLoad(task[s]) /\ Joins(task[s], list, orders) => Joins(u, list, orders)
      BY <3>3, <3>4 DEF Joins
    <3> QED BY <1>7, <2>1, <3>2, <3>3, <3>5
  <2> QED BY <2>2, <2>3
<1>10. CASE Fails(s)
  BY <1>8, <1>10 DEF Fails
<1>11. CASE Unauthorized(s)
  BY <1>8, <1>11 DEF Unauthorized, Refused
<1>12. CASE Serve(s)
  <2> DEFINE phase == IF task[s].token \in live THEN "answer" ELSE "refusal"
             total == IF task[s].kind = "list" /\ ~task[s].gone THEN orders ELSE 0
             u == [[task[s] EXCEPT !.phase = phase] EXCEPT !.total = total]
  <2>1. task' = [task EXCEPT ![s] = u] /\ list' = list /\ mixed' = mixed
    BY <1>1, <1>12 DEF Serve
  <2>2. IsLoad(task[s]) => total = orders
    BY DEF IsLoad
  <2> HIDE DEF phase, total
  <2>3. u.kind = task[s].kind /\ u.gone = task[s].gone /\ u.page = task[s].page /\ u.total = total
    BY <1>1 DEF Handler
  <2>4. u.replace = task[s].replace
    BY <1>1 DEF Handler
  <2>5. task[s].phase = "call" /\ u.phase # "dialog"
    BY <1>1, <1>12 DEF Serve, Handler, phase
  <2> HIDE DEF u
  <2>6. IsLoad(task[s]) /\ Joins(task[s], list, orders) => Joins(u, list, orders)
    BY <2>2, <2>3, <2>4, <2>5 DEF Joins
  <2> QED BY <1>7, <2>1, <2>3, <2>6
<1>13. CASE ListArrives(s)
  <2>1. task' = [task EXCEPT ![s] = Idle] /\ mixed' = mixed /\ task[s].kind = "list" /\ task[s].phase = "answer"
    BY <1>13 DEF ListArrives
  <2>2. CASE task[s].gone
    <3>1. list' = list /\ ~IsLoad(task[s])
      BY <1>13, <2>2 DEF ListArrives, IsLoad
    <3> QED BY <1>6, <2>1, <3>1, NotLoads
  <2>3. CASE ~task[s].gone
    <3>1. IsLoad(task[s])
      BY <2>1, <2>3 DEF IsLoad
    <3> SUFFICES ASSUME ~mixed, page \in {"list", "detail"} PROVE OneLoad(task', list', orders)
      BY <1>5, <2>1, NotLoads
    <3>2. OneLoad(task, list, orders) /\ Joins(task[s], list, orders)
      BY <1>2, <3>1 DEF OneLoad, LoadsOf
    <3>3. task[s].page = list.page /\ task[s].total = orders
      BY <2>1, <3>2 DEF Joins
    <3> DEFINE got == Slice(orders, list.page)
               all == IF task[s].replace THEN got ELSE list.orders \o got
    <3>4. list' = [list EXCEPT !.orders = all, !.total = orders, !.loading = FALSE]
      BY <1>13, <2>3, <3>3 DEF ListArrives
    <3>5. list.page \in 1 .. MaxPage /\ list.orders \in Seq(1 .. MaxOrders)
      BY <1>1 DEF List
    <3>6. Newest(all, list.page, orders)
      <4>1. CASE task[s].replace
        <5>1. list.page = 1
          BY <3>2, <4>1 DEF Joins
        <5>2. all = Slice(orders, 1)
          BY <4>1, <5>1
        <5> QED BY <1>1, <5>1, <5>2, FirstPage
      <4>2. CASE ~task[s].replace
        <5>1. Newest(list.orders, list.page - 1, orders)
          BY <3>2, <4>2 DEF Joins
        <5>2. all = list.orders \o Slice(orders, list.page)
          BY <4>2
        <5> QED BY <1>1, <3>5, <5>1, <5>2, NextPage
      <4> QED BY <4>1, <4>2
    <3> HIDE DEF all
    <3>7. list'.orders = all /\ list'.page = list.page
      BY <1>1, <3>4 DEF List
    <3> QED BY <1>1, <2>1, <3>1, <3>2, <3>6, <3>7, NotLoads, LoadIsDone
  <2> QED BY <2>2, <2>3
<1>14. ASSUME NEW status \in {"pending", "paid"}, DetailArrives(s, status) PROVE ListInv'
  <2>1. task' = [task EXCEPT ![s] = Idle] /\ list' = list /\ mixed' = mixed /\ ~IsLoad(task[s])
    BY <1>14 DEF DetailArrives, IsLoad
  <2> QED BY <1>6, <2>1, NotLoads
<1>15. CASE PrepayArrives(s)
  <2> DEFINE u == [task[s] EXCEPT !.phase = "dialog"]
  <2>1. task' = [task EXCEPT ![s] = u] /\ list' = list /\ mixed' = mixed /\ ~IsLoad(task[s])
    BY <1>1, <1>15 DEF PrepayArrives, IsLoad
  <2>2. u.kind = task[s].kind /\ u.gone = task[s].gone
    BY <1>1 DEF Handler
  <2> HIDE DEF u
  <2> QED BY <1>7, <2>1, <2>2
<1>16. CASE Paid(s)
  <2> DEFINE t == task[s]
             again == t.kind = "pay list" /\ ~t.gone
             kind == IF t.kind = "pay list" THEN "list" ELSE "detail"
             n == IF again THEN 1 ELSE 0
             start == Started(Task(kind, again), n)
             u == [start EXCEPT !.gone = t.gone]
  <2>1. task' = [task EXCEPT ![s] = u]
    BY <1>16 DEF Paid
  <2>2. CASE again
    <3>1. kind = "list" /\ n = 1 /\ t.gone = FALSE
      BY <1>1, <2>2 DEF Handler
    <3>2. start = Started(Task("list", TRUE), 1)
      BY <2>2, <3>1
    <3>3. "list" \in Kinds /\ 1 \in 0 .. MaxPage
      BY Zeros DEF Kinds
    <3>4. \A b \in BOOLEAN : LET v == Started(Task("list", b), 1) IN v \in Handler /\ ~v.gone
      BY <3>3, StartedHandler
    <3>5. start \in Handler /\ ~start.gone
      BY <3>2, <3>4
    <3>6. u = start
      <4> HIDE DEF start
      <4> QED BY <3>1, <3>5 DEF Handler
    <3>7. list' = Reloaded(list) /\ (~mixed' => Loads("list") = {})
      BY <1>16, <2>2 DEF Paid, Reloaded
    <3>8. ~mixed' => OneLoad(task', list', orders)
      BY <1>1, <2>1, <3>2, <3>6, <3>7, LoadsAre, ReloadOne
    <3>9. Listed(task[s]) => Listed(u)
      BY <2>2 DEF Listed
    <3> QED BY <1>5, <2>1, <3>8, <3>9
  <2>3. CASE ~again
    <3>1. list' = list /\ mixed' = mixed
      BY <1>16, <2>3 DEF Paid
    <3>3. \A k \in Kinds, b \in BOOLEAN : LET v == Started(Task(k, b), 0) IN v \in Handler /\ v.kind = k
      BY StartedHandler, Zeros
    <3>4. kind \in Kinds /\ again \in BOOLEAN /\ n = 0
      BY <2>3 DEF Kinds
    <3>5. start \in Handler /\ start.kind = kind
      <4> HIDE DEF kind, again, n
      <4> QED BY <3>3, <3>4
    <3> HIDE DEF start
    <3>6. u.kind = kind /\ u.gone = t.gone
      BY <3>5 DEF Handler
    <3> HIDE DEF u
    <3>7. ~IsLoad(u) /\ (Listed(t) => Listed(u))
      BY <2>3, <3>6 DEF IsLoad, Listed
    <3>8. ~mixed /\ page \in {"list", "detail"} => ~IsLoad(t) /\ OneLoad(task, list, orders)
      BY <1>2, <1>16 DEF OneLoad, LoadsOf, Joins, Paid
    <3>9. ~mixed /\ page \in {"list", "detail"} => OneLoad([task EXCEPT ![s] = u], list, orders)
      BY <1>1, <3>7, <3>8, OneLoadStays
    <3>10. task' = [task EXCEPT ![s] = u]
      BY <2>1 DEF u, start
    <3> QED BY <1>5, <3>1, <3>7, <3>9, <3>10
  <2> QED BY <2>2, <2>3
<1> QED BY <1>9, <1>10, <1>11, <1>12, <1>13, <1>14, <1>15, <1>16 DEF Continuation

LEMMA OtherList ==
    ASSUME ListInv,
           Logout \/ PlaceOrder \/ DeleteOrder \/ Relaunch \/ (\E n \in 1 .. MaxLogins : Expire(n)) \/ UNCHANGED accountVars
    PROVE  ListInv'
<1>1. CASE Logout \/ (\E n \in 1 .. MaxLogins : Expire(n)) \/ UNCHANGED accountVars
  <2>1. UNCHANGED <<page, orders, list, task, mixed>>
    BY <1>1 DEF Logout, Expire, Server, accountVars
  <2> QED BY <2>1 DEF ListInv
<1>2. CASE PlaceOrder \/ DeleteOrder
  <2>1. mixed' = TRUE /\ page' = page /\ task' = task
    BY <1>2 DEF PlaceOrder, DeleteOrder
  <2> QED BY <2>1 DEF ListInv
<1>3. CASE Relaunch
  <2>1. page' = "home" /\ \A r \in Slots : task'[r] = Idle
    BY <1>3 DEF Relaunch
  <2> QED BY <2>1, NotLoads DEF ListInv, Alone
<1> QED BY <1>1, <1>2, <1>3

LEMMA NextList == MiniInv /\ ListInv /\ [AccountNext]_accountVars => ListInv'
<1> SUFFICES ASSUME AccountTypeOK, Asking(task), ListInv, [AccountNext]_accountVars PROVE ListInv'
  BY DEF MiniInv
<1> QED BY NextGroups, ScreenStepList, ContinuationList, OtherList

\* With no load under way the list shows the newest orders, without gap or
\* repetition and as many as the pages it asked for hold: onReachBottom waits
\* for the page before, reload starts again from page 1, and a load that ends
\* adds the page it asked for.  Pages that failed, reloads over a load and
\* orders placed or deleted since the list was last loaded from its start are
\* the exceptions, and only these.
THEOREM ListsArePages == AccountSpec => []ListIsPages
<1>1. AccountInit => ListInv
  BY NotLoads DEF AccountInit, ListInv, Alone
<1>2. ListInv => ListIsPages
  BY LoadsAre DEF ListInv, OneLoad, Newest, ListIsPages
<1> QED BY <1>1, <1>2, NextList, MiniAlways, PTL DEF AccountSpec
=============================================================================
