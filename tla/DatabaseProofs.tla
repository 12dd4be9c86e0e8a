---------------------------- MODULE DatabaseProofs --------------------------
(***************************************************************************)
(* Proofs about the two databases apart from the file store.  FLcode: for  *)
(* any telephone numbers, codes, workbooks, tokens and restarts.  Upgrade: *)
(* for any orders, welfare codes and notes, any number of scripts, failed  *)
(* statements and changes the shop makes meanwhile.                        *)
(***************************************************************************)
EXTENDS FLcode, Upgrade, FiniteSetTheorems, TLAPS

-----------------------------------------------------------------------------
(* FLcode: the rows a workbook adds.                                       *)

\* Ranks of the rows inserted: the ids that addCodesBatch gives them.
Before(f, i) == {j \in Inserted(f) : j < i}

LEMMA InsertedFinite ==
    ASSUME TypeOK, NEW f \in Files
    PROVE  /\ IsFiniteSet(Inserted(f)) /\ Inserted(f) \subseteq DOMAIN f
           /\ DOMAIN f \subseteq Nat
           /\ Cardinality(Inserted(f)) \in Nat
<1>1. f \in Seq(Row)
  BY FLcodeAssumption
<1>2. DOMAIN f = 1 .. Len(f) /\ Len(f) \in Nat
  BY <1>1
<1>3. IsFiniteSet(DOMAIN f)
  BY <1>2, FS_Interval
<1>4. Inserted(f) \subseteq DOMAIN f
  BY DEF Inserted, Valid
<1> QED BY <1>2, <1>3, <1>4, FS_Subset, FS_CardinalityType

LEMMA Ranks ==
    ASSUME TypeOK, NEW f \in Files, NEW i \in Inserted(f)
    PROVE  /\ Cardinality(Before(f, i)) \in Nat
           /\ Cardinality(Before(f, i)) < Cardinality(Inserted(f))
           /\ \A k \in Inserted(f) : k < i => Cardinality(Before(f, k)) < Cardinality(Before(f, i))
<1>1. IsFiniteSet(Inserted(f)) /\ Inserted(f) \subseteq Nat /\ Cardinality(Inserted(f)) \in Nat
  BY InsertedFinite
<1>2. Before(f, i) \subseteq Inserted(f) /\ i \notin Before(f, i)
  BY <1>1 DEF Before
<1>3. IsFiniteSet(Before(f, i)) /\ Cardinality(Before(f, i)) \in Nat
  BY <1>1, <1>2, FS_Subset, FS_CardinalityType
<1>4. Cardinality(Before(f, i)) <= Cardinality(Inserted(f))
      /\ Cardinality(Before(f, i)) # Cardinality(Inserted(f))
  BY <1>1, <1>2, FS_Subset
<1>5. ASSUME NEW k \in Inserted(f), k < i
      PROVE  Cardinality(Before(f, k)) < Cardinality(Before(f, i))
  <2>1. Before(f, k) \subseteq Before(f, i) /\ k \in Before(f, i) /\ k \notin Before(f, k)
    BY <1>1, <1>5 DEF Before
  <2>2. Cardinality(Before(f, k)) \in Nat
    BY <2>1, <1>3, FS_Subset, FS_CardinalityType
  <2>3. Cardinality(Before(f, k)) <= Cardinality(Before(f, i))
        /\ Cardinality(Before(f, k)) # Cardinality(Before(f, i))
    BY <2>1, <1>3, FS_Subset
  <2> QED BY <1>3, <2>2, <2>3
<1> QED BY <1>1, <1>3, <1>4, <1>5

\* The rows a workbook adds: one per number, with numbers that no row has, and
\* with different ids that no row ever had.
LEMMA NewRowsProperties ==
    ASSUME TypeOK, NEW f \in Files
    PROVE  /\ NewRows(f) \subseteq FlCode
           /\ \A r \in NewRows(f) : /\ r.phone \notin Used
                                    /\ r.id >= nextId /\ r.id < nextId + Cardinality(Inserted(f))
           /\ \A r, s \in NewRows(f) : r.phone = s.phone \/ r.id = s.id => r = s
<1> DEFINE R(i) == [id |-> NewId + Cardinality({j \in Inserted(f) : j < i}),
                    phone |-> f[i].phone, code |-> f[i].code, born |-> f[i].phone]
<1>1. NewRows(f) = {R(i) : i \in Inserted(f)}
  BY DEF NewRows
<1>2. \A i \in Inserted(f) : R(i).id = nextId + Cardinality(Before(f, i)) /\ R(i).phone = f[i].phone
  BY DEF NewId, Before
<1>3. \A i \in Inserted(f) : /\ i \in Nat /\ i \in DOMAIN f
                             /\ f[i].phone \notin Used /\ f[i].phone # Invalid
  BY InsertedFinite DEF Inserted, Valid
<1>4. \A i, j \in Inserted(f) : f[i].phone = f[j].phone => i = j
  <2>1. \A i, j \in Inserted(f) : j < i => f[i].phone # f[j].phone
    BY DEF Inserted
  <2> QED BY <2>1, <1>3
<1>5. nextId \in Nat /\ Cardinality(Inserted(f)) \in Nat
  BY InsertedFinite DEF TypeOK
<1>6. ASSUME NEW i \in Inserted(f) PROVE R(i) \in FlCode
  <2>1. f[i] \in Row /\ f[i].phone # Invalid
    BY <1>3, FLcodeAssumption
  <2>2. NewId + Cardinality({j \in Inserted(f) : j < i}) \in Nat
    BY <1>5, Ranks DEF NewId, Before
  <2> QED BY <2>1, <2>2 DEF Row, FlCode
<1> HIDE DEF R
<1>7. \A r \in NewRows(f) : \E i \in Inserted(f) : r = R(i)
  BY <1>1
<1>8. \A r \in NewRows(f) : /\ r.phone \notin Used
                            /\ r.id >= nextId /\ r.id < nextId + Cardinality(Inserted(f))
  <2> TAKE r \in NewRows(f)
  <2>1. PICK i \in Inserted(f) : r = R(i)
    BY <1>7
  <2>2. Cardinality(Before(f, i)) \in Nat /\ Cardinality(Before(f, i)) < Cardinality(Inserted(f))
    BY Ranks
  <2> QED BY <2>1, <2>2, <1>2, <1>3, <1>5
<1>9. ASSUME NEW r \in NewRows(f), NEW s \in NewRows(f), r.phone = s.phone \/ r.id = s.id
      PROVE  r = s
  <2>1. PICK i \in Inserted(f) : r = R(i)
    BY <1>7
  <2>2. PICK j \in Inserted(f) : s = R(j)
    BY <1>7
  <2>3. CASE r.phone = s.phone
    BY <2>1, <2>2, <2>3, <1>2, <1>4
  <2>4. CASE r.id = s.id
    <3>1. Cardinality(Before(f, i)) \in Nat /\ Cardinality(Before(f, j)) \in Nat
      BY Ranks
    <3>2. Cardinality(Before(f, i)) = Cardinality(Before(f, j))
      BY <2>1, <2>2, <2>4, <3>1, <1>2, <1>5
    <3>3. ~(i < j) /\ ~(j < i)
      BY <3>1, <3>2, Ranks
    <3> QED BY <2>1, <2>2, <3>3, <1>3
  <2> QED BY <1>9, <2>3, <2>4
<1> QED BY <1>1, <1>6, <1>8, <1>9

-----------------------------------------------------------------------------
(* FLcode: types.                                                          *)

\* What an accepted request does to the session.
LEMMA AuthorizedType ==
    ASSUME TypeOK, NEW t \in Tokens, NEW s, s = [sessions EXCEPT ![t] = clock + Ttl],
           NEW l, l = [lastUse EXCEPT ![t] = clock]
    PROVE  s \in [Tokens -> Nat] /\ l \in [Tokens -> Nat]
BY FLcodeAssumption DEF TypeOK

LEMMA NextType == TypeOK /\ [Next]_vars => TypeOK'
<1> SUFFICES ASSUME TypeOK, [Next]_vars PROVE TypeOK'
  OBVIOUS
<1> HIDE DEF FlCode
<1>1. ASSUME NEW t \in Tokens, Authorized(t), codes' \subseteq FlCode, seen' \subseteq FlCode,
             nextId' \in Nat, uploads' \subseteq Files,
             told' \subseteq [phone : Phones, code : CodeValues]
      PROVE  TypeOK'
  BY <1>1, AuthorizedType DEF Authorized, TypeOK
<1>2. ASSUME NEW t \in Tokens, NEW w \in Passwords, Login(t, w) \/ SetPassword(t, w) PROVE TypeOK'
  <2>1. sessions' \in [Tokens -> Nat] /\ lastUse' \in [Tokens -> Nat]
    BY <1>2, AuthorizedType DEF Login, SetPassword
  <2> QED BY <1>2, <2>1 DEF Login, SetPassword, table, TypeOK
<1>3. ASSUME NEW t \in Tokens, Refuse(t) \/ Logout(t) PROVE TypeOK'
  BY <1>3 DEF Refuse, Logout, table, TypeOK
<1>4. ASSUME NEW t \in Tokens, Verify(t) \/ ListCodes(t) \/ ClearCodes(t) PROVE TypeOK'
  BY <1>1, <1>4 DEF Verify, ListCodes, ClearCodes, Pages, table, TypeOK
<1>5. ASSUME NEW t \in Tokens, NEW p \in Phones, NEW c \in CodeValues, AddCode(t, p, c)
      PROVE  TypeOK'
  <2>1. [id |-> NewId, phone |-> p, code |-> c, born |-> p] \in FlCode
    BY DEF FlCode, NewId, TypeOK
  <2> QED BY <1>1, <1>5, <2>1 DEF AddCode, TypeOK
<1>6. ASSUME NEW t \in Tokens, NEW p \in Phones, NEW c \in CodeValues, NEW id, UpdateCode(t, id, p, c)
      PROVE  TypeOK'
  <2>1. PICK r \in codes : /\ codes' = (codes \ {r}) \cup {[r EXCEPT !.phone = p, !.code = c]}
                           /\ told' = told \ Forgotten({r.phone, p})
    BY <1>6 DEF UpdateCode
  <2>2. [r EXCEPT !.phone = p, !.code = c] \in FlCode
    BY DEF FlCode, TypeOK
  <2>3. codes' \subseteq FlCode /\ told' \subseteq told
    BY <2>1, <2>2 DEF TypeOK
  <2> QED BY <1>1, <1>6, <2>3 DEF UpdateCode, TypeOK
<1>7. ASSUME NEW t \in Tokens, NEW id, DeleteCode(t, id) PROVE TypeOK'
  <2>1. codes' \subseteq codes /\ told' \subseteq told
    BY <1>7 DEF DeleteCode
  <2> QED BY <1>1, <1>7, <2>1 DEF DeleteCode, TypeOK
<1>8. ASSUME NEW t \in Tokens, NEW f \in Files, Upload(t, f) PROVE TypeOK'
  BY <1>1, <1>8 DEF Upload, table, TypeOK
<1>9. ASSUME NEW f \in Files, UploadDone(f) PROVE TypeOK'
  <2>1. NewRows(f) \subseteq FlCode /\ Cardinality(Inserted(f)) \in Nat
    BY NewRowsProperties, InsertedFinite
  <2> QED BY <1>9, <2>1 DEF UploadDone, auth, TypeOK
<1>10. ASSUME NEW f \in Files, UploadFails(f) PROVE TypeOK'
  BY <1>10 DEF UploadFails, table, auth, TypeOK
<1>11. ASSUME NEW p \in Phones, Claim(p) PROVE TypeOK'
  <2>1. PICK r \in codes : told' = told \cup {[phone |-> p, code |-> r.code]}
    BY <1>11 DEF Claim
  <2>2. [phone |-> p, code |-> r.code] \in [phone : Phones, code : CodeValues]
    BY DEF TypeOK, FlCode
  <2> QED BY <1>11, <2>1, <2>2 DEF Claim, table, auth, TypeOK
<1>12. CASE Tick \/ Restart \/ UNCHANGED vars
  BY <1>12 DEF Tick, Restart, Restarted, vars, table, auth, TypeOK
<1> QED
  BY <1>2, <1>3, <1>4, <1>5, <1>6, <1>7, <1>8, <1>9, <1>10, <1>11, <1>12 DEF Next

\* The tables, the sessions and what people and administrators were shown always
\* have their types.
THEOREM FLcodeTypeCorrect == Spec => []TypeOK
<1>1. Init => TypeOK
  BY FLcodeAssumption DEF Init, TypeOK
<1> QED BY <1>1, NextType, PTL DEF Spec

-----------------------------------------------------------------------------
(* FLcode: the password and the sessions.                                  *)

\* Every request behind authMiddleware renews the session, whatever else it does.
LEMMA Requests ==
    ASSUME NEW t \in Tokens,
           \/ Verify(t) \/ ListCodes(t) \/ ClearCodes(t)
           \/ \E p \in Phones, c \in CodeValues :
                AddCode(t, p, c) \/ \E s \in seen : UpdateCode(t, s.id, p, c)
           \/ \E s \in seen : DeleteCode(t, s.id)
           \/ \E f \in Files : Upload(t, f)
    PROVE  Authorized(t)
BY DEF Verify, ListCodes, ClearCodes, AddCode, UpdateCode, DeleteCode, Upload

\* The password is the one set last: initDB inserts the default only where
\* there is none.
THEOREM PasswordKept == Spec => []PasswordStays
<1>1. Init => PasswordStays
  BY DEF Init, PasswordStays
<1>2. PasswordStays /\ [Next]_vars => PasswordStays'
  <2> SUFFICES ASSUME PasswordStays, [Next]_vars PROVE PasswordStays'
    OBVIOUS
  <2>1. ASSUME NEW t \in Tokens, Authorized(t) PROVE PasswordStays'
    BY <2>1 DEF Authorized, PasswordStays
  <2>2. ASSUME NEW t \in Tokens, NEW w \in Passwords, Login(t, w) \/ SetPassword(t, w)
        PROVE  PasswordStays'
    BY <2>2 DEF Login, SetPassword, PasswordStays
  <2>3. ASSUME \/ \E f \in Files : UploadDone(f) \/ UploadFails(f)
               \/ \E p \in Phones : Claim(p)
               \/ \E t \in Tokens : Refuse(t) \/ Logout(t)
               \/ Tick \/ Restart \/ UNCHANGED vars
        PROVE  PasswordStays'
    BY <2>3 DEF UploadDone, UploadFails, Claim, Refuse, Logout, Tick, Restart, Restarted, vars,
       auth, PasswordStays
  <2> QED BY <2>1, <2>2, <2>3, Requests DEF Next
<1> QED BY <1>1, <1>2, PTL DEF Spec

\* A session in the Map ends 24 hours after its last use, and is none of those
\* that were ended.
SessionsRecent ==
    \A t \in Tokens :
        /\ sessions[t] # 0 => sessions[t] <= lastUse[t] + Ttl /\ t \notin ended
        /\ t \in ended => lastUse[t] # 0

LEMMA NextSessions == TypeOK /\ SessionsRecent /\ [Next]_vars => SessionsRecent'
<1> SUFFICES ASSUME TypeOK, SessionsRecent, [Next]_vars PROVE SessionsRecent'
  OBVIOUS
<1> USE FLcodeAssumption
<1>1. ASSUME NEW t \in Tokens, sessions' = [sessions EXCEPT ![t] = clock + Ttl],
             lastUse' = [lastUse EXCEPT ![t] = clock], ended' = ended,
             t \notin ended
      PROVE  SessionsRecent'
  BY <1>1 DEF SessionsRecent, TypeOK
<1>2. ASSUME NEW t \in Tokens, Authorized(t) PROVE SessionsRecent'
  BY <1>1, <1>2 DEF Authorized, Accepts, SessionsRecent
<1>3. ASSUME NEW t \in Tokens, NEW w \in Passwords, Login(t, w) \/ SetPassword(t, w)
      PROVE  SessionsRecent'
  BY <1>1, <1>3 DEF Login, SetPassword, Accepts, SessionsRecent
<1>4. ASSUME NEW t \in Tokens, Refuse(t) \/ Logout(t) PROVE SessionsRecent'
  BY <1>4 DEF Refuse, Logout, SessionsRecent, TypeOK
<1>5. CASE UNCHANGED <<sessions, lastUse, ended>>
  BY <1>5 DEF SessionsRecent
<1>6. CASE Restart
  BY <1>6 DEF Restart, SessionsRecent, TypeOK
<1>7. ASSUME \/ \E f \in Files : UploadDone(f) \/ UploadFails(f)
             \/ \E p \in Phones : Claim(p)
             \/ Tick \/ UNCHANGED vars
      PROVE  UNCHANGED <<sessions, lastUse, ended>>
  BY <1>7 DEF UploadDone, UploadFails, Claim, Tick, vars, auth
<1> QED BY <1>2, <1>3, <1>4, <1>5, <1>6, <1>7, Requests DEF Next

LEMMA SessionsAlways == Spec => []SessionsRecent
<1>1. Init => SessionsRecent
  BY DEF Init, SessionsRecent
<1> QED BY <1>1, NextSessions, FLcodeTypeCorrect, PTL DEF Spec

\* authMiddleware accepts a token at most 24 hours after it was last used, and
\* never one that was logged out or issued before a restart.
THEOREM AcceptedRecently == Spec => AcceptedIsRecent
<1> DEFINE Recent == \A t \in Tokens : lastUse'[t] # lastUse[t] /\ lastUse[t] # 0
                                        => clock <= lastUse[t] + Ttl /\ t \notin ended
<1>1. TypeOK /\ SessionsRecent /\ [Next]_vars => [Recent]_vars
  <2> SUFFICES ASSUME TypeOK, SessionsRecent, [Next]_vars,
                      NEW u \in Tokens, lastUse'[u] # lastUse[u], lastUse[u] # 0
               PROVE  Accepts(u)
    BY FLcodeAssumption DEF Accepts, SessionsRecent, TypeOK
  <2>1. ASSUME NEW t \in Tokens, Authorized(t) PROVE Accepts(u)
    BY <2>1 DEF Authorized, TypeOK
  <2>2. ASSUME NEW t \in Tokens, NEW w \in Passwords, Login(t, w) \/ SetPassword(t, w)
        PROVE  Accepts(u)
    BY <2>2 DEF Login, SetPassword, TypeOK
  <2>3. ASSUME \/ \E f \in Files : UploadDone(f) \/ UploadFails(f)
               \/ \E p \in Phones : Claim(p)
               \/ \E t \in Tokens : Refuse(t) \/ Logout(t)
               \/ Tick \/ Restart \/ UNCHANGED vars
        PROVE  lastUse' = lastUse
    BY <2>3 DEF UploadDone, UploadFails, Claim, Refuse, Logout, Tick, Restart, vars, auth
  <2> QED BY <2>1, <2>2, <2>3, Requests DEF Next
<1> HIDE DEF Recent
<1>2. Spec => [][Recent]_vars
  BY <1>1, SessionsAlways, FLcodeTypeCorrect, PTL DEF Spec
<1> QED BY <1>2 DEF Recent, AcceptedIsRecent

-----------------------------------------------------------------------------
(* FLcode: codes.                                                          *)

\* Rows of the table differ in id and in number, all ids are below the counter,
\* those of old lists too, and an answer is the row of its number.
RowsInv ==
    /\ \A r, s \in codes : r.id = s.id \/ r.phone = s.phone => r = s
    /\ \A r \in codes \cup seen : r.id < nextId
    /\ \A a \in told : \E r \in codes : r.phone = a.phone /\ r.code = a.code

CodesInv == RowsInv /\ OldListsAreSafe

\* Adding rows with new ids and new numbers keeps it: one row by hand or those
\* of a workbook.
LEMMA AddKeeps ==
    ASSUME TypeOK, CodesInv, NEW new, new \subseteq FlCode,
           NEW n \in Nat, codes' = codes \cup new, nextId' = nextId + n,
           seen' = seen, told' = told,
           \A r \in new : r.phone \notin Used /\ r.id >= nextId /\ r.id < nextId + n,
           \A r, s \in new : r.phone = s.phone \/ r.id = s.id => r = s
    PROVE  CodesInv'
<1>1. /\ nextId \in Nat /\ \A r \in codes \cup seen \cup new : r.id \in Nat
      /\ \A r \in codes \cup seen : r.id < nextId
  BY DEF TypeOK, FlCode, CodesInv, RowsInv
<1>2. \A r \in new, s \in codes \cup seen : r.id # s.id
  BY <1>1
<1>3. \A r \in new, s \in codes : r.phone # s.phone
  BY DEF Used
<1>4. \A r \in codes' \cup seen' : r.id < nextId'
  BY <1>1
<1>5. \A r, s \in codes' : r.id = s.id \/ r.phone = s.phone => r = s
  BY <1>2, <1>3 DEF CodesInv, RowsInv
<1>6. \A a \in told' : \E r \in codes' : r.phone = a.phone /\ r.code = a.code
  BY DEF CodesInv, RowsInv
<1>7. OldListsAreSafe'
  BY <1>2 DEF CodesInv, OldListsAreSafe
<1> QED BY <1>4, <1>5, <1>6, <1>7 DEF CodesInv, RowsInv

\* Updating a row keeps its id and the number it was inserted with.
LEMMA UpdateKeeps ==
    ASSUME TypeOK, CodesInv, NEW t, NEW id, NEW p \in Phones, NEW c \in CodeValues,
           UpdateCode(t, id, p, c)
    PROVE  CodesInv'
<1>1. PICK r \in codes :
        /\ r.id = id
        /\ codes' = (codes \ {r}) \cup {[r EXCEPT !.phone = p, !.code = c]}
        /\ told' = told \ Forgotten({r.phone, p})
  BY DEF UpdateCode
<1> DEFINE new == [r EXCEPT !.phone = p, !.code = c]
<1>2. new.id = r.id /\ new.born = r.born /\ new.phone = p
  BY DEF TypeOK, FlCode
<1>3. nextId' = nextId /\ seen' = seen /\ \A s \in codes : s.phone = p => s.id = r.id
  BY <1>1 DEF UpdateCode, Free
<1> HIDE DEF new
<1>4. \A s \in codes \ {r} : s.id # r.id /\ s.phone # p
  BY <1>3 DEF CodesInv, RowsInv
<1>5. \A s \in codes' : s = new \/ s \in codes \ {r}
  BY <1>1 DEF new
<1>6. \A q, s \in codes' : q.id = s.id \/ q.phone = s.phone => q = s
  BY <1>2, <1>4, <1>5 DEF CodesInv, RowsInv
<1>7. \A s \in codes' \cup seen' : s.id < nextId'
  BY <1>2, <1>3, <1>5 DEF CodesInv, RowsInv
<1>8. \A a \in told' : \E s \in codes' : s.phone = a.phone /\ s.code = a.code
  BY <1>1 DEF CodesInv, RowsInv, Forgotten
<1>9. OldListsAreSafe'
  BY <1>2, <1>3, <1>5 DEF CodesInv, OldListsAreSafe
<1> QED BY <1>6, <1>7, <1>8, <1>9 DEF CodesInv, RowsInv

LEMMA NextCodes == TypeOK /\ CodesInv /\ [Next]_vars => CodesInv'
<1> SUFFICES ASSUME TypeOK, CodesInv, [Next]_vars PROVE CodesInv'
  OBVIOUS
<1>1. CASE UNCHANGED <<codes, nextId, seen, told>>
  BY <1>1 DEF CodesInv, RowsInv, OldListsAreSafe
<1>2. ASSUME NEW t \in Tokens, ListCodes(t) PROVE CodesInv'
  BY <1>2 DEF ListCodes, Pages, table, CodesInv, RowsInv, OldListsAreSafe
<1>3. ASSUME NEW t \in Tokens, ClearCodes(t) PROVE CodesInv'
  BY <1>3 DEF ClearCodes, CodesInv, RowsInv, OldListsAreSafe
<1>4. ASSUME NEW t \in Tokens, NEW p \in Phones, NEW c \in CodeValues, AddCode(t, p, c)
      PROVE  CodesInv'
  <2> DEFINE r == [id |-> NewId, phone |-> p, code |-> c, born |-> p]
  <2>1. r \in FlCode /\ r.phone \notin Used /\ r.id >= nextId /\ r.id < nextId + 1
    BY <1>4 DEF AddCode, NewId, TypeOK, FlCode
  <2>2. codes' = codes \cup {r} /\ nextId' = nextId + 1 /\ seen' = seen /\ told' = told
    BY <1>4 DEF AddCode
  <2> HIDE DEF r
  <2> DEFINE new == {r}
  <2>3. /\ new \subseteq FlCode
        /\ \A s \in new : s.phone \notin Used /\ s.id >= nextId /\ s.id < nextId + 1
        /\ \A q, s \in new : q.phone = s.phone \/ q.id = s.id => q = s
        /\ codes' = codes \cup new
    BY <2>1, <2>2
  <2> HIDE DEF new
  <2> QED BY <2>2, <2>3, AddKeeps
<1>5. ASSUME NEW t \in Tokens, NEW id, DeleteCode(t, id) PROVE CodesInv'
  BY <1>5 DEF DeleteCode, Forgotten, CodesInv, RowsInv, OldListsAreSafe
<1>6. ASSUME NEW f \in Files, UploadDone(f) PROVE CodesInv'
  BY <1>6, AddKeeps, NewRowsProperties, InsertedFinite DEF UploadDone
<1>7. ASSUME NEW p \in Phones, Claim(p) PROVE CodesInv'
  <2>1. PICK r \in codes : r.phone = p /\ told' = told \cup {[phone |-> p, code |-> r.code]}
    BY <1>7 DEF Claim
  <2> QED BY <1>7, <2>1 DEF Claim, table, CodesInv, RowsInv, OldListsAreSafe
<1>8. ASSUME \/ \E t \in Tokens :
                  \/ \E w \in Passwords : Login(t, w) \/ SetPassword(t, w)
                  \/ Refuse(t) \/ Logout(t) \/ Verify(t)
                  \/ \E f \in Files : Upload(t, f)
             \/ \E f \in Files : UploadFails(f)
             \/ Tick \/ Restart \/ UNCHANGED vars
      PROVE  UNCHANGED <<codes, nextId, seen, told>>
  BY <1>8 DEF Login, SetPassword, Refuse, Logout, Verify, Upload, UploadFails, Tick, Restart,
     vars, table
<1> QED BY <1>1, <1>2, <1>3, <1>4, <1>5, <1>6, <1>7, <1>8, UpdateKeeps DEF Next

LEMMA CodesAlways == Spec => []CodesInv
<1>1. Init => CodesInv
  BY DEF Init, CodesInv, RowsInv, OldListsAreSafe
<1> QED BY <1>1, NextCodes, FLcodeTypeCorrect, PTL DEF Spec

\* What /claim answered stays the only answer for the number: the UNIQUE
\* constraint refuses every further row, also the second one of a workbook.
THEOREM AnswersStay == Spec => []AnswerStays
<1>1. RowsInv => AnswerStays
  <2> SUFFICES ASSUME RowsInv, NEW a \in told
               PROVE  /\ {r.code : r \in {s \in codes : s.phone = a.phone}} = {a.code}
                      /\ \A r, s \in codes : r.phone = a.phone /\ s.phone = a.phone => r = s
    BY DEF AnswerStays
  <2>1. PICK r \in codes : r.phone = a.phone /\ r.code = a.code
    BY DEF RowsInv
  <2>2. \A s \in codes : s.phone = a.phone => s = r
    BY <2>1 DEF RowsInv
  <2>3. {s \in codes : s.phone = a.phone} = {r}
    BY <2>1, <2>2
  <2>4. {s.code : s \in {q \in codes : q.phone = a.phone}} = {a.code}
    BY <2>1, <2>3
  <2> QED BY <2>2, <2>4
<1> QED BY <1>1, CodesAlways, PTL DEF CodesInv

\* AUTOINCREMENT keeps an old list of the administration site from reaching a
\* row that was inserted later.
THEOREM ListsAreSafe == Spec => []OldListsAreSafe
BY CodesAlways, PTL DEF CodesInv

-----------------------------------------------------------------------------
(* Upgrade: the tables.                                                    *)

CodeRow == [order : OrderNos \cup {None}, note : Notes, original : BOOLEAN]
NotesOf(S) == UNION {[D -> S] : D \in SUBSET OrderNos}

\* The committed tables, and what a script holds.
Tables == [orders : NotesOf(OrderRow), items : SUBSET ItemRow, codes : [Codes -> CodeRow],
           codeItems : SUBSET [code : Codes, run : Nat], sku : BOOLEAN]
Transactions == [open : BOOLEAN, notes : NotesOf(Notes), cleared : SUBSET Nat, inserted : SUBSET Codes,
                 priced : SUBSET Codes]
Views == [orders : NotesOf(Notes \cup {BuyerNote}), items : SUBSET ItemRow, codes : SUBSET Codes,
          left : SUBSET (OrderNos \cup Codes), ok : BOOLEAN, apply : BOOLEAN]

\* Orders there are or were: their items took the ids up to twice their number.
Known == Keys(db.orders) \cup deleted
Ever == Cardinality(Keys(db.orders)) + Cardinality(deleted)

TablesInv ==
    /\ db \in Tables /\ second \in 0 .. 1 /\ starts \in Nat
    /\ deleted \subseteq OrderNos /\ deleted \cap Keys(db.orders) = {}
    /\ \A i \in db.items : i.order \in Keys(db.orders) /\ i.id <= 2 * Ever
    /\ \A i, j \in db.items : i.id = j.id => i = j
    /\ backup \in [taken : BOOLEAN, orders : NotesOf(0 .. 1), items : SUBSET ItemRow]
    /\ Keys(backup.orders) \subseteq Known
    /\ report \in [Scripts -> Outcomes]

ScriptType ==
    /\ tx \in Transactions /\ view \in Views
    /\ files \in [orders : NotesOf(Notes \cup {BuyerNote}), items : SUBSET ItemRow]

\* The code that an order used, and the orders that the move may touch.
Named(o) == \E c \in Codes : db.codes[c].order = o
Targeted(o) == \E c \in Targets : db.codes[c].order = o

MoveInv ==
    /\ \A o \in Keys(tx.notes) : Targeted(o)
    /\ \A n \in tx.cleared : n <= 2 * Ever
    /\ \A i \in db.items : i.id \in tx.cleared \/ ~i.attrs => Named(i.order)
    /\ pc = "note_commit" =>
          \A i \in db.items : i.sku = 1 /\ i.order \in Keys(tx.notes) => i.id \in tx.cleared
    /\ CopiedIsCleared

NotePcs == {"note", "note_orders", "note_items", "note_update", "note_clear", "note_commit", "note_final",
            "note_final_items"}

\* f holds the notes that the orders in it have.
Agrees(f) == /\ Keys(f) \subseteq Known
             /\ \A o \in Keys(f) \cap Keys(db.orders) : f[o] = db.orders[o].note

Moved == \A o \in Keys(db.orders) : Cleared(o) => db.orders[o].note # BuyerNote
Undoable == \A o \in Keys(wrote) \cap Keys(db.orders) : o \in Keys(files.orders) /\ files.orders[o] = wrote[o]

VerdictInv ==
    /\ report["note"] = "ok" => pc \notin NotePcs /\ Moved /\ Undoable
    /\ pc = "note_final_items" /\ view.ok => Moved /\ Undoable
    /\ pc = "note_items" => Agrees(view.orders)
    /\ pc \in {"note_update", "note_clear", "note_commit"} => Agrees(files.orders)
    /\ pc \in {"note_final", "note_final_items"} =>
          \A o \in Keys(wrote) \cap Keys(files.orders) : files.orders[o] = wrote[o]
    /\ Keys(wrote) \subseteq Known /\ \A o \in Keys(wrote) : Named(o)

ItemsInv ==
    /\ pc = "multi_insert" => tx.inserted \cup view.left = WithoutItem
    /\ pc = "multi_commit" => tx.inserted = WithoutItem
    /\ OneItemPerCode

Loss == deleted \cap Keys(backup.orders) # {} \/ late # {}

VerifyInv ==
    /\ pc \in {"verify", "verify_items", "verify_end"} \/ report["verify"] # "none" => backup.taken
    /\ pc \in {"verify_items", "verify_end"} /\ ~view.ok => Loss
    /\ \A o \in Keys(db.orders) \ Keys(backup.orders) : UpToLast(db.orders[o].at) => o \in late
    /\ \A b \in backup.items :
          /\ b.order \in Keys(backup.orders)
          /\ b.order \in deleted \/ \E i \in db.items : SameItem(b, i)
    /\ DifferenceMeansLoss

LEMMA NotesOfType ==
    ASSUME NEW S, NEW f
    PROVE  /\ f \in NotesOf(S) => DOMAIN f \subseteq OrderNos /\ \A x \in DOMAIN f : f[x] \in S
           /\ f = [x \in DOMAIN f |-> f[x]] /\ DOMAIN f \subseteq OrderNos /\ (\A x \in DOMAIN f : f[x] \in S)
                 => f \in NotesOf(S)
BY DEF NotesOf

IsTables(d) == d = [orders |-> d.orders, items |-> d.items, codes |-> d.codes, codeItems |-> d.codeItems,
                    sku |-> d.sku]

\* What a step does to the tables, when it does something.
LEMMA ConsumeTables ==
    ASSUME db \in Tables, NEW c \in Codes, NEW o \in OrderNos, Consume(c, o)
    PROVE  /\ o \notin Keys(db.orders) \cup deleted /\ db.codes[c].order = None /\ deleted' = deleted
           /\ Keys(db'.orders) = Keys(db.orders) \cup {o}
           /\ \A x \in Keys(db.orders) : db'.orders[x] = db.orders[x]
           /\ db'.orders[o] = [invite |-> c, note |-> BuyerNote, at |-> second]
           /\ db'.orders = [x \in Keys(db'.orders) |-> db'.orders[x]]
           /\ db'.items = db.items \cup ItemsOf(o, 2 * Ever + 1)
           /\ db'.codes = [db.codes EXCEPT ![c] = [db.codes[c] EXCEPT !.order = o]]
           /\ db'.codeItems = db.codeItems /\ db'.sku = db.sku /\ IsTables(db')
<1> DEFINE os == Merge(db.orders, [x \in {o} |-> [invite |-> c, note |-> BuyerNote, at |-> second]])
           is == db.items \cup ItemsOf(o, 2 * (Cardinality(Keys(db.orders)) + Cardinality(deleted)) + 1)
           cs == [db.codes EXCEPT ![c] = [db.codes[c] EXCEPT !.order = o]]
<1>1. /\ o \notin Keys(db.orders) \cup deleted /\ db.codes[c].order = None /\ deleted' = deleted
      /\ db' = [db EXCEPT !.orders = os, !.items = is, !.codes = cs]
  BY DEF Consume, Tables
<1>2. /\ Keys(os) = Keys(db.orders) \cup {o}
      /\ \A x \in Keys(db.orders) : os[x] = db.orders[x]
      /\ os[o] = [invite |-> c, note |-> BuyerNote, at |-> second]
      /\ os = [x \in Keys(os) |-> os[x]]
  BY <1>1 DEF Merge, Keys
<1> HIDE DEF os, is, cs
<1>3. /\ db'.orders = os /\ db'.items = is /\ db'.codes = cs
      /\ db'.codeItems = db.codeItems /\ db'.sku = db.sku /\ IsTables(db')
  BY <1>1 DEF Tables, IsTables
<1> QED BY <1>1, <1>2, <1>3 DEF is, cs, Ever

LEMMA EditNoteTables ==
    ASSUME db \in Tables, NEW c \in Codes, NEW n \in Notes, EditNote(c, n)
    PROVE  /\ deleted' = deleted /\ ~Locked(c)
           /\ db'.codes = [db.codes EXCEPT ![c] = [db.codes[c] EXCEPT !.note = n]]
           /\ db'.orders = db.orders /\ db'.items = db.items
           /\ db'.codeItems = db.codeItems /\ db'.sku = db.sku /\ IsTables(db')
<1> DEFINE cs == [db.codes EXCEPT ![c] = [db.codes[c] EXCEPT !.note = n]]
<1>1. deleted' = deleted /\ ~Locked(c) /\ db' = [db EXCEPT !.codes = cs]
  BY DEF EditNote, Tables
<1> HIDE DEF cs
<1>2. /\ db'.codes = cs /\ db'.orders = db.orders /\ db'.items = db.items
      /\ db'.codeItems = db.codeItems /\ db'.sku = db.sku /\ IsTables(db')
  BY <1>1 DEF Tables, IsTables
<1> QED BY <1>1, <1>2 DEF cs

LEMMA DeleteTables ==
    ASSUME db \in Tables, NEW o \in OrderNos, DeleteOrder(o)
    PROVE  /\ o \in Keys(db.orders) /\ o \notin Keys(tx.notes) /\ deleted' = deleted \cup {o}
           /\ db'.orders = [x \in Keys(db.orders) \ {o} |-> db.orders[x]]
           /\ db'.items = {i \in db.items : i.order # o}
           /\ db'.codes = db.codes /\ db'.codeItems = db.codeItems /\ db'.sku = db.sku /\ IsTables(db')
<1> DEFINE os == [x \in Keys(db.orders) \ {o} |-> db.orders[x]]
           is == {i \in db.items : i.order # o}
<1>1. /\ o \in Keys(db.orders) /\ o \notin Keys(tx.notes) /\ deleted' = deleted \cup {o}
      /\ db' = [db EXCEPT !.orders = os, !.items = is]
  BY DEF DeleteOrder, Tables
<1> HIDE DEF os, is
<1>2. /\ db'.orders = os /\ db'.items = is
      /\ db'.codes = db.codes /\ db'.codeItems = db.codeItems /\ db'.sku = db.sku /\ IsTables(db')
  BY <1>1 DEF Tables, IsTables
<1> QED BY <1>1, <1>2 DEF os, is

\* An item after the move committed.
ClearedItem(i) == IF i.id \in tx.cleared THEN [i EXCEPT !.attrs = FALSE] ELSE i

LEMMA CommitMoveTables ==
    ASSUME db \in Tables, CommitMove
    PROVE  /\ pc = "note_commit" /\ pc' = "note_final" /\ deleted' = deleted
           /\ wrote' = [o \in Keys(tx.notes) |-> db.orders[o].note] /\ tx' = NoTx
           /\ Keys(db'.orders) = Keys(db.orders) /\ db'.orders = [x \in Keys(db'.orders) |-> db'.orders[x]]
           /\ \A o \in Keys(db.orders) :
                 db'.orders[o] = IF o \in Keys(tx.notes) THEN [db.orders[o] EXCEPT !.note = tx.notes[o]]
                                 ELSE db.orders[o]
           /\ db'.items = {ClearedItem(i) : i \in db.items}
           /\ db'.codes = db.codes /\ db'.codeItems = db.codeItems /\ db'.sku = db.sku /\ IsTables(db')
<1> DEFINE os == [o \in Keys(db.orders) |-> IF o \in Keys(tx.notes) THEN [db.orders[o] EXCEPT !.note = tx.notes[o]]
                                            ELSE db.orders[o]]
           is == {ClearedItem(i) : i \in db.items}
<1>1. /\ pc = "note_commit" /\ pc' = "note_final" /\ deleted' = deleted
      /\ wrote' = [o \in Keys(tx.notes) |-> db.orders[o].note] /\ tx' = NoTx
      /\ db' = [db EXCEPT !.orders = os, !.items = is]
  BY DEF CommitMove, Tables, Goto, ClearedItem
<1>2. /\ Keys(os) = Keys(db.orders) /\ os = [x \in Keys(os) |-> os[x]]
      /\ \A o \in Keys(db.orders) :
            os[o] = IF o \in Keys(tx.notes) THEN [db.orders[o] EXCEPT !.note = tx.notes[o]] ELSE db.orders[o]
  BY DEF Keys
<1> HIDE DEF os, is
<1>3. /\ db'.orders = os /\ db'.items = is
      /\ db'.codes = db.codes /\ db'.codeItems = db.codeItems /\ db'.sku = db.sku /\ IsTables(db')
  BY <1>1 DEF Tables, IsTables
<1> QED BY <1>1, <1>2, <1>3 DEF is

LEMMA DefaultSkuTables ==
    ASSUME db \in Tables, DefaultSku
    PROVE  /\ deleted' = deleted /\ db'.orders = db.orders /\ db'.items = db.items
           /\ db'.codes = db.codes /\ db'.codeItems = db.codeItems /\ db'.sku = TRUE /\ IsTables(db')
BY DEF DefaultSku, Goto, Tables, IsTables

LEMMA CommitItemsTables ==
    ASSUME db \in Tables, CommitItems
    PROVE  /\ deleted' = deleted /\ db'.orders = db.orders /\ db'.items = db.items
           /\ db'.codes = [c \in Codes |-> IF c \in tx.priced THEN [db.codes[c] EXCEPT !.original = TRUE] ELSE db.codes[c]]
           /\ db'.codeItems = db.codeItems \cup {[code |-> c, run |-> starts] : c \in tx.inserted}
           /\ db'.sku = db.sku /\ IsTables(db') /\ pc = "multi_commit" /\ pc' = "idle"
<1> DEFINE cs == [c \in Codes |-> IF c \in tx.priced THEN [db.codes[c] EXCEPT !.original = TRUE] ELSE db.codes[c]]
           ci == db.codeItems \cup {[code |-> c, run |-> starts] : c \in tx.inserted}
<1>1. deleted' = deleted /\ db' = [db EXCEPT !.codeItems = ci, !.codes = cs] /\ pc = "multi_commit" /\ pc' = "idle"
  BY DEF CommitItems, Finish, Goto, Tables
<1> HIDE DEF cs, ci
<1>2. /\ db'.orders = db.orders /\ db'.items = db.items
      /\ db'.codes = cs /\ db'.codeItems = ci /\ db'.sku = db.sku /\ IsTables(db')
  BY <1>1 DEF Tables, IsTables
<1> QED BY <1>1, <1>2 DEF cs, ci

\* Which steps these are.
LEMMA TableStepsOfUpgrade ==
    ASSUME [UpgradeNext]_upgradeVars
    PROVE  \/ db' = db /\ deleted' = deleted
           \/ \E c \in Codes, o \in OrderNos : Consume(c, o)
           \/ \E c \in Codes, n \in Notes : EditNote(c, n)
           \/ \E o \in OrderNos : DeleteOrder(o)
           \/ CommitMove \/ DefaultSku \/ CommitItems
BY DEF UpgradeNext, upgradeVars, NextSecond, TakeBackup, Abort, Start, NoteScript, MultiScript, Verification,
       ReadTargets, ReadOrders, ReadItems, UpdateNotes, ClearAttrs, CheckOrders, CheckItems, FindSku, ReadCodes, InsertItem,
       CompareOrders, VerifyReport, VerifyItems, CountOrders, CountItems, SampleItems, CompareItems, Finish, Goto

-----------------------------------------------------------------------------
(* Upgrade: what the shop and the scripts leave as it is.                  *)

LEMMA CodesKeepOrders ==
    ASSUME TablesInv, [UpgradeNext]_upgradeVars
    PROVE  /\ \A c \in Codes : \/ db'.codes[c].order = db.codes[c].order
                               \/ /\ db.codes[c].order = None /\ db'.codes[c].order \notin Known
                                  /\ db'.codes[c].order \in Keys(db'.orders)
           /\ db'.codes \in [Codes -> CodeRow]
<1>0. db \in Tables /\ db.codes \in [Codes -> CodeRow]
  BY DEF TablesInv, Tables
<1> DEFINE Kept == \A c \in Codes : \/ db'.codes[c].order = db.codes[c].order
                                    \/ /\ db.codes[c].order = None /\ db'.codes[c].order \notin Known
                                       /\ db'.codes[c].order \in Keys(db'.orders)
<1>1. CASE db'.codes = db.codes
  BY <1>0, <1>1
<1>2. ASSUME NEW c \in Codes, NEW o \in OrderNos, Consume(c, o) PROVE Kept /\ db'.codes \in [Codes -> CodeRow]
  <2>1. /\ db'.codes = [db.codes EXCEPT ![c] = [db.codes[c] EXCEPT !.order = o]]
        /\ db.codes[c].order = None /\ o \notin Keys(db.orders) \cup deleted /\ Keys(db'.orders) = Keys(db.orders) \cup {o}
    BY <1>0, <1>2, ConsumeTables
  <2>2. [db.codes[c] EXCEPT !.order = o] \in CodeRow /\ [db.codes[c] EXCEPT !.order = o].order = o
    BY <1>0 DEF CodeRow
  <2>3. \A d \in Codes : db'.codes[d] = IF d = c THEN [db.codes[c] EXCEPT !.order = o] ELSE db.codes[d]
    BY <1>0, <2>1
  <2> QED BY <1>0, <2>1, <2>2, <2>3 DEF Known
<1>3. ASSUME NEW c \in Codes, NEW n \in Notes, EditNote(c, n) PROVE Kept /\ db'.codes \in [Codes -> CodeRow]
  <2>1. db'.codes = [db.codes EXCEPT ![c] = [db.codes[c] EXCEPT !.note = n]]
    BY <1>0, <1>3, EditNoteTables
  <2>2. [db.codes[c] EXCEPT !.note = n] \in CodeRow /\ [db.codes[c] EXCEPT !.note = n].order = db.codes[c].order
    BY <1>0 DEF CodeRow
  <2>3. \A d \in Codes : db'.codes[d] = IF d = c THEN [db.codes[c] EXCEPT !.note = n] ELSE db.codes[d]
    BY <1>0, <2>1
  <2> QED BY <1>0, <2>1, <2>2, <2>3
<1>4. CASE CommitItems
  <2>1. db'.codes = [c \in Codes |-> IF c \in tx.priced THEN [db.codes[c] EXCEPT !.original = TRUE] ELSE db.codes[c]]
    BY <1>0, <1>4, CommitItemsTables
  <2>2. ASSUME NEW c \in Codes
        PROVE  [db.codes[c] EXCEPT !.original = TRUE] \in CodeRow /\ [db.codes[c] EXCEPT !.original = TRUE].order = db.codes[c].order
    BY <1>0 DEF CodeRow
  <2> QED BY <1>0, <2>1, <2>2
<1>5. ASSUME NEW o \in OrderNos, DeleteOrder(o) PROVE db'.codes = db.codes
  BY <1>0, <1>5, DeleteTables
<1> QED BY <1>0, <1>1, <1>2, <1>3, <1>4, <1>5, TableStepsOfUpgrade, CommitMoveTables, DefaultSkuTables

LEMMA OrdersKept ==
    ASSUME TablesInv, [UpgradeNext]_upgradeVars
    PROVE  /\ \A o \in Keys(db.orders) \cap Keys(db'.orders) : db'.orders[o] = db.orders[o] \/ CommitMove
           /\ \A o \in Keys(db'.orders) \ Keys(db.orders) : o \notin deleted /\ db'.orders[o].note = BuyerNote
           /\ \A o \in Keys(db.orders) \ Keys(db'.orders) : o \in deleted' /\ o \notin Keys(tx.notes)
           /\ deleted \subseteq deleted'
<1>0. db \in Tables
  BY DEF TablesInv
<1>1. CASE db'.orders = db.orders /\ deleted' = deleted
  BY <1>1
<1>2. ASSUME NEW c \in Codes, NEW o \in OrderNos, Consume(c, o)
      PROVE  /\ \A x \in Keys(db.orders) \cap Keys(db'.orders) : db'.orders[x] = db.orders[x] \/ CommitMove
             /\ \A x \in Keys(db'.orders) \ Keys(db.orders) : x \notin deleted /\ db'.orders[x].note = BuyerNote
             /\ Keys(db.orders) \ Keys(db'.orders) = {}
             /\ deleted \subseteq deleted'
  <2>1. /\ o \notin Keys(db.orders) \cup deleted /\ deleted' = deleted /\ Keys(db'.orders) = Keys(db.orders) \cup {o}
        /\ db'.orders[o] = [invite |-> c, note |-> BuyerNote, at |-> second]
    BY <1>0, <1>2, ConsumeTables
  <2>2. \A x \in Keys(db.orders) : db'.orders[x] = db.orders[x]
    BY <1>0, <1>2, ConsumeTables
  <2>3. db'.orders[o].note = BuyerNote
    BY <2>1
  <2> QED BY <2>1, <2>2, <2>3
<1>3. ASSUME NEW o \in OrderNos, DeleteOrder(o)
      PROVE  /\ \A x \in Keys(db.orders) \cap Keys(db'.orders) : db'.orders[x] = db.orders[x]
             /\ Keys(db'.orders) \ Keys(db.orders) = {}
             /\ \A x \in Keys(db.orders) \ Keys(db'.orders) : x \in deleted' /\ x \notin Keys(tx.notes)
             /\ deleted \subseteq deleted'
  <2>1. /\ o \in Keys(db.orders) /\ o \notin Keys(tx.notes) /\ deleted' = deleted \cup {o}
        /\ db'.orders = [x \in Keys(db.orders) \ {o} |-> db.orders[x]]
    BY <1>0, <1>3, DeleteTables
  <2>2. Keys(db'.orders) = Keys(db.orders) \ {o} /\ \A x \in Keys(db'.orders) : db'.orders[x] = db.orders[x]
    BY <2>1 DEF Keys
  <2> QED BY <2>1, <2>2
<1>4. CASE CommitMove
  BY <1>0, <1>4, CommitMoveTables
<1>5. ASSUME NEW c \in Codes, NEW n \in Notes, EditNote(c, n) PROVE db'.orders = db.orders /\ deleted' = deleted
  BY <1>0, <1>5, EditNoteTables
<1>6. DefaultSku \/ CommitItems => db'.orders = db.orders /\ deleted' = deleted
  BY <1>0, DefaultSkuTables, CommitItemsTables
<1>7. CASE \E c \in Codes, o \in OrderNos : Consume(c, o)
  BY <1>2, <1>7
<1>8. CASE \E o \in OrderNos : DeleteOrder(o)
  BY <1>3, <1>8
<1>9. CASE ~CommitMove /\ ~(\E c \in Codes, o \in OrderNos : Consume(c, o)) /\ ~(\E o \in OrderNos : DeleteOrder(o))
  <2>1. db'.orders = db.orders /\ deleted' = deleted
    BY <1>5, <1>6, <1>9, TableStepsOfUpgrade
  <2> QED BY <1>1, <2>1
<1> QED BY <1>4, <1>7, <1>8, <1>9

\* Orders that are and orders that were, together.
LEMMA Counted ==
    ASSUME NEW K \in SUBSET OrderNos, NEW D \in SUBSET OrderNos, K \cap D = {}
    PROVE  Cardinality(K) + Cardinality(D) = Cardinality(K \cup D) /\ Cardinality(K \cup D) \in 0 .. Cardinality(OrderNos)
<1>1. IsFiniteSet(OrderNos)
  BY UpgradeAssumption
<1>2. IsFiniteSet(K) /\ IsFiniteSet(D) /\ IsFiniteSet(K \cup D)
  BY <1>1, FS_Subset
<1>3. Cardinality(K \cup D) <= Cardinality(OrderNos) /\ Cardinality(OrderNos) \in Nat /\ Cardinality(K \cup D) \in Nat
      /\ Cardinality(K) \in Nat /\ Cardinality(D) \in Nat
  BY <1>1, <1>2, FS_Subset, FS_CardinalityType
<1>4. Cardinality(K \cup D) = Cardinality(K) + Cardinality(D) - Cardinality(K \cap D)
  BY <1>2, FS_Union
<1>5. Cardinality(K \cap D) = 0
  BY FS_EmptySet
<1> QED BY <1>3, <1>4, <1>5

LEMMA EverSteps ==
    ASSUME TablesInv, [UpgradeNext]_upgradeVars
    PROVE  /\ Ever \in Nat /\ Ever <= Cardinality(OrderNos) /\ Cardinality(OrderNos) \in Nat
           /\ Keys(db'.orders) \in SUBSET OrderNos /\ deleted' \in SUBSET OrderNos /\ Keys(db'.orders) \cap deleted' = {}
           /\ \/ Known' = Known /\ Ever' = Ever
              \/ \E o \in OrderNos \ Known : Known' = Known \cup {o} /\ Ever' = Ever + 1 /\ Ever + 1 <= Cardinality(OrderNos)
<1>0. db \in Tables /\ Keys(db.orders) \in SUBSET OrderNos /\ deleted \in SUBSET OrderNos /\ Keys(db.orders) \cap deleted = {}
  BY NotesOfType DEF TablesInv, Tables, Keys
<1>1. Ever = Cardinality(Known) /\ Ever \in Nat /\ Ever <= Cardinality(OrderNos) /\ Cardinality(OrderNos) \in Nat
  <2>1. Ever = Cardinality(Known) /\ Cardinality(Known) \in 0 .. Cardinality(OrderNos)
    BY <1>0, Counted DEF Ever, Known
  <2>2. Cardinality(OrderNos) \in Nat
    BY UpgradeAssumption, FS_CardinalityType
  <2> QED BY <2>1, <2>2
<1>2. /\ Keys(db'.orders) \in SUBSET OrderNos /\ deleted' \in SUBSET OrderNos /\ Keys(db'.orders) \cap deleted' = {}
      /\ Known' = Known \/ \E o \in OrderNos \ Known : Known' = Known \cup {o}
  <2>1. CASE Keys(db'.orders) = Keys(db.orders) /\ deleted' = deleted
    BY <1>0, <2>1 DEF Known
  <2>2. ASSUME NEW c \in Codes, NEW o \in OrderNos, Consume(c, o)
        PROVE  Keys(db'.orders) = Keys(db.orders) \cup {o} /\ deleted' = deleted /\ o \notin Known
    BY <1>0, <2>2, ConsumeTables DEF Known
  <2>3. ASSUME NEW o \in OrderNos, DeleteOrder(o)
        PROVE  Keys(db'.orders) = Keys(db.orders) \ {o} /\ deleted' = deleted \cup {o} /\ o \in Keys(db.orders)
    BY <1>0, <2>3, DeleteTables DEF Keys
  <2>4. ASSUME NEW c \in Codes, NEW n \in Notes, EditNote(c, n) PROVE db'.orders = db.orders /\ deleted' = deleted
    BY <1>0, <2>4, EditNoteTables
  <2>5. CommitMove \/ DefaultSku \/ CommitItems => Keys(db'.orders) = Keys(db.orders) /\ deleted' = deleted
    BY <1>0, CommitMoveTables, DefaultSkuTables, CommitItemsTables
  <2>6. ASSUME NEW c \in Codes, NEW o \in OrderNos, Consume(c, o)
        PROVE  /\ Keys(db'.orders) \in SUBSET OrderNos /\ deleted' \in SUBSET OrderNos /\ Keys(db'.orders) \cap deleted' = {}
               /\ \E x \in OrderNos \ Known : Known' = Known \cup {x}
    BY <1>0, <2>2, <2>6 DEF Known
  <2>7. ASSUME NEW o \in OrderNos, DeleteOrder(o)
        PROVE  /\ Keys(db'.orders) \in SUBSET OrderNos /\ deleted' \in SUBSET OrderNos /\ Keys(db'.orders) \cap deleted' = {}
               /\ Known' = Known
    BY <1>0, <2>3, <2>7 DEF Known
  <2> QED BY <2>1, <2>4, <2>5, <2>6, <2>7, TableStepsOfUpgrade
<1>3. Ever' = Cardinality(Known') /\ Cardinality(Known') <= Cardinality(OrderNos)
  <2>1. Ever' = Cardinality(Known') /\ Cardinality(Known') \in 0 .. Cardinality(OrderNos)
    BY <1>2, Counted DEF Ever, Known
  <2> QED BY <1>1, <2>1
<1>4. ASSUME NEW o \in OrderNos \ Known, Known' = Known \cup {o} PROVE Ever' = Ever + 1
  <2>1. IsFiniteSet(Known)
    BY <1>0, UpgradeAssumption, FS_Subset DEF Known
  <2>2. Cardinality(Known \cup {o}) = Cardinality(Known) + 1
    BY <2>1, FS_AddElement
  <2> QED BY <1>1, <1>3, <1>4, <2>2
<1> QED BY <1>1, <1>2, <1>3, <1>4

LEMMA NewItems ==
    ASSUME NEW o \in OrderNos, NEW n \in Nat
    PROVE  /\ \A i \in ItemsOf(o, n) : i.order = o /\ i.attrs = TRUE /\ i.id \in {n, n + 1}
           /\ \A i, j \in ItemsOf(o, n) : i.id = j.id => i = j
           /\ n \in ItemIds /\ n + 1 \in ItemIds => ItemsOf(o, n) \subseteq ItemRow
BY DEF ItemsOf, ItemRow

\* An item that was there before, cleared if the move committed, or one of a new order.
OldItem(i) == \E j \in db.items : SameItem(j, i) /\ (i = j \/ (CommitMove /\ i = ClearedItem(j)))
NewItem(i) == /\ i.order \notin Known /\ i.attrs = TRUE /\ i.id \in {2 * Ever + 1, 2 * Ever + 2}
              /\ Ever' = Ever + 1 /\ pc' = pc /\ tx' = tx

LEMMA ClearedItemIs ==
    ASSUME NEW i \in ItemRow
    PROVE  /\ SameItem(i, ClearedItem(i)) /\ ClearedItem(i) \in ItemRow
           /\ ClearedItem(i).attrs = (i.attrs /\ i.id \notin tx.cleared)
           /\ i.id \notin tx.cleared => ClearedItem(i) = i
BY DEF ItemRow, ClearedItem, SameItem

LEMMA ItemsKept ==
    ASSUME TablesInv, [UpgradeNext]_upgradeVars
    PROVE  /\ db'.items \subseteq ItemRow
           /\ \A i \in db'.items : i.order \in Keys(db'.orders) /\ i.id <= 2 * Ever'
           /\ \A i, j \in db'.items : i.id = j.id => i = j
           /\ \A i \in db'.items : OldItem(i) \/ NewItem(i)
           /\ \A i \in db.items : i.order \in Keys(db'.orders) => \E j \in db'.items : SameItem(i, j)
<1> DEFINE Here == /\ db'.items \subseteq ItemRow
                   /\ \A i \in db'.items : i.order \in Keys(db'.orders) /\ i.id <= 2 * Ever'
                   /\ \A i, j \in db'.items : i.id = j.id => i = j
           Kept == /\ \A i \in db'.items : OldItem(i) \/ NewItem(i)
                   /\ \A i \in db.items : i.order \in Keys(db'.orders) => \E j \in db'.items : SameItem(i, j)
<1>0. /\ db \in Tables /\ db.items \subseteq ItemRow
      /\ \A i \in db.items : i.order \in Keys(db.orders) /\ i.id <= 2 * Ever
      /\ \A i, j \in db.items : i.id = j.id => i = j
      /\ Ever \in Nat /\ Ever <= Cardinality(OrderNos) /\ Cardinality(OrderNos) \in Nat
  BY EverSteps DEF TablesInv, Tables
<1>1. \A i \in ItemRow : SameItem(i, i) /\ i.id \in Nat
  BY DEF SameItem, ItemRow, ItemIds
<1>2. Ever' = Ever \/ Ever' = Ever + 1
  BY EverSteps
<1>3. CASE db'.items = db.items /\ Keys(db.orders) = Keys(db'.orders)
  <2>1. Here
    BY <1>0, <1>1, <1>2, <1>3
  <2>2. Kept
    BY <1>0, <1>1, <1>3 DEF OldItem
  <2> QED BY <2>1, <2>2
<1>4. ASSUME NEW c \in Codes, NEW o \in OrderNos, Consume(c, o) PROVE Here /\ Kept
  <2>1. /\ o \notin Known /\ deleted' = deleted /\ Keys(db'.orders) = Keys(db.orders) \cup {o}
        /\ db'.items = db.items \cup ItemsOf(o, 2 * Ever + 1)
    BY <1>0, <1>4, ConsumeTables DEF Known
  <2>2. Ever' = Ever + 1 /\ Ever + 1 <= Cardinality(OrderNos)
    <3>1. Known' # Known
      BY <2>1 DEF Known
    <3> QED BY <3>1, EverSteps
  <2>3. pc' = pc /\ tx' = tx
    BY <1>4 DEF Consume, Shop
  <2> DEFINE n == 2 * Ever + 1
             new == ItemsOf(o, n)
  <2>4. n \in Nat /\ n \in ItemIds /\ n + 1 \in ItemIds /\ n + 1 = 2 * Ever + 2
    BY <1>0, <2>2 DEF ItemIds
  <2>5. /\ \A i \in new : i.order = o /\ i.attrs = TRUE /\ i.id \in {2 * Ever + 1, 2 * Ever + 2}
        /\ \A i, j \in new : i.id = j.id => i = j
        /\ new \subseteq ItemRow
    <3> HIDE DEF n
    <3>1. /\ \A i \in new : i.order = o /\ i.attrs = TRUE /\ i.id \in {n, n + 1}
          /\ \A i, j \in new : i.id = j.id => i = j
          /\ new \subseteq ItemRow
      BY <2>4, NewItems
    <3>2. n = 2 * Ever + 1
      BY DEF n
    <3> QED BY <2>4, <3>1, <3>2
  <2> HIDE DEF new
  <2>6. db'.items = db.items \cup new
    BY <2>1 DEF new
  <2>7. Here
    <3>1. \A i \in db'.items : i \in ItemRow /\ i.order \in Keys(db'.orders) /\ i.id <= 2 * Ever'
      BY <1>0, <1>1, <2>1, <2>2, <2>5, <2>6
    <3>2. \A i \in db.items, j \in new : i.id # j.id
      BY <1>0, <1>1, <2>5
    <3>3. \A i, j \in db'.items : i.id = j.id => i = j
      BY <1>0, <2>5, <2>6, <3>2
    <3> QED BY <3>1, <3>3
  <2>8. Kept
    <3>1. \A i \in db.items : OldItem(i) /\ i \in db'.items /\ SameItem(i, i)
      BY <1>0, <1>1, <2>6 DEF OldItem
    <3>2. \A i \in new : NewItem(i)
      BY <2>1, <2>2, <2>3, <2>5 DEF NewItem
    <3> QED BY <2>6, <3>1, <3>2
  <2> QED BY <2>7, <2>8
<1>5. ASSUME NEW o \in OrderNos, DeleteOrder(o) PROVE Here /\ Kept
  <2>1. Keys(db'.orders) = Keys(db.orders) \ {o} /\ db'.items = {i \in db.items : i.order # o}
    BY <1>0, <1>5, DeleteTables DEF Keys
  <2>2. Here
    BY <1>0, <1>1, <1>2, <2>1
  <2>3. Kept
    BY <1>0, <1>1, <2>1 DEF OldItem
  <2> QED BY <2>2, <2>3
<1>6. CASE CommitMove
  <2>1. Keys(db'.orders) = Keys(db.orders) /\ db'.items = {ClearedItem(i) : i \in db.items}
    BY <1>0, <1>6, CommitMoveTables
  <2>2. \A i \in db.items : SameItem(i, ClearedItem(i)) /\ ClearedItem(i) \in ItemRow
    BY <1>0, ClearedItemIs
  <2>3. \A i \in db.items : ClearedItem(i).id = i.id /\ ClearedItem(i).order = i.order
    BY <2>2 DEF SameItem
  <2>4. \A i \in db'.items : \E j \in db.items : i = ClearedItem(j)
    BY <2>1
  <2>5. \A j \in db.items : ClearedItem(j) \in db'.items
    BY <2>1
  <2>6. Here
    <3>1. \A i \in db'.items : i \in ItemRow /\ i.order \in Keys(db'.orders) /\ i.id <= 2 * Ever'
      <4> TAKE i \in db'.items
      <4>1. PICK j \in db.items : i = ClearedItem(j)
        BY <2>4
      <4>2. i \in ItemRow /\ i.order = j.order /\ i.id = j.id /\ j.id \in Nat
        BY <1>0, <1>1, <2>2, <2>3, <4>1
      <4> QED BY <1>0, <1>2, <2>1, <4>2
    <3>2. \A i, j \in db'.items : i.id = j.id => i = j
      BY <1>0, <2>3, <2>4
    <3> QED BY <3>1, <3>2
  <2>7. Kept
    BY <1>6, <2>2, <2>4, <2>5 DEF OldItem
  <2> QED BY <2>6, <2>7
<1>7. CASE ~CommitMove /\ ~(\E c \in Codes, o \in OrderNos : Consume(c, o)) /\ ~(\E o \in OrderNos : DeleteOrder(o))
  <2>1. ASSUME NEW c \in Codes, NEW n \in Notes, EditNote(c, n) PROVE db'.orders = db.orders /\ db'.items = db.items
    BY <1>0, <2>1, EditNoteTables
  <2>2. DefaultSku \/ CommitItems => db'.orders = db.orders /\ db'.items = db.items
    BY <1>0, DefaultSkuTables, CommitItemsTables
  <2>3. db'.items = db.items /\ Keys(db.orders) = Keys(db'.orders)
    BY <1>7, <2>1, <2>2, TableStepsOfUpgrade
  <2> QED BY <1>3, <2>3
<1> QED BY <1>4, <1>5, <1>6, <1>7

-----------------------------------------------------------------------------
(* Upgrade: types.                                                         *)

LEMMA OrdersTyped ==
    ASSUME TablesInv, ScriptType, [UpgradeNext]_upgradeVars
    PROVE  db'.orders \in NotesOf(OrderRow)
<1>0. /\ db \in Tables /\ db.orders \in NotesOf(OrderRow) /\ second \in 0 .. 1
      /\ DOMAIN tx.notes \subseteq OrderNos /\ \A x \in DOMAIN tx.notes : tx.notes[x] \in Notes
  BY NotesOfType DEF TablesInv, Tables, ScriptType, Transactions
<1>1. DOMAIN db.orders \subseteq OrderNos /\ (\A x \in DOMAIN db.orders : db.orders[x] \in OrderRow)
  BY <1>0, NotesOfType
<1>2. ASSUME NEW c \in Codes, NEW o \in OrderNos, Consume(c, o) PROVE db'.orders \in NotesOf(OrderRow)
  <2>1. /\ Keys(db'.orders) = Keys(db.orders) \cup {o} /\ db'.orders = [x \in Keys(db'.orders) |-> db'.orders[x]]
        /\ db'.orders[o] = [invite |-> c, note |-> BuyerNote, at |-> second]
    BY <1>0, <1>2, ConsumeTables
  <2>2. \A x \in Keys(db.orders) : db'.orders[x] = db.orders[x]
    BY <1>0, <1>2, ConsumeTables
  <2>3. db'.orders[o] \in OrderRow
    BY <1>0, <2>1 DEF OrderRow
  <2>4. DOMAIN db'.orders \subseteq OrderNos /\ \A x \in DOMAIN db'.orders : db'.orders[x] \in OrderRow
    BY <1>1, <2>1, <2>2, <2>3 DEF Keys
  <2> QED BY <2>1, <2>4, NotesOfType DEF Keys
<1>3. ASSUME NEW o \in OrderNos, DeleteOrder(o) PROVE db'.orders \in NotesOf(OrderRow)
  <2>1. db'.orders = [x \in Keys(db.orders) \ {o} |-> db.orders[x]]
    BY <1>0, <1>3, DeleteTables
  <2>2. DOMAIN db'.orders = Keys(db.orders) \ {o} /\ db'.orders = [x \in DOMAIN db'.orders |-> db'.orders[x]]
        /\ \A x \in Keys(db.orders) \ {o} : db'.orders[x] = db.orders[x]
    BY <2>1
  <2>3. DOMAIN db'.orders \subseteq OrderNos /\ \A x \in DOMAIN db'.orders : db'.orders[x] \in OrderRow
    BY <1>1, <2>2 DEF Keys
  <2> QED BY <2>2, <2>3, NotesOfType
<1>4. CASE CommitMove
  <2>1. Keys(db'.orders) = Keys(db.orders) /\ db'.orders = [x \in Keys(db'.orders) |-> db'.orders[x]]
    BY <1>0, <1>4, CommitMoveTables
  <2>2. \A o \in Keys(db.orders) : db'.orders[o] = IF o \in Keys(tx.notes) THEN [db.orders[o] EXCEPT !.note = tx.notes[o]]
                                                   ELSE db.orders[o]
    BY <1>0, <1>4, CommitMoveTables
  <2>3. ASSUME NEW o \in Keys(db.orders), o \in Keys(tx.notes) PROVE [db.orders[o] EXCEPT !.note = tx.notes[o]] \in OrderRow
    <3>1. db.orders[o] \in OrderRow /\ tx.notes[o] \in Notes
      BY <1>0, <1>1, <2>3 DEF Keys
    <3> QED BY <3>1 DEF OrderRow
  <2>4. \A o \in Keys(db.orders) : db'.orders[o] \in OrderRow
    <3> TAKE o \in Keys(db.orders)
    <3>1. CASE o \in Keys(tx.notes)
      <4>1. db'.orders[o] = [db.orders[o] EXCEPT !.note = tx.notes[o]]
        BY <2>2, <3>1
      <4> QED BY <2>3, <3>1, <4>1
    <3>2. CASE o \notin Keys(tx.notes)
      BY <1>1, <2>2, <3>2 DEF Keys
    <3> QED BY <3>1, <3>2
  <2>5. DOMAIN db'.orders \subseteq OrderNos /\ \A x \in DOMAIN db'.orders : db'.orders[x] \in OrderRow
    BY <1>1, <2>1, <2>4 DEF Keys
  <2> QED BY <2>1, <2>5, NotesOfType DEF Keys
<1>5. CASE ~CommitMove /\ ~(\E c \in Codes, o \in OrderNos : Consume(c, o)) /\ ~(\E o \in OrderNos : DeleteOrder(o))
  <2>1. ASSUME NEW c \in Codes, NEW n \in Notes, EditNote(c, n) PROVE db'.orders = db.orders
    BY <1>0, <2>1, EditNoteTables
  <2>2. DefaultSku \/ CommitItems => db'.orders = db.orders
    BY <1>0, DefaultSkuTables, CommitItemsTables
  <2> QED BY <1>0, <1>5, <2>1, <2>2, TableStepsOfUpgrade
<1> QED BY <1>2, <1>3, <1>4, <1>5

LEMMA OtherTables ==
    ASSUME TablesInv, ScriptType, [UpgradeNext]_upgradeVars
    PROVE  /\ db'.codeItems \subseteq [code : Codes, run : Nat] /\ db'.sku \in BOOLEAN /\ IsTables(db')
           /\ \/ db'.codeItems = db.codeItems
              \/ /\ CommitItems /\ db'.codeItems = db.codeItems \cup {[code |-> c, run |-> starts] : c \in tx.inserted}
<1>0. /\ db \in Tables /\ db.codeItems \subseteq [code : Codes, run : Nat] /\ db.sku \in BOOLEAN /\ IsTables(db)
      /\ starts \in Nat /\ tx.inserted \subseteq Codes
  BY DEF TablesInv, Tables, ScriptType, Transactions, IsTables
<1> DEFINE Same == db'.codeItems = db.codeItems /\ db'.sku = db.sku /\ IsTables(db')
<1>1. ASSUME NEW c \in Codes, NEW o \in OrderNos, Consume(c, o) PROVE Same
  BY <1>0, <1>1, ConsumeTables
<1>2. ASSUME NEW o \in OrderNos, DeleteOrder(o) PROVE Same
  BY <1>0, <1>2, DeleteTables
<1>3. ASSUME NEW c \in Codes, NEW n \in Notes, EditNote(c, n) PROVE Same
  BY <1>0, <1>3, EditNoteTables
<1>4. CommitMove => Same
  BY <1>0, CommitMoveTables
<1>5. CASE DefaultSku
  BY <1>0, <1>5, DefaultSkuTables
<1>6. CASE CommitItems
  <2>1. /\ db'.codeItems = db.codeItems \cup {[code |-> c, run |-> starts] : c \in tx.inserted}
        /\ db'.sku = db.sku /\ IsTables(db')
    BY <1>0, <1>6, CommitItemsTables
  <2>2. {[code |-> c, run |-> starts] : c \in tx.inserted} \subseteq [code : Codes, run : Nat]
    BY <1>0
  <2> QED BY <1>0, <1>6, <2>1, <2>2
<1> QED BY <1>0, <1>1, <1>2, <1>3, <1>4, <1>5, <1>6, TableStepsOfUpgrade

LEMMA TablesKept ==
    ASSUME TablesInv, ScriptType, [UpgradeNext]_upgradeVars
    PROVE  TablesInv'
<1>1. db' \in Tables
  <2>1. db'.orders \in NotesOf(OrderRow) /\ db'.items \subseteq ItemRow /\ db'.codes \in [Codes -> CodeRow]
        /\ db'.codeItems \subseteq [code : Codes, run : Nat] /\ db'.sku \in BOOLEAN /\ IsTables(db')
    BY OrdersTyped, ItemsKept, CodesKeepOrders, OtherTables
  <2> QED BY <2>1 DEF Tables, IsTables
<1>2. second' \in 0 .. 1 /\ starts' \in Nat
  <2>1. (second' = second \/ second' = 1) /\ (starts' = starts \/ starts' = starts + 1)
    BY ZenonT(40) DEF UpgradeNext, upgradeVars, NextSecond, TakeBackup, Abort, Start, NoteScript, MultiScript, Verification,
         Consume, EditNote, DeleteOrder, ReadTargets, ReadOrders, ReadItems, UpdateNotes, ClearAttrs, CommitMove,
         CheckOrders, CheckItems, FindSku, DefaultSku, ReadCodes, InsertItem, CommitItems, CompareOrders, VerifyReport,
         VerifyItems, CountOrders, CountItems, SampleItems, CompareItems, Finish, Goto, Shop
  <2> QED BY <2>1 DEF TablesInv
<1>3. deleted' \subseteq OrderNos /\ deleted' \cap Keys(db'.orders) = {}
  BY EverSteps
<1>4. /\ \A i \in db'.items : i.order \in Keys(db'.orders) /\ i.id <= 2 * Ever'
      /\ \A i, j \in db'.items : i.id = j.id => i = j
  BY ItemsKept
<1>5. /\ backup' \in [taken : BOOLEAN, orders : NotesOf(0 .. 1), items : SUBSET ItemRow]
      /\ Keys(backup'.orders) \subseteq Known'
  <2>1. CASE backup' = backup
    BY <2>1, EverSteps DEF TablesInv
  <2>2. CASE TakeBackup
    <3> DEFINE times == [o \in Keys(db.orders) |-> db.orders[o].at]
    <3>1. backup' = [taken |-> TRUE, orders |-> times, items |-> db.items] /\ db' = db /\ deleted' = deleted
      BY <2>2 DEF TakeBackup
    <3>2. Keys(db.orders) \subseteq OrderNos /\ db.items \subseteq ItemRow
          /\ \A o \in Keys(db.orders) : db.orders[o] \in OrderRow
      BY NotesOfType DEF TablesInv, Tables, Keys
    <3>3. /\ DOMAIN times = Keys(db.orders) /\ times = [o \in DOMAIN times |-> times[o]]
          /\ \A o \in DOMAIN times : times[o] \in 0 .. 1
      BY <3>2 DEF OrderRow
    <3> HIDE DEF times
    <3>4. times \in NotesOf(0 .. 1)
      BY <3>2, <3>3, NotesOfType
    <3>5. backup'.orders = times /\ Keys(backup'.orders) = Keys(db.orders)
      BY <3>1, <3>3 DEF Keys
    <3> QED BY <3>1, <3>2, <3>4, <3>5 DEF Known
  <2>3. backup' = backup \/ TakeBackup
    BY ZenonT(40) DEF UpgradeNext, upgradeVars, NextSecond, TakeBackup, Abort, Start, NoteScript, MultiScript, Verification,
         Consume, EditNote, DeleteOrder, Shop, ReadTargets, ReadOrders, ReadItems, UpdateNotes, ClearAttrs, CommitMove,
         CheckOrders, CheckItems, FindSku, DefaultSku, ReadCodes, InsertItem, CommitItems, CompareOrders, VerifyReport,
         VerifyItems, CountOrders, CountItems, SampleItems, CompareItems, Finish, Goto
  <2> QED BY <2>1, <2>2, <2>3
<1>6. report' \in [Scripts -> Outcomes]
  BY DEF TablesInv, UpgradeNext, upgradeVars, NextSecond, TakeBackup, Abort, Start, NoteScript, MultiScript, Verification,
         Consume, EditNote, DeleteOrder, Shop, ReadTargets, ReadOrders, ReadItems, UpdateNotes, ClearAttrs, CommitMove,
         CheckOrders, CheckItems, FindSku, DefaultSku, ReadCodes, InsertItem, CommitItems, CompareOrders, VerifyReport,
         VerifyItems, CountOrders, CountItems, SampleItems, CompareItems, Finish, Goto, Outcomes
<1> QED BY <1>1, <1>2, <1>3, <1>4, <1>5, <1>6 DEF TablesInv

\* The steps that change what a script holds.
LEMMA ScriptSteps ==
    ASSUME [UpgradeNext]_upgradeVars
    PROVE  /\ tx' = tx \/ tx' = NoTx \/ UpdateNotes \/ ClearAttrs \/ ReadCodes \/ \E c \in Codes : InsertItem(c)
           /\ view' = view \/ view' = NoView \/ (\E s \in Scripts, apply \in BOOLEAN : Start(s, apply)) \/ ReadOrders
              \/ ReadItems \/ ReadCodes \/ (\E c \in Codes : InsertItem(c)) \/ CheckOrders \/ CompareOrders
              \/ \E o \in OrderNos : CompareItems(o)
           /\ files' = files \/ ReadItems
           /\ wrote' = wrote \/ CommitMove
BY DEF UpgradeNext, upgradeVars, NextSecond, TakeBackup, Abort, NoteScript, MultiScript, Verification,
       Consume, EditNote, DeleteOrder, Shop, ReadTargets, CommitMove, CheckItems, FindSku, DefaultSku, CommitItems,
       VerifyReport, VerifyItems, CountOrders, CountItems, SampleItems, Finish, Goto,
       Start, ReadOrders, ReadItems, UpdateNotes, ClearAttrs, CheckOrders, ReadCodes, InsertItem, CompareOrders, CompareItems

\* What the orders and the codes of the move are.
LEMMA TargetsTyped ==
    ASSUME TablesInv
    PROVE  /\ ConsumedOrders \subseteq Keys(db.orders) /\ ConsumedOrders \subseteq OrderNos
           /\ Targets \subseteq Consumed /\ Consumed \subseteq Codes
           /\ \A o \in ConsumedOrders : CodeOf(o) \in Codes /\ db.codes[CodeOf(o)].order = o
                                        /\ db.codes[CodeOf(o)].note \in Notes /\ db.orders[o] \in OrderRow
<1>1. /\ db.orders \in NotesOf(OrderRow) /\ db.codes \in [Codes -> CodeRow]
  BY DEF TablesInv, Tables
<1>2. DOMAIN db.orders \subseteq OrderNos /\ \A x \in DOMAIN db.orders : db.orders[x] \in OrderRow
  BY <1>1, NotesOfType
<1>3. ConsumedOrders \subseteq Keys(db.orders) /\ ConsumedOrders \subseteq OrderNos
  BY <1>2 DEF ConsumedOrders, Consumed, Keys
<1>4. ASSUME NEW o \in ConsumedOrders PROVE CodeOf(o) \in Codes /\ db.codes[CodeOf(o)].order = o
  <2>1. \E c \in Codes : db.codes[c].order = o
    BY DEF ConsumedOrders, Consumed
  <2> QED BY <2>1 DEF CodeOf
<1>5. ASSUME NEW c \in Codes PROVE db.codes[c].note \in Notes
  BY <1>1 DEF CodeRow
<1> QED BY <1>2, <1>3, <1>4, <1>5 DEF Targets, Consumed, Keys

LEMMA NothingTyped ==
    ASSUME TRUE
    PROVE  NoTx \in Transactions /\ NoView \in Views
<1> DEFINE f == [o \in {} |-> BuyerNote]
<1>1. f \in NotesOf(Notes) /\ f \in NotesOf(Notes \cup {BuyerNote})
  <2>1. DOMAIN f = {} /\ f = [x \in DOMAIN f |-> f[x]]
    OBVIOUS
  <2> HIDE DEF f
  <2> QED BY <2>1, NotesOfType
<1> HIDE DEF f
<1>2. NoTx = [open |-> FALSE, notes |-> f, cleared |-> {}, inserted |-> {}, priced |-> {}]
      /\ NoView = [orders |-> f, items |-> {}, codes |-> {}, left |-> {}, ok |-> TRUE, apply |-> FALSE]
  BY DEF NoTx, NoView, f
<1> QED BY <1>1, <1>2 DEF Transactions, Views

LEMMA TransactionTyped ==
    ASSUME TablesInv, ScriptType, [UpgradeNext]_upgradeVars
    PROVE  tx' \in Transactions
<1>0. tx \in Transactions /\ NoTx \in Transactions /\ db.items \subseteq ItemRow
  BY NothingTyped DEF ScriptType, TablesInv, Tables
<1>1. CASE UpdateNotes
  <2> DEFINE f == [o \in {db.codes[c].order : c \in Targets} |-> db.codes[CodeOf(o)].note]
  <2>1. {db.codes[c].order : c \in Targets} \subseteq ConsumedOrders
    BY TargetsTyped DEF ConsumedOrders
  <2>2. DOMAIN f \subseteq OrderNos /\ (\A x \in DOMAIN f : f[x] \in Notes) /\ f = [x \in DOMAIN f |-> f[x]]
    BY <2>1, TargetsTyped
  <2>3. tx' = [NoTx EXCEPT !.open = TRUE, !.notes = f]
    BY <1>1 DEF UpdateNotes
  <2> HIDE DEF f
  <2>4. f \in NotesOf(Notes)
    BY <2>2, NotesOfType
  <2> QED BY <1>0, <2>3, <2>4 DEF Transactions
<1>2. CASE ClearAttrs
  <2>1. \A i \in db.items : i.id \in Nat
    BY <1>0 DEF ItemRow, ItemIds
  <2>2. PICK S \in SUBSET Nat : tx' = [tx EXCEPT !.cleared = S]
    <3>1. {i.id : i \in {j \in db.items : j.sku = 1 /\ \E c \in Targets : db.codes[c].order = j.order}} \subseteq Nat
      BY <2>1
    <3> QED BY <1>2, <3>1 DEF ClearAttrs
  <2> QED BY <1>0, <2>2 DEF Transactions
<1>3. CASE ReadCodes
  BY <1>0, <1>3 DEF ReadCodes, Transactions
<1>4. ASSUME NEW c \in Codes, InsertItem(c) PROVE tx' \in Transactions
  <2>1. PICK P \in SUBSET Codes : tx' = [tx EXCEPT !.inserted = tx.inserted \cup {c}, !.priced = P]
    <3>1. (IF c \in view.codes THEN tx.priced \cup {c} ELSE tx.priced) \in SUBSET Codes
      BY <1>0 DEF Transactions
    <3>2. tx' = [tx EXCEPT !.inserted = tx.inserted \cup {c},
                           !.priced = IF c \in view.codes THEN tx.priced \cup {c} ELSE tx.priced]
      BY <1>0, <1>4 DEF InsertItem, Transactions
    <3> QED BY <3>1, <3>2
  <2> QED BY <1>0, <2>1 DEF Transactions
<1> QED BY <1>0, <1>1, <1>2, <1>3, <1>4, ScriptSteps

LEMMA ViewTyped ==
    ASSUME TablesInv, ScriptType, [UpgradeNext]_upgradeVars
    PROVE  view' \in Views
<1>0. view \in Views /\ NoView \in Views /\ db.items \subseteq ItemRow /\ backup.items \subseteq ItemRow
  BY NothingTyped DEF ScriptType, TablesInv, Tables
<1>1. ASSUME NEW s \in Scripts, NEW apply \in BOOLEAN, Start(s, apply) PROVE view' \in Views
  <2>1. PICK L \in SUBSET OrderNos : view' = [NoView EXCEPT !.apply = apply, !.left = L]
    <3>1. (IF s = "verify" THEN {i.order : i \in backup.items} ELSE {}) \in SUBSET OrderNos
      BY <1>0 DEF ItemRow
    <3> QED BY <1>1, <3>1 DEF Start
  <2> QED BY <1>0, <2>1 DEF Views
<1>2. CASE ReadOrders
  <2> DEFINE f == [o \in ConsumedOrders |-> db.orders[o].note]
  <2>1. DOMAIN f \subseteq OrderNos /\ (\A x \in DOMAIN f : f[x] \in Notes \cup {BuyerNote}) /\ f = [x \in DOMAIN f |-> f[x]]
    BY TargetsTyped DEF OrderRow
  <2>2. view' = [view EXCEPT !.orders = f]
    BY <1>2 DEF ReadOrders
  <2> HIDE DEF f
  <2>3. f \in NotesOf(Notes \cup {BuyerNote})
    BY <2>1, NotesOfType
  <2> QED BY <1>0, <2>2, <2>3 DEF Views
<1>3. CASE ReadItems
  BY <1>0, <1>3 DEF ReadItems, Views
<1>4. CASE ReadCodes
  <2>1. WithoutItem \subseteq Codes
    BY DEF WithoutItem
  <2>2. CASE view' # view
    <3>1. PICK S \in SUBSET Codes, T \in SUBSET Codes : view' = [view EXCEPT !.left = S, !.codes = T]
      BY <1>4, <2>1, <2>2 DEF ReadCodes
    <3> QED BY <1>0, <3>1 DEF Views
  <2> QED BY <1>0, <2>2
<1>5. ASSUME NEW c \in Codes, InsertItem(c) PROVE view' \in Views
  BY <1>0, <1>5 DEF InsertItem, Views
<1>6. CASE CheckOrders
  BY <1>0, <1>6 DEF CheckOrders, Views
<1>7. CASE CompareOrders
  BY <1>0, <1>7 DEF CompareOrders, Views
<1>8. ASSUME NEW o \in OrderNos, CompareItems(o) PROVE view' \in Views
  <2>1. PICK ok \in BOOLEAN : view' = [view EXCEPT !.left = view.left \ {o}, !.ok = ok]
    <3> DEFINE ok == view.ok /\ \A b \in backup.items : b.order = o => \E i \in db.items : SameItem(b, i)
    <3>1. view' = [view EXCEPT !.left = view.left \ {o}, !.ok = ok]
      BY <1>0, <1>8 DEF CompareItems, Views
    <3>2. ok \in BOOLEAN
      OBVIOUS
    <3> HIDE DEF ok
    <3> QED BY <3>1, <3>2
  <2> QED BY <1>0, <2>1 DEF Views
<1> QED BY <1>0, <1>1, <1>2, <1>3, <1>4, <1>5, <1>6, <1>7, <1>8, ScriptSteps

LEMMA FilesTyped ==
    ASSUME TablesInv, ScriptType, [UpgradeNext]_upgradeVars
    PROVE  files' \in [orders : NotesOf(Notes \cup {BuyerNote}), items : SUBSET ItemRow]
<1>1. CASE ReadItems
  <2>1. view.orders \in NotesOf(Notes \cup {BuyerNote}) /\ db.items \subseteq ItemRow
    BY DEF ScriptType, Views, TablesInv, Tables
  <2> QED BY <1>1, <2>1 DEF ReadItems, ScriptType
<1> QED BY <1>1, ScriptSteps DEF ScriptType

-----------------------------------------------------------------------------
(* Upgrade: the move of the notes.                                         *)

TypeInv == TablesInv /\ ScriptType

LEMMA NamesKept ==
    ASSUME TablesInv, [UpgradeNext]_upgradeVars, NEW o \in OrderNos
    PROVE  /\ Named(o) => Named(o)'
           /\ Targeted(o) => /\ Named(o) /\ o \in Keys(db.orders)
                             /\ o \in Keys(db'.orders) /\ ~CommitMove => Targeted(o)'
<1>0. None \notin OrderNos
  BY UpgradeAssumption
<1>1. Named(o) => Named(o)'
  BY <1>0, CodesKeepOrders DEF Named
<1>2. ASSUME Targeted(o) PROVE Named(o) /\ o \in Keys(db.orders)
  BY <1>2 DEF Targeted, Targets, Consumed, Named
<1>3. ASSUME Targeted(o), o \in Keys(db'.orders), ~CommitMove PROVE Targeted(o)'
  <2>1. PICK c \in Codes : db.codes[c].order = o /\ o \in Keys(db.orders) /\ db.orders[o].invite = c
    BY <1>3 DEF Targeted, Targets, Consumed
  <2>2. db'.codes[c].order = o
    BY <1>0, <2>1, CodesKeepOrders
  <2>3. db'.orders[o] = db.orders[o]
    BY <1>3, <2>1, OrdersKept
  <2> QED BY <1>3, <2>1, <2>2, <2>3 DEF Targeted, Targets, Consumed
<1> QED BY <1>1, <1>2, <1>3

LEMMA TransactionSteps ==
    ASSUME TypeInv, [UpgradeNext]_upgradeVars
    PROVE  /\ \/ Keys(tx'.notes) = {} /\ tx'.cleared = {}
              \/ Keys(tx'.notes) = Keys(tx.notes) /\ tx'.cleared = tx.cleared
              \/ UpdateNotes \/ ClearAttrs
           /\ UpdateNotes => /\ \A o \in Keys(tx'.notes) : o \in OrderNos /\ Targeted(o)
                             /\ tx'.cleared = {} /\ db' = db /\ deleted' = deleted
           /\ ClearAttrs => /\ tx'.notes = tx.notes /\ db' = db /\ deleted' = deleted
                            /\ tx'.cleared = {i.id : i \in {j \in db.items : j.sku = 1 /\ Targeted(j.order)}}
           /\ CommitMove => Keys(tx'.notes) = {} /\ tx'.cleared = {}
           /\ pc' = "note_commit" => ClearAttrs \/ (pc = "note_commit" /\ tx' = tx /\ ~CommitMove)
<1>0. /\ tx \in Transactions
      /\ NoTx.cleared = {} /\ Keys(NoTx.notes) = {}
  BY DEF TypeInv, ScriptType, NoTx, Keys
<1>1. UpdateNotes => /\ \A o \in Keys(tx'.notes) : o \in OrderNos /\ Targeted(o)
                     /\ tx'.cleared = {} /\ db' = db /\ deleted' = deleted
  <2> HAVE UpdateNotes
  <2> DEFINE f == [o \in {db.codes[c].order : c \in Targets} |-> db.codes[CodeOf(o)].note]
  <2>1. tx' = [NoTx EXCEPT !.open = TRUE, !.notes = f] /\ db' = db /\ deleted' = deleted
    BY DEF UpdateNotes, Goto
  <2>2. \A o \in Keys(f) : o \in OrderNos /\ Targeted(o)
    <3>1. \A c \in Targets : db.codes[c].order \in ConsumedOrders
      BY DEF Targets, ConsumedOrders
    <3> QED BY <3>1, TargetsTyped DEF Keys, Targeted, TypeInv
  <2> HIDE DEF f
  <2>3. tx'.notes = f /\ tx'.cleared = {}
    BY <2>1 DEF NoTx
  <2> QED BY <2>1, <2>2, <2>3
<1>2. ClearAttrs => /\ tx'.notes = tx.notes /\ db' = db /\ deleted' = deleted
                    /\ tx'.cleared = {i.id : i \in {j \in db.items : j.sku = 1 /\ Targeted(j.order)}}
  BY <1>0 DEF ClearAttrs, Goto, Targeted, Transactions
<1>3. CommitMove => Keys(tx'.notes) = {} /\ tx'.cleared = {}
  BY <1>0 DEF CommitMove
<1>4. ReadCodes => tx' = tx \/ (Keys(tx'.notes) = {} /\ tx'.cleared = {})
  BY <1>0 DEF ReadCodes, NoTx, Keys
<1>5. ASSUME NEW c \in Codes, InsertItem(c) PROVE tx'.notes = tx.notes /\ tx'.cleared = tx.cleared
  BY <1>0, <1>5 DEF InsertItem, Transactions
<1>6. pc' = "note_commit" => ClearAttrs \/ (pc = "note_commit" /\ tx' = tx /\ ~CommitMove)
  BY ZenonT(40) DEF UpgradeNext, upgradeVars, NextSecond, TakeBackup, Abort, NoteScript, MultiScript, Verification,
       Consume, EditNote, DeleteOrder, Shop, ReadTargets, CommitMove, CheckItems, FindSku, DefaultSku, CommitItems,
       VerifyReport, VerifyItems, CountOrders, CountItems, SampleItems, Finish, Goto, Scripts,
       Start, ReadOrders, ReadItems, UpdateNotes, CheckOrders, ReadCodes, InsertItem, CompareOrders, CompareItems
<1> QED BY <1>0, <1>1, <1>2, <1>3, <1>4, <1>5, <1>6, ScriptSteps

LEMMA MoveKept ==
    ASSUME TypeInv, MoveInv, [UpgradeNext]_upgradeVars
    PROVE  MoveInv'
<1>0. /\ TablesInv /\ db \in Tables /\ db.items \subseteq ItemRow /\ Keys(db.orders) \subseteq OrderNos
      /\ \A i \in db.items : i.order \in Keys(db.orders) /\ i.id <= 2 * Ever
      /\ \A i, j \in db.items : i.id = j.id => i = j
      /\ Keys(tx.notes) \subseteq OrderNos /\ \A o \in Keys(tx.notes) : tx.notes[o] \in Notes
      /\ tx.cleared \subseteq Nat
  BY NotesOfType DEF TypeInv, TablesInv, Tables, Keys, ScriptType, Transactions
<1>1. /\ Ever \in Nat /\ (Ever' = Ever \/ Ever' = Ever + 1)
      /\ \A i \in ItemRow : i.id \in Nat /\ i.order \in OrderNos
  BY <1>0, EverSteps DEF ItemRow, ItemIds
<1>2. \A o \in Keys(tx'.notes) : Targeted(o)'
  <2>1. CASE UpdateNotes
    <3>1. ~CommitMove
      BY <2>1 DEF UpdateNotes, CommitMove
    <3>2. \A o \in Keys(tx'.notes) : o \in OrderNos /\ Targeted(o) /\ db' = db
      BY <2>1, TransactionSteps
    <3> QED BY <1>0, <3>1, <3>2, NamesKept
  <2>2. CASE Keys(tx'.notes) = Keys(tx.notes) /\ ~CommitMove
    <3>1. \A o \in Keys(tx.notes) : o \in OrderNos /\ Targeted(o) /\ o \in Keys(db.orders)
      BY <1>0, NamesKept DEF MoveInv
    <3>2. \A o \in Keys(tx.notes) : o \in Keys(db'.orders)
      BY <1>0, <3>1, OrdersKept
    <3> QED BY <1>0, <2>2, <3>1, <3>2, NamesKept
  <2>3. CASE Keys(tx'.notes) = {}
    BY <2>3
  <2> QED BY <2>1, <2>2, <2>3, TransactionSteps
<1>3. \A n \in tx'.cleared : n <= 2 * Ever'
  <2>1. CASE ClearAttrs
    <3>1. \A n \in tx'.cleared : \E i \in db.items : n = i.id
      BY <2>1, TransactionSteps
    <3> QED BY <1>0, <1>1, <3>1
  <2>2. CASE tx'.cleared \subseteq tx.cleared
    BY <1>0, <1>1, <2>2 DEF MoveInv
  <2> QED BY <2>1, <2>2, TransactionSteps
\* The items of new orders are not among those that the script is clearing.
<1>4. \A n \in tx'.cleared : n <= 2 * Ever
  <2>1. CASE ClearAttrs
    <3>1. \A n \in tx'.cleared : \E i \in db.items : n = i.id
      BY <2>1, TransactionSteps
    <3> QED BY <1>0, <3>1
  <2>2. CASE tx'.cleared \subseteq tx.cleared
    BY <2>2 DEF MoveInv
  <2> QED BY <2>1, <2>2, TransactionSteps
<1>5. ASSUME NEW i \in db'.items, i.id \in tx'.cleared \/ ~i.attrs PROVE Named(i.order)'
  <2>1. CASE NewItem(i)
    BY <1>1, <1>4, <1>5, <2>1 DEF NewItem
  <2>2. ASSUME NEW j \in db.items, SameItem(j, i), i = j \/ (CommitMove /\ i = ClearedItem(j))
        PROVE  Named(i.order)'
    <3>1. i.id = j.id /\ i.order = j.order /\ j \in ItemRow /\ j.order \in OrderNos
      BY <1>0, <1>1, <2>2 DEF SameItem
    <3>2. Named(j.order)
      <4>1. CASE ClearAttrs
        <5>1. CASE j.id \in tx'.cleared
          <6>1. PICK k \in db.items : k.id = j.id /\ Targeted(k.order)
            BY <4>1, <5>1, TransactionSteps
          <6>2. k = j
            BY <1>0, <6>1
          <6> QED BY <1>0, <3>1, <6>1, <6>2, NamesKept
        <5>2. CASE j.id \notin tx'.cleared
          <6>1. ~CommitMove
            BY <4>1 DEF ClearAttrs, CommitMove
          <6> QED BY <1>5, <2>2, <3>1, <5>2, <6>1 DEF MoveInv
        <5> QED BY <5>1, <5>2
      <4>2. CASE ~ClearAttrs
        <5>1. tx'.cleared \subseteq tx.cleared
          BY <4>2, TransactionSteps
        <5>2. ~i.attrs => ~j.attrs \/ j.id \in tx.cleared
          BY <2>2, <3>1, ClearedItemIs
        <5> QED BY <1>5, <3>1, <5>1, <5>2 DEF MoveInv
      <4> QED BY <4>1, <4>2
    <3> QED BY <1>0, <3>1, <3>2, NamesKept
  <2> QED BY <1>0, <2>1, <2>2, ItemsKept DEF OldItem
<1>6. ASSUME pc' = "note_commit", NEW i \in db'.items, i.sku = 1, i.order \in Keys(tx'.notes)
      PROVE  i.id \in tx'.cleared
  <2>1. CASE ClearAttrs
    <3>1. i \in db.items /\ Targeted(i.order)
      BY <1>6, <2>1, TransactionSteps DEF MoveInv
    <3> QED BY <1>6, <2>1, <3>1, TransactionSteps
  <2>2. CASE pc = "note_commit" /\ tx' = tx /\ ~CommitMove
    <3>1. i.order \in Known
      BY <1>0, <1>6, <2>2, NamesKept DEF MoveInv, Known
    <3>2. i \in db.items
      BY <1>0, <2>2, <3>1, ItemsKept DEF OldItem, NewItem
    <3> QED BY <1>6, <2>2, <3>2 DEF MoveInv
  <2> QED BY <1>6, <2>1, <2>2, TransactionSteps
<1>7. ASSUME NEW i \in db'.items, i.sku = 1, i.attrs PROVE db'.orders[i.order].note = BuyerNote
  <2>0. i.order \in Keys(db'.orders)
    BY <1>0, ItemsKept
  <2>1. CASE i.order \notin Keys(db.orders)
    BY <1>0, <2>0, <2>1, OrdersKept
  <2>2. CASE i.order \in Keys(db.orders)
    <3>1. ~NewItem(i)
      BY <2>2 DEF NewItem, Known
    <3>2. PICK j \in db.items : SameItem(j, i) /\ (i = j \/ (CommitMove /\ i = ClearedItem(j)))
      BY <1>0, <3>1, ItemsKept DEF OldItem
    <3>3. j \in ItemRow /\ j.sku = 1 /\ j.order = i.order /\ j.id = i.id
      BY <1>0, <1>7, <3>2 DEF SameItem
    <3>4. j.attrs
      BY <1>7, <3>2, <3>3, ClearedItemIs
    <3>5. db.orders[i.order].note = BuyerNote
      BY <3>3, <3>4 DEF MoveInv, CopiedIsCleared
    <3>6. CASE CommitMove
      <4>1. i = ClearedItem(j)
        <5>1. CASE i = j
          <6>1. PICK k \in db.items : i = ClearedItem(k)
            <7>1. db'.items = {ClearedItem(k) : k \in db.items}
              BY <1>0, <3>6, CommitMoveTables
            <7> QED BY <7>1
          <6>2. k.id = i.id
            BY <1>0, <6>1, ClearedItemIs DEF SameItem
          <6> QED BY <1>0, <3>2, <3>3, <6>1, <6>2
        <5> QED BY <3>2, <5>1
      <4>2. j.id \notin tx.cleared
        BY <1>7, <3>3, <4>1, ClearedItemIs
      <4>3. pc = "note_commit" /\ i.order \notin Keys(tx.notes)
        BY <3>3, <3>6, <4>2 DEF MoveInv, CommitMove
      <4>4. db'.orders[i.order] = db.orders[i.order]
        BY <1>0, <2>2, <3>6, <4>3, CommitMoveTables
      <4> QED BY <3>5, <4>4
    <3>7. CASE ~CommitMove
      BY <1>0, <2>0, <2>2, <3>5, <3>7, OrdersKept
    <3> QED BY <3>6, <3>7
  <2> QED BY <2>1, <2>2
<1> QED BY <1>2, <1>3, <1>5, <1>6, <1>7 DEF MoveInv, CopiedIsCleared

-----------------------------------------------------------------------------
(* Upgrade: what a success of the move means.                              *)

\* The order of the script's statements, and what each leaves alone.
LEMMA NoteSteps ==
    ASSUME TablesInv, [UpgradeNext]_upgradeVars
    PROVE  /\ pc' = "note_items" => ReadOrders \/ (pc = "note_items" /\ view' = view /\ ~CommitMove)
           /\ pc' \in {"note_update", "note_clear", "note_commit"} =>
                    \/ ReadItems
                    \/ pc \in {"note_update", "note_clear", "note_commit"} /\ files' = files /\ ~CommitMove
           /\ pc' \in {"note_final", "note_final_items"} =>
                    \/ CommitMove /\ files' = files
                    \/ pc \in {"note_final", "note_final_items"} /\ files' = files /\ wrote' = wrote
           /\ pc' = "note_final_items" =>
                    \/ CheckOrders /\ pc = "note_final"
                    \/ pc = "note_final_items" /\ view' = view /\ files' = files /\ wrote' = wrote /\ ~CommitMove
           /\ pc \notin NotePcs /\ report'["note"] = "ok" => pc' \notin NotePcs
           /\ report'["note"] = "ok" =>
                    \/ report["note"] = "ok"
                    \/ pc = "note_final_items" /\ pc' = "idle" /\ view.ok /\ db' = db /\ files' = files /\ wrote' = wrote
           /\ pc \notin NotePcs => ~CommitMove /\ files' = files /\ wrote' = wrote
<1>1. pc' = "note_items" => ReadOrders \/ (pc = "note_items" /\ view' = view /\ ~CommitMove)
  BY ZenonT(40) DEF UpgradeNext, upgradeVars, NextSecond, TakeBackup, Abort, NoteScript, MultiScript, Verification,
         Consume, EditNote, DeleteOrder, Shop, ReadTargets, CommitMove, CheckItems, FindSku, DefaultSku, CommitItems,
         VerifyReport, VerifyItems, CountOrders, CountItems, SampleItems, Finish, Goto, Scripts, Start, ReadOrders,
         ReadItems, UpdateNotes, ClearAttrs, CheckOrders, ReadCodes, InsertItem, CompareOrders, CompareItems
<1>2. pc' \in {"note_update", "note_clear", "note_commit"} =>
         \/ ReadItems
         \/ pc \in {"note_update", "note_clear", "note_commit"} /\ files' = files /\ ~CommitMove
  BY ZenonT(40) DEF UpgradeNext, upgradeVars, NextSecond, TakeBackup, Abort, NoteScript, MultiScript, Verification,
         Consume, EditNote, DeleteOrder, Shop, ReadTargets, CommitMove, CheckItems, FindSku, DefaultSku, CommitItems,
         VerifyReport, VerifyItems, CountOrders, CountItems, SampleItems, Finish, Goto, Scripts, Start, ReadOrders,
         ReadItems, UpdateNotes, ClearAttrs, CheckOrders, ReadCodes, InsertItem, CompareOrders, CompareItems
<1>3. pc' \in {"note_final", "note_final_items"} =>
         \/ CommitMove /\ files' = files
         \/ pc \in {"note_final", "note_final_items"} /\ files' = files /\ wrote' = wrote
  BY ZenonT(40) DEF UpgradeNext, upgradeVars, NextSecond, TakeBackup, Abort, NoteScript, MultiScript, Verification,
         Consume, EditNote, DeleteOrder, Shop, ReadTargets, CommitMove, CheckItems, FindSku, DefaultSku, CommitItems,
         VerifyReport, VerifyItems, CountOrders, CountItems, SampleItems, Finish, Goto, Scripts, Start, ReadOrders,
         ReadItems, UpdateNotes, ClearAttrs, CheckOrders, ReadCodes, InsertItem, CompareOrders, CompareItems
<1>4. pc' = "note_final_items" =>
         \/ CheckOrders /\ pc = "note_final"
         \/ pc = "note_final_items" /\ view' = view /\ files' = files /\ wrote' = wrote /\ ~CommitMove
  BY ZenonT(40) DEF UpgradeNext, upgradeVars, NextSecond, TakeBackup, Abort, NoteScript, MultiScript, Verification,
         Consume, EditNote, DeleteOrder, Shop, ReadTargets, CommitMove, CheckItems, FindSku, DefaultSku, CommitItems,
         VerifyReport, VerifyItems, CountOrders, CountItems, SampleItems, Finish, Goto, Scripts, Start, ReadOrders,
         ReadItems, UpdateNotes, ClearAttrs, CheckOrders, ReadCodes, InsertItem, CompareOrders, CompareItems
<1>5. pc \notin NotePcs /\ report'["note"] = "ok" => pc' \notin NotePcs
  BY ZenonT(40) DEF UpgradeNext, upgradeVars, NextSecond, TakeBackup, Abort, NoteScript, MultiScript, Verification,
         Consume, EditNote, DeleteOrder, Shop, ReadTargets, CommitMove, CheckItems, FindSku, DefaultSku, CommitItems,
         VerifyReport, VerifyItems, CountOrders, CountItems, SampleItems, Finish, Goto, Scripts, Start, ReadOrders,
         ReadItems, UpdateNotes, ClearAttrs, CheckOrders, ReadCodes, InsertItem, CompareOrders, CompareItems, TablesInv, NotePcs
<1>6. report'["note"] = "ok" =>
         \/ report["note"] = "ok"
         \/ pc = "note_final_items" /\ pc' = "idle" /\ view.ok /\ db' = db /\ files' = files /\ wrote' = wrote
  BY ZenonT(40) DEF UpgradeNext, upgradeVars, NextSecond, TakeBackup, Abort, NoteScript, MultiScript, Verification,
         Consume, EditNote, DeleteOrder, Shop, ReadTargets, CommitMove, CheckItems, FindSku, DefaultSku, CommitItems,
         VerifyReport, VerifyItems, CountOrders, CountItems, SampleItems, Finish, Goto, Scripts, Start, ReadOrders,
         ReadItems, UpdateNotes, ClearAttrs, CheckOrders, ReadCodes, InsertItem, CompareOrders, CompareItems, TablesInv
<1>7. pc \notin NotePcs => ~CommitMove /\ files' = files /\ wrote' = wrote
  BY ScriptSteps DEF NotePcs, CommitMove, ReadItems
<1> QED BY <1>1, <1>2, <1>3, <1>4, <1>5, <1>6, <1>7

\* What a step that is not the commit leaves true.
LEMMA NotesStay ==
    ASSUME TypeInv, MoveInv, [UpgradeNext]_upgradeVars, ~CommitMove
    PROVE  /\ \A o \in Keys(db'.orders) : o \in Known => o \in Keys(db.orders) /\ db'.orders[o] = db.orders[o]
           /\ Moved => Moved'
           /\ Known \subseteq Known'
<1>1. TablesInv /\ deleted \cap Keys(db'.orders) = {}
  BY EverSteps, OrdersKept DEF TypeInv
<1>2. ASSUME NEW o \in Keys(db'.orders), o \in Known PROVE o \in Keys(db.orders) /\ db'.orders[o] = db.orders[o]
  BY <1>1, <1>2, OrdersKept DEF Known
<1>3. Known \subseteq Known'
  BY <1>1, EverSteps
<1>4. ASSUME Moved, NEW o \in Keys(db'.orders), Cleared(o)' PROVE db'.orders[o].note # BuyerNote
  <2>1. PICK i \in db'.items : i.order = o /\ i.sku = 1 /\ ~i.attrs
    BY <1>4 DEF Cleared
  <2>2. i \in db.items
    BY <1>1, <2>1, ItemsKept DEF OldItem, NewItem
  <2>3. o \in Keys(db.orders) /\ Cleared(o)
    BY <1>1, <2>1, <2>2 DEF TablesInv, Cleared
  <2> QED BY <1>2, <1>4, <2>3 DEF Moved, Known
<1> QED BY <1>2, <1>3, <1>4 DEF Moved

LEMMA VerdictKept ==
    ASSUME TypeInv, MoveInv, VerdictInv, [UpgradeNext]_upgradeVars
    PROVE  VerdictInv'
<1>0. /\ TablesInv /\ Keys(db.orders) \subseteq OrderNos /\ Keys(db.orders) \subseteq Known
      /\ Keys(tx.notes) \subseteq OrderNos /\ tx \in Transactions
      /\ view \in Views /\ files \in [orders : NotesOf(Notes \cup {BuyerNote}), items : SUBSET ItemRow]
  BY NotesOfType DEF TypeInv, TablesInv, Tables, Keys, ScriptType, Transactions, Known
<1>1. Known \subseteq Known'
  BY <1>0, EverSteps
<1>2. ASSUME ~CommitMove, NEW f, Agrees(f) PROVE /\ Keys(f) \subseteq Known'
                                                 /\ \A o \in Keys(f) \cap Keys(db'.orders) : f[o] = db'.orders[o].note
  BY <1>1, <1>2, NotesStay DEF Agrees
<1>3. ASSUME ~CommitMove, wrote' = wrote, files' = files, Undoable PROVE Undoable'
  <2>1. \A o \in Keys(wrote) \cap Keys(db'.orders) : o \in Keys(db.orders)
    BY <1>3, NotesStay DEF VerdictInv
  <2> QED BY <1>3, <2>1 DEF Undoable
<1>4. ASSUME report'["note"] = "ok" PROVE pc' \notin NotePcs /\ Moved' /\ Undoable'
  <2>1. CASE report["note"] = "ok"
    <3>1. pc \notin NotePcs /\ Moved /\ Undoable
      BY <2>1 DEF VerdictInv
    <3>2. pc' \notin NotePcs /\ ~CommitMove /\ files' = files /\ wrote' = wrote
      BY <1>0, <1>4, <3>1, NoteSteps
    <3> QED BY <1>3, <3>1, <3>2, NotesStay
  <2>2. CASE pc = "note_final_items" /\ pc' = "idle" /\ view.ok /\ db' = db /\ files' = files /\ wrote' = wrote
    <3>1. Moved /\ Undoable /\ pc' \notin NotePcs
      BY <2>2 DEF VerdictInv, NotePcs
    <3> QED BY <2>2, <3>1 DEF Moved, Undoable, Cleared
  <2> QED BY <1>0, <1>4, <2>1, <2>2, NoteSteps
<1>5. ASSUME pc' = "note_final_items", view'.ok PROVE Moved' /\ Undoable'
  <2>1. CASE CheckOrders /\ pc = "note_final"
    <3>1. OrderErrors = {} /\ db' = db /\ files' = files /\ wrote' = wrote
      BY <1>0, <1>5, <2>1 DEF CheckOrders, Goto, Views
    <3>2. \A o \in ConsumedOrders : o \in Keys(files.orders) /\ db.orders[o].note = db.codes[CodeOf(o)].note
      BY <3>1 DEF OrderErrors
    <3>3. \A o \in ConsumedOrders : db.orders[o].note # BuyerNote
      BY <1>0, <3>2, TargetsTyped, UpgradeAssumption
    <3>4. \A o \in Keys(db.orders) : Named(o) => o \in ConsumedOrders
      BY DEF Named, ConsumedOrders, Consumed
    <3>5. Moved
      <4>1. \A o \in Keys(db.orders) : Cleared(o) => Named(o)
        BY DEF Cleared, MoveInv
      <4> QED BY <3>3, <3>4, <4>1 DEF Moved
    <3>6. Undoable
      <4>1. \A o \in Keys(wrote) \cap Keys(db.orders) : o \in Keys(files.orders)
        BY <3>2, <3>4 DEF VerdictInv
      <4>2. \A o \in Keys(wrote) \cap Keys(files.orders) : files.orders[o] = wrote[o]
        BY <2>1 DEF VerdictInv
      <4> QED BY <4>1, <4>2 DEF Undoable
    <3> QED BY <3>1, <3>5, <3>6 DEF Moved, Undoable, Cleared
  <2>2. CASE pc = "note_final_items" /\ view' = view /\ files' = files /\ wrote' = wrote /\ ~CommitMove
    <3>1. Moved /\ Undoable
      BY <1>5, <2>2 DEF VerdictInv
    <3> QED BY <1>3, <2>2, <3>1, NotesStay
  <2> QED BY <1>0, <1>5, <2>1, <2>2, NoteSteps
<1>6. ASSUME pc' = "note_items" PROVE Agrees(view.orders)'
  <2>1. CASE ReadOrders
    <3> DEFINE f == [o \in ConsumedOrders |-> db.orders[o].note]
    <3>1. view' = [view EXCEPT !.orders = f] /\ db' = db /\ deleted' = deleted
      BY <2>1 DEF ReadOrders, Goto
    <3>2. Keys(f) \subseteq Known /\ \A o \in Keys(f) \cap Keys(db.orders) : f[o] = db.orders[o].note
      BY <1>0, TargetsTyped DEF Keys
    <3> HIDE DEF f
    <3>3. view'.orders = f
      BY <1>0, <3>1 DEF Views
    <3> QED BY <3>1, <3>2, <3>3 DEF Agrees, Known
  <2>2. CASE pc = "note_items" /\ view' = view /\ ~CommitMove
    <3>1. Agrees(view.orders)
      BY <2>2 DEF VerdictInv
    <3> QED BY <1>2, <2>2, <3>1 DEF Agrees
  <2> QED BY <1>0, <1>6, <2>1, <2>2, NoteSteps
<1>7. ASSUME pc' \in {"note_update", "note_clear", "note_commit"} PROVE Agrees(files.orders)'
  <2>1. CASE ReadItems
    <3>1. pc = "note_items" /\ files'.orders = view.orders /\ db' = db /\ deleted' = deleted
      BY <1>7, <2>1 DEF ReadItems, Finish, Goto
    <3>2. Agrees(view.orders)
      BY <3>1 DEF VerdictInv
    <3> QED BY <3>1, <3>2 DEF Agrees, Known
  <2>2. CASE pc \in {"note_update", "note_clear", "note_commit"} /\ files' = files /\ ~CommitMove
    <3>1. Agrees(files.orders)
      BY <2>2 DEF VerdictInv
    <3> QED BY <1>2, <2>2, <3>1 DEF Agrees
  <2> QED BY <1>0, <1>7, <2>1, <2>2, NoteSteps
<1>8. CASE CommitMove
  <2>1. /\ pc = "note_commit" /\ wrote' = [o \in Keys(tx.notes) |-> db.orders[o].note] /\ deleted' = deleted
        /\ Keys(db'.orders) = Keys(db.orders)
    BY <1>0, <1>8, CommitMoveTables DEF TablesInv
  <2>2. files' = files
    BY <1>8 DEF CommitMove
  <2>3. Keys(wrote') = Keys(tx.notes) /\ \A o \in Keys(wrote') : wrote'[o] = db.orders[o].note
    BY <2>1 DEF Keys
  <2>4. \A o \in Keys(tx.notes) : Named(o) /\ o \in Keys(db.orders) /\ o \in OrderNos
    BY <1>0, NamesKept DEF MoveInv
  <2>5. Agrees(files.orders)
    BY <2>1 DEF VerdictInv
  <2>6. \A o \in Keys(wrote') \cap Keys(files'.orders) : files'.orders[o] = wrote'[o]
    BY <2>2, <2>3, <2>4, <2>5 DEF Agrees
  <2>7. \A o \in Keys(wrote') : Named(o)'
    BY <1>0, <2>3, <2>4, NamesKept
  <2>8. Keys(wrote') \subseteq Known'
    BY <1>0, <1>1, <2>3, <2>4
  <2> QED BY <1>4, <1>5, <1>6, <1>7, <2>6, <2>7, <2>8 DEF VerdictInv
<1>9. CASE ~CommitMove
  <2>1. wrote' = wrote
    BY <1>9, ScriptSteps
  <2>2. Keys(wrote) \subseteq Known /\ Known \subseteq OrderNos /\ \A o \in Keys(wrote) : Named(o)
    BY <1>0 DEF VerdictInv, Known, TablesInv
  <2>3. Keys(wrote') \subseteq Known' /\ \A o \in Keys(wrote') : Named(o)'
    BY <1>0, <1>1, <2>1, <2>2, NamesKept
  <2>4. pc' \in {"note_final", "note_final_items"} =>
          \A o \in Keys(wrote') \cap Keys(files'.orders) : files'.orders[o] = wrote'[o]
    BY <1>0, <1>9, NoteSteps DEF VerdictInv
  <2> QED BY <1>4, <1>5, <1>6, <1>7, <2>3, <2>4 DEF VerdictInv
<1> QED BY <1>8, <1>9

-----------------------------------------------------------------------------
(* Upgrade: the items of the codes.                                        *)

LEMMA MultiSteps ==
    ASSUME TablesInv, [UpgradeNext]_upgradeVars
    PROVE  /\ pc' = "multi_insert" => \/ ReadCodes \/ \E c \in Codes : InsertItem(c)
                                      \/ (pc = "multi_insert" /\ tx' = tx /\ view' = view /\ ~CommitItems)
           /\ pc' = "multi_commit" => \/ \E c \in Codes : InsertItem(c)
                                      \/ (pc = "multi_commit" /\ tx' = tx /\ ~CommitItems)
           /\ report'["multi"] = "ok" => report["multi"] = "ok" \/ (ReadCodes /\ WithoutItem = {}) \/ CommitItems
<1>1. pc' = "multi_insert" => \/ ReadCodes \/ \E c \in Codes : InsertItem(c)
                              \/ (pc = "multi_insert" /\ tx' = tx /\ view' = view /\ ~CommitItems)
  BY ZenonT(40) DEF UpgradeNext, upgradeVars, NextSecond, TakeBackup, Abort, NoteScript, MultiScript, Verification,
         Consume, EditNote, DeleteOrder, Shop, ReadTargets, CommitMove, CheckItems, FindSku, DefaultSku, CommitItems,
         VerifyReport, VerifyItems, CountOrders, CountItems, SampleItems, Finish, Goto, Scripts, Start, ReadOrders,
         ReadItems, UpdateNotes, ClearAttrs, CheckOrders, ReadCodes, InsertItem, CompareOrders, CompareItems, TablesInv
<1>2. pc' = "multi_commit" => \/ \E c \in Codes : InsertItem(c)
                              \/ (pc = "multi_commit" /\ tx' = tx /\ ~CommitItems)
  BY ZenonT(40) DEF UpgradeNext, upgradeVars, NextSecond, TakeBackup, Abort, NoteScript, MultiScript, Verification,
         Consume, EditNote, DeleteOrder, Shop, ReadTargets, CommitMove, CheckItems, FindSku, DefaultSku, CommitItems,
         VerifyReport, VerifyItems, CountOrders, CountItems, SampleItems, Finish, Goto, Scripts, Start, ReadOrders,
         ReadItems, UpdateNotes, ClearAttrs, CheckOrders, ReadCodes, InsertItem, CompareOrders, CompareItems, TablesInv
<1>3. report'["multi"] = "ok" => report["multi"] = "ok" \/ (ReadCodes /\ WithoutItem = {}) \/ CommitItems
  BY ZenonT(40) DEF UpgradeNext, upgradeVars, NextSecond, TakeBackup, Abort, NoteScript, MultiScript, Verification,
         Consume, EditNote, DeleteOrder, Shop, ReadTargets, CommitMove, CheckItems, FindSku, DefaultSku, CommitItems,
         VerifyReport, VerifyItems, CountOrders, CountItems, SampleItems, Finish, Goto, Scripts, Start, ReadOrders,
         ReadItems, UpdateNotes, ClearAttrs, CheckOrders, ReadCodes, InsertItem, CompareOrders, CompareItems, TablesInv
<1> QED BY <1>1, <1>2, <1>3

LEMMA ItemsOfCodesKept ==
    ASSUME TypeInv, ItemsInv, [UpgradeNext]_upgradeVars
    PROVE  ItemsInv'
<1>0. /\ TablesInv /\ tx \in Transactions /\ view \in Views /\ starts \in Nat
      /\ db.codeItems \subseteq [code : Codes, run : Nat]
  BY DEF TypeInv, ScriptType, TablesInv, Tables
<1>1. db'.codeItems = db.codeItems => WithoutItem' = WithoutItem
  BY DEF WithoutItem
<1>2. CASE CommitItems
  <2> DEFINE new == {[code |-> c, run |-> starts] : c \in tx.inserted}
  <2>1. /\ db'.codeItems = db.codeItems \cup new /\ tx.inserted = WithoutItem /\ pc' = "idle"
    BY <1>0, <1>2, CommitItemsTables DEF TablesInv, ItemsInv
  <2>2. /\ \A i \in new : i.code \in WithoutItem
        /\ \A i, j \in new : i.code = j.code => i = j
        /\ \A c \in WithoutItem : \E i \in new : i.code = c
    <3>1. \A i \in new : \E c \in tx.inserted : i = [code |-> c, run |-> starts]
      OBVIOUS
    <3>2. \A c \in tx.inserted : [code |-> c, run |-> starts] \in new
      OBVIOUS
    <3> HIDE DEF new
    <3>3. \A i \in new : i.code \in tx.inserted /\ i = [code |-> i.code, run |-> starts]
      BY <3>1
    <3>4. \A c \in tx.inserted : \E i \in new : i.code = c
      BY <3>2
    <3>5. tx.inserted = WithoutItem
      BY <2>1
    <3>6. \A i, j \in new : i.code = j.code => i = j
      BY <3>3
    <3> QED BY <3>3, <3>4, <3>5, <3>6
  <2> HIDE DEF new
  <2>3. \A i, j \in db'.codeItems : i.code = j.code => i = j
    BY <2>1, <2>2 DEF ItemsInv, OneItemPerCode, WithoutItem
  <2>4. WithoutItem' = {}
    BY <2>1, <2>2 DEF WithoutItem
  <2> QED BY <2>1, <2>3, <2>4 DEF ItemsInv, OneItemPerCode
<1>3. CASE ~CommitItems
  <2>1. db'.codeItems = db.codeItems /\ WithoutItem' = WithoutItem
    BY <1>1, <1>3, OtherTables DEF TypeInv
  <2>2. OneItemPerCode'
    <3>1. report'["multi"] = "ok" => WithoutItem = {}
      BY <1>0, <1>3, MultiSteps DEF ItemsInv, OneItemPerCode
    <3> QED BY <2>1, <3>1 DEF ItemsInv, OneItemPerCode
  <2>3. ASSUME NEW c \in Codes, InsertItem(c)
        PROVE  /\ pc = "multi_insert" /\ c \in view.left /\ tx'.inserted = tx.inserted \cup {c} /\ view'.left = view.left \ {c}
               /\ pc' = IF view.left = {c} THEN "multi_commit" ELSE "multi_insert"
    BY <1>0, <2>3 DEF InsertItem, Goto, Transactions, Views
  <2>4. ASSUME pc' = "multi_insert" PROVE tx'.inserted \cup view'.left = WithoutItem
    <3>1. CASE ReadCodes
      BY <1>0, <2>4, <3>1 DEF ReadCodes, Finish, Goto, Views, NoTx
    <3>2. ASSUME NEW c \in Codes, InsertItem(c) PROVE tx'.inserted \cup view'.left = WithoutItem
      BY <2>3, <3>2 DEF ItemsInv
    <3> QED BY <1>0, <2>4, <3>1, <3>2, MultiSteps DEF ItemsInv
  <2>5. ASSUME pc' = "multi_commit" PROVE tx'.inserted = WithoutItem
    <3>1. ASSUME NEW c \in Codes, InsertItem(c) PROVE tx'.inserted = WithoutItem
      BY <2>3, <2>5, <3>1 DEF ItemsInv
    <3> QED BY <1>0, <2>5, <3>1, MultiSteps DEF ItemsInv
  <2> QED BY <2>1, <2>2, <2>4, <2>5 DEF ItemsInv
<1> QED BY <1>2, <1>3

-----------------------------------------------------------------------------
(* Upgrade: what a difference means.                                       *)

LEMMA VerifySteps ==
    ASSUME TablesInv, [UpgradeNext]_upgradeVars
    PROVE  /\ pc' \in {"verify", "verify_items", "verify_end"} =>
                 pc \in {"verify", "verify_items", "verify_end"} \/ backup.taken
           /\ pc' \in {"verify_items", "verify_end"} =>
                 \/ CompareOrders \/ \E o \in OrderNos : CompareItems(o)
                 \/ (pc \in {"verify_items", "verify_end"} /\ view' = view)
           /\ report'["verify"] # "none" => report["verify"] # "none" \/ VerifyReport
           /\ report'["verify"] = "errors" => report["verify"] = "errors" \/ (VerifyReport /\ ~view.ok)
           /\ backup' = backup \/ (TakeBackup /\ ~backup.taken)
<1>1. pc' \in {"verify", "verify_items", "verify_end"} =>
         pc \in {"verify", "verify_items", "verify_end"} \/ backup.taken
  BY ZenonT(40) DEF UpgradeNext, upgradeVars, NextSecond, TakeBackup, Abort, NoteScript, MultiScript, Verification,
         Consume, EditNote, DeleteOrder, Shop, ReadTargets, CommitMove, CheckItems, FindSku, DefaultSku, CommitItems,
         VerifyReport, VerifyItems, CountOrders, CountItems, SampleItems, Finish, Goto, Scripts, Start, ReadOrders,
         ReadItems, UpdateNotes, ClearAttrs, CheckOrders, ReadCodes, InsertItem, CompareOrders, CompareItems, TablesInv
<1>2. pc' \in {"verify_items", "verify_end"} =>
         \/ CompareOrders \/ \E o \in OrderNos : CompareItems(o)
         \/ (pc \in {"verify_items", "verify_end"} /\ view' = view)
  BY ZenonT(40) DEF UpgradeNext, upgradeVars, NextSecond, TakeBackup, Abort, NoteScript, MultiScript, Verification,
         Consume, EditNote, DeleteOrder, Shop, ReadTargets, CommitMove, CheckItems, FindSku, DefaultSku, CommitItems,
         VerifyReport, VerifyItems, CountOrders, CountItems, SampleItems, Finish, Goto, Scripts, Start, ReadOrders,
         ReadItems, UpdateNotes, ClearAttrs, CheckOrders, ReadCodes, InsertItem, CompareOrders, CompareItems, TablesInv
<1>3. report'["verify"] # "none" => report["verify"] # "none" \/ VerifyReport
  BY ZenonT(40) DEF UpgradeNext, upgradeVars, NextSecond, TakeBackup, Abort, NoteScript, MultiScript, Verification,
         Consume, EditNote, DeleteOrder, Shop, ReadTargets, CommitMove, CheckItems, FindSku, DefaultSku, CommitItems,
         VerifyReport, VerifyItems, CountOrders, CountItems, SampleItems, Finish, Goto, Scripts, Start, ReadOrders,
         ReadItems, UpdateNotes, ClearAttrs, CheckOrders, ReadCodes, InsertItem, CompareOrders, CompareItems, TablesInv
<1>4. report'["verify"] = "errors" => report["verify"] = "errors" \/ (VerifyReport /\ ~view.ok)
  BY ZenonT(40) DEF UpgradeNext, upgradeVars, NextSecond, TakeBackup, Abort, NoteScript, MultiScript, Verification,
         Consume, EditNote, DeleteOrder, Shop, ReadTargets, CommitMove, CheckItems, FindSku, DefaultSku, CommitItems,
         VerifyReport, VerifyItems, CountOrders, CountItems, SampleItems, Finish, Goto, Scripts, Start, ReadOrders,
         ReadItems, UpdateNotes, ClearAttrs, CheckOrders, ReadCodes, InsertItem, CompareOrders, CompareItems, TablesInv
<1>5. backup' = backup \/ (TakeBackup /\ ~backup.taken)
  BY ZenonT(40) DEF UpgradeNext, upgradeVars, NextSecond, TakeBackup, Abort, NoteScript, MultiScript, Verification,
         Consume, EditNote, DeleteOrder, Shop, ReadTargets, CommitMove, CheckItems, FindSku, DefaultSku, CommitItems,
         VerifyReport, VerifyItems, CountOrders, CountItems, SampleItems, Finish, Goto, Scripts, Start, ReadOrders,
         ReadItems, UpdateNotes, ClearAttrs, CheckOrders, ReadCodes, InsertItem, CompareOrders, CompareItems, TablesInv
<1> QED BY <1>1, <1>2, <1>3, <1>4, <1>5

LEMMA LateSteps ==
    ASSUME [UpgradeNext]_upgradeVars
    PROVE  \/ late' = late
           \/ \E c \in Codes, o \in OrderNos :
                 Consume(c, o) /\ late' = IF UpToLast(second) THEN late \cup {o} ELSE late
BY ZenonT(40) DEF UpgradeNext, upgradeVars, NextSecond, TakeBackup, Abort, NoteScript, MultiScript, Verification,
       Consume, EditNote, DeleteOrder, Shop, ReadTargets, CommitMove, CheckItems, FindSku, DefaultSku, CommitItems,
       VerifyReport, VerifyItems, CountOrders, CountItems, SampleItems, Finish, Goto, Start, ReadOrders,
       ReadItems, UpdateNotes, ClearAttrs, CheckOrders, ReadCodes, InsertItem, CompareOrders, CompareItems

LEMMA LateGrows ==
    ASSUME [UpgradeNext]_upgradeVars
    PROVE  late \subseteq late'
BY LateSteps

LEMMA LossStays ==
    ASSUME TablesInv, Loss, [UpgradeNext]_upgradeVars, backup' = backup
    PROVE  Loss'
BY OrdersKept, LateGrows DEF Loss, Keys

\* An order that the backup lacks and that is no later than its last one was
\* made after the backup: the shop was asked, then, whether it is.
LEMMA LateKept ==
    ASSUME TypeInv, VerifyInv, [UpgradeNext]_upgradeVars,
           NEW o \in Keys(db'.orders), o \notin Keys(backup'.orders), UpToLast(db.orders[o].at)'
    PROVE  o \in late'
<1>0. /\ TablesInv /\ db \in Tables /\ \A x \in Keys(db.orders) : db.orders[x] \in OrderRow
  BY NotesOfType DEF TypeInv, TablesInv, Tables, Keys
<1>1. CASE backup' # backup
  <2>1. TakeBackup
    BY <1>0, <1>1, VerifySteps
  <2>2. Keys(backup'.orders) = Keys(db'.orders)
    BY <2>1 DEF TakeBackup, Keys
  <2> QED BY <2>2
<1>2. CASE backup' = backup /\ o \in Keys(db.orders)
  <2>1. db'.orders[o].at = db.orders[o].at
    <3>1. CASE CommitMove
      <4>1. db'.orders[o] = IF o \in Keys(tx.notes) THEN [db.orders[o] EXCEPT !.note = tx.notes[o]] ELSE db.orders[o]
        BY <1>0, <1>2, <3>1, CommitMoveTables
      <4>2. db.orders[o] \in OrderRow
        BY <1>0, <1>2
      <4> QED BY <4>1, <4>2 DEF OrderRow
    <3>2. CASE ~CommitMove
      BY <1>0, <1>2, <3>2, OrdersKept
    <3> QED BY <3>1, <3>2
  <2>2. UpToLast(db.orders[o].at)
    BY <1>2, <2>1 DEF UpToLast
  <2> QED BY <1>2, <2>2, LateGrows DEF VerifyInv
<1>3. CASE backup' = backup /\ o \notin Keys(db.orders)
  <2>1. ASSUME NEW c \in Codes, NEW x \in OrderNos, Consume(c, x) PROVE o = x /\ db'.orders[o].at = second
    <3>1. Keys(db'.orders) = Keys(db.orders) \cup {x} /\ db'.orders[x] = [invite |-> c, note |-> BuyerNote, at |-> second]
      BY <1>0, <2>1, ConsumeTables
    <3> QED BY <1>3, <3>1
  <2>2. \E c \in Codes, x \in OrderNos : Consume(c, x)
    <3>1. ASSUME NEW c \in Codes, NEW n \in Notes, EditNote(c, n) PROVE db'.orders = db.orders
      BY <1>0, <3>1, EditNoteTables
    <3>2. ASSUME NEW x \in OrderNos, DeleteOrder(x) PROVE Keys(db'.orders) \subseteq Keys(db.orders)
      <4>1. db'.orders = [y \in Keys(db.orders) \ {x} |-> db.orders[y]]
        BY <1>0, <3>2, DeleteTables
      <4> QED BY <4>1 DEF Keys
    <3>3. CommitMove \/ DefaultSku \/ CommitItems => Keys(db'.orders) = Keys(db.orders)
      BY <1>0, CommitMoveTables, DefaultSkuTables, CommitItemsTables
    <3> QED BY <1>3, <3>1, <3>2, <3>3, TableStepsOfUpgrade
  <2>3. \E c \in Codes, x \in OrderNos :
           Consume(c, x) /\ late' = IF UpToLast(second) THEN late \cup {x} ELSE late
    BY <2>2 DEF Consume
  <2>4. PICK c \in Codes, x \in OrderNos :
           Consume(c, x) /\ late' = IF UpToLast(second) THEN late \cup {x} ELSE late
    BY <2>3
  <2>5. o = x /\ UpToLast(second)
    BY <1>3, <2>1, <2>4 DEF UpToLast
  <2> QED BY <2>4, <2>5
<1> QED BY <1>1, <1>2, <1>3

LEMMA VerifyKept ==
    ASSUME TypeInv, VerifyInv, [UpgradeNext]_upgradeVars
    PROVE  VerifyInv'
<1>0. /\ TablesInv /\ view \in Views /\ db.items \subseteq ItemRow /\ backup.items \subseteq ItemRow
      /\ Keys(backup.orders) \subseteq Known /\ \A o \in Keys(db.orders) : db.orders[o] \in OrderRow
  BY NotesOfType DEF TypeInv, ScriptType, TablesInv, Tables, Keys
<1>1. pc' \in {"verify", "verify_items", "verify_end"} \/ report'["verify"] # "none" => backup.taken /\ backup' = backup
  <2>1. VerifyReport => pc = "verify_end"
    BY DEF VerifyReport
  <2>2. pc' \in {"verify", "verify_items", "verify_end"} \/ report'["verify"] # "none" => backup.taken
    BY <1>0, <2>1, VerifySteps DEF VerifyInv
  <2> QED BY <1>0, <2>2, VerifySteps
<1>2. ASSUME pc' \in {"verify_items", "verify_end"}, ~view'.ok PROVE Loss'
  <2>0. backup' = backup
    BY <1>1, <1>2
  <2>1. CASE CompareOrders
    <3> DEFINE same == /\ Keys(backup.orders) \subseteq Keys(db.orders)
                       /\ \A o \in Keys(db.orders) \ Keys(backup.orders) : ~UpToLast(db.orders[o].at)
    <3>1. view' = [view EXCEPT !.ok = same]
      BY <2>1 DEF CompareOrders
    <3>2. ~same
      BY <1>0, <1>2, <3>1 DEF Views
    <3>3. ASSUME ~(Keys(backup.orders) \subseteq Keys(db.orders)) PROVE Loss
      BY <1>0, <3>3 DEF Loss, Known
    <3>4. ASSUME \E o \in Keys(db.orders) \ Keys(backup.orders) : UpToLast(db.orders[o].at) PROVE Loss
      BY <3>4 DEF Loss, VerifyInv
    <3>5. Loss
      BY <3>2, <3>3, <3>4
    <3> QED BY <1>0, <2>0, <3>5, LossStays
  <2>2. ASSUME NEW o \in OrderNos, CompareItems(o) PROVE Loss
    <3> DEFINE found == \A b \in backup.items : b.order = o => \E i \in db.items : SameItem(b, i)
    <3>1. view'.ok = (view.ok /\ found) /\ pc = "verify_items"
      BY <1>0, <2>2 DEF CompareItems, Views
    <3>2. CASE ~view.ok
      BY <3>1, <3>2 DEF VerifyInv
    <3>3. CASE ~found
      BY <3>3 DEF VerifyInv, Loss
    <3> QED BY <1>2, <3>1, <3>2, <3>3
  <2>3. CASE pc \in {"verify_items", "verify_end"} /\ view' = view
    <3>1. Loss
      BY <1>2, <2>3 DEF VerifyInv
    <3> QED BY <1>0, <2>0, <3>1, LossStays
  <2> QED BY <1>0, <1>2, <2>0, <2>1, <2>2, <2>3, VerifySteps, LossStays
<1>3. ASSUME NEW b \in backup'.items
      PROVE  /\ b.order \in Keys(backup'.orders)
             /\ b.order \in deleted' \/ \E i \in db'.items : SameItem(b, i)
  <2>1. CASE backup' = backup
    <3>1. CASE b.order \in deleted
      BY <1>0, <1>3, <2>1, <3>1, OrdersKept DEF VerifyInv
    <3>2. CASE b.order \notin deleted
      <4>1. PICK i \in db.items : SameItem(b, i)
        BY <1>3, <2>1, <3>2 DEF VerifyInv
      <4>2. i.order \in Keys(db.orders) /\ i.order = b.order
        BY <1>0, <4>1 DEF TablesInv, SameItem
      <4>3. CASE i.order \in Keys(db'.orders)
        <5>1. PICK j \in db'.items : SameItem(i, j)
          BY <1>0, <4>2, <4>3, ItemsKept
        <5> QED BY <1>3, <2>1, <4>1, <5>1 DEF SameItem, VerifyInv
      <4>4. CASE i.order \notin Keys(db'.orders)
        BY <1>0, <1>3, <2>1, <4>2, <4>4, OrdersKept DEF VerifyInv
      <4> QED BY <4>3, <4>4
    <3> QED BY <3>1, <3>2
  <2>2. CASE TakeBackup
    <3>1. backup'.items = db.items /\ db' = db /\ Keys(backup'.orders) = Keys(db.orders)
      BY <2>2 DEF TakeBackup, Keys
    <3> QED BY <1>0, <1>3, <3>1 DEF SameItem, TablesInv
  <2> QED BY <1>0, <2>1, <2>2, VerifySteps
<1>4. ASSUME report'["verify"] = "errors" PROVE Loss'
  <2>1. backup' = backup
    BY <1>1, <1>4
  <2>2. Loss
    <3>1. VerifyReport => pc = "verify_end"
      BY DEF VerifyReport
    <3> QED BY <1>0, <1>4, <3>1, VerifySteps DEF VerifyInv, DifferenceMeansLoss, Loss
  <2> QED BY <1>0, <2>1, <2>2, LossStays
<1> QED BY <1>1, <1>2, <1>3, <1>4, LateKept DEF VerifyInv, DifferenceMeansLoss, Loss

-----------------------------------------------------------------------------
(* Upgrade: every run.                                                     *)

LEMMA UpgradeStarts ==
    ASSUME UpgradeInit
    PROVE  TypeInv /\ MoveInv /\ VerdictInv /\ ItemsInv /\ VerifyInv
<1>0. First \in OrderNos /\ Plain \in OrderNos /\ First # Plain /\ IsFiniteSet(OrderNos) /\ FirstCode \in Codes
  BY UpgradeAssumption
<1> DEFINE os(c) == [o \in {First, Plain} |-> [invite |-> IF o = First THEN c ELSE None, note |-> BuyerNote, at |-> 0]]
           cs(n, P) == [d \in Codes |-> [order |-> IF d = FirstCode THEN First ELSE None, note |-> n, original |-> d \in P]]
           is == ItemsOf(First, 1) \cup ItemsOf(Plain, 3)
<1>1. PICK c \in Codes, n \in Notes, priced \in SUBSET Codes :
         db = [orders |-> os(c), items |-> is, codes |-> cs(n, priced), codeItems |-> {}, sku |-> FALSE]
  BY DEF UpgradeInit
<1>2. /\ DOMAIN os(c) = {First, Plain} /\ os(c) = [x \in DOMAIN os(c) |-> os(c)[x]]
      /\ \A x \in {First, Plain} : os(c)[x] \in OrderRow /\ os(c)[x].note = BuyerNote /\ os(c)[x].at = 0
  BY DEF OrderRow
<1>3. cs(n, priced) \in [Codes -> CodeRow] /\ cs(n, priced)[FirstCode].order = First
  BY <1>0 DEF CodeRow
<1> HIDE DEF os, cs
<1>4. os(c) \in NotesOf(OrderRow)
  BY <1>0, <1>2, NotesOfType
<1>5. /\ Cardinality({First, Plain}) = 2 /\ 2 <= Cardinality(OrderNos) /\ Cardinality(OrderNos) \in Nat
      /\ Cardinality({}) = 0
  <2>1. IsFiniteSet({First}) /\ Cardinality({First}) = 1 /\ Plain \notin {First} /\ {First, Plain} = {First} \cup {Plain}
    BY <1>0, FS_Singleton
  <2>2. Cardinality({First, Plain}) = 2
    BY <2>1, FS_AddElement
  <2>3. {First, Plain} \subseteq OrderNos
    BY <1>0
  <2> QED BY <1>0, <2>2, <2>3, FS_Subset, FS_EmptySet, FS_CardinalityType
<1>6. /\ is \subseteq ItemRow
      /\ \A i \in is : i.attrs = TRUE /\ i.order \in {First, Plain} /\ i.id \in 1 .. 4
      /\ \A i, j \in is : i.id = j.id => i = j
  <2>1. {1, 2, 3, 4} \subseteq ItemIds
    BY <1>5 DEF ItemIds
  <2>2. ASSUME NEW o \in OrderNos, NEW m \in {1, 3}
        PROVE  /\ \A i \in ItemsOf(o, m) : i \in ItemRow /\ i.order = o /\ i.attrs = TRUE /\ i.id \in {m, m + 1}
               /\ \A i, j \in ItemsOf(o, m) : i.id = j.id => i = j
    <3>1. m \in Nat /\ m \in ItemIds /\ m + 1 \in ItemIds
      BY <2>1
    <3> QED BY ZenonT(40), <3>1, NewItems
  <2>3. PICK x \in {1, 3}, y \in {1, 3} : x = 1 /\ y = 3
    OBVIOUS
  <2>4. is = ItemsOf(First, x) \cup ItemsOf(Plain, y)
    BY <2>3
  <2> HIDE DEF is
  <2>5. /\ \A i \in ItemsOf(First, x) : i \in ItemRow /\ i.order = First /\ i.attrs = TRUE /\ i.id \in {x, x + 1}
        /\ \A i, j \in ItemsOf(First, x) : i.id = j.id => i = j
    BY <1>0, <2>2
  <2>6. /\ \A i \in ItemsOf(Plain, y) : i \in ItemRow /\ i.order = Plain /\ i.attrs = TRUE /\ i.id \in {y, y + 1}
        /\ \A i, j \in ItemsOf(Plain, y) : i.id = j.id => i = j
    BY <1>0, <2>2
  <2> QED BY <2>3, <2>4, <2>5, <2>6
<1> HIDE DEF is
<1>7. db \in Tables
  BY <1>1, <1>3, <1>4, <1>6 DEF Tables
<1>8. /\ Keys(db.orders) = {First, Plain} /\ db.items = is /\ db.codeItems = {} /\ db.orders = os(c) /\ db.codes = cs(n, priced)
  BY <1>1, <1>2 DEF Keys
<1>9. /\ deleted = {} /\ second = 0 /\ starts = 0 /\ pc = "idle" /\ tx = NoTx /\ view = NoView
      /\ backup = [taken |-> FALSE, orders |-> [o \in {} |-> 0], items |-> {}] /\ Keys(backup.orders) = {}
      /\ files = [orders |-> [o \in {} |-> BuyerNote], items |-> {}] /\ Keys(wrote) = {}
      /\ report = [s \in Scripts |-> "none"]
  BY DEF UpgradeInit, Keys
<1>10. Ever = 2
  BY <1>5, <1>8, <1>9 DEF Ever
<1>11. TablesInv
  <2>1. \A i \in db.items : i.order \in Keys(db.orders) /\ i.id <= 2 * Ever
    BY <1>6, <1>8, <1>10
  <2>2. report \in [Scripts -> Outcomes]
    BY <1>9 DEF Outcomes
  <2> DEFINE none == [o \in {} |-> 0]
  <2>3. DOMAIN none = {} /\ none = [o \in DOMAIN none |-> none[o]] /\ backup = [taken |-> FALSE, orders |-> none, items |-> {}]
    BY <1>9
  <2> HIDE DEF none
  <2>4. none \in NotesOf(0 .. 1)
    BY <2>3, NotesOfType
  <2>5. backup \in [taken : BOOLEAN, orders : NotesOf(0 .. 1), items : SUBSET ItemRow] /\ Keys(backup.orders) \subseteq Known
    BY <2>3, <2>4 DEF Keys
  <2> QED BY <1>6, <1>7, <1>8, <1>9, <2>1, <2>2, <2>5 DEF TablesInv
<1>12. ScriptType
  <2> DEFINE f == [o \in {} |-> BuyerNote]
  <2>1. DOMAIN f = {} /\ f = [x \in DOMAIN f |-> f[x]] /\ files = [orders |-> f, items |-> {}]
    BY <1>9
  <2> HIDE DEF f
  <2>2. f \in NotesOf(Notes \cup {BuyerNote})
    BY <2>1, NotesOfType
  <2> QED BY <1>9, <2>1, <2>2, NothingTyped DEF ScriptType
<1>13. MoveInv
  <2>1. Keys(tx.notes) = {} /\ tx.cleared = {}
    BY <1>9 DEF NoTx, Keys
  <2>2. \A i \in db.items : i.attrs = TRUE /\ db.orders[i.order].note = BuyerNote
    BY <1>2, <1>6, <1>8
  <2> QED BY <1>9, <2>1, <2>2 DEF MoveInv, CopiedIsCleared
<1>14. VerdictInv
  BY <1>9 DEF VerdictInv, Scripts
<1>15. ItemsInv
  BY <1>8, <1>9 DEF ItemsInv, OneItemPerCode, Scripts
<1>16. VerifyInv
  BY <1>9 DEF VerifyInv, DifferenceMeansLoss, Scripts, UpToLast
<1> QED BY <1>11, <1>12, <1>13, <1>14, <1>15, <1>16 DEF TypeInv

LEMMA TypesKept ==
    ASSUME TypeInv, [UpgradeNext]_upgradeVars
    PROVE  TypeInv'
BY TablesKept, TransactionTyped, ViewTyped, FilesTyped DEF TypeInv, ScriptType

\* The rows of every table stay rows of its schema: orders the shop makes and
\* deletes, and what the scripts write, at every interleaving.
THEOREM UpgradeTypeCorrect == UpgradeSpec => []UpgradeTypeOK
<1>1. UpgradeInit => TypeInv
  BY UpgradeStarts
<1>2. TypeInv /\ [UpgradeNext]_upgradeVars => TypeInv'
  BY TypesKept
<1>3. TypeInv => UpgradeTypeOK
  BY NotesOfType DEF TypeInv, TablesInv, Tables, UpgradeTypeOK, Keys, CodeRow
<1> QED BY <1>1, <1>2, <1>3, PTL DEF UpgradeSpec

\* Wherever the move of the notes stops, no order has its code's note while its
\* items keep the attributes, because both updates are in one transaction
\* whose rows are locked, and orders that come in meanwhile are in neither.
THEOREM NotesMoveWithAttributes == UpgradeSpec => []CopiedIsCleared
<1>1. UpgradeInit => TypeInv /\ MoveInv
  BY UpgradeStarts
<1>2. TypeInv /\ MoveInv /\ [UpgradeNext]_upgradeVars => TypeInv' /\ MoveInv'
  BY TypesKept, MoveKept
<1>3. MoveInv => CopiedIsCleared
  BY DEF MoveInv
<1> QED BY <1>1, <1>2, <1>3, PTL DEF UpgradeSpec

\* What stays true of the script that moves the notes, until its verdict and after.
THEOREM VerdictsHold == UpgradeSpec => [](TypeInv /\ MoveInv /\ VerdictInv)
<1>1. UpgradeInit => TypeInv /\ MoveInv /\ VerdictInv
  BY UpgradeStarts
<1>2. TypeInv /\ MoveInv /\ VerdictInv /\ [UpgradeNext]_upgradeVars => TypeInv' /\ MoveInv' /\ VerdictInv'
  BY TypesKept, MoveKept, VerdictKept
<1> QED BY <1>1, <1>2, PTL DEF UpgradeSpec

\* An apply that reports success left no order whose attributes are gone and
\* whose note is still the buyer's.
THEOREM SuccessMovedBoth == UpgradeSpec => []OkMovedBoth
<1>1. VerdictInv => OkMovedBoth
  BY DEF VerdictInv, OkMovedBoth, Moved
<1> QED BY <1>1, VerdictsHold, PTL

\* After an apply that reports success, the before file has the note of every
\* order whose note it replaced.
THEOREM SuccessCanBeUndone == UpgradeSpec => []OkCanBeUndone
<1>1. VerdictInv => OkCanBeUndone
  BY DEF VerdictInv, OkCanBeUndone, Undoable
<1> QED BY <1>1, VerdictsHold, PTL

\* However often the migration of the codes fails and runs again, no code gets
\* two items, and a run that succeeds leaves none without one.
THEOREM CodesGetOneItem == UpgradeSpec => []OneItemPerCode
<1>1. UpgradeInit => TypeInv /\ ItemsInv
  BY UpgradeStarts
<1>2. TypeInv /\ ItemsInv /\ [UpgradeNext]_upgradeVars => TypeInv' /\ ItemsInv'
  BY TypesKept, ItemsOfCodesKept
<1>3. ItemsInv => OneItemPerCode
  BY DEF ItemsInv
<1> QED BY <1>1, <1>2, <1>3, PTL DEF UpgradeSpec

\* When the verification of the orders reports a difference, an order of the
\* backup was deleted or one came after the backup in the second of its last
\* order; no migration causes one.
THEOREM DifferencesAreLosses == UpgradeSpec => []DifferenceMeansLoss
<1>1. UpgradeInit => TypeInv /\ VerifyInv
  BY UpgradeStarts
<1>2. TypeInv /\ VerifyInv /\ [UpgradeNext]_upgradeVars => TypeInv' /\ VerifyInv'
  BY TypesKept, VerifyKept
<1>3. VerifyInv => DifferenceMeansLoss
  BY DEF VerifyInv
<1> QED BY <1>1, <1>2, <1>3, PTL DEF UpgradeSpec
=============================================================================
