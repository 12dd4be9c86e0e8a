------------------------------- MODULE FLcode -------------------------------
(***************************************************************************)
(* FLcode, the service that gives a welfare code to a telephone number:    *)
(* db.ts over SQLite, routes/admin.ts with its sessions in memory and      *)
(* routes/user.ts.  SQLite commits each statement, or transaction, before  *)
(* the handler goes on; a restart forgets the sessions.  A handler is one  *)
(* action, except the upload, which awaits the parsing of its workbook     *)
(* after the session was checked.                                          *)
(***************************************************************************)
EXTENDS Naturals, FiniteSets, Sequences

CONSTANTS
    Phones,       \* valid telephone numbers
    CodeValues,   \* six digits
    Tokens,       \* session tokens, fresh at each login
    Passwords,
    Default,      \* 'admin123', what initDB inserts
    Invalid,      \* in place of a number the pattern refuses
    Files,        \* workbooks: sequences of rows
    Ttl,          \* 24 hours
    MaxTime,      \* bound: the clock
    MaxRows,      \* bound: rows ever inserted
    MaxRestarts   \* bound: restarts

\* A row of a workbook; an invalid number or code makes it invalid.
Row == [phone : Phones \cup {Invalid}, code : CodeValues]

ASSUME FLcodeAssumption ==
    /\ Default \in Passwords /\ Invalid \notin Phones
    /\ Files \subseteq Seq(Row)
    /\ Ttl \in Nat /\ MaxTime \in Nat /\ MaxRows \in Nat /\ MaxRestarts \in Nat

VARIABLES
    codes,     \* table fl_codes
    nextId,    \* its AUTOINCREMENT counter
    password,  \* admin_password in fl_config
    sessions,  \* expireAt of each token, 0 when the Map lacks it
    clock,     \* Date.now(), from 1
    uploads,   \* workbooks being parsed
    seen,      \* the rows of the list an administrator opened last
    told,      \* answers people got, until an administrator changes the row
    chosen,    \* the password an administrator set last
    lastUse,   \* when a token was last accepted, 0 before its login
    ended,     \* tokens that were logged out, and those a restart forgot
    restarts

vars == <<codes, nextId, password, sessions, clock, uploads, seen, told, chosen, lastUse, ended, restarts>>
table == <<codes, nextId>>
auth == <<password, sessions, chosen, lastUse, ended>>

\* born is the telephone number the row was inserted with.
FlCode == [id : Nat, phone : Phones, code : CodeValues, born : Phones]

Init ==
    /\ codes = {} /\ nextId = 1
    /\ password = Default /\ chosen = Default
    /\ sessions = [t \in Tokens |-> 0] /\ lastUse = [t \in Tokens |-> 0] /\ ended = {}
    /\ clock = 1 /\ uploads = {} /\ seen = {} /\ told = {} /\ restarts = 0

-----------------------------------------------------------------------------
(* Sessions.                                                               *)

\* Mutant: an expired session is renewed as long as it is in the Map.
Accepts_Expired(t) == sessions[t] # 0

\* authMiddleware lets the request pass.
Accepts(t) == sessions[t] # 0 /\ sessions[t] >= clock

\* ... and renews the session.
Authorized(t) ==
    /\ Accepts(t)
    /\ sessions' = [sessions EXCEPT ![t] = clock + Ttl]
    /\ lastUse' = [lastUse EXCEPT ![t] = clock]
    /\ UNCHANGED <<clock, password, chosen, ended, restarts>>

\* authMiddleware refuses: the entry is deleted.
Refuse(t) ==
    /\ lastUse[t] # 0 /\ ~Accepts(t)
    /\ sessions' = [sessions EXCEPT ![t] = 0]
    /\ UNCHANGED <<table, clock, uploads, seen, told, password, chosen, lastUse, ended, restarts>>

\* POST /login with the right password; generateToken returns a new token.
Login(t, given) ==
    /\ given = password /\ lastUse[t] = 0
    /\ sessions' = [sessions EXCEPT ![t] = clock + Ttl]
    /\ lastUse' = [lastUse EXCEPT ![t] = clock]
    /\ UNCHANGED <<table, clock, uploads, seen, told, password, chosen, ended, restarts>>

\* POST /logout.
Logout(t) ==
    /\ lastUse[t] # 0
    /\ sessions' = [sessions EXCEPT ![t] = 0]
    /\ ended' = ended \cup {t}
    /\ UNCHANGED <<table, clock, uploads, seen, told, password, chosen, lastUse, restarts>>

\* GET /verify, GET /config, and every request whose body is refused.
Verify(t) == Authorized(t) /\ UNCHANGED <<table, uploads, seen, told>>

\* POST /config with a password; the sessions stay.
SetPassword(t, new) ==
    /\ Accepts(t)
    /\ sessions' = [sessions EXCEPT ![t] = clock + Ttl]
    /\ lastUse' = [lastUse EXCEPT ![t] = clock]
    /\ password' = new /\ chosen' = new
    /\ UNCHANGED <<table, clock, uploads, seen, told, ended, restarts>>

-----------------------------------------------------------------------------
(* Codes.                                                                  *)

\* The numbers that the UNIQUE constraint refuses.
Used == {r.phone : r \in codes}

\* Mutant: INTEGER PRIMARY KEY without AUTOINCREMENT.
NewId_Reused == IF codes = {} THEN 1 ELSE 1 + CHOOSE i \in {r.id : r \in codes} : \A r \in codes : r.id <= i

\* AUTOINCREMENT: never an id that a row ever had.
NewId == nextId

\* getAllCodes and searchCodes: a page or a search shows some of the rows.
Pages == SUBSET codes

\* GET /codes: the list an administrator then works from.
ListCodes(t) == Authorized(t) /\ seen' \in Pages /\ UNCHANGED <<table, uploads, told>>

\* POST /codes: an existing number is refused by the UNIQUE constraint.
AddCode(t, p, c) ==
    /\ Authorized(t) /\ p \notin Used /\ nextId <= MaxRows
    /\ codes' = codes \cup {[id |-> NewId, phone |-> p, code |-> c, born |-> p]}
    /\ nextId' = nextId + 1
    /\ UNCHANGED <<uploads, seen, told>>

\* The UNIQUE constraint on an update of the row with this id.
Free(id, p) == \A r \in codes : r.phone = p => r.id = id

Forgotten(phones) == {a \in told : a.phone \in phones}

\* PUT /codes/:id, from a list that may be old.
UpdateCode(t, id, p, c) ==
    /\ Authorized(t) /\ Free(id, p)
    /\ \E r \in codes :
          /\ r.id = id
          /\ codes' = (codes \ {r}) \cup {[r EXCEPT !.phone = p, !.code = c]}
          /\ told' = told \ Forgotten({r.phone, p})
    /\ UNCHANGED <<nextId, uploads, seen>>

\* DELETE /codes/:id.
DeleteCode(t, id) ==
    /\ Authorized(t)
    /\ \E r \in codes : r.id = id /\ codes' = codes \ {r} /\ told' = told \ Forgotten({r.phone})
    /\ UNCHANGED <<nextId, uploads, seen>>

\* DELETE /codes: the counter is not reset.
ClearCodes(t) ==
    /\ Authorized(t)
    /\ codes' = {} /\ told' = {}
    /\ UNCHANGED <<nextId, uploads, seen>>

\* POST /upload up to its await.
Upload(t, f) ==
    /\ Authorized(t)
    /\ uploads' = uploads \cup {f}
    /\ UNCHANGED <<table, seen, told>>

\* The rows that pass the patterns of the schema; the others are reported.
Valid(f) == {i \in DOMAIN f : f[i].phone # Invalid}

\* Mutant: a row replaces the one with its number.
Inserted_Replace(f) ==
    {i \in Valid(f) : ~\E j \in Valid(f) : j < i /\ f[j].phone = f[i].phone}

\* addCodesBatch: the rows whose insert succeeds, one transaction.
Inserted(f) ==
    {i \in Valid(f) : /\ f[i].phone \notin Used
                      /\ ~\E j \in Valid(f) : j < i /\ f[j].phone = f[i].phone}

NewRows(f) ==
    {[id |-> NewId + Cardinality({j \in Inserted(f) : j < i}),
      phone |-> f[i].phone, code |-> f[i].code, born |-> f[i].phone] : i \in Inserted(f)}

\* The workbook is parsed: its valid rows are inserted, whatever has become
\* of the session.
UploadDone(f) ==
    /\ f \in uploads /\ nextId + Cardinality(Inserted(f)) <= MaxRows + 1
    /\ uploads' = uploads \ {f}
    /\ codes' = codes \cup NewRows(f)
    /\ nextId' = nextId + Cardinality(Inserted(f))
    /\ UNCHANGED <<auth, clock, seen, told, restarts>>

\* The file is no workbook, or has no sheet or no valid row.
UploadFails(f) ==
    /\ f \in uploads
    /\ uploads' = uploads \ {f}
    /\ UNCHANGED <<table, auth, clock, seen, told, restarts>>

\* POST /claim.
Claim(p) ==
    \E r \in codes :
        /\ r.phone = p
        /\ told' = told \cup {[phone |-> p, code |-> r.code]}
        /\ UNCHANGED <<table, auth, clock, uploads, seen, restarts>>

-----------------------------------------------------------------------------
Tick == clock < MaxTime /\ clock' = clock + 1
        /\ UNCHANGED <<table, auth, uploads, seen, told, restarts>>

\* Mutant: initDB replaces the configuration.
Restarted_Replaces == Default

\* initDB inserts the default only where there is no password.
Restarted == password

Restart ==
    /\ restarts < MaxRestarts
    /\ restarts' = restarts + 1
    /\ sessions' = [t \in Tokens |-> 0]
    /\ ended' = {t \in Tokens : lastUse[t] # 0}
    /\ password' = Restarted
    /\ uploads' = {}
    /\ UNCHANGED <<table, clock, seen, told, chosen, lastUse>>

Next ==
    \/ \E t \in Tokens :
          \/ \E w \in Passwords : Login(t, w) \/ SetPassword(t, w)
          \/ Refuse(t) \/ Logout(t) \/ Verify(t) \/ ListCodes(t) \/ ClearCodes(t)
          \/ \E p \in Phones, c \in CodeValues :
                AddCode(t, p, c) \/ \E s \in seen : UpdateCode(t, s.id, p, c)
          \/ \E s \in seen : DeleteCode(t, s.id)
          \/ \E f \in Files : Upload(t, f)
    \/ \E f \in Files : UploadDone(f) \/ UploadFails(f)
    \/ \E p \in Phones : Claim(p)
    \/ Tick \/ Restart

Spec == Init /\ [][Next]_vars

-----------------------------------------------------------------------------
(* Properties.                                                             *)

\* Every variable has its type.
TypeOK ==
    /\ codes \subseteq FlCode /\ seen \subseteq FlCode /\ nextId \in Nat
    /\ password \in Passwords /\ chosen \in Passwords
    /\ sessions \in [Tokens -> Nat] /\ lastUse \in [Tokens -> Nat]
    /\ clock \in Nat \ {0} /\ restarts \in Nat
    /\ uploads \subseteq Files
    /\ told \subseteq [phone : Phones, code : CodeValues]
    /\ ended \subseteq Tokens

\* The code that /claim told a person stays the only code of that number until
\* an administrator changes, deletes or clears it: no further insert or upload,
\* with the number in it once or twice, gives the number another one.
AnswerStays ==
    \A a \in told : {r.code : r \in {s \in codes : s.phone = a.phone}} = {a.code}
                    /\ \A r, s \in codes : r.phone = a.phone /\ s.phone = a.phone => r = s

\* A row of a list that was opened before other administrators deleted,
\* cleared and imported never has the id of a row inserted since, so that a
\* click on it changes that row or nothing.
OldListsAreSafe ==
    \A s \in seen, r \in codes : s.id = r.id => s.born = r.born

\* A token that is accepted was used or issued at most 24 hours before, was
\* not logged out, and was issued since the last restart.
AcceptedIsRecent ==
    [][\A t \in Tokens : lastUse'[t] # lastUse[t] /\ lastUse[t] # 0
          => clock <= lastUse[t] + Ttl /\ t \notin ended]_vars

\* The password is the one that was set last, also after a restart: the
\* default does not come back.
PasswordStays == password = chosen
=============================================================================
