-------------------------- MODULE FileStoreProofs --------------------------
(***************************************************************************)
(* Proofs about FileStore for every set of tables and values, every seed,  *)
(* every file an earlier release may have left and every bound.            *)
(***************************************************************************)
EXTENDS FileStore, TLAPS

-----------------------------------------------------------------------------
(* The objects themselves.                                                 *)

\* The empty object of DEFAULT_DATA is a full object with fresh ids.
LEMMA DefaultDataType ==
    DEFAULT_DATA \in StoreData /\ FreshIds(DEFAULT_DATA)
BY DEF DEFAULT_DATA, StoreData, DataOf, Ids, FreshIds, UniqueIds

\* A full object is a file.
LEMMA StoreDataIsFile == ASSUME NEW d \in StoreData PROVE IsFile(d)
BY DEF StoreData, IsFile

\* Filling in the tables a file lacks gives a full object with fresh ids,
\* and changes nothing when no table is missing.
LEMMA FilledType ==
    ASSUME NEW f, IsFile(f)
    PROVE  /\ Filled(f) \in StoreData
           /\ FreshIds(f) => FreshIds(Filled(f))
           /\ f \in StoreData => Filled(f) = f
<1>1. PICK T \in SUBSET Tables : f \in DataOf(T)
  BY DEF IsFile
<1>2. Filled(f) \in StoreData
  BY <1>1 DEF Filled, StoreData, DataOf
<1>3. ASSUME FreshIds(f) PROVE FreshIds(Filled(f))
  BY <1>1, <1>3 DEF FreshIds, UniqueIds, Filled, DataOf
<1>4. ASSUME f \in StoreData PROVE Filled(f) = f
  <2>1. f = [nextIds |-> f.nextIds, rows |-> f.rows] /\ DOMAIN f.rows = Tables
    BY <1>4 DEF StoreData, DataOf
  <2>2. f.rows = [t \in Tables |-> f.rows[t]]
    BY <1>4 DEF StoreData, DataOf
  <2> QED BY <2>1, <2>2 DEF Filled
<1> QED BY <1>2, <1>3, <1>4

\* Follows is reflexive and transitive.
LEMMA FollowsReflexive == ASSUME NEW d \in StoreData PROVE Follows(d, d)
BY DEF Follows, StoreData, DataOf, RowIds, Ids

LEMMA FollowsTransitive ==
    ASSUME NEW c \in StoreData, NEW d \in StoreData, NEW e \in StoreData,
           Follows(d, c), Follows(e, d)
    PROVE  Follows(e, c)
<1> SUFFICES ASSUME NEW t \in Tables
    PROVE /\ c.nextIds[t] <= e.nextIds[t]
          /\ \A r \in e.rows[t] : r.id \in RowIds(c.rows[t]) \/ c.nextIds[t] <= r.id
  BY DEF Follows
<1>1. /\ c.nextIds[t] \in Nat /\ d.nextIds[t] \in Nat /\ e.nextIds[t] \in Nat
      /\ \A r \in e.rows[t] : r.id \in Nat
  BY DEF StoreData, DataOf, Ids, Row
<1>2. c.nextIds[t] <= d.nextIds[t] /\ d.nextIds[t] <= e.nextIds[t]
  BY DEF Follows
<1>3. ASSUME NEW r \in e.rows[t]
      PROVE  r.id \in RowIds(c.rows[t]) \/ c.nextIds[t] <= r.id
  <2>1. CASE r.id \in RowIds(d.rows[t])
    <3>1. PICK s \in d.rows[t] : r.id = s.id
      BY <2>1 DEF RowIds
    <3> QED BY <3>1 DEF Follows
  <2>2. CASE d.nextIds[t] <= r.id
    BY <2>2, <1>1, <1>2, <1>3
  <2> QED BY <2>1, <2>2 DEF Follows
<1> QED BY <1>1, <1>2, <1>3

-----------------------------------------------------------------------------
(* The operations.                                                         *)

\* Giving table t rows whose ids it already had keeps ids fresh.
LEMMA SameIds ==
    ASSUME NEW d \in StoreData, FreshIds(d), NEW t \in Tables,
           NEW R \in SUBSET Row, UniqueIds(R), RowIds(R) \subseteq RowIds(d.rows[t])
    PROVE  LET e == [d EXCEPT !.rows[t] = R]
           IN  e \in StoreData /\ FreshIds(e) /\ Follows(e, d)
<1> DEFINE e == [d EXCEPT !.rows[t] = R]
<1>1. e \in StoreData
  BY DEF StoreData, DataOf
<1>2. e.nextIds = d.nextIds /\ \A u \in Tables : e.rows[u] = IF u = t THEN R ELSE d.rows[u]
  BY DEF StoreData, DataOf
<1>3. \A r \in R : \E s \in d.rows[t] : r.id = s.id
  BY DEF RowIds
<1>4. FreshIds(e)
  BY <1>1, <1>2, <1>3 DEF FreshIds, StoreData, DataOf
<1>5. Follows(e, d)
  BY <1>2 DEF Follows, RowIds, StoreData, DataOf, Ids
<1> QED BY <1>1, <1>4, <1>5

\* Rewriting some rows of a table keeps its ids.
LEMMA ChangedRows ==
    ASSUME NEW rows \in SUBSET Row, UniqueIds(rows), NEW S \in SUBSET rows, NEW v \in Values
    PROVE  /\ Changed(rows, S, v) \in SUBSET Row
           /\ UniqueIds(Changed(rows, S, v))
           /\ RowIds(Changed(rows, S, v)) \subseteq RowIds(rows)
BY DEF Changed, UniqueIds, RowIds, Row

\* Removing rows keeps the remaining ids.
LEMMA FewerRows ==
    ASSUME NEW rows \in SUBSET Row, UniqueIds(rows), NEW S \in SUBSET rows
    PROVE  S \in SUBSET Row /\ UniqueIds(S) /\ RowIds(S) \subseteq RowIds(rows)
BY DEF UniqueIds, RowIds

\* What every operation of the store does to the memory.
LEMMA WriteLemma ==
    ASSUME NEW t \in Tables, Write(t), cache \in StoreData, FreshIds(cache)
    PROVE  cache' \in StoreData /\ FreshIds(cache') /\ Follows(cache', cache)
<1> DEFINE rows == cache.rows[t]
<1>0. rows \in SUBSET Row /\ UniqueIds(rows)
  BY DEF StoreData, DataOf, FreshIds
<1>1. CASE NextId(t)
  <2>1. cache' = [cache EXCEPT !.nextIds[t] = @ + 1]
    BY <1>1 DEF NextId
  <2>2. cache' \in StoreData
    BY <2>1 DEF StoreData, DataOf, Ids
  <2>3. FreshIds(cache')
    BY <2>1 DEF StoreData, DataOf, FreshIds, Ids, Row
  <2>4. Follows(cache', cache)
    BY <2>1 DEF StoreData, DataOf, Follows, RowIds, Ids
  <2> QED BY <2>2, <2>3, <2>4
<1>2. ASSUME NEW v \in Values, Insert(t, v)
      PROVE  cache' \in StoreData /\ FreshIds(cache') /\ Follows(cache', cache)
  <2> DEFINE id == cache.nextIds[t]
             new == [id |-> id, val |-> v]
  <2>1. cache' = [cache EXCEPT !.nextIds[t] = id + 1, !.rows[t] = @ \cup {new}]
    BY <1>2 DEF Insert
  <2>2. new \in Row /\ id \in Nat
    BY DEF StoreData, DataOf, Row, Ids
  <2>3. cache' \in StoreData
    <3>1. rows \cup {new} \in SUBSET Row /\ id + 1 \in Ids
      BY <1>0, <2>2 DEF Ids
    <3>2. cache' = [cache EXCEPT !.nextIds = [@ EXCEPT ![t] = id + 1],
                                 !.rows = [@ EXCEPT ![t] = rows \cup {new}]]
      BY <2>1
    <3> HIDE DEF new, id, rows
    <3> QED BY <3>1, <3>2 DEF StoreData, DataOf
  <2>4. /\ \A u \in Tables : cache'.nextIds[u] = IF u = t THEN id + 1 ELSE cache.nextIds[u]
        /\ \A u \in Tables : cache'.rows[u] = IF u = t THEN rows \cup {new} ELSE cache.rows[u]
    BY <2>1 DEF StoreData, DataOf
  <2>5. \A u \in Tables : \A r \in cache.rows[u] : r.id \in Nat /\ r.id < cache.nextIds[u] /\ cache.nextIds[u] \in Nat
    BY DEF StoreData, DataOf, FreshIds, Row, Ids
  <2>6. FreshIds(cache')
    <3> SUFFICES ASSUME NEW u \in Tables
        PROVE UniqueIds(cache'.rows[u]) /\ \A r \in cache'.rows[u] : r.id < cache'.nextIds[u]
      BY <2>3 DEF FreshIds, StoreData, DataOf
    <3>1. CASE u = t
      BY <3>1, <2>2, <2>4, <2>5, <1>0 DEF UniqueIds
    <3>2. CASE u # t
      BY <3>2, <2>4, <2>5 DEF UniqueIds, FreshIds, StoreData, DataOf
    <3> QED BY <3>1, <3>2
  <2>7. Follows(cache', cache)
    <3> SUFFICES ASSUME NEW u \in Tables
        PROVE /\ cache.nextIds[u] <= cache'.nextIds[u]
              /\ \A r \in cache'.rows[u] :
                    r.id \in RowIds(cache.rows[u]) \/ cache.nextIds[u] <= r.id
      BY DEF Follows
    <3>1. cache.nextIds[u] \in Nat
      BY DEF StoreData, DataOf, Ids
    <3>2. CASE u = t
      BY <3>1, <3>2, <2>2, <2>4 DEF RowIds
    <3>3. CASE u # t
      BY <3>1, <3>3, <2>4 DEF RowIds
    <3> QED BY <3>2, <3>3
  <2> QED BY <2>3, <2>6, <2>7
<1>3. ASSUME NEW r \in rows, Remove(t, r.id)
      PROVE  cache' \in StoreData /\ FreshIds(cache') /\ Follows(cache', cache)
  <2>1. PICK s \in rows : cache' = [cache EXCEPT !.rows[t] = rows \ {s}]
    BY <1>3 DEF Remove, SetRows
  <2> QED BY <2>1, <1>0, FewerRows, SameIds
<1>4. ASSUME NEW r \in rows, NEW v \in Values, Update(t, r.id, v)
      PROVE  cache' \in StoreData /\ FreshIds(cache') /\ Follows(cache', cache)
  <2>1. PICK s \in rows : cache' = [cache EXCEPT !.rows[t] = Changed(rows, {s}, v)]
    BY <1>4 DEF Update, SetRows
  <2> QED BY <2>1, <1>0, ChangedRows, SameIds
<1>5. ASSUME NEW S \in SUBSET rows, RemoveWhere(t, S) \/ SetTable(t, S)
      PROVE  cache' \in StoreData /\ FreshIds(cache') /\ Follows(cache', cache)
  <2>1. \/ cache' = [cache EXCEPT !.rows[t] = rows \ S]
        \/ cache' = [cache EXCEPT !.rows[t] = S]
    BY <1>5 DEF RemoveWhere, SetTable, SetRows
  <2> QED BY <2>1, <1>0, FewerRows, SameIds
<1>6. ASSUME NEW S \in SUBSET rows, NEW v \in Values, UpdateWhere(t, S, v)
      PROVE  cache' \in StoreData /\ FreshIds(cache') /\ Follows(cache', cache)
  <2>1. cache' = [cache EXCEPT !.rows[t] = Changed(rows, S, v)]
    BY <1>6 DEF UpdateWhere, SetRows
  <2> QED BY <2>1, <1>0, ChangedRows, SameIds
<1> QED BY <1>1, <1>2, <1>3, <1>4, <1>5, <1>6 DEF Write

\* Seeding gives the rows of an empty table the next ids of its counter.
LEMMA SeededLemma ==
    ASSUME NEW d \in StoreData, FreshIds(d)
    PROVE  Seeded(d) \in StoreData /\ FreshIds(Seeded(d)) /\ Follows(Seeded(d), d)
<1> DEFINE e == Seeded(d)
<1> USE ConstantsAssumption
<1>1. ASSUME NEW t \in Tables
      PROVE  /\ d.nextIds[t] \in Ids /\ Seed[t] \in Nat
             /\ d.rows[t] \in SUBSET Row
             /\ UniqueIds(d.rows[t])
             /\ \A r \in d.rows[t] : r.id < d.nextIds[t]
  BY DEF StoreData, DataOf, FreshIds
<1>2. ASSUME NEW t \in Tables
      PROVE  /\ e.nextIds[t] = IF NeedsSeed(d, t) THEN d.nextIds[t] + Seed[t]
                                                  ELSE d.nextIds[t]
             /\ e.rows[t] = SeedTable(d, t)
  BY DEF Seeded
<1>3. ASSUME NEW t \in Tables, NeedsSeed(d, t)
      PROVE  /\ SeedTable(d, t) \in SUBSET Row
             /\ UniqueIds(SeedTable(d, t))
             /\ \A r \in SeedTable(d, t) :
                   d.nextIds[t] <= r.id /\ r.id < d.nextIds[t] + Seed[t]
  <2>1. SeedTable(d, t) =
          {[id |-> d.nextIds[t] + k, val |-> SeedValue] : k \in 0 .. Seed[t] - 1}
    BY <1>3 DEF SeedTable
  <2>2. d.nextIds[t] \in Nat /\ d.nextIds[t] > 0 /\ Seed[t] \in Nat
    BY <1>1 DEF Ids
  <2> QED BY <2>1, <2>2 DEF UniqueIds, Row, Ids
<1>4. ASSUME NEW t \in Tables, ~NeedsSeed(d, t)
      PROVE  SeedTable(d, t) = d.rows[t]
  BY <1>4 DEF SeedTable
<1>5. ASSUME NEW t \in Tables
      PROVE  /\ e.nextIds[t] \in Ids /\ e.rows[t] \in SUBSET Row
             /\ UniqueIds(e.rows[t])
             /\ \A r \in e.rows[t] : r.id < e.nextIds[t]
             /\ d.nextIds[t] <= e.nextIds[t]
             /\ \A r \in e.rows[t] : r.id \in RowIds(d.rows[t]) \/ d.nextIds[t] <= r.id
  <2>1. CASE NeedsSeed(d, t)
    <3>1. e.nextIds[t] \in Ids /\ d.nextIds[t] <= e.nextIds[t]
      BY <1>1, <1>2, <2>1 DEF Ids
    <3> QED BY <1>2, <1>3, <2>1, <3>1
  <2>2. CASE ~NeedsSeed(d, t)
    <3>1. d.nextIds[t] <= e.nextIds[t]
      BY <1>1, <1>2, <2>2 DEF Ids
    <3>2. \A r \in d.rows[t] : r.id \in RowIds(d.rows[t])
      BY DEF RowIds
    <3> QED BY <1>1, <1>2, <1>4, <2>2, <3>1, <3>2
  <2> QED BY <2>1, <2>2
<1>6. e \in StoreData
  <2>1. \A t \in Tables : e.nextIds[t] \in Ids /\ e.rows[t] \in SUBSET Row
    BY <1>5
  <2>2. /\ e = [nextIds |-> e.nextIds, rows |-> e.rows]
        /\ e.nextIds = [t \in Tables |-> e.nextIds[t]]
        /\ e.rows = [t \in Tables |-> e.rows[t]]
    BY DEF Seeded
  <2> HIDE DEF e
  <2> QED BY <2>1, <2>2 DEF StoreData, DataOf
<1>7. DOMAIN e.rows = Tables
  BY DEF Seeded
<1> HIDE DEF e
<1>8. FreshIds(e)
  BY <1>5, <1>7 DEF FreshIds
<1>9. Follows(e, d)
  BY <1>5 DEF Follows
<1> QED BY <1>6, <1>8, <1>9 DEF e

\* Empty data always needs seeding, so a start from empty data always saves.
LEMMA EmptyNeedsSeed == \E t \in Tables : NeedsSeed(DEFAULT_DATA, t)
BY ConstantsAssumption DEF NeedsSeed, DEFAULT_DATA

\* With no empty table to seed, seeding changes nothing.
LEMMA SeededNothing ==
    ASSUME NEW d \in StoreData, \A t \in Tables : ~NeedsSeed(d, t)
    PROVE  Seeded(d) = d
<1>1. d = [nextIds |-> d.nextIds, rows |-> d.rows]
  BY DEF StoreData, DataOf
<1>2. d.nextIds = [t \in Tables |-> d.nextIds[t]] /\ d.rows = [t \in Tables |-> d.rows[t]]
  BY DEF StoreData, DataOf
<1> QED BY <1>1, <1>2 DEF Seeded, SeedTable

-----------------------------------------------------------------------------
(* The inductive invariant.                                                *)

IInv == TypeOK /\ IdsFresh /\ Control /\ CleanIsSaved /\ UnsavedHasTimer

\* The model values stand for no object.
LEMMA Distinct ==
    NoFile \notin StoreData /\ Torn \notin StoreData /\ NoCache \notin StoreData
    /\ ~IsFile(NoFile) /\ ~IsFile(NoCache)
BY ConstantsAssumption DEF IsFile, StoreData

\* What a start reads from the file is a full object with fresh ids.
LEMMA DurableType ==
    ASSUME disk = NoFile \/ IsFile(disk), disk # NoFile => FreshIds(disk)
    PROVE  Durable \in StoreData /\ FreshIds(Durable)
BY FilledType, DefaultDataType DEF Durable

LEMMA InitIInv == Init => IInv
<1> SUFFICES ASSUME Init PROVE IInv
  OBVIOUS
<1>1. disk # NoFile => IsFile(disk) /\ FreshIds(disk)
  BY ConstantsAssumption DEF Init
<1>2. TypeOK
  <2>1. ops \in 0 .. MaxOps /\ faults \in 0 .. MaxFaults
    BY ConstantsAssumption DEF Init
  <2> QED BY <1>1, <2>1 DEF Init, TypeOK
<1>3. IdsFresh
  BY <1>1 DEF Init, IdsFresh
<1>4. Control
  BY DEF Init, Control
<1>5. CleanIsSaved /\ UnsavedHasTimer
  BY DEF Init, CleanIsSaved, UnsavedHasTimer
<1> QED BY <1>2, <1>3, <1>4, <1>5 DEF IInv

LEMMA NextIInv == IInv /\ [Next]_vars => IInv'
<1> SUFFICES ASSUME IInv, [Next]_vars PROVE IInv'
  OBVIOUS
<1> USE DEF IInv
<1>0. MaxOps \in Nat /\ MaxFaults \in Nat
  BY ConstantsAssumption
<1>1. CASE LoadFile
  <2>1. cache' \in StoreData /\ FreshIds(cache') /\ IsFile(disk)
    BY <1>1, FilledType DEF LoadFile, TypeOK, IdsFresh
  <2>2. TypeOK'
    <3>1. ops' \in 0 .. MaxOps /\ faults' \in 0 .. MaxFaults
      BY <1>1, <1>0 DEF LoadFile, TypeOK
    <3> QED BY <1>1, <2>1, <3>1, StoreDataIsFile DEF LoadFile, TypeOK
  <2>3. IdsFresh'
    BY <1>1, <2>1, Distinct DEF LoadFile, IdsFresh, TypeOK
  <2>4. Control'
    BY <1>1, <2>1, Distinct DEF LoadFile, Control, TypeOK, Durable
  <2>5. CleanIsSaved'
    BY <1>1, <2>1 DEF LoadFile, CleanIsSaved, Control, Durable
  <2>6. UnsavedHasTimer'
    BY <1>1, <1>0 DEF LoadFile, UnsavedHasTimer, Control, TypeOK
  <2> QED BY <2>2, <2>3, <2>4, <2>5, <2>6
<1>2. CASE LoadNoFile
  <2>1. cache' \in StoreData /\ FreshIds(cache')
    BY <1>2, DefaultDataType DEF LoadNoFile
  <2>2. TypeOK'
    <3>1. ops' \in 0 .. MaxOps /\ faults' \in 0 .. MaxFaults
      BY <1>2, <1>0 DEF LoadNoFile, StartSave, TypeOK
    <3> QED BY <1>2, <2>1, <3>1, StoreDataIsFile DEF LoadNoFile, StartSave, TypeOK
  <2>3. IdsFresh'
    BY <1>2, <2>1, Distinct DEF LoadNoFile, StartSave, IdsFresh, TypeOK
  <2>4. Control'
    BY <1>2, <2>1, Distinct DEF LoadNoFile, StartSave, Control, TypeOK, Durable
  <2>5. CleanIsSaved'
    BY <1>2, <2>1 DEF LoadNoFile, StartSave, CleanIsSaved, Control, Durable
  <2>6. UnsavedHasTimer'
    BY <1>2, <1>0 DEF LoadNoFile, StartSave, UnsavedHasTimer, Control, TypeOK
  <2> QED BY <2>2, <2>3, <2>4, <2>5, <2>6
<1>3. CASE LoadUnreadable
  <2>1. cache' \in StoreData /\ FreshIds(cache')
    BY <1>3, DefaultDataType DEF LoadUnreadable
  <2>2. TypeOK'
    <3>1. ops' \in 0 .. MaxOps /\ faults' \in 0 .. MaxFaults
      BY <1>3, <1>0 DEF LoadUnreadable, TypeOK
    <3> QED BY <1>3, <2>1, <3>1, StoreDataIsFile DEF LoadUnreadable, TypeOK
  <2>3. IdsFresh'
    BY <1>3, <2>1, Distinct DEF LoadUnreadable, IdsFresh, TypeOK
  <2>4. Control'
    BY <1>3, <2>1, Distinct DEF LoadUnreadable, Control, TypeOK, Durable
  <2>5. CleanIsSaved'
    BY <1>3, <2>1 DEF LoadUnreadable, CleanIsSaved, Control, Durable
  <2>6. UnsavedHasTimer'
    BY <1>3, <1>0 DEF LoadUnreadable, UnsavedHasTimer, Control, TypeOK
  <2> QED BY <2>2, <2>3, <2>4, <2>5, <2>6
<1>4. CASE InitDefaultData
  <2>1. cache \in StoreData /\ cache' \in StoreData /\ FreshIds(cache')
    BY <1>4, SeededLemma, Distinct DEF InitDefaultData, TypeOK, IdsFresh, Control
  <2>2. TypeOK'
    <3>1. ops' \in 0 .. MaxOps /\ faults' \in 0 .. MaxFaults
      BY <1>4, <1>0 DEF InitDefaultData, StartSave, TypeOK
    <3> QED BY <1>4, <2>1, <3>1, StoreDataIsFile DEF InitDefaultData, StartSave, TypeOK
  <2>3. IdsFresh'
    BY <1>4, <2>1, Distinct DEF InitDefaultData, StartSave, IdsFresh, TypeOK
  <2>4. Control'
    BY <1>4, <2>1, Distinct, EmptyNeedsSeed DEF InitDefaultData, StartSave, Control, TypeOK, Durable
  <2>5. CleanIsSaved'
    <3>1. SUFFICES ASSUME pc' = "up", ~dirty' PROVE disk # NoFile /\ cache' = Filled(disk)
      BY <1>4 DEF InitDefaultData, CleanIsSaved
    <3>2. \A t \in Tables : ~NeedsSeed(cache, t)
      BY <1>4, <3>1 DEF InitDefaultData, StartSave
    <3>3. cache' = cache
      BY <1>4, <2>1, <3>2, SeededNothing DEF InitDefaultData
    <3>4. cache # DEFAULT_DATA
      BY <3>2, EmptyNeedsSeed
    <3> QED BY <1>4, <3>3, <3>4 DEF InitDefaultData, Control, Durable
  <2>6. UnsavedHasTimer'
    BY <1>4, <1>0 DEF InitDefaultData, StartSave, UnsavedHasTimer, Control, TypeOK
  <2> QED BY <2>2, <2>3, <2>4, <2>5, <2>6
<1>5. CASE TimerFires
  <2>1. cache \in StoreData
    BY <1>5 DEF TimerFires, TypeOK, Control
  <2>2. TypeOK'
    <3>1. ops' \in 0 .. MaxOps /\ faults' \in 0 .. MaxFaults
      BY <1>5, <1>0 DEF TimerFires, StartSave, TypeOK
    <3> QED BY <1>5, <2>1, <3>1, StoreDataIsFile DEF TimerFires, StartSave, TypeOK
  <2>3. IdsFresh'
    BY <1>5, <2>1, Distinct DEF TimerFires, StartSave, IdsFresh, TypeOK
  <2>4. Control'
    BY <1>5, <2>1, Distinct DEF TimerFires, StartSave, Control, TypeOK, Durable
  <2>5. CleanIsSaved'
    BY <1>5, <2>1 DEF TimerFires, StartSave, CleanIsSaved, Control, Durable
  <2>6. UnsavedHasTimer'
    BY <1>5, <1>0 DEF TimerFires, StartSave, UnsavedHasTimer, Control, TypeOK
  <2> QED BY <2>2, <2>3, <2>4, <2>5, <2>6
<1>6. CASE FlushNow
  <2>1. cache \in StoreData
    BY <1>6 DEF FlushNow, TypeOK, Control
  <2>2. TypeOK'
    <3>1. ops' \in 0 .. MaxOps /\ faults' \in 0 .. MaxFaults
      BY <1>6, <1>0 DEF FlushNow, StartSave, TypeOK
    <3> QED BY <1>6, <2>1, <3>1, StoreDataIsFile DEF FlushNow, StartSave, TypeOK
  <2>3. IdsFresh'
    BY <1>6, <2>1, Distinct DEF FlushNow, StartSave, IdsFresh, TypeOK
  <2>4. Control'
    BY <1>6, <2>1, Distinct DEF FlushNow, StartSave, Control, TypeOK, Durable
  <2>5. CleanIsSaved'
    BY <1>6, <2>1 DEF FlushNow, StartSave, CleanIsSaved, Control, Durable
  <2>6. UnsavedHasTimer'
    BY <1>6, <1>0 DEF FlushNow, StartSave, UnsavedHasTimer, Control, TypeOK
  <2> QED BY <2>2, <2>3, <2>4, <2>5, <2>6
<1>7. CASE WriteTmp
  <2>1. cache \in StoreData
    BY <1>7 DEF WriteTmp, TypeOK, Control
  <2>2. TypeOK'
    <3>1. ops' \in 0 .. MaxOps /\ faults' \in 0 .. MaxFaults
      BY <1>7, <1>0 DEF WriteTmp, TypeOK
    <3> QED BY <1>7, <2>1, <3>1, StoreDataIsFile DEF WriteTmp, TypeOK
  <2>3. IdsFresh'
    BY <1>7, <2>1, Distinct DEF WriteTmp, IdsFresh, TypeOK
  <2>4. Control'
    BY <1>7, <2>1, Distinct DEF WriteTmp, Control, TypeOK, Durable
  <2>5. CleanIsSaved'
    BY <1>7, <2>1 DEF WriteTmp, CleanIsSaved, Control, Durable
  <2>6. UnsavedHasTimer'
    BY <1>7, <1>0 DEF WriteTmp, UnsavedHasTimer, Control, TypeOK
  <2> QED BY <2>2, <2>3, <2>4, <2>5, <2>6
<1>8. CASE RenameTmp
  <2>1. cache \in StoreData /\ disk' = cache /\ FreshIds(cache) /\ Filled(disk') = cache
    BY <1>8, FilledType, StoreDataIsFile, Distinct DEF RenameTmp, TypeOK, Control, IdsFresh
  <2>2. TypeOK'
    <3>1. ops' \in 0 .. MaxOps /\ faults' \in 0 .. MaxFaults
      BY <1>8, <1>0 DEF RenameTmp, TypeOK
    <3> QED BY <1>8, <2>1, <3>1, StoreDataIsFile DEF RenameTmp, TypeOK
  <2>3. IdsFresh'
    BY <1>8, <2>1, Distinct DEF RenameTmp, IdsFresh, TypeOK
  <2>4. Control'
    BY <1>8, <2>1, Distinct, DefaultDataType DEF RenameTmp, Control, TypeOK, Durable
  <2>5. CleanIsSaved'
    BY <1>8, <2>1, Distinct DEF CleanIsSaved, RenameTmp
  <2>6. UnsavedHasTimer'
    BY <1>8, <1>0 DEF RenameTmp, UnsavedHasTimer, Control, TypeOK
  <2> QED BY <2>2, <2>3, <2>4, <2>5, <2>6
<1>9. CASE WriteFails
  <2>1. cache' \in StoreData \cup {NoCache} /\ (cache' # NoCache => FreshIds(cache'))
    BY <1>9, DefaultDataType DEF WriteFails, SaveThrows, Dies, TypeOK, IdsFresh
  <2>2. TypeOK'
    <3>1. ops' \in 0 .. MaxOps /\ faults' \in 0 .. MaxFaults
      BY <1>9, <1>0 DEF WriteFails, SaveThrows, Dies, TypeOK
    <3> QED BY <1>9, <2>1, <3>1, StoreDataIsFile DEF WriteFails, SaveThrows, Dies, TypeOK
  <2>3. IdsFresh'
    BY <1>9, <2>1, Distinct DEF WriteFails, SaveThrows, Dies, IdsFresh, TypeOK
  <2>4. Control'
    BY <1>9, <2>1, Distinct DEF WriteFails, SaveThrows, Dies, Control, TypeOK, Durable
  <2>5. CleanIsSaved'
    BY <1>9, <2>1 DEF WriteFails, SaveThrows, Dies, CleanIsSaved, Control, Durable
  <2>6. UnsavedHasTimer'
    BY <1>9, <1>0 DEF WriteFails, SaveThrows, Dies, UnsavedHasTimer, Control, TypeOK
  <2> QED BY <2>2, <2>3, <2>4, <2>5, <2>6
<1>10. CASE RenameFails
  <2>1. cache' \in StoreData \cup {NoCache} /\ (cache' # NoCache => FreshIds(cache'))
    BY <1>10, DefaultDataType DEF RenameFails, SaveThrows, Dies, TypeOK, IdsFresh
  <2>2. TypeOK'
    <3>1. ops' \in 0 .. MaxOps /\ faults' \in 0 .. MaxFaults
      BY <1>10, <1>0 DEF RenameFails, SaveThrows, Dies, TypeOK
    <3> QED BY <1>10, <2>1, <3>1, StoreDataIsFile DEF RenameFails, SaveThrows, Dies, TypeOK
  <2>3. IdsFresh'
    BY <1>10, <2>1, Distinct DEF RenameFails, SaveThrows, Dies, IdsFresh, TypeOK
  <2>4. Control'
    BY <1>10, <2>1, Distinct DEF RenameFails, SaveThrows, Dies, Control, TypeOK, Durable
  <2>5. CleanIsSaved'
    BY <1>10, <2>1 DEF RenameFails, SaveThrows, Dies, CleanIsSaved, Control, Durable
  <2>6. UnsavedHasTimer'
    BY <1>10, <1>0 DEF RenameFails, SaveThrows, Dies, UnsavedHasTimer, Control, TypeOK
  <2> QED BY <2>2, <2>3, <2>4, <2>5, <2>6
<1>11. CASE Crash
  <2>1. cache' = NoCache
    BY <1>11 DEF Crash, Dies
  <2>2. TypeOK'
    <3>1. ops' \in 0 .. MaxOps /\ faults' \in 0 .. MaxFaults
      BY <1>11, <1>0 DEF Crash, Dies, TypeOK
    <3> QED BY <1>11, <2>1, <3>1, StoreDataIsFile DEF Crash, Dies, TypeOK
  <2>3. IdsFresh'
    BY <1>11, <2>1, Distinct DEF Crash, Dies, IdsFresh, TypeOK
  <2>4. Control'
    BY <1>11, <2>1, Distinct DEF Crash, Dies, Control, TypeOK, Durable
  <2>5. CleanIsSaved'
    BY <1>11, <2>1 DEF Crash, Dies, CleanIsSaved, Control, Durable
  <2>6. UnsavedHasTimer'
    BY <1>11, <1>0 DEF Crash, Dies, UnsavedHasTimer, Control, TypeOK
  <2> QED BY <2>2, <2>3, <2>4, <2>5, <2>6
<1>12. CASE Replace
  <2>1. TypeOK'
    <3>1. ops' \in 0 .. MaxOps /\ faults' \in 0 .. MaxFaults
      BY <1>12, <1>0 DEF Replace, TypeOK
    <3> QED BY <1>12, <3>1 DEF Replace, Dies, TypeOK
  <2>2. IdsFresh'
    BY <1>12 DEF Replace, Dies, IdsFresh
  <2>3. Control'
    BY <1>12 DEF Replace, Dies, Control
  <2>4. CleanIsSaved' /\ UnsavedHasTimer'
    BY <1>12 DEF Replace, Dies, CleanIsSaved, UnsavedHasTimer
  <2> QED BY <2>1, <2>2, <2>3, <2>4
<1>13. ASSUME pc = "up", NEW t \in Tables, Write(t)
      PROVE  IInv'
  <2>0. cache \in StoreData /\ FreshIds(cache)
    BY <1>13 DEF TypeOK, Control, IdsFresh
  <2>1. cache' \in StoreData /\ FreshIds(cache')
    BY <1>13, <2>0, WriteLemma
  <2>2. Serve /\ MarkDirty
    BY <1>13 DEF Write, NextId, Insert, Update, UpdateWhere, Remove, RemoveWhere, SetTable
  <2>3. TypeOK'
    <3>1. ops' \in 0 .. MaxOps /\ faults' \in 0 .. MaxFaults
      BY <2>2, <1>0 DEF Serve, TypeOK
    <3> QED BY <2>1, <2>2, <3>1 DEF Serve, MarkDirty, TypeOK
  <2>4. IdsFresh'
    BY <2>1, <2>2 DEF Serve, IdsFresh
  <2>5. Control'
    BY <1>13, <2>1, <2>2, Distinct DEF Serve, MarkDirty, Control
  <2>6. CleanIsSaved' /\ UnsavedHasTimer'
    BY <2>2 DEF MarkDirty, CleanIsSaved, UnsavedHasTimer
  <2> QED BY <2>3, <2>4, <2>5, <2>6
<1>14. CASE UNCHANGED vars
  BY <1>14 DEF vars, TypeOK, IdsFresh, Control, CleanIsSaved, UnsavedHasTimer, Durable
<1> QED BY <1>1, <1>2, <1>3, <1>4, <1>5, <1>6, <1>7, <1>8, <1>9, <1>10, <1>11, <1>12, <1>13, <1>14 DEF Next, Load, Save, Fault

-----------------------------------------------------------------------------
(* The invariants.                                                         *)

LEMMA Inductive == Spec => []IInv
BY InitIInv, NextIInv, PTL DEF Spec

\* Every reachable state of the store has its type; DATA_FILE in particular is
\* never the partial output of saveDataSync.
THEOREM TypeCorrect == Spec => []TypeOK
<1>1. IInv => TypeOK
  BY DEF IInv
<1> QED BY <1>1, Inductive, PTL

\* nextId never hands out an id that a row of the table bears, in memory or in
\* the file, whatever crashes, failed saves and unreadable files intervene.
THEOREM IdsAreFresh == Spec => []IdsFresh
<1>1. IInv => IdsFresh
  BY DEF IInv
<1> QED BY <1>1, Inductive, PTL

\* flushNow may skip the save when _dirty is false: the file is up to date.
THEOREM SkippingIsSafe == Spec => []CleanIsSaved
<1>1. IInv => CleanIsSaved
  BY DEF IInv
<1> QED BY <1>1, Inductive, PTL

\* Without a failed system call, unsaved changes always have a pending timer.
THEOREM TimerIsArmed == Spec => []UnsavedHasTimer
<1>1. IInv => UnsavedHasTimer
  BY DEF IInv
<1> QED BY <1>1, Inductive, PTL

-----------------------------------------------------------------------------
(* Implementation of DurableTables.                                        *)

\* The store's own words for the abstraction's Write.
LEMMA AbstractWrite ==
    ASSUME Memory' \in StoreData, FreshIds(Memory'), Follows(Memory', Memory),
           UNCHANGED Durable
    PROVE  Abstract!Write
BY DEF Abstract!Write, Abstract!StoreData,
       Abstract!DataOf, Abstract!Row, Abstract!Ids, Abstract!FreshIds, Abstract!UniqueIds,
       Abstract!Follows, Abstract!RowIds,
       StoreData, DataOf, Row, Ids, FreshIds, UniqueIds, Follows, RowIds

\* A step of the store is a step of the abstraction or changes neither copy.
LEMMA StepSimulation ==
    ASSUME IInv, IInv', [Next]_vars
    PROVE  \/ Abstract!Write \/ Abstract!Sync \/ Abstract!Lose
           \/ Replace /\ Abstract!Vanish
           \/ LoadUnreadable /\ Abstract!Forget
           \/ UNCHANGED <<Memory, Durable>>
<1> USE DEF IInv
<1>1. Durable' = IF disk' = NoFile THEN DEFAULT_DATA ELSE Filled(disk')
  BY DEF Durable
<1>2. Memory' = IF cache' = NoCache THEN Durable' ELSE cache'
  BY DEF Memory
<1>3. CASE LoadFile
  BY <1>1, <1>2, <1>3, Distinct DEF LoadFile, Memory, Durable, Control
<1>4. CASE LoadNoFile
  BY <1>1, <1>2, <1>4, Distinct, DefaultDataType DEF LoadNoFile, Memory, Durable, Control
<1>5. CASE LoadUnreadable
  <2>1. Memory' = DEFAULT_DATA /\ Durable' = Durable
    BY <1>1, <1>2, <1>5, Distinct, DefaultDataType DEF LoadUnreadable, Durable
  <2> QED BY <1>5, <2>1 DEF Abstract!Forget, Abstract!DEFAULT_DATA, DEFAULT_DATA
<1>6. CASE InitDefaultData
  <2>1. cache \in StoreData /\ FreshIds(cache) /\ cache # NoCache
    BY <1>6, Distinct DEF InitDefaultData, Control, TypeOK, IdsFresh
  <2>2. cache' = Seeded(cache) /\ disk' = disk
    BY <1>6 DEF InitDefaultData
  <2>3. cache' \in StoreData /\ FreshIds(cache') /\ Follows(cache', cache)
    BY <2>1, <2>2, SeededLemma
  <2>4. Memory = cache /\ Memory' = cache' /\ Durable' = Durable
    BY <2>1, <2>2, <2>3, <1>1, <1>2, Distinct DEF Memory, Durable
  <2> QED BY <2>3, <2>4, AbstractWrite
<1>7. CASE TimerFires \/ FlushNow \/ WriteTmp
  BY <1>7 DEF TimerFires, FlushNow, WriteTmp, Memory, Durable
<1>8. CASE RenameTmp
  <2>1. cache \in StoreData /\ disk' = cache /\ cache' = cache
    BY <1>8, Distinct DEF RenameTmp, TypeOK, Control
  <2>2. Durable' = cache /\ Memory' = cache /\ Memory = cache
    BY <2>1, <1>1, <1>2, FilledType, StoreDataIsFile, Distinct DEF Memory
  <2> QED BY <2>2 DEF Abstract!Sync
<1>9. CASE WriteFails \/ RenameFails \/ Crash
  <2>1. disk' = disk /\ (cache' = cache \/ cache' = NoCache)
    BY <1>9 DEF WriteFails, RenameFails, Crash, SaveThrows, Dies, Control
  <2>2. Durable' = Durable
    BY <2>1, <1>1 DEF Durable
  <2>3. CASE cache' = cache
    BY <2>2, <2>3, <1>2 DEF Memory
  <2>4. CASE cache' = NoCache
    BY <2>2, <2>4, <1>2 DEF Abstract!Lose
  <2> QED BY <2>1, <2>3, <2>4
<1>10. ASSUME pc = "up", NEW t \in Tables, Write(t)
       PROVE  Abstract!Write
  <2>1. cache \in StoreData /\ FreshIds(cache) /\ cache # NoCache
    BY <1>10, Distinct DEF Control, TypeOK, IdsFresh
  <2>2. cache' \in StoreData /\ FreshIds(cache') /\ Follows(cache', cache)
    BY <1>10, <2>1, WriteLemma
  <2>3. disk' = disk
    BY <1>10 DEF Write, NextId, Insert, Update, UpdateWhere, Remove, RemoveWhere, SetTable, Serve
  <2>4. Memory = cache /\ Memory' = cache' /\ Durable' = Durable
    BY <2>1, <2>2, <2>3, <1>1, <1>2, Distinct DEF Memory, Durable
  <2> QED BY <2>2, <2>4, AbstractWrite
<1>11. CASE Replace
  <2>1. Durable' = DEFAULT_DATA /\ Memory' = DEFAULT_DATA
    BY <1>1, <1>2, <1>11 DEF Replace, Dies
  <2> QED BY <1>11, <2>1 DEF Abstract!Vanish, Abstract!DEFAULT_DATA, DEFAULT_DATA
<1>12. CASE UNCHANGED vars
  BY <1>12 DEF vars, Memory, Durable
<1> QED BY <1>3, <1>4, <1>5, <1>6, <1>7, <1>8, <1>9, <1>10, <1>11, <1>12
        DEF Next, Load, Save, Fault

\* Both copies are full objects with fresh ids.
LEMMA CopiesType ==
    IInv => /\ Memory \in StoreData /\ FreshIds(Memory)
            /\ Durable \in StoreData /\ FreshIds(Durable)
BY DurableType DEF IInv, TypeOK, IdsFresh, Memory

\* From an unreadable file the process goes to the save that replaces it, or dies.
LEMMA AfreshStep ==
    ASSUME IInv, IInv', [Next]_vars, StartsAfresh
    PROVE  StartsAfresh' \/ Memory' = Durable'
<1> USE DEF IInv
<1>1. pc \in {"boot", "write", "rename"} /\ cache # NoCache
  BY Distinct DEF StartsAfresh, Control
<1>2. CASE InitDefaultData
  <2>1. cache = DEFAULT_DATA
    BY <1>2 DEF InitDefaultData, StartsAfresh, Control
  <2> QED BY <1>2, <2>1, EmptyNeedsSeed DEF InitDefaultData, StartSave, StartsAfresh
<1>3. CASE WriteTmp
  BY <1>3 DEF WriteTmp, StartsAfresh
<1>4. CASE RenameTmp
  <2>1. cache \in StoreData /\ disk' = cache /\ cache' = cache
    BY <1>4, Distinct DEF RenameTmp, TypeOK, Control
  <2>2. Durable' = cache
    BY <2>1, FilledType, StoreDataIsFile, Distinct DEF Durable
  <2>3. Memory' = cache
    BY <2>1, Distinct DEF Memory
  <2> QED BY <2>2, <2>3
<1>5. CASE WriteFails \/ RenameFails \/ Crash \/ Replace
  <2>1. cache' = NoCache
    BY <1>5 DEF WriteFails, RenameFails, Crash, Replace, SaveThrows, Dies, StartsAfresh, Control
  <2> QED BY <2>1 DEF Memory
<1>6. CASE UNCHANGED vars
  BY <1>6 DEF vars, StartsAfresh
<1> QED BY <1>1, <1>2, <1>3, <1>4, <1>5, <1>6
        DEF Next, Load, LoadFile, LoadNoFile, LoadUnreadable, TimerFires, FlushNow, Save, Fault

\* The memory follows the file after every step: an operation appends to what
\* it follows, a save and a crash make the two equal.
LEMMA FollowsStep ==
    ASSUME IInv, IInv', MemoryFollowsFile, [Next]_vars
    PROVE  MemoryFollowsFile'
<1>1. Memory \in StoreData /\ Durable \in StoreData
  BY CopiesType
<1>2. Memory' \in StoreData /\ Durable' \in StoreData
  <2>1. (Memory \in StoreData /\ Durable \in StoreData)'
    BY CopiesType, PTL
  <2> QED BY <2>1
<1>3. CASE StartsAfresh
  BY <1>2, <1>3, AfreshStep, FollowsReflexive DEF MemoryFollowsFile
<1>4. CASE LoadUnreadable
  BY <1>4 DEF LoadUnreadable, MemoryFollowsFile, StartsAfresh
<1>5. CASE ~StartsAfresh /\ ~LoadUnreadable
  <2> SUFFICES Follows(Memory', Durable')
    BY DEF MemoryFollowsFile
  <2>1. Follows(Memory, Durable)
    BY <1>5 DEF MemoryFollowsFile
  <2>2. CASE Abstract!Write
    <3>1. Follows(Memory', Memory) /\ Durable' = Durable
      BY <2>2 DEF Abstract!Write, Abstract!Follows, Abstract!RowIds, Follows, RowIds
    <3> QED BY <2>1, <1>1, <1>2, <3>1, FollowsTransitive
  <2>3. CASE Abstract!Sync \/ Abstract!Lose \/ Abstract!Vanish
    <3>1. Memory' = Durable'
      BY <2>3 DEF Abstract!Sync, Abstract!Lose, Abstract!Vanish
    <3> QED BY <1>2, <3>1, FollowsReflexive
  <2>4. CASE UNCHANGED <<Memory, Durable>>
    BY <2>1, <2>4
  <2> QED BY <1>5, <2>2, <2>3, <2>4, StepSimulation
<1> QED BY <1>3, <1>4, <1>5

LEMMA InitFollows == Init => MemoryFollowsFile
<1> SUFFICES ASSUME Init PROVE Follows(Memory, Durable)
  BY DEF MemoryFollowsFile
<1>1. Memory = Durable /\ Durable \in StoreData
  BY InitIInv, CopiesType DEF Init, Memory
<1> QED BY <1>1, FollowsReflexive

\* The memory follows the file in every reachable state.
LEMMA AlwaysFollows == Spec => []MemoryFollowsFile
<1>1. IInv /\ IInv' /\ MemoryFollowsFile /\ [Next]_vars => MemoryFollowsFile'
  BY FollowsStep
<1> QED BY <1>1, InitFollows, Inductive, PTL DEF Spec

\* No id the file has handed out is ever given to another row of the file,
\* whatever is lost in between, until the file is lost with its container or a
\* start replaces a file it could not read.
THEOREM SavedIds == Spec => SavedIdsNotReused
<1>1. ASSUME IInv, MemoryFollowsFile, [Next]_vars,
             disk # NoFile, disk' # NoFile, ~StartsAfresh, disk' # disk
      PROVE  Follows(Filled(disk'), Filled(disk))
  <2>1. RenameTmp
    BY <1>1 DEF Next, Load, LoadFile, LoadNoFile, LoadUnreadable, InitDefaultData,
       TimerFires, FlushNow, Save, WriteTmp, Fault, WriteFails, RenameFails, Crash, Replace, vars,
       Write, NextId, Insert, Update, UpdateWhere, Remove, RemoveWhere, SetTable, Serve
  <2>2. cache \in StoreData /\ disk' = cache /\ cache # NoCache
    BY <1>1, <2>1, Distinct DEF RenameTmp, IInv, TypeOK, Control
  <2>3. Filled(disk') = Memory /\ Filled(disk) = Durable
    BY <1>1, <2>2, FilledType, StoreDataIsFile DEF Memory, Durable
  <2> QED BY <1>1, <2>3 DEF MemoryFollowsFile
<1>2. IInv /\ MemoryFollowsFile /\ [Next]_vars
        => [disk # NoFile /\ disk' # NoFile /\ ~StartsAfresh
              => Follows(Filled(disk'), Filled(disk))]_disk
  BY <1>1
<1> QED BY <1>2, Inductive, AlwaysFollows, PTL DEF Spec, SavedIdsNotReused

\* The store, with its cache, timer, temporary file and crashes, implements a
\* memory with a durable copy that lags behind, that a crash falls back to and
\* that a lost container takes along.
THEOREM Implementation == Spec => ImplementsDurableTables
<1>1. Init => Abstract!Init
  <2> SUFFICES ASSUME Init PROVE Abstract!Init
    OBVIOUS
  <2>1. Memory = Durable /\ Durable \in StoreData /\ FreshIds(Durable)
    BY InitIInv, CopiesType DEF Init, Memory
  <2> QED BY <2>1 DEF Abstract!Init, Abstract!StoreData,
       Abstract!DataOf, Abstract!Row, Abstract!Ids, Abstract!FreshIds, Abstract!UniqueIds,
       StoreData, DataOf, Row, Ids, FreshIds, UniqueIds
<1>2. IInv /\ IInv' /\ [Next]_vars => [Abstract!Next]_<<Memory, Durable>>
  BY StepSimulation DEF Abstract!Next
<1> QED BY <1>1, <1>2, Inductive, PTL DEF Spec, ImplementsDurableTables, Abstract!Spec
=============================================================================
