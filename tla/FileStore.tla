----------------------------- MODULE FileStore -----------------------------
(***************************************************************************)
(* The JSON file store of src/src/storage/file_store.ts: the whole data    *)
(* base is one object in memory (_cache) that a debounced timer, or an     *)
(* explicit flushNow(), writes to one file.                                *)
(*                                                                         *)
(* Node runs a handler without interruption, so every exported operation   *)
(* is one action.  saveDataSync() blocks the event loop as well, but the   *)
(* process can die between its two system calls: it is two actions,        *)
(* WriteTmp and RenameTmp, during which only a crash may interleave.       *)
(*                                                                         *)
(* The process can stop in two ways.  Crash takes the process alone: its   *)
(* file outlives it, as when the process exits and is started again in its *)
(* container, or when FILE_STORE_PATH names a mounted volume.  Replace     *)
(* takes the container: with the default path /tmp/jtfp_store.json the     *)
(* file goes with it.                                                      *)
(*                                                                         *)
(* A table is the set of its rows: the order of rows, which only the       *)
(* in-place sorts of the list() functions change, is not modelled.         *)
(***************************************************************************)
EXTENDS StoreData

CONSTANTS
    Seed,          \* rows that initDefaultData puts in an empty table
    SeedValue,     \* what those rows hold
    InitialFiles,  \* files an earlier release may have left behind
    MaxOps,        \* bound: requests that write
    MaxFaults,     \* bound: crashes, lost containers and failed system calls
    NoFile, Torn, NoCache

VARIABLES
    cache,    \* _cache
    dirty,    \* _dirty
    timer,    \* is the 100 ms timer of markDirty pending?
    disk,     \* contents of DATA_FILE
    tmp,      \* contents of DATA_FILE.tmp
    pc,       \* where the process is
    caller,   \* who called the saveDataSync in progress
    ops, faults

vars == <<cache, dirty, timer, disk, tmp, pc, caller, ops, faults>>

ASSUME ConstantsAssumption ==
    /\ Seed \in [Tables -> Nat]
    /\ \E t \in Tables : Seed[t] > 0
    /\ SeedValue \in Values
    /\ \A f \in InitialFiles : IsFile(f) /\ FreshIds(f)
    /\ MaxOps \in Nat /\ MaxFaults \in Nat
    /\ ~IsFile(NoFile) /\ ~IsFile(Torn) /\ NoFile # Torn
    /\ ~IsFile(NoCache)

-----------------------------------------------------------------------------
(* Boot: index.ts start() -> initStorage -> initDefaultData -> loadData.   *)

Init ==
    /\ disk \in {NoFile} \cup InitialFiles
    /\ tmp = NoFile
    /\ cache = NoCache
    /\ dirty = FALSE
    /\ timer = FALSE
    /\ pc = "down"
    /\ caller = "none"
    /\ ops = 0
    /\ faults = 0

\* Tables missing from the file come from DEFAULT_DATA.
Filled(f) ==
    [nextIds |-> f.nextIds,
     rows |-> [t \in Tables |-> IF t \in DOMAIN f.rows THEN f.rows[t] ELSE {}]]

StartSave(who) == pc' = "write" /\ caller' = who

LoadFile ==
    /\ pc = "down" /\ disk # NoFile
    /\ cache' = Filled(disk)
    /\ pc' = "boot"
    /\ UNCHANGED <<dirty, timer, disk, tmp, caller, ops, faults>>

LoadNoFile ==
    /\ pc = "down" /\ disk = NoFile
    /\ cache' = DEFAULT_DATA
    /\ StartSave("load")
    /\ UNCHANGED <<dirty, timer, disk, tmp, ops, faults>>

\* existsSync succeeded, readFileSync or JSON.parse threw: the catch block
\* starts from empty data and leaves the file alone.
LoadUnreadable ==
    /\ faults < MaxFaults
    /\ pc = "down" /\ disk # NoFile
    /\ cache' = DEFAULT_DATA
    /\ pc' = "boot"
    /\ faults' = faults + 1
    /\ UNCHANGED <<dirty, timer, disk, tmp, caller, ops>>

NeedsSeed(d, t) == Seed[t] > 0 /\ d.rows[t] = {}

SeedTable(d, t) ==
    IF NeedsSeed(d, t)
    THEN {[id |-> d.nextIds[t] + k, val |-> SeedValue] : k \in 0 .. Seed[t] - 1}
    ELSE d.rows[t]

Seeded(d) ==
    [nextIds |-> [t \in Tables |-> IF NeedsSeed(d, t) THEN d.nextIds[t] + Seed[t]
                                                      ELSE d.nextIds[t]],
     rows |-> [t \in Tables |-> SeedTable(d, t)]]

\* The inserts of initDefaultData and its flushNow, up to the save.
InitDefaultData ==
    /\ pc = "boot"
    /\ cache' = Seeded(cache)
    /\ timer' = FALSE
    /\ IF \E t \in Tables : NeedsSeed(cache, t)
       THEN dirty' = TRUE /\ StartSave("boot")
       ELSE pc' = "up" /\ UNCHANGED <<dirty, caller>>
    /\ UNCHANGED <<disk, tmp, ops, faults>>

-----------------------------------------------------------------------------
(* Saving.                                                                 *)

\* markDirty: clear a pending timer and arm a new one.
MarkDirty == dirty' = TRUE /\ timer' = TRUE

\* Mutant: the test of _dirty in the timer is inverted.
TimerFires_Inverted ==
    /\ pc = "up" /\ timer
    /\ timer' = FALSE
    /\ IF ~dirty THEN StartSave("timer") ELSE UNCHANGED <<pc, caller>>
    /\ UNCHANGED <<cache, dirty, disk, tmp, ops, faults>>

TimerFires ==
    /\ pc = "up" /\ timer
    /\ timer' = FALSE
    /\ IF dirty THEN StartSave("timer") ELSE UNCHANGED <<pc, caller>>
    /\ UNCHANGED <<cache, dirty, disk, tmp, ops, faults>>

FlushNow ==
    /\ pc = "up"
    /\ timer' = FALSE
    /\ IF dirty THEN StartSave("flush") ELSE UNCHANGED <<pc, caller>>
    /\ UNCHANGED <<cache, dirty, disk, tmp, ops, faults>>

\* Mutant: the file is written without _meta.nextIds.
WriteTmp_WithoutCounters ==
    /\ pc = "write"
    /\ tmp' = [cache EXCEPT !.nextIds = DEFAULT_DATA.nextIds]
    /\ pc' = "rename"
    /\ UNCHANGED <<cache, dirty, timer, disk, caller, ops, faults>>

\* saveDataSync: writeFileSync(tmpFile), then renameSync(tmpFile, DATA_FILE).
WriteTmp ==
    /\ pc = "write"
    /\ tmp' = cache
    /\ pc' = "rename"
    /\ UNCHANGED <<cache, dirty, timer, disk, caller, ops, faults>>

RenameTmp ==
    /\ pc = "rename"
    /\ disk' = tmp /\ tmp' = NoFile
    /\ dirty' = FALSE
    /\ pc' = IF caller = "load" THEN "boot" ELSE "up"
    /\ caller' = "none"
    /\ UNCHANGED <<cache, timer, ops, faults>>

\* The process is gone; the files stay as they are.
Dies == /\ cache' = NoCache /\ dirty' = FALSE /\ timer' = FALSE
        /\ pc' = "down" /\ caller' = "none"

\* What an exception out of saveDataSync does: loadData catches it and goes
\* on with empty data; flushNow passes it to the handler, which answers with
\* an error; in the timer and in start() nobody catches it.
SaveThrows ==
    \/ /\ caller = "load"
       /\ cache' = DEFAULT_DATA /\ pc' = "boot" /\ caller' = "none"
       /\ UNCHANGED <<dirty, timer>>
    \/ /\ caller = "flush"
       /\ pc' = "up" /\ caller' = "none"
       /\ UNCHANGED <<cache, dirty, timer>>
    \/ caller \in {"boot", "timer"} /\ Dies

\* Mutant: writeFileSync writes DATA_FILE itself.
WriteFails_InPlace ==
    /\ pc = "write" /\ faults < MaxFaults
    /\ disk' = Torn
    /\ SaveThrows
    /\ faults' = faults + 1
    /\ UNCHANGED <<tmp, ops>>

WriteFails ==
    /\ pc = "write" /\ faults < MaxFaults
    /\ tmp' = Torn
    /\ SaveThrows
    /\ faults' = faults + 1
    /\ UNCHANGED <<disk, ops>>

RenameFails ==
    /\ pc = "rename" /\ faults < MaxFaults
    /\ SaveThrows
    /\ faults' = faults + 1
    /\ UNCHANGED <<disk, tmp, ops>>

\* Environment: the process dies at any point of the program; its files stay.
Crash ==
    /\ pc # "down" /\ faults < MaxFaults
    /\ Dies
    /\ tmp' \in (IF pc = "write" THEN {tmp, Torn} ELSE {tmp})
    /\ faults' = faults + 1
    /\ UNCHANGED <<disk, ops>>

\* Environment: the container is restarted or redeployed, and what it kept in
\* its /tmp is gone.
Replace ==
    /\ faults < MaxFaults
    /\ Dies
    /\ disk' = NoFile /\ tmp' = NoFile
    /\ faults' = faults + 1
    /\ UNCHANGED ops

-----------------------------------------------------------------------------
(* The operations the repositories call.                                   *)

Serve == /\ pc = "up" /\ ops < MaxOps
         /\ ops' = ops + 1
         /\ UNCHANGED <<disk, tmp, pc, caller, faults>>

SetRows(t, rows) == cache' = [cache EXCEPT !.rows[t] = rows]

\* nextId on its own: the id is handed out and not used.
NextId(t) ==
    /\ Serve
    /\ cache' = [cache EXCEPT !.nextIds[t] = @ + 1]
    /\ MarkDirty

Insert(t, v) ==
    /\ Serve
    /\ LET id == cache.nextIds[t]
       IN  cache' = [cache EXCEPT !.nextIds[t] = id + 1,
                                  !.rows[t] = @ \cup {[id |-> id, val |-> v]}]
    /\ MarkDirty

\* The rows S of a table with the value v.
Changed(rows, S, v) == (rows \ S) \cup {[id |-> r.id, val |-> v] : r \in S}

\* update returns false before markDirty when no row has the id.  The pages
\* that send a whole row back send its own id, so the id stays.
Update(t, id, v) ==
    /\ Serve
    /\ \E r \in cache.rows[t] :
          /\ r.id = id
          /\ SetRows(t, Changed(cache.rows[t], {r}, v))
    /\ MarkDirty

\* updateWhere: S is what the predicate selects; nothing selected, no change.
UpdateWhere(t, S, v) ==
    /\ Serve
    /\ S # {}
    /\ SetRows(t, Changed(cache.rows[t], S, v))
    /\ MarkDirty

\* Mutant: removing the newest row gives its id back.
Remove_RecyclesId(t, id) ==
    /\ Serve
    /\ \E r \in cache.rows[t] :
          /\ r.id = id
          /\ cache' = [cache EXCEPT !.rows[t] = @ \ {r},
                                    !.nextIds[t] = IF id + 1 = @ THEN id ELSE @]
    /\ MarkDirty

Remove(t, id) ==
    /\ Serve
    /\ \E r \in cache.rows[t] : r.id = id /\ SetRows(t, cache.rows[t] \ {r})
    /\ MarkDirty

\* Mutant: markDirty is forgotten.
RemoveWhere_NotDirty(t, S) ==
    /\ Serve
    /\ S # {}
    /\ SetRows(t, cache.rows[t] \ S)
    /\ UNCHANGED <<dirty, timer>>

\* removeWhere: marks the data dirty only when a row went away.
RemoveWhere(t, S) ==
    /\ Serve
    /\ S # {}
    /\ SetRows(t, cache.rows[t] \ S)
    /\ MarkDirty

\* setTable: the rows are some of the rows the caller read from the table.
SetTable(t, S) ==
    /\ Serve
    /\ SetRows(t, S)
    /\ MarkDirty

Write(t) ==
    \/ NextId(t)
    \/ \E v \in Values : Insert(t, v)
    \/ \E r \in cache.rows[t] : Remove(t, r.id)
    \/ \E r \in cache.rows[t], v \in Values : Update(t, r.id, v)
    \/ \E S \in SUBSET cache.rows[t] : RemoveWhere(t, S) \/ SetTable(t, S)
    \/ \E S \in SUBSET cache.rows[t], v \in Values : UpdateWhere(t, S, v)

Load == LoadFile \/ LoadNoFile \/ LoadUnreadable
Save == WriteTmp \/ RenameTmp
Fault == WriteFails \/ RenameFails \/ Crash \/ Replace

Next ==
    \/ Load \/ InitDefaultData
    \/ TimerFires \/ FlushNow \/ Save \/ Fault
    \/ pc = "up" /\ \E t \in Tables : Write(t)

Spec == Init /\ [][Next]_vars

\* The container platform restarts the process, a synchronous call returns,
\* and a pending timer fires once no request comes in (ops is bounded).
FairSpec == Spec /\ WF_vars(Load) /\ WF_vars(InitDefaultData)
                 /\ WF_vars(Save) /\ WF_vars(TimerFires)

-----------------------------------------------------------------------------
(* Properties.                                                             *)

\* The file as the next start will read it, and the memory (while the process
\* is down: the memory it will start from).
Durable == IF disk = NoFile THEN DEFAULT_DATA ELSE Filled(disk)
Memory == IF cache = NoCache THEN Durable ELSE cache

\* Every variable has its type.  DATA_FILE is never a partly written file,
\* because the only thing ever renamed to it is a completed write.
TypeOK ==
    /\ cache \in StoreData \cup {NoCache}
    /\ disk = NoFile \/ IsFile(disk)
    /\ tmp \in StoreData \cup {NoFile, Torn}
    /\ dirty \in BOOLEAN /\ timer \in BOOLEAN
    /\ pc \in {"down", "boot", "up", "write", "rename"}
    /\ caller \in {"none", "load", "boot", "timer", "flush"}
    /\ ops \in 0 .. MaxOps /\ faults \in 0 .. MaxFaults

\* Auto-increment: in memory and in the file an id belongs to one row of its
\* table and was counted by nextIds, across crashes, restarts, files of an
\* earlier release and the seeding of empty tables.
IdsFresh ==
    /\ cache # NoCache => FreshIds(cache)
    /\ disk # NoFile => FreshIds(disk)

\* A server that is up and not dirty has nothing to lose: its file holds what
\* its memory holds.  This is what lets flushNow skip the save.
CleanIsSaved ==
    pc = "up" /\ ~dirty => disk # NoFile /\ cache = Filled(disk)

\* Unsaved changes always have a timer that will save them, unless a failed
\* flushNow took the timer away (it clears the timer before it tries to save).
UnsavedHasTimer == pc = "up" /\ dirty /\ ~timer => faults > 0

\* Between a start that could not read the file and the save that replaces the
\* file, the store holds empty or freshly seeded data.
StartsAfresh ==
    \/ pc = "boot" /\ cache = DEFAULT_DATA
    \/ caller = "boot" /\ cache = Seeded(DEFAULT_DATA)

\* What the file has once promised holds until the file is lost with its
\* container, or is replaced by a start that could not read it: an id that
\* shows up in the file for the first time is one the previous file had not
\* handed out, so no saved row's id is given to another row, whatever crashes
\* and failed saves come in between.
SavedIdsNotReused ==
    [][disk # NoFile /\ disk' # NoFile /\ ~StartsAfresh
         => Follows(Filled(disk'), Filled(disk))]_disk

\* Where the process can be, given what it holds: the strengthening that makes
\* the invariants above inductive.  Only a start from an unreadable file holds
\* something else than what the file says before it serves requests.
Control ==
    /\ pc = "down" <=> cache = NoCache
    /\ pc = "down" => ~dirty /\ ~timer
    /\ pc = "boot" => /\ ~dirty /\ ~timer
                      /\ cache = Durable \/ cache = DEFAULT_DATA
    /\ pc = "rename" => tmp = cache
    /\ pc \in {"write", "rename"} <=> caller # "none"
    /\ caller = "load" => cache = DEFAULT_DATA /\ disk = NoFile /\ ~dirty /\ ~timer
    /\ caller \in {"boot", "timer", "flush"} => dirty

\* The memory follows the file, wherever the process is.
MemoryFollowsFile == StartsAfresh \/ Follows(Memory, Durable)

\* Unsaved changes end up in the file, or are lost with the process, or are
\* left without a timer by a save that failed.
EventuallySaved == dirty ~> (~dirty \/ (faults > 0 /\ ~timer /\ pc = "up"))

\* The store implements the lagging durable copy of DurableTables.
Abstract == INSTANCE DurableTables WITH mem <- Memory, durable <- Durable
ImplementsDurableTables == Abstract!Spec
=============================================================================
