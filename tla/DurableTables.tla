--------------------------- MODULE DurableTables ---------------------------
(***************************************************************************)
(* What file_store.ts promises the repositories: tables with ids that are  *)
(* never handed out twice, in memory, with a durable copy that lags        *)
(* behind.  The copy is only ever replaced by the whole memory; a crash    *)
(* takes the memory back to exactly that copy, or to nothing when the copy *)
(* cannot be read; and both are lost with a container that kept the copy   *)
(* in its own /tmp.                                                        *)
(***************************************************************************)
EXTENDS StoreData

VARIABLES mem, durable

Init == /\ mem = durable
        /\ durable \in StoreData
        /\ FreshIds(durable)

\* Any operation of the store.
Write == /\ mem' \in StoreData
         /\ FreshIds(mem')
         /\ Follows(mem', mem)
         /\ UNCHANGED durable

\* A save that completed.
Sync == durable' = mem /\ UNCHANGED mem

\* The process died: what was not saved is forgotten.
Lose == mem' = durable /\ UNCHANGED durable

\* The file cannot be read at a start: the memory begins with empty data.
Forget == mem' = DEFAULT_DATA /\ UNCHANGED durable

\* A new container without the file of the old one.
Vanish == mem' = DEFAULT_DATA /\ durable' = DEFAULT_DATA

Next == Write \/ Sync \/ Lose \/ Forget \/ Vanish

Spec == Init /\ [][Next]_<<mem, durable>>
=============================================================================
