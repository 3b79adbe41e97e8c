------------------------------ MODULE Storage ------------------------------
(***************************************************************************)
(* What is kept in one extension's storage: records beside an index, the   *)
(* audit trail and the protected credentials, under one worker that may go *)
(* away and one quota that a write may exceed.  They share no other state, *)
(* so a behaviour is about one of them.                                    *)
(***************************************************************************)
EXTENDS RecordStore, AuditTrail, LocalEncryption

VARIABLE about

recordVars  == <<old, record, index, job, kept, dropped, failed>>
storageVars == <<vars, trailVars, keysVars, about>>

StorageInit ==
    /\ about \in {"records", "trail", "keys"}
    /\ Init /\ TrailInit /\ KeysInit
    /\ about # "records" => old = <<>>
    /\ about # "keys" => ~flag /\ \A r \in Records : stored[r] = Absent

\* The worker goes away, and may take the browser's session with it.
WorkerGone ==
    /\ Evict /\ TrailForgets /\ KeysForget
    /\ UNCHANGED about

StorageNext ==
    \/ about = "records" /\ RecordsNext /\ UNCHANGED <<trailVars, keysVars, about>>
    \/ about = "trail" /\ TrailNext /\ UNCHANGED <<recordVars, keysVars, about>>
    \/ about = "keys" /\ KeysNext /\ UNCHANGED <<recordVars, trailVars, about>>
    \/ WorkerGone

StorageSpec == StorageInit /\ [][StorageNext]_storageVars

StorageTypeOK == TypeOK /\ TrailTypeOK /\ KeysTypeOK
=============================================================================
