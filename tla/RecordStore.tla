---------------------------- MODULE RecordStore ----------------------------
(***************************************************************************)
(* Records kept one to a key beside an index that names them, and the      *)
(* upgrade that brings an older generation forward on the first use by     *)
(* each worker.  Every storage call is atomic on its own key and nothing   *)
(* else is; an action is what a caller does from one storage call to the   *)
(* next.  A worker may go away in between, and a write may fail.           *)
(***************************************************************************)
EXTENDS StorageFaults, SequencesExt

CONSTANTS
    Ids,
    Callers,       \* what calls the store at the same time
    Upgrade,       \* and what brings the older generation forward
    Does,          \* the operations each of them asks for
    Generations,   \* the older generations a profile may hold: ids, the newest first
    Unreadable,    \* the ids whose old record cannot be migrated
    MaxRecords     \* the cap

Operations == {"put", "replace", "mutate", "remove"}

ASSUME StoreAssumption ==
    /\ Upgrade \notin Callers
    /\ Does \in [Callers -> SUBSET Operations]
    /\ Generations \subseteq Seq(Ids) /\ \A g \in Generations : IsInjective(g)
    /\ Unreadable \subseteq Ids
    /\ MaxRecords \in Nat \ {0}

VARIABLES
    old,       \* durable: what is left of the older generation
    record,    \* durable: each id's record - none, one brought forward, one written since
    index,     \* durable: the ids, the newest first
    job,       \* each caller's operation, and the worker's upgrade, which writes several ids
    kept,      \* history: the ids whose record the store took charge of
    dropped,   \* history: those of them a caller removed or the cap pushed out
    failed     \* history: an upgrade failed

vars == <<old, record, index, job, kept, dropped, failed, faults>>

Contents == {"none", "old", "new"}

Idle == [pc |-> "idle", ids |-> <<>>, doomed |-> {}, live |-> {}]
NotRun == [Idle EXCEPT !.pc = "not run"]

Writers == Callers \cup {Upgrade}
Fresh == [w \in Writers |-> IF w = Upgrade THEN NotRun ELSE Idle]

At(w, pc)      == job[w].pc = pc
Become(w, j)   == job' = [job EXCEPT ![w] = j]
Go(w, pc)      == job' = [job EXCEPT ![w].pc = pc]
Target(w)      == Last(job[w].ids)

Init ==
    /\ old \in Generations
    /\ record = [id \in Ids |-> "none"] /\ index = <<>>
    /\ job = Fresh
    /\ kept = ToSet(old) \ Unreadable /\ dropped = {}
    /\ failed = FALSE /\ faults = 0

\* No id is in the index twice.
Without(seq, id) == RemoveFirst(seq, id)

Newest(seq) == SubSeq(seq, 1, IF Len(seq) < MaxRecords THEN Len(seq) ELSE MaxRecords)

\* Mutation: the new id goes last, where the cap takes it first.
IndexedLast(id) == Newest(Append(Without(index, id), id))

Indexed(id) == Newest(<<id>> \o Without(index, id))

-----------------------------------------------------------------------------
(* write(), by a caller or by the upgrade. *)

\* The record is written ...
Set(w) ==
    /\ At(w, "setting")
    /\ record' = [record EXCEPT ![Target(w)] = IF w = Upgrade THEN "old" ELSE "new"]
    /\ Go(w, "indexing")
    /\ UNCHANGED <<old, index, kept, dropped, failed, faults>>

\* ... the index is updated, up to the cap ...
SetIndex(w) ==
    /\ At(w, "indexing")
    /\ index' = Indexed(Target(w))
    /\ kept' = kept \cup {Target(w)}
    /\ dropped' = (dropped \cup (ToSet(index) \ ToSet(index'))) \ {Target(w)}
    /\ Become(w, [job[w] EXCEPT !.pc = "listing", !.live = ToSet(index')])
    /\ UNCHANGED <<old, record, failed, faults>>

\* ... evict() lists the keys, and those that the index it wrote does not name ...
ListKeys(w) ==
    /\ At(w, "listing")
    /\ Become(w, [job[w] EXCEPT !.pc = "evicting", !.live = {},
                      !.doomed = {id \in Ids : record[id] # "none"} \ job[w].live])
    /\ UNCHANGED <<old, record, index, kept, dropped, failed, faults>>

\* ... are removed one by one.  The upgrade goes on to its next record.
EvictKey(w) ==
    /\ At(w, "evicting")
    /\ IF job[w].doomed # {}
       THEN \E id \in job[w].doomed :
                /\ record' = [record EXCEPT ![id] = "none"]
                /\ Become(w, [job[w] EXCEPT !.doomed = @ \ {id}])
       ELSE /\ Become(w, IF w = Upgrade THEN [job[w] EXCEPT !.pc = "choosing", !.ids = Front(@)]
                         ELSE Idle)
            /\ UNCHANGED record
    /\ UNCHANGED <<old, index, kept, dropped, failed, faults>>

-----------------------------------------------------------------------------
(* ensureUpgraded and runUpgrade. *)

\* Any operation begins with it: the old generation is read, and its records are gone through,
\* the oldest first.
BeginUpgrade ==
    /\ At(Upgrade, "not run")
    /\ Become(Upgrade, IF old = <<>> THEN [Idle EXCEPT !.pc = "done"]
                       ELSE [Idle EXCEPT !.pc = "choosing", !.ids = old])
    /\ UNCHANGED <<old, record, index, kept, dropped, failed, faults>>

\* The next record, or the end of them.  One that cannot be migrated is passed over.
ChooseNext ==
    /\ At(Upgrade, "choosing")
    /\ IF job[Upgrade].ids = <<>> THEN Go(Upgrade, "verifying")
       ELSE IF Target(Upgrade) \in Unreadable
            THEN Become(Upgrade, [job[Upgrade] EXCEPT !.ids = Front(@)])
            ELSE Go(Upgrade, "setting")
    /\ UNCHANGED <<old, record, index, kept, dropped, failed, faults>>

\* Where the newest record that can be migrated is, if there is one.
Sample == {i \in 1..Len(old) : /\ old[i] \notin Unreadable
                               /\ \A j \in 1..(i - 1) : old[j] \in Unreadable}

\* verify() reads it back.
Verify ==
    /\ At(Upgrade, "verifying")
    /\ Go(Upgrade, IF \A i \in Sample : record[old[i]] # "none" THEN "clearing" ELSE "done")
    /\ UNCHANGED <<old, record, index, kept, dropped, failed, faults>>

\* Mutation: a generation with a record that could not be migrated is left in place.
ClearIfComplete ==
    /\ At(Upgrade, "clearing")
    /\ IF ToSet(old) \cap Unreadable # {} \/ old = <<>>
       THEN Become(Upgrade, [Idle EXCEPT !.pc = "done"]) /\ UNCHANGED old
       ELSE old' \in {<<>>, Tail(old)} /\ UNCHANGED job
    /\ UNCHANGED <<record, index, kept, dropped, failed, faults>>

\* clearLegacy: a blob goes at once, a versioned generation key by key and its index last.
ClearLegacy ==
    /\ At(Upgrade, "clearing")
    /\ IF old = <<>> THEN Become(Upgrade, [Idle EXCEPT !.pc = "done"]) /\ UNCHANGED old
       ELSE old' \in {<<>>, Tail(old)} /\ UNCHANGED job
    /\ UNCHANGED <<record, index, kept, dropped, failed, faults>>

-----------------------------------------------------------------------------
(* The callers. *)

Start(c, operation, pc) ==
    /\ At(Upgrade, "done") /\ At(c, "idle") /\ operation \in Does[c]
    /\ \E id \in Ids : Become(c, [Idle EXCEPT !.pc = pc, !.ids = <<id>>])
    /\ UNCHANGED <<old, record, index, kept, dropped, failed, faults>>

Put(c)     == Start(c, "put", "setting")
Replace(c) == Start(c, "replace", "looking")
RemoveId(c) == Start(c, "remove", "removing")

\* replace() writes a record that the index names where it is.
Look(c) ==
    /\ At(c, "looking")
    /\ Go(c, IF Target(c) \in ToSet(index) THEN "replacing" ELSE "setting")
    /\ UNCHANGED <<old, record, index, kept, dropped, failed, faults>>

ReplaceInPlace(c) ==
    /\ At(c, "replacing")
    /\ record' = [record EXCEPT ![Target(c)] = "new"]
    /\ Become(c, Idle)
    /\ UNCHANGED <<old, index, kept, dropped, failed, faults>>

\* mutate() changes a record that is there, in one update.
Mutate(c) ==
    /\ At(Upgrade, "done") /\ At(c, "idle") /\ "mutate" \in Does[c]
    /\ \E id \in Ids :
          /\ record[id] = "old"
          /\ record' = [record EXCEPT ![id] = "new"]
    /\ UNCHANGED <<old, index, job, kept, dropped, failed, faults>>

\* remove() updates the index first ...
RemoveFromIndex(c) ==
    /\ At(c, "removing")
    /\ index' = Without(index, Target(c))
    /\ dropped' = dropped \cup {Target(c)}
    /\ Go(c, "removed")
    /\ UNCHANGED <<old, record, kept, failed, faults>>

\* ... and then the record.
RemoveRecord(c) ==
    /\ At(c, "removed")
    /\ record' = [record EXCEPT ![Target(c)] = "none"]
    /\ Become(c, Idle)
    /\ UNCHANGED <<old, index, kept, dropped, failed, faults>>

-----------------------------------------------------------------------------
(* Faults. *)

\* A write does not fit: the caller has an error.
WriteFails(c) ==
    /\ job[c].pc \in {"setting", "indexing", "replacing"}
    /\ Fault
    /\ Become(c, Idle)
    /\ UNCHANGED <<old, record, index, kept, dropped, failed>>

\* ... and the upgrade is given up for this worker, whose callers go on without it.
UpgradeFails ==
    /\ job[Upgrade].pc \in {"setting", "indexing"}
    /\ Fault /\ failed' = TRUE
    /\ Become(Upgrade, [Idle EXCEPT !.pc = "done"])
    /\ UNCHANGED <<old, record, index, kept, dropped>>

Evict ==
    /\ Fault
    /\ job' = Fresh
    /\ UNCHANGED <<old, record, index, kept, dropped, failed>>

RecordsNext ==
    \/ BeginUpgrade \/ ChooseNext \/ Verify \/ ClearLegacy
    \/ \E w \in Writers : Set(w) \/ SetIndex(w) \/ ListKeys(w) \/ EvictKey(w)
    \/ \E c \in Callers :
          \/ Put(c) \/ Replace(c) \/ Mutate(c) \/ RemoveId(c)
          \/ Look(c) \/ ReplaceInPlace(c)
          \/ RemoveFromIndex(c) \/ RemoveRecord(c) \/ WriteFails(c)
    \/ UpgradeFails

Next == RecordsNext \/ Evict

Spec == Init /\ [][Next]_vars

-----------------------------------------------------------------------------
(* Properties. *)

Job == [pc : {"idle", "not run", "choosing", "setting", "indexing", "listing", "evicting",
              "verifying", "clearing", "done", "looking", "replacing",
              "removing", "removed"},
        ids : Seq(Ids), doomed : SUBSET Ids, live : SUBSET Ids]

TypeOK ==
    /\ old \in Seq(Ids) /\ record \in [Ids -> Contents]
    /\ index \in Seq(Ids) /\ IsInjective(index) /\ Len(index) <= MaxRecords
    /\ job \in [Writers -> Job]
    /\ kept \subseteq Ids /\ dropped \subseteq Ids
    /\ failed \in BOOLEAN /\ faults \in 0..MaxFaults

\* record-store.ts, write: an index entry never points at nothing, wherever a write, a
\* removal or an upgrade was interrupted.
IndexNamesRecords == \A id \in ToSet(index) : record[id] # "none"

\* record-store.ts: a record that was there stays readable through every interruption and
\* repetition of an upgrade - in the old generation or in the index - until a caller removes
\* it or the cap pushes it out.
NothingLost ==
    /\ IndexNamesRecords
    /\ kept \subseteq ToSet(old) \cup ToSet(index) \cup dropped

\* record-store.ts: an upgrade that is repeated finds nothing that was written since by a
\* caller, and so puts no old record in its place; as long as no upgrade failed.
NotRolledBack ==
    [][\A id \in Ids : record[id] = "new" /\ record'[id] = "old" => failed]_vars
=============================================================================
