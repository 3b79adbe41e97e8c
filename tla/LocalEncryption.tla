--------------------------- MODULE LocalEncryption ---------------------------
(***************************************************************************)
(* Protection of the stored credentials by a passphrase: the key records,  *)
(* the areas that are converted when it is switched on and off, and the    *)
(* writers that look which way to go before they write.  A passphrase is   *)
(* right or wrong; what it wraps is the key.  One panel, which has one     *)
(* route of these under way at a time, and which may lose its worker.      *)
(***************************************************************************)
EXTENDS StorageFaults

CONSTANTS
    Records,       \* the keys of both protected areas
    Identity,      \* those of the area that is converted second
    DataKeys,      \* one for each time protection is switched on
    NoKey,
    MaxWrites      \* bound

ASSUME EncryptionAssumption ==
    /\ Identity \subseteq Records
    /\ NoKey \notin DataKeys /\ {"none", "plain", "damaged"} \cap DataKeys = {}
    /\ MaxWrites \in Nat

VARIABLES
    flag,        \* durable: protection is on
    metadata,    \* durable: the key that the wrapped one opens to
    unwrapped,   \* of the browser session: the key that is unlocked
    stored,      \* durable: each record - in what form, and which version of its content
    route,       \* the panel's route
    write,       \* a credential or a session being written
    writes,      \* how many were
    latest,      \* history: the version each record was last written with
    crossed,     \* history: the records written while protection was being switched
    lapsed       \* history: switching on or off was interrupted, or gave up half way

keysVars == <<flag, metadata, unwrapped, stored, route, write, writes, latest, crossed, lapsed>>

Forms == {"none", "plain", "damaged"} \cup DataKeys

\* key is what was minted or unwrapped, area what is being converted, copy what was read.
NoRoute == [pc |-> "idle", does |-> "none", key |-> NoKey, area |-> {}, todo |-> {}, copy |-> {}]
NoWrite == [pc |-> "idle", record |-> {}, key |-> NoKey, crossing |-> FALSE]

Absent == [form |-> "none", version |-> 0]

Credentials == Records \ Identity
Sealed(r)   == stored[r].form \notin {"none", "plain"}     \* isEnvelope
Opens(r, k) == stored[r].form = k

\* A profile as it is found: never protected, or protected and locked.
KeysInit ==
    /\ \E present \in SUBSET Records, form \in [Records -> {"plain", "damaged"} \cup DataKeys],
          k \in DataKeys \cup {NoKey} :
          /\ \A r \in Records : form[r] \in IF k = NoKey THEN {"plain"} ELSE {k, "damaged"}
          /\ flag = (k # NoKey) /\ metadata = k
          /\ stored = [r \in Records |-> IF r \in present THEN [form |-> form[r], version |-> 1]
                                         ELSE Absent]
    /\ unwrapped = NoKey
    /\ route = NoRoute /\ write = NoWrite /\ writes = 0
    /\ latest = [r \in Records |-> stored[r].version]
    /\ crossed = {} /\ lapsed = FALSE

Used == {metadata, unwrapped, route.key, write.key} \cup {stored[r].form : r \in Records}

RouteAt(pc)  == route.pc = pc
RouteTo(pc)  == route' = [route EXCEPT !.pc = pc]
EndRoute     == route' = NoRoute
Switching    == route.does \in {"enable", "disable"}

-----------------------------------------------------------------------------
(* K1Store.initialize, unlock, changePassphrase and lock. *)

\* A switch begins: a write that is under way crosses it.
Begin(does, pc, k) ==
    /\ route' = [NoRoute EXCEPT !.pc = pc, !.does = does, !.key = k]
    /\ write' = [write EXCEPT !.crossing = @ \/ (write.pc # "idle" /\ does # "open")]

\* k1.enable, with a new key, unless protection is on.
Enable ==
    /\ RouteAt("idle") /\ ~flag
    /\ \E k \in DataKeys \ Used : Begin("enable", "keying", k)
    /\ lapsed' = FALSE
    /\ UNCHANGED <<flag, metadata, unwrapped, stored, writes, latest, crossed, faults>>

\* The metadata is written and read back ...
KeepKey ==
    /\ RouteAt("keying") \/ RouteAt("rewrapping")
    /\ \/ /\ metadata' = route.key
          /\ RouteTo(IF route.does = "enable" THEN "flagging" ELSE "unlocking") /\ UNCHANGED faults
       \/ Fault /\ EndRoute /\ UNCHANGED metadata
    /\ UNCHANGED <<flag, unwrapped, stored, write, writes, latest, crossed, lapsed>>

\* ... then the flag, and the key is held.
RaiseFlag ==
    /\ RouteAt("flagging")
    /\ \/ flag' = TRUE /\ RouteTo("unlocking") /\ UNCHANGED faults
       \/ Fault /\ EndRoute /\ UNCHANGED flag
    /\ UNCHANGED <<metadata, unwrapped, stored, write, writes, latest, crossed, lapsed>>

\* The passphrase opens the key: to unlock, to wrap it anew, or to switch protection off.
Open(does, pc) ==
    /\ RouteAt("idle") /\ flag /\ metadata # NoKey
    /\ Begin(does, pc, metadata)
    /\ UNCHANGED <<flag, metadata, unwrapped, stored, writes, latest, crossed, lapsed, faults>>

Unlock           == Open("open", "unlocking")
ChangePassphrase == Open("open", "rewrapping")
Disable          == Open("disable", "unlocking")

\* writeSessionKey; a switch goes on with the first area.
HoldKey ==
    /\ RouteAt("unlocking")
    /\ unwrapped' = route.key
    /\ IF Switching THEN route' = [route EXCEPT !.pc = "listing", !.area = Credentials] ELSE EndRoute
    /\ UNCHANGED <<flag, metadata, stored, write, writes, latest, crossed, lapsed, faults>>

Lock ==
    /\ RouteAt("idle") /\ unwrapped # NoKey
    /\ unwrapped' = NoKey
    /\ UNCHANGED <<flag, metadata, stored, route, write, writes, latest, crossed, lapsed, faults>>

-----------------------------------------------------------------------------
(* protectExistingRecords and unprotectExistingRecords, over one area and then the other. *)

ListArea ==
    /\ RouteAt("listing")
    /\ route' = [route EXCEPT !.pc = "reading", !.copy = {},
                     !.todo = {r \in route.area : stored[r].form # "none"}]
    /\ UNCHANGED <<flag, metadata, unwrapped, stored, write, writes, latest, crossed, lapsed, faults>>

CopyOf(r)   == [record |-> r, version |-> stored[r].version]
NotYet(r)  == route.todo \ {r}

\* Switching on: a plain record is read, to be sealed; an envelope is left as it is.
ReadPlain ==
    /\ RouteAt("reading") /\ route.does = "enable"
    /\ \E r \in route.todo :
           route' = IF Sealed(r) \/ stored[r].form = "none"
                    THEN [route EXCEPT !.todo = NotYet(r)]
                    ELSE [route EXCEPT !.todo = NotYet(r), !.pc = "writing", !.copy = {CopyOf(r)}]
    /\ UNCHANGED <<flag, metadata, unwrapped, stored, write, writes, latest, crossed, lapsed, faults>>

\* Switching off: every envelope of the area is opened before one is written back, and if
\* one does not open, nothing more is done.
OpenEnvelope ==
    /\ RouteAt("reading") /\ route.does = "disable"
    /\ \E r \in route.todo :
          /\ IF ~Sealed(r) THEN route' = [route EXCEPT !.todo = NotYet(r)] /\ UNCHANGED lapsed
             ELSE IF Opens(r, unwrapped)
             THEN /\ route' = [route EXCEPT !.todo = NotYet(r), !.copy = @ \cup {CopyOf(r)}]
                  /\ UNCHANGED lapsed
             ELSE EndRoute /\ lapsed' = (lapsed \/ route.area = Identity)
    /\ UNCHANGED <<flag, metadata, unwrapped, stored, write, writes, latest, crossed, faults>>

PutForm(c, form) == stored' = [stored EXCEPT ![c.record] = [form |-> form, version |-> c.version]]

\* A record is written in its new form.  If it cannot be, the next is sealed, but none is
\* written back in plain any more.
Convert ==
    /\ RouteAt("writing")
    /\ \E c \in route.copy :
          \/ /\ PutForm(c, IF route.does = "enable" THEN unwrapped ELSE "plain") /\ UNCHANGED <<faults, lapsed>>
             /\ route' = [route EXCEPT !.copy = @ \ {c},
                              !.pc = IF route.copy = {c} THEN "reading" ELSE "writing"]
          \/ /\ Fault /\ lapsed' = TRUE /\ UNCHANGED stored
             /\ IF route.does = "enable" THEN route' = [route EXCEPT !.pc = "reading", !.copy = {}]
                ELSE EndRoute
    /\ UNCHANGED <<flag, metadata, unwrapped, write, writes, latest, crossed>>

\* The area is done: its copies are written, or the next area follows, or the end.
AreaDone ==
    /\ RouteAt("reading") /\ route.todo = {}
    /\ route' = IF route.does = "disable" /\ route.copy # {} THEN [route EXCEPT !.pc = "writing"]
                ELSE IF route.area # Identity
                THEN [route EXCEPT !.pc = "listing", !.area = Identity]
                ELSE IF route.does = "enable" THEN NoRoute ELSE [route EXCEPT !.pc = "locking"]
    /\ UNCHANGED <<flag, metadata, unwrapped, stored, write, writes, latest, crossed, lapsed, faults>>

-----------------------------------------------------------------------------
(* K1Store.disable. *)

\* Mutation: the key is discarded before the flag is lowered.
DiscardFirst ==
    /\ RouteAt("locking")
    /\ unwrapped' = NoKey /\ metadata' = NoKey
    /\ RouteTo("lowering")
    /\ UNCHANGED <<flag, stored, write, writes, latest, crossed, lapsed, faults>>

LockFirst ==
    /\ RouteAt("locking")
    /\ unwrapped' = NoKey
    /\ RouteTo("lowering")
    /\ UNCHANGED <<flag, metadata, stored, write, writes, latest, crossed, lapsed, faults>>

LowerFlag ==
    /\ RouteAt("lowering")
    /\ flag' = FALSE
    /\ RouteTo("discarding")
    /\ UNCHANGED <<metadata, unwrapped, stored, write, writes, latest, crossed, lapsed, faults>>

DiscardKey ==
    /\ RouteAt("discarding")
    /\ metadata' = NoKey /\ lapsed' = FALSE
    /\ EndRoute
    /\ UNCHANGED <<flag, unwrapped, stored, write, writes, latest, crossed, faults>>

-----------------------------------------------------------------------------
(* K1AwareArea and ProtectedStorageArea. *)

WriteAt(pc) == write.pc = pc
WriteTo(pc) == write' = [write EXCEPT !.pc = pc]
RecordOf(w) == CHOOSE r \in w.record : TRUE

\* route(): the flag is read ...
BeginWrite ==
    /\ WriteAt("idle") /\ writes < MaxWrites
    /\ writes' = writes + 1
    /\ \E r \in Records :
           write' = [pc |-> IF flag THEN "routing" ELSE "writing", record |-> {r}, key |-> NoKey,
                     crossing |-> Switching]
    /\ UNCHANGED <<flag, metadata, unwrapped, stored, route, latest, crossed, lapsed, faults>>

\* ... and the rest of the state: locked, and what needs recovery, is refused.
RouteWrite ==
    /\ WriteAt("routing")
    /\ IF metadata = NoKey \/ unwrapped = NoKey THEN write' = NoWrite ELSE WriteTo("keying")
    /\ UNCHANGED <<flag, metadata, unwrapped, stored, route, writes, latest, crossed, lapsed, faults>>

\* Mutation: without a key, the record is written as it is.
KeyOrPlain ==
    /\ WriteAt("keying")
    /\ write' = [write EXCEPT !.pc = "writing", !.key = unwrapped]
    /\ UNCHANGED <<flag, metadata, unwrapped, stored, route, writes, latest, crossed, lapsed, faults>>

\* set() of the protected area: the key, read again.
KeyForWrite ==
    /\ WriteAt("keying")
    /\ write' = IF metadata = NoKey \/ unwrapped = NoKey THEN NoWrite
                ELSE [write EXCEPT !.pc = "writing", !.key = unwrapped]
    /\ UNCHANGED <<flag, metadata, unwrapped, stored, route, writes, latest, crossed, lapsed, faults>>

Crossing(r, crossing) == crossed' = IF crossing THEN crossed \cup {r} ELSE crossed \ {r}

\* The write itself.
StoreRecord ==
    /\ WriteAt("writing")
    /\ LET r == RecordOf(write) IN
       \/ /\ stored' = [stored EXCEPT ![r] =
                 [form |-> IF write.key = NoKey THEN "plain" ELSE write.key, version |-> writes + 1]]
          /\ latest' = [latest EXCEPT ![r] = writes + 1]
          /\ Crossing(r, write.crossing) /\ UNCHANGED faults
       \/ Fault /\ UNCHANGED <<stored, latest, crossed>>
    /\ write' = NoWrite
    /\ UNCHANGED <<flag, metadata, unwrapped, route, writes, lapsed>>

\* remove(): always permitted.
RemoveStored ==
    /\ \E r \in Records :
          /\ stored[r].form # "none"
          /\ stored' = [stored EXCEPT ![r] = Absent]
          /\ latest' = [latest EXCEPT ![r] = 0]
          /\ Crossing(r, Switching)
    /\ UNCHANGED <<flag, metadata, unwrapped, route, write, writes, lapsed, faults>>

\* What goes with the worker, and the session key with the browser.
KeysForget ==
    /\ route' = NoRoute /\ write' = NoWrite
    /\ lapsed' = (lapsed \/ Switching)
    /\ unwrapped' \in {unwrapped, NoKey}
    /\ UNCHANGED <<flag, metadata, stored, writes, latest, crossed>>

KeysNext ==
    \/ Enable \/ KeepKey \/ RaiseFlag \/ Unlock \/ ChangePassphrase \/ Disable \/ HoldKey \/ Lock
    \/ ListArea \/ ReadPlain \/ OpenEnvelope \/ Convert \/ AreaDone
    \/ LockFirst \/ LowerFlag \/ DiscardKey
    \/ BeginWrite \/ RouteWrite \/ KeyForWrite \/ StoreRecord \/ RemoveStored

-----------------------------------------------------------------------------
(* Properties. *)

KeysTypeOK ==
    /\ flag \in BOOLEAN /\ {metadata, unwrapped} \subseteq DataKeys \cup {NoKey}
    /\ stored \in [Records -> [form : Forms, version : 0..(MaxWrites + 1)]]
    /\ route.pc \in {"idle", "keying", "flagging", "rewrapping", "unlocking", "listing", "reading",
                     "writing", "locking", "lowering", "discarding"}
    /\ route.does \in {"none", "open", "enable", "disable"}
    /\ route.key \in DataKeys \cup {NoKey} /\ route.todo \subseteq route.area
    /\ route.copy \subseteq [record : route.area, version : 0..(MaxWrites + 1)]
    /\ write.pc \in {"idle", "routing", "keying", "writing"}
    /\ write.record \subseteq Records /\ write.key \in DataKeys \cup {NoKey}
    /\ writes \in 0..MaxWrites /\ latest \in [Records -> 0..(MaxWrites + 1)]
    /\ crossed \subseteq Records /\ lapsed \in BOOLEAN

\* k1-store.ts and protect-existing.ts: wherever switching on or off, a change of the
\* passphrase or a lock is interrupted, every record is what it was last written as, plain or
\* under the key that the metadata still holds; and protection that is on has its key.
NothingLocked ==
    /\ flag => metadata # NoKey
    /\ \A r \in Records \ crossed :
          /\ stored[r].version = latest[r]
          /\ stored[r].form \in {"none", "plain", "damaged"} \/ (flag /\ stored[r].form = metadata)

\* protected-storage-area.ts: once protection was switched on without a failure, nothing is
\* stored in plain by anyone, through locks, evictions and restarts, until it is switched off.
SealedWhileOn ==
    flag /\ ~Switching /\ ~lapsed => \A r \in Records \ crossed : stored[r].form # "plain"
=============================================================================
