----------------------------- MODULE AuditTrail -----------------------------
(***************************************************************************)
(* The audit trail: one stored list, newest first, to which every record   *)
(* is added in one update that also drops what is too old or too much and  *)
(* says so in a marker; and the record of persistence health that a lost   *)
(* event raises.  A record's digest is of its content, so it is modelled   *)
(* by the content.                                                         *)
(***************************************************************************)
EXTENDS StorageFaults, Sequences, FiniteSetsExt, SequencesExt

CONSTANTS
    Recorders,     \* what records events at the same time
    MaxEvents,     \* maxEvents
    RetentionMs,   \* retentionMs
    MaxAt, MaxRecorded   \* bounds: the clock, and the events recorded

ASSUME TrailAssumption ==
    /\ MaxEvents \in Nat \ {0, 1} /\ RetentionMs \in Nat /\ MaxAt \in Nat /\ MaxRecorded \in Nat

VARIABLES
    events,      \* durable: the trail, the newest first
    clock,       \* never goes back
    recorder,    \* each caller's record(), and which event it is of
    recorded,    \* how many events were to be recorded
    health,      \* durable: how bad the trail's persistence is known to be
    floor,       \* the worst this worker has seen
    lost,        \* history: the worst loss since a person acknowledged the last
    reported,    \* history: the worst of them whose report was written
    unmarked     \* history: records were dropped without a marker

trailVars == <<events, clock, recorder, recorded, health, floor, lost, reported, unmarked>>

HEALTHY == 0  DEGRADED == 1  CORRUPT == 2     \* severityOf
Severities == HEALTHY..CORRUPT

Genesis == [seq |-> 0, n |-> 0]

\* A marker tells what it removed; n tells the contents of events apart.
Content == [seq : Nat, n : Nat]
AuditEvent == [content : Content, at : Nat, prevDigest : Content, removed : SUBSET Nat]

RecorderPcs  == {"idle", "appending", "compacting", "retrying"}
NotRecording == [pc |-> "idle", n |-> 0]

TrailInit ==
    /\ events = <<>> /\ clock = 0
    /\ recorder = [c \in Recorders |-> NotRecording]
    /\ recorded = 0
    /\ health = HEALTHY /\ floor = HEALTHY /\ lost = HEALTHY /\ reported = HEALTHY
    /\ unmarked = FALSE

-----------------------------------------------------------------------------
(* append(), one update. *)

Seqs(list) == {e.content.seq : e \in ToSet(list)}

LatestContent(list) == IF list = <<>> THEN Genesis ELSE Head(list).content

Entry(latest, n, removed) ==
    [content |-> [seq |-> latest.seq + 1, n |-> n], at |-> clock, prevDigest |-> latest,
     removed |-> removed]

Least(a, b) == IF a <= b THEN a ELSE b

\* How many records are not too old: the first ones, as the clock never goes back.
FreshCount ==
    CHOOSE k \in 0..Len(events) :
        \A i \in 1..Len(events) : i <= k <=> events[i].at >= clock - RetentionMs

\* Mutation: no room is kept for the marker and the event.
KeepNinety(fresh) ==
    IF fresh + 2 > MaxEvents THEN (MaxEvents * 9) \div 10 ELSE fresh

\* How many of those stay.
KeepCount(fresh) ==
    IF fresh + 2 > MaxEvents THEN Least((MaxEvents * 9) \div 10, MaxEvents - 2) ELSE fresh

\* What stays: the newest of what is not too old.
Survivors == SubSeq(events, 1, KeepCount(FreshCount))

Evicted == Seqs(events) \ Seqs(Survivors)

\* Mutation: the event is added to what stays, and nothing says what left.
AppendedOnly(n) == <<Entry(LatestContent(events), n, {})>> \o Survivors

\* With the marker for what left, and the event in front.
Appended(n) ==
    LET marker == Entry(LatestContent(events), 0, Min(Evicted)..Max(Evicted))
    IN  IF Evicted = {} THEN <<Entry(LatestContent(events), n, {})>> \o Survivors
        ELSE <<Entry(marker.content, n, {}), marker>> \o Survivors

\* withinBytes: the oldest are dropped until the rest fits; the newest stays.
WithinBytes(list) == {SubSeq(list, 1, k) : k \in 1..Len(list)}

-----------------------------------------------------------------------------
(* PersistenceHealthStore. *)

Loss(severity) ==
    /\ lost' = Max({lost, severity})
    /\ reported' = IF health' < severity THEN reported ELSE Max({reported, severity})

\* Mutation: what was reported last replaces what was reported before.
ReportLast(severity) ==
    /\ floor' = severity
    /\ health' \in {health, severity}
    /\ Loss(severity)

\* report(): the floor at once, then the stored record, unless that write fails.  Neither
\* is lowered.
Report(severity) ==
    /\ floor' = Max({floor, severity})
    /\ health' \in {health, Max({health, severity})}
    /\ Loss(severity)

\* snapshot(): the worse of the two.
Known == Max({health, floor})

-----------------------------------------------------------------------------
(* record(), from one update to the next. *)

RecordsAt(c, pc) == recorder[c].pc = pc
StepTo(c, pc)    == recorder' = [recorder EXCEPT ![c].pc = pc]

Begins(c) ==
    /\ RecordsAt(c, "idle") /\ recorded < MaxRecorded
    /\ recorded' = recorded + 1

\* The event is shaped, or refused.
RecordEvent(c) ==
    /\ Begins(c)
    /\ \/ recorder' = [recorder EXCEPT ![c] = [pc |-> "appending", n |-> recorded']]
          /\ UNCHANGED <<health, floor, lost, reported>>
       \/ Report(CORRUPT) /\ UNCHANGED recorder
    /\ UNCHANGED <<events, clock, unmarked, faults>>

AppendEvent(c) ==
    /\ RecordsAt(c, "appending") \/ RecordsAt(c, "retrying")
    /\ LET list == Appended(recorder[c].n) IN
       \E kept \in WithinBytes(list) :
          /\ events' = kept
          /\ unmarked' = (kept # list \/ (unmarked /\ Evicted = {}))
    /\ StepTo(c, "idle")
    /\ UNCHANGED <<clock, recorded, health, floor, lost, reported, faults>>

\* The write failed: once more, after a compaction.
AppendFails(c) ==
    /\ RecordsAt(c, "appending") /\ Fault
    /\ StepTo(c, "compacting")
    /\ UNCHANGED <<events, clock, recorded, health, floor, lost, reported, unmarked>>

\* compact(): half of what may be kept.
Compact(c) ==
    /\ RecordsAt(c, "compacting")
    /\ events' = SubSeq(events, 1, Least(Len(events), MaxEvents \div 2))
    /\ unmarked' = (unmarked \/ events' # events)
    /\ StepTo(c, "retrying")
    /\ UNCHANGED <<clock, recorded, health, floor, lost, reported, faults>>

\* Either failed again: the event is lost, and that is reported.
LoseEvent(c) ==
    /\ RecordsAt(c, "compacting") \/ RecordsAt(c, "retrying")
    /\ Fault
    /\ Report(DEGRADED)
    /\ StepTo(c, "idle")
    /\ UNCHANGED <<events, clock, recorded, unmarked>>

-----------------------------------------------------------------------------

\* health.acknowledge: the only way down, and itself an event.
Acknowledge(c) ==
    /\ Known # HEALTHY
    /\ Begins(c)
    /\ floor' = HEALTHY
    /\ lost' = HEALTHY /\ reported' = HEALTHY
    /\ \/ health' = HEALTHY /\ UNCHANGED faults
       \/ UNCHANGED health /\ Fault
    /\ recorder' = [recorder EXCEPT ![c] = [pc |-> "appending", n |-> recorded']]
    /\ UNCHANGED <<events, clock, unmarked>>

Later ==
    /\ clock < MaxAt /\ clock' = clock + 1
    /\ UNCHANGED <<events, recorder, recorded, health, floor, lost, reported, unmarked, faults>>

\* What a worker that goes away takes with it.
TrailForgets ==
    /\ recorder' = [c \in Recorders |-> NotRecording]
    /\ floor' = HEALTHY /\ lost' = reported
    /\ UNCHANGED <<events, clock, recorded, health, reported, unmarked>>

TrailNext ==
    \/ \E c \in Recorders :
          \/ RecordEvent(c) \/ AppendEvent(c) \/ AppendFails(c) \/ Compact(c) \/ LoseEvent(c)
          \/ Acknowledge(c)
    \/ Later

-----------------------------------------------------------------------------
(* Properties. *)

TrailTypeOK ==
    /\ ToSet(events) \subseteq AuditEvent /\ Len(events) <= MaxEvents
    /\ clock \in 0..MaxAt /\ recorded \in 0..MaxRecorded
    /\ recorder \in [Recorders -> [pc : RecorderPcs, n : 0..MaxRecorded]]
    /\ {health, floor, lost, reported} \subseteq Severities /\ unmarked \in BOOLEAN

\* verifyIntegrity, oldest first.
Verdict ==
    LET Older(i) == events[i + 1].content
        Pairs    == 1..(Len(events) - 1)
    IN  IF events = <<>> THEN "empty"
        ELSE IF \E i \in Pairs : events[i].content.seq <= Older(i).seq THEN "reordered"
        ELSE IF \E i \in Pairs : events[i].content.seq # Older(i).seq + 1 THEN "gap"
        ELSE IF \E i \in Pairs : events[i].prevDigest # Older(i) THEN "chain-broken"
        ELSE IF Last(events).content.seq > 1 THEN "truncated"
        ELSE "ok"

\* audit-log.ts, append and verifyIntegrity: whatever was evicted, retried or cut short, what
\* is left is one stretch of the trail, and its reader can see where it begins: what left
\* before it is named by a marker in it, unless the byte bound or a retry removed more.
TrailIntact ==
    /\ Verdict \in {"empty", "ok", "truncated"}
    /\ Verdict = "truncated" /\ ~unmarked =>
           \E e \in ToSet(events) : Last(events).content.seq - 1 \in e.removed

\* persistence-health.ts: the worst that befell the trail is known of, whatever was written
\* since, until a person acknowledges it - after an eviction, if its report was written.
LossIsKnown == lost <= Known
=============================================================================
