------------------------- MODULE ScheduleRunsProofs -------------------------
(***************************************************************************)
(* Proofs about ScheduleRuns.  The inductive invariant relates the stored  *)
(* record of a schedule, the copy of it that the tick listed, the          *)
(* occurrences the tick still has to judge, the copies that requests are   *)
(* about to write back, the run records, the puts that are under way and   *)
(* the alarm.                                                              *)
(***************************************************************************)
EXTENDS ScheduleRuns, FiniteSetTheorems, WellFoundedInduction, TLAPS

USE ScheduleAssumption DEF Writing

-----------------------------------------------------------------------------
(* The inductive invariant. *)

RunStatuses == Ended \cup {"none", "running"}
TickType    == [list : [Schedules -> ScheduleRecord], todo : SUBSET Schedules, s : Schedules,
                missed : SUBSET Times, due : {NoTime} \cup Times]

Typed ==
    /\ now \in Times /\ alarm \in Nat /\ sleeps \in Nat /\ edits \in Nat
    /\ ops \in SUBSET Operations
    /\ sched \in [Schedules -> ScheduleRecord]
    /\ runs \in [RunIds -> RunStatuses]
    /\ index \in SUBSET RunIds /\ exposed \in SUBSET RunIds
    /\ job \in [Jobs -> JobRecord]
    /\ tick \in TickType
    /\ fired \in [RunIds -> 0..2]

\* A record that is stored is one the store could have written.
Fits(r, n) ==
    IF r.there = "stored"
    THEN r.cadence \in Cadences /\ r.lastClaimed \in 1..n /\ r.nextRunAt \in r.cadence
    ELSE ~r.enabled

RecordsFit ==
    /\ \A s \in Schedules : Fits(sched[s], now) /\ Fits(tick.list[s], now)
    /\ \A j \in Jobs : job[j].pc = "replacing" =>
           /\ Fits(job[j].copy, now) /\ job[j].copy.there = "stored"
           /\ edits # 0 \/ "setEnabled" \in ops
           /\ ops \cap Replacing # {}
           /\ OneRequest => Stored(job[j].s)

\* The occurrences of the schedule in hand that the tick has still to judge.
Pending == (tick.missed \cup {tick.due}) \ {NoTime}

TickFits ==
    /\ \A t \in Pending : t <= now /\ t \in UNION Cadences
    /\ Pending # {} => tick.list[tick.s].there # "stored"
    /\ tick.due # NoTime => \A m \in tick.missed : m < tick.due

\* While it may still store the run, a job has it to itself.
Owning == {"checking", "starting", "storing", "executing", "settling"} \cup Writing
Owns(j) == job[j].pc \in Owning

PcsOf(j) ==
    CASE j = Clock   -> {"idle", "listing", "advancing"} \cup Executing \cup Rearming
      [] j = Startup -> {"down", "booting", "recovering", "joining", "up", "closing", "noting"}
      [] OTHER       -> {"idle", "replacing", "removing", "sweeping", "deleting"}
                        \cup Executing \cup Rearming

JobFits(j) ==
    /\ job[j].pc \in PcsOf(j)
    /\ job[j].pc \in Executing => job[j].at \in Times
    /\ job[j].pc \in {"settling", "closing", "noting"} => job[j].result # "running"
    /\ job[j].pc = "storing" => ~Seen(RunOf(j))
    /\ Owns(j) => (j = Clock <=> job[j].at \in UNION Cadences)

JobsFit ==
    /\ \A j \in Jobs : JobFits(j)
    /\ \A j, k \in Jobs : j # k /\ Owns(j) /\ Owns(k) => RunOf(j) # RunOf(k)

\* The tick is about to start the target of the run it holds.
Coming == \/ job[Clock].pc = "checking"
          \/ job[Clock].pc \in {"starting", "storing"} \cup Writing /\ job[Clock].result = "running"

Begun(id) == fired[id] # 0 \/ (Coming /\ RunOf(Clock) = id)

\* No tick that goes by this record comes back to an occurrence.
Spent(r, at) == r.there = "stored" /\ r.enabled => at <= r.lastClaimed \/ at < r.nextRunAt

Calm == edits = 0 /\ ("setEnabled" \in ops => OneRequest)

\* Once an occurrence's target was started, nothing that is stored, listed, pending or about
\* to be written back leads to it again.
OnceAt(s, at) ==
    Begun(<<s, at>>) =>
        /\ at <= now
        /\ Spent(sched[s], at) /\ Spent(tick.list[s], at)
        /\ tick.s = s => \A t \in Pending : at < t
        /\ \A p \in Panel : job[p].pc = "replacing" /\ job[p].s = s => Spent(job[p].copy, at)

\* A schedule that is being resumed does not run meanwhile.
ResumeFits(p) == job[p].pc = "replacing" /\ job[p].copy.enabled => ~sched[job[p].s].enabled

Once ==
    Calm =>
        /\ NeverTwice
        /\ Coming => fired[RunOf(Clock)] = 0
        /\ \A s \in Schedules, at \in Times : OnceAt(s, at)
        /\ \A p \in Panel : ResumeFits(p)

Untouched == ops \cap Moving = {}

\* Claims follow the cadence and a listed schedule is the stored one until it is judged.
InStep ==
    Untouched =>
        \A s \in Schedules : Stored(s) =>
            /\ sched[s].nextRunAt = nextOccurrence(sched[s].cadence, sched[s].lastClaimed)
            /\ tick.list[s].there = "stored" =>
                   /\ tick.list[s].cadence = sched[s].cadence
                   /\ tick.list[s].nextRunAt = sched[s].nextRunAt
                   /\ tick.list[s].lastClaimed = sched[s].lastClaimed

\* A run's record is there to be read, unless it was put at its peril.
Shown(id) == Seen(id) \/ id \in exposed

Recorded ==
    Untouched /\ sleeps = 0 =>
        \A s \in Schedules : Stored(s) /\ WithinCap(s) =>
            /\ \A at \in Times :
                   at \in sched[s].cadence /\ 1 < at /\ at <= sched[s].lastClaimed =>
                       Shown(<<s, at>>) \/ (Owns(Clock) /\ RunOf(Clock) = <<s, at>>)
            /\ tick.s = s => \A x \in Pending : \A t \in sched[s].cadence :
                                 sched[s].lastClaimed < t /\ t < x => t \in Pending

\* A request that deletes the runs of a schedule has deleted the schedule first.
Swept ==
    \A p \in Panel :
        /\ job[p].pc \in {"sweeping", "deleting"} => \A id \in job[p].left : id[1] = job[p].s
        /\ Untouched /\ job[p].pc \in {"removing", "sweeping", "deleting"} => ~Stored(job[p].s)

\* Someone will arm the alarm, or it is armed early enough for a schedule.
Covered(s) ==
    \/ alarm # NoTime /\ alarm <= Later(sched[s].nextRunAt, now)
    \/ job[Clock].pc # "idle"
    \/ job[Startup].pc \notin {"joining", "up"}
    \/ \E p \in Panel : job[p].pc = "arming"

Armed ==
    Untouched =>
        \A s \in Schedules : Stored(s) /\ sched[s].enabled =>
            /\ Covered(s)
            /\ \A j \in Jobs : job[j].pc \in {"clearing", "arming"} =>
                   job[j].at # NoTime /\ job[j].at <= sched[s].nextRunAt

IInv == Typed /\ RecordsFit /\ TickFits /\ JobsFit /\ Once /\ InStep /\ Recorded /\ Swept /\ Armed

Puts(j) == job[j].pc \in Writing

\* Two puts under way overlap.
Alone == \A j, k \in Jobs : j # k /\ Puts(j) /\ Puts(k) => RunOf(j) \in exposed

\* No eviction takes a record that was put by itself: its index names it.
Shielded ==
    \A id \in RunIds : Seen(id) /\ id \notin exposed =>
        \A j \in Jobs : /\ job[j].pc = "scanning" => id \in job[j].left
                        /\ job[j].pc = "purging" => id \notin job[j].left

\* What the tick has put so far is still there.
Written ==
    Untouched /\ Puts(Clock) /\ Stored(job[Clock].s) /\ RunOf(Clock) \notin exposed =>
        /\ runs[RunOf(Clock)] # "none"
        /\ job[Clock].pc # "indexing" => RunOf(Clock) \in index

PutsFit == Alone /\ Shielded /\ Written

-----------------------------------------------------------------------------
(* The clock's operators. *)

\* A bounded set of instants has a last one, which Greatest chooses.
LEMMA GreatestOf ==
    ASSUME NEW S \in SUBSET Nat, S # {}, NEW n \in Nat, \A t \in S : t <= n
    PROVE  Greatest(S) \in S /\ \A t \in S : t <= Greatest(S)
<1>1. IsFiniteSet(S)
  BY FS_BoundedSetOfNaturals, Zenon
<1> DEFINE Above(x) == {t \in S : t > x}
           Tops     == {Above(x) : x \in S}
<1>2. Tops \subseteq FiniteSubsetsOf(S) /\ Tops # {}
  <2>1. FiniteSubsetsOf(S) = SUBSET S
    BY <1>1, FS_FiniteSubsetsOfFinite
  <2>2. \A x \in S : Above(x) \in SUBSET S
    OBVIOUS
  <2>3. PICK a \in S : TRUE
    OBVIOUS
  <2> HIDE DEF Above
  <2>4. Above(a) \in Tops /\ \A T \in Tops : T \in SUBSET S
    BY <2>2, <2>3
  <2> QED BY <2>1, <2>4
<1>3. PICK T \in Tops : \A U \in Tops : <<U, T>> \notin StrictSubsetOrdering(S)
  <2> HIDE DEF Tops
  <2> QED BY <1>2, FS_StrictSubsetOrderingWellFounded, WFMin
<1>4. PICK x \in S : T = Above(x)
  OBVIOUS
<1>5. \A t \in S : t <= x
  <2> SUFFICES ASSUME NEW t \in S, t > x PROVE FALSE
    OBVIOUS
  <2>1. Above(t) \subseteq Above(x) /\ t \in Above(x) /\ t \notin Above(t)
    <3>1. t \in Nat /\ x \in Nat /\ \A u \in S : u \in Nat
      OBVIOUS
    <3>2. t \in Above(x) /\ t \notin Above(t)
      BY <3>1
    <3>3. ASSUME NEW u \in Above(t) PROVE u \in Above(x)
      BY <3>1
    <3> QED BY <3>2, <3>3
  <2>2. <<Above(t), Above(x)>> \in StrictSubsetOrdering(S)
    <3>1. Above(t) \in SUBSET S /\ Above(x) \in SUBSET S
      OBVIOUS
    <3> HIDE DEF Above
    <3> QED BY <2>1, <3>1 DEF StrictSubsetOrdering
  <2> HIDE DEF Above
  <2>3. Above(t) \in Tops
    OBVIOUS
  <2> HIDE DEF Tops
  <2> QED BY <1>3, <1>4, <2>2, <2>3
<1>6. \E y \in S : \A t \in S : t <= y
  BY <1>5
<1> HIDE DEF Above, Tops
<1> QED BY <1>6, Zenon DEF Greatest

\* A set of instants that is not empty has a first one, which Least chooses.
LEMMA LeastOf ==
    ASSUME NEW S \in SUBSET Nat, S # {}
    PROVE  Least(S) \in S /\ \A t \in S : Least(S) <= t
<1>1. PICK a \in S : TRUE
  OBVIOUS
<1> DEFINE B == {t \in 0..a : a - t \in S}
<1>2. B \in SUBSET Nat /\ B # {} /\ \A t \in B : t <= a
  <2>1. a \in Nat
    BY <1>1
  <2>2. 0 \in B
    BY <1>1, <2>1
  <2>3. \A t \in B : t \in Nat /\ t <= a
    BY <2>1
  <2> QED BY <2>2, <2>3
<1>3. PICK b \in B : \A t \in B : t <= b
  <2> HIDE DEF B
  <2> QED BY <1>1, <1>2, GreatestOf
<1>4. \A t \in S : a - b <= t
  <2> SUFFICES ASSUME NEW t \in S, t < a - b PROVE FALSE
    BY <1>1
  <2>1. a - t \in B /\ a - t > b
    BY <1>1
  <2> QED BY <1>1, <1>3, <2>1
<1> QED BY <1>1, <1>4 DEF Least

\* A cadence comes round again, and nothing of it lies in between.
LEMMA NextOf ==
    ASSUME NEW c \in Cadences, NEW n \in 0..MaxNow
    PROVE  LET t == nextOccurrence(c, n)
           IN  t \in c /\ t > n /\ t \in Nat /\ \A u \in c : u > n => t <= u
<1>1. PICK t \in c : t > n /\ \A u \in c : u > n => t <= u
  BY CadenceAssumption
<1>2. {u \in c : u > n} \in SUBSET Nat /\ {u \in c : u > n} # {}
  BY <1>1, CadenceAssumption
<1> QED BY <1>2, LeastOf DEF nextOccurrence

\* The occurrences between the cursor and now, none of which the claims have reached.
LEMMA UnclaimedOf ==
    ASSUME NEW n \in Times, NEW r \in ScheduleRecord, r.cadence \in Cadences,
           r.lastClaimed \in 1..n, r.nextRunAt \in r.cadence
    PROVE  LET U == Unclaimed(r, n)
           IN  /\ U \subseteq r.cadence \cap (1..n) /\ IsFiniteSet(U)
               /\ \A t \in U : t > r.lastClaimed
               /\ \A t \in U, at \in Nat : at < r.nextRunAt => at < t
               /\ r.nextRunAt = nextOccurrence(r.cadence, r.lastClaimed) =>
                      U = {t \in r.cadence : r.lastClaimed < t /\ t <= n}
<1> DEFINE cursor == IF r.nextRunAt > r.lastClaimed THEN r.nextRunAt
                     ELSE nextOccurrence(r.cadence, r.lastClaimed)
           U      == Unclaimed(r, n)
<1>1. r.lastClaimed \in 0..MaxNow /\ r.nextRunAt \in Nat /\ r.cadence \subseteq Nat \ {0}
      /\ n \in Nat
  BY CadenceAssumption DEF Times
<1>2. /\ nextOccurrence(r.cadence, r.lastClaimed) \in r.cadence
      /\ nextOccurrence(r.cadence, r.lastClaimed) > r.lastClaimed
      /\ \A u \in r.cadence : u > r.lastClaimed => nextOccurrence(r.cadence, r.lastClaimed) <= u
  BY <1>1, NextOf
<1>3. cursor \in r.cadence /\ cursor > r.lastClaimed /\ cursor >= r.nextRunAt /\ cursor \in Nat
  BY <1>1, <1>2
<1>4. U = IF cursor > n THEN {} ELSE {cursor} \cup {t \in r.cadence : cursor < t /\ t <= n}
  BY DEF Unclaimed
<1> HIDE DEF cursor, U
<1>5. U \subseteq r.cadence \cap (1..n) /\ \A t \in U : t >= cursor
  BY <1>1, <1>3, <1>4
<1>6. IsFiniteSet(U)
  <2>1. U \in SUBSET Nat /\ \A t \in U : t <= n
    BY <1>1, <1>5
  <2> QED BY <1>1, <2>1, FS_BoundedSetOfNaturals
<1>7. ASSUME r.nextRunAt = nextOccurrence(r.cadence, r.lastClaimed)
      PROVE  U = {t \in r.cadence : r.lastClaimed < t /\ t <= n}
  <2>1. cursor = nextOccurrence(r.cadence, r.lastClaimed)
    BY <1>7, <1>2 DEF cursor
  <2>2. \A t \in r.cadence : r.lastClaimed < t <=> t >= cursor
    BY <2>1, <1>1, <1>2
  <2> QED BY <1>1, <1>3, <1>4, <2>2
<1>8. \A t \in U : t > r.lastClaimed /\ \A at \in Nat : at < r.nextRunAt => at < t
  BY <1>1, <1>3, <1>5
<1> QED BY <1>5, <1>6, <1>7, <1>8 DEF U

\* What a tick judges of a record that fits: instants that have come, beyond every claim and
\* beyond whatever the record has left behind, and all of them unless there are too many.
LEMMA EnumeratedOf ==
    ASSUME NEW n \in Times, NEW r \in ScheduleRecord, r.cadence \in Cadences,
           r.lastClaimed \in 1..n, r.nextRunAt \in r.cadence
    PROVE  LET E == Enumerated(r, n)
           IN  /\ E \subseteq r.cadence \cap (1..n)
               /\ \A t \in E : t > r.lastClaimed
               /\ \A t \in E, at \in Nat : at < r.nextRunAt => at < t
               /\ /\ r.nextRunAt = nextOccurrence(r.cadence, r.lastClaimed)
                  /\ Cardinality({t \in r.cadence : 1 < t /\ t <= n}) <= MaxEnumerated
                  => E = {t \in r.cadence : r.lastClaimed < t /\ t <= n}
<1> DEFINE U == Unclaimed(r, n)
           E == Enumerated(r, n)
           G == {t \in r.cadence : t <= n}
<1>1. /\ U \subseteq r.cadence \cap (1..n) /\ IsFiniteSet(U)
      /\ \A t \in U : t > r.lastClaimed
      /\ \A t \in U, at \in Nat : at < r.nextRunAt => at < t
      /\ r.nextRunAt = nextOccurrence(r.cadence, r.lastClaimed) =>
             U = {t \in r.cadence : r.lastClaimed < t /\ t <= n}
  BY UnclaimedOf
<1>2. E = IF Cardinality(U) <= MaxEnumerated THEN U
          ELSE FirstOf(U, MaxEnumerated - 1) \cup {Greatest(G)}
  BY DEF Enumerated
<1>3. FirstOf(U, MaxEnumerated - 1) \subseteq U
  BY DEF FirstOf
<1>4. r.cadence \subseteq Nat \ {0} /\ n \in Nat /\ Cardinality(U) \in Nat
  BY <1>1, CadenceAssumption, FS_CardinalityType DEF Times
<1> HIDE DEF U, E
<1>5. CASE Cardinality(U) <= MaxEnumerated
  <2>1. E = U
    BY <1>2, <1>5
  <2> QED BY <1>1, <2>1 DEF E
<1>6. CASE Cardinality(U) > MaxEnumerated
  <2>1. U # {}
    <3> SUFFICES ASSUME U = {} PROVE FALSE
      OBVIOUS
    <3>1. Cardinality(U) = 0
      BY FS_EmptySet
    <3> QED BY <1>6, <3>1
  <2>2. PICK u \in U : TRUE
    BY <2>1
  <2>3. G \in SUBSET Nat /\ u \in G /\ \A t \in G : t <= n
    BY <1>1, <1>4, <2>2
  <2>4. Greatest(G) \in G /\ u <= Greatest(G)
    <3> HIDE DEF G
    <3> QED BY <2>3, <1>4, GreatestOf
  <2>5. /\ Greatest(G) \in r.cadence \cap (1..n) /\ Greatest(G) > r.lastClaimed
        /\ \A at \in Nat : at < r.nextRunAt => at < Greatest(G)
    <3>1. u \in Nat /\ Greatest(G) \in Nat /\ Greatest(G) # 0 /\ Greatest(G) <= n
      BY <2>3, <2>4, <1>4
    <3>2. r.lastClaimed \in Nat /\ u > r.lastClaimed /\ \A at \in Nat : at < r.nextRunAt => at < u
      BY <1>1, <1>4, <2>2
    <3>3. r.nextRunAt \in Nat
      BY <1>4
    <3> DEFINE g == Greatest(G)
    <3>4. g \in r.cadence /\ g \in Nat /\ g # 0 /\ g <= n /\ u <= g
      BY <2>4, <3>1
    <3> HIDE DEF g
    <3>5. g \in 1..n /\ g > r.lastClaimed /\ \A at \in Nat : at < r.nextRunAt => at < g
      BY <3>1, <3>2, <3>3, <3>4, <1>4
    <3> QED BY <3>4, <3>5 DEF g
  <2>6. E \subseteq U \cup {Greatest(G)}
    BY <1>2, <1>3, <1>4, <1>6
  <2>7. ASSUME r.nextRunAt = nextOccurrence(r.cadence, r.lastClaimed),
               Cardinality({t \in r.cadence : 1 < t /\ t <= n}) <= MaxEnumerated
        PROVE  FALSE
    <3> DEFINE W == {t \in r.cadence : 1 < t /\ t <= n}
    <3>1. W \in SUBSET Nat /\ \A t \in W : t <= n
      BY <1>4
    <3>2. IsFiniteSet(W)
      <4> HIDE DEF W
      <4> QED BY <3>1, <1>4, FS_BoundedSetOfNaturals
    <3>3. U \subseteq W
      BY <1>1, <1>4, <2>7
    <3>4. Cardinality(U) <= Cardinality(W) /\ Cardinality(W) \in Nat
      <4> HIDE DEF W
      <4> QED BY <3>2, <3>3, FS_Subset, FS_CardinalityType
    <3> QED BY <1>4, <1>6, <2>7, <3>4
  <2> DEFINE g == Greatest(G)
  <2>8. /\ g \in r.cadence \cap (1..n) /\ g > r.lastClaimed
        /\ \A at \in Nat : at < r.nextRunAt => at < g
        /\ E \subseteq U \cup {g}
    BY <2>5, <2>6
  <2> HIDE DEF g
  <2>9. /\ E \subseteq r.cadence \cap (1..n)
        /\ \A t \in E : t > r.lastClaimed
        /\ \A t \in E, at \in Nat : at < r.nextRunAt => at < t
    BY <1>1, <2>8
  <2> QED BY <2>7, <2>9 DEF E
<1>7. \/ Cardinality(U) <= MaxEnumerated
      \/ Cardinality(U) > MaxEnumerated
  BY <1>4
<1> QED BY <1>5, <1>6, <1>7 DEF E

\* What the tick has to handle, given its verdict.
PendingOf(v) == (v.missed \cup {v.due}) \ {NoTime}

LEMMA VerdictOf ==
    ASSUME NEW n \in Times, NEW r \in ScheduleRecord, Fits(r, n)
    PROVE  LET v == occurrencesDue(r, n)
           IN  /\ v.missed \in SUBSET Times /\ v.due \in {NoTime} \cup Times
               /\ PendingOf(v) # {} => r.there = "stored" /\ r.enabled
               /\ v.due # NoTime => \A m \in v.missed : m < v.due
               /\ \A t \in PendingOf(v) : t <= n /\ t \in UNION Cadences
               /\ \A t \in PendingOf(v), at \in Nat : Spent(r, at) => at < t
               /\ /\ r.nextRunAt = nextOccurrence(r.cadence, r.lastClaimed)
                  /\ Cardinality({t \in r.cadence : 1 < t /\ t <= n}) <= MaxEnumerated
                  => \A x \in PendingOf(v), t \in r.cadence :
                         r.lastClaimed < t /\ t < x => t \in PendingOf(v)
<1> DEFINE v == occurrencesDue(r, n)
           E == IF r.enabled THEN Enumerated(r, n) ELSE {}
<1>1. CASE E = {}
  <2>1. v = [missed |-> {}, due |-> NoTime]
    BY <1>1 DEF occurrencesDue
  <2> HIDE DEF v
  <2>2. v.missed = {} /\ v.due = NoTime /\ PendingOf(v) = {}
    BY <2>1 DEF PendingOf
  <2> QED BY <2>2 DEF v
<1>2. CASE E # {}
  <2>1. r.enabled /\ E = Enumerated(r, n)
    BY <1>2
  <2>2. r.there = "stored" /\ r.cadence \in Cadences /\ r.lastClaimed \in 1..n
        /\ r.nextRunAt \in r.cadence
    BY <2>1 DEF Fits
  <2>3. /\ E \subseteq r.cadence \cap (1..n)
        /\ \A t \in E : t > r.lastClaimed
        /\ \A t \in E, at \in Nat : at < r.nextRunAt => at < t
        /\ /\ r.nextRunAt = nextOccurrence(r.cadence, r.lastClaimed)
           /\ Cardinality({t \in r.cadence : 1 < t /\ t <= n}) <= MaxEnumerated
           => E = {t \in r.cadence : r.lastClaimed < t /\ t <= n}
    BY <2>1, <2>2, EnumeratedOf
  <2>4. v = IF n - Greatest(E) <= RunGrace
            THEN [missed |-> E \ {Greatest(E)}, due |-> Greatest(E)]
            ELSE [missed |-> E, due |-> NoTime]
    BY <1>2 DEF occurrencesDue
  <2> HIDE DEF v, E
  <2>5. n \in Nat /\ n <= MaxNow /\ r.cadence \subseteq Nat \ {0} /\ r.lastClaimed \in Nat
    BY <2>2, CadenceAssumption DEF Times
  <2>6. E \in SUBSET Nat /\ \A t \in E : t <= n /\ t # 0
    BY <2>3, <2>5
  <2>7. Greatest(E) \in E /\ \A t \in E : t <= Greatest(E)
    BY <1>2, <2>5, <2>6, GreatestOf
  <2>8. v.missed \cup {v.due} \subseteq E \cup {NoTime} /\ PendingOf(v) = E
    <3>1. NoTime \notin E
      BY <2>6 DEF NoTime
    <3> QED BY <2>4, <2>7, <3>1 DEF PendingOf
  <2>9. E \subseteq Times
    BY <2>3, <2>5 DEF Times
  <2>10. v.missed \in SUBSET Times /\ v.due \in {NoTime} \cup Times
    BY <2>8, <2>9, <2>4, <2>7
  <2>11. \A t \in E, at \in Nat : Spent(r, at) => at < t
    <3> SUFFICES ASSUME NEW t \in E, NEW at \in Nat, Spent(r, at) PROVE at < t
      OBVIOUS
    <3>1. at <= r.lastClaimed \/ at < r.nextRunAt
      BY <2>1, <2>2 DEF Spent
    <3> QED BY <2>3, <2>5, <2>6, <3>1
  <2>12. \A t \in E : t <= n /\ t \in UNION Cadences
    BY <2>2, <2>3, <2>6
  <2>13. ASSUME r.nextRunAt = nextOccurrence(r.cadence, r.lastClaimed),
                Cardinality({t \in r.cadence : 1 < t /\ t <= n}) <= MaxEnumerated
         PROVE  \A x \in E, t \in r.cadence : r.lastClaimed < t /\ t < x => t \in E
    <3>1. E = {t \in r.cadence : r.lastClaimed < t /\ t <= n}
      BY <2>3, <2>13
    <3> QED BY <2>5, <3>1
  <2>15. v.due # NoTime => \A m \in v.missed : m < v.due
    <3> DEFINE g == Greatest(E)
    <3>1. \A m \in E : m # g => m < g
      <4>1. g \in Nat /\ \A m \in E : m \in Nat /\ m <= g
        BY <2>6, <2>7
      <4> HIDE DEF g
      <4> QED BY <4>1
    <3>2. v.due = NoTime \/ (v.due = g /\ v.missed = E \ {g})
      BY <2>4
    <3> HIDE DEF g
    <3> QED BY <3>1, <3>2
  <2> DEFINE P == PendingOf(v)
  <2>14. P = E
    BY <2>8
  <2> HIDE DEF P
  <2> QED BY <2>1, <2>2, <2>10, <2>11, <2>12, <2>13, <2>14, <2>15 DEF P, v
<1> QED BY <1>1, <1>2

-----------------------------------------------------------------------------
(* What steps leave alone. *)

Pcs == {"idle", "listing", "advancing", "down", "booting", "recovering", "joining", "up",
        "replacing", "removing", "sweeping", "deleting"} \cup Executing \cup Rearming

LEMMA Actors ==
    /\ Clock \in Jobs /\ Startup \in Jobs /\ Clock # Startup
    /\ \A p \in Panel : p \in Jobs /\ p # Clock /\ p # Startup
    /\ \A j \in Jobs : j = Clock \/ j = Startup \/ j \in Panel
BY DEF Jobs, Clock, Startup

\* The runs' store keeps its shape.
PutTyped == runs \in [RunIds -> RunStatuses] /\ index \in SUBSET RunIds /\ exposed \in SUBSET RunIds

\* A run that was to be read, or was put at its peril, stays so.
StaysShown(id) == Shown(id) => Shown(id)'

\* Nobody else makes a record that a job is about to put readable.
StaysUnseen(k) == job[k].pc = "storing" => ~(RunOf(k) \in index' /\ runs'[RunOf(k)] # "none")

LEMMA RunsSame ==
    ASSUME IInv, UNCHANGED <<runs, index, exposed>>
    PROVE  /\ PutTyped' /\ \A id \in RunIds : StaysShown(id)
           /\ \A k \in Jobs : StaysUnseen(k)
BY DEF IInv, Typed, PutTyped, StaysShown, Shown, Seen, StaysUnseen, JobsFit, JobFits

LEMMA AtTyped ==
    ASSUME NEW pc \in Pcs
    PROVE  /\ At(pc) \in JobRecord
           /\ At(pc).pc = pc /\ At(pc).at = NoTime /\ At(pc).left = {} /\ At(pc).result = "running"
<1>1. AnySchedule \in Schedules
  BY DEF AnySchedule
<1>2. NoSchedule("unborn") \in ScheduleRecord
  BY DEF NoSchedule, ScheduleRecord, NoTime
<1> QED BY <1>1, <1>2 DEF At, JobRecord, Pcs, NoTime

LEMMA Moved ==
    ASSUME Typed, NEW j \in Jobs, NEW r \in JobRecord, job' = [job EXCEPT ![j] = r]
    PROVE  /\ job' \in [Jobs -> JobRecord]
           /\ job'[j] = r /\ \A k \in Jobs : k # j => job'[k] = job[k]
BY DEF Typed

\* Two records of a schedule that differ at most in the status of its last run.
Alike(a, b) ==
    /\ a.there = b.there /\ a.cadence = b.cadence /\ a.enabled = b.enabled
    /\ a.nextRunAt = b.nextRunAt /\ a.lastClaimed = b.lastClaimed

LEMMA CapKept ==
    ASSUME Typed, Typed', NEW s \in Schedules, Alike(sched'[s], sched[s]), now <= now',
           Fits(sched[s], now), Stored(s), WithinCap(s)'
    PROVE  WithinCap(s)
<1> DEFINE A == {t \in sched[s].cadence : 1 < t /\ t <= now}
           B == {t \in sched[s].cadence : 1 < t /\ t <= now'}
<1>1. sched[s].cadence \subseteq Nat /\ now \in Nat /\ now' \in Nat
  BY CadenceAssumption DEF Fits, Stored, Typed, Times
<1>2. A \subseteq B /\ B \in SUBSET Nat /\ \A t \in B : t <= now'
  BY <1>1
<1>3. Cardinality(B) <= MaxEnumerated
  BY DEF WithinCap, Alike
<1> HIDE DEF A, B
<1>4. IsFiniteSet(B)
  BY <1>1, <1>2, FS_BoundedSetOfNaturals
<1>5. Cardinality(A) <= Cardinality(B) /\ Cardinality(A) \in Nat /\ Cardinality(B) \in Nat
  BY <1>2, <1>4, FS_Subset, FS_CardinalityType
<1>6. Cardinality(A) <= MaxEnumerated
  BY <1>3, <1>5
<1> QED BY <1>6 DEF A, WithinCap

LEMMA RecordsFitKept ==
    ASSUME IInv, Typed', \A s \in Schedules : Alike(sched'[s], sched[s]),
           tick'.list = tick.list, now <= now', edits <= edits', ops' = ops,
           \A k \in Jobs : job'[k].pc = "replacing" => job'[k] = job[k]
    PROVE  RecordsFit'
<1>1. now \in Nat /\ now' \in Nat /\ edits \in Nat /\ edits' \in Nat
  BY DEF IInv, Typed, Times
<1>2. \A r : Fits(r, now) => Fits(r, now)'
  BY <1>1 DEF Fits
<1>3. \A s \in Schedules : Fits(sched[s], now)' /\ Fits(tick.list[s], now)'
  <2> TAKE s \in Schedules
  <2>1. Fits(sched[s], now) /\ Fits(tick.list[s], now) /\ Alike(sched'[s], sched[s])
    BY DEF IInv, RecordsFit
  <2> QED BY <1>1, <2>1 DEF Fits, Alike
<1>4. \A k \in Jobs : job'[k].pc = "replacing" =>
          /\ Fits(job[k].copy, now)' /\ job'[k].copy.there = "stored"
          /\ edits' # 0 \/ "setEnabled" \in ops'
          /\ ops' \cap Replacing # {}
          /\ OneRequest => Stored(job[k].s)'
  <2> SUFFICES ASSUME NEW k \in Jobs, job'[k].pc = "replacing"
               PROVE  /\ Fits(job[k].copy, now)' /\ job'[k].copy.there = "stored"
                      /\ edits' # 0 \/ "setEnabled" \in ops'
                      /\ ops' \cap Replacing # {}
                      /\ OneRequest => Stored(job[k].s)'
    OBVIOUS
  <2>1. job'[k] = job[k] /\ job[k].pc = "replacing" /\ job[k].s \in Schedules
    BY DEF IInv, Typed, JobRecord
  <2>2. /\ Fits(job[k].copy, now) /\ job[k].copy.there = "stored"
        /\ edits # 0 \/ "setEnabled" \in ops
        /\ ops \cap Replacing # {}
        /\ OneRequest => Stored(job[k].s)
    BY <2>1 DEF IInv, RecordsFit
  <2>3. Alike(sched'[job[k].s], sched[job[k].s])
    BY <2>1
  <2> QED BY <1>1, <2>1, <2>2, <2>3 DEF Fits, Alike, Stored
<1> QED BY <1>3, <1>4 DEF RecordsFit

LEMMA TickFitsKept ==
    ASSUME IInv, Typed', now <= now', tick' = tick \/ Pending' = {}
    PROVE  TickFits'
<1>1. \A t \in Pending : t \in Nat
  BY DEF IInv, Typed, TickType, Pending, Times, NoTime
<1>2. now \in Nat /\ now' \in Nat
  BY DEF IInv, Typed, Times
<1>3. CASE tick' = tick
  <2>1. Pending' = Pending
    BY <1>3 DEF Pending
  <2> QED BY <1>1, <1>2, <1>3, <2>1 DEF IInv, TickFits
<1>4. CASE Pending' = {}
  <2>1. tick'.due = NoTime
    BY <1>4 DEF Pending
  <2> QED BY <1>4, <2>1 DEF TickFits
<1> QED BY <1>3, <1>4

LEMMA InStepKept ==
    ASSUME IInv, \A s \in Schedules : Alike(sched'[s], sched[s]), tick'.list = tick.list, ops' = ops
    PROVE  InStep'
BY DEF IInv, InStep, Alike, Stored, Untouched

LEMMA OnceKept ==
    ASSUME IInv, Typed', \A s \in Schedules : Alike(sched'[s], sched[s]), tick' = tick,
           now <= now', edits <= edits', ops' = ops, fired' = fired,
           Coming' => Coming /\ RunOf(Clock)' = RunOf(Clock),
           \A p \in Panel : job'[p].pc = "replacing" => job'[p] = job[p]
    PROVE  Once'
<1> SUFFICES ASSUME Calm'
             PROVE  /\ NeverTwice'
                    /\ Coming' => fired'[RunOf(Clock)'] = 0
                    /\ \A s \in Schedules, at \in Times : OnceAt(s, at)'
                    /\ \A p \in Panel : ResumeFits(p)'
  BY DEF Once
<1>1. Calm
  BY DEF Calm, IInv, Typed
<1>2. NeverTwice'
  BY <1>1 DEF IInv, Once, NeverTwice
<1>3. Coming' => fired'[RunOf(Clock)'] = 0
  BY <1>1 DEF IInv, Once
<1>4. ASSUME NEW s \in Schedules, NEW at \in Times PROVE OnceAt(s, at)'
  <2> SUFFICES ASSUME Begun(<<s, at>>)'
               PROVE  /\ at <= now'
                      /\ Spent(sched[s], at)' /\ Spent(tick.list[s], at)'
                      /\ tick'.s = s => \A t \in Pending' : at < t
                      /\ \A p \in Panel : job'[p].pc = "replacing" /\ job'[p].s = s =>
                             Spent(job[p].copy, at)'
    BY DEF OnceAt
  <2>1. Begun(<<s, at>>)
    BY DEF Begun
  <2>2. /\ at <= now
        /\ Spent(sched[s], at) /\ Spent(tick.list[s], at)
        /\ tick.s = s => \A t \in Pending : at < t
        /\ \A p \in Panel : job[p].pc = "replacing" /\ job[p].s = s => Spent(job[p].copy, at)
    BY <1>1, <2>1 DEF IInv, Once, OnceAt
  <2>3. at <= now'
    BY <2>2 DEF IInv, Typed, Times
  <2>4. Spent(sched[s], at)'
    BY <2>2 DEF Alike, Spent
  <2>5. Pending' = Pending
    BY DEF Pending
  <2>6. \A p \in Panel : job'[p].pc = "replacing" /\ job'[p].s = s => Spent(job[p].copy, at)'
    BY <2>2 DEF Spent
  <2> QED BY <2>2, <2>3, <2>4, <2>5, <2>6 DEF Spent
<1>5. ASSUME NEW p \in Panel PROVE ResumeFits(p)'
  <2> SUFFICES ASSUME job'[p].pc = "replacing", job'[p].copy.enabled
               PROVE  ~sched'[job'[p].s].enabled
    BY DEF ResumeFits
  <2>1. job'[p] = job[p] /\ job[p].s \in Schedules
    BY Actors DEF IInv, Typed, JobRecord
  <2>2. ~sched[job[p].s].enabled
    BY <1>1, <2>1 DEF IInv, Once, ResumeFits
  <2> QED BY <2>1, <2>2 DEF Alike
<1> QED BY <1>2, <1>3, <1>4, <1>5

LEMMA RecordedKept ==
    ASSUME IInv, Typed', \A s \in Schedules : Alike(sched'[s], sched[s]), now <= now', ops' = ops,
           sleeps <= sleeps', tick' = tick,
           \A s \in Schedules, at \in Times :
               /\ Untouched /\ Stored(s) /\ sleeps' = 0
               /\ Shown(<<s, at>>) \/ (Owns(Clock) /\ RunOf(Clock) = <<s, at>>)
               => Shown(<<s, at>>)' \/ (Owns(Clock)' /\ RunOf(Clock)' = <<s, at>>)
    PROVE  Recorded'
<1> SUFFICES ASSUME Untouched', sleeps' = 0, NEW s \in Schedules, Stored(s)', WithinCap(s)'
             PROVE  /\ \A at \in Times :
                         at \in sched'[s].cadence /\ 1 < at /\ at <= sched'[s].lastClaimed =>
                             Shown(<<s, at>>)' \/ (Owns(Clock)' /\ RunOf(Clock)' = <<s, at>>)
                    /\ tick'.s = s => \A x \in Pending' : \A t \in sched'[s].cadence :
                                         sched'[s].lastClaimed < t /\ t < x => t \in Pending'
  BY DEF Recorded
<1>1. Untouched /\ sleeps = 0 /\ Stored(s) /\ Alike(sched'[s], sched[s])
  BY DEF Untouched, IInv, Typed, Stored, Alike
<1>2. WithinCap(s)
  BY <1>1, CapKept DEF IInv, RecordsFit
<1>3. Pending' = Pending
  BY DEF Pending
<1>4. /\ \A at \in Times :
           at \in sched[s].cadence /\ 1 < at /\ at <= sched[s].lastClaimed =>
               Shown(<<s, at>>) \/ (Owns(Clock) /\ RunOf(Clock) = <<s, at>>)
      /\ tick.s = s => \A x \in Pending : \A t \in sched[s].cadence :
                           sched[s].lastClaimed < t /\ t < x => t \in Pending
  BY <1>1, <1>2 DEF IInv, Recorded
<1> QED BY <1>1, <1>3, <1>4 DEF Alike

LEMMA SweptKept ==
    ASSUME IInv, \A s \in Schedules : Alike(sched'[s], sched[s]), ops' = ops,
           \A p \in Panel : job'[p].pc \in {"removing", "sweeping", "deleting"} => job'[p] = job[p]
    PROVE  Swept'
<1> SUFFICES ASSUME NEW p \in Panel, job'[p].pc \in {"removing", "sweeping", "deleting"}
             PROVE  /\ job'[p].pc \in {"sweeping", "deleting"} =>
                           \A id \in job'[p].left : id[1] = job'[p].s
                    /\ Untouched' => ~Stored(job[p].s)'
  BY DEF Swept
<1>1. job'[p] = job[p] /\ job[p].s \in Schedules
  BY Actors DEF IInv, Typed, JobRecord
<1>2. /\ job[p].pc \in {"sweeping", "deleting"} => \A id \in job[p].left : id[1] = job[p].s
      /\ Untouched => ~Stored(job[p].s)
  BY <1>1 DEF IInv, Swept
<1> QED BY <1>1, <1>2 DEF Untouched, Stored, Alike

LEMMA ArmedKept ==
    ASSUME IInv, \A s \in Schedules : Alike(sched'[s], sched[s]), ops' = ops,
           \A s \in Schedules : Untouched /\ Stored(s) /\ sched[s].enabled /\ Covered(s) =>
               Covered(s)',
           \A k \in Jobs : job'[k].pc \in {"clearing", "arming"} =>
               job[k].pc \in {"clearing", "arming"} /\ job'[k].at = job[k].at
    PROVE  Armed'
<1> SUFFICES ASSUME Untouched', NEW s \in Schedules, Stored(s)', sched'[s].enabled
             PROVE  /\ Covered(s)'
                    /\ \A k \in Jobs : job'[k].pc \in {"clearing", "arming"} =>
                           job'[k].at # NoTime /\ job'[k].at <= sched'[s].nextRunAt
  BY DEF Armed
<1>1. Untouched /\ Stored(s) /\ sched[s].enabled /\ sched'[s].nextRunAt = sched[s].nextRunAt
  BY DEF Untouched, Stored, Alike
<1>2. /\ Covered(s)
      /\ \A k \in Jobs : job[k].pc \in {"clearing", "arming"} =>
             job[k].at # NoTime /\ job[k].at <= sched[s].nextRunAt
  BY <1>1 DEF IInv, Armed
<1> QED BY <1>1, <1>2

LEMMA JobsFitKept ==
    ASSUME IInv, NEW j \in Jobs, NEW r \in JobRecord, job' = [job EXCEPT ![j] = r],
           r.pc \in PcsOf(j),
           r.pc \in Executing => r.at \in Times,
           r.pc \in {"settling", "closing", "noting"} => r.result # "running",
           r.pc = "storing" => ~Seen(<<r.s, r.at>>)',
           r.pc \in Owning => \/ Owns(j) /\ r.s = job[j].s /\ r.at = job[j].at
                              \/ /\ j = Clock <=> r.at \in UNION Cadences
                                 /\ \A k \in Jobs : k # j /\ Owns(k) => RunOf(k) # <<r.s, r.at>>,
           \A k \in Jobs : k # j => StaysUnseen(k)
    PROVE  JobsFit'
<1>1. job'[j] = r /\ \A k \in Jobs : k # j => job'[k] = job[k]
  BY Moved DEF IInv
<1>2. RunOf(j)' = <<r.s, r.at>> /\ \A k \in Jobs : k # j => RunOf(k)' = RunOf(k)
  BY <1>1 DEF RunOf
<1>3. \A k \in Jobs : JobFits(k) /\ (Owns(k) => (k = Clock <=> job[k].at \in UNION Cadences))
  BY DEF IInv, JobsFit, JobFits
<1>4. JobFits(j)'
  <2>1. Owns(j)' => (j = Clock <=> job'[j].at \in UNION Cadences)
    BY <1>1, <1>3 DEF Owns
  <2>2. r.pc = "storing" => ~Seen(RunOf(j))'
    BY <1>2 DEF Seen
  <2> QED BY <1>1, <2>1, <2>2 DEF JobFits
<1>5. ASSUME NEW k \in Jobs, k # j PROVE JobFits(k)'
  <2>1. JobFits(k) /\ job'[k] = job[k] /\ RunOf(k)' = RunOf(k)
    BY <1>1, <1>2, <1>3, <1>5
  <2>2. job[k].pc = "storing" => ~Seen(RunOf(k))'
    BY <1>5, <2>1 DEF StaysUnseen, Seen
  <2> QED BY <1>5, <2>1, <2>2 DEF JobFits, Owns
<1>6. ASSUME NEW k \in Jobs, NEW l \in Jobs, k # l, Owns(k)', Owns(l)'
      PROVE  RunOf(k)' # RunOf(l)'
  <2>1. \A m \in Jobs : m # j /\ Owns(m)' => Owns(m)
    BY <1>1 DEF Owns
  <2>2. ASSUME NEW m \in Jobs, m # j, Owns(m), Owns(j)' PROVE RunOf(m) # <<r.s, r.at>>
    <3>1. r.pc \in Owning
      BY <2>2, <1>1 DEF Owns
    <3>2. CASE Owns(j) /\ r.s = job[j].s /\ r.at = job[j].at
      <4>1. RunOf(m) # RunOf(j)
        BY <2>2, <3>2 DEF IInv, JobsFit
      <4> QED BY <3>2, <4>1 DEF RunOf
    <3> QED BY <2>2, <3>1, <3>2
  <2>3. CASE k # j /\ l # j
    BY <1>2, <1>6, <2>1, <2>3 DEF IInv, JobsFit
  <2> QED BY <1>2, <1>6, <2>1, <2>2, <2>3
<1> QED BY <1>4, <1>5, <1>6 DEF JobsFit

-----------------------------------------------------------------------------
(* A run record's life. *)

LEMMA JobStep ==
    ASSUME IInv, Typed', \A s \in Schedules : Alike(sched'[s], sched[s]),
           UNCHANGED <<tick, now, edits, ops>>,
           \A k \in Jobs : job'[k].pc = "replacing" => job'[k] = job[k]
    PROVE  RecordsFit' /\ TickFits' /\ InStep'
<1>1. now <= now' /\ edits <= edits' /\ Pending' = Pending
  BY DEF IInv, Typed, Times, Pending
<1> QED BY <1>1, RecordsFitKept, TickFitsKept, InStepKept

\* A job on its way through execute(), settle() or recordOutcome: all but Once.
AllButOnce == Typed /\ RecordsFit /\ TickFits /\ JobsFit /\ InStep /\ Recorded /\ Swept /\ Armed

\* The tick's run is there to be read when the tick leaves it.
Delivered(j) ==
    \A id \in RunIds :
        Untouched /\ j = Clock /\ id = RunOf(j) /\ Stored(id[1]) => Shown(id)'

LEMMA RunMove ==
    ASSUME IInv, NEW j \in Jobs, NEW r \in JobRecord, job' = [job EXCEPT ![j] = r],
           job[j].pc \in Executing, r.pc \in PcsOf(j),
           r.pc \notin {"replacing", "clearing", "arming", "joining", "up",
                        "removing", "sweeping", "deleting"},
           r.pc = "idle" => j # Clock,
           r.pc \in Executing => r.at \in Times,
           r.pc \in {"settling", "closing", "noting"} => r.result # "running",
           r.pc = "storing" => ~Seen(<<r.s, r.at>>)',
           r.pc \in Owning => Owns(j) /\ r.s = job[j].s /\ r.at = job[j].at,
           Owns(j) /\ r.pc \notin Owning => Delivered(j),
           PutTyped',
           \A id \in RunIds : StaysShown(id),
           \A k \in Jobs : k # j => StaysUnseen(k),
           sched' \in [Schedules -> ScheduleRecord],
           \A s \in Schedules : Alike(sched'[s], sched[s]),
           fired' \in [RunIds -> 0..2], UNCHANGED <<now, alarm, tick, sleeps, edits, ops>>
    PROVE  AllButOnce'
<1>1. /\ job' \in [Jobs -> JobRecord]
      /\ job'[j] = r /\ \A k \in Jobs : k # j => job'[k] = job[k]
  BY Moved DEF IInv
<1>2. Typed'
  BY <1>1 DEF IInv, Typed, PutTyped
<1>3. RecordsFit' /\ TickFits' /\ InStep'
  BY <1>1, <1>2, JobStep
<1>4. JobsFit'
  BY JobsFitKept
<1>5. Recorded'
  <2>1. now <= now' /\ sleeps <= sleeps'
    BY DEF IInv, Typed, Times
  <2>2. ASSUME NEW s \in Schedules, NEW at \in Times, Untouched, Stored(s),
               Shown(<<s, at>>) \/ (Owns(Clock) /\ RunOf(Clock) = <<s, at>>)
        PROVE  Shown(<<s, at>>)' \/ (Owns(Clock)' /\ RunOf(Clock)' = <<s, at>>)
    <3>1. <<s, at>> \in RunIds /\ <<s, at>>[1] = s
      BY DEF RunIds
    <3>2. CASE Shown(<<s, at>>)
      BY <3>1, <3>2 DEF StaysShown
    <3>3. CASE Owns(Clock) /\ RunOf(Clock) = <<s, at>> /\ j # Clock
      BY <3>3, <1>1, Actors DEF Owns, RunOf
    <3>4. CASE Owns(Clock) /\ RunOf(Clock) = <<s, at>> /\ j = Clock
      <4>1. CASE r.pc \in Owning
        BY <3>4, <4>1, <1>1 DEF Owns, RunOf
      <4>2. CASE r.pc \notin Owning
        BY <2>2, <3>1, <3>4, <4>2 DEF Delivered
      <4> QED BY <4>1, <4>2
    <3> QED BY <2>2, <3>2, <3>3, <3>4
  <2> QED BY <1>2, <2>1, <2>2, RecordedKept
<1>6. Armed'
  <2>1. ASSUME NEW s \in Schedules, Covered(s) PROVE Covered(s)'
    <3>1. sched'[s].nextRunAt = sched[s].nextRunAt
      BY DEF Alike
    <3>2. job[Clock].pc # "idle" => job'[Clock].pc # "idle"
      BY <1>1, Actors
    <3>3. job[Startup].pc \notin {"joining", "up"} => job'[Startup].pc \notin {"joining", "up"}
      BY <1>1, Actors
    <3>4. \A p \in Panel : job[p].pc = "arming" => job'[p].pc = "arming"
      BY <1>1, Actors DEF Executing
    <3> QED BY <2>1, <3>1, <3>2, <3>3, <3>4 DEF Covered
  <2> QED BY <1>1, <2>1, ArmedKept
<1>7. Swept'
  BY <1>1, Actors, SweptKept
<1> QED BY <1>2, <1>3, <1>4, <1>5, <1>6, <1>7 DEF AllButOnce

\* What the invariant says of a job that works on a run.
LEMMA RunFacts ==
    ASSUME IInv, NEW j \in Jobs, job[j].pc \in Executing
    PROVE  /\ job[j] \in JobRecord /\ job[j].s \in Schedules /\ job[j].at \in Times
           /\ RunOf(j) \in RunIds /\ RunOf(j) = <<job[j].s, job[j].at>> /\ JobFits(j)
           /\ \A k \in Jobs : k # j /\ Owns(j) /\ Owns(k) => RunOf(k) # RunOf(j)
BY DEF IInv, Typed, JobsFit, JobFits, JobRecord, RunOf, RunIds

\* Only the startup's job is restricted to the end of a run.
LEMMA RunPcs ==
    ASSUME NEW j \in Jobs
    PROVE  /\ {"closing", "noting"} \subseteq PcsOf(j)
           /\ \A pc \in PcsOf(j) : pc \in Owning => Executing \subseteq PcsOf(j) /\ j # Startup
           /\ Home(j) \in PcsOf(j) /\ Home(j) \in Pcs
BY Actors DEF PcsOf, Owning, Executing, Home, Pcs

LEMMA AlikeSame ==
    ASSUME IInv, sched' = sched
    PROVE  sched' \in [Schedules -> ScheduleRecord]
           /\ \A s \in Schedules : Alike(sched'[s], sched[s])
BY DEF IInv, Typed, Alike

LEMMA CheckKeeps == ASSUME IInv, NEW j \in Jobs, Check(j) PROVE IInv'
<1>1. PICK r \in JobRecord :
          /\ job' = [job EXCEPT ![j] = r] /\ r.s = job[j].s /\ r.at = job[j].at
          /\ \/ r.pc = "starting" /\ r.result = "running"
             \/ r.pc = "settling" /\ r.result = "blocked"
  <2>1. job[j] \in JobRecord
    BY DEF IInv, Typed
  <2>2. CASE job' = [job EXCEPT ![j].pc = "starting", ![j].result = "running"]
    <3>1. [job[j] EXCEPT !.pc = "starting", !.result = "running"] \in JobRecord
      BY <2>1 DEF JobRecord, Executing, Ended
    <3> QED BY <2>1, <2>2, <3>1 DEF JobRecord, IInv, Typed
  <2>3. CASE job' = [job EXCEPT ![j].pc = "settling", ![j].result = "blocked"]
    <3>1. [job[j] EXCEPT !.pc = "settling", !.result = "blocked"] \in JobRecord
      BY <2>1 DEF JobRecord, Executing, Ended
    <3> QED BY <2>1, <2>3, <3>1 DEF JobRecord, IInv, Typed
  <2> QED BY <2>2, <2>3 DEF Check
<1>2. job[j].pc = "checking"
      /\ UNCHANGED <<now, sched, runs, index, exposed, alarm, tick, fired, sleeps, edits, ops>>
  BY DEF Check
<1>3. job[j].pc \in Executing /\ Owns(j)
  BY <1>2 DEF Executing, Owns, Owning
<1>4. AllButOnce'
  <2>1. JobFits(j) /\ job[j].at \in Times
    BY <1>3, RunFacts
  <2>2. Executing \subseteq PcsOf(j) /\ j # Startup
    BY <1>3, <2>1, RunPcs DEF JobFits, Owns
  <2>3. r.pc \in PcsOf(j) /\ r.pc \in Owning /\ r.pc # "storing"
        /\ r.pc \notin {"replacing", "clearing", "arming", "joining", "up",
                        "removing", "sweeping", "deleting", "idle"}
    BY <1>1, <2>2 DEF Executing, Owning
  <2>4. /\ PutTyped' /\ fired' \in [RunIds -> 0..2]
        /\ \A id \in RunIds : StaysShown(id)
        /\ \A k \in Jobs : k # j => StaysUnseen(k)
    BY <1>2, RunsSame DEF IInv, Typed
  <2>5. r.pc \in {"settling", "closing", "noting"} => r.result # "running"
    BY <1>1
  <2> QED BY <1>1, <1>2, <1>3, <2>1, <2>3, <2>4, <2>5, AlikeSame, RunMove
<1>5. Once'
  <2>1. Typed' /\ now <= now' /\ edits <= edits'
    BY <1>2, <1>4 DEF AllButOnce, IInv, Typed, Times
  <2>2. job'[j] = r /\ \A k \in Jobs : k # j => job'[k] = job[k]
    BY <1>1, Moved DEF IInv
  <2>3. Coming' => Coming /\ RunOf(Clock)' = RunOf(Clock)
    BY <1>1, <1>2, <2>2, Actors DEF Coming, RunOf
  <2>4. \A p \in Panel : job'[p].pc = "replacing" => job'[p] = job[p]
    BY <1>1, <2>2, Actors
  <2> QED BY <1>2, <2>1, <2>3, <2>4, AlikeSame, OnceKept
<1> QED BY <1>4, <1>5 DEF AllButOnce, IInv

LEMMA GoTyped ==
    ASSUME Typed, NEW j \in Jobs, NEW pc \in Pcs, Go(j, pc)
    PROVE  \E r \in JobRecord :
               /\ job' = [job EXCEPT ![j] = r]
               /\ r.pc = pc /\ r.s = job[j].s /\ r.at = job[j].at /\ r.result = job[j].result
               /\ r.left = job[j].left /\ r.copy = job[j].copy
<1>1. job[j] \in JobRecord
  BY DEF Typed
<1>2. [job[j] EXCEPT !.pc = pc] \in JobRecord
  BY <1>1 DEF JobRecord, Pcs
<1> QED BY <1>1, <1>2 DEF Go, JobRecord

\* Nothing is started and nothing begins to be written back.
LEMMA OnceUnmoved ==
    ASSUME IInv, Typed', NEW j \in Jobs, NEW r \in JobRecord, job' = [job EXCEPT ![j] = r],
           r.pc # "replacing",
           r.pc = "checking" => j # Clock,
           r.pc \in {"starting", "storing"} \cup Writing /\ r.result = "running" /\ j = Clock =>
               Coming /\ r.s = job[j].s /\ r.at = job[j].at,
           \A s \in Schedules : Alike(sched'[s], sched[s]),
           UNCHANGED <<now, tick, fired, edits, ops>>
    PROVE  Once'
<1>1. now <= now' /\ edits <= edits'
  BY DEF IInv, Typed, Times
<1>2. job'[j] = r /\ \A k \in Jobs : k # j => job'[k] = job[k]
  BY Moved DEF IInv
<1>3. Coming' => Coming /\ RunOf(Clock)' = RunOf(Clock)
  BY <1>2, Actors DEF Coming, RunOf
<1>4. \A p \in Panel : job'[p].pc = "replacing" => job'[p] = job[p]
  BY <1>2, Actors
<1> QED BY <1>1, <1>3, <1>4, OnceKept

\* startRun is done, and its target is reached or its outcome noted.
LEMMA StartedKeeps ==
    ASSUME IInv, NEW j \in Jobs, job[j].pc \in {"starting", "purging"}, Started(j),
           PutTyped', Delivered(j),
           \A id \in RunIds : StaysShown(id),
           \A k \in Jobs : k # j => StaysUnseen(k),
           UNCHANGED <<now, sched, alarm, tick, sleeps, edits, ops>>
    PROVE  IInv'
<1>1. job[j].pc \in Executing /\ Owns(j) /\ job[j].pc \in Owning
  BY DEF Executing, Owns, Owning
<1>2. JobFits(j) /\ job[j].at \in Times /\ RunOf(j) \in RunIds
  BY <1>1, RunFacts
<1>3. Executing \subseteq PcsOf(j) /\ j # Startup
  BY <1>1, <1>2, RunPcs DEF JobFits
<1>4. CASE job[j].result = "running"
  <2>1. Go(j, "executing") /\ fired' = IF j = Clock /\ fired[RunOf(j)] < 2
                                       THEN [fired EXCEPT ![RunOf(j)] = @ + 1] ELSE fired
    BY <1>4 DEF Started
  <2>2. PICK r \in JobRecord :
            /\ job' = [job EXCEPT ![j] = r]
            /\ r.pc = "executing" /\ r.s = job[j].s /\ r.at = job[j].at /\ r.result = job[j].result
    BY <2>1, GoTyped DEF IInv, Pcs, Executing
  <2>3. fired' \in [RunIds -> 0..2]
    BY <1>2, <2>1 DEF IInv, Typed
  <2>4. AllButOnce'
    <3>1. r.pc \in PcsOf(j) /\ r.pc \in Owning
          /\ r.pc \notin {"replacing", "clearing", "arming", "joining", "up",
                          "removing", "sweeping", "deleting", "idle"}
      BY <1>3, <2>2 DEF Executing, Owning
    <3> QED BY <1>1, <1>2, <2>2, <2>3, <3>1, AlikeSame, RunMove
  <2>5. Once'
    <3>1. CASE j # Clock
      BY <2>1, <2>2, <2>4, <3>1, AlikeSame, OnceUnmoved DEF AllButOnce
    <3>2. CASE j = Clock
      <4>1. job'[Clock] = r /\ \A k \in Jobs : k # Clock => job'[k] = job[k]
        BY <2>2, <3>2, Moved DEF IInv
      <4>2. Coming /\ ~Coming'
        BY <1>4, <2>2, <3>2, <4>1 DEF Coming
      <4>3. SUFFICES ASSUME Calm
                     PROVE  /\ NeverTwice'
                            /\ \A s \in Schedules, at \in Times : OnceAt(s, at)'
                            /\ \A p \in Panel : ResumeFits(p)'
        BY <4>2 DEF Once, Calm
      <4>4. fired[RunOf(Clock)] = 0
        BY <4>2, <4>3 DEF IInv, Once
      <4>5. fired' = [fired EXCEPT ![RunOf(Clock)] = 1]
        BY <2>1, <3>2, <4>4
      <4>6. NeverTwice'
        BY <1>2, <4>3, <4>5 DEF IInv, Once, NeverTwice, Typed
      <4>7. ASSUME NEW s \in Schedules, NEW at \in Times PROVE OnceAt(s, at)'
        <5>1. Begun(<<s, at>>)' => Begun(<<s, at>>)
          BY <1>2, <3>2, <4>2, <4>5 DEF Begun, RunIds, IInv, Typed
        <5>2. OnceAt(s, at)
          BY <4>3 DEF IInv, Once
        <5>3. Pending' = Pending
          BY DEF Pending
        <5>4. \A p \in Panel : job'[p] = job[p]
          BY <4>1, Actors
        <5> QED BY <5>1, <5>2, <5>3, <5>4 DEF OnceAt, Spent
      <4>8. ASSUME NEW p \in Panel PROVE ResumeFits(p)'
        BY <4>1, <4>3, Actors DEF IInv, Once, ResumeFits
      <4> QED BY <4>6, <4>7, <4>8
    <3> QED BY <3>1, <3>2
  <2> QED BY <2>4, <2>5 DEF AllButOnce, IInv
<1>5. CASE job[j].result # "running"
  <2>1. Go(j, "noting") /\ fired' = fired
    BY <1>5 DEF Started
  <2>2. PICK r \in JobRecord :
            /\ job' = [job EXCEPT ![j] = r]
            /\ r.pc = "noting" /\ r.s = job[j].s /\ r.at = job[j].at /\ r.result = job[j].result
    BY <2>1, GoTyped DEF IInv, Pcs, Executing
  <2>3. AllButOnce'
    <3>1. r.pc \in PcsOf(j) /\ r.pc \notin Owning
          /\ r.pc \notin {"replacing", "clearing", "arming", "joining", "up",
                          "removing", "sweeping", "deleting", "idle"}
      BY <1>3, <2>2 DEF Executing, Owning
    <3>2. fired' \in [RunIds -> 0..2]
      BY <2>1 DEF IInv, Typed
    <3> QED BY <1>1, <1>2, <1>5, <2>2, <3>1, <3>2, AlikeSame, RunMove
  <2>4. Once'
    BY <2>1, <2>2, <2>3, AlikeSame, OnceUnmoved DEF AllButOnce
  <2> QED BY <2>3, <2>4 DEF AllButOnce, IInv
<1> QED BY <1>4, <1>5

LEMMA StartKeeps == ASSUME IInv, NEW j \in Jobs, Start(j) PROVE IInv'
<1>1. job[j].pc = "starting"
      /\ UNCHANGED <<now, sched, runs, index, exposed, alarm, tick, sleeps, edits, ops>>
  BY DEF Start
<1>2. job[j].pc \in Executing /\ Owns(j) /\ job[j].pc \in Owning
  BY <1>1 DEF Executing, Owns, Owning
<1>3. JobFits(j) /\ job[j].at \in Times /\ RunOf(j) \in RunIds /\ RunOf(j) = <<job[j].s, job[j].at>>
  BY <1>2, RunFacts
<1>4. /\ PutTyped'
      /\ \A id \in RunIds : StaysShown(id)
      /\ \A k \in Jobs : k # j => StaysUnseen(k)
  BY <1>1, RunsSame
<1>5. CASE Seen(RunOf(j))
  <2>1. Started(j)
    BY <1>5 DEF Start
  <2>2. Delivered(j)
    BY <1>1, <1>5 DEF Delivered, Shown, Seen
  <2> QED BY <1>1, <1>4, <2>1, <2>2, StartedKeeps
<1>6. CASE ~Seen(RunOf(j))
  <2>1. Go(j, "storing") /\ fired' = fired
    BY <1>6 DEF Start
  <2>2. PICK r \in JobRecord :
            /\ job' = [job EXCEPT ![j] = r]
            /\ r.pc = "storing" /\ r.s = job[j].s /\ r.at = job[j].at /\ r.result = job[j].result
    BY <2>1, GoTyped DEF IInv, Pcs, Executing
  <2>3. AllButOnce'
    <3>1. Executing \subseteq PcsOf(j) /\ j # Startup
      BY <1>2, <1>3, RunPcs DEF JobFits
    <3>2. r.pc \in PcsOf(j) /\ r.pc \in Owning
          /\ r.pc \notin {"replacing", "clearing", "arming", "joining", "up",
                          "removing", "sweeping", "deleting", "idle"}
      BY <3>1, <2>2 DEF Executing, Owning
    <3>3. fired' \in [RunIds -> 0..2]
      BY <2>1 DEF IInv, Typed
    <3>4. ~Seen(<<r.s, r.at>>)'
      BY <1>1, <1>3, <1>6, <2>2 DEF Seen
    <3> QED BY <1>1, <1>2, <1>3, <1>4, <2>2, <3>2, <3>3, <3>4, AlikeSame, RunMove
  <2>4. Once'
    BY <1>1, <2>1, <2>2, <2>3, AlikeSame, OnceUnmoved DEF AllButOnce, Coming
  <2> QED BY <2>3, <2>4 DEF AllButOnce, IInv
<1> QED BY <1>5, <1>6

\* A put moves along: nothing of it is done for the first or the last time.
LEMMA PutMove ==
    ASSUME IInv, NEW j \in Jobs, NEW r \in JobRecord, job' = [job EXCEPT ![j] = r],
           job[j].pc \in {"storing"} \cup Writing, r.pc \in Writing,
           r.s = job[j].s, r.at = job[j].at, r.result = job[j].result,
           PutTyped', \A id \in RunIds : StaysShown(id), \A k \in Jobs : k # j => StaysUnseen(k),
           UNCHANGED <<now, sched, alarm, tick, fired, sleeps, edits, ops>>
    PROVE  IInv'
<1>1. job[j].pc \in Executing /\ Owns(j) /\ job[j].pc \in Owning
  BY DEF Executing, Owns, Owning
<1>2. JobFits(j) /\ job[j].at \in Times
  BY <1>1, RunFacts
<1>3. Executing \subseteq PcsOf(j) /\ j # Startup
  BY <1>1, <1>2, RunPcs DEF JobFits
<1>4. AllButOnce'
  <2>1. /\ r.pc \in PcsOf(j) /\ r.pc \in Owning
        /\ r.pc \notin {"replacing", "clearing", "arming", "joining", "up",
                        "removing", "sweeping", "deleting", "idle"}
        /\ r.pc \notin {"settling", "closing", "noting", "storing"}
    BY <1>3 DEF Executing, Owning
  <2>2. fired' \in [RunIds -> 0..2]
    BY DEF IInv, Typed
  <2> QED BY <1>1, <1>2, <2>1, <2>2, AlikeSame, RunMove
<1>5. Once'
  <2>1. r.result = "running" /\ j = Clock => Coming
    BY DEF Coming
  <2> QED BY <1>4, <2>1, AlikeSame, OnceUnmoved DEF AllButOnce
<1> QED BY <1>4, <1>5 DEF AllButOnce, IInv

\* While a job has a run to itself, no other job's run is the same one.
LEMMA Apart ==
    ASSUME IInv, NEW j \in Jobs, Owns(j)
    PROVE  /\ RunOf(j) \in RunIds /\ job[j] \in JobRecord
           /\ \A k \in Jobs : k # j /\ job[k].pc = "storing" =>
                  RunOf(k) # RunOf(j) /\ RunOf(k) \in RunIds /\ ~Seen(RunOf(k))
<1>1. \A k \in Jobs : job[k].pc = "storing" => job[k].pc \in Executing /\ Owns(k)
  BY DEF Executing, Owns, Owning
<1>2. job[j].pc \in Executing
  BY DEF Executing, Owns, Owning
<1> QED BY <1>1, <1>2, RunFacts DEF JobFits

LEMMA StoreKeeps == ASSUME IInv, NEW j \in Jobs, Store(j) PROVE IInv'
<1>1. /\ job[j].pc = "storing" /\ runs' = [runs EXCEPT ![RunOf(j)] = job[j].result]
      /\ exposed' = exposed \cup Overlapping(j) /\ Go(j, "indexing")
      /\ UNCHANGED <<now, sched, index, alarm, tick, fired, sleeps, edits, ops>>
  BY DEF Store
<1>2. Owns(j)
  BY <1>1 DEF Owns, Owning
<1>3. job[j].result \in RunStatuses /\ job[j].result # "none"
  BY <1>2, Apart DEF JobRecord, RunStatuses, Ended
<1>4. \A id \in RunIds : runs'[id] = IF id = RunOf(j) THEN job[j].result ELSE runs[id]
  BY <1>1 DEF IInv, Typed
<1>5. PutTyped'
  <2>1. Overlapping(j) \in SUBSET RunIds
    <3>1. \A k \in Jobs : job[k].pc \in Writing => RunOf(k) \in RunIds
      BY RunFacts DEF Executing
    <3> QED BY <1>2, <3>1, Apart DEF Overlapping
  <2> QED BY <1>1, <1>3, <2>1 DEF IInv, Typed, PutTyped
<1>6. \A id \in RunIds : StaysShown(id)
  BY <1>1, <1>3, <1>4 DEF StaysShown, Shown, Seen
<1>7. \A k \in Jobs : k # j => StaysUnseen(k)
  BY <1>1, <1>2, <1>4, Apart DEF StaysUnseen, Seen
<1>8. PICK r \in JobRecord :
          /\ job' = [job EXCEPT ![j] = r]
          /\ r.pc = "indexing" /\ r.s = job[j].s /\ r.at = job[j].at /\ r.result = job[j].result
  BY <1>1, GoTyped DEF IInv, Pcs, Executing
<1> QED BY <1>1, <1>5, <1>6, <1>7, <1>8, PutMove

\* The index names the run, and misses one that it named at most by recording so.
LEMMA Named ==
    ASSUME IInv, NEW j \in Jobs, Index(j)
    PROVE  /\ RunOf(j) \in index' /\ index' \subseteq index \cup {RunOf(j)}
           /\ exposed \subseteq exposed'
           /\ \A id \in index : id \in index' \/ id \in exposed'
           /\ exposed' \subseteq exposed \cup index \cup {RunOf(j)}
<1> DEFINE named == index \cup {RunOf(j)}
<1>1. \/ index' = named /\ exposed' = exposed
      \/ \E oldest \in named \ {RunOf(j)} :
             index' = named \ {oldest} /\ exposed' = exposed \cup {oldest}
  BY DEF Index
<1> QED BY <1>1

LEMMA IndexKeeps == ASSUME IInv, NEW j \in Jobs, Index(j) PROVE IInv'
<1>1. /\ job[j].pc = "indexing"
      /\ job' = [job EXCEPT ![j].pc = "scanning", ![j].left = index']
      /\ UNCHANGED <<now, sched, runs, alarm, tick, fired, sleeps, edits, ops>>
  BY DEF Index
<1>2. Owns(j)
  BY <1>1 DEF Owns, Owning
<1>3. PutTyped'
  BY <1>1, <1>2, Named, Apart DEF IInv, Typed, PutTyped
<1>4. \A id \in RunIds : StaysShown(id)
  BY <1>1, Named DEF StaysShown, Shown, Seen
<1>5. \A k \in Jobs : k # j => StaysUnseen(k)
  BY <1>1, <1>2, Named, Apart DEF StaysUnseen, Seen
<1>6. PICK r \in JobRecord :
          /\ job' = [job EXCEPT ![j] = r]
          /\ r.pc = "scanning" /\ r.s = job[j].s /\ r.at = job[j].at /\ r.result = job[j].result
  <2>1. index' \in SUBSET RunIds /\ job[j] \in JobRecord
    BY <1>2, <1>3, Apart DEF PutTyped
  <2>2. [job[j] EXCEPT !.pc = "scanning", !.left = index'] \in JobRecord
    BY <2>1 DEF JobRecord, Executing
  <2> QED BY <1>1, <2>1, <2>2 DEF JobRecord
<1> QED BY <1>1, <1>3, <1>4, <1>5, <1>6, PutMove

LEMMA ScanKeeps == ASSUME IInv, NEW j \in Jobs, Scan(j) PROVE IInv'
<1> DEFINE L == {id \in RunIds : runs[id] # "none"} \ job[j].left
<1>1. /\ job[j].pc = "scanning"
      /\ job' = [job EXCEPT ![j].pc = "purging", ![j].left = L]
      /\ UNCHANGED <<now, sched, runs, index, exposed, alarm, tick, fired, sleeps, edits, ops>>
  BY DEF Scan
<1>2. Owns(j)
  BY <1>1 DEF Owns, Owning
<1>3. PICK r \in JobRecord :
          /\ job' = [job EXCEPT ![j] = r]
          /\ r.pc = "purging" /\ r.s = job[j].s /\ r.at = job[j].at /\ r.result = job[j].result
  <2>1. L \in SUBSET RunIds /\ job[j] \in JobRecord
    BY <1>2, Apart
  <2> HIDE DEF L
  <2>2. [job[j] EXCEPT !.pc = "purging", !.left = L] \in JobRecord
    BY <2>1 DEF JobRecord, Executing
  <2> QED BY <1>1, <2>1, <2>2 DEF JobRecord
<1> HIDE DEF L
<1> QED BY <1>1, <1>3, RunsSame, PutMove

LEMMA PurgeKeeps == ASSUME IInv, PutsFit, NEW j \in Jobs, Purge(j) PROVE IInv'
<1>1. /\ job[j].pc = "purging"
      /\ UNCHANGED <<now, sched, index, exposed, alarm, tick, sleeps, edits, ops>>
  BY DEF Purge
<1>2. Owns(j)
  BY <1>1 DEF Owns, Owning
<1>3. CASE Started(j) /\ runs' = runs
  <2>1. Delivered(j)
    BY <1>1, <1>3 DEF Delivered, Shown, Seen, PutsFit, Written, Puts, RunOf
  <2> QED BY <1>1, <1>3, <2>1, RunsSame, StartedKeeps
<1>4. ASSUME NEW id \in job[j].left, runs' = [runs EXCEPT ![id] = "none"], fired' = fired,
             job' = [job EXCEPT ![j].left = job[j].left \ {id}]
      PROVE  IInv'
  <2>1. job[j] \in JobRecord /\ id \in RunIds
    BY <1>2, <1>4, Apart DEF JobRecord
  <2>2. \A x \in RunIds : runs'[x] = IF x = id THEN "none" ELSE runs[x]
    BY <1>4 DEF IInv, Typed
  <2>3. PutTyped'
    BY <1>1, <1>4, <2>1 DEF IInv, Typed, PutTyped, RunStatuses
  <2>4. \A x \in RunIds : StaysShown(x)
    <3>1. ~Seen(id) \/ id \in exposed
      BY <1>1, <1>4, <2>1 DEF PutsFit, Shielded
    <3> QED BY <1>1, <2>2, <3>1 DEF StaysShown, Shown, Seen
  <2>5. \A k \in Jobs : k # j => StaysUnseen(k)
    BY <1>1, <1>2, <2>2, Apart DEF StaysUnseen, Seen
  <2>6. PICK r \in JobRecord :
            /\ job' = [job EXCEPT ![j] = r]
            /\ r.pc = "purging" /\ r.s = job[j].s /\ r.at = job[j].at /\ r.result = job[j].result
    <3>1. [job[j] EXCEPT !.left = job[j].left \ {id}] \in JobRecord
      BY <2>1 DEF JobRecord
    <3> QED BY <1>1, <1>4, <2>1, <3>1 DEF JobRecord
  <2> QED BY <1>1, <1>4, <2>3, <2>4, <2>5, <2>6, PutMove
<1> QED BY <1>3, <1>4 DEF Purge

LEMMA FinishKeeps == ASSUME IInv, NEW j \in Jobs, Finish(j) PROVE IInv'
<1>1. job[j].pc = "executing"
      /\ UNCHANGED <<now, sched, runs, index, exposed, alarm, tick, fired, sleeps, edits, ops>>
  BY DEF Finish
<1>2. job[j].pc \in Executing /\ Owns(j) /\ job[j].pc \in Owning
  BY <1>1 DEF Executing, Owns, Owning
<1>3. JobFits(j) /\ job[j].at \in Times /\ job[j] \in JobRecord
  BY <1>2, RunFacts
<1>4. PICK r \in JobRecord :
          /\ job' = [job EXCEPT ![j] = r]
          /\ r.pc = "settling" /\ r.s = job[j].s /\ r.at = job[j].at /\ r.result # "running"
  <2>1. PICK outcome \in Outcomes :
            job' = [job EXCEPT ![j].pc = "settling", ![j].result = outcome]
    BY DEF Finish
  <2>2. [job[j] EXCEPT !.pc = "settling", !.result = outcome] \in JobRecord
    BY <1>3, OutcomeAssumption DEF JobRecord, Executing, Ended
  <2>3. outcome # "running"
    BY OutcomeAssumption
  <2> QED BY <1>3, <2>1, <2>2, <2>3 DEF JobRecord
<1>5. AllButOnce'
  <2>1. Executing \subseteq PcsOf(j) /\ j # Startup
    BY <1>2, <1>3, RunPcs DEF JobFits
  <2>2. r.pc \in PcsOf(j) /\ r.pc \in Owning
        /\ r.pc \notin {"replacing", "clearing", "arming", "joining", "up",
                        "removing", "sweeping", "deleting", "idle"}
    BY <2>1, <1>4 DEF Executing, Owning
  <2>3. /\ PutTyped' /\ fired' \in [RunIds -> 0..2]
        /\ \A id \in RunIds : StaysShown(id)
        /\ \A k \in Jobs : k # j => StaysUnseen(k)
    BY <1>1, RunsSame DEF IInv, Typed
  <2> QED BY <1>1, <1>2, <1>3, <1>4, <2>2, <2>3, AlikeSame, RunMove
<1>6. Once'
  BY <1>1, <1>4, <1>5, AlikeSame, OnceUnmoved DEF AllButOnce
<1> QED BY <1>5, <1>6 DEF AllButOnce, IInv

LEMMA SettleKeeps == ASSUME IInv, NEW j \in Jobs, Settle(j) PROVE IInv'
<1>1. job[j].pc = "settling"
      /\ UNCHANGED <<now, sched, runs, index, exposed, alarm, tick, fired, sleeps, edits, ops>>
  BY DEF Settle
<1>2. job[j].pc \in Executing /\ Owns(j) /\ job[j].pc \in Owning
  BY <1>1 DEF Executing, Owns, Owning
<1>3. JobFits(j) /\ job[j].at \in Times /\ job[j].result # "running"
  BY <1>1, <1>2, RunFacts DEF JobFits
<1>4. PICK r \in JobRecord :
          /\ job' = [job EXCEPT ![j] = r]
          /\ r.pc = IF Seen(RunOf(j)) THEN "closing" ELSE "starting"
          /\ r.s = job[j].s /\ r.at = job[j].at /\ r.result = job[j].result
  <2>1. Go(j, IF Seen(RunOf(j)) THEN "closing" ELSE "starting")
    BY DEF Settle
  <2>2. (IF Seen(RunOf(j)) THEN "closing" ELSE "starting") \in Pcs
    BY DEF Pcs, Executing
  <2> QED BY <2>1, <2>2, GoTyped DEF IInv
<1>5. AllButOnce'
  <2>1. Executing \subseteq PcsOf(j) /\ j # Startup
    BY <1>2, <1>3, RunPcs DEF JobFits
  <2>2. r.pc \in PcsOf(j) /\ r.pc \in {"starting", "closing"}
    BY <2>1, <1>4 DEF Executing
  <2>3. /\ PutTyped' /\ fired' \in [RunIds -> 0..2]
        /\ \A id \in RunIds : StaysShown(id)
        /\ \A k \in Jobs : k # j => StaysUnseen(k)
    BY <1>1, RunsSame DEF IInv, Typed
  <2>4. r.pc \notin Owning => Delivered(j)
    BY <1>1, <1>4 DEF Owning, Delivered, Shown, Seen
  <2> QED BY <1>1, <1>2, <1>3, <1>4, <2>2, <2>3, <2>4, AlikeSame, RunMove
<1>6. Once'
  <2>1. r.pc \in {"starting", "closing"} /\ r.result # "running"
    BY <1>3, <1>4
  <2> QED BY <1>1, <1>4, <1>5, <2>1, AlikeSame, OnceUnmoved DEF AllButOnce
<1> QED BY <1>5, <1>6 DEF AllButOnce, IInv

LEMMA CloseKeeps == ASSUME IInv, NEW j \in Jobs, Close(j) PROVE IInv'
<1>1. /\ job[j].pc = "closing" /\ Go(j, "noting")
      /\ runs' = IF runs[RunOf(j)] = "running" THEN [runs EXCEPT ![RunOf(j)] = job[j].result]
                 ELSE runs
      /\ UNCHANGED <<now, sched, index, exposed, alarm, tick, fired, sleeps, edits, ops>>
  BY DEF Close
<1>2. job[j].pc \in Executing /\ ~Owns(j)
  BY <1>1 DEF Executing, Owns, Owning
<1>3. JobFits(j) /\ job[j].at \in Times /\ job[j].result # "running" /\ RunOf(j) \in RunIds
      /\ job[j].result \in RunStatuses \ {"none"}
  BY <1>1, <1>2, RunFacts DEF JobFits, JobRecord, RunStatuses, Ended
<1>4. PICK r \in JobRecord :
          /\ job' = [job EXCEPT ![j] = r]
          /\ r.pc = "noting" /\ r.s = job[j].s /\ r.at = job[j].at /\ r.result = job[j].result
  BY <1>1, GoTyped DEF IInv, Pcs, Executing
<1>5. /\ PutTyped'
      /\ \A id \in RunIds : runs[id] = "none" <=> runs'[id] = "none"
  BY <1>1, <1>3 DEF IInv, Typed, PutTyped
<1>6. AllButOnce'
  <2>1. r.pc \in PcsOf(j) /\ r.pc \notin Owning
    BY <1>4, RunPcs DEF Owning
  <2>2. fired' \in [RunIds -> 0..2]
    BY <1>1 DEF IInv, Typed
  <2>3. \A k \in Jobs : k # j => StaysUnseen(k)
    BY <1>1, <1>5, RunFacts DEF IInv, JobsFit, JobFits, Executing, StaysUnseen, Seen
  <2>4. \A id \in RunIds : StaysShown(id)
    BY <1>1, <1>5 DEF StaysShown, Shown, Seen
  <2> QED BY <1>1, <1>2, <1>3, <1>4, <1>5, <2>1, <2>2, <2>3, <2>4, AlikeSame, RunMove
<1>7. Once'
  BY <1>1, <1>4, <1>6, AlikeSame, OnceUnmoved DEF AllButOnce
<1> QED BY <1>6, <1>7 DEF AllButOnce, IInv

LEMMA NoteKeeps == ASSUME IInv, NEW j \in Jobs, Note(j) PROVE IInv'
<1>1. /\ job[j].pc = "noting" /\ GoHome(j)
      /\ UNCHANGED <<now, runs, index, exposed, alarm, tick, fired, sleeps, edits, ops>>
  BY DEF Note
<1>2. job[j].pc \in Executing /\ ~Owns(j)
  BY <1>1 DEF Executing, Owns, Owning
<1>3. job[j] \in JobRecord /\ job[j].s \in Schedules /\ job[j].result \in Ended
  BY <1>1, <1>2, RunFacts DEF JobFits, JobRecord
<1>4. sched' \in [Schedules -> ScheduleRecord] /\ \A s \in Schedules : Alike(sched'[s], sched[s])
  <2> DEFINE q == job[j].s
             n == [sched[q] EXCEPT !.last = job[j].result]
  <2>1. sched[q] \in ScheduleRecord /\ n \in ScheduleRecord /\ Alike(n, sched[q])
    <3>1. sched[q] \in ScheduleRecord
      BY <1>3 DEF IInv, Typed
    <3> QED BY <1>3, <3>1 DEF ScheduleRecord, Alike
  <2>2. sched' = IF Stored(q) THEN [sched EXCEPT ![q] = n] ELSE sched
    BY DEF Note, MutateSchedule
  <2> HIDE DEF n, q
  <2> QED BY <2>1, <2>2 DEF IInv, Typed, Alike
<1>5. PICK r \in JobRecord : job' = [job EXCEPT ![j] = r] /\ r.pc = Home(j)
  <2>1. At(Home(j)) \in JobRecord /\ At(Home(j)).pc = Home(j)
    BY RunPcs, AtTyped
  <2>2. [At(Home(j)) EXCEPT !.left = job[j].left] \in JobRecord
    BY <1>3, <2>1 DEF JobRecord
  <2> QED BY <1>1, <2>1, <2>2 DEF GoHome, JobRecord
<1>6. /\ r.pc \in PcsOf(j) /\ r.pc \in {"advancing", "recovering", "idle"}
      /\ r.pc = "idle" => j # Clock
  BY <1>5, RunPcs DEF Home
<1>7. AllButOnce'
  <2>1. r.pc \notin Owning /\ r.pc \notin Executing
    BY <1>6 DEF Owning, Executing
  <2>2. /\ PutTyped' /\ fired' \in [RunIds -> 0..2]
        /\ \A id \in RunIds : StaysShown(id)
        /\ \A k \in Jobs : k # j => StaysUnseen(k)
    BY <1>1, RunsSame DEF IInv, Typed
  <2> QED BY <1>1, <1>2, <1>4, <1>5, <1>6, <2>1, <2>2, RunMove
<1>8. Once'
  BY <1>1, <1>4, <1>5, <1>6, <1>7, OnceUnmoved DEF AllButOnce
<1> QED BY <1>7, <1>8 DEF AllButOnce, IInv

LEMMA RunStepKeeps == ASSUME IInv, PutsFit, NEW j \in Jobs, RunStep(j) PROVE IInv'
BY CheckKeeps, StartKeeps, StoreKeeps, IndexKeeps, ScanKeeps, PurgeKeeps, FinishKeeps, SettleKeeps,
   CloseKeeps, NoteKeeps DEF RunStep, PutStep

-----------------------------------------------------------------------------
(* Jobs that work on no run: the alarm, the startup and the panel's listings. *)

AllButArmed == Typed /\ RecordsFit /\ TickFits /\ JobsFit /\ Once /\ InStep /\ Recorded

\* A job's new record, when it neither takes up a run nor is about to write a schedule back.
Aside(k, r) ==
    /\ job[k].pc \notin Owning
    /\ r.pc \in PcsOf(k) \ (Owning \cup {"replacing"})
    /\ r.pc \in {"closing", "noting"} => r.at \in Times /\ r.result # "running"

LEMMA SideStep ==
    ASSUME IInv, job' \in [Jobs -> JobRecord],
           \A k \in Jobs : job'[k] = job[k] \/ Aside(k, job'[k]),
           alarm' \in Nat, PutTyped',
           \A k \in Jobs : StaysUnseen(k),
           \A id \in RunIds : Untouched /\ Stored(id[1]) => StaysShown(id),
           UNCHANGED <<now, sched, tick, fired, sleeps, edits, ops>>
    PROVE  AllButArmed'
<1>1. Typed'
  BY DEF IInv, Typed, PutTyped
<1>2. now <= now' /\ edits <= edits' /\ sleeps <= sleeps'
  BY DEF IInv, Typed, Times
<1>3. \A k \in Jobs : job'[k].pc \in Owning \cup {"replacing"} => job'[k] = job[k]
  BY DEF Aside
<1>4. RecordsFit' /\ TickFits' /\ InStep'
  BY <1>1, <1>3, AlikeSame, JobStep
<1>5. JobsFit'
  <2>1. ASSUME NEW k \in Jobs PROVE JobFits(k)'
    <3>1. JobFits(k)
      BY DEF IInv, JobsFit
    <3>2. CASE job'[k] = job[k]
      <4>1. RunOf(k)' = RunOf(k)
        BY <3>2 DEF RunOf
      <4>2. job[k].pc = "storing" => ~Seen(RunOf(k))'
        BY <4>1 DEF StaysUnseen, Seen
      <4> QED BY <3>1, <3>2, <4>2 DEF JobFits, Owns
    <3>3. CASE Aside(k, job'[k])
      BY <3>3 DEF Aside, JobFits, Owns, Owning, Executing
    <3> QED BY <3>2, <3>3
  <2>2. \A k \in Jobs : Owns(k)' => Owns(k) /\ RunOf(k)' = RunOf(k)
    BY <1>3 DEF Owns, RunOf
  <2> QED BY <2>1, <2>2 DEF JobsFit, IInv
<1>6. Once'
  <2>1. Coming' => Coming /\ RunOf(Clock)' = RunOf(Clock)
    BY <1>3, Actors DEF Coming, RunOf, Owning
  <2>2. \A p \in Panel : job'[p].pc = "replacing" => job'[p] = job[p]
    BY <1>3, Actors
  <2> QED BY <1>1, <1>2, <2>1, <2>2, AlikeSame, OnceKept
<1>7. Recorded'
  <2>1. Owns(Clock) => job'[Clock] = job[Clock]
    BY Actors DEF Aside, Owns
  <2>2. ASSUME NEW s \in Schedules, NEW at \in Times, Untouched, Stored(s),
               Shown(<<s, at>>) \/ (Owns(Clock) /\ RunOf(Clock) = <<s, at>>)
        PROVE  Shown(<<s, at>>)' \/ (Owns(Clock)' /\ RunOf(Clock)' = <<s, at>>)
    <3>1. <<s, at>> \in RunIds /\ <<s, at>>[1] = s
      BY DEF RunIds
    <3>2. StaysShown(<<s, at>>)
      BY <2>2, <3>1
    <3> QED BY <2>1, <2>2, <3>2 DEF StaysShown, Owns, RunOf
  <2> QED BY <1>1, <1>2, <2>2, AlikeSame, RecordedKept
<1> QED BY <1>1, <1>4, <1>5, <1>6, <1>7 DEF AllButArmed

\* The same for one job, with the run records as they are.
LEMMA SideMove ==
    ASSUME IInv, NEW j \in Jobs, NEW r \in JobRecord, job' = [job EXCEPT ![j] = r], Aside(j, r),
           r.pc \notin {"removing", "sweeping", "deleting"}, alarm' \in Nat,
           UNCHANGED <<now, sched, runs, index, exposed, tick, fired, sleeps, edits, ops>>
    PROVE  AllButArmed' /\ Swept'
<1>1. job' \in [Jobs -> JobRecord] /\ job'[j] = r /\ \A k \in Jobs : k # j => job'[k] = job[k]
  BY Moved DEF IInv
<1>2. /\ PutTyped'
      /\ \A k \in Jobs : StaysUnseen(k)
      /\ \A id \in RunIds : Untouched /\ Stored(id[1]) => StaysShown(id)
  BY RunsSame
<1>3. Swept'
  BY <1>1, Actors, AlikeSame, SweptKept
<1> QED BY <1>1, <1>2, <1>3, SideStep

\* The alarm is wanted for the earliest of the schedules that are not paused.
LEMMA WakeUpOf ==
    ASSUME IInv
    PROVE  LET at == nextWakeUp({sched[s] : s \in Listed})
           IN  /\ at \in Nat
               /\ \A s \in Schedules : Stored(s) /\ sched[s].enabled =>
                      at # NoTime /\ at <= sched[s].nextRunAt
<1> DEFINE T  == {r.nextRunAt : r \in {q \in {sched[s] : s \in Listed} : q.enabled}}
           at == nextWakeUp({sched[s] : s \in Listed})
<1>1. T \in SUBSET (Nat \ {0})
  <2>1. \A s \in Listed : sched[s].nextRunAt \in Nat \ {0}
    BY CadenceAssumption DEF Listed, Stored, IInv, RecordsFit, Fits
  <2> QED BY <2>1
<1>2. \A s \in Schedules : Stored(s) /\ sched[s].enabled => sched[s].nextRunAt \in T
  BY DEF Listed
<1>3. at = IF T = {} THEN NoTime ELSE Least(T)
  BY DEF nextWakeUp
<1> HIDE DEF T, at
<1>4. T # {} => Least(T) \in T /\ \A t \in T : Least(T) <= t
  BY <1>1, LeastOf
<1>5. at \in Nat /\ \A t \in T : at # NoTime /\ at <= t
  <2>1. CASE T = {}
    BY <1>3, <2>1 DEF NoTime
  <2>2. CASE T # {}
    BY <1>1, <1>3, <1>4, <2>2 DEF NoTime
  <2> QED BY <2>1, <2>2
<1>6. \A s \in Schedules : Stored(s) /\ sched[s].enabled => at # NoTime /\ at <= sched[s].nextRunAt
  BY <1>2, <1>5
<1> QED BY <1>5, <1>6 DEF at

LEMMA RearmKeeps == ASSUME IInv, NEW j \in Jobs, Rearm(j) PROVE IInv'
<1> DEFINE at == nextWakeUp({sched[s] : s \in Listed})
<1>1. /\ job[j].pc = "rearming" /\ job' = [job EXCEPT ![j].pc = "clearing", ![j].at = at]
      /\ UNCHANGED <<now, sched, runs, index, exposed, alarm, tick, fired, sleeps, edits, ops>>
  BY DEF Rearm
<1>2. /\ at \in Nat
      /\ \A s \in Schedules : Stored(s) /\ sched[s].enabled =>
             at # NoTime /\ at <= sched[s].nextRunAt
  BY WakeUpOf
<1> HIDE DEF at
<1>3. PICK r \in JobRecord : job' = [job EXCEPT ![j] = r] /\ r.pc = "clearing" /\ r.at = at
  <2>1. job[j] \in JobRecord
    BY DEF IInv, Typed
  <2>2. [job[j] EXCEPT !.pc = "clearing", !.at = at] \in JobRecord
    BY <1>2, <2>1 DEF JobRecord, Rearming
  <2> QED BY <1>1, <2>1, <2>2 DEF JobRecord
<1>4. job'[j] = r /\ \A k \in Jobs : k # j => job'[k] = job[k]
  BY <1>3, Moved DEF IInv
<1>5. j # Startup
  BY <1>1, Actors DEF IInv, JobsFit, JobFits, PcsOf
<1>6. AllButArmed' /\ Swept'
  <2>1. Aside(j, r)
    BY <1>1, <1>3, <1>5 DEF Aside, PcsOf, Rearming, Executing, Owning
  <2> QED BY <1>1, <1>3, <2>1, SideMove DEF IInv, Typed
<1>7. Armed'
  <2> SUFFICES ASSUME Untouched, NEW s \in Schedules, Stored(s), sched[s].enabled
               PROVE  /\ Covered(s)'
                      /\ \A k \in Jobs : job'[k].pc \in {"clearing", "arming"} =>
                             job'[k].at # NoTime /\ job'[k].at <= sched[s].nextRunAt
    BY <1>1 DEF Armed, Untouched, Stored
  <2>1. /\ Covered(s)
        /\ \A k \in Jobs : job[k].pc \in {"clearing", "arming"} =>
               job[k].at # NoTime /\ job[k].at <= sched[s].nextRunAt
    BY DEF IInv, Armed
  <2>2. Covered(s)'
    BY <1>1, <1>3, <1>4, <1>5, <2>1, Actors DEF Covered
  <2> QED BY <1>2, <1>3, <1>4, <2>1, <2>2
<1> QED BY <1>6, <1>7 DEF AllButArmed, IInv

LEMMA ClearKeeps == ASSUME IInv, NEW j \in Jobs, Clear(j) PROVE IInv'
<1>1. /\ job[j].pc = "clearing" /\ alarm' = NoTime
      /\ UNCHANGED <<now, sched, runs, index, exposed, tick, fired, sleeps, edits, ops>>
  BY DEF Clear
<1>2. PICK r \in JobRecord :
          /\ job' = [job EXCEPT ![j] = r]
          /\ IF job[j].at = NoTime THEN r.pc = "idle" ELSE r.pc = "arming" /\ r.at = job[j].at
  <2>1. job[j].at \in Nat
    BY DEF IInv, Typed, JobRecord
  <2>2. At("idle") \in JobRecord /\ At("idle").pc = "idle" /\ At("arming") \in JobRecord
    BY AtTyped DEF Pcs, Rearming
  <2>3. [At("arming") EXCEPT !.at = job[j].at] \in JobRecord
        /\ [At("arming") EXCEPT !.at = job[j].at].at = job[j].at
        /\ [At("arming") EXCEPT !.at = job[j].at].pc = "arming"
    BY <2>1, <2>2, AtTyped DEF JobRecord, Pcs, Rearming
  <2> QED BY <2>2, <2>3 DEF Clear
<1>3. job'[j] = r /\ \A k \in Jobs : k # j => job'[k] = job[k]
  BY <1>2, Moved DEF IInv
<1>4. j # Startup
  BY <1>1, Actors DEF IInv, JobsFit, JobFits, PcsOf
<1>5. AllButArmed' /\ Swept'
  <2>1. Aside(j, r)
    BY <1>1, <1>2, <1>4 DEF Aside, PcsOf, Rearming, Executing, Owning
  <2>2. alarm' \in Nat
    BY <1>1 DEF NoTime
  <2> QED BY <1>1, <1>2, <2>1, <2>2, SideMove
<1>6. Armed'
  <2>1. ASSUME NEW s \in Schedules, Untouched, Stored(s), sched[s].enabled PROVE Covered(s)'
    <3>1. job[j].at # NoTime
      BY <1>1, <2>1 DEF IInv, Armed
    <3> QED BY <1>2, <1>3, <1>4, <3>1, Actors DEF Covered
  <2> QED BY <1>1, <1>2, <1>3, <2>1, AlikeSame, ArmedKept
<1> QED BY <1>5, <1>6 DEF AllButArmed, IInv

LEMMA ArmKeeps == ASSUME IInv, NEW j \in Jobs, Arm(j) PROVE IInv'
<1>1. /\ job[j].pc = "arming" /\ alarm' = Later(job[j].at, now)
      /\ job' = [job EXCEPT ![j] = At("idle")]
      /\ UNCHANGED <<now, sched, runs, index, exposed, tick, fired, sleeps, edits, ops>>
  BY DEF Arm
<1>2. At("idle") \in JobRecord /\ At("idle").pc = "idle"
  BY AtTyped DEF Pcs
<1>3. job'[j] = At("idle") /\ \A k \in Jobs : k # j => job'[k] = job[k]
  BY <1>1, <1>2, Moved DEF IInv
<1>4. j # Startup
  BY <1>1, Actors DEF IInv, JobsFit, JobFits, PcsOf
<1>5. now \in Nat /\ now # 0 /\ job[j].at \in Nat
  BY DEF IInv, Typed, Times, JobRecord
<1>6. AllButArmed' /\ Swept'
  <2>1. Aside(j, At("idle"))
    BY <1>1, <1>2, <1>4 DEF Aside, PcsOf, Executing, Owning
  <2>2. alarm' \in Nat
    BY <1>1, <1>5 DEF Later
  <2> QED BY <1>1, <1>2, <2>1, <2>2, SideMove
<1>7. Armed'
  <2>1. ASSUME NEW s \in Schedules, Untouched, Stored(s), sched[s].enabled PROVE Covered(s)'
    <3>1. job[j].at # NoTime /\ job[j].at <= sched[s].nextRunAt
      BY <1>1, <2>1 DEF IInv, Armed
    <3>2. sched[s].nextRunAt \in Nat
      BY DEF IInv, Typed, ScheduleRecord
    <3>3. alarm' # NoTime /\ alarm' <= Later(sched'[s].nextRunAt, now')
      BY <1>1, <1>5, <3>1, <3>2 DEF Later, NoTime
    <3> QED BY <3>3 DEF Covered
  <2> QED BY <1>1, <1>2, <1>3, <2>1, AlikeSame, ArmedKept
<1> QED BY <1>6, <1>7 DEF AllButArmed, IInv

-----------------------------------------------------------------------------
(* The startup, the alarm's delivery and the panel's requests about runs. *)

\* The alarm is as it was and no one who was to arm it has stopped short of it.
LEMMA ArmedAside ==
    ASSUME IInv, alarm' = alarm, UNCHANGED <<now, sched, ops>>,
           job'[Clock].pc = "idle" => job[Clock].pc = "idle",
           job'[Startup].pc \in {"joining", "up"} =>
               job[Startup].pc \in {"joining", "up"} \/ job'[Clock].pc # "idle",
           \A p \in Panel : job[p].pc = "arming" => job'[p] = job[p],
           \A k \in Jobs : job'[k].pc \in {"clearing", "arming"} => job'[k] = job[k]
    PROVE  Armed'
<1>1. \A s \in Schedules : Covered(s) => Covered(s)'
  BY DEF Covered
<1> QED BY <1>1, AlikeSame, ArmedKept

LEMMA StartupMove ==
    ASSUME IInv, NEW r \in JobRecord, job' = [job EXCEPT ![Startup] = r],
           job[Startup].pc \notin {"closing", "noting"},
           \/ r.pc \in {"booting", "recovering"}
           \/ r.pc = "closing" /\ r.at \in Times /\ r.result # "running"
           \/ r.pc = "up" /\ job[Startup].pc = "joining",
           UNCHANGED <<now, sched, runs, index, exposed, alarm, tick, fired, sleeps, edits, ops>>
    PROVE  IInv'
<1>1. job'[Startup] = r /\ \A k \in Jobs : k # Startup => job'[k] = job[k]
  BY Moved, Actors DEF IInv
<1>2. AllButArmed' /\ Swept'
  <2>1. job[Startup].pc \in PcsOf(Startup)
    BY Actors DEF IInv, JobsFit, JobFits
  <2>2. Aside(Startup, r)
    BY <2>1, Actors DEF Aside, PcsOf, Owning
  <2>3. r.pc \notin {"removing", "sweeping", "deleting"} /\ alarm' \in Nat
    BY DEF IInv, Typed
  <2> QED BY <2>2, <2>3, SideMove, Actors
<1>3. Armed'
  BY <1>1, Actors, ArmedAside
<1> QED BY <1>2, <1>3 DEF AllButArmed, IInv

LEMMA RecoverKeeps == ASSUME IInv, Recover PROVE IInv'
<1> DEFINE r == [At("recovering") EXCEPT !.left = {id \in index : runs[id] = "running"}]
<1>1. At("recovering") \in JobRecord /\ At("recovering").pc = "recovering"
  BY AtTyped DEF Pcs
<1>2. r \in JobRecord /\ r.pc = "recovering"
  BY <1>1 DEF JobRecord, IInv, Typed
<1>3. /\ job[Startup].pc = "booting" /\ job' = [job EXCEPT ![Startup] = r]
      /\ UNCHANGED <<now, sched, runs, index, exposed, alarm, tick, fired, sleeps, edits, ops>>
  BY DEF Recover
<1> HIDE DEF r
<1> QED BY <1>2, <1>3, StartupMove

LEMMA RecoverOneKeeps == ASSUME IInv, RecoverOne PROVE IInv'
<1>1. PICK id \in job[Startup].left :
          job' = [job EXCEPT ![Startup] = [At("closing") EXCEPT
                     !.s = id[1], !.at = id[2], !.result = "failed",
                     !.left = job[Startup].left \ {id}]]
  BY DEF RecoverOne
<1> DEFINE r == [At("closing") EXCEPT !.s = id[1], !.at = id[2], !.result = "failed",
                                      !.left = job[Startup].left \ {id}]
<1>2. job[Startup].left \in SUBSET RunIds /\ id[1] \in Schedules /\ id[2] \in Times /\ id[2] \in Nat
  BY Actors DEF IInv, Typed, JobRecord, RunIds, Times
<1>3. At("closing") \in JobRecord /\ At("closing").pc = "closing"
  BY AtTyped DEF Pcs, Executing
<1>4. r \in JobRecord /\ r.pc = "closing" /\ r.at = id[2] /\ r.result = "failed"
  BY <1>2, <1>3 DEF JobRecord, Ended
<1>5. /\ job[Startup].pc = "recovering" /\ job' = [job EXCEPT ![Startup] = r]
      /\ UNCHANGED <<now, sched, runs, index, exposed, alarm, tick, fired, sleeps, edits, ops>>
  BY <1>1 DEF RecoverOne
<1> HIDE DEF r
<1> QED BY <1>2, <1>4, <1>5, StartupMove

LEMMA WakeKeeps == ASSUME IInv, Wake PROVE IInv'
<1>1. At("booting") \in JobRecord /\ At("booting").pc = "booting"
  BY AtTyped DEF Pcs
<1>2. /\ job[Startup].pc = "down" /\ job' = [job EXCEPT ![Startup] = At("booting")]
      /\ UNCHANGED <<now, sched, runs, index, exposed, alarm, tick, fired, sleeps, edits, ops>>
  BY DEF Wake
<1> QED BY <1>1, <1>2, StartupMove

LEMMA JoinedKeeps == ASSUME IInv, Joined PROVE IInv'
<1>1. /\ job[Startup].pc = "joining" /\ Go(Startup, "up")
      /\ UNCHANGED <<now, sched, runs, index, exposed, alarm, tick, fired, sleeps, edits, ops>>
  BY DEF Joined
<1>2. \E r \in JobRecord : job' = [job EXCEPT ![Startup] = r] /\ r.pc = "up"
  BY <1>1, GoTyped, Actors DEF IInv, Pcs
<1> QED BY <1>1, <1>2, StartupMove

\* A tick begins, or the one under way serves.
LEMMA TickStarted ==
    ASSUME Typed, NEW x \in JobRecord, job' = StartTick([job EXCEPT ![Startup] = x])
    PROVE  /\ job' \in [Jobs -> JobRecord] /\ job'[Startup] = x
           /\ job'[Clock] = IF job[Clock].pc = "idle" THEN At("listing") ELSE job[Clock]
           /\ \A p \in Panel : job'[p] = job[p]
<1> DEFINE from == [job EXCEPT ![Startup] = x]
           y    == IF from[Clock].pc = "idle" THEN At("listing") ELSE from[Clock]
<1>1. from \in [Jobs -> JobRecord] /\ from[Startup] = x /\ from[Clock] = job[Clock]
      /\ \A p \in Panel : from[p] = job[p]
  BY Actors DEF Typed
<1>2. At("listing") \in JobRecord
  BY AtTyped DEF Pcs
<1>3. job' = [from EXCEPT ![Clock] = y]
  BY DEF StartTick
<1> HIDE DEF from
<1> QED BY <1>1, <1>2, <1>3, Actors

LEMMA TickStartKeeps ==
    ASSUME IInv, NEW x \in JobRecord, job' = StartTick([job EXCEPT ![Startup] = x]),
           x = job[Startup] \/ Aside(Startup, x), alarm' \in Nat,
           UNCHANGED <<now, sched, runs, index, exposed, tick, fired, sleeps, edits, ops>>
    PROVE  IInv'
<1>1. /\ job' \in [Jobs -> JobRecord] /\ job'[Startup] = x
      /\ job'[Clock] = IF job[Clock].pc = "idle" THEN At("listing") ELSE job[Clock]
      /\ \A p \in Panel : job'[p] = job[p]
  BY TickStarted DEF IInv
<1>2. At("listing").pc = "listing"
  BY AtTyped DEF Pcs
<1>3. \A k \in Jobs : job'[k] = job[k] \/ Aside(k, job'[k])
  <2>1. job[Clock].pc = "idle" => Aside(Clock, job'[Clock])
    BY <1>1, <1>2, Actors DEF Aside, PcsOf, Owning
  <2> QED BY <1>1, <2>1, Actors
<1>4. AllButArmed'
  <2>1. /\ PutTyped'
        /\ \A k \in Jobs : StaysUnseen(k)
        /\ \A id \in RunIds : Untouched /\ Stored(id[1]) => StaysShown(id)
    BY RunsSame
  <2> QED BY <1>1, <1>3, <2>1, SideStep
<1>5. Swept'
  BY <1>1, AlikeSame, SweptKept
<1>6. Armed'
  <2>1. \A s \in Schedules : Covered(s)'
    BY <1>1, <1>2 DEF Covered
  <2>2. \A k \in Jobs : job'[k].pc \in {"clearing", "arming"} => job'[k] = job[k]
    <3>1. x.pc \in {"clearing", "arming"} => x = job[Startup]
      BY Actors DEF Aside, PcsOf
    <3> QED BY <1>1, <1>2, <3>1, Actors
  <2> QED BY <2>1, <2>2, AlikeSame, ArmedKept
<1> QED BY <1>4, <1>5, <1>6 DEF AllButArmed, IInv

LEMMA JoinKeeps == ASSUME IInv, Join PROVE IInv'
<1>1. At("joining") \in JobRecord /\ At("joining").pc = "joining"
  BY AtTyped DEF Pcs
<1>2. /\ job[Startup].pc = "recovering" /\ job' = StartTick([job EXCEPT ![Startup] = At("joining")])
      /\ UNCHANGED <<now, sched, runs, index, exposed, alarm, tick, fired, sleeps, edits, ops>>
  BY DEF Join
<1>3. Aside(Startup, At("joining"))
  BY <1>1, <1>2, Actors DEF Aside, PcsOf, Owning
<1>4. alarm' \in Nat
  BY <1>2 DEF IInv, Typed
<1> QED BY <1>1, <1>2, <1>3, <1>4, TickStartKeeps

LEMMA AlarmFiresKeeps == ASSUME IInv, AlarmFires PROVE IInv'
<1> DEFINE x == IF job[Startup].pc = "down" THEN At("booting") ELSE job[Startup]
<1>1. At("booting") \in JobRecord /\ At("booting").pc = "booting" /\ job[Startup] \in JobRecord
  BY AtTyped, Actors DEF Pcs, IInv, Typed
<1>2. x \in JobRecord /\ (x = job[Startup] \/ Aside(Startup, x))
  BY <1>1, Actors DEF Aside, PcsOf, Owning
<1>3. /\ alarm' = NoTime /\ job' = StartTick([job EXCEPT ![Startup] = x])
      /\ UNCHANGED <<now, sched, runs, index, exposed, tick, fired, sleeps, edits, ops>>
  BY DEF AlarmFires
<1> HIDE DEF x
<1>4. alarm' \in Nat
  BY <1>3 DEF NoTime
<1> QED BY <1>2, <1>3, <1>4, TickStartKeeps

LEMMA CancelRunKeeps == ASSUME IInv, NEW p \in Panel, CancelRun(p) PROVE IInv'
<1>1. PICK id \in index :
          job' = [job EXCEPT ![p] = [At("closing") EXCEPT !.s = id[1], !.at = id[2],
                                                         !.result = "cancelled"]]
  BY DEF CancelRun
<1> DEFINE r == [At("closing") EXCEPT !.s = id[1], !.at = id[2], !.result = "cancelled"]
<1>2. id[1] \in Schedules /\ id[2] \in Times /\ id[2] \in Nat
  BY DEF IInv, Typed, RunIds, Times
<1>3. At("closing") \in JobRecord
  BY AtTyped DEF Pcs, Executing
<1>4. r \in JobRecord /\ r.pc = "closing" /\ r.at = id[2] /\ r.result = "cancelled"
  BY <1>2, <1>3, AtTyped DEF JobRecord, Ended, Pcs, Executing
<1>5. /\ job[p].pc = "idle" /\ job' = [job EXCEPT ![p] = r]
      /\ UNCHANGED <<now, sched, runs, index, exposed, alarm, tick, fired, sleeps, edits, ops>>
  BY <1>1 DEF CancelRun, Begins
<1> HIDE DEF r
<1>6. job'[p] = r /\ \A k \in Jobs : k # p => job'[k] = job[k]
  BY <1>4, <1>5, Moved, Actors DEF IInv
<1>7. AllButArmed' /\ Swept'
  <2>1. Aside(p, r)
    BY <1>2, <1>4, <1>5, Actors DEF Aside, PcsOf, Owning, Executing
  <2>2. alarm' \in Nat
    BY <1>5 DEF IInv, Typed
  <2> QED BY <1>4, <1>5, <2>1, <2>2, Actors, SideMove
<1>8. Armed'
  BY <1>4, <1>5, <1>6, Actors, ArmedAside
<1> QED BY <1>7, <1>8 DEF AllButArmed, IInv

LEMMA ListRunsKeeps == ASSUME IInv, NEW p \in Panel, ListRuns(p) PROVE IInv'
<1> DEFINE L == {id \in index : id[1] = job[p].s /\ runs[id] # "none"}
<1>1. /\ job[p].pc = "removing" /\ job' = [job EXCEPT ![p].pc = "sweeping", ![p].left = L]
      /\ UNCHANGED <<now, sched, runs, index, exposed, alarm, tick, fired, sleeps, edits, ops>>
  BY DEF ListRuns
<1>2. PICK r \in JobRecord : /\ job' = [job EXCEPT ![p] = r]
                             /\ r.pc = "sweeping" /\ r.s = job[p].s /\ r.left = L
  <2>1. job[p] \in JobRecord
    BY Actors DEF IInv, Typed
  <2>2. [job[p] EXCEPT !.pc = "sweeping", !.left = L] \in JobRecord
    BY <2>1 DEF JobRecord, IInv, Typed
  <2> HIDE DEF L
  <2> QED BY <1>1, <2>1, <2>2 DEF JobRecord
<1>3. \A id \in L : id[1] = job[p].s
  OBVIOUS
<1> HIDE DEF L
<1>4. job' \in [Jobs -> JobRecord] /\ job'[p] = r /\ \A k \in Jobs : k # p => job'[k] = job[k]
  BY <1>2, Moved, Actors DEF IInv
<1>5. AllButArmed'
  <2>1. \A k \in Jobs : job'[k] = job[k] \/ Aside(k, job'[k])
    BY <1>1, <1>2, <1>4, Actors DEF Aside, PcsOf, Owning
  <2>2. /\ PutTyped' /\ alarm' \in Nat
        /\ \A k \in Jobs : StaysUnseen(k)
        /\ \A id \in RunIds : Untouched /\ Stored(id[1]) => StaysShown(id)
    BY <1>1, RunsSame DEF IInv, Typed
  <2> QED BY <1>1, <1>4, <2>1, <2>2, SideStep
<1>6. Swept'
  BY <1>1, <1>2, <1>3, <1>4, Actors DEF IInv, Swept, Untouched, Stored
<1>7. Armed'
  BY <1>1, <1>2, <1>4, Actors, ArmedAside
<1> QED BY <1>5, <1>6, <1>7 DEF AllButArmed, IInv

\* The runs of a deleted schedule go, the job of the request going along.
LEMMA SweepMove ==
    ASSUME IInv, NEW p \in Panel, NEW r \in JobRecord, job' = [job EXCEPT ![p] = r],
           job[p].pc \in {"sweeping", "deleting"}, r.pc \in {"sweeping", "deleting"},
           r.s = job[p].s, r.left \subseteq job[p].left,
           PutTyped', index' \subseteq index,
           \A x \in RunIds : runs'[x] # "none" => runs[x] # "none",
           \A x \in RunIds : x[1] # job[p].s => StaysShown(x),
           UNCHANGED <<now, sched, alarm, tick, fired, sleeps, edits, ops>>
    PROVE  IInv'
<1>1. job' \in [Jobs -> JobRecord] /\ job'[p] = r /\ \A k \in Jobs : k # p => job'[k] = job[k]
  BY Moved, Actors DEF IInv
<1>2. AllButArmed'
  <2>1. \A k \in Jobs : job'[k] = job[k] \/ Aside(k, job'[k])
    BY <1>1, Actors DEF Aside, PcsOf, Owning
  <2>2. alarm' \in Nat
    BY DEF IInv, Typed
  <2>3. ASSUME NEW k \in Jobs PROVE StaysUnseen(k)
    <3>1. job[k].pc = "storing" => RunOf(k) \in RunIds /\ ~Seen(RunOf(k))
      BY RunFacts DEF JobFits, Executing
    <3> QED BY <3>1 DEF StaysUnseen, Seen
  <2>4. \A id \in RunIds : Untouched /\ Stored(id[1]) => StaysShown(id)
    BY DEF IInv, Swept
  <2> QED BY <1>1, <2>1, <2>2, <2>3, <2>4, SideStep
<1>3. Swept'
  BY <1>1, Actors DEF IInv, Swept, Untouched, Stored
<1>4. Armed'
  BY <1>1, Actors, ArmedAside
<1> QED BY <1>2, <1>3, <1>4 DEF AllButArmed, IInv

LEMMA SweepKeeps == ASSUME IInv, NEW p \in Panel, Sweep(p) PROVE IInv'
<1>1. /\ job[p].pc = "sweeping"
      /\ UNCHANGED <<now, sched, runs, exposed, alarm, tick, fired, sleeps, edits, ops>>
  BY DEF Sweep
<1>2. CASE job' = [job EXCEPT ![p] = At("rearming")] /\ index' = index
  <2>1. At("rearming") \in JobRecord /\ At("rearming").pc = "rearming"
    BY AtTyped DEF Pcs, Rearming
  <2>2. job'[p] = At("rearming") /\ \A k \in Jobs : k # p => job'[k] = job[k]
    BY <1>2, <2>1, Moved, Actors DEF IInv
  <2>3. AllButArmed' /\ Swept'
    <3>1. Aside(p, At("rearming"))
      BY <1>1, <2>1, Actors DEF Aside, PcsOf, Rearming, Owning
    <3>2. alarm' \in Nat
      BY <1>1 DEF IInv, Typed
    <3> QED BY <1>1, <1>2, <2>1, <3>1, <3>2, Actors, SideMove
  <2>4. Armed'
    BY <1>1, <1>2, <2>1, <2>2, Actors, ArmedAside
  <2> QED BY <2>3, <2>4 DEF AllButArmed, IInv
<1>3. ASSUME NEW id \in job[p].left, index' = index \ {id},
             job' = [job EXCEPT ![p].pc = "deleting", ![p].at = id[2],
                                ![p].left = job[p].left \ {id}]
      PROVE  IInv'
  <2>1. job[p] \in JobRecord /\ id \in RunIds /\ id[2] \in Nat
    BY <1>3, Actors DEF IInv, Typed, JobRecord, RunIds, Times
  <2>2. PICK r \in JobRecord : /\ job' = [job EXCEPT ![p] = r] /\ r.pc = "deleting"
                               /\ r.s = job[p].s
                               /\ r.left = job[p].left \ {id}
    <3>1. [job[p] EXCEPT !.pc = "deleting", !.at = id[2], !.left = job[p].left \ {id}] \in JobRecord
      BY <2>1 DEF JobRecord
    <3> QED BY <1>1, <1>3, <2>1, <3>1 DEF JobRecord
  <2>3. id[1] = job[p].s
    BY <1>1, <1>3 DEF IInv, Swept
  <2>4. PutTyped' /\ \A x \in RunIds : x[1] # job[p].s => StaysShown(x)
    BY <1>1, <1>3, <2>3 DEF IInv, Typed, PutTyped, StaysShown, Shown, Seen
  <2> QED BY <1>1, <1>3, <2>2, <2>4, SweepMove
<1> QED BY <1>2, <1>3 DEF Sweep

LEMMA DeleteKeeps == ASSUME IInv, NEW p \in Panel, Delete(p) PROVE IInv'
<1>1. /\ job[p].pc = "deleting" /\ runs' = [runs EXCEPT ![RunOf(p)] = "none"]
      /\ job' = [job EXCEPT ![p].pc = "sweeping", ![p].at = NoTime]
      /\ UNCHANGED <<now, sched, index, exposed, alarm, tick, fired, sleeps, edits, ops>>
  BY DEF Delete
<1>2. job[p] \in JobRecord
  BY Actors DEF IInv, Typed
<1>3. PICK r \in JobRecord : /\ job' = [job EXCEPT ![p] = r] /\ r.pc = "sweeping" /\ r.s = job[p].s
                             /\ r.left = job[p].left
  <2>1. [job[p] EXCEPT !.pc = "sweeping", !.at = NoTime] \in JobRecord
    BY <1>2 DEF JobRecord, NoTime
  <2> QED BY <1>1, <1>2, <2>1 DEF JobRecord
<1>4. \A x \in RunIds : runs'[x] = IF x = RunOf(p) THEN "none" ELSE runs[x]
  BY <1>1 DEF IInv, Typed
<1>5. PutTyped'
  BY <1>1 DEF IInv, Typed, PutTyped, RunStatuses
<1>6. \A x \in RunIds : x[1] # job[p].s => StaysShown(x)
  BY <1>1, <1>4 DEF StaysShown, Shown, Seen, RunOf
<1>7. \A x \in RunIds : runs'[x] # "none" => runs[x] # "none"
  BY <1>4
<1>8. r.left \subseteq job[p].left /\ index' \subseteq index
  BY <1>1, <1>3
<1> QED BY <1>1, <1>3, <1>5, <1>6, <1>7, <1>8, SweepMove

-----------------------------------------------------------------------------
(* runTick(). *)

LEMMA RunNowKeeps == ASSUME IInv, NEW p \in Panel, RunNow(p) PROVE IInv'
<1>1. PICK s \in Schedules :
          /\ Stored(s) /\ now \notin UNION Cadences
          /\ \A j \in Jobs : RunOf(j) # <<s, now>>
          /\ job' = [job EXCEPT ![p] = [At("checking") EXCEPT !.s = s, !.at = now]]
  BY DEF RunNow, Listed
<1> DEFINE r == [At("checking") EXCEPT !.s = s, !.at = now]
<1>2. r \in JobRecord /\ r.pc = "checking" /\ r.s = s /\ r.at = now
  <2>1. At("checking") \in JobRecord /\ At("checking").pc = "checking" /\ now \in Nat
    BY AtTyped DEF Pcs, Executing, IInv, Typed, Times
  <2> QED BY <2>1 DEF JobRecord
<1>3. /\ job[p].pc = "idle" /\ job' = [job EXCEPT ![p] = r]
      /\ UNCHANGED <<now, sched, runs, index, exposed, alarm, tick, fired, sleeps, edits, ops>>
  BY <1>1 DEF RunNow, Begins
<1> HIDE DEF r
<1>4. job' \in [Jobs -> JobRecord] /\ job'[p] = r /\ \A k \in Jobs : k # p => job'[k] = job[k]
  BY <1>2, <1>3, Moved, Actors DEF IInv
<1>5. Typed'
  BY <1>3, <1>4 DEF IInv, Typed
<1>6. RecordsFit' /\ TickFits' /\ InStep'
  BY <1>2, <1>3, <1>4, <1>5, AlikeSame, JobStep
<1>7. JobsFit'
  <2>1. r.pc \in PcsOf(p) /\ r.pc \in Owning /\ r.pc \in Executing /\ r.at \in Times
    BY <1>2, Actors DEF PcsOf, Owning, Executing, IInv, Typed
  <2>2. p # Clock /\ r.at \notin UNION Cadences /\ \A k \in Jobs : RunOf(k) # <<r.s, r.at>>
    BY <1>1, <1>2, Actors
  <2>3. \A k \in Jobs : StaysUnseen(k)
    BY <1>3, RunsSame
  <2> QED BY <1>2, <1>3, <2>1, <2>2, <2>3, Actors, JobsFitKept
<1>8. Once'
  BY <1>2, <1>3, <1>5, Actors, AlikeSame, OnceUnmoved
<1>9. Recorded'
  <2>1. now <= now' /\ sleeps <= sleeps' /\ job'[Clock] = job[Clock]
    BY <1>3, <1>4, Actors DEF IInv, Typed, Times
  <2>2. \A s1 \in Schedules, at \in Times :
            /\ Untouched /\ Stored(s1) /\ sleeps' = 0
            /\ Shown(<<s1, at>>) \/ (Owns(Clock) /\ RunOf(Clock) = <<s1, at>>)
            => Shown(<<s1, at>>)' \/ (Owns(Clock)' /\ RunOf(Clock)' = <<s1, at>>)
    BY <1>3, <2>1 DEF Owns, RunOf, Shown, Seen
  <2> QED BY <1>3, <1>5, <2>1, <2>2, AlikeSame, RecordedKept
<1>10. Swept'
  BY <1>2, <1>3, <1>4, Actors, AlikeSame, SweptKept
<1>11. Armed'
  BY <1>2, <1>3, <1>4, Actors, ArmedAside
<1> QED BY <1>5, <1>6, <1>7, <1>8, <1>9, <1>10, <1>11 DEF IInv

\* The tick begins or ends: nothing is pending, and what is listed is what is stored.
LEMMA TickTurns ==
    ASSUME IInv, NEW r \in JobRecord, job' = [job EXCEPT ![Clock] = r],
           job[Clock].pc \in {"listing", "advancing"}, r.pc \in {"advancing", "rearming"},
           tick' \in TickType, tick'.missed = {}, tick'.due = NoTime,
           \A s \in Schedules : \/ tick'.list[s] = sched[s]
                                \/ tick'.list[s] = NoSchedule("unborn"),
           UNCHANGED <<now, sched, runs, index, exposed, alarm, fired, sleeps, edits, ops>>
    PROVE  IInv'
<1>1. job' \in [Jobs -> JobRecord] /\ job'[Clock] = r
      /\ \A k \in Jobs : k # Clock => job'[k] = job[k]
  BY Moved, Actors DEF IInv
<1>2. Typed'
  BY <1>1 DEF IInv, Typed
<1>3. Pending' = {}
  BY DEF Pending
<1>4. NoSchedule("unborn").there = "unborn" /\ ~NoSchedule("unborn").enabled
  BY DEF NoSchedule
<1>5. RecordsFit'
  <2>1. \A s \in Schedules : Fits(sched[s], now) /\ Fits(tick'.list[s], now)
    BY <1>4 DEF IInv, RecordsFit, Fits
  <2>2. \A k \in Jobs : job'[k].pc = "replacing" => job'[k] = job[k]
    BY <1>1
  <2> QED BY <2>1, <2>2 DEF IInv, RecordsFit, Fits, Stored
<1>6. TickFits'
  BY <1>2, <1>3, TickFitsKept DEF IInv, Typed, Times
<1>7. JobsFit'
  <2>1. r.pc \in PcsOf(Clock) /\ r.pc \notin Owning /\ r.pc \notin Executing
    <3>1. CASE r.pc = "advancing"
      BY <3>1, Actors DEF PcsOf, Owning, Executing
    <3>2. CASE r.pc = "rearming"
      BY <3>2, Actors DEF PcsOf, Owning, Executing, Rearming
    <3> QED BY <3>1, <3>2
  <2>2. \A k \in Jobs : StaysUnseen(k)
    BY RunsSame
  <2> QED BY <2>1, <2>2, Actors, JobsFitKept DEF Owning, Executing
<1>8. Once'
  <2>1. SUFFICES ASSUME Calm
                 PROVE  /\ NeverTwice' /\ (Coming' => fired'[RunOf(Clock)'] = 0)
                        /\ \A s \in Schedules, at \in Times : OnceAt(s, at)'
                        /\ \A p \in Panel : ResumeFits(p)'
    BY DEF Once, Calm
  <2>2. NeverTwice'
    BY <2>1 DEF IInv, Once, NeverTwice
  <2>3. ~Coming'
    BY <1>1 DEF Coming
  <2>4. ASSUME NEW s \in Schedules, NEW at \in Times PROVE OnceAt(s, at)'
    <3>1. Begun(<<s, at>>)' => Begun(<<s, at>>)
      BY <2>3 DEF Begun
    <3>2. OnceAt(s, at)
      BY <2>1 DEF IInv, Once
    <3>3. \A p \in Panel : job'[p] = job[p]
      BY <1>1, Actors
    <3>4. Spent(sched[s], at) => Spent(tick'.list[s], at)
      BY <1>4 DEF Spent
    <3> QED BY <1>3, <3>1, <3>2, <3>3, <3>4 DEF OnceAt, Spent
  <2>5. ASSUME NEW p \in Panel PROVE ResumeFits(p)'
    BY <1>1, <2>1, Actors DEF IInv, Once, ResumeFits
  <2> QED BY <2>2, <2>3, <2>4, <2>5
<1>9. InStep'
  BY <1>4 DEF IInv, InStep, Stored, Untouched
<1>10. Recorded'
  <2>1. ~Owns(Clock)
    BY DEF Owns, Owning
  <2> QED BY <1>3, <2>1 DEF IInv, Recorded, Untouched, Stored, WithinCap, Shown, Seen
<1>11. Swept'
  BY <1>1, Actors, AlikeSame, SweptKept
<1>12. Armed'
  BY <1>1, Actors, ArmedAside
<1> QED BY <1>2, <1>5, <1>6, <1>7, <1>8, <1>9, <1>10, <1>11, <1>12 DEF IInv

LEMMA ListKeeps == ASSUME IInv, List PROVE IInv'
<1>1. /\ job[Clock].pc = "listing" /\ Go(Clock, "advancing")
      /\ tick' = [NoTick EXCEPT !.list = [s \in Schedules |->
                                             IF Stored(s) THEN sched[s] ELSE NoSchedule("unborn")],
                                !.todo = Listed]
      /\ UNCHANGED <<now, sched, runs, index, exposed, alarm, fired, sleeps, edits, ops>>
  BY DEF List
<1>2. NoSchedule("unborn") \in ScheduleRecord
  BY DEF NoSchedule, ScheduleRecord, NoTime
<1>3. AnySchedule \in Schedules
  BY DEF AnySchedule
<1>4. tick' = [list |-> [s \in Schedules |-> IF Stored(s) THEN sched[s] ELSE NoSchedule("unborn")],
               todo |-> Listed, s |-> AnySchedule, missed |-> {}, due |-> NoTime]
  BY <1>1 DEF NoTick
<1>5. tick' \in TickType
  BY <1>2, <1>3, <1>4 DEF TickType, IInv, Typed, Listed
<1>6. PICK r \in JobRecord : job' = [job EXCEPT ![Clock] = r] /\ r.pc = "advancing"
  BY <1>1, GoTyped, Actors DEF IInv, Pcs
<1>7. /\ tick'.missed = {} /\ tick'.due = NoTime
      /\ \A s \in Schedules : tick'.list[s] = sched[s] \/ tick'.list[s] = NoSchedule("unborn")
  BY <1>4
<1> QED BY <1>1, <1>5, <1>6, <1>7, TickTurns

LEMMA NoTickTyped ==
    /\ NoTick \in TickType /\ NoTick.missed = {} /\ NoTick.due = NoTime
    /\ \A s \in Schedules : NoTick.list[s] = NoSchedule("unborn")
<1>1. NoSchedule("unborn") \in ScheduleRecord
  BY DEF NoSchedule, ScheduleRecord, NoTime
<1>2. AnySchedule \in Schedules
  BY DEF AnySchedule
<1> QED BY <1>1, <1>2 DEF NoTick, TickType

LEMMA AdvancedKeeps == ASSUME IInv, Advanced PROVE IInv'
<1>1. /\ job[Clock].pc = "advancing" /\ Go(Clock, "rearming") /\ tick' = NoTick
      /\ UNCHANGED <<now, sched, runs, index, exposed, alarm, fired, sleeps, edits, ops>>
  BY DEF Advanced
<1>2. PICK r \in JobRecord : job' = [job EXCEPT ![Clock] = r] /\ r.pc = "rearming"
  BY <1>1, GoTyped, Actors DEF IInv, Pcs, Rearming
<1> QED BY <1>1, <1>2, NoTickTyped, TickTurns

LEMMA TimePassesKeeps == ASSUME IInv, TimePasses PROVE IInv'
<1>1. /\ now < MaxNow /\ now' = now + 1
      /\ UNCHANGED <<sched, runs, index, exposed, alarm, job, tick, fired, sleeps, edits, ops>>
  BY DEF TimePasses
<1>2. now \in Nat /\ now' \in Times /\ now <= now' /\ edits <= edits' /\ sleeps <= sleeps'
  BY <1>1 DEF IInv, Typed, Times
<1>3. Typed'
  BY <1>1, <1>2 DEF IInv, Typed
<1>4. RecordsFit' /\ TickFits' /\ InStep'
  BY <1>1, <1>2, <1>3, AlikeSame, RecordsFitKept, TickFitsKept, InStepKept
<1>5. JobsFit'
  BY <1>1 DEF IInv, JobsFit, JobFits, Owns, RunOf, Seen
<1>6. Once'
  BY <1>1, <1>2, <1>3, AlikeSame, OnceKept DEF Coming, RunOf
<1>7. Recorded'
  BY <1>1, <1>2, <1>3, AlikeSame, RecordedKept DEF Owns, RunOf, Shown, Seen
<1>8. Swept'
  BY <1>1, AlikeSame, SweptKept
<1>9. Armed'
  <2>1. ASSUME NEW s \in Schedules, Covered(s) PROVE Covered(s)'
    <3>1. sched[s].nextRunAt \in Nat /\ alarm \in Nat
      BY DEF IInv, Typed, ScheduleRecord
    <3>2. alarm <= Later(sched[s].nextRunAt, now) => alarm <= Later(sched[s].nextRunAt, now')
      BY <1>1, <1>2, <3>1 DEF Later
    <3> QED BY <1>1, <2>1, <3>2 DEF Covered
  <2> QED BY <1>1, <2>1, AlikeSame, ArmedKept
<1> QED BY <1>3, <1>4, <1>5, <1>6, <1>7, <1>8, <1>9 DEF IInv

LEMMA AdvanceKeeps == ASSUME IInv, Advance PROVE IInv'
<1>1. /\ job[Clock].pc = "advancing"
      /\ UNCHANGED <<now, sched, runs, index, exposed, alarm, job, fired, sleeps, edits, ops>>
  BY DEF Advance
<1>2. PICK q \in tick.todo :
          tick' = [tick EXCEPT !.todo = @ \ {q}, !.s = q,
                               !.missed = occurrencesDue(tick.list[q], now).missed,
                               !.due = occurrencesDue(tick.list[q], now).due,
                               !.list[q] = NoSchedule("unborn")]
  BY DEF Advance
<1> DEFINE r == tick.list[q]
           v == occurrencesDue(r, now)
<1>3. tick \in TickType /\ q \in Schedules /\ r \in ScheduleRecord /\ Fits(r, now) /\ now \in Times
  BY DEF IInv, Typed, TickType, RecordsFit
<1>4. /\ v.missed \in SUBSET Times /\ v.due \in {NoTime} \cup Times
      /\ PendingOf(v) # {} => r.there = "stored" /\ r.enabled
      /\ v.due # NoTime => \A m \in v.missed : m < v.due
      /\ \A t \in PendingOf(v) : t <= now /\ t \in UNION Cadences
      /\ \A t \in PendingOf(v), at \in Nat : Spent(r, at) => at < t
      /\ /\ r.nextRunAt = nextOccurrence(r.cadence, r.lastClaimed)
         /\ Cardinality({t \in r.cadence : 1 < t /\ t <= now}) <= MaxEnumerated
         => \A x \in PendingOf(v), t \in r.cadence :
                r.lastClaimed < t /\ t < x => t \in PendingOf(v)
  BY <1>3, VerdictOf
<1>5. NoSchedule("unborn") \in ScheduleRecord /\ NoSchedule("unborn").there = "unborn"
      /\ ~NoSchedule("unborn").enabled
  BY DEF NoSchedule, ScheduleRecord, NoTime
<1> HIDE DEF v
<1>6. /\ tick' \in TickType /\ tick'.s = q /\ tick'.missed = v.missed /\ tick'.due = v.due
      /\ tick'.list[q] = NoSchedule("unborn")
      /\ \A s \in Schedules : s # q => tick'.list[s] = tick.list[s]
  <2>1. tick' = [list |-> [tick.list EXCEPT ![q] = NoSchedule("unborn")], todo |-> tick.todo \ {q},
                 s |-> q, missed |-> v.missed, due |-> v.due]
    BY <1>2, <1>3 DEF TickType, v
  <2>2. tick.list \in [Schedules -> ScheduleRecord] /\ tick.todo \in SUBSET Schedules
    BY <1>3 DEF TickType
  <2> QED BY <1>3, <1>4, <1>5, <2>1, <2>2 DEF TickType
<1>7. Pending' = PendingOf(v)
  BY <1>6 DEF Pending, PendingOf
<1>8. Typed'
  BY <1>1, <1>6 DEF IInv, Typed
<1>9. RecordsFit'
  <2>1. \A s \in Schedules : Fits(sched[s], now) /\ Fits(tick'.list[s], now)
    BY <1>5, <1>6 DEF IInv, RecordsFit, Fits
  <2> QED BY <1>1, <2>1 DEF IInv, RecordsFit, Fits, Stored
<1>10. TickFits'
  BY <1>1, <1>4, <1>5, <1>6, <1>7 DEF TickFits
<1>11. JobsFit'
  BY <1>1 DEF IInv, JobsFit, JobFits, Owns, RunOf, Seen
<1>12. Once'
  <2>1. SUFFICES ASSUME Calm PROVE \A s \in Schedules, at \in Times : OnceAt(s, at)'
    BY <1>1 DEF IInv, Once, Calm, NeverTwice, Coming, RunOf, ResumeFits
  <2>2. ASSUME NEW s \in Schedules, NEW at \in Times PROVE OnceAt(s, at)'
    <3>1. Begun(<<s, at>>)' => Begun(<<s, at>>)
      BY <1>1 DEF Begun, Coming, RunOf
    <3>2. OnceAt(s, at) /\ at \in Nat
      BY <2>1 DEF IInv, Once, Times
    <3>3. Spent(tick.list[s], at) => Spent(tick'.list[s], at)
      BY <1>5, <1>6 DEF Spent
    <3>4. Spent(tick.list[s], at) /\ tick'.s = s => \A t \in Pending' : at < t
      BY <1>4, <1>6, <1>7, <3>2
    <3> QED BY <1>1, <3>1, <3>2, <3>3, <3>4 DEF OnceAt, Spent
  <2> QED BY <2>2
<1>13. InStep'
  BY <1>1, <1>5, <1>6 DEF IInv, InStep, Stored, Untouched
<1>14. Recorded'
  <2>1. SUFFICES ASSUME Untouched, sleeps = 0, NEW s \in Schedules, Stored(s), WithinCap(s)
                 PROVE  tick'.s = s => \A x \in Pending' : \A t \in sched[s].cadence :
                            sched[s].lastClaimed < t /\ t < x => t \in Pending'
    BY <1>1 DEF IInv, Recorded, Untouched, Stored, WithinCap, Owns, RunOf, Shown, Seen
  <2>2. CASE Pending' = {}
    BY <2>2
  <2>3. CASE Pending' # {} /\ s = q
    <3>1. r.there = "stored"
      BY <1>4, <1>7, <2>3
    <3>2. /\ r.cadence = sched[s].cadence /\ r.nextRunAt = sched[s].nextRunAt
          /\ r.lastClaimed = sched[s].lastClaimed
          /\ sched[s].nextRunAt = nextOccurrence(sched[s].cadence, sched[s].lastClaimed)
      BY <2>1, <2>3, <3>1 DEF IInv, InStep
    <3>3. Cardinality({t \in r.cadence : 1 < t /\ t <= now}) <= MaxEnumerated
      BY <2>1, <3>2 DEF WithinCap
    <3> HIDE DEF r
    <3> QED BY <1>4, <1>7, <3>2, <3>3
  <2> QED BY <1>6, <2>2, <2>3
<1>15. Swept'
  BY <1>1 DEF IInv, Swept, Untouched, Stored
<1>16. Armed'
  BY <1>1 DEF IInv, Armed, Untouched, Stored, Covered
<1> QED BY <1>8, <1>9, <1>10, <1>11, <1>12, <1>13, <1>14, <1>15, <1>16 DEF IInv

\* What is pending gets less, and the schedule in hand stays in hand.
LessPending(at) ==
    /\ at \in Pending /\ \A t \in Pending : at <= t
    /\ tick' \in TickType /\ tick'.list = tick.list /\ tick'.s = tick.s
    /\ Pending' = Pending \ {at}
    /\ tick'.due # NoTime => \A m \in tick'.missed : m < tick'.due

LEMMA PendingTyped ==
    ASSUME IInv
    PROVE  Pending \subseteq Times /\ \A t \in Pending : t \in Nat /\ t # 0
BY DEF IInv, Typed, TickType, Pending, Times, NoTime

\* An occurrence that is not claimed any more is dropped.
LEMMA DroppedKeeps ==
    ASSUME IInv, NEW at, LessPending(at), job[Clock].pc = "advancing",
           Pending' = {} \/ ~claimable(tick.s, at),
           UNCHANGED <<now, sched, runs, index, exposed, alarm, job, fired, sleeps, edits, ops>>
    PROVE  IInv'
<1>1. Pending' \subseteq Pending /\ tick'.list = tick.list /\ tick'.s = tick.s /\ tick' \in TickType
  BY DEF LessPending
<1>2. Typed' /\ RecordsFit' /\ JobsFit' /\ InStep' /\ Swept' /\ Armed'
  BY <1>1 DEF IInv, Typed, RecordsFit, Fits, JobsFit, JobFits, Owns, RunOf, Seen, InStep,
              Untouched, Swept, Stored, Armed, Covered
<1>3. TickFits'
  BY <1>1 DEF IInv, TickFits, LessPending
<1>4. Once'
  <2>1. SUFFICES ASSUME Calm PROVE \A s \in Schedules, a \in Times : OnceAt(s, a)'
    BY DEF IInv, Once, Calm, NeverTwice, Coming, RunOf, ResumeFits
  <2>2. ASSUME NEW s \in Schedules, NEW a \in Times PROVE OnceAt(s, a)'
    <3>1. OnceAt(s, a)
      BY <2>1 DEF IInv, Once
    <3> QED BY <1>1, <3>1 DEF OnceAt, Begun, Coming, RunOf, Spent
  <2> QED BY <2>2
<1>5. Recorded'
  <2>1. SUFFICES ASSUME Untouched, sleeps = 0, NEW s \in Schedules, Stored(s), WithinCap(s),
                        tick.s = s, NEW x \in Pending', NEW t \in sched[s].cadence,
                        sched[s].lastClaimed < t, t < x
                 PROVE  t \in Pending'
    BY <1>1 DEF IInv, Recorded, Untouched, Stored, WithinCap, Owns, RunOf, Shown, Seen
  <2>2. t \in Pending
    BY <1>1, <2>1 DEF IInv, Recorded
  <2>3. t # at
    <3>1. at \in Nat /\ t \in Nat /\ sched[s].lastClaimed \in Nat
      BY <2>2, PendingTyped DEF LessPending, IInv, Typed, ScheduleRecord
    <3> QED BY <2>1, <3>1 DEF claimable
  <2> QED BY <2>2, <2>3 DEF LessPending
<1> QED BY <1>2, <1>3, <1>4, <1>5 DEF IInv

\* An occurrence is claimed, and its run is in the tick's hands.
LEMMA ClaimedKeeps ==
    ASSUME IInv, NEW at, LessPending(at), job[Clock].pc = "advancing",
           claimable(tick.s, at),
           sched' = [sched EXCEPT ![tick.s] = Claimed(@, at)],
           NEW r \in JobRecord, job' = [job EXCEPT ![Clock] = r], r.s = tick.s, r.at = at,
           \/ r.pc = "starting" /\ r.result = "missed"
           \/ r.pc = "checking" /\ sched[tick.s].enabled,
           UNCHANGED <<now, runs, index, exposed, alarm, fired, sleeps, edits, ops>>
    PROVE  IInv'
<1> DEFINE s == tick.s
           x == sched[s]
           n == nextOccurrence(x.cadence, at)
<1>1. /\ s \in Schedules /\ Stored(s) /\ at \in Times /\ at \in Nat /\ at # 0 /\ at <= now
      /\ at > x.lastClaimed /\ at \in UNION Cadences /\ tick.list[s].there # "stored"
      /\ now \in Times /\ now \in Nat
  BY PendingTyped DEF IInv, Typed, TickType, TickFits, LessPending, claimable, Times
<1>2. /\ x \in ScheduleRecord /\ x.cadence \in Cadences /\ x.lastClaimed \in Nat
      /\ x.lastClaimed # 0
      /\ x.there = "stored" /\ x.nextRunAt \in Nat /\ x.enabled \in BOOLEAN
  BY <1>1, CadenceAssumption DEF IInv, Typed, RecordsFit, Fits, Stored, ScheduleRecord
<1>3. n \in x.cadence /\ n > at /\ n \in Nat /\ \A u \in x.cadence : u > at => n <= u
  <2>1. at \in 0..MaxNow
    BY <1>1 DEF Times
  <2> DEFINE c == x.cadence
  <2>2. c \in Cadences
    BY <1>2
  <2> HIDE DEF c
  <2>3. LET m == nextOccurrence(c, at)
        IN  m \in c /\ m > at /\ m \in Nat /\ \A u \in c : u > at => m <= u
    BY <2>1, <2>2, NextOf
  <2> QED BY <2>3 DEF c
<1>4. /\ sched'[s] = [x EXCEPT !.lastClaimed = at, !.nextRunAt = n]
      /\ \A q \in Schedules : q # s => sched'[q] = sched[q]
  BY <1>1 DEF Claimed, IInv, Typed
<1> HIDE DEF n, x
<1>5. /\ sched'[s].there = "stored" /\ sched'[s].cadence = x.cadence
      /\ sched'[s].enabled = x.enabled
      /\ sched'[s].nextRunAt = n /\ sched'[s].lastClaimed = at
      /\ sched' \in [Schedules -> ScheduleRecord]
  <2> DEFINE y == [x EXCEPT !.lastClaimed = at, !.nextRunAt = n]
  <2>1. /\ y \in ScheduleRecord /\ y.there = x.there /\ y.cadence = x.cadence
        /\ y.enabled = x.enabled /\ y.nextRunAt = n /\ y.lastClaimed = at
    BY <1>1, <1>2, <1>3 DEF ScheduleRecord
  <2> HIDE DEF y
  <2>2. sched' \in [Schedules -> ScheduleRecord]
    BY <1>1, <1>4, <2>1 DEF IInv, Typed, y
  <2> QED BY <1>2, <1>4, <2>1, <2>2 DEF y
<1>6. job' \in [Jobs -> JobRecord] /\ job'[Clock] = r
      /\ \A k \in Jobs : k # Clock => job'[k] = job[k]
  BY Moved, Actors DEF IInv
<1>7. /\ \A q \in Schedules : sched'[q].there = sched[q].there
                               /\ sched'[q].cadence = sched[q].cadence
                               /\ sched'[q].enabled = sched[q].enabled
      /\ \A p \in Panel : job'[p] = job[p]
  BY <1>2, <1>4, <1>5, <1>6, Actors DEF x
<1>8. Typed'
  BY <1>5, <1>6 DEF IInv, Typed, LessPending
<1>9. RecordsFit'
  <2>1. \A q \in Schedules : Fits(sched'[q], now) /\ Fits(tick'.list[q], now)
    <3>1. Fits(sched'[s], now)
      BY <1>1, <1>2, <1>3, <1>5 DEF Fits
    <3> QED BY <1>4, <3>1 DEF IInv, RecordsFit, LessPending
  <2>2. \A k \in Jobs : job'[k].pc = "replacing" => job'[k] = job[k]
    BY <1>6
  <2>3. \A k \in Jobs : job[k].s \in Schedules
    BY DEF IInv, Typed, JobRecord
  <2> QED BY <1>7, <2>1, <2>2, <2>3 DEF IInv, RecordsFit, Fits, Stored
<1>10. TickFits'
  <2>1. Pending' \subseteq Pending /\ Pending # {} /\ tick'.list = tick.list /\ tick'.s = tick.s
    BY DEF LessPending
  <2> QED BY <2>1 DEF IInv, TickFits, LessPending
<1>11. JobsFit'
  <2>1. r.pc \in PcsOf(Clock) /\ r.pc \in Executing
        /\ r.pc \notin {"settling", "closing", "noting", "storing"}
    BY Actors DEF PcsOf, Executing
  <2>2. \A k \in Jobs : k # Clock /\ Owns(k) => RunOf(k) # <<r.s, r.at>>
    BY <1>1 DEF IInv, JobsFit, JobFits, RunOf
  <2>3. \A k \in Jobs : StaysUnseen(k)
    BY RunsSame
  <2> QED BY <1>1, <2>1, <2>2, <2>3, Actors, JobsFitKept
<1>12. Once'
  <2>1. SUFFICES ASSUME Calm
                 PROVE  /\ (Coming' => fired'[RunOf(Clock)'] = 0)
                        /\ \A q \in Schedules, a \in Times : OnceAt(q, a)'
                        /\ \A p \in Panel : ResumeFits(p)'
    BY DEF IInv, Once, Calm, NeverTwice
  <2>2. Coming' => r.pc = "checking" /\ x.enabled /\ RunOf(Clock)' = <<s, at>>
    BY <1>6 DEF Coming, RunOf, x
  <2>3. ~Coming /\ RunOf(Clock)' = <<s, at>>
    BY <1>6 DEF Coming, RunOf
  <2>4. fired[<<s, at>>] = 0
    <3>1. OnceAt(s, at)
      BY <1>1, <2>1 DEF IInv, Once
    <3>2. at \in Pending
      BY DEF LessPending
    <3> QED BY <1>1, <3>1, <3>2 DEF OnceAt, Begun
  <2>5. ASSUME NEW q \in Schedules, NEW a \in Times, Begun(<<q, a>>)'
        PROVE  /\ a <= now'
               /\ Spent(sched[q], a)' /\ Spent(tick.list[q], a)'
               /\ tick'.s = q => \A t \in Pending' : a < t
               /\ \A p \in Panel : job'[p].pc = "replacing" /\ job'[p].s = q =>
                      Spent(job[p].copy, a)'
    <3>1. CASE fired[<<q, a>>] # 0
      <4>1. OnceAt(q, a) /\ Begun(<<q, a>>)
        BY <2>1, <3>1 DEF IInv, Once, Begun
      <4>2. /\ a <= now
            /\ Spent(sched[q], a) /\ Spent(tick.list[q], a)
            /\ tick.s = q => \A t \in Pending : a < t
            /\ \A p \in Panel : job[p].pc = "replacing" /\ job[p].s = q => Spent(job[p].copy, a)
        BY <4>1 DEF OnceAt
      <4>3. Spent(sched'[q], a)
        <5>1. CASE q = s
          <6>1. a < at /\ a \in Nat
            BY <4>2, <5>1 DEF LessPending, Times
          <6> QED BY <1>1, <1>5, <5>1, <6>1 DEF Spent
        <5>2. CASE q # s
          BY <1>4, <4>2, <5>2
        <5> QED BY <5>1, <5>2
      <4> QED BY <1>7, <4>2, <4>3 DEF LessPending, Spent
    <3>2. CASE fired[<<q, a>>] = 0
      <4>1. q = s /\ a = at /\ x.enabled
        BY <2>2, <2>5, <3>2 DEF Begun
      <4>2. Spent(sched'[q], a)
        BY <1>1, <1>5, <4>1 DEF Spent
      <4>3. Spent(tick'.list[q], a)
        BY <1>1, <4>1 DEF Spent, LessPending
      <4>4. \A t \in Pending' : a < t
        <5>1. \A t \in Pending' : t # at /\ at <= t /\ t \in Nat
          BY PendingTyped DEF LessPending
        <5> QED BY <1>1, <4>1, <5>1
      <4>5. ASSUME NEW p \in Panel, job'[p].pc = "replacing", job'[p].s = q
            PROVE  Spent(job'[p].copy, a)
        <5>1. ResumeFits(p)
          BY <2>1 DEF IInv, Once
        <5> QED BY <1>7, <4>1, <4>5, <5>1 DEF ResumeFits, Spent, x
      <4> QED BY <1>1, <4>1, <4>2, <4>3, <4>4, <4>5 DEF Spent
    <3> QED BY <3>1, <3>2
  <2>6. ASSUME NEW p \in Panel PROVE ResumeFits(p)'
    <3>1. ResumeFits(p) /\ job[p].s \in Schedules
      BY <2>1, Actors DEF IInv, Once, Typed, JobRecord
    <3> QED BY <1>7, <3>1 DEF ResumeFits
  <2> QED BY <2>2, <2>4, <2>5, <2>6 DEF OnceAt
<1>13. InStep'
  <2>1. ASSUME Untouched, NEW q \in Schedules, Stored(q)'
        PROVE  /\ sched'[q].nextRunAt = nextOccurrence(sched'[q].cadence, sched'[q].lastClaimed)
               /\ tick'.list[q].there = "stored" =>
                      /\ tick'.list[q].cadence = sched'[q].cadence
                      /\ tick'.list[q].nextRunAt = sched'[q].nextRunAt
                      /\ tick'.list[q].lastClaimed = sched'[q].lastClaimed
    <3>1. tick'.list = tick.list
      BY DEF LessPending
    <3>2. CASE q = s
      BY <1>1, <1>5, <3>1, <3>2 DEF n
    <3>3. CASE q # s
      BY <1>4, <2>1, <3>1, <3>3 DEF IInv, InStep, Stored
    <3> QED BY <3>2, <3>3
  <2> QED BY <2>1 DEF InStep, Untouched
<1>14. Recorded'
  <2>1. SUFFICES ASSUME Untouched, sleeps = 0, NEW q \in Schedules, Stored(q), WithinCap(q)
                 PROVE  /\ \A a \in Times :
                             a \in sched'[q].cadence /\ 1 < a /\ a <= sched'[q].lastClaimed =>
                                 Shown(<<q, a>>) \/ (Owns(Clock)' /\ RunOf(Clock)' = <<q, a>>)
                        /\ tick'.s = q => \A y \in Pending' : \A t \in sched'[q].cadence :
                                             sched'[q].lastClaimed < t /\ t < y => t \in Pending'
    <3>1. \A id \in RunIds : Shown(id) => Shown(id)'
      BY RunsSame DEF StaysShown
    <3> QED BY <1>7, <3>1 DEF Recorded, Untouched, Stored, WithinCap, RunIds
  <2>2. Owns(Clock)' /\ ~Owns(Clock) /\ RunOf(Clock)' = <<s, at>>
    BY <1>6 DEF Owns, Owning, RunOf
  <2>3. /\ \A a \in Times :
             a \in sched[q].cadence /\ 1 < a /\ a <= sched[q].lastClaimed => Shown(<<q, a>>)
        /\ tick.s = q => \A y \in Pending : \A t \in sched[q].cadence :
                             sched[q].lastClaimed < t /\ t < y => t \in Pending
    BY <2>1, <2>2 DEF IInv, Recorded
  <2>4. CASE q # s
    BY <1>4, <2>3, <2>4 DEF LessPending
  <2>5. CASE q = s
    <3>1. ASSUME NEW a \in Times, a \in x.cadence, 1 < a, a <= at
          PROVE  Shown(<<q, a>>) \/ (Owns(Clock)' /\ RunOf(Clock)' = <<q, a>>)
      <4>1. a \in Nat
        BY DEF Times
      <4>2. CASE a <= x.lastClaimed
        BY <2>3, <2>5, <3>1, <4>2 DEF x
      <4>3. CASE a = at
        BY <2>2, <2>5, <4>3
      <4>4. CASE x.lastClaimed < a /\ a < at
        <5>1. a \in Pending
          BY <2>3, <2>5, <3>1, <4>4 DEF LessPending, x
        <5> QED BY <1>1, <4>1, <4>4, <5>1 DEF LessPending
      <4> QED BY <1>1, <1>2, <3>1, <4>1, <4>2, <4>3, <4>4
    <3>2. ASSUME NEW y \in Pending', NEW t \in x.cadence, at < t, t < y PROVE t \in Pending'
      <4>1. t \in Nat
        BY <1>2, CadenceAssumption
      <4>2. x.lastClaimed < t /\ t # at /\ y \in Pending
        BY <1>1, <1>2, <3>2, <4>1 DEF LessPending
      <4>3. t \in Pending
        BY <2>3, <2>5, <3>2, <4>2 DEF x
      <4> QED BY <4>2, <4>3 DEF LessPending
    <3> QED BY <1>5, <2>5, <3>1, <3>2
  <2> QED BY <2>4, <2>5
<1>15. Swept'
  <2>1. \A p \in Panel : job[p].s \in Schedules
    BY Actors DEF IInv, Typed, JobRecord
  <2> QED BY <1>7, <2>1 DEF IInv, Swept, Untouched, Stored
<1>16. Armed'
  <2>1. ASSUME Untouched, NEW q \in Schedules, Stored(q)', sched'[q].enabled,
               NEW k \in Jobs, job'[k].pc \in {"clearing", "arming"}
        PROVE  job'[k].at # NoTime /\ job'[k].at <= sched'[q].nextRunAt
    <3>1. k # Clock /\ job'[k] = job[k]
      BY <1>6, <2>1
    <3>2. job[k].at # NoTime /\ job[k].at <= sched[q].nextRunAt /\ job[k].at \in Nat
      BY <1>7, <2>1, <3>1 DEF IInv, Armed, Stored, Typed, JobRecord
    <3>3. CASE q = s
      <4>1. x.nextRunAt = nextOccurrence(x.cadence, x.lastClaimed)
        BY <1>1, <2>1 DEF IInv, InStep, x
      <4>2. \A u \in x.cadence : u > x.lastClaimed => x.nextRunAt <= u
        <5>1. x.lastClaimed \in 0..MaxNow
          BY <1>1, <1>2 DEF Times
        <5> QED BY <1>2, <4>1, <5>1, NextOf
      <4>3. x.nextRunAt <= n
        BY <1>1, <1>2, <1>3, <4>2
      <4> QED BY <1>2, <1>3, <1>5, <3>1, <3>2, <3>3, <4>3 DEF x
    <3>4. CASE q # s
      BY <1>4, <3>1, <3>2, <3>4
    <3> QED BY <3>3, <3>4
  <2>2. \A q \in Schedules : Covered(q)'
    BY <1>6 DEF Covered
  <2> QED BY <2>1, <2>2 DEF Armed, Untouched
<1> QED BY <1>8, <1>9, <1>10, <1>11, <1>12, <1>13, <1>14, <1>15, <1>16 DEF IInv

LEMMA SkipKeeps == ASSUME IInv, Skip PROVE IInv'
<1> DEFINE s  == tick.s
           at == Least(tick.missed)
           r  == [At("starting") EXCEPT !.s = s, !.at = at, !.result = "missed"]
<1>1. /\ job[Clock].pc = "advancing" /\ tick.missed # {}
      /\ tick' = [tick EXCEPT !.missed = @ \ {at}]
      /\ UNCHANGED <<now, runs, index, exposed, alarm, fired, sleeps, edits, ops>>
  BY DEF Skip
<1>2. \/ /\ claimable(s, at) /\ sched' = [sched EXCEPT ![s] = Claimed(@, at)]
         /\ job' = [job EXCEPT ![Clock] = r]
      \/ ~claimable(s, at) /\ UNCHANGED <<sched, job>>
  BY DEF Skip
<1>3. /\ tick \in TickType /\ tick.missed \in SUBSET Nat /\ tick.missed \subseteq Times
      /\ tick.due \in {NoTime} \cup Times
      /\ tick.due # NoTime => \A m \in tick.missed : m < tick.due
  BY DEF IInv, Typed, TickType, TickFits, Times
<1>4. at \in tick.missed /\ \A t \in tick.missed : at <= t
  BY <1>1, <1>3, LeastOf
<1> HIDE DEF at
<1>5. LessPending(at)
  <2>1. at \in Nat /\ at # NoTime /\ tick.due \in Nat
    BY <1>3, <1>4 DEF Times, NoTime
  <2>2. /\ tick' \in TickType /\ tick'.list = tick.list /\ tick'.s = tick.s
        /\ tick'.missed = tick.missed \ {at} /\ tick'.due = tick.due
    BY <1>1, <1>3 DEF TickType
  <2>3. tick.due # NoTime => at < tick.due
    BY <1>3, <1>4
  <2>4. at \in Pending /\ \A t \in Pending : at <= t
    BY <1>4, <2>1, <2>3 DEF Pending
  <2>5. Pending' = Pending \ {at}
    BY <2>1, <2>2, <2>3 DEF Pending
  <2> QED BY <1>3, <2>2, <2>4, <2>5 DEF LessPending
<1>6. r \in JobRecord /\ r.pc = "starting" /\ r.s = s /\ r.at = at /\ r.result = "missed"
  <2>1. At("starting") \in JobRecord /\ At("starting").pc = "starting"
    BY AtTyped DEF Pcs, Executing
  <2>2. s \in Schedules /\ at \in Nat
    BY <1>3, <1>4 DEF TickType
  <2> QED BY <2>1, <2>2 DEF JobRecord, Ended
<1> HIDE DEF r
<1> QED BY <1>1, <1>2, <1>5, <1>6, DroppedKeeps, ClaimedKeeps

LEMMA FireKeeps == ASSUME IInv, Fire PROVE IInv'
<1> DEFINE s  == tick.s
           at == tick.due
           r  == [At("checking") EXCEPT !.s = s, !.at = at]
<1>1. /\ job[Clock].pc = "advancing" /\ tick.missed = {} /\ at # NoTime
      /\ tick' = [tick EXCEPT !.due = NoTime]
      /\ UNCHANGED <<now, runs, index, exposed, alarm, fired, sleeps, edits, ops>>
  BY DEF Fire
<1>2. \/ /\ claimable(s, at) /\ sched[s].enabled
         /\ sched' = [sched EXCEPT ![s] = Claimed(@, at)] /\ job' = [job EXCEPT ![Clock] = r]
      \/ UNCHANGED <<sched, job>>
  BY DEF Fire
<1>3. tick \in TickType /\ at \in Times /\ at \in Nat
  BY <1>1 DEF IInv, Typed, TickType, Times
<1>4. /\ tick' \in TickType /\ tick'.list = tick.list /\ tick'.s = tick.s
      /\ tick'.missed = {} /\ tick'.due = NoTime
  BY <1>1, <1>3 DEF TickType
<1>5. Pending = {at} /\ Pending' = {}
  BY <1>1, <1>4 DEF Pending
<1> HIDE DEF at
<1>6. LessPending(at)
  BY <1>3, <1>4, <1>5 DEF LessPending
<1>7. r \in JobRecord /\ r.pc = "checking" /\ r.s = s /\ r.at = at
  <2>1. At("checking") \in JobRecord /\ At("checking").pc = "checking"
    BY AtTyped DEF Pcs, Executing
  <2>2. s \in Schedules
    BY <1>3 DEF TickType
  <2> QED BY <1>3, <2>1, <2>2 DEF JobRecord
<1> HIDE DEF r
<1> QED BY <1>1, <1>2, <1>5, <1>6, <1>7, DroppedKeeps, ClaimedKeeps

LEMMA TickStepKeeps == ASSUME IInv, TickStep PROVE IInv'
BY ListKeeps, AdvanceKeeps, SkipKeeps, FireKeeps, AdvancedKeeps DEF TickStep

-----------------------------------------------------------------------------
(* The panel's requests that write a schedule. *)

\* A record that is counted from now, or from the last claim, is one the store could have written.
LEMMA CountedFrom ==
    ASSUME IInv, NEW c \in Cadences, NEW last \in 1..now
    PROVE  /\ nextOccurrence(c, Later(now, last)) \in c
           /\ nextOccurrence(c, Later(now, last)) \in Nat
           /\ nextOccurrence(c, Later(now, last)) > now
<1>1. now \in Nat /\ now <= MaxNow
  BY DEF IInv, Typed, Times
<1>2. Later(now, last) = now
  BY <1>1 DEF Later
<1>3. now \in 0..MaxNow
  BY <1>1
<1> QED BY <1>2, <1>3, NextOf

\* A request writes one schedule, and goes on to the runs or to the alarm.
LEMMA PanelWrites ==
    ASSUME IInv, NEW p \in Panel, job[p].pc \in {"idle", "replacing"},
           NEW r \in JobRecord, r.pc \in {"rearming", "removing"}, job' = [job EXCEPT ![p] = r],
           NEW s \in Schedules, NEW x \in ScheduleRecord, Fits(x, now),
           sched' = [sched EXCEPT ![s] = x],
           \A at \in Times : Calm /\ Begun(<<s, at>>) /\ OnceAt(s, at) => Spent(x, at),
           UNCHANGED <<now, runs, index, exposed, alarm, tick, fired, sleeps, edits, ops>>
    PROVE  Typed' /\ RecordsFit' /\ TickFits' /\ JobsFit' /\ Once'
<1>1. job' \in [Jobs -> JobRecord] /\ job'[p] = r /\ \A k \in Jobs : k # p => job'[k] = job[k]
  BY Moved, Actors DEF IInv
<1>2. /\ sched' \in [Schedules -> ScheduleRecord] /\ sched'[s] = x
      /\ \A q \in Schedules : q # s => sched'[q] = sched[q]
  BY DEF IInv, Typed
<1>3. Typed'
  BY <1>1, <1>2 DEF IInv, Typed
<1>4. ASSUME NEW k \in Jobs, job'[k].pc = "replacing"
      PROVE  k # p /\ job'[k] = job[k] /\ k \in Panel /\ ~OneRequest /\ ~Calm
  <2>1. k # p /\ job'[k] = job[k]
    BY <1>1, <1>4
  <2>2. k \in Panel
    BY <1>4, <2>1, Actors DEF IInv, JobsFit, JobFits, PcsOf, Executing, Rearming
  <2>3. ~OneRequest
    BY <2>1, <2>2 DEF OneRequest
  <2>4. edits # 0 \/ "setEnabled" \in ops
    BY <1>4, <2>1 DEF IInv, RecordsFit
  <2> QED BY <2>1, <2>2, <2>3, <2>4 DEF Calm
<1>5. RecordsFit'
  <2>1. \A q \in Schedules : Fits(sched'[q], now) /\ Fits(tick.list[q], now)
    BY <1>2 DEF IInv, RecordsFit
  <2>2. OneRequest' <=> OneRequest
    BY DEF OneRequest
  <2> QED BY <1>4, <2>1, <2>2 DEF IInv, RecordsFit, Fits
<1>6. TickFits'
  BY DEF IInv, TickFits, Pending
<1>7. JobsFit'
  <2>1. r.pc \in PcsOf(p) /\ r.pc \notin Owning /\ r.pc \notin Executing
    BY Actors DEF PcsOf, Owning, Executing, Rearming
  <2>2. \A k \in Jobs : StaysUnseen(k)
    BY RunsSame
  <2> QED BY <2>1, <2>2, Actors, JobsFitKept DEF Owning, Executing
<1>8. Once'
  <2>1. SUFFICES ASSUME Calm
                 PROVE  /\ (Coming' => fired[RunOf(Clock)'] = 0)
                        /\ \A q \in Schedules, at \in Times : OnceAt(q, at)'
                        /\ \A k \in Panel : ResumeFits(k)'
    BY DEF IInv, Once, Calm, NeverTwice, OneRequest
  <2>2. job'[Clock] = job[Clock]
    BY <1>1, Actors
  <2>3. Coming' => fired[RunOf(Clock)'] = 0
    BY <2>1, <2>2 DEF IInv, Once, Coming, RunOf
  <2>4. ASSUME NEW q \in Schedules, NEW at \in Times PROVE OnceAt(q, at)'
    <3>1. Begun(<<q, at>>)' => Begun(<<q, at>>)
      BY <2>2 DEF Begun, Coming, RunOf
    <3>2. OnceAt(q, at)
      BY <2>1 DEF IInv, Once
    <3>3. Begun(<<q, at>>) => Spent(sched'[q], at)
      BY <1>2, <2>1, <3>2 DEF OnceAt
    <3>4. \A k \in Panel : job'[k].pc # "replacing"
      BY <1>4, <2>1, Actors
    <3> QED BY <3>1, <3>2, <3>3, <3>4 DEF OnceAt, Pending, Spent
  <2>5. \A k \in Panel : ResumeFits(k)'
    BY <1>4, <2>1, Actors DEF ResumeFits
  <2> QED BY <2>3, <2>4, <2>5
<1> QED BY <1>3, <1>5, <1>6, <1>7, <1>8

\* Once schedules are moved, only the records' shape and the single start are at stake.
LEMMA MovedLater ==
    ASSUME ~Untouched',
           \A p \in Panel : job'[p].pc \in {"sweeping", "deleting"} =>
               \A id \in job'[p].left : id[1] = job'[p].s
    PROVE  InStep' /\ Recorded' /\ Swept' /\ Armed'
BY DEF InStep, Recorded, Swept, Armed

LEMMA CreateKeeps == ASSUME IInv, NEW p \in Panel, Create(p) PROVE IInv'
<1>1. /\ "create" \in ops /\ job[p].pc = "idle" /\ Go(p, "rearming")
      /\ UNCHANGED <<now, runs, index, exposed, alarm, tick, fired, sleeps, edits, ops>>
  BY DEF Create, Begins
<1>2. PICK s \in Schedules, c \in Cadences : sched' = [sched EXCEPT ![s] = NewSchedule(c, now)]
  BY DEF Create
<1> DEFINE x == NewSchedule(c, now)
<1>3. now \in 1..now /\ now \in Nat
  BY DEF IInv, Typed, Times
<1>4. nextOccurrence(c, now) \in c /\ nextOccurrence(c, now) \in Nat
  BY <1>3, CountedFrom DEF Later
<1>5. x \in ScheduleRecord /\ x.there = "stored" /\ x.lastClaimed = now /\ Fits(x, now)
  BY <1>3, <1>4 DEF NewSchedule, ScheduleRecord, Fits
<1>6. \A at \in Times : Begun(<<s, at>>) /\ OnceAt(s, at) => Spent(x, at)
  BY <1>5 DEF OnceAt, Spent
<1> HIDE DEF x
<1>7. PICK r \in JobRecord : job' = [job EXCEPT ![p] = r] /\ r.pc = "rearming"
  BY <1>1, GoTyped, Actors DEF IInv, Pcs, Rearming
<1>8. Typed' /\ RecordsFit' /\ TickFits' /\ JobsFit' /\ Once'
  BY <1>1, <1>2, <1>5, <1>6, <1>7, PanelWrites DEF x
<1>9. job'[p] = r /\ \A k \in Jobs : k # p => job'[k] = job[k]
  BY <1>7, Moved, Actors DEF IInv
<1>10. InStep' /\ Recorded' /\ Swept' /\ Armed'
  <2>1. ~Untouched'
    BY <1>1 DEF Untouched, Moving
  <2>2. \A k \in Panel : job'[k].pc \in {"sweeping", "deleting"} =>
            \A id \in job'[k].left : id[1] = job'[k].s
    BY <1>7, <1>9, Actors DEF IInv, Swept
  <2> QED BY <2>1, <2>2, MovedLater
<1> QED BY <1>8, <1>10 DEF IInv

LEMMA ReplaceKeeps == ASSUME IInv, NEW p \in Panel, Replace(p) PROVE IInv'
<1> DEFINE s == job[p].s
           x == job[p].copy
           r == At("rearming")
<1>1. /\ job[p].pc = "replacing" /\ sched' = [sched EXCEPT ![s] = x] /\ job' = [job EXCEPT ![p] = r]
      /\ UNCHANGED <<now, runs, index, exposed, alarm, tick, fired, sleeps, edits, ops>>
  BY DEF Replace
<1>2. s \in Schedules /\ x \in ScheduleRecord
  BY Actors DEF IInv, Typed, JobRecord
<1>3. Fits(x, now) /\ ops \cap Replacing # {}
  BY <1>1, Actors DEF IInv, RecordsFit
<1>4. \A at \in Times : Begun(<<s, at>>) /\ OnceAt(s, at) => Spent(x, at)
  BY <1>1 DEF OnceAt
<1>5. r \in JobRecord /\ r.pc = "rearming"
  BY AtTyped DEF Pcs, Rearming
<1> HIDE DEF x, s, r
<1>6. Typed' /\ RecordsFit' /\ TickFits' /\ JobsFit' /\ Once'
  BY <1>1, <1>2, <1>3, <1>4, <1>5, PanelWrites
<1>7. job'[p] = r /\ \A k \in Jobs : k # p => job'[k] = job[k]
  BY <1>1, <1>5, Moved, Actors DEF IInv
<1>8. InStep' /\ Recorded' /\ Swept' /\ Armed'
  <2>1. ~Untouched'
    BY <1>1, <1>3 DEF Untouched, Moving, Replacing
  <2>2. \A k \in Panel : job'[k].pc \in {"sweeping", "deleting"} =>
            \A id \in job'[k].left : id[1] = job'[k].s
    BY <1>5, <1>7, Actors DEF IInv, Swept
  <2> QED BY <2>1, <2>2, MovedLater
<1> QED BY <1>6, <1>8 DEF IInv

LEMMA RemoveKeeps == ASSUME IInv, NEW p \in Panel, Remove(p) PROVE IInv'
<1>1. /\ job[p].pc = "idle"
      /\ UNCHANGED <<now, runs, index, exposed, alarm, tick, fired, sleeps, edits, ops>>
  BY DEF Remove, Begins
<1> DEFINE x == NoSchedule("gone")
<1>2. PICK s \in Schedules : /\ sched' = [sched EXCEPT ![s] = x]
                             /\ job' = [job EXCEPT ![p] = [At("removing") EXCEPT !.s = s]]
  BY DEF Remove, Listed
<1> DEFINE r == [At("removing") EXCEPT !.s = s]
<1>3. x \in ScheduleRecord /\ x.there = "gone" /\ ~x.enabled
  BY DEF NoSchedule, ScheduleRecord, NoTime
<1>4. Fits(x, now) /\ \A at \in Times : Spent(x, at)
  BY <1>3 DEF Fits, Spent
<1>5. r \in JobRecord /\ r.pc = "removing" /\ r.s = s
  <2>1. At("removing") \in JobRecord /\ At("removing").pc = "removing"
    BY AtTyped DEF Pcs
  <2> QED BY <2>1 DEF JobRecord
<1> HIDE DEF x, r
<1>6. Typed' /\ RecordsFit' /\ TickFits' /\ JobsFit' /\ Once'
  BY <1>1, <1>2, <1>3, <1>4, <1>5, PanelWrites DEF r
<1>7. job'[p] = r /\ \A k \in Jobs : k # p => job'[k] = job[k]
  BY <1>2, <1>5, Moved, Actors DEF IInv, r
<1>8. /\ sched'[s] = x /\ \A q \in Schedules : q # s => sched'[q] = sched[q]
      /\ ~Stored(s)'
  BY <1>2, <1>3 DEF IInv, Typed, Stored
<1>9. \A q \in Schedules : Stored(q)' => q # s /\ Stored(q) /\ sched'[q] = sched[q]
  BY <1>8 DEF Stored
<1>10. InStep'
  BY <1>1, <1>9 DEF IInv, InStep, Untouched
<1>11. Recorded'
  <2>1. job'[Clock] = job[Clock]
    BY <1>7, Actors
  <2> QED BY <1>1, <1>9, <2>1 DEF IInv, Recorded, Untouched, WithinCap, Owns, RunOf, Pending,
                                     Shown, Seen
<1>12. Swept'
  <2>1. \A k \in Panel : job[k].s \in Schedules
    BY Actors DEF IInv, Typed, JobRecord
  <2> QED BY <1>1, <1>5, <1>7, <1>8, <1>9, <2>1, Actors DEF IInv, Swept, Untouched
<1>13. Armed'
  <2>1. ASSUME Untouched, NEW q \in Schedules, Stored(q)', sched'[q].enabled
        PROVE  /\ Covered(q)'
               /\ \A k \in Jobs : job'[k].pc \in {"clearing", "arming"} =>
                      job'[k].at # NoTime /\ job'[k].at <= sched'[q].nextRunAt
    <3>1. Stored(q) /\ sched'[q] = sched[q]
      BY <1>9, <2>1
    <3>2. /\ Covered(q)
          /\ \A k \in Jobs : job[k].pc \in {"clearing", "arming"} =>
                 job[k].at # NoTime /\ job[k].at <= sched[q].nextRunAt
      BY <2>1, <3>1 DEF IInv, Armed
    <3>3. Covered(q)'
      BY <1>1, <1>7, <3>1, <3>2, Actors DEF Covered
    <3> QED BY <1>5, <1>7, <3>1, <3>2, <3>3
  <2> QED BY <1>1, <2>1 DEF Armed, Untouched
<1> QED BY <1>6, <1>10, <1>11, <1>12, <1>13 DEF IInv

\* A request has read a schedule and is about to write it back whole.
LEMMA PanelReads ==
    ASSUME IInv, NEW p \in Panel, job[p].pc = "idle",
           NEW r \in JobRecord, r.pc = "replacing", job' = [job EXCEPT ![p] = r],
           Stored(r.s), r.copy.there = "stored", Fits(r.copy, now),
           edits' \in Nat, edits <= edits', edits' # 0 \/ "setEnabled" \in ops,
           ops \cap Replacing # {},
           edits' = 0 => /\ \A at \in Times : at <= now => Spent(r.copy, at) \/ ~Begun(<<r.s, at>>)
                         /\ r.copy.enabled => ~sched[r.s].enabled,
           UNCHANGED <<now, sched, runs, index, exposed, alarm, tick, fired, sleeps, ops>>
    PROVE  IInv'
<1>1. job' \in [Jobs -> JobRecord] /\ job'[p] = r /\ \A k \in Jobs : k # p => job'[k] = job[k]
  BY Moved, Actors DEF IInv
<1>2. Typed'
  BY <1>1 DEF IInv, Typed
<1>3. RecordsFit'
  <2>1. edits # 0 => edits' # 0
    BY DEF IInv, Typed
  <2>2. \A q \in Schedules : Fits(sched[q], now) /\ Fits(tick.list[q], now)
    BY DEF IInv, RecordsFit
  <2>3. ASSUME NEW k \in Jobs, job'[k].pc = "replacing"
        PROVE  /\ Fits(job'[k].copy, now) /\ job'[k].copy.there = "stored"
               /\ edits' # 0 \/ "setEnabled" \in ops
               /\ OneRequest => Stored(job'[k].s)
    <3>1. CASE k = p
      BY <1>1, <3>1
    <3>2. CASE k # p
      BY <1>1, <2>1, <2>3, <3>2 DEF IInv, RecordsFit
    <3> QED BY <3>1, <3>2
  <2> QED BY <2>2, <2>3 DEF RecordsFit, Fits, Stored, OneRequest
<1>4. TickFits'
  BY DEF IInv, TickFits, Pending
<1>5. JobsFit'
  <2>1. r.pc \in PcsOf(p) /\ r.pc \notin Owning /\ r.pc \notin Executing
    BY Actors DEF PcsOf, Owning, Executing
  <2>2. \A k \in Jobs : StaysUnseen(k)
    BY RunsSame
  <2> QED BY <2>1, <2>2, Actors, JobsFitKept DEF Owning, Executing
<1>6. Once'
  <2>1. SUFFICES ASSUME Calm, edits' = 0
                 PROVE  /\ (Coming' => fired[RunOf(Clock)'] = 0)
                        /\ \A q \in Schedules, at \in Times : OnceAt(q, at)'
                        /\ \A k \in Panel : ResumeFits(k)'
    BY DEF IInv, Typed, Once, Calm, NeverTwice, OneRequest
  <2>2. job'[Clock] = job[Clock]
    BY <1>1, Actors
  <2>3. Coming' => fired[RunOf(Clock)'] = 0
    BY <2>1, <2>2 DEF IInv, Once, Coming, RunOf
  <2>4. ASSUME NEW q \in Schedules, NEW at \in Times PROVE OnceAt(q, at)'
    <3>1. Begun(<<q, at>>)' => Begun(<<q, at>>)
      BY <2>2 DEF Begun, Coming, RunOf
    <3>2. OnceAt(q, at)
      BY <2>1 DEF IInv, Once
    <3>3. Begun(<<q, at>>) => \A k \in Panel : job'[k].pc = "replacing" /\ job'[k].s = q
                                                 => Spent(job'[k].copy, at)
      BY <1>1, <2>1, <3>2, Actors DEF OnceAt
    <3> QED BY <3>1, <3>2, <3>3 DEF OnceAt, Pending, Spent
  <2>5. \A k \in Panel : ResumeFits(k)'
    <3>1. \A k \in Panel : ResumeFits(k)
      BY <2>1 DEF IInv, Once
    <3> QED BY <1>1, <2>1, <3>1, Actors DEF ResumeFits
  <2> QED BY <2>3, <2>4, <2>5
<1>7. InStep' /\ Recorded' /\ Swept' /\ Armed'
  <2>1. ~Untouched'
    BY DEF Untouched, Moving, Replacing
  <2>2. \A k \in Panel : job'[k].pc \in {"sweeping", "deleting"} =>
            \A id \in job'[k].left : id[1] = job'[k].s
    BY <1>1, Actors DEF IInv, Swept
  <2> QED BY <2>1, <2>2, MovedLater
<1> QED BY <1>2, <1>3, <1>4, <1>5, <1>6, <1>7 DEF IInv

\* The job that holds a copy to write back.
LEMMA Copying ==
    ASSUME NEW s \in Schedules, NEW x \in ScheduleRecord
    PROVE  LET r == [At("replacing") EXCEPT !.s = s, !.copy = x]
           IN  r \in JobRecord /\ r.pc = "replacing" /\ r.s = s /\ r.copy = x
<1>1. At("replacing") \in JobRecord /\ At("replacing").pc = "replacing"
  BY AtTyped DEF Pcs
<1> QED BY <1>1 DEF JobRecord

LEMMA StoredFacts ==
    ASSUME IInv, NEW s \in Listed
    PROVE  /\ s \in Schedules /\ sched[s] \in ScheduleRecord /\ Fits(sched[s], now)
           /\ sched[s].there = "stored" /\ sched[s].cadence \in Cadences
           /\ sched[s].lastClaimed \in 1..now /\ sched[s].enabled \in BOOLEAN
BY DEF IInv, Typed, RecordsFit, Fits, Listed, Stored, ScheduleRecord

LEMMA EditKeeps == ASSUME IInv, NEW p \in Panel, Edit(p) PROVE IInv'
<1>1. /\ "edit" \in ops /\ job[p].pc = "idle" /\ edits' = edits + 1
      /\ UNCHANGED <<now, sched, runs, index, exposed, alarm, tick, fired, sleeps, ops>>
  BY DEF Edit, Begins
<1>2. PICK s \in Listed :
          \E x \in {sched[s]} \cup {Edited(sched[s], c) : c \in Cadences} :
              job' = [job EXCEPT ![p] = [At("replacing") EXCEPT !.s = s, !.copy = x]]
  BY DEF Edit
<1>3. PICK x \in {sched[s]} \cup {Edited(sched[s], c) : c \in Cadences} :
          job' = [job EXCEPT ![p] = [At("replacing") EXCEPT !.s = s, !.copy = x]]
  BY <1>2
<1>4. /\ s \in Schedules /\ sched[s] \in ScheduleRecord /\ Fits(sched[s], now)
      /\ sched[s].there = "stored" /\ sched[s].lastClaimed \in 1..now
  BY StoredFacts
<1>5. x \in ScheduleRecord /\ x.there = "stored" /\ Fits(x, now)
  <2>1. CASE x = sched[s]
    BY <1>4, <2>1
  <2>2. ASSUME NEW c \in Cadences, x = Edited(sched[s], c)
        PROVE  x \in ScheduleRecord /\ x.there = "stored" /\ Fits(x, now)
    <3> DEFINE n == nextOccurrence(c, Later(now, sched[s].lastClaimed))
    <3>1. n \in c /\ n \in Nat
      BY <1>4, CountedFrom
    <3>2. x = [sched[s] EXCEPT !.cadence = c, !.nextRunAt = n]
      BY <2>2 DEF Edited
    <3> HIDE DEF n
    <3>3. /\ x \in ScheduleRecord /\ x.there = "stored" /\ x.cadence = c /\ x.nextRunAt = n
          /\ x.lastClaimed = sched[s].lastClaimed
      BY <1>4, <3>1, <3>2 DEF ScheduleRecord
    <3> QED BY <1>4, <3>1, <3>3 DEF Fits
  <2> QED BY <2>1, <2>2
<1>6. PICK r \in JobRecord : /\ job' = [job EXCEPT ![p] = r]
                             /\ r.pc = "replacing" /\ r.s = s /\ r.copy = x
  <2> DEFINE y == [At("replacing") EXCEPT !.s = s, !.copy = x]
  <2>1. y \in JobRecord /\ y.pc = "replacing" /\ y.s = s /\ y.copy = x
    BY <1>4, <1>5, Copying
  <2> HIDE DEF y
  <2> QED BY <1>3, <2>1 DEF y
<1>7. edits' \in Nat /\ edits <= edits' /\ edits' # 0
  BY <1>1 DEF IInv, Typed
<1>8. ops \cap Replacing # {}
  BY <1>1 DEF Replacing
<1>9. Stored(s)
  BY <1>4 DEF Stored
<1> QED BY <1>1, <1>5, <1>6, <1>7, <1>8, <1>9, PanelReads

LEMMA SetEnabledKeeps == ASSUME IInv, NEW p \in Panel, SetEnabled(p) PROVE IInv'
<1>1. /\ "setEnabled" \in ops /\ job[p].pc = "idle"
      /\ UNCHANGED <<now, sched, runs, index, exposed, alarm, tick, fired, sleeps, edits, ops>>
  BY DEF SetEnabled, Begins
<1>2. PICK s \in Listed :
          job' = [job EXCEPT ![p] = [At("replacing") EXCEPT !.s = s, !.copy = Toggled(sched[s])]]
  BY DEF SetEnabled
<1> DEFINE x == Toggled(sched[s])
           n == nextOccurrence(sched[s].cadence, Later(now, sched[s].lastClaimed))
<1>3. /\ s \in Schedules /\ sched[s] \in ScheduleRecord /\ Fits(sched[s], now)
      /\ sched[s].there = "stored" /\ sched[s].cadence \in Cadences
      /\ sched[s].lastClaimed \in 1..now /\ sched[s].enabled \in BOOLEAN
  BY StoredFacts
<1>4. n \in sched[s].cadence /\ n \in Nat /\ n > now
  BY <1>3, CountedFrom
<1>5. x = IF sched[s].enabled THEN [sched[s] EXCEPT !.enabled = FALSE]
          ELSE [sched[s] EXCEPT !.enabled = TRUE, !.nextRunAt = n]
  BY DEF Toggled
<1> HIDE DEF x, n
<1>6. /\ x \in ScheduleRecord /\ x.there = "stored" /\ x.cadence = sched[s].cadence
      /\ x.lastClaimed = sched[s].lastClaimed /\ (x.enabled => ~sched[s].enabled)
      /\ x.nextRunAt = IF sched[s].enabled THEN sched[s].nextRunAt ELSE n
  <2>1. CASE sched[s].enabled
    BY <1>3, <1>5, <2>1 DEF ScheduleRecord
  <2>2. CASE ~sched[s].enabled
    BY <1>3, <1>4, <1>5, <2>2 DEF ScheduleRecord
  <2> QED BY <2>1, <2>2
<1>7. Fits(x, now)
  BY <1>3, <1>4, <1>6 DEF Fits
<1>8. PICK r \in JobRecord : /\ job' = [job EXCEPT ![p] = r]
                             /\ r.pc = "replacing" /\ r.s = s /\ r.copy = x
  <2> DEFINE y == [At("replacing") EXCEPT !.s = s, !.copy = x]
  <2>1. y \in JobRecord /\ y.pc = "replacing" /\ y.s = s /\ y.copy = x
    <3>1. s \in Schedules /\ x \in ScheduleRecord
      BY <1>3, <1>6
    <3> QED BY <3>1, Copying
  <2> HIDE DEF y
  <2> QED BY <1>2, <2>1 DEF x, y
<1>9. \A at \in Times : at <= now => Spent(x, at)
  <2>1. now \in Nat /\ Times \subseteq Nat
    BY DEF Times, IInv, Typed
  <2>2. ASSUME NEW at \in Times, at <= now, x.enabled PROVE at < x.nextRunAt
    <3>1. x.nextRunAt = n
      BY <1>6, <2>2
    <3> QED BY <1>4, <2>1, <2>2, <3>1
  <2> QED BY <2>2 DEF Spent
<1>10. edits' \in Nat /\ edits <= edits'
  BY <1>1 DEF IInv, Typed
<1>11. ops \cap Replacing # {} /\ Stored(s)
  BY <1>1, <1>3 DEF Replacing, Stored
<1> QED BY <1>1, <1>3, <1>6, <1>7, <1>8, <1>9, <1>10, <1>11, PanelReads

-----------------------------------------------------------------------------
(* The worker goes away. *)

LEMMA NothingListed ==
    ASSUME NEW n, NEW s \in Schedules
    PROVE  /\ NoTick.list[s].there = "unborn" /\ Fits(NoTick.list[s], n)
           /\ \A at : Spent(NoTick.list[s], at)
BY NoTickTyped DEF NoSchedule, Fits, Spent

LEMMA SleepKeeps == ASSUME IInv, Sleep PROVE IInv'
<1>1. /\ sleeps' = sleeps + 1 /\ tick' = NoTick /\ alarm' \in {alarm, NoTime}
      /\ job' = [j \in Jobs |-> At(IF j = Startup THEN "down" ELSE "idle")]
      /\ UNCHANGED <<now, sched, runs, index, exposed, fired, edits, ops>>
  BY DEF Sleep
<1>2. \A j \in Jobs : job'[j] \in JobRecord /\ job'[j].pc = IF j = Startup THEN "down" ELSE "idle"
  BY <1>1, AtTyped DEF Pcs
<1>3. job' \in [Jobs -> JobRecord]
  BY <1>1, <1>2
<1>4. Typed'
  BY <1>1, <1>3, NoTickTyped DEF IInv, Typed, NoTime
<1>5. Pending' = {} /\ tick'.due = NoTime
  BY <1>1, NoTickTyped DEF Pending
<1>6. RecordsFit'
  BY <1>1, <1>2, NothingListed DEF IInv, RecordsFit, Fits
<1>7. TickFits'
  BY <1>5 DEF TickFits
<1>8. JobsFit'
  <2>1. \A j \in Jobs : ~Owns(j)' /\ JobFits(j)'
    BY <1>2, Actors DEF Owns, Owning, JobFits, PcsOf, Executing
  <2> QED BY <2>1 DEF JobsFit
<1>9. Once'
  <2>1. SUFFICES ASSUME Calm PROVE \A s \in Schedules, at \in Times : OnceAt(s, at)'
    <3>1. ~Coming' /\ \A p \in Panel : ResumeFits(p)'
      BY <1>2, Actors DEF Coming, ResumeFits
    <3>2. Calm' => Calm
      BY <1>1 DEF Calm
    <3>3. Calm => NeverTwice'
      BY <1>1 DEF IInv, Once, NeverTwice
    <3> QED BY <3>1, <3>2, <3>3 DEF Once
  <2>2. ASSUME NEW s \in Schedules, NEW at \in Times PROVE OnceAt(s, at)'
    <3>1. Begun(<<s, at>>)' => Begun(<<s, at>>)
      BY <1>1, <1>2, Actors DEF Begun, Coming
    <3>2. OnceAt(s, at)
      BY <2>1 DEF IInv, Once
    <3>3. Spent(tick.list[s], at)'
      BY <1>1, NothingListed DEF Spent
    <3>4. \A p \in Panel : job'[p].pc # "replacing"
      BY <1>2, Actors
    <3> QED BY <1>1, <1>5, <3>1, <3>2, <3>3, <3>4 DEF OnceAt, Spent
  <2> QED BY <2>2
<1>10. InStep'
  BY <1>1, NothingListed DEF IInv, InStep, Untouched, Stored
<1>11. Recorded'
  BY <1>1 DEF IInv, Typed, Recorded
<1>12. Swept'
  BY <1>2, Actors DEF Swept
<1>13. Armed'
  BY <1>2, Actors DEF Armed, Covered
<1> QED BY <1>4, <1>6, <1>7, <1>8, <1>9, <1>10, <1>11, <1>12, <1>13 DEF IInv

-----------------------------------------------------------------------------
(* The initial states and every step. *)

LEMMA InitFits == ASSUME Init PROVE IInv
<1>1. /\ now = 1 /\ runs = [id \in RunIds |-> "none"] /\ index = {} /\ exposed = {}
      /\ alarm = NoTime
      /\ job = [j \in Jobs |-> At(IF j = Startup THEN "booting" ELSE "idle")]
      /\ tick = NoTick /\ fired = [id \in RunIds |-> 0] /\ sleeps = 0 /\ edits = 0
      /\ ops \in Scenarios
      /\ sched \in [Schedules -> {NoSchedule("unborn")} \cup {NewSchedule(c, 1) : c \in Cadences}]
  BY DEF Init
<1>2. \A j \in Jobs : job[j] \in JobRecord /\ job[j].pc = IF j = Startup THEN "booting" ELSE "idle"
  BY <1>1, AtTyped DEF Pcs
<1>3. job \in [Jobs -> JobRecord]
  BY <1>1, <1>2
<1>4. NoSchedule("unborn") \in ScheduleRecord /\ ~NoSchedule("unborn").enabled
      /\ NoSchedule("unborn").there = "unborn"
  BY DEF NoSchedule, ScheduleRecord, NoTime
<1>5. ASSUME NEW s \in Schedules
      PROVE  /\ sched[s] \in ScheduleRecord /\ Fits(sched[s], 1)
             /\ Stored(s) => /\ sched[s].lastClaimed = 1
                             /\ sched[s].nextRunAt = nextOccurrence(sched[s].cadence, 1)
  <2>1. CASE sched[s] = NoSchedule("unborn")
    BY <1>4, <2>1 DEF Fits, Stored
  <2>2. ASSUME NEW c \in Cadences, sched[s] = NewSchedule(c, 1)
        PROVE  /\ sched[s] \in ScheduleRecord /\ Fits(sched[s], 1)
               /\ sched[s].lastClaimed = 1
               /\ sched[s].nextRunAt = nextOccurrence(sched[s].cadence, 1)
    <3> DEFINE n == nextOccurrence(c, 1)
    <3>1. n \in c /\ n \in Nat
      <4>1. 1 \in 0..MaxNow
        OBVIOUS
      <4> QED BY <4>1, NextOf
    <3> HIDE DEF n
    <3>2. sched[s] = [there |-> "stored", cadence |-> c, enabled |-> TRUE, nextRunAt |-> n,
                      lastClaimed |-> 1, last |-> "none"]
      BY <2>2 DEF NewSchedule, n
    <3>3. sched[s] \in ScheduleRecord /\ Fits(sched[s], 1)
      BY <3>1, <3>2 DEF ScheduleRecord, Fits
    <3> QED BY <3>2, <3>3 DEF n
  <2> QED BY <1>1, <2>1, <2>2
<1>6. Typed
  <2>1. sched \in [Schedules -> ScheduleRecord]
    BY <1>1, <1>5
  <2>2. runs \in [RunIds -> RunStatuses] /\ fired \in [RunIds -> 0..2]
    BY <1>1 DEF RunStatuses
  <2>3. now \in Times /\ alarm \in Nat /\ sleeps \in Nat /\ edits \in Nat
        /\ ops \in SUBSET Operations
    BY <1>1 DEF Times, NoTime
  <2> QED BY <1>1, <1>3, <2>1, <2>2, <2>3, NoTickTyped DEF Typed
<1>7. Pending = {} /\ tick.due = NoTime
  BY <1>1, NoTickTyped DEF Pending
<1>8. RecordsFit
  BY <1>1, <1>2, <1>5, NothingListed DEF RecordsFit
<1>9. TickFits
  BY <1>7 DEF TickFits
<1>10. JobsFit
  <2>1. \A j \in Jobs : ~Owns(j) /\ JobFits(j)
    BY <1>2, Actors DEF Owns, Owning, JobFits, PcsOf, Executing
  <2> QED BY <2>1 DEF JobsFit
<1>11. ~Coming
  BY <1>2, Actors DEF Coming
<1>12. Once
  <2>1. NeverTwice
    BY <1>1 DEF NeverTwice
  <2>2. \A s \in Schedules, at \in Times : ~Begun(<<s, at>>)
    BY <1>1, <1>11 DEF Begun, RunIds
  <2>3. \A p \in Panel : ResumeFits(p)
    BY <1>2, Actors DEF ResumeFits
  <2> QED BY <1>11, <2>1, <2>2, <2>3 DEF Once, OnceAt
<1>13. InStep
  BY <1>1, <1>5, NothingListed DEF InStep
<1>14. Recorded
  BY <1>5, <1>7 DEF Recorded, Times
<1>15. Swept
  BY <1>2, Actors DEF Swept
<1>16. Armed
  BY <1>2, Actors DEF Armed, Covered
<1> QED BY <1>6, <1>8, <1>9, <1>10, <1>12, <1>13, <1>14, <1>15, <1>16 DEF IInv

LEMMA NextKeeps == ASSUME IInv, PutsFit, [Next]_vars PROVE IInv'
<1>1. ASSUME NEW j \in Jobs, RearmStep(j) PROVE IInv'
  BY <1>1, RearmKeeps, ClearKeeps, ArmKeeps DEF RearmStep
<1>2. ASSUME StartupStep PROVE IInv'
  BY <1>2, RecoverKeeps, RecoverOneKeeps, JoinKeeps, JoinedKeeps DEF StartupStep
<1>3. ASSUME NEW p \in Panel, RequestStep(p) PROVE IInv'
  BY <1>3, ReplaceKeeps, ListRunsKeeps, SweepKeeps, DeleteKeeps DEF RequestStep
<1>4. ASSUME NEW p \in Panel, Request(p) PROVE IInv'
  BY <1>4, CreateKeeps, EditKeeps, SetEnabledKeeps, RemoveKeeps, RunNowKeeps, CancelRunKeeps
     DEF Request
<1>5. ASSUME UNCHANGED vars PROVE IInv'
  <2>1. UNCHANGED <<now, sched, runs, index, exposed, alarm, job, tick, fired, sleeps, edits, ops>>
    BY <1>5 DEF vars
  <2>2. Typed' /\ RecordsFit' /\ TickFits' /\ JobsFit'
    BY <2>1 DEF IInv, Typed, RecordsFit, Fits, Stored, TickFits, Pending, JobsFit, JobFits, Owns,
                RunOf, Seen
  <2>3. Typed' /\ now <= now' /\ edits <= edits' /\ sleeps <= sleeps'
    BY <2>1, <2>2 DEF IInv, Typed, Times
  <2>4. Once'
    BY <2>1, <2>3, AlikeSame, OnceKept DEF Coming, RunOf
  <2>5. InStep' /\ Recorded'
    BY <2>1, <2>3, AlikeSame, InStepKept, RecordedKept DEF Owns, RunOf, Shown, Seen
  <2>6. Swept' /\ Armed'
    BY <2>1 DEF IInv, Swept, Armed, Covered, Untouched, Stored
  <2> QED BY <2>2, <2>4, <2>5, <2>6 DEF IInv
<1> QED BY <1>1, <1>2, <1>3, <1>4, <1>5, RunStepKeeps, TickStepKeeps, AlarmFiresKeeps, WakeKeeps,
           SleepKeeps, TimePassesKeeps DEF Next

\* What a step may do to what is stored.
WriteOf ==
    \/ \A s \in Schedules : Alike(sched'[s], sched[s])
    \/ \E s \in Schedules, at \in Nat :
           claimable(s, at) /\ sched' = [sched EXCEPT ![s] = Claimed(@, at)]
    \/ \E s \in Schedules, x \in ScheduleRecord :
           /\ sched' = [sched EXCEPT ![s] = x]
           /\ \/ sched[s].there = "unborn" /\ ~Untouched
              \/ Stored(s) /\ x.there = "gone"
              \/ ops \cap Replacing # {} /\ (OneRequest => Stored(s)) /\ x.there = "stored"

LEMMA SchedulesMove == ASSUME IInv, [Next]_vars PROVE WriteOf
<1>1. CASE sched' = sched
  BY <1>1, AlikeSame DEF WriteOf
<1>2. ASSUME NEW j \in Jobs, Note(j) PROVE WriteOf
  <2>1. job[j].s \in Schedules
    BY DEF IInv, Typed, JobRecord
  <2>2. \A s \in Schedules : Alike(sched'[s], sched[s])
    <3> DEFINE q == job[j].s
               n == [sched[q] EXCEPT !.last = job[j].result]
    <3>1. sched[q] \in ScheduleRecord
      BY <2>1 DEF IInv, Typed
    <3>2. Alike(n, sched[q])
      BY <3>1 DEF ScheduleRecord, Alike
    <3>3. sched' = IF Stored(q) THEN [sched EXCEPT ![q] = n] ELSE sched
      BY <1>2 DEF Note, MutateSchedule
    <3> HIDE DEF n, q
    <3> QED BY <3>2, <3>3 DEF IInv, Typed, Alike
  <2> QED BY <2>2 DEF WriteOf
<1>3. ASSUME Skip, sched' # sched PROVE WriteOf
  <2>1. tick.s \in Schedules /\ tick.missed \in SUBSET Nat /\ tick.missed # {}
    BY <1>3 DEF Skip, IInv, Typed, TickType, Times
  <2>2. Least(tick.missed) \in Nat
    BY <2>1, LeastOf
  <2>3. claimable(tick.s, Least(tick.missed))
        /\ sched' = [sched EXCEPT ![tick.s] = Claimed(@, Least(tick.missed))]
    BY <1>3 DEF Skip
  <2> QED BY <2>1, <2>2, <2>3 DEF WriteOf
<1>4. ASSUME Fire, sched' # sched PROVE WriteOf
  <2>1. tick.s \in Schedules /\ tick.due \in Nat
    BY DEF IInv, Typed, TickType, Times, NoTime
  <2>2. claimable(tick.s, tick.due) /\ sched' = [sched EXCEPT ![tick.s] = Claimed(@, tick.due)]
    BY <1>4 DEF Fire
  <2> QED BY <2>1, <2>2 DEF WriteOf
<1>5. ASSUME NEW p \in Panel, Create(p) PROVE WriteOf
  <2>1. PICK s \in Schedules, c \in Cadences :
            sched[s].there = "unborn" /\ sched' = [sched EXCEPT ![s] = NewSchedule(c, now)]
    BY <1>5 DEF Create
  <2>2. now \in 1..now /\ now \in Nat
    BY DEF IInv, Typed, Times
  <2>3. nextOccurrence(c, now) \in Nat
    BY <2>2, CountedFrom DEF Later
  <2>4. NewSchedule(c, now) \in ScheduleRecord
    BY <2>2, <2>3 DEF NewSchedule, ScheduleRecord
  <2>5. ~Untouched
    BY <1>5 DEF Create, Begins, Untouched, Moving
  <2> QED BY <2>1, <2>4, <2>5 DEF WriteOf
<1>6. ASSUME NEW p \in Panel, Replace(p) PROVE WriteOf
  <2>1. sched' = [sched EXCEPT ![job[p].s] = job[p].copy]
    BY <1>6 DEF Replace
  <2>2. job[p].s \in Schedules /\ job[p].copy \in ScheduleRecord
    BY Actors DEF IInv, Typed, JobRecord
  <2>3. /\ ops \cap Replacing # {} /\ (OneRequest => Stored(job[p].s))
        /\ job[p].copy.there = "stored"
    BY <1>6, Actors DEF Replace, IInv, RecordsFit
  <2> QED BY <2>1, <2>2, <2>3 DEF WriteOf
<1>7. ASSUME NEW p \in Panel, Remove(p) PROVE WriteOf
  <2>1. PICK s \in Listed : sched' = [sched EXCEPT ![s] = NoSchedule("gone")]
    BY <1>7 DEF Remove
  <2>2. NoSchedule("gone") \in ScheduleRecord /\ NoSchedule("gone").there = "gone"
    BY DEF NoSchedule, ScheduleRecord, NoTime
  <2> QED BY <2>1, <2>2 DEF WriteOf, Listed
<1>8. ASSUME NEW j \in Jobs, RunStep(j), ~Note(j) PROVE sched' = sched
  BY <1>8 DEF RunStep, PutStep, Check, Start, Store, Index, Scan, Purge, Finish, Settle, Close
<1>9. ASSUME NEW j \in Jobs, RearmStep(j) PROVE sched' = sched
  BY <1>9 DEF RearmStep, Rearm, Clear, Arm
<1>10. ASSUME NEW p \in Panel, RequestStep(p), ~Replace(p) PROVE sched' = sched
  BY <1>10 DEF RequestStep, ListRuns, Sweep, Delete
<1>11. ASSUME NEW p \in Panel, Request(p), ~Create(p), ~Remove(p) PROVE sched' = sched
  BY <1>11 DEF Request, Edit, SetEnabled, RunNow, CancelRun
<1>12. ASSUME List \/ Advance \/ Advanced \/ StartupStep \/ AlarmFires \/ Wake \/ Sleep
              \/ TimePasses
              \/ UNCHANGED vars
       PROVE  sched' = sched
  BY <1>12 DEF List, Advance, Advanced, StartupStep, Recover, RecoverOne, Join, Joined, AlarmFires,
               Wake, Sleep, TimePasses, vars
<1> QED BY <1>1, <1>2, <1>3, <1>4, <1>5, <1>6, <1>7, <1>8, <1>9, <1>10, <1>11, <1>12
        DEF Next, TickStep

-----------------------------------------------------------------------------
(* The puts under way. *)

\* Without a request that moves schedules none appears.
LEMMA StoredBefore ==
    ASSUME IInv, [Next]_vars, Untouched, NEW s \in Schedules, Stored(s)'
    PROVE  Stored(s)
<1>1. sched \in [Schedules -> ScheduleRecord] /\ ops \cap Replacing = {}
  BY DEF IInv, Typed, Untouched, Moving, Replacing
<1>2. CASE \A q \in Schedules : Alike(sched'[q], sched[q])
  BY <1>2 DEF Alike, Stored
<1>3. ASSUME NEW q \in Schedules, NEW at \in Nat, claimable(q, at),
             sched' = [sched EXCEPT ![q] = Claimed(@, at)]
      PROVE  Stored(s)
  BY <1>1, <1>3 DEF claimable, Stored
<1>4. ASSUME NEW q \in Schedules, NEW x \in ScheduleRecord, sched' = [sched EXCEPT ![q] = x],
             \/ sched[q].there = "unborn" /\ ~Untouched
             \/ Stored(q) /\ x.there = "gone"
             \/ ops \cap Replacing # {} /\ (OneRequest => Stored(q)) /\ x.there = "stored"
      PROVE  Stored(s)
  BY <1>1, <1>4 DEF Stored
<1> QED BY <1>2, <1>3, <1>4, SchedulesMove DEF WriteOf

\* No put begins, and none moves along.
NoPut == \A j \in Jobs : Puts(j)' => job'[j] = job[j]

\* The runs of a schedule that is there are neither taken out of the index nor deleted.
RunsStay ==
    \A id \in RunIds : Untouched /\ Stored(id[1]) =>
        /\ runs[id] # "none" => runs'[id] # "none"
        /\ id \in index => id \in index'

LEMMA PutsKept ==
    ASSUME IInv, PutsFit, [Next]_vars, NoPut, exposed' = exposed, ops' = ops, RunsStay,
           \A id \in RunIds : Seen(id)' => Seen(id)
    PROVE  PutsFit'
<1>1. \A j \in Jobs : Puts(j)' => Puts(j) /\ RunOf(j)' = RunOf(j)
  BY DEF NoPut, Puts, RunOf
<1>2. Alone'
  BY <1>1 DEF PutsFit, Alone
<1>3. Shielded'
  <2> SUFFICES ASSUME NEW id \in RunIds, Seen(id)', id \notin exposed', NEW j \in Jobs
               PROVE  /\ job'[j].pc = "scanning" => id \in job'[j].left
                      /\ job'[j].pc = "purging" => id \notin job'[j].left
    BY DEF Shielded
  <2>1. job'[j].pc \in {"scanning", "purging"} => job'[j] = job[j]
    BY DEF NoPut, Puts
  <2>2. Seen(id) /\ id \notin exposed
    OBVIOUS
  <2> QED BY <2>1, <2>2 DEF PutsFit, Shielded
<1>4. Written'
  <2> SUFFICES ASSUME Untouched', Puts(Clock)', Stored(job[Clock].s)', RunOf(Clock)' \notin exposed'
               PROVE  /\ runs'[RunOf(Clock)'] # "none"
                      /\ job'[Clock].pc # "indexing" => RunOf(Clock)' \in index'
    BY DEF Written, Stored
  <2>1. job'[Clock] = job[Clock] /\ Puts(Clock) /\ RunOf(Clock)' = RunOf(Clock)
    BY <1>1, Actors DEF NoPut
  <2>2. RunOf(Clock) \in RunIds /\ RunOf(Clock)[1] = job[Clock].s /\ job[Clock].s \in Schedules
    BY <2>1, Actors, RunFacts DEF Puts, Executing
  <2>3. Untouched
    BY DEF Untouched
  <2>4. Stored(job[Clock].s)
    <3> DEFINE s == job[Clock].s
    <3>1. s \in Schedules /\ s = job'[Clock].s
      BY <2>1, <2>2
    <3>2. sched'[s].there = "stored"
      BY <2>1, <3>1 DEF Stored
    <3> HIDE DEF s
    <3>3. Stored(s)
      BY <2>3, <3>1, <3>2, StoredBefore DEF Stored
    <3> QED BY <3>3 DEF s
  <2>5. /\ runs[RunOf(Clock)] # "none"
        /\ job[Clock].pc # "indexing" => RunOf(Clock) \in index
    BY <2>1, <2>3, <2>4 DEF PutsFit, Written
  <2> QED BY <2>1, <2>2, <2>3, <2>4, <2>5 DEF RunsStay
<1> QED BY <1>2, <1>3, <1>4 DEF PutsFit

\* The jobs whose put is under way have their runs to themselves.
LEMMA PutApart ==
    ASSUME IInv, NEW j \in Jobs, job[j].pc \in {"storing"} \cup Writing
    PROVE  /\ job[j] \in JobRecord /\ RunOf(j) \in RunIds
           /\ \A k \in Jobs : k # j /\ Puts(k) => RunOf(k) # RunOf(j)
<1>1. job[j].pc \in Executing /\ Owns(j) /\ \A k \in Jobs : Puts(k) => Owns(k)
  BY DEF Executing, Owns, Owning, Puts
<1> QED BY <1>1, RunFacts

LEMMA StorePuts == ASSUME IInv, PutsFit, NEW j \in Jobs, Store(j) PROVE PutsFit'
<1>1. /\ job[j].pc = "storing" /\ runs' = [runs EXCEPT ![RunOf(j)] = job[j].result]
      /\ exposed' = exposed \cup Overlapping(j) /\ Go(j, "indexing")
      /\ UNCHANGED <<sched, index, ops>>
  BY DEF Store
<1>2. /\ job[j] \in JobRecord /\ RunOf(j) \in RunIds
      /\ \A k \in Jobs : k # j /\ Puts(k) => RunOf(k) # RunOf(j)
  BY <1>1, PutApart
<1>3. /\ job'[j].pc = "indexing" /\ \A k \in Jobs : k # j => job'[k] = job[k]
      /\ \A k \in Jobs : RunOf(k)' = RunOf(k)
      /\ Puts(j)' /\ \A k \in Jobs : k # j => (Puts(k)' <=> Puts(k))
  <2>1. job'[j].pc = "indexing" /\ job'[j].s = job[j].s /\ job'[j].at = job[j].at
        /\ \A k \in Jobs : k # j => job'[k] = job[k]
    BY <1>1, <1>2 DEF Go, IInv, Typed, JobRecord
  <2> QED BY <2>1 DEF RunOf, Puts
<1>4. \A id \in RunIds : runs'[id] = IF id = RunOf(j) THEN job[j].result ELSE runs[id]
  BY <1>1 DEF IInv, Typed
<1>5. \A k \in Jobs : k # j /\ Puts(k) => RunOf(k) \in exposed' /\ RunOf(j) \in exposed'
  <2> SUFFICES ASSUME NEW k \in Jobs, k # j, Puts(k)
               PROVE  RunOf(k) \in Overlapping(j) /\ RunOf(j) \in Overlapping(j)
    BY <1>1
  <2>1. k \in {i \in Jobs \ {j} : job[i].pc \in Writing}
    BY DEF Puts
  <2> QED BY <2>1 DEF Overlapping
<1>6. Alone'
  BY <1>1, <1>3, <1>5 DEF PutsFit, Alone
<1>7. Shielded'
  <2> SUFFICES ASSUME NEW id \in RunIds, Seen(id)', id \notin exposed', NEW k \in Jobs,
                      job'[k].pc \in {"scanning", "purging"}
               PROVE  /\ job'[k].pc = "scanning" => id \in job'[k].left
                      /\ job'[k].pc = "purging" => id \notin job'[k].left
    BY DEF Shielded
  <2>1. k # j /\ job'[k] = job[k] /\ Puts(k)
    BY <1>3 DEF Puts
  <2>2. id # RunOf(j) /\ id \notin exposed
    BY <1>1, <1>5, <2>1
  <2>3. Seen(id)
    BY <1>1, <1>4, <2>2 DEF Seen
  <2> QED BY <2>1, <2>2, <2>3 DEF PutsFit, Shielded
<1>8. Written'
  <2> SUFFICES ASSUME Untouched, Puts(Clock)', Stored(job'[Clock].s), RunOf(Clock) \notin exposed
               PROVE  /\ runs'[RunOf(Clock)] # "none"
                      /\ job'[Clock].pc # "indexing" => RunOf(Clock) \in index
    BY <1>1, <1>3, Actors DEF Written, Untouched, Stored
  <2>1. CASE j = Clock
    BY <1>2, <1>3, <1>4, <2>1 DEF JobRecord, Ended
  <2>2. CASE j # Clock
    <3>1. job'[Clock] = job[Clock] /\ Puts(Clock) /\ RunOf(Clock) # RunOf(j)
      BY <1>2, <1>3, <2>2, Actors
    <3>2. RunOf(Clock) \in RunIds
      BY <3>1, Actors, PutApart DEF Puts
    <3> QED BY <1>4, <3>1, <3>2 DEF PutsFit, Written
  <2> QED BY <2>1, <2>2
<1> QED BY <1>6, <1>7, <1>8 DEF PutsFit

LEMMA IndexPuts == ASSUME IInv, PutsFit, NEW j \in Jobs, Index(j) PROVE PutsFit'
<1>1. /\ job[j].pc = "indexing" /\ UNCHANGED <<sched, runs, ops>>
      /\ job' = [job EXCEPT ![j].pc = "scanning", ![j].left = index']
  BY DEF Index
<1>2. job[j] \in JobRecord /\ RunOf(j) \in RunIds
  BY <1>1, PutApart
<1>3. /\ job'[j].pc = "scanning" /\ job'[j].left = index' /\ job'[j].s = job[j].s
      /\ job'[j].at = job[j].at /\ \A k \in Jobs : k # j => job'[k] = job[k]
  BY <1>1, <1>2 DEF IInv, Typed, JobRecord
<1>4. Puts(j) /\ \A k \in Jobs : RunOf(k)' = RunOf(k) /\ (Puts(k)' <=> Puts(k))
  BY <1>1, <1>3 DEF RunOf, Puts
<1>5. /\ RunOf(j) \in index' /\ index' \subseteq index \cup {RunOf(j)} /\ exposed \subseteq exposed'
      /\ \A id \in index : id \in index' \/ id \in exposed'
  BY Named
<1>6. Alone'
  BY <1>4, <1>5 DEF PutsFit, Alone
<1>7. Shielded'
  <2> SUFFICES ASSUME NEW id \in RunIds, Seen(id)', id \notin exposed', NEW k \in Jobs,
                      job'[k].pc \in {"scanning", "purging"}
               PROVE  /\ job'[k].pc = "scanning" => id \in job'[k].left
                      /\ job'[k].pc = "purging" => id \notin job'[k].left
    BY DEF Shielded
  <2>1. CASE k = j
    BY <1>3, <2>1 DEF Seen
  <2>2. CASE k # j
    <3>1. job'[k] = job[k] /\ Puts(k)
      BY <1>3, <2>2 DEF Puts
    <3>2. RunOf(j) \in exposed
      BY <1>4, <2>2, <3>1 DEF PutsFit, Alone
    <3>3. Seen(id) /\ id \notin exposed
      BY <1>1, <1>5, <3>2 DEF Seen
    <3> QED BY <3>1, <3>3 DEF PutsFit, Shielded
  <2> QED BY <2>1, <2>2
<1>8. Written'
  <2> SUFFICES ASSUME Untouched, Puts(Clock), Stored(job'[Clock].s), RunOf(Clock) \notin exposed'
               PROVE  /\ runs[RunOf(Clock)] # "none"
                      /\ job'[Clock].pc # "indexing" => RunOf(Clock) \in index'
    BY <1>1, <1>4, Actors DEF Written, Untouched, Stored
  <2>1. RunOf(Clock) \notin exposed /\ job'[Clock].s = job[Clock].s
    BY <1>3, <1>5, Actors
  <2>2. /\ runs[RunOf(Clock)] # "none"
        /\ job[Clock].pc # "indexing" => RunOf(Clock) \in index
    BY <2>1 DEF PutsFit, Written
  <2>3. CASE j = Clock
    BY <1>5, <2>2, <2>3
  <2>4. CASE j # Clock
    BY <1>3, <1>5, <2>2, <2>4, Actors
  <2> QED BY <2>3, <2>4
<1> QED BY <1>6, <1>7, <1>8 DEF PutsFit

LEMMA ScanPuts == ASSUME IInv, PutsFit, NEW j \in Jobs, Scan(j) PROVE PutsFit'
<1> DEFINE L == {id \in RunIds : runs[id] # "none"} \ job[j].left
<1>1. /\ job[j].pc = "scanning" /\ UNCHANGED <<sched, runs, index, exposed, ops>>
      /\ job' = [job EXCEPT ![j].pc = "purging", ![j].left = L]
  BY DEF Scan
<1> HIDE DEF L
<1>2. job[j] \in JobRecord /\ RunOf(j) \in RunIds
  BY <1>1, PutApart
<1>3. /\ job'[j].pc = "purging" /\ job'[j].left = L /\ job'[j].s = job[j].s
      /\ job'[j].at = job[j].at /\ \A k \in Jobs : k # j => job'[k] = job[k]
  BY <1>1, <1>2 DEF IInv, Typed, JobRecord
<1>4. Puts(j) /\ \A k \in Jobs : RunOf(k)' = RunOf(k) /\ (Puts(k)' <=> Puts(k))
  BY <1>1, <1>3 DEF RunOf, Puts
<1>5. Alone'
  BY <1>1, <1>4 DEF PutsFit, Alone
<1>6. Shielded'
  <2> SUFFICES ASSUME NEW id \in RunIds, Seen(id), id \notin exposed, NEW k \in Jobs
               PROVE  /\ job'[k].pc = "scanning" => id \in job'[k].left
                      /\ job'[k].pc = "purging" => id \notin job'[k].left
    BY <1>1 DEF Shielded, Seen
  <2>1. /\ job[k].pc = "scanning" => id \in job[k].left
        /\ job[k].pc = "purging" => id \notin job[k].left
    BY DEF PutsFit, Shielded
  <2> QED BY <1>1, <1>3, <2>1 DEF L
<1>7. Written'
  <2>1. job'[Clock].s = job[Clock].s /\ (job'[Clock].pc # "indexing" <=> job[Clock].pc # "indexing")
    BY <1>1, <1>3, Actors
  <2> QED BY <1>1, <1>4, <2>1, Actors DEF PutsFit, Written, Untouched, Stored
<1> QED BY <1>5, <1>6, <1>7 DEF PutsFit

LEMMA PurgePuts == ASSUME IInv, PutsFit, [Next]_vars, NEW j \in Jobs, Purge(j) PROVE PutsFit'
<1>1. job[j].pc = "purging" /\ Puts(j) /\ UNCHANGED <<sched, index, exposed, ops>>
  BY DEF Purge, Puts
<1>2. job[j] \in JobRecord /\ RunOf(j) \in RunIds
  BY <1>1, PutApart
<1>3. CASE Started(j) /\ runs' = runs
  <2>1. NoPut
    <3>1. Go(j, "executing") \/ Go(j, "noting")
      BY <1>3 DEF Started
    <3> QED BY <1>2, <3>1 DEF Go, NoPut, Puts, IInv, Typed, JobRecord
  <2> QED BY <1>1, <1>3, <2>1, PutsKept DEF RunsStay, Seen
<1>4. ASSUME NEW id \in job[j].left, runs' = [runs EXCEPT ![id] = "none"],
             job' = [job EXCEPT ![j].left = job[j].left \ {id}]
      PROVE  PutsFit'
  <2>1. /\ job'[j].pc = "purging" /\ job'[j].left = job[j].left \ {id} /\ job'[j].s = job[j].s
        /\ job'[j].at = job[j].at /\ \A k \in Jobs : k # j => job'[k] = job[k]
    BY <1>1, <1>2, <1>4 DEF IInv, Typed, JobRecord
  <2>2. \A k \in Jobs : RunOf(k)' = RunOf(k) /\ (Puts(k)' <=> Puts(k))
    BY <1>1, <2>1 DEF RunOf, Puts
  <2>3. \A x \in RunIds : runs'[x] = IF x = id THEN "none" ELSE runs[x]
    BY <1>4 DEF IInv, Typed
  <2>4. Alone'
    BY <1>1, <2>2 DEF PutsFit, Alone
  <2>5. Shielded'
    <3> SUFFICES ASSUME NEW x \in RunIds, Seen(x)', x \notin exposed, NEW k \in Jobs
                 PROVE  /\ job'[k].pc = "scanning" => x \in job'[k].left
                        /\ job'[k].pc = "purging" => x \notin job'[k].left
      BY <1>1 DEF Shielded
    <3>1. Seen(x)
      BY <1>1, <2>3 DEF Seen
    <3>2. /\ job[k].pc = "scanning" => x \in job[k].left
          /\ job[k].pc = "purging" => x \notin job[k].left
      BY <3>1 DEF PutsFit, Shielded
    <3> QED BY <1>1, <2>1, <3>2
  <2>6. Written'
    <3> SUFFICES ASSUME Untouched, Puts(Clock), Stored(job[Clock].s), RunOf(Clock) \notin exposed
                 PROVE  /\ runs'[RunOf(Clock)] # "none"
                        /\ job'[Clock].pc # "indexing" => RunOf(Clock) \in index
      <4>1. job'[Clock].s = job[Clock].s
        BY <2>1, Actors
      <4> QED BY <1>1, <2>2, <4>1, Actors DEF Written, Untouched, Stored
    <3>1. j = Clock
      BY <1>1, Actors DEF PutsFit, Alone
    <3>2. runs[RunOf(Clock)] # "none" /\ RunOf(Clock) \in index
      BY <1>1, <3>1 DEF PutsFit, Written
    <3>3. RunOf(Clock) \notin job[Clock].left
      BY <1>1, <1>2, <3>1, <3>2 DEF PutsFit, Shielded, Seen
    <3> QED BY <1>2, <2>3, <3>1, <3>2, <3>3
  <2> QED BY <2>4, <2>5, <2>6 DEF PutsFit
<1> QED BY <1>3, <1>4 DEF Purge

\* A job turns to something else than a put.
LEMMA Turned ==
    ASSUME IInv, NEW j \in Jobs, NEW r, job' = [job EXCEPT ![j] = r], r.pc \notin Writing
    PROVE  NoPut
BY DEF NoPut, Puts, IInv, Typed

\* A request's sweep takes what belongs to a schedule that is gone.
LEMMA SweptAway ==
    ASSUME IInv, NEW p \in Panel, Sweep(p) \/ Delete(p)
    PROVE  NoPut /\ RunsStay /\ \A id \in RunIds : Seen(id)' => Seen(id)
<1>1. job[p] \in JobRecord /\ p \in Jobs
  BY Actors DEF IInv, Typed
<1>2. CASE Sweep(p)
  <2>1. job[p].pc = "sweeping" /\ runs' = runs
    BY <1>2 DEF Sweep
  <2>2. CASE job' = [job EXCEPT ![p] = At("rearming")] /\ index' = index
    <3>1. At("rearming").pc = "rearming"
      BY AtTyped DEF Pcs, Rearming
    <3> QED BY <1>1, <2>1, <2>2, <3>1, Turned DEF RunsStay, Seen
  <2>3. ASSUME NEW id \in job[p].left, index' = index \ {id},
               job' = [job EXCEPT ![p].pc = "deleting", ![p].at = id[2],
                                  ![p].left = job[p].left \ {id}]
        PROVE  NoPut /\ RunsStay /\ \A x \in RunIds : Seen(x)' => Seen(x)
    <3>1. NoPut
      BY <1>1, <2>3 DEF NoPut, Puts, IInv, Typed, JobRecord
    <3>2. Untouched => ~Stored(id[1])
      BY <2>1, <2>3 DEF IInv, Swept
    <3> QED BY <2>1, <2>3, <3>1, <3>2 DEF RunsStay, Seen
  <2> QED BY <1>2, <2>2, <2>3 DEF Sweep
<1>3. CASE Delete(p)
  <2>1. /\ job[p].pc = "deleting" /\ runs' = [runs EXCEPT ![RunOf(p)] = "none"] /\ index' = index
        /\ job' = [job EXCEPT ![p].pc = "sweeping", ![p].at = NoTime]
    BY <1>3 DEF Delete
  <2>2. NoPut
    BY <1>1, <2>1 DEF NoPut, Puts, IInv, Typed, JobRecord
  <2>3. \A x \in RunIds : runs'[x] = IF x = RunOf(p) THEN "none" ELSE runs[x]
    BY <2>1 DEF IInv, Typed
  <2>4. Untouched => ~Stored(job[p].s)
    BY <2>1 DEF IInv, Swept
  <2>5. \A x \in RunIds : Untouched /\ Stored(x[1]) => x # RunOf(p)
    BY <2>4 DEF RunOf
  <2> QED BY <2>1, <2>2, <2>3, <2>5 DEF RunsStay, Seen
<1> QED BY <1>2, <1>3

LEMMA CloseStays ==
    ASSUME IInv, NEW j \in Jobs, Close(j)
    PROVE  NoPut /\ RunsStay /\ \A id \in RunIds : Seen(id)' => Seen(id)
<1>1. /\ job[j].pc = "closing" /\ Go(j, "noting") /\ index' = index
      /\ runs' = IF runs[RunOf(j)] = "running" THEN [runs EXCEPT ![RunOf(j)] = job[j].result]
                 ELSE runs
  BY DEF Close
<1>2. job[j] \in JobRecord /\ job[j].result # "none" /\ RunOf(j) \in RunIds
  BY <1>1, RunFacts DEF Executing, JobRecord, Ended
<1>3. NoPut
  BY <1>1, <1>2 DEF Go, NoPut, Puts, IInv, Typed, JobRecord
<1>4. \A id \in RunIds : runs'[id] = "none" <=> runs[id] = "none"
  BY <1>1, <1>2 DEF IInv, Typed
<1> QED BY <1>1, <1>3, <1>4 DEF RunsStay, Seen

\* Every other step leaves the runs' store alone and begins no put.
LEMMA OthersTurn ==
    ASSUME IInv, NEW j \in Jobs,
           \/ Check(j) \/ Start(j) \/ Finish(j) \/ Settle(j) \/ Note(j) \/ RearmStep(j)
    PROVE  NoPut
<1>1. job[j] \in JobRecord
  BY DEF IInv, Typed
<1>2. CASE Check(j) \/ Finish(j) \/ Settle(j) \/ Rearm(j)
  BY <1>1, <1>2 DEF Check, Finish, Settle, Rearm, Go, NoPut, Puts, IInv, Typed, JobRecord
<1>3. CASE Start(j)
  <2>1. Go(j, "executing") \/ Go(j, "noting") \/ Go(j, "storing")
    BY <1>3 DEF Start, Started
  <2> QED BY <1>1, <2>1 DEF Go, NoPut, Puts, IInv, Typed, JobRecord
<1>4. CASE Note(j)
  <2> DEFINE r == [At(Home(j)) EXCEPT !.left = job[j].left]
  <2>1. At(Home(j)) \in JobRecord /\ At(Home(j)).pc = Home(j)
    BY RunPcs, AtTyped
  <2>2. r.pc \notin Writing
    BY <2>1 DEF JobRecord, Home
  <2>3. job' = [job EXCEPT ![j] = r]
    BY <1>4 DEF Note, GoHome
  <2> HIDE DEF r
  <2> QED BY <2>2, <2>3, Turned
<1>5. CASE Clear(j) \/ Arm(j)
  <2>1. At("idle").pc = "idle" /\ At("arming") \in JobRecord /\ At("arming").pc = "arming"
    BY AtTyped DEF Pcs, Rearming
  <2>2. [At("arming") EXCEPT !.at = job[j].at].pc = "arming"
    BY <2>1 DEF JobRecord
  <2>3. PICK r : job' = [job EXCEPT ![j] = r] /\ r.pc \in {"idle", "arming"}
    BY <1>5, <2>1, <2>2 DEF Clear, Arm
  <2> QED BY <2>3, Turned
<1> QED BY <1>2, <1>3, <1>4, <1>5 DEF RearmStep

\* A job that starts afresh starts with something else than a put.
LEMMA Afresh ==
    ASSUME NEW pc \in Pcs \ Writing, NEW s, NEW at, NEW result, NEW left, NEW copy
    PROVE  /\ At(pc).pc = pc
           /\ [At(pc) EXCEPT !.s = s, !.at = at].pc = pc
           /\ [At(pc) EXCEPT !.s = s, !.at = at, !.result = result].pc = pc
           /\ [At(pc) EXCEPT !.s = s, !.at = at, !.result = result, !.left = left].pc = pc
           /\ [At(pc) EXCEPT !.left = left].pc = pc
           /\ [At(pc) EXCEPT !.s = s].pc = pc
           /\ [At(pc) EXCEPT !.s = s, !.copy = copy].pc = pc
<1>1. At(pc) \in JobRecord /\ At(pc).pc = pc
  BY AtTyped
<1> QED BY <1>1 DEF JobRecord

LEMMA ClockTurns == ASSUME IInv, TickStep PROVE NoPut
<1>1. Clock \in Jobs /\ job[Clock] \in JobRecord
  BY Actors DEF IInv, Typed
<1>2. CASE List \/ Advanced
  BY <1>1, <1>2 DEF List, Advanced, Go, NoPut, Puts, IInv, Typed, JobRecord
<1>3. CASE job' = job
  BY <1>3 DEF NoPut
<1>4. CASE Skip /\ job' # job
  <2>1. PICK s, at : job' = [job EXCEPT ![Clock] = [At("starting") EXCEPT !.s = s, !.at = at,
                                                                         !.result = "missed"]]
    BY <1>4 DEF Skip
  <2> DEFINE r == [At("starting") EXCEPT !.s = s, !.at = at, !.result = "missed"]
  <2>2. r.pc = "starting"
    BY Afresh DEF Pcs, Executing
  <2> HIDE DEF r
  <2> QED BY <1>1, <2>1, <2>2, Turned DEF r
<1>5. CASE Fire /\ job' # job
  <2>1. PICK s, at : job' = [job EXCEPT ![Clock] = [At("checking") EXCEPT !.s = s, !.at = at]]
    BY <1>5 DEF Fire
  <2> DEFINE r == [At("checking") EXCEPT !.s = s, !.at = at]
  <2>2. r.pc = "checking"
    BY Afresh DEF Pcs, Executing
  <2> HIDE DEF r
  <2> QED BY <1>1, <2>1, <2>2, Turned DEF r
<1>6. Advance => job' = job
  BY DEF Advance
<1> QED BY <1>2, <1>3, <1>4, <1>5, <1>6 DEF TickStep

LEMMA StartupTurns ==
    ASSUME IInv, StartupStep \/ AlarmFires \/ Wake \/ Sleep
    PROVE  NoPut
<1>1. Startup \in Jobs /\ job[Startup] \in JobRecord
  BY Actors DEF IInv, Typed
<1>2. CASE Recover \/ Wake
  <2> DEFINE L == {id \in index : runs[id] = "running"}
             r == [At("recovering") EXCEPT !.left = L]
  <2>1. r.pc = "recovering" /\ At("booting").pc = "booting"
    BY Afresh DEF Pcs, Executing
  <2>2. job' = [job EXCEPT ![Startup] = r] \/ job' = [job EXCEPT ![Startup] = At("booting")]
    BY <1>2 DEF Recover, Wake
  <2> HIDE DEF r
  <2> QED BY <1>1, <2>1, <2>2, Turned
<1>3. CASE RecoverOne
  <2>1. PICK id \in job[Startup].left :
            job' = [job EXCEPT ![Startup] = [At("closing") EXCEPT
                       !.s = id[1], !.at = id[2], !.result = "failed",
                       !.left = job[Startup].left \ {id}]]
    BY <1>3 DEF RecoverOne
  <2> DEFINE r == [At("closing") EXCEPT !.s = id[1], !.at = id[2], !.result = "failed",
                                        !.left = job[Startup].left \ {id}]
  <2>2. r.pc = "closing"
    BY Afresh DEF Pcs, Executing
  <2>3. job' = [job EXCEPT ![Startup] = r]
    BY <2>1
  <2> HIDE DEF r
  <2> QED BY <1>1, <2>2, <2>3, Turned
<1>4. CASE Joined
  BY <1>1, <1>4 DEF Joined, Go, NoPut, Puts, IInv, Typed, JobRecord
<1>5. ASSUME NEW x \in JobRecord, job' = StartTick([job EXCEPT ![Startup] = x]),
             x.pc \notin Writing \/ x = job[Startup]
      PROVE  NoPut
  <2>1. /\ job'[Startup] = x
        /\ job'[Clock] = IF job[Clock].pc = "idle" THEN At("listing") ELSE job[Clock]
        /\ \A p \in Panel : job'[p] = job[p]
    BY <1>5, TickStarted DEF IInv
  <2>2. At("listing").pc = "listing"
    BY AtTyped DEF Pcs
  <2> QED BY <1>5, <2>1, <2>2, Actors DEF NoPut, Puts
<1>6. CASE Join
  <2>1. At("joining") \in JobRecord /\ At("joining").pc = "joining"
    BY AtTyped DEF Pcs
  <2> QED BY <1>5, <1>6, <2>1 DEF Join
<1>7. CASE AlarmFires
  <2> DEFINE x == IF job[Startup].pc = "down" THEN At("booting") ELSE job[Startup]
  <2>1. At("booting") \in JobRecord /\ At("booting").pc = "booting"
    BY AtTyped DEF Pcs
  <2>2. x \in JobRecord /\ (x.pc \notin Writing \/ x = job[Startup])
    BY <1>1, <2>1
  <2>3. job' = StartTick([job EXCEPT ![Startup] = x])
    BY <1>7 DEF AlarmFires
  <2> HIDE DEF x
  <2> QED BY <1>5, <2>2, <2>3
<1>8. CASE Sleep
  <2>1. \A j \in Jobs : job'[j] = At(IF j = Startup THEN "down" ELSE "idle")
    BY <1>8 DEF Sleep
  <2>2. At("down").pc = "down" /\ At("idle").pc = "idle"
    BY AtTyped DEF Pcs
  <2> QED BY <2>1, <2>2 DEF NoPut, Puts
<1> QED BY <1>2, <1>3, <1>4, <1>6, <1>7, <1>8 DEF StartupStep

LEMMA PanelTurns ==
    ASSUME IInv, NEW p \in Panel, Request(p) \/ Replace(p) \/ ListRuns(p)
    PROVE  NoPut
<1>1. p \in Jobs /\ job[p] \in JobRecord
  BY Actors DEF IInv, Typed
<1>2. CASE Create(p)
  BY <1>1, <1>2 DEF Create, Go, NoPut, Puts, IInv, Typed, JobRecord
<1>3. CASE ListRuns(p)
  BY <1>1, <1>3 DEF ListRuns, NoPut, Puts, IInv, Typed, JobRecord
<1>4. \A pc \in {"replacing", "removing", "checking", "closing", "rearming"} : pc \in Pcs \ Writing
  BY DEF Pcs, Executing, Rearming
<1>5. CASE Edit(p) \/ SetEnabled(p)
  <2>1. PICK s, copy : job' = [job EXCEPT ![p] = [At("replacing") EXCEPT !.s = s, !.copy = copy]]
    BY <1>5 DEF Edit, SetEnabled
  <2>2. [At("replacing") EXCEPT !.s = s, !.copy = copy].pc = "replacing"
    BY <1>4, Afresh
  <2> QED BY <1>1, <2>1, <2>2, Turned
<1>6. CASE Remove(p)
  <2>1. PICK s : job' = [job EXCEPT ![p] = [At("removing") EXCEPT !.s = s]]
    BY <1>6 DEF Remove
  <2>2. [At("removing") EXCEPT !.s = s].pc = "removing"
    BY <1>4, Afresh
  <2> QED BY <1>1, <2>1, <2>2, Turned
<1>7. CASE RunNow(p)
  <2>1. PICK s, at : job' = [job EXCEPT ![p] = [At("checking") EXCEPT !.s = s, !.at = at]]
    BY <1>7 DEF RunNow
  <2>2. [At("checking") EXCEPT !.s = s, !.at = at].pc = "checking"
    BY <1>4, Afresh
  <2> QED BY <1>1, <2>1, <2>2, Turned
<1>8. CASE CancelRun(p)
  <2>1. PICK s, at :
            job' = [job EXCEPT ![p] = [At("closing") EXCEPT !.s = s, !.at = at,
                                                            !.result = "cancelled"]]
    BY <1>8 DEF CancelRun
  <2>2. [At("closing") EXCEPT !.s = s, !.at = at, !.result = "cancelled"].pc = "closing"
    BY <1>4, Afresh
  <2> QED BY <1>1, <2>1, <2>2, Turned
<1>9. CASE Replace(p)
  <2>1. job' = [job EXCEPT ![p] = At("rearming")]
    BY <1>9 DEF Replace
  <2>2. At("rearming").pc = "rearming"
    BY <1>4, Afresh
  <2> QED BY <1>1, <2>1, <2>2, Turned
<1> QED BY <1>2, <1>3, <1>5, <1>6, <1>7, <1>8, <1>9 DEF Request

LEMMA PutsFitKept == ASSUME IInv, PutsFit, [Next]_vars PROVE PutsFit'
<1>1. ASSUME NoPut, UNCHANGED <<runs, index, exposed, ops>> PROVE PutsFit'
  BY <1>1, PutsKept DEF RunsStay, Seen
<1>2. ASSUME NEW j \in Jobs, RunStep(j) PROVE PutsFit'
  <2>1. CASE PutStep(j)
    BY <2>1, StorePuts, IndexPuts, ScanPuts, PurgePuts DEF PutStep
  <2>2. CASE Close(j)
    <3>1. UNCHANGED <<exposed, ops>>
      BY <2>2 DEF Close
    <3> QED BY <2>2, <3>1, CloseStays, PutsKept
  <2>3. CASE Check(j) \/ Start(j) \/ Finish(j) \/ Settle(j) \/ Note(j)
    <3>1. UNCHANGED <<runs, index, exposed, ops>>
      BY <2>3 DEF Check, Start, Finish, Settle, Note
    <3> QED BY <1>1, <2>3, <3>1, OthersTurn
  <2> QED BY <1>2, <2>1, <2>2, <2>3 DEF RunStep
<1>3. ASSUME NEW j \in Jobs, RearmStep(j) PROVE PutsFit'
  <2>1. UNCHANGED <<runs, index, exposed, ops>>
    BY <1>3 DEF RearmStep, Rearm, Clear, Arm
  <2> QED BY <1>1, <1>3, <2>1, OthersTurn
<1>4. CASE TickStep
  <2>1. UNCHANGED <<runs, index, exposed, ops>>
    BY <1>4 DEF TickStep, List, Advance, Skip, Fire, Advanced
  <2> QED BY <1>1, <1>4, <2>1, ClockTurns
<1>5. CASE StartupStep \/ AlarmFires \/ Wake \/ Sleep
  <2>1. UNCHANGED <<runs, index, exposed, ops>>
    BY <1>5 DEF StartupStep, Recover, RecoverOne, Join, Joined, AlarmFires, Wake, Sleep
  <2> QED BY <1>1, <1>5, <2>1, StartupTurns
<1>6. ASSUME NEW p \in Panel, RequestStep(p) \/ Request(p) PROVE PutsFit'
  <2>1. CASE Sweep(p) \/ Delete(p)
    <3>1. UNCHANGED <<exposed, ops>>
      BY <2>1 DEF Sweep, Delete
    <3> QED BY <2>1, <3>1, SweptAway, PutsKept
  <2>2. CASE Request(p) \/ Replace(p) \/ ListRuns(p)
    <3>1. UNCHANGED <<runs, index, exposed, ops>>
      BY <2>2 DEF Request, Create, Edit, SetEnabled, Remove, RunNow, CancelRun, Replace, ListRuns
    <3> QED BY <1>1, <2>2, <3>1, PanelTurns
  <2> QED BY <1>6, <2>1, <2>2 DEF RequestStep
<1>7. CASE TimePasses \/ UNCHANGED vars
  <2>1. UNCHANGED <<runs, index, exposed, job, ops>>
    BY <1>7 DEF TimePasses, vars
  <2> QED BY <1>1, <2>1 DEF NoPut
<1> QED BY <1>2, <1>3, <1>4, <1>5, <1>6, <1>7 DEF Next

LEMMA PutsFitInit == ASSUME Init PROVE PutsFit
<1>1. /\ index = {} /\ job = [j \in Jobs |-> At(IF j = Startup THEN "booting" ELSE "idle")]
  BY DEF Init
<1>2. \A j \in Jobs : ~Puts(j)
  BY <1>1, AtTyped DEF Pcs, Puts
<1> QED BY <1>1, <1>2, Actors DEF PutsFit, Alone, Shielded, Written, Seen

-----------------------------------------------------------------------------
(* The theorems. *)

\* The invariant the scheduler keeps: what is stored, listed, pending, being put and in the
\* hands of the jobs agrees, for every number of schedules, cadences, requests, evictions and
\* instants.
THEOREM InvariantHolds == Spec => [](IInv /\ PutsFit)
<1>1. Init => IInv /\ PutsFit
  BY InitFits, PutsFitInit
<1>2. IInv /\ PutsFit /\ [Next]_vars => (IInv /\ PutsFit)'
  BY NextKeeps, PutsFitKept
<1> QED BY <1>1, <1>2, PTL DEF Spec

\* service-worker.ts, at the alarm listener, and claimOccurrence of schedule-store.ts: an
\* occurrence's target is started at most once.
THEOREM AtMostOnceHolds == Spec => []AtMostOnce
<1>1. IInv => AtMostOnce
  BY DEF IInv, Once, Calm, AtMostOnce
<1> QED BY <1>1, InvariantHolds, PTL

\* recordMissed and fire of schedule-runner.ts over RecordStore.write: no occurrence up to the
\* last claim is without a record, unless the full history dropped it or another run's record
\* was being put at the time.
THEOREM NoSilentGapHolds == Spec => []NoSilentGap
<1>1. IInv => NoSilentGap
  <2> SUFFICES ASSUME IInv, Quiet, sleeps = 0, ops \cap Moving = {},
                      NEW s \in Schedules, NEW at \in Times, Stored(s), WithinCap(s),
                      at \in sched[s].cadence, 1 < at, at <= sched[s].lastClaimed,
                      <<s, at>> \notin exposed
               PROVE  Seen(<<s, at>>)
    BY DEF NoSilentGap
  <2>1. ~Owns(Clock)
    BY Actors DEF Quiet, Owns, Owning
  <2> QED BY <2>1 DEF IInv, Recorded, Untouched, Shown
<1> QED BY <1>1, InvariantHolds, PTL

\* rearm and setWakeUp: when nothing is in flight the alarm is early enough for every schedule.
THEOREM WakeUpArmedHolds == Spec => []WakeUpArmed
<1>1. IInv => WakeUpArmed
  <2> SUFFICES ASSUME IInv, Quiet, ops \cap Moving = {},
                      NEW s \in Schedules, Stored(s), sched[s].enabled
               PROVE  alarm # NoTime /\ alarm <= Later(sched[s].nextRunAt, now)
    BY DEF WakeUpArmed
  <2>1. Covered(s)
    BY DEF IInv, Armed, Untouched
  <2>2. job[Clock].pc = "idle" /\ job[Startup].pc = "up" /\ \A p \in Panel : job[p].pc # "arming"
    BY Actors DEF Quiet, IInv, JobsFit, JobFits, PcsOf, Executing, Rearming
  <2> QED BY <2>1, <2>2 DEF Covered
<1> QED BY <1>1, InvariantHolds, PTL

LEMMA RunsMove ==
    ASSUME IInv, [Next]_vars
    PROVE  \A id \in RunIds : Seen(id) /\ runs[id] \in Ended => runs'[id] = runs[id] \/ ~Seen(id)'
<1> DEFINE Kept == \A id \in RunIds :
                       Seen(id) /\ runs[id] \in Ended => runs'[id] = runs[id] \/ ~Seen(id)'
<1>1. CASE runs' = runs
  BY <1>1
<1>2. ASSUME NEW j \in Jobs, Store(j) PROVE Kept
  <2>1. ~Seen(RunOf(j)) /\ runs' = [runs EXCEPT ![RunOf(j)] = job[j].result]
    BY <1>2 DEF Store, IInv, JobsFit, JobFits
  <2> QED BY <2>1 DEF IInv, Typed
<1>3. ASSUME NEW j \in Jobs, Close(j), runs' # runs PROVE Kept
  <2>1. runs[RunOf(j)] = "running" /\ runs' = [runs EXCEPT ![RunOf(j)] = job[j].result]
    BY <1>3 DEF Close
  <2> QED BY <2>1 DEF IInv, Typed, Ended
<1>4. ASSUME NEW id, runs' = [runs EXCEPT ![id] = "none"] PROVE Kept
  BY <1>4 DEF IInv, Typed, Seen
<1>5. ASSUME NEW j \in Jobs, RunStep(j), ~Store(j), ~Close(j)
      PROVE  runs' = runs \/ \E id : runs' = [runs EXCEPT ![id] = "none"]
  BY <1>5 DEF RunStep, PutStep, Check, Start, Index, Scan, Purge, Finish, Settle, Note
<1>6. ASSUME NEW j \in Jobs, RearmStep(j) PROVE runs' = runs
  BY <1>6 DEF RearmStep, Rearm, Clear, Arm
<1>7. ASSUME NEW p \in Panel, RequestStep(p)
      PROVE  runs' = runs \/ \E id : runs' = [runs EXCEPT ![id] = "none"]
  BY <1>7 DEF RequestStep, Replace, ListRuns, Sweep, Delete
<1>8. ASSUME NEW p \in Panel, Request(p) PROVE runs' = runs
  BY <1>8 DEF Request, Create, Edit, SetEnabled, Remove, RunNow, CancelRun
<1>9. ASSUME TickStep \/ StartupStep \/ AlarmFires \/ Wake \/ Sleep \/ TimePasses \/ UNCHANGED vars
      PROVE  runs' = runs
  BY <1>9 DEF TickStep, List, Advance, Skip, Fire, Advanced, StartupStep, Recover, RecoverOne, Join,
              Joined, AlarmFires, Wake, Sleep, TimePasses, vars
<1> QED BY <1>1, <1>2, <1>3, <1>4, <1>5, <1>6, <1>7, <1>8, <1>9 DEF Next

\* schedule-model.ts and schedule-store.ts: no late write takes back a claim, the end of a run
\* that the store still shows or a deletion, unless a request writes back a record that it
\* read before an await.
THEOREM NothingGoesBackHolds == Spec => NothingGoesBack
<1> DEFINE Claims    == ops \cap Replacing = {} =>
                            \A s \in Schedules : Stored(s) /\ Stored(s)' =>
                                sched'[s].lastClaimed >= sched[s].lastClaimed
           Deletions == (ops \cap Replacing = {} \/ OneRequest) =>
                            \A s \in Schedules : sched[s].there = "gone" => sched'[s].there = "gone"
<1>1. ASSUME IInv, [Next]_vars PROVE Claims /\ Deletions
  <2>1. /\ sched \in [Schedules -> ScheduleRecord]
        /\ \A s \in Schedules : sched[s].lastClaimed \in Nat
    BY <1>1 DEF IInv, Typed, ScheduleRecord
  <2>2. CASE \A s \in Schedules : Alike(sched'[s], sched[s])
    BY <2>1, <2>2 DEF Alike
  <2>3. ASSUME NEW s \in Schedules, NEW at \in Nat, claimable(s, at),
               sched' = [sched EXCEPT ![s] = Claimed(@, at)]
        PROVE  Claims /\ Deletions
    <3>1. sched'[s].lastClaimed = at /\ \A q \in Schedules : q # s => sched'[q] = sched[q]
      <4>1. sched[s] \in ScheduleRecord /\ sched'[s] = Claimed(sched[s], at)
        BY <2>1, <2>3
      <4> QED BY <2>1, <2>3, <4>1 DEF Claimed, ScheduleRecord
    <3>2. sched[s].there = "stored" /\ at > sched[s].lastClaimed
      BY <2>3 DEF claimable, Stored
    <3> QED BY <2>1, <3>1, <3>2
  <2>4. ASSUME NEW s \in Schedules, NEW x \in ScheduleRecord, sched' = [sched EXCEPT ![s] = x],
               \/ sched[s].there = "unborn" /\ ~Untouched
               \/ Stored(s) /\ x.there = "gone"
               \/ ops \cap Replacing # {} /\ (OneRequest => Stored(s)) /\ x.there = "stored"
        PROVE  Claims /\ Deletions
    <3>1. sched'[s] = x /\ \A q \in Schedules : q # s => sched'[q] = sched[q]
      BY <2>1, <2>4
    <3> QED BY <2>1, <2>4, <3>1 DEF Stored
  <2> QED BY <1>1, <2>2, <2>3, <2>4, SchedulesMove DEF WriteOf
<1>2. IInv /\ [Next]_vars =>
          [/\ Claims
           /\ \A id \in RunIds : Seen(id) /\ runs[id] \in Ended =>
                  runs'[id] = runs[id] \/ ~Seen(id)'
           /\ Deletions]_vars
  BY <1>1, RunsMove
<1> QED BY <1>2, InvariantHolds, PTL DEF Spec, NothingGoesBack
=============================================================================
