---------------------------- MODULE StorageProofs ----------------------------
(***************************************************************************)
(* What holds in Storage for any number of recorders, events, callers,     *)
(* records, keys, writes and faults.  Of the audit trail: a loss stays known *)
(* until a person acknowledges it, and the trail is one unbroken chain.  Of *)
(* local encryption: wherever a switch of the protection is interrupted, no *)
(* record is left under a key nobody holds, and none is in plain while it is *)
(* on.  Of the records beside their index: what was there when an operation *)
(* began is there, or is what the operation was to remove.                 *)
(***************************************************************************)
EXTENDS Storage, WellFoundedInduction, SequenceTheorems, TLAPS

-----------------------------------------------------------------------------
(* The audit trail. *)

\* The worse of two severities.
LEMMA MaxOfTwo ==
    ASSUME NEW x \in Nat, NEW y \in Nat
    PROVE  Max({x, y}) = IF x >= y THEN x ELSE y
<1> DEFINE S == {x, y}
           P(z) == \A w \in S : z >= w
<1>1. \E z \in S : P(z)
  BY SMT
<1>2. PICK m \in S : P(m) /\ m = (CHOOSE z \in S : P(z))
  BY <1>1
<1>3. Max({x, y}) = m
  BY <1>2 DEF Max
<1>4. QED
  BY <1>2, <1>3, SMT

\* What is stored covers what was reported, and what is stored or seen covers what was lost.
TrailInv ==
    /\ {health, floor, lost, reported} \subseteq Severities
    /\ reported <= health
    /\ lost <= health \/ lost <= floor

LEMMA SeverityOfNat == Severities \subseteq Nat /\ {HEALTHY, DEGRADED, CORRUPT} \subseteq Severities
BY DEF Severities, HEALTHY, DEGRADED, CORRUPT

\* A report of any severity keeps it, whether its write succeeds or not.
LEMMA ReportKeeps ==
    ASSUME TrailInv, NEW severity \in Severities, Report(severity)
    PROVE  TrailInv'
<1>1. /\ health \in Nat /\ floor \in Nat /\ lost \in Nat /\ reported \in Nat /\ severity \in Nat
      /\ {health, floor, lost, reported, severity} \subseteq Severities
  BY SeverityOfNat DEF TrailInv
<1>2. /\ floor' = IF floor >= severity THEN floor ELSE severity
      /\ health' \in {health, IF health >= severity THEN health ELSE severity}
      /\ lost' = IF lost >= severity THEN lost ELSE severity
      /\ reported' = IF health' < severity THEN reported
                     ELSE IF reported >= severity THEN reported ELSE severity
  BY <1>1, MaxOfTwo DEF Report, Loss
<1>3. {health', floor', lost', reported'} \subseteq Severities
  BY <1>1, <1>2
<1>4. reported' <= health'
  BY <1>1, <1>2, SMT DEF TrailInv
<1>5. lost' <= health' \/ lost' <= floor'
  BY <1>1, <1>2, SMT DEF TrailInv
<1>6. QED
  BY <1>3, <1>4, <1>5 DEF TrailInv

\* What a step does to none of the four variables keeps it.
LEMMA OthersKeep ==
    ASSUME TrailInv, UNCHANGED <<health, floor, lost, reported>>
    PROVE  TrailInv'
BY DEF TrailInv

LEMMA TrailStep ==
    ASSUME TrailInv, TrailNext
    PROVE  TrailInv'
<1>1. CASE Later
  BY <1>1, OthersKeep DEF Later
<1>2. ASSUME NEW c \in Recorders, RecordEvent(c) PROVE TrailInv'
  BY <1>2, OthersKeep, ReportKeeps, SeverityOfNat DEF RecordEvent
<1>3. ASSUME NEW c \in Recorders, AppendEvent(c) \/ AppendFails(c) \/ Compact(c) PROVE TrailInv'
  BY <1>3, OthersKeep DEF AppendEvent, AppendFails, Compact
<1>4. ASSUME NEW c \in Recorders, LoseEvent(c) PROVE TrailInv'
  BY <1>4, ReportKeeps, SeverityOfNat DEF LoseEvent
<1>5. ASSUME NEW c \in Recorders, Acknowledge(c) PROVE TrailInv'
  <2>1. /\ floor' = 0 /\ lost' = 0 /\ reported' = 0 /\ health' \in {health, 0}
    BY <1>5 DEF Acknowledge, HEALTHY
  <2>2. QED
    BY <2>1 DEF TrailInv, Severities, HEALTHY, CORRUPT
<1>6. QED
  BY <1>1, <1>2, <1>3, <1>4, <1>5 DEF TrailNext

LEMMA TrailEvicted ==
    ASSUME TrailInv, TrailForgets
    PROVE  TrailInv'
BY DEF TrailInv, TrailForgets, Severities, HEALTHY, CORRUPT

\* The invariant of the trail: what is stored covers every report that was written, and what
\* is stored or seen by this worker covers every loss.
THEOREM TrailInvariant == StorageSpec => []TrailInv
<1>1. StorageInit => TrailInv
  BY DEF StorageInit, TrailInit, TrailInv, Severities, HEALTHY, CORRUPT
<1>2. TrailInv /\ [StorageNext]_storageVars => TrailInv'
  <2> SUFFICES ASSUME TrailInv, [StorageNext]_storageVars PROVE TrailInv'
    OBVIOUS
  <2>1. CASE UNCHANGED trailVars
    BY <2>1, OthersKeep DEF trailVars
  <2>2. CASE TrailNext
    BY <2>2, TrailStep
  <2>3. CASE WorkerGone
    BY <2>3, TrailEvicted DEF WorkerGone
  <2>4. QED
    BY <2>1, <2>2, <2>3 DEF StorageNext, storageVars
<1>3. QED
  BY <1>1, <1>2, PTL DEF StorageSpec

\* persistence-health.ts: for any number of recorders, events and faults, the worst that
\* befell the trail is known of until a person acknowledges it.
THEOREM LossIsKnownHolds == StorageSpec => []LossIsKnown
<1>1. TrailInv => LossIsKnown
  <2> SUFFICES ASSUME TrailInv PROVE LossIsKnown
    OBVIOUS
  <2>1. health \in Nat /\ floor \in Nat /\ lost \in Nat
    BY SeverityOfNat DEF TrailInv
  <2>2. Known = IF health >= floor THEN health ELSE floor
    BY <2>1, MaxOfTwo DEF Known
  <2>3. QED
    BY <2>1, <2>2, SMT DEF TrailInv, LossIsKnown
<1>2. QED
  BY <1>1, TrailInvariant, PTL

-----------------------------------------------------------------------------
(* The chain of the trail. *)

USE TrailAssumption

\* One stretch of a trail, the newest first, none of it from later than now.
Chain(list) ==
    /\ list \in Seq(AuditEvent)
    /\ \A i \in 1..Len(list) :
          /\ list[i].content.seq = list[1].content.seq + 1 - i
          /\ list[i].at <= clock
          /\ i < Len(list) => list[i].prevDigest = list[i + 1].content
    /\ \A i, j \in 1..Len(list) : i <= j => list[j].at <= list[i].at

\* The record that left last is named by one that stays.
Named(list) ==
    list # <<>> /\ list[Len(list)].content.seq > 1 =>
        \E i \in 1..Len(list) : list[Len(list)].content.seq - 1 \in list[i].removed

ChainInv ==
    /\ TrailInv
    /\ clock \in 0..MaxAt /\ recorded \in 0..MaxRecorded /\ unmarked \in BOOLEAN
    /\ recorder \in [Recorders -> [pc : RecorderPcs, n : 0..MaxRecorded]]
    /\ Chain(events) /\ Len(events) <= MaxEvents
    /\ ~unmarked => Named(events)

\* A set of naturals that is not empty has a least element.
LEMMA LeastNatural ==
    ASSUME NEW S \in SUBSET Nat, S # {}
    PROVE  \E m \in S : \A t \in S : m <= t
<1> DEFINE R == OpToRel(<, Nat)
<1>1. IsWellFoundedOn(R, Nat)
  BY NatLessThanWellFounded
<1>2. \A x, y \in Nat : <<x, y>> \in R <=> x < y
  BY DEF OpToRel
<1> HIDE DEF R
<1>3. PICK m \in S : \A t \in S : <<t, m>> \notin R
  BY <1>1, WFMin
<1>4. ASSUME NEW t \in S PROVE m <= t
  <2>1. t \in Nat /\ m \in Nat
    OBVIOUS
  <2>2. ~(t < m)
    BY <1>2, <1>3, <2>1
  <2> QED BY <2>1, <2>2
<1> QED BY <1>4

\* What a sequence's beginning holds.
LEMMA PrefixOf ==
    ASSUME NEW T, NEW list \in Seq(T), NEW k \in 0..Len(list)
    PROVE  /\ SubSeq(list, 1, k) \in Seq(T) /\ Len(SubSeq(list, 1, k)) = k
           /\ \A i \in 1..k : SubSeq(list, 1, k)[i] = list[i]
OBVIOUS

LEMMA ChainOfPrefix ==
    ASSUME NEW list, Chain(list), NEW k \in 0..Len(list)
    PROVE  Chain(SubSeq(list, 1, k))
<1>1. list \in Seq(AuditEvent) /\ Len(list) \in Nat
  BY DEF Chain
<1>2. /\ SubSeq(list, 1, k) \in Seq(AuditEvent) /\ Len(SubSeq(list, 1, k)) = k
      /\ \A i \in 1..k : SubSeq(list, 1, k)[i] = list[i]
  BY <1>1, PrefixOf
<1> DEFINE p == SubSeq(list, 1, k)
<1> HIDE DEF p
<1>3. p \in Seq(AuditEvent) /\ Len(p) = k /\ \A i \in 1..k : p[i] = list[i]
  BY <1>2 DEF p
<1>4. ASSUME NEW i \in 1..k
      PROVE  /\ p[i].content.seq = p[1].content.seq + 1 - i
             /\ p[i].at <= clock
             /\ i < k => p[i].prevDigest = p[i + 1].content
  <2>1. i \in 1..Len(list) /\ 1 \in 1..k /\ p[i] = list[i] /\ p[1] = list[1]
    BY <1>1, <1>3
  <2>2. i < k => i < Len(list) /\ i + 1 \in 1..k /\ p[i + 1] = list[i + 1]
    BY <1>1, <1>3
  <2> QED BY <2>1, <2>2 DEF Chain
<1>5. ASSUME NEW i \in 1..k, NEW j \in 1..k, i <= j PROVE p[j].at <= p[i].at
  <2>1. i \in 1..Len(list) /\ j \in 1..Len(list)
    BY <1>1
  <2> QED BY <1>3, <1>5, <2>1 DEF Chain
<1>6. Chain(p)
  BY <1>3, <1>4, <1>5 DEF Chain
<1> QED BY <1>6 DEF p

\* An entry that is put in front of a stretch continues it.
LEMMA ChainOfEntry ==
    ASSUME NEW list, Chain(list), clock \in Nat, NEW top \in Content,
           list # <<>> => top = list[1].content,
           NEW n \in Nat, NEW removed \in SUBSET Nat
    PROVE  /\ Chain(<<Entry(top, n, removed)>> \o list)
           /\ Len(<<Entry(top, n, removed)>> \o list) = Len(list) + 1
<1> DEFINE e == Entry(top, n, removed)
           q == <<e>> \o list
<1>1. e \in AuditEvent
  BY DEF Entry, AuditEvent, Content
<1>2. e.content.seq = top.seq + 1 /\ e.at = clock /\ e.prevDigest = top
  BY DEF Entry
<1> HIDE DEF e
<1>3. list \in Seq(AuditEvent) /\ Len(list) \in Nat /\ top.seq \in Nat
  BY DEF Chain, Content
<1>4. /\ q \in Seq(AuditEvent) /\ Len(q) = Len(list) + 1 /\ q[1] = e
      /\ \A i \in 1..Len(list) : q[i + 1] = list[i]
  BY <1>1, <1>3
<1> HIDE DEF q
<1>5. ASSUME NEW i \in 2..Len(q)
      PROVE  i - 1 \in 1..Len(list) /\ q[i] = list[i - 1] /\ list # <<>> /\ list[1] \in AuditEvent
  <2>1. i - 1 \in 1..Len(list) /\ (i - 1) + 1 = i
    BY <1>3, <1>4
  <2>2. q[i] = list[i - 1]
    BY <1>4, <2>1
  <2> QED BY <1>3, <2>1, <2>2
<1>6. ASSUME NEW i \in 1..Len(q)
      PROVE  /\ q[i].content.seq = q[1].content.seq + 1 - i
             /\ q[i].at <= clock
             /\ i < Len(q) => q[i].prevDigest = q[i + 1].content
  <2>1. CASE i = 1
    <3>1. q[1].content.seq = q[1].content.seq + 1 - 1
      BY <1>2, <1>3, <1>4
    <3>2. q[1].at <= clock
      BY <1>2, <1>4
    <3>3. 1 < Len(q) => q[2] = list[1] /\ list # <<>>
      BY <1>3, <1>4, <1>5
    <3> QED BY <1>2, <1>4, <2>1, <3>1, <3>2, <3>3
  <2>2. CASE i \in 2..Len(q)
    <3>1. /\ i - 1 \in 1..Len(list) /\ q[i] = list[i - 1] /\ top = list[1].content
      BY <1>5, <2>2
    <3>2. list[i - 1].content.seq = top.seq + 1 - (i - 1) /\ list[i - 1].at <= clock
      BY <3>1 DEF Chain
    <3>3. ASSUME i < Len(q) PROVE q[i].prevDigest = q[i + 1].content
      <4>1. i \in 1..Len(list) /\ i - 1 < Len(list) /\ (i - 1) + 1 = i
        BY <1>3, <1>4, <2>2, <3>3
      <4>2. list[i - 1].prevDigest = list[i].content
        BY <3>1, <4>1 DEF Chain
      <4> QED BY <1>4, <3>1, <4>1, <4>2
    <3>4. q[i].content.seq = q[1].content.seq + 1 - i
      <4>1. q[i].content.seq = top.seq + 1 - (i - 1) /\ q[1].content.seq = top.seq + 1
        BY <1>2, <1>4, <3>1, <3>2
      <4>2. i \in Int /\ top.seq \in Nat
        BY <1>3, <1>4
      <4>3. top.seq + 1 - (i - 1) = (top.seq + 1) + 1 - i
        BY <4>2
      <4> QED BY <4>1, <4>3
    <3> QED BY <3>1, <3>2, <3>3, <3>4
  <2> QED BY <1>3, <1>4, <2>1, <2>2
<1>7. ASSUME NEW i \in 1..Len(q), NEW j \in 1..Len(q), i <= j PROVE q[j].at <= q[i].at
  <2>1. CASE i = 1
    BY <1>2, <1>4, <1>6, <2>1
  <2>2. CASE i \in 2..Len(q) /\ j \in 2..Len(q)
    <3>1. /\ i - 1 \in 1..Len(list) /\ q[i] = list[i - 1] /\ j - 1 \in 1..Len(list)
          /\ q[j] = list[j - 1] /\ i - 1 <= j - 1
      BY <1>5, <1>7, <2>2
    <3> QED BY <3>1 DEF Chain
  <2> QED BY <1>3, <1>4, <1>7, <2>1, <2>2
<1>8. Chain(q)
  BY <1>4, <1>6, <1>7 DEF Chain
<1> QED BY <1>4, <1>8 DEF q, e

\* As the records' ages fall, those that are not too old are the first ones.
LEMMA FreshAreFirst ==
    ASSUME Chain(events), clock \in Nat
    PROVE  /\ FreshCount \in 0..Len(events)
           /\ \A i \in 1..Len(events) : i <= FreshCount <=> events[i].at >= clock - RetentionMs
<1> DEFINE n == Len(events)
           Old == {i \in 1..n : ~(events[i].at >= clock - RetentionMs)}
           First(k) == \A i \in 1..n : i <= k <=> events[i].at >= clock - RetentionMs
<1>1. n \in Nat /\ RetentionMs \in Nat /\ \A i \in 1..n : events[i].at \in Nat
  <2>1. events \in Seq(AuditEvent)
    BY DEF Chain
  <2>2. n \in Nat /\ \A i \in 1..n : events[i] \in AuditEvent
    BY <2>1
  <2> QED BY <2>2 DEF AuditEvent
<1>2. \A i, j \in 1..n : i <= j => events[j].at <= events[i].at
  BY DEF Chain
<1>3. CASE Old = {}
  <2>1. n \in 0..n /\ First(n)
    BY <1>1, <1>3
  <2> HIDE DEF First
  <2> QED BY <2>1 DEF FreshCount, First
<1>4. CASE Old # {}
  <2>1. Old \in SUBSET Nat
    BY <1>1
  <2>2. PICK m \in Old : \A t \in Old : m <= t
    <3> HIDE DEF Old
    <3> QED BY <1>4, <2>1, LeastNatural
  <2>3. m \in 1..n /\ ~(events[m].at >= clock - RetentionMs)
    OBVIOUS
  <2>4. m - 1 \in 0..n
    BY <1>1, <2>3
  <2>5. ASSUME NEW i \in 1..n PROVE i <= m - 1 <=> events[i].at >= clock - RetentionMs
    <3>1. CASE i <= m - 1
      <4>1. i \notin Old
        BY <1>1, <2>2, <2>3, <3>1
      <4> QED BY <3>1, <4>1
    <3>2. CASE m <= i
      <4>1. events[i].at <= events[m].at /\ events[i].at \in Nat /\ events[m].at \in Nat
        BY <1>1, <1>2, <2>3, <3>2
      <4> QED BY <1>1, <2>3, <3>2, <4>1
    <3> QED BY <1>1, <2>3, <3>1, <3>2
  <2>6. First(m - 1)
    BY <2>5
  <2> HIDE DEF First
  <2> QED BY <2>4, <2>6 DEF FreshCount, First
<1> QED BY <1>3, <1>4

\* How many records stay: as many as there is room for, with the marker and the event.
LEMMA KeepsRoom ==
    ASSUME Chain(events), clock \in Nat
    PROVE  KeepCount(FreshCount) \in 0..Len(events) /\ KeepCount(FreshCount) + 2 <= MaxEvents
<1>1. FreshCount \in 0..Len(events) /\ Len(events) \in Nat /\ MaxEvents \in Nat /\ MaxEvents >= 2
  BY FreshAreFirst DEF Chain
<1>2. (MaxEvents * 9) \div 10 \in Nat
  BY <1>1
<1> QED BY <1>1, <1>2 DEF KeepCount, Least

\* What leaves is everything from the last that stays on.
LEMMA EvictedAreLast ==
    ASSUME Chain(events), clock \in Nat, NEW k, k = KeepCount(FreshCount)
    PROVE  /\ Evicted = {} <=> k = Len(events)
           /\ k < Len(events) =>
                 /\ Max(Evicted) = events[k + 1].content.seq
                 /\ Min(Evicted) = events[Len(events)].content.seq
<1> DEFINE n == Len(events)
           S == {events[i].content.seq : i \in (k + 1)..n}
<1>1. events \in Seq(AuditEvent) /\ n \in Nat /\ k \in 0..n
  <2>1. events \in Seq(AuditEvent)
    BY DEF Chain
  <2>2. n \in Nat
    BY <2>1
  <2>3. k \in 0..n
    BY KeepsRoom
  <2> QED BY <2>1, <2>2, <2>3
<1>2. \A i \in 1..n : events[i] \in AuditEvent
  BY <1>1
<1>3. \A i \in 1..n : events[i].content.seq \in Nat
  BY <1>2 DEF AuditEvent, Content
<1>4. \A i \in 1..n : events[i].content.seq = events[1].content.seq + 1 - i
  BY DEF Chain
<1>5. ASSUME NEW i \in 1..n, NEW j \in 1..n
      PROVE  /\ events[i].content.seq = events[j].content.seq => i = j
             /\ i <= j => events[j].content.seq <= events[i].content.seq
  <2>1. 1 \in 1..n
    BY <1>1
  <2>2. events[1].content.seq \in Nat
    BY <1>3, <2>1
  <2>3. /\ events[i].content.seq = events[1].content.seq + 1 - i
        /\ events[j].content.seq = events[1].content.seq + 1 - j
    BY <1>4
  <2> QED BY <1>1, <2>2, <2>3
<1>6. Seqs(events) = {events[i].content.seq : i \in 1..n}
  BY <1>1 DEF Seqs, ToSet
<1>7. Seqs(Survivors) = {events[i].content.seq : i \in 1..k}
  <2>1. /\ Survivors \in Seq(AuditEvent) /\ Len(Survivors) = k
        /\ \A i \in 1..k : Survivors[i] = events[i]
    BY <1>1, PrefixOf DEF Survivors
  <2>2. Seqs(Survivors) = {Survivors[i].content.seq : i \in 1..k}
    BY <2>1 DEF Seqs, ToSet
  <2> QED BY <2>1, <2>2
<1>8. Evicted = S
  <2>1. \A i \in 1..n : i \in 1..k \/ i \in (k + 1)..n
    BY <1>1
  <2>2. \A i \in 1..k : i \in 1..n /\ i \notin (k + 1)..n
    BY <1>1
  <2>3. \A i \in (k + 1)..n : i \in 1..n /\ i \notin 1..k
    BY <1>1
  <2>4. ASSUME NEW x \in Evicted PROVE x \in S
    <3>1. PICK i \in 1..n : x = events[i].content.seq
      BY <1>6, <2>4 DEF Evicted
    <3>2. i \notin 1..k
      BY <1>7, <2>4, <3>1 DEF Evicted
    <3> QED BY <2>1, <3>1, <3>2
  <2>5. ASSUME NEW x \in S PROVE x \in Evicted
    <3>1. PICK i \in (k + 1)..n : x = events[i].content.seq
      BY <2>5
    <3>2. x \in Seqs(events)
      BY <1>6, <2>3, <3>1
    <3>3. ASSUME NEW j \in 1..k, x = events[j].content.seq PROVE FALSE
      BY <1>5, <2>2, <2>3, <3>1, <3>3
    <3> QED BY <1>7, <3>2, <3>3 DEF Evicted
  <2> HIDE DEF S
  <2> QED BY <2>4, <2>5
<1>9. Evicted = {} <=> k = n
  <2>1. k < n => events[k + 1].content.seq \in S
    BY <1>1
  <2>2. k = n => S = {}
    BY <1>1
  <2> HIDE DEF S
  <2> QED BY <1>1, <1>8, <2>1, <2>2
<1>10. ASSUME k < n
       PROVE  /\ Max(Evicted) = events[k + 1].content.seq
              /\ Min(Evicted) = events[n].content.seq
  <2>1. k + 1 \in (k + 1)..n /\ n \in (k + 1)..n /\ \A i \in (k + 1)..n : i \in 1..n
    BY <1>1, <1>10
  <2>2. events[k + 1].content.seq \in S /\ events[n].content.seq \in S
    BY <2>1
  <2>3. ASSUME NEW x \in S
        PROVE  x \in Nat /\ x <= events[k + 1].content.seq /\ events[n].content.seq <= x
    <3>1. PICK i \in (k + 1)..n : x = events[i].content.seq
      BY <2>3
    <3>2. i \in 1..n /\ k + 1 \in 1..n /\ n \in 1..n /\ k + 1 <= i /\ i <= n
      BY <1>1, <2>1
    <3> QED BY <1>3, <1>5, <3>1, <3>2
  <2>4. events[k + 1].content.seq \in Nat /\ events[n].content.seq \in Nat
    BY <2>2, <2>3
  <2> HIDE DEF S
  <2>5. PICK b \in S : (\A y \in S : b >= y) /\ b = Max(S)
    BY <2>2, <2>3, <2>4 DEF Max
  <2>6. PICK a \in S : (\A y \in S : a <= y) /\ a = Min(S)
    BY <2>2, <2>3, <2>4 DEF Min
  <2>7. b = events[k + 1].content.seq /\ a = events[n].content.seq
    BY <2>2, <2>3, <2>4, <2>5, <2>6
  <2> QED BY <1>8, <2>5, <2>6, <2>7
<1> QED BY <1>9, <1>10

LEMMA AppendedFits ==
    ASSUME ChainInv, NEW n \in Nat
    PROVE  /\ Chain(Appended(n))
           /\ Len(Appended(n)) \in 1..MaxEvents
           /\ ~unmarked \/ Evicted # {} => Named(Appended(n))
<1> DEFINE k == KeepCount(FreshCount)
           top == LatestContent(events)
           s == Survivors
<1>1. Chain(events) /\ clock \in Nat /\ events \in Seq(AuditEvent) /\ MaxEvents \in Nat
  BY DEF ChainInv, Chain
<1>2. k \in 0..Len(events) /\ k + 2 <= MaxEvents /\ Len(events) \in Nat
  BY <1>1, KeepsRoom
<1>3. /\ Evicted = {} <=> k = Len(events)
      /\ k < Len(events) =>
            /\ Max(Evicted) = events[k + 1].content.seq
            /\ Min(Evicted) = events[Len(events)].content.seq
  BY <1>1, EvictedAreLast
<1> HIDE DEF k
<1>4. s = SubSeq(events, 1, k)
  BY DEF Survivors, k
<1>5. Chain(s) /\ s \in Seq(AuditEvent) /\ Len(s) = k /\ \A i \in 1..k : s[i] = events[i]
  BY <1>1, <1>2, <1>4, ChainOfPrefix, PrefixOf
<1>6. /\ events = <<>> => top = [seq |-> 0, n |-> 0]
      /\ events # <<>> => top = events[1].content
      /\ top \in Content
  <2>1. events # <<>> => Head(events) = events[1] /\ events[1] \in AuditEvent
    BY <1>1
  <2> QED BY <2>1 DEF LatestContent, Genesis, Content, AuditEvent
<1>7. s # <<>> => top = s[1].content
  <2>1. s # <<>> => 1 \in 1..k /\ events # <<>>
    BY <1>2, <1>5
  <2> QED BY <1>5, <1>6, <2>1
<1> HIDE DEF top, s
<1>8. CASE Evicted = {}
  <2> DEFINE e == Entry(top, n, {})
             list == <<e>> \o s
  <2>1. Appended(n) = list
    BY <1>8 DEF Appended, top, s
  <2>2. Chain(list) /\ Len(list) = k + 1
    BY <1>1, <1>5, <1>6, <1>7, ChainOfEntry
  <2>3. \A i \in 1..k : list[i + 1] = events[i]
    BY <1>2, <1>5
  <2>4. list[1] = e /\ e.content.seq = top.seq + 1
    BY DEF Entry
  <2> HIDE DEF list, e
  <2>5. ASSUME ~unmarked PROVE Named(list)
    <3>1. CASE k = 0
      <4>1. events = <<>> /\ top.seq = 0
        BY <1>1, <1>3, <1>6, <1>8, <3>1
      <4>2. list[Len(list)].content.seq = 1
        BY <2>2, <2>4, <3>1, <4>1
      <4> QED BY <4>2 DEF Named
    <3>2. CASE k # 0
      <4>1. k \in 1..k /\ k = Len(events) /\ events # <<>>
        BY <1>2, <1>3, <1>8, <3>2
      <4>2. list[Len(list)] = events[Len(events)]
        BY <2>2, <2>3, <4>1
      <4>3. ASSUME events[Len(events)].content.seq > 1
            PROVE  \E i \in 1..Len(list) : events[Len(events)].content.seq - 1 \in list[i].removed
        <5>1. PICK i \in 1..Len(events) : events[Len(events)].content.seq - 1 \in events[i].removed
          BY <2>5, <4>1, <4>3 DEF ChainInv, Named
        <5>2. i + 1 \in 1..Len(list) /\ list[i + 1] = events[i]
          BY <1>2, <2>2, <2>3, <4>1
        <5> QED BY <5>1, <5>2
      <4> QED BY <4>2, <4>3 DEF Named
    <3> QED BY <3>1, <3>2
  <2> QED BY <1>2, <1>8, <2>1, <2>2, <2>5
<1>9. CASE Evicted # {}
  <2> DEFINE gone == Min(Evicted)..Max(Evicted)
             m == Entry(top, 0, gone)
             e == Entry(m.content, n, {})
             r == <<m>> \o s
             list == <<e, m>> \o s
  <2>1. Appended(n) = list
    BY <1>9 DEF Appended, top, s
  <2>2. k < Len(events) /\ k + 1 \in 1..Len(events) /\ Len(events) \in 1..Len(events)
        /\ events # <<>>
    BY <1>1, <1>2, <1>3, <1>9
  <2>3. \A i \in 1..Len(events) : /\ events[i].content.seq \in Nat
                                  /\ events[i].content.seq = events[1].content.seq + 1 - i
    <3>1. \A i \in 1..Len(events) : events[i] \in AuditEvent
      BY <1>1
    <3>2. \A i \in 1..Len(events) : events[i].content.seq = events[1].content.seq + 1 - i
      BY <1>1 DEF Chain
    <3> QED BY <3>1, <3>2 DEF AuditEvent, Content
  <2>4. gone \in SUBSET Nat /\ events[k + 1].content.seq \in gone
    <3>1. /\ Max(Evicted) = events[k + 1].content.seq /\ events[k + 1].content.seq \in Nat
          /\ Min(Evicted) = events[Len(events)].content.seq
          /\ events[Len(events)].content.seq \in Nat
      BY <1>3, <2>2, <2>3
    <3>2. events[Len(events)].content.seq <= events[k + 1].content.seq
      <4>1. 1 \in 1..Len(events)
        BY <2>2
      <4>2. /\ events[1].content.seq \in Nat
            /\ events[k + 1].content.seq = events[1].content.seq + 1 - (k + 1)
            /\ events[Len(events)].content.seq = events[1].content.seq + 1 - Len(events)
        BY <2>2, <2>3, <4>1
      <4> QED BY <1>2, <2>2, <4>2
    <3> QED BY <3>1, <3>2
  <2> HIDE DEF gone
  <2>5. m.content \in Content /\ m.content.seq = top.seq + 1 /\ m.removed = gone
    BY <1>6 DEF Entry, Content
  <2>6. Chain(r) /\ Len(r) = k + 1
    BY <1>1, <1>5, <1>6, <1>7, <2>4, ChainOfEntry
  <2> HIDE DEF m
  <2>7. r[1] = m /\ r # <<>> /\ \A i \in 1..k : r[i + 1] = s[i]
    BY <1>2, <1>5
  <2> HIDE DEF r
  <2>8. Chain(<<e>> \o r) /\ Len(<<e>> \o r) = k + 2
    <3>1. r # <<>> => m.content = r[1].content
      BY <2>7
    <3>2. {} \in SUBSET Nat
      OBVIOUS
    <3>3. Chain(<<e>> \o r) /\ Len(<<e>> \o r) = Len(r) + 1
      BY <1>1, <2>5, <2>6, <3>1, <3>2, ChainOfEntry
    <3> QED BY <1>2, <2>6, <3>3
  <2> HIDE DEF e
  <2>9. list = <<e>> \o r
    BY <1>5 DEF r
  <2>10. list[2] = m /\ \A i \in 1..k : list[i + 2] = s[i]
    BY <1>2, <1>5
  <2> HIDE DEF list
  <2>11. Named(list)
    <3>1. list[Len(list)].content.seq - 1 = events[k + 1].content.seq
      <4>1. CASE k = 0
        <5>1. Len(list) = 2 /\ list[Len(list)] = m
          BY <2>8, <2>9, <2>10, <4>1
        <5>2. top.seq = events[1].content.seq /\ events[1].content.seq \in Nat
          BY <1>6, <2>2, <2>3
        <5> QED BY <2>5, <4>1, <5>1, <5>2
      <4>2. CASE k # 0
        <5>1. k \in 1..k /\ k \in 1..Len(events) /\ 1 \in 1..Len(events)
          BY <1>2, <2>2, <4>2
        <5>2. list[Len(list)] = events[k]
          BY <1>5, <2>8, <2>9, <2>10, <5>1
        <5>3. /\ events[k].content.seq = events[1].content.seq + 1 - k
              /\ events[k + 1].content.seq = events[1].content.seq + 1 - (k + 1)
              /\ events[1].content.seq \in Nat
          BY <2>2, <2>3, <5>1
        <5>4. k \in Int
          BY <1>2
        <5>5. events[k].content.seq - 1 = events[k + 1].content.seq
          BY <5>3, <5>4
        <5> QED BY <5>2, <5>5
      <4> QED BY <4>1, <4>2
    <3>2. 2 \in 1..Len(list) /\ list[2].removed = gone
      BY <1>2, <2>5, <2>8, <2>9, <2>10
    <3> QED BY <2>4, <3>1, <3>2 DEF Named
  <2> QED BY <1>2, <2>1, <2>8, <2>9, <2>11
<1> QED BY <1>8, <1>9

\* What no record of the trail is touched by keeps it in one stretch.
LEMMA ChainKept ==
    ASSUME ChainInv, UNCHANGED <<events, unmarked>>, clock' \in 0..MaxAt, clock <= clock'
    PROVE  Chain(events)' /\ (Len(events) <= MaxEvents)' /\ (~unmarked => Named(events))'
<1>1. Chain(events) /\ clock \in Nat /\ clock' \in Nat /\ events \in Seq(AuditEvent)
  BY DEF ChainInv, Chain
<1>2. \A i \in 1..Len(events) : events[i].at \in Nat
  <2>1. \A i \in 1..Len(events) : events[i] \in AuditEvent
    BY <1>1
  <2> QED BY <2>1 DEF AuditEvent
<1>3. ASSUME NEW i \in 1..Len(events) PROVE events[i].at <= clock'
  <2>1. events[i].at <= clock /\ events[i].at \in Nat
    BY <1>1, <1>2 DEF Chain
  <2> QED BY <1>1, <2>1
<1>4. Chain(events)'
  BY <1>1, <1>3 DEF Chain
<1> QED BY <1>4 DEF ChainInv, Named

LEMMA RecordersTyped ==
    ASSUME ChainInv, NEW c \in Recorders
    PROVE  /\ recorder[c].n \in 0..MaxRecorded
           /\ \A pc \in RecorderPcs :
                 StepTo(c, pc) => recorder' \in [Recorders -> [pc : RecorderPcs, n : 0..MaxRecorded]]
BY DEF ChainInv, StepTo

LEMMA AppendEventChains ==
    ASSUME ChainInv, NEW c \in Recorders, AppendEvent(c)
    PROVE  ChainInv'
<1> DEFINE list == Appended(recorder[c].n)
<1>1. PICK k \in 1..Len(list) :
          /\ events' = SubSeq(list, 1, k)
          /\ unmarked' = (events' # list \/ (unmarked /\ Evicted = {}))
  BY DEF AppendEvent, WithinBytes
<1>2. recorder[c].n \in Nat /\ recorder' \in [Recorders -> [pc : RecorderPcs, n : 0..MaxRecorded]]
  BY RecordersTyped DEF AppendEvent, RecorderPcs
<1>3. /\ Chain(list) /\ Len(list) \in 1..MaxEvents /\ MaxEvents \in Nat
      /\ ~unmarked \/ Evicted # {} => Named(list)
  BY <1>2, AppendedFits
<1> HIDE DEF list
<1>4. Chain(events') /\ Len(events') = k /\ list \in Seq(AuditEvent)
  BY <1>1, <1>3, ChainOfPrefix, PrefixOf DEF Chain
<1>5. Chain(events)'
  BY <1>4 DEF Chain, AppendEvent
<1>6. (~unmarked => Named(events))'
  BY <1>1, <1>3 DEF Named
<1>7. unmarked' \in BOOLEAN
  BY <1>1
<1> QED
  BY <1>2, <1>3, <1>4, <1>5, <1>6, <1>7, OthersKeep DEF ChainInv, AppendEvent

LEMMA CompactChains ==
    ASSUME ChainInv, NEW c \in Recorders, Compact(c)
    PROVE  ChainInv'
<1> DEFINE k == Least(Len(events), MaxEvents \div 2)
<1>1. events \in Seq(AuditEvent) /\ Chain(events) /\ MaxEvents \in Nat /\ Len(events) <= MaxEvents
  BY DEF ChainInv, Chain
<1>2. k \in 0..Len(events)
  BY <1>1 DEF Least
<1> HIDE DEF k
<1>3. events' = SubSeq(events, 1, k) /\ unmarked' = (unmarked \/ events' # events)
  BY DEF Compact, k
<1>4. Chain(events') /\ Len(events') = k
  BY <1>1, <1>2, <1>3, ChainOfPrefix, PrefixOf
<1>5. Chain(events)'
  BY <1>4 DEF Chain, Compact
<1>6. (~unmarked => Named(events))' /\ unmarked' \in BOOLEAN
  BY <1>3 DEF ChainInv, Named
<1>7. recorder' \in [Recorders -> [pc : RecorderPcs, n : 0..MaxRecorded]]
  BY RecordersTyped DEF Compact, RecorderPcs
<1>8. (Len(events) <= MaxEvents)'
  BY <1>1, <1>2, <1>4
<1> QED
  BY <1>5, <1>6, <1>7, <1>8, OthersKeep DEF ChainInv, Compact

\* A step that touches no record.
LEMMA OthersChain ==
    ASSUME ChainInv, TrailInv', UNCHANGED <<events, unmarked>>,
           clock' \in 0..MaxAt, clock <= clock', recorded' \in 0..MaxRecorded,
           recorder' \in [Recorders -> [pc : RecorderPcs, n : 0..MaxRecorded]]
    PROVE  ChainInv'
BY ChainKept DEF ChainInv

LEMMA ChainStep ==
    ASSUME ChainInv, TrailNext
    PROVE  ChainInv'
<1>1. TrailInv'
  BY TrailStep DEF ChainInv
<1>2. clock \in 0..MaxAt /\ clock \in Nat /\ clock <= clock
  BY DEF ChainInv
<1>3. CASE Later
  BY <1>1, <1>2, <1>3, OthersChain DEF Later, ChainInv
<1>4. ASSUME NEW c \in Recorders, RecordEvent(c) \/ Acknowledge(c) PROVE ChainInv'
  <2>1. recorded' = recorded + 1 /\ recorded < MaxRecorded /\ recorded \in 0..MaxRecorded
    BY <1>4 DEF RecordEvent, Acknowledge, Begins, ChainInv
  <2>2. recorded' \in 0..MaxRecorded
    BY <2>1
  <2>3. \/ recorder' = [recorder EXCEPT ![c] = [pc |-> "appending", n |-> recorded']]
        \/ recorder' = recorder
    BY <1>4 DEF RecordEvent, Acknowledge
  <2>4. recorder' \in [Recorders -> [pc : RecorderPcs, n : 0..MaxRecorded]]
    BY <2>2, <2>3 DEF ChainInv, RecorderPcs
  <2>5. UNCHANGED <<events, clock, unmarked>>
    BY <1>4 DEF RecordEvent, Acknowledge
  <2> QED BY <1>1, <1>2, <2>2, <2>4, <2>5, OthersChain
<1>5. ASSUME NEW c \in Recorders, AppendFails(c) \/ LoseEvent(c) PROVE ChainInv'
  <2>1. recorder' \in [Recorders -> [pc : RecorderPcs, n : 0..MaxRecorded]]
    BY <1>5, RecordersTyped DEF AppendFails, LoseEvent, RecorderPcs
  <2>2. UNCHANGED <<events, clock, unmarked, recorded>>
    BY <1>5 DEF AppendFails, LoseEvent
  <2> QED BY <1>1, <1>2, <2>1, <2>2, OthersChain DEF ChainInv
<1> QED
  BY <1>3, <1>4, <1>5, AppendEventChains, CompactChains DEF TrailNext

\* The invariant of the list: it is one stretch of the trail, the newest first, and a marker
\* in it names what left last, unless the byte bound or a retry removed more.
THEOREM ChainInvariant == StorageSpec => []ChainInv
<1>1. StorageInit => ChainInv
  <2> SUFFICES ASSUME StorageInit PROVE ChainInv
    OBVIOUS
  <2>1. Chain(<<>>) /\ Len(<<>>) = 0 /\ Named(<<>>)
    BY DEF Chain, Named
  <2>2. TrailInv
    BY DEF StorageInit, TrailInit, TrailInv, Severities, HEALTHY, CORRUPT
  <2>3. events = <<>> /\ clock = 0 /\ recorded = 0 /\ unmarked = FALSE
    BY DEF StorageInit, TrailInit
  <2>4. recorder \in [Recorders -> [pc : RecorderPcs, n : 0..MaxRecorded]]
    BY DEF StorageInit, TrailInit, NotRecording, RecorderPcs
  <2>5. 0 \in 0..MaxAt /\ 0 \in 0..MaxRecorded /\ 0 <= MaxEvents
    OBVIOUS
  <2> QED BY <2>1, <2>2, <2>3, <2>4, <2>5 DEF ChainInv
<1>2. ChainInv /\ [StorageNext]_storageVars => ChainInv'
  <2> SUFFICES ASSUME ChainInv, [StorageNext]_storageVars PROVE ChainInv'
    OBVIOUS
  <2>1. clock \in 0..MaxAt /\ clock \in Nat /\ clock <= clock
    BY DEF ChainInv
  <2>2. CASE UNCHANGED trailVars
    BY <2>1, <2>2, OthersKeep, OthersChain DEF trailVars, ChainInv
  <2>3. CASE TrailNext
    BY <2>3, ChainStep
  <2>4. CASE WorkerGone
    <3>1. TrailForgets /\ TrailInv'
      BY <2>4, TrailEvicted DEF WorkerGone, ChainInv
    <3>2. recorder' \in [Recorders -> [pc : RecorderPcs, n : 0..MaxRecorded]]
      BY <3>1 DEF TrailForgets, NotRecording, RecorderPcs
    <3> QED BY <2>1, <3>1, <3>2, OthersChain DEF TrailForgets, ChainInv
  <2>5. QED
    BY <2>2, <2>3, <2>4 DEF StorageNext, storageVars
<1>3. QED
  BY <1>1, <1>2, PTL DEF StorageSpec

\* audit-log.ts, append and verifyIntegrity: for any number of recorders, events and faults,
\* any limit and any retention, what is left of the trail is one stretch of it, and its reader
\* can see where it begins.
THEOREM TrailIntactHolds == StorageSpec => []TrailIntact
<1>1. ChainInv => TrailIntact
  <2> SUFFICES ASSUME ChainInv PROVE TrailIntact
    OBVIOUS
  <2> DEFINE n == Len(events)
  <2>1. events \in Seq(AuditEvent) /\ n \in Nat
    BY DEF ChainInv, Chain
  <2>2. \A i \in 1..n : events[i].content.seq \in Nat
    <3>1. \A i \in 1..n : events[i] \in AuditEvent
      BY <2>1
    <3> QED BY <3>1 DEF AuditEvent, Content
  <2>3. ASSUME NEW i \in 1..(n - 1)
        PROVE  /\ events[i].content.seq = events[i + 1].content.seq + 1
               /\ ~(events[i].content.seq <= events[i + 1].content.seq)
               /\ events[i].prevDigest = events[i + 1].content
    <3>1. i \in 1..n /\ i + 1 \in 1..n /\ i < n /\ 1 \in 1..n
      BY <2>1
    <3>2. /\ events[i].content.seq = events[1].content.seq + 1 - i
          /\ events[i + 1].content.seq = events[1].content.seq + 1 - (i + 1)
          /\ events[i].prevDigest = events[i + 1].content
          /\ events[1].content.seq \in Nat
      BY <2>2, <3>1 DEF ChainInv, Chain
    <3> QED BY <3>1, <3>2
  <2>4. /\ Verdict \in {"empty", "ok", "truncated"}
        /\ Verdict = "truncated" => events # <<>> /\ events[n].content.seq > 1
    BY <2>3 DEF Verdict, Last
  <2>5. ASSUME Verdict = "truncated", ~unmarked
        PROVE  \E e \in ToSet(events) : Last(events).content.seq - 1 \in e.removed
    <3>1. PICK i \in 1..n : events[n].content.seq - 1 \in events[i].removed
      BY <2>4, <2>5 DEF ChainInv, Named
    <3> QED BY <2>1, <3>1 DEF ToSet, Last
  <2> QED BY <2>4, <2>5 DEF TrailIntact
<1>2. QED
  BY <1>1, ChainInvariant, PTL

-----------------------------------------------------------------------------
(* Local encryption. *)

USE EncryptionAssumption

Keys == DataKeys \cup {NoKey}

RoutePcs == {"idle", "keying", "flagging", "rewrapping", "unlocking", "listing", "reading",
             "writing", "locking", "lowering", "discarding"}

CopyType  == [record : Records, version : Nat]
RouteType == [pc : RoutePcs, does : {"none", "open", "enable", "disable"}, key : Keys,
              area : SUBSET Records, todo : SUBSET Records, copy : SUBSET CopyType]
WriteType == [pc : {"idle", "routing", "keying", "writing"}, record : SUBSET Records,
              key : Keys, crossing : BOOLEAN]

\* The types, without the bounds.
KeysTyped ==
    /\ flag \in BOOLEAN /\ metadata \in Keys /\ unwrapped \in Keys
    /\ stored \in [Records -> [form : Forms, version : Nat]]
    /\ route \in RouteType /\ write \in WriteType
    /\ writes \in Nat /\ latest \in [Records -> Nat] /\ crossed \subseteq Records

\* What the route has established by the point it is at, and the key that is held.
RouteFits ==
    /\ flag => metadata # NoKey
    /\ unwrapped # NoKey => flag /\ unwrapped = metadata
    /\ RouteAt("idle") => route.does = "none"
    /\ RouteAt("keying") => route.does = "enable" /\ ~flag /\ route.key # NoKey
    /\ RouteAt("flagging") => route.does = "enable" /\ ~flag /\ route.key # NoKey
      /\ metadata = route.key
    /\ RouteAt("rewrapping") => route.does = "open" /\ flag /\ metadata = route.key
    /\ RouteAt("unlocking") => flag /\ metadata = route.key
    /\ route.pc \in {"listing", "reading", "writing"} =>
          Switching /\ flag /\ unwrapped = metadata /\ route.area \in {Credentials, Identity}
    /\ RouteAt("locking") => route.does = "disable" /\ flag
    /\ RouteAt("lowering") => route.does = "disable" /\ flag /\ unwrapped = NoKey
    /\ RouteAt("discarding") => route.does = "disable" /\ ~flag /\ unwrapped = NoKey

Plainly(r) == stored[r].form \in {"none", "plain", "damaged"}

\* Each record that no write crossed is what was last written, and can be read.
RecordsFit ==
    \A r \in Records \ crossed :
        stored[r].version = latest[r] /\ (Plainly(r) \/ (flag /\ stored[r].form = metadata))

\* So is each copy the route has read.
CopiesFit ==
    route.pc \in {"reading", "writing"} =>
        \A c \in route.copy : c.record \in crossed \/ c.version = latest[c.record]

Copied(r) == \E c \in route.copy : c.record = r

\* How far switching off has got.
ProgressFits ==
    route.does = "disable" =>
        /\ route.pc \in {"listing", "reading", "writing"} /\ route.area # Credentials =>
              \A r \in Credentials \ crossed : Plainly(r)
        /\ RouteAt("reading") =>
              \A r \in route.area \ crossed : r \in route.todo \/ Copied(r) \/ Plainly(r)
        /\ RouteAt("writing") => \A r \in route.area \ crossed : Copied(r) \/ Plainly(r)
        /\ route.pc \in {"locking", "lowering", "discarding"} =>
              \A r \in Records \ crossed : Plainly(r)

\* A write that no switch crossed goes where the present state sends it.
WriteFits ==
    ~WriteAt("idle") =>
        /\ \E r \in Records : write.record = {r}
        /\ Switching => write.crossing
        /\ WriteAt("writing") /\ ~write.crossing /\ write.key # NoKey =>
              flag /\ write.key = metadata

KeysInv == KeysTyped /\ RouteFits /\ RecordsFit /\ CopiesFit /\ ProgressFits /\ WriteFits

LEMMA NoKeyIsNone == NoKey \notin DataKeys /\ NoKey \in Keys
BY DEF Keys

\* What a step leaves alone.
LEMMA RouteKept ==
    ASSUME RouteFits, UNCHANGED <<flag, metadata, unwrapped, route>> PROVE RouteFits'
BY DEF RouteFits, RouteAt, Switching

LEMMA RecordsKept ==
    ASSUME RecordsFit, UNCHANGED <<flag, metadata, stored, latest, crossed>> PROVE RecordsFit'
BY DEF RecordsFit, Plainly

LEMMA CopiesKept ==
    ASSUME CopiesFit, UNCHANGED <<route, latest, crossed>> PROVE CopiesFit'
BY DEF CopiesFit

LEMMA ProgressKept ==
    ASSUME ProgressFits, UNCHANGED <<route, stored, crossed>> PROVE ProgressFits'
BY DEF ProgressFits, RouteAt, Plainly, Copied

LEMMA WriteKept ==
    ASSUME WriteFits, UNCHANGED <<flag, metadata, route, write>> PROVE WriteFits'
BY DEF WriteFits, WriteAt, Switching

LEMMA Unpacked ==
    ASSUME KeysInv
    PROVE  KeysTyped /\ RouteFits /\ RecordsFit /\ CopiesFit /\ ProgressFits /\ WriteFits
BY DEF KeysInv

LEMMA EndTyped == NoRoute \in RouteType
BY NoKeyIsNone DEF NoRoute, RouteType, RoutePcs

LEMMA CopyTyped == ASSUME KeysTyped, NEW r \in Records PROVE CopyOf(r) \in CopyType
BY DEF KeysTyped, CopyOf, CopyType

LEMMA OneRecord == ASSUME NEW r, NEW w, w.record = {r} PROVE RecordOf(w) = r
BY DEF RecordOf

\* What is done with one envelope, one copy and one write.
OpenStep(r) ==
    \/ ~Sealed(r) /\ route' = [route EXCEPT !.todo = NotYet(r)]
    \/ route' = [route EXCEPT !.todo = NotYet(r), !.copy = @ \cup {CopyOf(r)}]
    \/ EndRoute

NewForm == IF route.does = "enable" THEN unwrapped ELSE "plain"

ConvertStep(c) ==
    \/ /\ PutForm(c, NewForm)
       /\ route' = [route EXCEPT !.copy = @ \ {c},
                        !.pc = IF route.copy = {c} THEN "reading" ELSE "writing"]
    \/ /\ stored' = stored
       /\ IF route.does = "enable" THEN route' = [route EXCEPT !.pc = "reading", !.copy = {}]
          ELSE EndRoute

WrittenForm == IF write.key = NoKey THEN "plain" ELSE write.key

-----------------------------------------------------------------------------
(* Each action keeps the invariant, one part of it after the other. *)

LEMMA EnableKeeps == ASSUME KeysInv, Enable PROVE KeysInv'
<1>1. KeysTyped'
  BY Unpacked, NoKeyIsNone DEF Enable, KeysTyped, Keys, RouteType, WriteType, CopyType,
     RoutePcs, Forms, RouteAt, Begin, NoRoute
<1>2. RouteFits'
  BY Unpacked, NoKeyIsNone DEF Enable, RouteFits, RouteAt, Switching, Begin, NoRoute
<1>3. RecordsFit'
  BY Unpacked, RecordsKept DEF Enable
<1>4. CopiesFit'
  BY Unpacked, NoKeyIsNone DEF Enable, RouteFits, CopiesFit, RouteAt, Switching, Begin, NoRoute
<1>5. ProgressFits'
  BY Unpacked, NoKeyIsNone DEF Enable, RouteFits, ProgressFits, Plainly, Copied, RouteAt,
     Switching, Begin, NoRoute
<1>6. WriteFits'
  BY Unpacked, NoKeyIsNone DEF Enable, RouteFits, WriteFits, KeysTyped, Keys, RouteType,
     WriteType, CopyType, RoutePcs, Forms, RouteAt, Switching, Begin, NoRoute, WriteAt
<1>7. QED
  BY <1>1, <1>2, <1>3, <1>4, <1>5, <1>6 DEF KeysInv

LEMMA KeepKeyKeeps == ASSUME KeysInv, KeepKey PROVE KeysInv'
<1>1. KeysTyped'
  BY Unpacked, NoKeyIsNone DEF KeepKey, KeysTyped, Keys, RouteType, WriteType, CopyType,
     RoutePcs, Forms, RouteAt, RouteTo, EndRoute, NoRoute, Fault
<1>2. RouteFits'
  BY Unpacked, NoKeyIsNone DEF KeepKey, RouteFits, KeysTyped, Keys, RouteType, WriteType,
     CopyType, RoutePcs, Forms, RouteAt, RouteTo, EndRoute, Switching, NoRoute, Fault
<1>3. RecordsFit'
  BY Unpacked, NoKeyIsNone DEF KeepKey, RouteFits, RecordsFit, Plainly, RouteAt, RouteTo,
     EndRoute, Switching, NoRoute, Fault
<1>4. CopiesFit'
  BY Unpacked, NoKeyIsNone DEF KeepKey, RouteFits, CopiesFit, KeysTyped, Keys, RouteType,
     WriteType, CopyType, RoutePcs, Forms, RouteAt, RouteTo, EndRoute, Switching, NoRoute, Fault
<1>5. ProgressFits'
  BY Unpacked, NoKeyIsNone DEF KeepKey, RouteFits, ProgressFits, Plainly, Copied, KeysTyped,
     Keys, RouteType, WriteType, CopyType, RoutePcs, Forms, RouteAt, RouteTo, EndRoute,
     Switching, NoRoute, Fault
<1>6. WriteFits'
  BY Unpacked, NoKeyIsNone DEF KeepKey, RouteFits, WriteFits, KeysTyped, Keys, RouteType,
     WriteType, CopyType, RoutePcs, Forms, RouteAt, RouteTo, EndRoute, Switching, NoRoute,
     Fault, WriteAt
<1>7. QED
  BY <1>1, <1>2, <1>3, <1>4, <1>5, <1>6 DEF KeysInv

LEMMA RaiseFlagKeeps == ASSUME KeysInv, RaiseFlag PROVE KeysInv'
<1>1. KeysTyped'
  <2>1. flag' \in BOOLEAN /\ route' \in {NoRoute, [route EXCEPT !.pc = "unlocking"]}
    BY Unpacked, NoKeyIsNone, Zenon DEF KeysTyped, RaiseFlag, RouteTo, EndRoute
  <2>2. route' \in RouteType
    <3>1. route \in RouteType
      BY Unpacked DEF KeysTyped
    <3>2. QED
      BY <2>1, <3>1, EndTyped DEF RouteType, RoutePcs
  <2>3. QED
    BY <2>1, <2>2, Unpacked, NoKeyIsNone DEF KeysTyped, RaiseFlag
<1>2. RouteFits'
  BY Unpacked, NoKeyIsNone DEF RaiseFlag, RouteFits, KeysTyped, Keys, RouteType, WriteType,
     CopyType, RoutePcs, Forms, RouteAt, RouteTo, EndRoute, Switching, NoRoute, Fault
<1>3. RecordsFit'
  BY Unpacked, NoKeyIsNone DEF RaiseFlag, RouteFits, RecordsFit, Plainly, RouteAt, RouteTo,
     EndRoute, Switching, NoRoute, Fault
<1>4. CopiesFit'
  BY Unpacked, NoKeyIsNone DEF RaiseFlag, RouteFits, CopiesFit, KeysTyped, Keys, RouteType,
     WriteType, CopyType, RoutePcs, Forms, RouteAt, RouteTo, EndRoute, Switching, NoRoute, Fault
<1>5. ProgressFits'
  BY Unpacked, NoKeyIsNone DEF RaiseFlag, RouteFits, ProgressFits, Plainly, Copied, KeysTyped,
     Keys, RouteType, WriteType, CopyType, RoutePcs, Forms, RouteAt, RouteTo, EndRoute,
     Switching, NoRoute, Fault
<1>6. WriteFits'
  BY Unpacked, NoKeyIsNone DEF RaiseFlag, RouteFits, WriteFits, RouteAt, RouteTo, EndRoute,
     Switching, NoRoute, Fault, WriteAt
<1>7. QED
  BY <1>1, <1>2, <1>3, <1>4, <1>5, <1>6 DEF KeysInv

LEMMA UnlockKeeps == ASSUME KeysInv, Unlock PROVE KeysInv'
<1>1. KeysTyped'
  BY Unpacked, NoKeyIsNone DEF Unlock, KeysTyped, Keys, RouteType, WriteType, CopyType,
     RoutePcs, Forms, RouteAt, Begin, Open, NoRoute
<1>2. RouteFits'
  BY Unpacked, NoKeyIsNone DEF Unlock, RouteFits, RouteAt, Switching, Begin, Open, NoRoute
<1>3. RecordsFit'
  BY Unpacked, RecordsKept DEF Unlock, Open
<1>4. CopiesFit'
  BY Unpacked, NoKeyIsNone DEF Unlock, RouteFits, CopiesFit, RouteAt, Switching, Begin, Open,
     NoRoute
<1>5. ProgressFits'
  BY Unpacked, NoKeyIsNone DEF Unlock, RouteFits, ProgressFits, Plainly, Copied, RouteAt,
     Switching, Begin, Open, NoRoute
<1>6. WriteFits'
  BY Unpacked, NoKeyIsNone DEF Unlock, RouteFits, WriteFits, KeysTyped, Keys, RouteType,
     WriteType, CopyType, RoutePcs, Forms, RouteAt, Switching, Begin, Open, NoRoute, WriteAt
<1>7. QED
  BY <1>1, <1>2, <1>3, <1>4, <1>5, <1>6 DEF KeysInv

LEMMA ChangePassphraseKeeps == ASSUME KeysInv, ChangePassphrase PROVE KeysInv'
<1>1. KeysTyped'
  BY Unpacked, NoKeyIsNone DEF ChangePassphrase, KeysTyped, Keys, RouteType, WriteType,
     CopyType, RoutePcs, Forms, RouteAt, Begin, Open, NoRoute
<1>2. RouteFits'
  BY Unpacked, NoKeyIsNone DEF ChangePassphrase, RouteFits, RouteAt, Switching, Begin, Open,
     NoRoute
<1>3. RecordsFit'
  BY Unpacked, RecordsKept DEF ChangePassphrase, Open
<1>4. CopiesFit'
  BY Unpacked, NoKeyIsNone DEF ChangePassphrase, RouteFits, CopiesFit, RouteAt, Switching,
     Begin, Open, NoRoute
<1>5. ProgressFits'
  BY Unpacked, NoKeyIsNone DEF ChangePassphrase, RouteFits, ProgressFits, Plainly, Copied,
     RouteAt, Switching, Begin, Open, NoRoute
<1>6. WriteFits'
  BY Unpacked, NoKeyIsNone DEF ChangePassphrase, RouteFits, WriteFits, KeysTyped, Keys,
     RouteType, WriteType, CopyType, RoutePcs, Forms, RouteAt, Switching, Begin, Open, NoRoute,
     WriteAt
<1>7. QED
  BY <1>1, <1>2, <1>3, <1>4, <1>5, <1>6 DEF KeysInv

LEMMA DisableKeeps == ASSUME KeysInv, Disable PROVE KeysInv'
<1>1. KeysTyped'
  BY Unpacked, NoKeyIsNone DEF Disable, KeysTyped, Keys, RouteType, WriteType, CopyType,
     RoutePcs, Forms, RouteAt, Begin, Open, NoRoute
<1>2. RouteFits'
  BY Unpacked, NoKeyIsNone DEF Disable, RouteFits, RouteAt, Switching, Begin, Open, NoRoute
<1>3. RecordsFit'
  BY Unpacked, RecordsKept DEF Disable, Open
<1>4. CopiesFit'
  BY Unpacked, NoKeyIsNone DEF Disable, RouteFits, CopiesFit, RouteAt, Switching, Begin, Open,
     NoRoute
<1>5. ProgressFits'
  BY Unpacked, NoKeyIsNone DEF Disable, RouteFits, ProgressFits, Plainly, Copied, RouteAt,
     Switching, Begin, Open, NoRoute
<1>6. WriteFits'
  BY Unpacked, NoKeyIsNone DEF Disable, RouteFits, WriteFits, KeysTyped, Keys, RouteType,
     WriteType, CopyType, RoutePcs, Forms, RouteAt, Switching, Begin, Open, NoRoute, WriteAt
<1>7. QED
  BY <1>1, <1>2, <1>3, <1>4, <1>5, <1>6 DEF KeysInv

LEMMA HoldKeyKeeps == ASSUME KeysInv, HoldKey PROVE KeysInv'
<1>1. KeysTyped'
  <2>1. route' \in {NoRoute, [route EXCEPT !.pc = "listing", !.area = Credentials]}
    BY DEF HoldKey, EndRoute
  <2>2. Credentials \subseteq Records
    BY DEF Credentials
  <2>3. route' \in RouteType
    <3>1. route \in RouteType
      BY Unpacked DEF KeysTyped
    <3>2. QED
      BY <2>1, <2>2, <3>1, EndTyped DEF RouteType, RoutePcs
  <2>4. unwrapped' \in Keys
    BY Unpacked, NoKeyIsNone DEF HoldKey, KeysTyped, RouteType
  <2>5. QED
    BY <2>3, <2>4, Unpacked, NoKeyIsNone DEF KeysTyped, HoldKey
<1>2. RouteFits'
  <2>1. CASE Switching
    <3>1. route' = [route EXCEPT !.pc = "listing", !.area = Credentials]
      BY <2>1 DEF HoldKey
    <3>2. route'.pc = "listing" /\ route'.area = Credentials /\ route'.does = route.does
      BY <3>1, Unpacked, NoKeyIsNone DEF KeysTyped, RouteType
    <3>3. QED
      BY <2>1, <3>2, Unpacked, NoKeyIsNone DEF RouteFits, RouteAt, Switching, HoldKey
  <2>2. CASE ~Switching
    <3>1. route' = NoRoute
      BY <2>2 DEF HoldKey, EndRoute
    <3>2. QED
      BY <3>1, Unpacked, NoKeyIsNone DEF RouteFits, RouteAt, Switching, HoldKey, NoRoute
  <2>3. QED
    BY <2>1, <2>2
<1>3. RecordsFit'
  BY Unpacked, RecordsKept DEF HoldKey
<1>4. CopiesFit'
  <2>1. CASE Switching
    <3>1. route' = [route EXCEPT !.pc = "listing", !.area = Credentials]
      BY <2>1 DEF HoldKey
    <3>2. route'.pc = "listing" /\ route'.area = Credentials /\ route'.does = route.does
      BY <3>1, Unpacked, NoKeyIsNone DEF KeysTyped, RouteType
    <3>3. QED
      BY <3>2 DEF CopiesFit
  <2>2. CASE ~Switching
    <3>1. route' = NoRoute
      BY <2>2 DEF HoldKey, EndRoute
    <3>2. QED
      BY <3>1 DEF CopiesFit, NoRoute
  <2>3. QED
    BY <2>1, <2>2
<1>5. ProgressFits'
  <2>1. CASE Switching
    <3>1. route' = [route EXCEPT !.pc = "listing", !.area = Credentials]
      BY <2>1 DEF HoldKey
    <3>2. route'.pc = "listing" /\ route'.area = Credentials /\ route'.does = route.does
      BY <3>1, Unpacked, NoKeyIsNone DEF KeysTyped, RouteType
    <3>3. QED
      BY <3>2 DEF ProgressFits, RouteAt
  <2>2. CASE ~Switching
    <3>1. route' = NoRoute
      BY <2>2 DEF HoldKey, EndRoute
    <3>2. QED
      BY <3>1 DEF ProgressFits, RouteAt, NoRoute
  <2>3. QED
    BY <2>1, <2>2
<1>6. WriteFits'
  BY Unpacked, NoKeyIsNone DEF HoldKey, RouteFits, WriteFits, RouteAt, EndRoute, Switching,
     NoRoute, WriteAt
<1>7. QED
  BY <1>1, <1>2, <1>3, <1>4, <1>5, <1>6 DEF KeysInv

LEMMA LockKeeps == ASSUME KeysInv, Lock PROVE KeysInv'
<1>1. KeysTyped'
  BY Unpacked, NoKeyIsNone DEF Lock, KeysTyped, Keys, RouteType, WriteType, CopyType, RoutePcs,
     Forms, RouteAt
<1>2. RouteFits'
  BY Unpacked, NoKeyIsNone DEF Lock, RouteFits, RouteAt, Switching
<1>3. RecordsFit'
  BY Unpacked, RecordsKept DEF Lock
<1>4. CopiesFit'
  BY Unpacked, CopiesKept DEF Lock
<1>5. ProgressFits'
  BY Unpacked, ProgressKept DEF Lock
<1>6. WriteFits'
  BY Unpacked, WriteKept DEF Lock
<1>7. QED
  BY <1>1, <1>2, <1>3, <1>4, <1>5, <1>6 DEF KeysInv

LEMMA ListAreaKeeps == ASSUME KeysInv, ListArea PROVE KeysInv'
<1>1. KeysTyped'
  BY Unpacked, NoKeyIsNone DEF ListArea, KeysTyped, Keys, RouteType, WriteType, CopyType,
     RoutePcs, Forms, RouteAt
<1>2. RouteFits'
  BY Unpacked, NoKeyIsNone DEF ListArea, RouteFits, RouteAt, Switching
<1>3. RecordsFit'
  BY Unpacked, RecordsKept DEF ListArea
<1>4. CopiesFit'
  BY Unpacked, NoKeyIsNone DEF ListArea, RouteFits, CopiesFit, RouteAt, Switching
<1>5. ProgressFits'
  BY Unpacked, NoKeyIsNone DEF ListArea, RouteFits, ProgressFits, Plainly, Copied, RouteAt,
     Switching
<1>6. WriteFits'
  BY Unpacked, NoKeyIsNone DEF ListArea, RouteFits, WriteFits, RouteAt, Switching, WriteAt
<1>7. QED
  BY <1>1, <1>2, <1>3, <1>4, <1>5, <1>6 DEF KeysInv

LEMMA ReadPlainKeeps == ASSUME KeysInv, ReadPlain PROVE KeysInv'
<1>1. KeysTyped'
  <2>1. PICK r \in route.todo :
            \/ route' = [route EXCEPT !.todo = NotYet(r)]
            \/ route' = [route EXCEPT !.todo = NotYet(r), !.pc = "writing", !.copy = {CopyOf(r)}]
    BY DEF ReadPlain
  <2>2. r \in Records /\ NotYet(r) \in SUBSET Records /\ {CopyOf(r)} \in SUBSET CopyType
    BY Unpacked, NoKeyIsNone, CopyTyped DEF KeysTyped, RouteType, NotYet
  <2>3. route' \in RouteType
    <3>1. route \in RouteType
      BY Unpacked DEF KeysTyped
    <3>2. QED
      BY <2>1, <2>2, <3>1 DEF RouteType, RoutePcs
  <2>4. QED
    BY <2>3, Unpacked, NoKeyIsNone DEF KeysTyped, ReadPlain
<1>2. RouteFits'
  BY Unpacked, NoKeyIsNone DEF ReadPlain, Sealed, CopyOf, NotYet, RouteFits, RouteAt, Switching
<1>3. RecordsFit'
  BY Unpacked, RecordsKept DEF ReadPlain
<1>4. CopiesFit'
  <2>1. PICK r \in route.todo :
            \/ route' = [route EXCEPT !.todo = NotYet(r)]
            \/ route' = [route EXCEPT !.todo = NotYet(r), !.pc = "writing", !.copy = {CopyOf(r)}]
    BY DEF ReadPlain
  <2>2. r \in Records /\ route \in RouteType /\ RouteAt("reading")
        /\ UNCHANGED <<latest, crossed, stored>>
    BY Unpacked, NoKeyIsNone DEF KeysTyped, RouteType, ReadPlain
  <2>3. CASE route' = [route EXCEPT !.todo = NotYet(r)]
    BY <2>2, <2>3, Unpacked, NoKeyIsNone DEF RouteType, CopiesFit, RouteAt
  <2>4. CASE route' = [route EXCEPT !.todo = NotYet(r), !.pc = "writing", !.copy = {CopyOf(r)}]
    <3>1. route'.copy = {CopyOf(r)}
      BY <2>2, <2>4 DEF RouteType
    <3>2. r \in crossed \/ CopyOf(r).version = latest[CopyOf(r).record]
      BY <2>2, Unpacked, NoKeyIsNone DEF RecordsFit, CopyOf
    <3>3. CopyOf(r).record = r
      BY DEF CopyOf
    <3>4. QED
      BY <2>2, <3>1, <3>2, <3>3 DEF CopiesFit
  <2>5. QED
    BY <2>1, <2>3, <2>4
<1>5. ProgressFits'
  BY Unpacked, NoKeyIsNone DEF ReadPlain, Sealed, CopyOf, NotYet, RouteFits, ProgressFits,
     Plainly, Copied, RouteAt, Switching
<1>6. WriteFits'
  BY Unpacked, NoKeyIsNone DEF ReadPlain, Sealed, CopyOf, NotYet, RouteFits, WriteFits, RouteAt,
     Switching, WriteAt
<1>7. QED
  BY <1>1, <1>2, <1>3, <1>4, <1>5, <1>6 DEF KeysInv

LEMMA OpenEnvelopeKeeps == ASSUME KeysInv, OpenEnvelope PROVE KeysInv'
<1>1. KeysTyped'
  <2>1. PICK r \in route.todo : OpenStep(r)
    BY DEF OpenEnvelope, OpenStep
  <2>2. r \in Records /\ route \in RouteType /\ RouteAt("reading") /\ route.does = "disable"
        /\ UNCHANGED <<latest, crossed, stored, flag, metadata, unwrapped>>
    BY Unpacked, NoKeyIsNone DEF KeysTyped, RouteType, OpenEnvelope
  <2>3. NotYet(r) \subseteq Records /\ CopyOf(r) \in CopyType
    BY <2>2, Unpacked, NoKeyIsNone, CopyTyped DEF RouteType, NotYet
  <2>4. route.copy \cup {CopyOf(r)} \subseteq CopyType
    BY <2>2, <2>3 DEF RouteType
  <2>5. route' \in RouteType
    BY <2>1, <2>2, <2>3, <2>4, EndTyped DEF OpenStep, EndRoute, RouteType, RoutePcs
  <2>6. QED
    BY <2>5, Unpacked, NoKeyIsNone DEF KeysTyped, OpenEnvelope
<1>2. RouteFits'
  <2>1. PICK r \in route.todo : OpenStep(r)
    BY DEF OpenEnvelope, OpenStep
  <2>2. r \in Records /\ route \in RouteType /\ RouteAt("reading") /\ route.does = "disable"
        /\ UNCHANGED <<latest, crossed, stored, flag, metadata, unwrapped>>
    BY Unpacked, NoKeyIsNone DEF KeysTyped, RouteType, OpenEnvelope
  <2>3. route' = NoRoute \/ (/\ route'.pc = "reading" /\ route'.does = "disable"
                              /\ route'.area = route.area)
    BY <2>1, <2>2 DEF OpenStep, EndRoute, RouteType, RouteAt
  <2>4. QED
    BY <2>2, <2>3, Unpacked, NoKeyIsNone DEF RouteFits, RouteAt, Switching, NoRoute
<1>3. RecordsFit'
  BY Unpacked, RecordsKept DEF OpenEnvelope
<1>4. CopiesFit'
  <2>1. PICK r \in route.todo : OpenStep(r)
    BY DEF OpenEnvelope, OpenStep
  <2>2. r \in Records /\ route \in RouteType /\ RouteAt("reading") /\ route.does = "disable"
        /\ UNCHANGED <<latest, crossed, stored, flag, metadata, unwrapped>>
    BY Unpacked, NoKeyIsNone DEF KeysTyped, RouteType, OpenEnvelope
  <2>3. CASE route' = NoRoute
    BY <2>3 DEF CopiesFit, NoRoute
  <2>4. CASE route' = [route EXCEPT !.todo = NotYet(r)]
    BY <2>2, <2>4, Unpacked, NoKeyIsNone DEF RouteType, CopiesFit, RouteAt
  <2>5. CASE route' = [route EXCEPT !.todo = NotYet(r), !.copy = @ \cup {CopyOf(r)}]
    <3>1. route'.copy = route.copy \cup {CopyOf(r)}
      BY <2>2, <2>5 DEF RouteType
    <3>2. r \in crossed \/ CopyOf(r).version = latest[CopyOf(r).record]
      BY <2>2, Unpacked, NoKeyIsNone DEF RecordsFit, CopyOf
    <3>3. CopyOf(r).record = r
      BY DEF CopyOf
    <3>4. \A c \in route.copy : c.record \in crossed \/ c.version = latest[c.record]
      BY <2>2, Unpacked, NoKeyIsNone DEF CopiesFit, RouteAt
    <3>5. QED
      BY <2>2, <3>1, <3>2, <3>3, <3>4 DEF CopiesFit
  <2>6. QED
    BY <2>1, <2>3, <2>4, <2>5 DEF OpenStep, EndRoute
<1>5. ProgressFits'
  <2>1. PICK r \in route.todo : OpenStep(r)
    BY DEF OpenEnvelope, OpenStep
  <2>2. r \in Records /\ route \in RouteType /\ RouteAt("reading") /\ route.does = "disable"
        /\ UNCHANGED <<latest, crossed, stored, flag, metadata, unwrapped>>
    BY Unpacked, NoKeyIsNone DEF KeysTyped, RouteType, OpenEnvelope
  <2>3. CASE route' = NoRoute
    BY <2>3 DEF ProgressFits, NoRoute
  <2>4. ASSUME route' # NoRoute PROVE ProgressFits'
    <3>1. /\ route'.pc = "reading" /\ route'.does = "disable" /\ route'.area = route.area
          /\ route'.todo = NotYet(r) /\ route.copy \subseteq route'.copy
      BY <2>1, <2>2, <2>4 DEF OpenStep, EndRoute, RouteType, RouteAt
    <3>2. ~Sealed(r) \/ CopyOf(r) \in route'.copy
      BY <2>1, <2>2, <2>4 DEF OpenStep, EndRoute, RouteType
    <3>3. Copied(r)' \/ Plainly(r)'
      BY <2>2, <3>2 DEF Copied, CopyOf, Plainly, Sealed
    <3>4. \A q \in route.area \ crossed : (q \in route.todo \/ Copied(q) \/ Plainly(q))
      BY <2>2, Unpacked, NoKeyIsNone DEF ProgressFits
    <3>5. \A q \in Records : (Copied(q) => Copied(q)') /\ (Plainly(q) => Plainly(q)')
      BY <2>2, <3>1 DEF Copied, Plainly
    <3>6. \A q \in route.area \ crossed : q \in NotYet(r) \/ Copied(q)' \/ Plainly(q)'
      BY <2>2, <3>3, <3>4, <3>5 DEF NotYet, RouteType
    <3>7. route.area # Credentials => \A q \in Credentials \ crossed : Plainly(q)'
      BY <2>2, <3>5, Unpacked, NoKeyIsNone DEF ProgressFits, RouteAt, Credentials
    <3>8. QED
      BY <2>2, <3>1, <3>6, <3>7 DEF ProgressFits, RouteAt
  <2>5. QED
    BY <2>3, <2>4
<1>6. WriteFits'
  BY Unpacked, NoKeyIsNone DEF OpenEnvelope, Sealed, Opens, CopyOf, NotYet, RouteFits,
     WriteFits, RouteAt, EndRoute, Switching, NoRoute, WriteAt
<1>7. QED
  BY <1>1, <1>2, <1>3, <1>4, <1>5, <1>6 DEF KeysInv

LEMMA ConvertKeeps == ASSUME KeysInv, Convert PROVE KeysInv'
<1>1. KeysTyped'
  <2>1. PICK c \in route.copy : ConvertStep(c)
    BY DEF Convert, ConvertStep, NewForm
  <2>2. c \in CopyType /\ route \in RouteType /\ RouteAt("writing") /\ KeysTyped
        /\ UNCHANGED <<latest, crossed, flag, metadata, unwrapped>>
    BY Unpacked, NoKeyIsNone DEF KeysTyped, RouteType, Convert
  <2>3. Switching /\ flag /\ unwrapped = metadata /\ unwrapped \in DataKeys
        /\ route.area \in {Credentials, Identity}
    BY <2>2, Unpacked, NoKeyIsNone DEF RouteFits, RouteAt, KeysTyped, Keys
  <2>4. NewForm \in Forms
    BY <2>3 DEF NewForm, Forms
  <2>5. stored' \in [Records -> [form : Forms, version : Nat]]
    BY <2>1, <2>2, <2>4 DEF ConvertStep, PutForm, CopyType, KeysTyped
  <2>6. route.copy \ {c} \subseteq CopyType
    BY <2>2 DEF RouteType
  <2>7. route' \in RouteType
    BY <2>1, <2>2, <2>6, EndTyped DEF ConvertStep, EndRoute, RouteType, RoutePcs
  <2>8. QED
    BY <2>2, <2>5, <2>7 DEF KeysTyped, Convert
<1>2. RouteFits'
  <2>1. PICK c \in route.copy : ConvertStep(c)
    BY DEF Convert, ConvertStep, NewForm
  <2>2. c \in CopyType /\ route \in RouteType /\ RouteAt("writing") /\ KeysTyped
        /\ UNCHANGED <<latest, crossed, flag, metadata, unwrapped>>
    BY Unpacked, NoKeyIsNone DEF KeysTyped, RouteType, Convert
  <2>3. Switching /\ flag /\ unwrapped = metadata /\ unwrapped \in DataKeys
        /\ route.area \in {Credentials, Identity}
    BY <2>2, Unpacked, NoKeyIsNone DEF RouteFits, RouteAt, KeysTyped, Keys
  <2>4. route' = NoRoute \/ (/\ route'.pc \in {"reading", "writing"} /\ route'.does = route.does
                              /\ route'.area = route.area)
    BY <2>1, <2>2 DEF ConvertStep, EndRoute, RouteType
  <2>5. QED
    BY <2>2, <2>3, <2>4, Unpacked, NoKeyIsNone DEF RouteFits, RouteAt, Switching, NoRoute
<1>3. RecordsFit'
  <2>1. PICK c \in route.copy : ConvertStep(c)
    BY DEF Convert, ConvertStep, NewForm
  <2>2. c \in CopyType /\ route \in RouteType /\ RouteAt("writing") /\ KeysTyped
        /\ UNCHANGED <<latest, crossed, flag, metadata, unwrapped>>
    BY Unpacked, NoKeyIsNone DEF KeysTyped, RouteType, Convert
  <2>3. Switching /\ flag /\ unwrapped = metadata /\ unwrapped \in DataKeys
        /\ route.area \in {Credentials, Identity}
    BY <2>2, Unpacked, NoKeyIsNone DEF RouteFits, RouteAt, KeysTyped, Keys
  <2>4. c.record \in crossed \/ c.version = latest[c.record]
    BY <2>2, Unpacked, NoKeyIsNone DEF CopiesFit, RouteAt
  <2>5. CASE stored' = stored
    BY <2>2, <2>5, Unpacked, NoKeyIsNone, RecordsKept
  <2>6. CASE PutForm(c, NewForm)
    <3>1. /\ stored'[c.record] = [form |-> NewForm, version |-> c.version]
          /\ \A r \in Records : r # c.record => stored'[r] = stored[r]
      BY <2>2, <2>6 DEF PutForm, KeysTyped, CopyType
    <3>2. NewForm \in {"plain", metadata}
      BY <2>3 DEF NewForm
    <3>3. ASSUME NEW r \in Records \ crossed
          PROVE  stored'[r].version = latest[r]
                 /\ (Plainly(r)' \/ (flag /\ stored'[r].form = metadata))
      <4>1. CASE r = c.record
        BY <2>3, <2>4, <3>1, <3>2, <4>1 DEF Plainly
      <4>2. CASE r # c.record
        BY <3>1, <4>2, Unpacked, NoKeyIsNone DEF RecordsFit, Plainly
      <4>3. QED
        BY <4>1, <4>2
    <3>4. QED
      BY <2>2, <3>3 DEF RecordsFit
  <2>7. QED
    BY <2>1, <2>5, <2>6 DEF ConvertStep
<1>4. CopiesFit'
  <2>1. PICK c \in route.copy : ConvertStep(c)
    BY DEF Convert, ConvertStep, NewForm
  <2>2. c \in CopyType /\ route \in RouteType /\ RouteAt("writing") /\ KeysTyped
        /\ UNCHANGED <<latest, crossed, flag, metadata, unwrapped>>
    BY Unpacked, NoKeyIsNone DEF KeysTyped, RouteType, Convert
  <2>3. Switching /\ flag /\ unwrapped = metadata /\ unwrapped \in DataKeys
        /\ route.area \in {Credentials, Identity}
    BY <2>2, Unpacked, NoKeyIsNone DEF RouteFits, RouteAt, KeysTyped, Keys
  <2>4. route'.copy \subseteq route.copy
    <3>1. CASE route' = NoRoute
      BY <3>1 DEF NoRoute
    <3>2. CASE route' = [route EXCEPT !.copy = @ \ {c},
                             !.pc = IF route.copy = {c} THEN "reading" ELSE "writing"]
      BY <2>2, <3>2 DEF RouteType
    <3>3. CASE route' = [route EXCEPT !.pc = "reading", !.copy = {}]
      BY <2>2, <3>3 DEF RouteType
    <3>4. QED
      BY <2>1, <3>1, <3>2, <3>3 DEF ConvertStep, EndRoute
  <2>5. \A k \in route.copy : k.record \in crossed \/ k.version = latest[k.record]
    BY <2>2, Unpacked, NoKeyIsNone DEF CopiesFit, RouteAt
  <2>6. QED
    BY <2>2, <2>4, <2>5 DEF CopiesFit
<1>5. ProgressFits'
  <2>1. PICK c \in route.copy : ConvertStep(c)
    BY DEF Convert, ConvertStep, NewForm
  <2>2. c \in CopyType /\ route \in RouteType /\ RouteAt("writing") /\ KeysTyped
        /\ UNCHANGED <<latest, crossed, flag, metadata, unwrapped>>
    BY Unpacked, NoKeyIsNone DEF KeysTyped, RouteType, Convert
  <2>3. Switching /\ flag /\ unwrapped = metadata /\ unwrapped \in DataKeys
        /\ route.area \in {Credentials, Identity}
    BY <2>2, Unpacked, NoKeyIsNone DEF RouteFits, RouteAt, KeysTyped, Keys
  <2>4. CASE route' = NoRoute
    BY <2>4 DEF ProgressFits, NoRoute
  <2>5. CASE route.does = "enable"
    BY <2>1, <2>2, <2>5 DEF ConvertStep, EndRoute, RouteType, NoRoute, ProgressFits
  <2>6. ASSUME route.does = "disable", route' # NoRoute PROVE ProgressFits'
    <3>1. /\ PutForm(c, "plain")
          /\ route' = [route EXCEPT !.copy = @ \ {c},
                           !.pc = IF route.copy = {c} THEN "reading" ELSE "writing"]
      BY <2>1, <2>6 DEF ConvertStep, NewForm, EndRoute
    <3>2. /\ route'.does = "disable" /\ route'.area = route.area /\ route'.copy = route.copy \ {c}
          /\ route'.pc = IF route.copy = {c} THEN "reading" ELSE "writing"
      BY <2>2, <2>6, <3>1 DEF RouteType
    <3>3. Plainly(c.record)' /\ \A q \in Records : Plainly(q) => Plainly(q)'
      BY <2>2, <3>1 DEF PutForm, KeysTyped, CopyType, Plainly
    <3>4. \A q \in Records : Copied(q) => Copied(q)' \/ Plainly(q)'
      BY <3>2, <3>3 DEF Copied
    <3>5. \A q \in route.area \ crossed : Copied(q) \/ Plainly(q)
      BY <2>2, <2>6, Unpacked, NoKeyIsNone DEF ProgressFits
    <3>6. \A q \in route.area \ crossed : Copied(q)' \/ Plainly(q)'
      BY <2>2, <3>3, <3>4, <3>5 DEF RouteType
    <3>7. route.area # Credentials => \A q \in Credentials \ crossed : Plainly(q)'
      BY <2>2, <2>6, <3>3, Unpacked, NoKeyIsNone DEF ProgressFits, RouteAt, Credentials
    <3>8. QED
      BY <2>2, <3>2, <3>6, <3>7 DEF ProgressFits, RouteAt
  <2>7. QED
    BY <2>3, <2>4, <2>5, <2>6 DEF Switching
<1>6. WriteFits'
  BY Unpacked, NoKeyIsNone DEF Convert, PutForm, RouteFits, WriteFits, RouteAt, EndRoute,
     Switching, NoRoute, Fault, WriteAt
<1>7. QED
  BY <1>1, <1>2, <1>3, <1>4, <1>5, <1>6 DEF KeysInv

LEMMA AreaDoneKeeps == ASSUME KeysInv, AreaDone PROVE KeysInv'
<1>1. KeysTyped'
  BY Unpacked, NoKeyIsNone DEF AreaDone, KeysTyped, Keys, RouteType, WriteType, CopyType,
     RoutePcs, Forms, RouteAt, NoRoute
<1>2. RouteFits'
  BY Unpacked, NoKeyIsNone DEF AreaDone, RouteFits, RouteAt, Switching, NoRoute
<1>3. RecordsFit'
  BY Unpacked, RecordsKept DEF AreaDone
<1>4. CopiesFit'
  BY Unpacked, NoKeyIsNone DEF AreaDone, RouteFits, CopiesFit, RouteAt, Switching, NoRoute
<1>5. ProgressFits'
  <2>1. /\ route \in RouteType /\ RouteAt("reading") /\ route.todo = {}
        /\ UNCHANGED <<stored, crossed>> /\ route.area \in {Credentials, Identity} /\ Switching
    BY Unpacked, NoKeyIsNone DEF AreaDone, KeysTyped, RouteFits, RouteAt
  <2>2. SUFFICES ASSUME route.does = "disable", route' # NoRoute PROVE ProgressFits'
    BY <2>1, Unpacked DEF AreaDone, ProgressFits, NoRoute, Switching, RouteType
  <2>3. /\ \A q \in route.area \ crossed : Copied(q) \/ Plainly(q)
        /\ route.area # Credentials => \A q \in Credentials \ crossed : Plainly(q)
    BY <2>1, <2>2, Unpacked DEF ProgressFits, RouteAt
  <2>4. CASE route.copy # {}
    <3>1. route' = [route EXCEPT !.pc = "writing"]
      BY <2>2, <2>4 DEF AreaDone
    <3>2. /\ route'.pc = "writing" /\ route'.does = "disable" /\ route'.area = route.area
          /\ route'.copy = route.copy
      BY <2>1, <2>2, <3>1 DEF RouteType
    <3>3. QED
      BY <2>1, <2>3, <3>2 DEF ProgressFits, RouteAt, Copied, Plainly
  <2>5. CASE route.copy = {}
    <3>1. \A q \in route.area \ crossed : Plainly(q)
      BY <2>3, <2>5 DEF Copied
    <3>2. CASE route.area # Identity
      <4>1. route' = [route EXCEPT !.pc = "listing", !.area = Identity]
        BY <2>2, <2>5, <3>2 DEF AreaDone
      <4>2. route'.pc = "listing" /\ route'.does = "disable" /\ route'.area = Identity
        BY <2>1, <2>2, <4>1 DEF RouteType
      <4>3. \A q \in Credentials \ crossed : Plainly(q)
        BY <2>1, <3>1, <3>2
      <4>4. QED
        BY <2>1, <4>2, <4>3 DEF ProgressFits, RouteAt, Plainly
    <3>3. CASE route.area = Identity
      <4>1. route' = [route EXCEPT !.pc = "locking"]
        BY <2>2, <2>5, <3>3 DEF AreaDone
      <4>2. route'.pc = "locking" /\ route'.does = "disable"
        BY <2>1, <2>2, <4>1 DEF RouteType
      <4>3. \A q \in Records \ crossed : Plainly(q)
        BY <2>3, <3>1, <3>3 DEF Credentials
      <4>4. QED
        BY <2>1, <4>2, <4>3 DEF ProgressFits, RouteAt, Plainly
    <3>4. QED
      BY <3>2, <3>3
  <2>6. QED
    BY <2>4, <2>5
<1>6. WriteFits'
  BY Unpacked, NoKeyIsNone DEF AreaDone, RouteFits, WriteFits, RouteAt, Switching, NoRoute,
     WriteAt
<1>7. QED
  BY <1>1, <1>2, <1>3, <1>4, <1>5, <1>6 DEF KeysInv

LEMMA LockFirstKeeps == ASSUME KeysInv, LockFirst PROVE KeysInv'
<1>1. KeysTyped'
  BY Unpacked, NoKeyIsNone DEF LockFirst, KeysTyped, Keys, RouteType, WriteType, CopyType,
     RoutePcs, Forms, RouteAt, RouteTo
<1>2. RouteFits'
  BY Unpacked, NoKeyIsNone DEF LockFirst, RouteFits, RouteAt, RouteTo, Switching
<1>3. RecordsFit'
  BY Unpacked, RecordsKept DEF LockFirst
<1>4. CopiesFit'
  BY Unpacked, NoKeyIsNone DEF LockFirst, RouteFits, CopiesFit, RouteAt, RouteTo, Switching
<1>5. ProgressFits'
  BY Unpacked, NoKeyIsNone DEF LockFirst, RouteFits, ProgressFits, Plainly, Copied, RouteAt,
     RouteTo, Switching
<1>6. WriteFits'
  BY Unpacked, NoKeyIsNone DEF LockFirst, RouteFits, WriteFits, RouteAt, RouteTo, Switching,
     WriteAt
<1>7. QED
  BY <1>1, <1>2, <1>3, <1>4, <1>5, <1>6 DEF KeysInv

LEMMA LowerFlagKeeps == ASSUME KeysInv, LowerFlag PROVE KeysInv'
<1>1. KeysTyped'
  BY Unpacked, NoKeyIsNone DEF LowerFlag, KeysTyped, Keys, RouteType, WriteType, CopyType,
     RoutePcs, Forms, RouteAt, RouteTo
<1>2. RouteFits'
  BY Unpacked, NoKeyIsNone DEF LowerFlag, RouteFits, RouteAt, RouteTo, Switching
<1>3. RecordsFit'
  <2>1. \A r \in Records \ crossed : Plainly(r)
    BY Unpacked, NoKeyIsNone DEF LowerFlag, RouteFits, ProgressFits, RouteAt
  <2>2. QED
    BY <2>1, Unpacked DEF LowerFlag, RecordsFit, Plainly
<1>4. CopiesFit'
  BY Unpacked, NoKeyIsNone DEF LowerFlag, RouteFits, CopiesFit, RouteAt, RouteTo, Switching
<1>5. ProgressFits'
  BY Unpacked, NoKeyIsNone DEF LowerFlag, RouteFits, ProgressFits, Plainly, Copied, RouteAt,
     RouteTo, Switching
<1>6. WriteFits'
  BY Unpacked, NoKeyIsNone DEF LowerFlag, RouteFits, WriteFits, RouteAt, RouteTo, Switching,
     WriteAt
<1>7. QED
  BY <1>1, <1>2, <1>3, <1>4, <1>5, <1>6 DEF KeysInv

LEMMA DiscardKeyKeeps == ASSUME KeysInv, DiscardKey PROVE KeysInv'
<1>1. KeysTyped'
  BY Unpacked, NoKeyIsNone DEF DiscardKey, KeysTyped, Keys, RouteType, WriteType, CopyType,
     RoutePcs, Forms, RouteAt, EndRoute, NoRoute
<1>2. RouteFits'
  BY Unpacked, NoKeyIsNone DEF DiscardKey, RouteFits, RouteAt, EndRoute, Switching, NoRoute
<1>3. RecordsFit'
  BY Unpacked, NoKeyIsNone DEF DiscardKey, RouteFits, RecordsFit, Plainly, RouteAt, EndRoute,
     Switching, NoRoute
<1>4. CopiesFit'
  BY Unpacked, NoKeyIsNone DEF DiscardKey, RouteFits, CopiesFit, RouteAt, EndRoute, Switching,
     NoRoute
<1>5. ProgressFits'
  BY Unpacked, NoKeyIsNone DEF DiscardKey, RouteFits, ProgressFits, Plainly, Copied, RouteAt,
     EndRoute, Switching, NoRoute
<1>6. WriteFits'
  BY Unpacked, NoKeyIsNone DEF DiscardKey, RouteFits, WriteFits, RouteAt, EndRoute, Switching,
     NoRoute, WriteAt
<1>7. QED
  BY <1>1, <1>2, <1>3, <1>4, <1>5, <1>6 DEF KeysInv

LEMMA BeginWriteKeeps == ASSUME KeysInv, BeginWrite PROVE KeysInv'
<1>1. KeysTyped'
  BY Unpacked, NoKeyIsNone DEF BeginWrite, KeysTyped, Keys, RouteType, WriteType, CopyType,
     RoutePcs, Forms, Switching, WriteAt
<1>2. RouteFits'
  BY Unpacked, RouteKept DEF BeginWrite
<1>3. RecordsFit'
  BY Unpacked, RecordsKept DEF BeginWrite
<1>4. CopiesFit'
  BY Unpacked, CopiesKept DEF BeginWrite
<1>5. ProgressFits'
  BY Unpacked, ProgressKept DEF BeginWrite
<1>6. WriteFits'
  <2>1. PICK r \in Records :
            write' = [pc |-> IF flag THEN "routing" ELSE "writing", record |-> {r}, key |-> NoKey,
                      crossing |-> Switching]
    BY DEF BeginWrite
  <2>2. write'.record = {r} /\ write'.key = NoKey /\ write'.crossing = Switching
    BY <2>1
  <2>3. UNCHANGED <<route, flag, metadata>>
    BY DEF BeginWrite
  <2>4. QED
    BY <2>2, <2>3 DEF WriteFits, Switching
<1>7. QED
  BY <1>1, <1>2, <1>3, <1>4, <1>5, <1>6 DEF KeysInv

LEMMA RouteWriteKeeps == ASSUME KeysInv, RouteWrite PROVE KeysInv'
<1>1. KeysTyped'
  <2>1. write' \in {NoWrite, [write EXCEPT !.pc = "keying"]}
    BY DEF RouteWrite, WriteTo
  <2>2. write' \in WriteType
    <3>1. write \in WriteType /\ NoWrite \in WriteType
      BY Unpacked, NoKeyIsNone DEF KeysTyped, WriteType, NoWrite
    <3>2. QED
      BY <2>1, <3>1 DEF WriteType
  <2>3. QED
    BY <2>2, Unpacked, NoKeyIsNone DEF KeysTyped, RouteWrite
<1>2. RouteFits'
  BY Unpacked, RouteKept DEF RouteWrite
<1>3. RecordsFit'
  BY Unpacked, RecordsKept DEF RouteWrite
<1>4. CopiesFit'
  BY Unpacked, CopiesKept DEF RouteWrite
<1>5. ProgressFits'
  BY Unpacked, ProgressKept DEF RouteWrite
<1>6. WriteFits'
  BY Unpacked, NoKeyIsNone DEF RouteWrite, RouteFits, WriteFits, KeysTyped, Keys, RouteType,
     WriteType, CopyType, RoutePcs, Forms, RouteAt, Switching, NoWrite, WriteAt, WriteTo
<1>7. QED
  BY <1>1, <1>2, <1>3, <1>4, <1>5, <1>6 DEF KeysInv

LEMMA KeyForWriteKeeps == ASSUME KeysInv, KeyForWrite PROVE KeysInv'
<1>1. KeysTyped'
  BY Unpacked, NoKeyIsNone DEF KeyForWrite, KeysTyped, Keys, RouteType, WriteType, CopyType,
     RoutePcs, Forms, NoWrite, WriteAt
<1>2. RouteFits'
  BY Unpacked, RouteKept DEF KeyForWrite
<1>3. RecordsFit'
  BY Unpacked, RecordsKept DEF KeyForWrite
<1>4. CopiesFit'
  BY Unpacked, CopiesKept DEF KeyForWrite
<1>5. ProgressFits'
  BY Unpacked, ProgressKept DEF KeyForWrite
<1>6. WriteFits'
  BY Unpacked, NoKeyIsNone DEF KeyForWrite, RouteFits, WriteFits, RouteAt, Switching, NoWrite,
     WriteAt
<1>7. QED
  BY <1>1, <1>2, <1>3, <1>4, <1>5, <1>6 DEF KeysInv

LEMMA StoreRecordKeeps == ASSUME KeysInv, StoreRecord PROVE KeysInv'
<1>1. KeysTyped'
  <2>1. PICK r \in Records : write.record = {r} /\ RecordOf(write) = r
    BY Unpacked, NoKeyIsNone, OneRecord DEF StoreRecord, WriteFits, WriteAt
  <2>2. write \in WriteType /\ write.key \in Keys /\ writes + 1 \in Nat /\ KeysTyped
    BY Unpacked, NoKeyIsNone DEF KeysTyped, WriteType
  <2>3. /\ UNCHANGED <<route, flag, metadata, unwrapped, writes>> /\ write' = NoWrite
        /\ \/ UNCHANGED <<stored, latest, crossed>>
           \/ /\ stored' = [stored EXCEPT ![r] = [form |-> WrittenForm, version |-> writes + 1]]
              /\ latest' = [latest EXCEPT ![r] = writes + 1]
              /\ crossed' = IF write.crossing THEN crossed \cup {r} ELSE crossed \ {r}
    BY <2>1 DEF StoreRecord, Crossing, WrittenForm
  <2>4. WrittenForm \in Forms
    BY <2>2 DEF WrittenForm, Forms, Keys
  <2>5. [form |-> WrittenForm, version |-> writes + 1] \in [form : Forms, version : Nat]
    BY <2>2, <2>4
  <2>6. stored' \in [Records -> [form : Forms, version : Nat]] /\ latest' \in [Records -> Nat]
    BY <2>2, <2>3, <2>5 DEF KeysTyped
  <2>7. crossed' \subseteq Records
    BY <2>1, <2>2, <2>3 DEF KeysTyped
  <2>8. write' \in WriteType
    BY <2>3, NoKeyIsNone DEF WriteType, NoWrite
  <2>9. QED
    BY <2>2, <2>3, <2>6, <2>7, <2>8 DEF KeysTyped
<1>2. RouteFits'
  BY Unpacked, RouteKept DEF StoreRecord
<1>3. RecordsFit'
  <2>1. PICK r \in Records : write.record = {r} /\ RecordOf(write) = r
    BY Unpacked, NoKeyIsNone, OneRecord DEF StoreRecord, WriteFits, WriteAt
  <2>2. write \in WriteType /\ write.key \in Keys /\ writes + 1 \in Nat /\ KeysTyped
    BY Unpacked, NoKeyIsNone DEF KeysTyped, WriteType
  <2>3. /\ UNCHANGED <<route, flag, metadata, unwrapped, writes>> /\ write' = NoWrite
        /\ \/ UNCHANGED <<stored, latest, crossed>>
           \/ /\ stored' = [stored EXCEPT ![r] = [form |-> WrittenForm, version |-> writes + 1]]
              /\ latest' = [latest EXCEPT ![r] = writes + 1]
              /\ crossed' = IF write.crossing THEN crossed \cup {r} ELSE crossed \ {r}
    BY <2>1 DEF StoreRecord, Crossing, WrittenForm
  <2>4. CASE UNCHANGED <<stored, latest, crossed>>
    BY <2>3, <2>4, Unpacked, RecordsKept
  <2>5. ASSUME stored' = [stored EXCEPT ![r] = [form |-> WrittenForm, version |-> writes + 1]],
               latest' = [latest EXCEPT ![r] = writes + 1],
               crossed' = IF write.crossing THEN crossed \cup {r} ELSE crossed \ {r}
        PROVE  RecordsFit'
    <3>1. ~write.crossing => Plainly(r)' \/ (flag /\ stored'[r].form = metadata)
      <4>1. stored'[r].form = WrittenForm
        BY <2>2, <2>5 DEF KeysTyped
      <4>2. ~write.crossing /\ write.key # NoKey => flag /\ write.key = metadata
        BY Unpacked DEF StoreRecord, WriteFits, WriteAt
      <4>3. QED
        BY <4>1, <4>2 DEF WrittenForm, Plainly
    <3>2. stored'[r].version = latest'[r]
      BY <2>2, <2>5 DEF KeysTyped
    <3>3. \A q \in Records : q # r => stored'[q] = stored[q] /\ latest'[q] = latest[q]
                                         /\ (q \in crossed' <=> q \in crossed)
      BY <2>2, <2>5 DEF KeysTyped
    <3>4. r \notin crossed' => ~write.crossing
      BY <2>5
    <3>5. ASSUME NEW q \in Records \ crossed'
          PROVE  stored'[q].version = latest'[q]
                 /\ (Plainly(q)' \/ (flag /\ stored'[q].form = metadata))
      <4>1. CASE q = r
        BY <3>1, <3>2, <3>4, <4>1
      <4>2. CASE q # r
        BY <3>3, <4>2, Unpacked DEF RecordsFit, Plainly
      <4>3. QED
        BY <4>1, <4>2
    <3>6. QED
      BY <2>3, <3>5 DEF RecordsFit
  <2>6. QED
    BY <2>3, <2>4, <2>5
<1>4. CopiesFit'
  <2>1. PICK r \in Records : write.record = {r} /\ RecordOf(write) = r
    BY Unpacked, NoKeyIsNone, OneRecord DEF StoreRecord, WriteFits, WriteAt
  <2>2. write \in WriteType /\ write.key \in Keys /\ writes + 1 \in Nat /\ KeysTyped
    BY Unpacked, NoKeyIsNone DEF KeysTyped, WriteType
  <2>3. /\ UNCHANGED <<route, flag, metadata, unwrapped, writes>> /\ write' = NoWrite
        /\ \/ UNCHANGED <<stored, latest, crossed>>
           \/ /\ stored' = [stored EXCEPT ![r] = [form |-> WrittenForm, version |-> writes + 1]]
              /\ latest' = [latest EXCEPT ![r] = writes + 1]
              /\ crossed' = IF write.crossing THEN crossed \cup {r} ELSE crossed \ {r}
    BY <2>1 DEF StoreRecord, Crossing, WrittenForm
  <2>4. Switching => crossed \subseteq crossed'
        /\ \A q \in Records \ crossed' : stored'[q] = stored[q] /\ latest'[q] = latest[q]
    <3>1. Switching => write.crossing
      BY Unpacked DEF StoreRecord, WriteFits, WriteAt
    <3>2. QED
      BY <2>1, <2>2, <2>3, <3>1 DEF KeysTyped
  <2>5. CASE ~Switching
    BY <2>3, <2>5, Unpacked DEF CopiesFit, RouteFits, Switching
  <2>6. CASE Switching
    <3>1. \A c \in route.copy : c.record \in Records
      BY <2>2 DEF KeysTyped, RouteType, CopyType
    <3>2. QED
      BY <2>3, <2>4, <2>6, <3>1, Unpacked DEF CopiesFit
  <2>7. QED
    BY <2>5, <2>6
<1>5. ProgressFits'
  <2>1. PICK r \in Records : write.record = {r} /\ RecordOf(write) = r
    BY Unpacked, NoKeyIsNone, OneRecord DEF StoreRecord, WriteFits, WriteAt
  <2>2. write \in WriteType /\ write.key \in Keys /\ writes + 1 \in Nat /\ KeysTyped
    BY Unpacked, NoKeyIsNone DEF KeysTyped, WriteType
  <2>3. /\ UNCHANGED <<route, flag, metadata, unwrapped, writes>> /\ write' = NoWrite
        /\ \/ UNCHANGED <<stored, latest, crossed>>
           \/ /\ stored' = [stored EXCEPT ![r] = [form |-> WrittenForm, version |-> writes + 1]]
              /\ latest' = [latest EXCEPT ![r] = writes + 1]
              /\ crossed' = IF write.crossing THEN crossed \cup {r} ELSE crossed \ {r}
    BY <2>1 DEF StoreRecord, Crossing, WrittenForm
  <2>4. Switching => crossed \subseteq crossed'
        /\ \A q \in Records \ crossed' : stored'[q] = stored[q] /\ latest'[q] = latest[q]
    <3>1. Switching => write.crossing
      BY Unpacked DEF StoreRecord, WriteFits, WriteAt
    <3>2. QED
      BY <2>1, <2>2, <2>3, <3>1 DEF KeysTyped
  <2>5. CASE ~Switching
    BY <2>3, <2>5 DEF ProgressFits, Switching
  <2>6. CASE Switching
    <3>1. crossed \subseteq crossed' /\ \A q \in Records \ crossed' : Plainly(q) => Plainly(q)'
      BY <2>4, <2>6 DEF Plainly
    <3>2. Credentials \subseteq Records /\ route.area \subseteq Records
      BY <2>2 DEF KeysTyped, RouteType, Credentials
    <3>3. \A q \in Records : Copied(q) <=> Copied(q)'
      BY <2>3 DEF Copied
    <3>4. QED
      BY <2>3, <3>1, <3>2, <3>3, Unpacked DEF ProgressFits, RouteAt
  <2>7. QED
    BY <2>5, <2>6
<1>6. WriteFits'
  BY Unpacked, NoKeyIsNone DEF StoreRecord, RecordOf, Crossing, RouteFits, WriteFits, RouteAt,
     Switching, NoWrite, Fault, WriteAt
<1>7. QED
  BY <1>1, <1>2, <1>3, <1>4, <1>5, <1>6 DEF KeysInv

LEMMA RemoveStoredKeeps == ASSUME KeysInv, RemoveStored PROVE KeysInv'
<1>1. KeysTyped'
  BY Unpacked, NoKeyIsNone DEF RemoveStored, Crossing, KeysTyped, Keys, RouteType, WriteType,
     CopyType, RoutePcs, Forms, Absent, Switching
<1>2. RouteFits'
  BY Unpacked, RouteKept DEF RemoveStored
<1>3. RecordsFit'
  BY Unpacked, NoKeyIsNone DEF RemoveStored, Crossing, RouteFits, RecordsFit, Plainly,
     KeysTyped, Keys, RouteType, WriteType, CopyType, RoutePcs, Forms, Absent, RouteAt,
     Switching
<1>4. CopiesFit'
  BY Unpacked, NoKeyIsNone DEF RemoveStored, Crossing, RouteFits, CopiesFit, Absent, RouteAt,
     Switching
<1>5. ProgressFits'
  BY Unpacked, NoKeyIsNone DEF RemoveStored, Crossing, RouteFits, ProgressFits, Plainly, Copied,
     Absent, RouteAt, Switching
<1>6. WriteFits'
  BY Unpacked, WriteKept DEF RemoveStored
<1>7. QED
  BY <1>1, <1>2, <1>3, <1>4, <1>5, <1>6 DEF KeysInv

LEMMA KeysForgetKeeps == ASSUME KeysInv, KeysForget PROVE KeysInv'
<1>1. KeysTyped'
  BY Unpacked, NoKeyIsNone DEF KeysForget, KeysTyped, Keys, RouteType, WriteType, CopyType,
     RoutePcs, Forms, Switching, NoRoute, NoWrite
<1>2. RouteFits'
  BY Unpacked, NoKeyIsNone DEF KeysForget, RouteFits, RouteAt, Switching, NoRoute, NoWrite
<1>3. RecordsFit'
  BY Unpacked, RecordsKept DEF KeysForget
<1>4. CopiesFit'
  BY Unpacked, NoKeyIsNone DEF KeysForget, RouteFits, CopiesFit, RouteAt, Switching, NoRoute,
     NoWrite
<1>5. ProgressFits'
  BY Unpacked, NoKeyIsNone DEF KeysForget, RouteFits, ProgressFits, Plainly, Copied, RouteAt,
     Switching, NoRoute, NoWrite
<1>6. WriteFits'
  BY Unpacked, NoKeyIsNone DEF KeysForget, RouteFits, WriteFits, RouteAt, Switching, NoRoute,
     NoWrite, WriteAt
<1>7. QED
  BY <1>1, <1>2, <1>3, <1>4, <1>5, <1>6 DEF KeysInv

-----------------------------------------------------------------------------

LEMMA KeysStart == StorageInit => KeysInv
<1> SUFFICES ASSUME KeysInit PROVE KeysInv
  BY DEF StorageInit
<1>1. PICK present \in SUBSET Records, form \in [Records -> {"plain", "damaged"} \cup DataKeys],
           k \in Keys :
           /\ \A r \in Records : form[r] \in IF k = NoKey THEN {"plain"} ELSE {k, "damaged"}
           /\ flag = (k # NoKey) /\ metadata = k
           /\ stored = [r \in Records |-> IF r \in present THEN [form |-> form[r], version |-> 1]
                                           ELSE Absent]
  BY DEF KeysInit, Keys
<1>2. /\ unwrapped = NoKey /\ route = NoRoute /\ write = NoWrite /\ writes = 0
      /\ latest = [r \in Records |-> stored[r].version] /\ crossed = {}
  BY DEF KeysInit
<1>3. \A r \in Records : stored[r] \in [form : Forms, version : Nat]
  BY <1>1 DEF Forms, Absent
<1>4. KeysTyped
  <2>1. stored \in [Records -> [form : Forms, version : Nat]]
    BY <1>1, <1>3
  <2>2. latest \in [Records -> Nat]
    BY <1>2, <1>3
  <2>3. NoWrite \in WriteType
    BY NoKeyIsNone DEF WriteType, NoWrite
  <2>4. QED
    BY <1>1, <1>2, <2>1, <2>2, <2>3, EndTyped, NoKeyIsNone DEF KeysTyped
<1>5. RouteFits /\ CopiesFit /\ ProgressFits /\ WriteFits
  BY <1>1, <1>2 DEF RouteFits, CopiesFit, ProgressFits, WriteFits, RouteAt, WriteAt, NoRoute,
     NoWrite
<1>6. RecordsFit
  <2>1. \A r \in Records : stored[r].version = latest[r]
    BY <1>2
  <2>2. \A r \in Records : Plainly(r) \/ (flag /\ stored[r].form = metadata)
    BY <1>1 DEF Plainly, Absent
  <2>3. QED
    BY <2>1, <2>2 DEF RecordsFit
<1>7. QED
  BY <1>4, <1>5, <1>6 DEF KeysInv

LEMMA KeysStep == ASSUME KeysInv, KeysNext PROVE KeysInv'
BY EnableKeeps, KeepKeyKeeps, RaiseFlagKeeps, UnlockKeeps, ChangePassphraseKeeps, DisableKeeps,
   HoldKeyKeeps, LockKeeps, ListAreaKeeps, ReadPlainKeeps, OpenEnvelopeKeeps, ConvertKeeps,
   AreaDoneKeeps, LockFirstKeeps, LowerFlagKeeps, DiscardKeyKeeps, BeginWriteKeeps,
   RouteWriteKeeps, KeyForWriteKeeps, StoreRecordKeeps, RemoveStoredKeeps DEF KeysNext

LEMMA KeysUntouched == ASSUME KeysInv, UNCHANGED keysVars PROVE KeysInv'
<1>1. KeysTyped'
  BY Unpacked DEF KeysTyped, keysVars
<1>2. QED
  BY <1>1, Unpacked, RouteKept, RecordsKept, CopiesKept, ProgressKept, WriteKept DEF keysVars,
     KeysInv

\* The invariant of local encryption: at every point of a switch, the flag, the metadata, the
\* key that is held, the copies that were read and the records fit together.
THEOREM KeysInvariant == StorageSpec => []KeysInv
<1>1. KeysInv /\ [StorageNext]_storageVars => KeysInv'
  <2> SUFFICES ASSUME KeysInv, [StorageNext]_storageVars PROVE KeysInv'
    OBVIOUS
  <2>1. CASE UNCHANGED keysVars
    BY <2>1, KeysUntouched
  <2>2. CASE KeysNext
    BY <2>2, KeysStep
  <2>3. CASE WorkerGone
    BY <2>3, KeysForgetKeeps DEF WorkerGone
  <2>4. QED
    BY <2>1, <2>2, <2>3 DEF StorageNext, storageVars
<1>2. QED
  BY <1>1, KeysStart, PTL DEF StorageSpec

\* k1-store.ts and protect-existing.ts: for any number of records, keys and faults, no record
\* is left under a key nobody holds, or in another version than it was last written in.
THEOREM NothingLockedHolds == StorageSpec => []NothingLocked
<1>1. KeysInv => NothingLocked
  BY DEF KeysInv, RouteFits, RecordsFit, Plainly, NothingLocked
<1>2. QED
  BY <1>1, KeysInvariant, PTL

-----------------------------------------------------------------------------
(* Nothing in plain while protection is on.  How far switching on has got, *)
(* and that switching off, when it gives up early, has written nothing.    *)

Guarded(S) == \A r \in S \ crossed : stored[r].form # "plain"

\* Switching off has not written yet.
Unbroken == \/ RouteAt("unlocking")
            \/ RouteAt("listing") /\ route.area # Identity
            \/ RouteAt("reading") /\ route.area # Identity /\ route.todo # {}

\* What switching on has been through.
Enabled ==
    /\ route.pc \in {"listing", "reading", "writing"} /\ route.area # Credentials =>
          Guarded(Credentials)
    /\ route.pc \in {"reading", "writing"} =>
          Guarded({r \in route.area \ route.todo : ~Copied(r)})

SealFits ==
    flag /\ ~lapsed =>
        /\ ~Switching => Guarded(Records)
        /\ route.does = "disable" /\ Unbroken => Guarded(Records)
        /\ route.does = "enable" => Enabled

\* Switching on has one copy at a time, switching off writes when all is read, and a write in
\* plain was begun when protection was off.
SealsFit ==
    /\ route.does = "enable" /\ RouteAt("reading") => route.copy = {}
    /\ route.does = "disable" /\ RouteAt("writing") => route.todo = {}
    /\ WriteAt("writing") /\ ~write.crossing /\ flag => write.key # NoKey

SealInv == SealFits /\ SealsFit

LEMMA EnableSeals == ASSUME KeysInv, SealInv, Enable PROVE SealInv'
<1>1. SealFits'
  BY DEF Enable, SealFits
<1>2. SealsFit'
  BY DEF Enable, SealsFit, Begin, NoRoute
<1> QED BY <1>1, <1>2 DEF SealInv

LEMMA KeepKeySeals == ASSUME KeysInv, SealInv, KeepKey PROVE SealInv'
<1>1. SealFits'
  BY Unpacked DEF KeepKey, SealInv, SealFits, Guarded, Switching, RouteFits, KeysTyped,
     RouteType, RouteTo, EndRoute, NoRoute
<1>2. SealsFit'
  BY Unpacked DEF KeepKey, SealInv, SealsFit, RouteAt, WriteAt, KeysTyped, RouteType, RouteTo,
     EndRoute, NoRoute
<1> QED BY <1>1, <1>2 DEF SealInv

LEMMA RaiseFlagSeals == ASSUME KeysInv, SealInv, RaiseFlag PROVE SealInv'
<1>1. SealFits'
  BY Unpacked DEF RaiseFlag, SealFits, Enabled, Switching, RouteFits, KeysTyped, RouteType,
     RouteTo
<1>2. SealsFit'
  BY Unpacked DEF RaiseFlag, SealsFit, RouteAt, WriteAt, Switching, RouteFits, WriteFits,
     KeysTyped, RouteType, RouteTo, EndRoute, NoRoute
<1> QED BY <1>1, <1>2 DEF SealInv

LEMMA UnlockSeals == ASSUME KeysInv, SealInv, Unlock PROVE SealInv'
<1>1. SealFits'
  BY Unpacked DEF Unlock, SealInv, SealFits, Guarded, Switching, RouteFits, Open, Begin
<1>2. SealsFit'
  BY Unpacked DEF Unlock, SealInv, SealsFit, WriteAt, KeysTyped, WriteType, Open, Begin
<1> QED BY <1>1, <1>2 DEF SealInv

LEMMA ChangePassphraseSeals == ASSUME KeysInv, SealInv, ChangePassphrase PROVE SealInv'
<1>1. SealFits'
  BY Unpacked DEF ChangePassphrase, SealInv, SealFits, Guarded, Switching, RouteFits, Open,
     Begin
<1>2. SealsFit'
  BY Unpacked DEF ChangePassphrase, SealInv, SealsFit, WriteAt, KeysTyped, WriteType, Open,
     Begin
<1> QED BY <1>1, <1>2 DEF SealInv

LEMMA DisableSeals == ASSUME KeysInv, SealInv, Disable PROVE SealInv'
<1>1. SealFits'
  BY Unpacked DEF Disable, SealInv, SealFits, Guarded, Switching, RouteFits, Open, Begin
<1>2. SealsFit'
  BY Unpacked DEF Disable, SealsFit, WriteAt, KeysTyped, WriteType, Open, Begin, NoRoute
<1> QED BY <1>1, <1>2 DEF SealInv

LEMMA LockSeals == ASSUME KeysInv, SealInv, Lock PROVE SealInv'
<1>1. SealFits'
  BY DEF Lock, SealInv, SealFits, Enabled, Unbroken, Guarded, RouteAt, Switching
<1>2. SealsFit'
  BY DEF Lock, SealInv, SealsFit, RouteAt, WriteAt
<1> QED BY <1>1, <1>2 DEF SealInv

LEMMA ListAreaSeals == ASSUME KeysInv, SealInv, ListArea PROVE SealInv'
<1>1. SealFits'
  BY DEF ListArea, SealInv, SealFits, Enabled, Unbroken, Guarded, RouteAt, Switching
<1>2. SealsFit'
  BY DEF ListArea, SealInv, SealsFit, RouteAt, WriteAt
<1> QED BY <1>1, <1>2 DEF SealInv

LEMMA AreaDoneSeals == ASSUME KeysInv, SealInv, AreaDone PROVE SealInv'
<1>1. SealFits'
  BY DEF AreaDone, SealInv, SealFits, SealsFit, Enabled, Unbroken, Guarded, Copied, RouteAt,
     Switching, NoRoute, Credentials
<1>2. SealsFit'
  BY DEF AreaDone, SealInv, SealsFit, WriteAt, NoRoute
<1> QED BY <1>1, <1>2 DEF SealInv

LEMMA LockFirstSeals == ASSUME KeysInv, SealInv, LockFirst PROVE SealInv'
<1>1. SealFits'
  BY DEF LockFirst, SealInv, SealFits, Enabled, Unbroken, Guarded, RouteAt, Switching, RouteTo
<1>2. SealsFit'
  BY DEF LockFirst, SealInv, SealsFit, RouteAt, WriteAt, RouteTo
<1> QED BY <1>1, <1>2 DEF SealInv

LEMMA LowerFlagSeals == ASSUME KeysInv, SealInv, LowerFlag PROVE SealInv'
<1>1. SealFits'
  BY DEF LowerFlag, SealFits
<1>2. SealsFit'
  BY DEF LowerFlag, SealsFit, RouteAt, RouteTo
<1> QED BY <1>1, <1>2 DEF SealInv

LEMMA DiscardKeySeals == ASSUME KeysInv, SealInv, DiscardKey PROVE SealInv'
<1>1. SealFits'
  BY Unpacked DEF DiscardKey, SealFits, RouteFits
<1>2. SealsFit'
  BY DEF DiscardKey, SealInv, SealsFit, WriteAt, EndRoute, NoRoute
<1> QED BY <1>1, <1>2 DEF SealInv

LEMMA BeginWriteSeals == ASSUME KeysInv, SealInv, BeginWrite PROVE SealInv'
<1>1. SealFits'
  BY DEF BeginWrite, SealInv, SealFits, Enabled, Unbroken, Guarded, Copied, RouteAt, Switching
<1>2. SealsFit'
  BY DEF BeginWrite, SealInv, SealsFit, RouteAt, WriteAt
<1> QED BY <1>1, <1>2 DEF SealInv

LEMMA RouteWriteSeals == ASSUME KeysInv, SealInv, RouteWrite PROVE SealInv'
<1>1. SealFits'
  BY DEF RouteWrite, SealInv, SealFits, Enabled, Unbroken, Guarded, Copied, RouteAt, Switching
<1>2. SealsFit'
  BY Unpacked DEF RouteWrite, SealInv, SealsFit, RouteAt, WriteAt, KeysTyped, WriteType,
     WriteTo, NoWrite
<1> QED BY <1>1, <1>2 DEF SealInv

LEMMA KeyForWriteSeals == ASSUME KeysInv, SealInv, KeyForWrite PROVE SealInv'
<1>1. SealFits'
  BY DEF KeyForWrite, SealInv, SealFits, Enabled, Unbroken, Guarded, Copied, RouteAt,
     Switching
<1>2. SealsFit'
  BY DEF KeyForWrite, SealInv, SealsFit, RouteAt, WriteAt, NoWrite
<1> QED BY <1>1, <1>2 DEF SealInv

LEMMA RemoveStoredSeals == ASSUME KeysInv, SealInv, RemoveStored PROVE SealInv'
<1>1. SealFits'
  BY Unpacked DEF RemoveStored, SealInv, SealFits, Enabled, Unbroken, Guarded, Copied,
     RouteAt, Switching, KeysTyped, Crossing, Absent
<1>2. SealsFit'
  BY DEF RemoveStored, SealInv, SealsFit, RouteAt, WriteAt
<1> QED BY <1>1, <1>2 DEF SealInv

LEMMA KeysForgetSeals == ASSUME KeysInv, SealInv, KeysForget PROVE SealInv'
<1>1. SealFits'
  BY DEF KeysForget, SealInv, SealFits, Guarded, NoRoute
<1>2. SealsFit'
  BY DEF KeysForget, SealsFit, WriteAt, NoRoute, NoWrite
<1> QED BY <1>1, <1>2 DEF SealInv

LEMMA HoldKeySeals == ASSUME KeysInv, SealInv, HoldKey PROVE SealInv'
<1>1. /\ RouteAt("unlocking") /\ UNCHANGED <<flag, stored, write, crossed, lapsed>>
      /\ route \in RouteType
  BY Unpacked DEF HoldKey, KeysTyped
<1>2. CASE Switching
  <2>1. /\ route'.pc = "listing" /\ route'.does = route.does /\ route'.area = Credentials
    BY <1>1, <1>2 DEF HoldKey, RouteType
  <2>2. SealFits'
    BY <1>1, <1>2, <2>1 DEF SealInv, SealFits, Enabled, Unbroken, Guarded, RouteAt, Switching
  <2>3. SealsFit'
    BY <1>1, <2>1 DEF SealInv, SealsFit, RouteAt, WriteAt
  <2> QED BY <2>2, <2>3 DEF SealInv
<1>3. CASE ~Switching
  <2>1. route'.pc = "idle" /\ route'.does = "none"
    BY <1>3 DEF HoldKey, EndRoute, NoRoute
  <2>2. SealFits'
    BY <1>1, <1>3, <2>1 DEF SealInv, SealFits, Guarded, Switching
  <2>3. SealsFit'
    BY <1>1, <2>1 DEF SealInv, SealsFit, RouteAt, WriteAt
  <2> QED BY <2>2, <2>3 DEF SealInv
<1> QED BY <1>2, <1>3

\* A plain record that is taken off the list is copied.
LEMMA ReadPlainSeals == ASSUME KeysInv, SealInv, ReadPlain PROVE SealInv'
<1>1. /\ RouteAt("reading") /\ route.does = "enable" /\ route.copy = {}
      /\ UNCHANGED <<flag, stored, write, crossed, lapsed>> /\ route \in RouteType
  BY Unpacked DEF ReadPlain, KeysTyped, SealInv, SealsFit
<1>2. PICK r \in route.todo :
          route' = IF Sealed(r) \/ stored[r].form = "none"
                   THEN [route EXCEPT !.todo = NotYet(r)]
                   ELSE [route EXCEPT !.todo = NotYet(r), !.pc = "writing", !.copy = {CopyOf(r)}]
  BY DEF ReadPlain
<1>3. route'.does = "enable" /\ route'.area = route.area /\ route'.todo = route.todo \ {r}
  BY <1>1, <1>2 DEF RouteType, NotYet
<1>4. \/ route'.pc = "reading" /\ route'.copy = {} /\ stored[r].form # "plain"
      \/ route'.pc = "writing" /\ Copied(r)'
  <2>1. CASE Sealed(r) \/ stored[r].form = "none"
    BY <1>1, <1>2, <2>1 DEF RouteType, RouteAt, Sealed
  <2>2. CASE ~(Sealed(r) \/ stored[r].form = "none")
    <3>1. route'.pc = "writing" /\ route'.copy = {CopyOf(r)} /\ CopyOf(r).record = r
      BY <1>1, <1>2, <2>2 DEF RouteType, CopyOf
    <3> QED BY <3>1 DEF Copied
  <2> QED BY <2>1, <2>2
<1>5. ASSUME flag, ~lapsed PROVE Enabled'
  <2>1. Enabled
    BY <1>1, <1>5 DEF SealInv, SealFits
  <2>2. \A x : ~Copied(x)
    BY <1>1 DEF Copied
  <2>3. Guarded(Credentials)' <=> Guarded(Credentials)
    BY <1>1 DEF Guarded
  <2>4. \A x \in route'.area \ route'.todo : ~Copied(x)'
        /\ x \notin crossed' => stored'[x].form # "plain"
    BY <1>1, <1>3, <1>4, <2>1, <2>2 DEF Enabled, Guarded, RouteAt
  <2> QED BY <1>1, <1>3, <2>1, <2>3, <2>4 DEF Enabled, Guarded, RouteAt
<1>6. SealFits'
  BY <1>1, <1>3, <1>5 DEF SealFits, Switching
<1>7. SealsFit'
  BY <1>1, <1>3, <1>4 DEF SealInv, SealsFit, RouteAt, WriteAt
<1> QED BY <1>6, <1>7 DEF SealInv

\* When an envelope does not open, nothing was written of the first area.
LEMMA OpenEnvelopeSeals == ASSUME KeysInv, SealInv, OpenEnvelope PROVE SealInv'
<1>1. /\ RouteAt("reading") /\ route.does = "disable"
      /\ UNCHANGED <<flag, stored, write, crossed>> /\ route \in RouteType
  BY Unpacked DEF OpenEnvelope, KeysTyped
<1>2. PICK r \in route.todo :
          \/ /\ \/ route' = [route EXCEPT !.todo = NotYet(r)]
                \/ route' = [route EXCEPT !.todo = NotYet(r), !.copy = @ \cup {CopyOf(r)}]
             /\ UNCHANGED lapsed
          \/ EndRoute /\ lapsed' = (lapsed \/ route.area = Identity)
  BY DEF OpenEnvelope
<1>3. CASE \/ route' = [route EXCEPT !.todo = NotYet(r)]
           \/ route' = [route EXCEPT !.todo = NotYet(r), !.copy = @ \cup {CopyOf(r)}]
  <2>1. route'.pc = "reading" /\ route'.does = "disable" /\ route'.area = route.area
    BY <1>1, <1>3 DEF RouteType, RouteAt
  <2>2. ~lapsed' => ~lapsed
    BY <1>2
  <2>3. SealFits'
    BY <1>1, <2>1, <2>2 DEF SealInv, SealFits, Unbroken, Guarded, RouteAt, Switching
  <2>4. SealsFit'
    BY <1>1, <2>1 DEF SealInv, SealsFit, RouteAt, WriteAt
  <2> QED BY <2>3, <2>4 DEF SealInv
<1>4. CASE EndRoute /\ lapsed' = (lapsed \/ route.area = Identity)
  <2>1. route'.pc = "idle" /\ route'.does = "none"
    BY <1>4 DEF EndRoute, NoRoute
  <2>2. ~lapsed' => ~lapsed /\ Unbroken
    BY <1>1, <1>2, <1>4 DEF Unbroken
  <2>3. SealFits'
    BY <1>1, <2>1, <2>2 DEF SealInv, SealFits, Guarded, Switching
  <2>4. SealsFit'
    BY <1>1, <2>1 DEF SealInv, SealsFit, RouteAt, WriteAt
  <2> QED BY <2>3, <2>4 DEF SealInv
<1> QED BY <1>2, <1>3, <1>4

LEMMA ConvertSeals == ASSUME KeysInv, SealInv, Convert PROVE SealInv'
<1>1. /\ RouteAt("writing") /\ Switching /\ flag /\ unwrapped = metadata /\ unwrapped \in DataKeys
      /\ UNCHANGED <<flag, write, crossed>> /\ route \in RouteType
      /\ stored \in [Records -> [form : Forms, version : Nat]]
  BY Unpacked DEF Convert, KeysTyped, RouteFits, RouteAt, Keys
<1>2. CASE route.does = "disable"
  <2>1. PICK c \in route.copy :
          \/ route' = [route EXCEPT !.copy = @ \ {c},
                           !.pc = IF route.copy = {c} THEN "reading" ELSE "writing"]
          \/ lapsed' = TRUE /\ EndRoute
    BY <1>2 DEF Convert
  <2>2. CASE route' = [route EXCEPT !.copy = @ \ {c},
                           !.pc = IF route.copy = {c} THEN "reading" ELSE "writing"]
    <3>1. /\ route'.does = "disable" /\ route'.pc \in {"reading", "writing"}
          /\ route'.todo = {}
      BY <1>1, <1>2, <2>2 DEF RouteType, SealInv, SealsFit
    <3>2. SealFits'
      BY <3>1 DEF SealFits, Unbroken, RouteAt, Switching
    <3>3. SealsFit'
      BY <1>1, <3>1 DEF SealInv, SealsFit, WriteAt
    <3> QED BY <3>2, <3>3 DEF SealInv
  <2>3. CASE lapsed' = TRUE /\ EndRoute
    <3>1. route'.does = "none" /\ lapsed' = TRUE
      BY <2>3 DEF EndRoute, NoRoute
    <3>2. SealsFit'
      BY <1>1, <3>1 DEF SealInv, SealsFit, WriteAt
    <3> QED BY <3>1, <3>2 DEF SealInv, SealFits
  <2> QED BY <2>1, <2>2, <2>3
<1>3. CASE route.does = "enable"
  <2>1. PICK c \in route.copy :
          \/ /\ PutForm(c, unwrapped) /\ UNCHANGED lapsed
             /\ route' = [route EXCEPT !.copy = @ \ {c},
                              !.pc = IF route.copy = {c} THEN "reading" ELSE "writing"]
          \/ /\ lapsed' = TRUE
             /\ route' = [route EXCEPT !.pc = "reading", !.copy = {}]
    BY <1>3 DEF Convert
  <2>2. /\ route'.does = "enable" /\ route'.pc \in {"reading", "writing"}
        /\ route'.pc = "reading" => route'.copy = {}
    BY <1>1, <1>3, <2>1 DEF RouteType
  <2>3. SealsFit'
    BY <1>1, <2>2 DEF SealInv, SealsFit, RouteAt, WriteAt
  <2>4. ASSUME ~lapsed' PROVE Enabled'
    <3>0. /\ PutForm(c, unwrapped) /\ ~lapsed
          /\ route' = [route EXCEPT !.copy = @ \ {c},
                           !.pc = IF route.copy = {c} THEN "reading" ELSE "writing"]
      BY <2>1, <2>4
    <3>1. /\ PutForm(c, unwrapped) /\ ~lapsed /\ route'.area = route.area
            /\ route'.todo = route.todo
          /\ route'.copy = route.copy \ {c}
      BY <1>1, <3>0 DEF RouteType
    <3>2. Enabled
      BY <1>1, <1>3, <3>1 DEF SealInv, SealFits
    <3>3. \A x \in Records : stored'[x].form # "plain" \/ (stored'[x] = stored[x] /\ x # c.record)
      <4>1. c.record \in Records /\ unwrapped # "plain"
        BY <1>1 DEF RouteType, CopyType
      <4>2. \A x \in Records : stored'[x] = IF x = c.record
                                           THEN [form |-> unwrapped, version |-> c.version]
                                           ELSE stored[x]
        BY <1>1, <3>1, <4>1 DEF PutForm
      <4>3. stored'[c.record].form = unwrapped
        BY <4>1, <4>2
      <4> QED BY <4>1, <4>2, <4>3
    <3>4. \A x : Copied(x) => Copied(x)' \/ x = c.record
      BY <3>1 DEF Copied
    <3>5. Guarded(Credentials) => Guarded(Credentials)'
      BY <1>1, <3>3 DEF Guarded, Credentials
    <3>6. \A x \in route'.area \ route'.todo :
              ~Copied(x)' /\ x \notin crossed' => stored'[x].form # "plain"
      BY <1>1, <3>1, <3>2, <3>3, <3>4 DEF Enabled, Guarded, RouteAt, RouteType
    <3> QED BY <1>1, <3>1, <3>2, <3>5, <3>6 DEF Enabled, Guarded, RouteAt
  <2>5. SealFits'
    BY <1>1, <2>2, <2>4 DEF SealFits, Switching
  <2> QED BY <2>3, <2>5 DEF SealInv
<1> QED BY <1>1, <1>2, <1>3 DEF Switching

\* A write that no switch crosses is sealed, as long as protection is on.
LEMMA StoreRecordSeals == ASSUME KeysInv, SealInv, StoreRecord PROVE SealInv'
<1>1. /\ WriteAt("writing") /\ write'.pc = "idle"
      /\ UNCHANGED <<flag, route, lapsed>> /\ write.key \in Keys
      /\ stored \in [Records -> [form : Forms, version : Nat]]
  BY Unpacked DEF StoreRecord, KeysTyped, WriteType, NoWrite
<1>2. PICK r \in Records : write.record = {r}
  BY <1>1, Unpacked DEF WriteFits, WriteAt
<1>3. RecordOf(write) = r
  BY <1>2, OneRecord
<1>4. SealsFit'
  BY <1>1 DEF SealInv, SealsFit, RouteAt, WriteAt
<1>5. ASSUME flag
      PROVE  /\ \A x \in Records \ crossed' :
                    stored'[x].form = "plain" => x \notin crossed /\ stored[x].form = "plain"
             /\ Switching => crossed \subseteq crossed'
  <2>1. CASE UNCHANGED <<stored, crossed>>
    BY <2>1
  <2>2. CASE /\ stored' = [stored EXCEPT ![r] = [form |-> WrittenForm, version |-> writes + 1]]
             /\ Crossing(r, write.crossing)
    <3>1. ~write.crossing => WrittenForm # "plain"
      BY <1>1, <1>5 DEF SealInv, SealsFit, WrittenForm, Keys
    <3>2. Switching => write.crossing
      BY <1>1, Unpacked DEF WriteFits, WriteAt
    <3>3. \A x \in Records : stored'[x] = IF x = r THEN [form |-> WrittenForm, version |-> writes + 1]
                                         ELSE stored[x]
      BY <1>1, <2>2
    <3>4. stored'[r].form = WrittenForm
      BY <3>3
    <3> QED BY <2>2, <3>1, <3>2, <3>3, <3>4 DEF Crossing
  <2> QED BY <1>3, <2>1, <2>2 DEF StoreRecord, WrittenForm
<1>6. ASSUME flag, NEW S \in SUBSET Records PROVE Guarded(S) => Guarded(S)'
  BY <1>5, <1>6 DEF Guarded
<1>7. SealFits'
  <2> SUFFICES ASSUME flag, ~lapsed PROVE SealFits'
    BY <1>1 DEF SealFits
  <2>1. Guarded(Records) => Guarded(Records)'
    BY <1>6
  <2>2. Enabled => Enabled'
    <3>1. Guarded(Credentials) => Guarded(Credentials)'
      BY <1>6 DEF Credentials
    <3>2. route.area \in SUBSET Records
      BY Unpacked DEF KeysTyped, RouteType
    <3>3. \A x : Copied(x)' <=> Copied(x)
      BY <1>1 DEF Copied
    <3> QED BY <1>1, <1>5, <3>1, <3>2, <3>3 DEF Enabled, Guarded
  <2> QED BY <1>1, <2>1, <2>2 DEF SealInv, SealFits, Unbroken, RouteAt, Switching
<1> QED BY <1>4, <1>7 DEF SealInv

LEMMA SealStart == StorageInit => SealInv
<1> SUFFICES ASSUME KeysInit PROVE SealInv
  BY DEF StorageInit
<1>1. /\ route.does = "none" /\ write.pc = "idle"
  BY DEF KeysInit, NoRoute, NoWrite
<1>2. flag => \A r \in Records : stored[r].form # "plain"
  <2> SUFFICES ASSUME flag, NEW r \in Records PROVE stored[r].form # "plain"
    OBVIOUS
  <2>1. PICK present \in SUBSET Records, form \in [Records -> {"plain", "damaged"} \cup DataKeys],
             k \in Keys :
             /\ \A x \in Records : form[x] \in IF k = NoKey THEN {"plain"} ELSE {k, "damaged"}
             /\ flag = (k # NoKey)
             /\ stored = [x \in Records |-> IF x \in present THEN [form |-> form[x], version |-> 1]
                                             ELSE Absent]
    BY DEF KeysInit, Keys
  <2>2. k \in DataKeys /\ form[r] \in {k, "damaged"}
    BY <2>1 DEF Keys
  <2>3. stored[r].form \in {form[r], "none"}
    BY <2>1 DEF Absent
  <2> QED BY <2>2, <2>3
<1> QED BY <1>1, <1>2 DEF SealInv, SealFits, SealsFit, Guarded, WriteAt

LEMMA SealStep == ASSUME KeysInv, SealInv, KeysNext PROVE SealInv'
BY EnableSeals, KeepKeySeals, RaiseFlagSeals, UnlockSeals, ChangePassphraseSeals, DisableSeals,
   HoldKeySeals, LockSeals, ListAreaSeals, ReadPlainSeals, OpenEnvelopeSeals, ConvertSeals,
   AreaDoneSeals, LockFirstSeals, LowerFlagSeals, DiscardKeySeals, BeginWriteSeals,
   RouteWriteSeals, KeyForWriteSeals, StoreRecordSeals, RemoveStoredSeals DEF KeysNext

LEMMA SealUntouched == ASSUME SealInv, UNCHANGED keysVars PROVE SealInv'
BY DEF SealInv, SealFits, SealsFit, Enabled, Unbroken, Guarded, Copied, RouteAt, WriteAt,
   Switching, keysVars

LEMMA SealNext == KeysInv /\ SealInv /\ [StorageNext]_storageVars => SealInv'
<1> SUFFICES ASSUME KeysInv, SealInv, [StorageNext]_storageVars PROVE SealInv'
  OBVIOUS
<1>1. CASE UNCHANGED keysVars
  BY <1>1, SealUntouched
<1>2. CASE KeysNext
  BY <1>2, SealStep
<1>3. CASE WorkerGone
  BY <1>3, KeysForgetSeals DEF WorkerGone
<1> QED BY <1>1, <1>2, <1>3 DEF StorageNext, storageVars

\* protected-storage-area.ts: for any records, keys and faults, once protection was switched on
\* without a failure nothing is stored in plain, through locks, evictions and restarts, until
\* it is switched off.
THEOREM SealedWhileOnHolds == StorageSpec => []SealedWhileOn
<1>1. SealInv => SealedWhileOn
  BY DEF SealInv, SealFits, Guarded, SealedWhileOn
<1> QED BY <1>1, SealNext, SealStart, KeysInvariant, PTL DEF StorageSpec

-----------------------------------------------------------------------------
(* Records beside an index. *)

\* At most one caller does anything but change a record that is there.
OneWriter ==
    \A c, e \in Callers : c = e \/ Does[c] \subseteq {"mutate"} \/ Does[e] \subseteq {"mutate"}

Covered(S) == \A id \in S : id \in ToSet(index) \cup dropped

UpgradePcs == {"not run", "choosing", "setting", "indexing", "listing", "evicting", "verifying",
               "clearing", "done"}
CallerPcs  == {"idle", "setting", "indexing", "listing", "evicting", "looking", "replacing",
               "removing", "removed"}

Writing(w) == job[w].pc \in {"setting", "indexing", "listing", "evicting"}

\* What a writer holds is about the index and the record as they are.
WriteHolds(w) ==
    /\ At(w, "indexing") => record[Target(w)] # "none"
    /\ At(w, "listing") => job[w].live = ToSet(index)
    /\ At(w, "evicting") => job[w].doomed \cap ToSet(index) = {}

CallerFits(c) ==
    /\ job[c].pc \in CallerPcs
    /\ job[c].pc # "idle" => /\ job[c].ids # <<>> /\ At(Upgrade, "done")
                             /\ ~(Does[c] \subseteq {"mutate"})

CallerHolds(c) ==
    /\ WriteHolds(c)
    /\ At(c, "replacing") => Target(c) \in ToSet(index)
    /\ At(c, "removed") => Target(c) \notin ToSet(index)

\* The upgrade has the newest of the old generation before it, and the store has the rest.
UpgradeFits ==
    LET ids == job[Upgrade].ids IN
    /\ job[Upgrade].pc \in UpgradePcs
    /\ At(Upgrade, "choosing") \/ Writing(Upgrade) =>
          /\ old # <<>> /\ Len(ids) <= Len(old) /\ \A i \in 1..Len(ids) : ids[i] = old[i]
          /\ Covered({old[i] : i \in (Len(ids) + 1)..Len(old)} \ Unreadable)
    /\ Writing(Upgrade) => ids # <<>> /\ Target(Upgrade) \notin Unreadable /\ WriteHolds(Upgrade)
    /\ job[Upgrade].pc \in {"listing", "evicting"} =>
          Target(Upgrade) \in ToSet(index) /\ record[Target(Upgrade)] # "none"
    /\ At(Upgrade, "choosing") => \A i \in Sample : i > Len(ids) => record[old[i]] # "none"
    /\ At(Upgrade, "verifying") => /\ Covered(ToSet(old) \ Unreadable)
                                   /\ \A i \in Sample : record[old[i]] # "none"
    /\ At(Upgrade, "clearing") => Covered(kept)

RecordsInv ==
    /\ TypeOK
    /\ UpgradeFits /\ \A c \in Callers : CallerFits(c)
    /\ kept \subseteq (ToSet(old) \ Unreadable) \cup ToSet(index) \cup dropped
    /\ old # <<>> /\ ~failed => ~At(Upgrade, "done") /\ \A id \in Ids : record[id] # "new"
    /\ OneWriter => IndexNamesRecords /\ \A c \in Callers : CallerHolds(c)

USE StoreAssumption

\* A sequence without repetition, less one of its elements.
LEMMA WithoutOf ==
    ASSUME NEW T, NEW s \in Seq(T), IsInjective(s), NEW x
    PROVE  /\ Without(s, x) \in Seq(T) /\ IsInjective(Without(s, x))
           /\ ToSet(Without(s, x)) = ToSet(s) \ {x}
           /\ Len(Without(s, x)) <= Len(s)
<1>1. Len(s) \in Nat /\ DOMAIN s = 1..Len(s) /\ ToSet(s) = {s[i] : i \in 1..Len(s)}
  BY DEF ToSet
<1>2. \A i, j \in 1..Len(s) : s[i] = s[j] => i = j
  BY <1>1 DEF IsInjective
<1>3. CASE \E i \in 1..Len(s) : s[i] = x
  <2>1. PICK p \in 1..Len(s) : s[p] = x
    BY <1>3
  <2> DEFINE I == {i \in 1..Len(s) : s[i] = x}
             r == RemoveAt(s, p)
  <2>2. I = {p}
    BY <1>2, <2>1
  <2>3. Min(I) = p
    <3>1. p \in I /\ \A y \in I : p <= y /\ y = p
      BY <1>1, <2>1, <2>2
    <3> HIDE DEF I
    <3> QED BY <3>1 DEF Min
  <2>4. Without(s, x) = r
    BY <1>3, <2>2, <2>3 DEF Without, RemoveFirst, SelectInSeq
  <2>5. /\ r \in Seq(T) /\ Len(r) = Len(s) - 1
        /\ \A i \in 1..(Len(s) - 1) : r[i] = IF i < p THEN s[i] ELSE s[i + 1]
    <3> DEFINE u == SubSeq(s, 1, p - 1)
               v == SubSeq(s, p + 1, Len(s))
    <3>1. u \in Seq(T) /\ Len(u) = p - 1 /\ \A i \in 1..(p - 1) : u[i] = s[i]
      BY <1>1, <2>1
    <3>2. v \in Seq(T) /\ Len(v) = Len(s) - p /\ \A i \in 1..(Len(s) - p) : v[i] = s[i + p]
      <4>1. p + 1 \in Int /\ Len(s) \in Int /\ \A i \in (p + 1)..Len(s) : s[i] \in T
        BY <1>1, <2>1
      <4>2. /\ v \in Seq(T) /\ Len(v) = IF p + 1 <= Len(s) THEN Len(s) - (p + 1) + 1 ELSE 0
            /\ \A i \in 1..(Len(s) - (p + 1) + 1) : v[i] = s[(p + 1) + i - 1]
        BY <4>1, SubSeqProperties
      <4> HIDE DEF v
      <4>3. p \in Int /\ Len(s) \in Int /\ p <= Len(s)
        BY <1>1, <2>1
      <4>4. Len(s) - (p + 1) + 1 = Len(s) - p /\ Len(v) = Len(s) - p
        BY <4>2, <4>3
      <4>5. ASSUME NEW i \in 1..(Len(s) - p) PROVE v[i] = s[i + p]
        <5>1. i \in 1..(Len(s) - (p + 1) + 1) /\ (p + 1) + i - 1 = i + p
          BY <4>3, <4>4
        <5>2. v[i] = s[(p + 1) + i - 1]
          BY <4>2, <5>1
        <5> QED BY <5>1, <5>2
      <4> QED BY <4>2, <4>4, <4>5
    <3> HIDE DEF u, v
    <3>3. r = u \o v
      BY DEF RemoveAt, u, v
    <3> HIDE DEF r
    <3>4. /\ r \in Seq(T) /\ Len(r) = Len(s) - 1
          /\ \A i \in 1..(Len(s) - 1) : r[i] = IF i <= p - 1 THEN u[i] ELSE v[i - (p - 1)]
      <4>1. /\ r \in Seq(T) /\ Len(r) = Len(u) + Len(v)
            /\ \A i \in 1..(Len(u) + Len(v)) : r[i] = IF i <= Len(u) THEN u[i] ELSE v[i - Len(u)]
        <5>1. u \in Seq(T) /\ v \in Seq(T)
          BY <3>1, <3>2
        <5> QED BY <3>3, <5>1, ConcatProperties, Zenon
      <4>2. Len(u) + Len(v) = Len(s) - 1
        BY <1>1, <2>1, <3>1, <3>2
      <4> QED BY <3>1, <4>1, <4>2
    <3>5. ASSUME NEW i \in 1..(Len(s) - 1) PROVE r[i] = IF i < p THEN s[i] ELSE s[i + 1]
      <4>1. CASE i < p
        <5>1. i \in 1..(p - 1)
          BY <1>1, <2>1, <4>1
        <5> QED BY <3>1, <3>4, <4>1, <5>1
      <4>2. CASE ~(i < p)
        <5>1. i - (p - 1) \in 1..(Len(s) - p) /\ (i - (p - 1)) + p = i + 1 /\ ~(i <= p - 1)
          BY <1>1, <2>1, <4>2
        <5> QED BY <3>2, <3>4, <4>2, <5>1
      <4> QED BY <4>1, <4>2
    <3> QED BY <3>4, <3>5
  <2> HIDE DEF r
  <2>6. ASSUME NEW i \in 1..Len(r), NEW j \in 1..Len(r), r[i] = r[j] PROVE i = j
    <3> DEFINE f(k) == IF k < p THEN k ELSE k + 1
    <3>1. f(i) \in 1..Len(s) /\ f(j) \in 1..Len(s) /\ (f(i) = f(j) => i = j)
      BY <1>1, <2>1, <2>5
    <3>2. r[i] = s[f(i)] /\ r[j] = s[f(j)]
      BY <2>5
    <3> HIDE DEF f
    <3> QED BY <1>2, <2>6, <3>1, <3>2
  <2>7. ToSet(r) = {r[i] : i \in 1..Len(r)} /\ IsInjective(r)
    <3>1. DOMAIN r = 1..Len(r)
      BY <2>5
    <3>2. IsInjective(r)
      BY <2>6, <3>1 DEF IsInjective
    <3> QED BY <3>1, <3>2 DEF ToSet
  <2>8. ASSUME NEW y \in ToSet(r) PROVE y \in ToSet(s) \ {x}
    <3>1. PICK i \in 1..Len(r) : y = r[i]
      BY <2>7, <2>8
    <3>2. CASE i < p
      <4>1. i \in 1..Len(s) /\ i # p /\ y = s[i]
        BY <1>1, <2>1, <2>5, <3>1, <3>2
      <4> QED BY <1>1, <1>2, <2>1, <4>1
    <3>3. CASE ~(i < p)
      <4>1. i + 1 \in 1..Len(s) /\ i + 1 # p /\ y = s[i + 1]
        BY <1>1, <2>1, <2>5, <3>1, <3>3
      <4> QED BY <1>1, <1>2, <2>1, <4>1
    <3> QED BY <3>2, <3>3
  <2>9. ASSUME NEW y \in ToSet(s) \ {x} PROVE y \in ToSet(r)
    <3>1. PICK i \in 1..Len(s) : y = s[i] /\ i # p
      BY <1>1, <2>1, <2>9
    <3>2. CASE i < p
      <4>1. i \in 1..Len(r) /\ r[i] = y
        BY <1>1, <2>1, <2>5, <3>1, <3>2
      <4> QED BY <2>7, <4>1
    <3>3. CASE ~(i < p)
      <4>1. i - 1 \in 1..Len(r) /\ ~(i - 1 < p) /\ (i - 1) + 1 = i
        BY <1>1, <2>1, <2>5, <3>1, <3>3
      <4>2. r[i - 1] = y
        BY <2>5, <3>1, <4>1
      <4> QED BY <2>7, <4>1, <4>2
    <3> QED BY <3>2, <3>3
  <2>10. ToSet(r) = ToSet(s) \ {x}
    BY <2>8, <2>9
  <2>11. Len(r) <= Len(s)
    BY <1>1, <2>5
  <2> QED BY <2>4, <2>5, <2>7, <2>10, <2>11
<1>4. CASE ~\E i \in 1..Len(s) : s[i] = x
  <2>1. Without(s, x) = s
    BY <1>4 DEF Without, RemoveFirst
  <2>2. x \notin ToSet(s)
    BY <1>1, <1>4
  <2> QED BY <1>1, <2>1, <2>2
<1> QED BY <1>3, <1>4

\* The beginning of a sequence without repetition.
LEMMA InjectivePrefix ==
    ASSUME NEW T, NEW s \in Seq(T), IsInjective(s), NEW k \in 0..Len(s)
    PROVE  IsInjective(SubSeq(s, 1, k)) /\ ToSet(SubSeq(s, 1, k)) \subseteq ToSet(s)
<1> DEFINE p == SubSeq(s, 1, k)
<1>1. p \in Seq(T) /\ Len(p) = k /\ \A i \in 1..k : p[i] = s[i]
  BY PrefixOf
<1> HIDE DEF p
<1>2. Len(s) \in Nat /\ DOMAIN s = 1..Len(s) /\ DOMAIN p = 1..k /\ \A i \in 1..k : i \in 1..Len(s)
  BY <1>1
<1>3. IsInjective(p) /\ ToSet(p) \subseteq ToSet(s)
  BY <1>1, <1>2 DEF IsInjective, ToSet
<1> QED BY <1>3 DEF p

\* The index after a write names the record that was written, and no other that it did not.
LEMMA IndexedOf ==
    ASSUME NEW x \in Ids, index \in Seq(Ids), IsInjective(index)
    PROVE  /\ Indexed(x) \in Seq(Ids) /\ IsInjective(Indexed(x)) /\ Len(Indexed(x)) <= MaxRecords
           /\ x \in ToSet(Indexed(x)) /\ ToSet(Indexed(x)) \subseteq ToSet(index) \cup {x}
<1> DEFINE w == Without(index, x)
           q == <<x>> \o w
           k == IF Len(q) < MaxRecords THEN Len(q) ELSE MaxRecords
<1>1. w \in Seq(Ids) /\ IsInjective(w) /\ ToSet(w) = ToSet(index) \ {x}
  BY WithoutOf
<1> HIDE DEF w
<1>2. /\ q \in Seq(Ids) /\ Len(q) = Len(w) + 1 /\ q[1] = x /\ Len(w) \in Nat
      /\ \A i \in 1..Len(w) : q[i + 1] = w[i]
  BY <1>1
<1> HIDE DEF q
<1>3. DOMAIN w = 1..Len(w) /\ DOMAIN q = 1..Len(q) /\ ToSet(w) = {w[i] : i \in 1..Len(w)}
      /\ ToSet(q) = {q[i] : i \in 1..Len(q)}
  <2>1. DOMAIN w = 1..Len(w)
    BY <1>1
  <2>2. DOMAIN q = 1..Len(q)
    BY <1>2
  <2> QED BY <2>1, <2>2 DEF ToSet
<1>4. ASSUME NEW i \in 2..Len(q) PROVE i - 1 \in 1..Len(w) /\ q[i] = w[i - 1] /\ q[i] \in ToSet(w)
  <2>1. i - 1 \in 1..Len(w) /\ (i - 1) + 1 = i
    BY <1>2
  <2> QED BY <1>2, <1>3, <2>1
<1>5. ToSet(q) \subseteq ToSet(index) \cup {x}
  <2> SUFFICES ASSUME NEW i \in 1..Len(q) PROVE q[i] \in ToSet(index) \cup {x}
    BY <1>3
  <2>1. CASE i = 1
    BY <1>2, <2>1
  <2>2. CASE i \in 2..Len(q)
    BY <1>1, <1>4, <2>2
  <2> QED BY <1>2, <2>1, <2>2
<1>6. IsInjective(q)
  <2> SUFFICES ASSUME NEW i \in 1..Len(q), NEW j \in 1..Len(q), q[i] = q[j] PROVE i = j
    BY <1>3 DEF IsInjective
  <2>1. CASE i = 1 /\ j = 1
    BY <2>1
  <2>2. CASE i = 1 /\ j \in 2..Len(q)
    BY <1>1, <1>2, <1>4, <2>2
  <2>3. CASE i \in 2..Len(q) /\ j = 1
    BY <1>1, <1>2, <1>4, <2>3
  <2>4. CASE i \in 2..Len(q) /\ j \in 2..Len(q)
    <3>1. /\ i - 1 \in DOMAIN w /\ j - 1 \in DOMAIN w /\ w[i - 1] = w[j - 1]
      BY <1>3, <1>4, <2>4
    <3>2. i - 1 = j - 1
      BY <1>1, <3>1 DEF IsInjective
    <3> QED BY <2>4, <3>2
  <2> QED BY <1>2, <2>1, <2>2, <2>3, <2>4
<1>7. k \in 1..Len(q) /\ k <= MaxRecords /\ k \in 0..Len(q)
  BY <1>2
<1>8. Indexed(x) = SubSeq(q, 1, k)
  BY DEF Indexed, Newest, q, w
<1> HIDE DEF k
<1>9. /\ Indexed(x) \in Seq(Ids) /\ Len(Indexed(x)) = k /\ Indexed(x)[1] = x
      /\ IsInjective(Indexed(x)) /\ ToSet(Indexed(x)) \subseteq ToSet(q)
  BY <1>2, <1>6, <1>7, <1>8, PrefixOf, InjectivePrefix
<1>10. x \in ToSet(Indexed(x))
  <2>1. 1 \in DOMAIN Indexed(x)
    BY <1>7, <1>9
  <2> QED BY <1>9, <2>1 DEF ToSet
<1> QED BY <1>5, <1>7, <1>9, <1>10

LEMMA StoreTyped ==
    ASSUME RecordsInv
    PROVE  /\ old \in Seq(Ids) /\ record \in [Ids -> Contents]
           /\ index \in Seq(Ids) /\ IsInjective(index) /\ Len(index) <= MaxRecords
           /\ job \in [Writers -> Job] /\ kept \subseteq Ids /\ dropped \subseteq Ids
           /\ failed \in BOOLEAN /\ faults \in 0..MaxFaults
BY DEF RecordsInv, TypeOK

LEMMA WriterTyped ==
    ASSUME RecordsInv, NEW w \in Writers
    PROVE  /\ job[w] \in Job /\ job[w].ids \in Seq(Ids)
           /\ job[w].ids # <<>> => Target(w) \in Ids
<1>1. job[w] \in Job /\ job[w].ids \in Seq(Ids)
  BY StoreTyped DEF Job
<1> QED BY <1>1 DEF Target, Last

LEMMA MembersOf ==
    ASSUME NEW T, NEW s \in Seq(T)
    PROVE  ToSet(s) = {s[i] : i \in 1..Len(s)} /\ ToSet(s) \subseteq T
BY DEF ToSet

LEMMA IdleTyped == Idle \in Job /\ NotRun \in Job /\ [Idle EXCEPT !.pc = "done"] \in Job
<1>1. <<>> \in Seq(Ids)
  OBVIOUS
<1>2. Idle \in Job
  BY <1>1 DEF Idle, Job
<1> QED BY <1>2 DEF NotRun, Job

LEMMA JobTyped ==
    ASSUME NEW pc \in UpgradePcs \cup CallerPcs, NEW s \in Seq(Ids)
    PROVE  LET j == [Idle EXCEPT !.pc = pc, !.ids = s] IN j \in Job /\ j.pc = pc /\ j.ids = s
BY IdleTyped DEF Job, UpgradePcs, CallerPcs

\* A step of a caller: what the upgrade holds is not concerned, and under OneWriter neither is
\* what another caller holds.
LEMMA CallerStep ==
    ASSUME RecordsInv, NEW c \in Callers, At(Upgrade, "done"), TypeOK',
           job[c].pc # "idle" \/ ~(Does[c] \subseteq {"mutate"}),
           \A w \in Writers : w # c => job'[w] = job[w],
           UNCHANGED <<old, failed>>, CallerFits(c)',
           kept' \subseteq (ToSet(old) \ Unreadable) \cup ToSet(index') \cup dropped',
           OneWriter => IndexNamesRecords' /\ CallerHolds(c)'
    PROVE  RecordsInv'
<1>1. Upgrade \in Writers /\ Upgrade # c /\ Callers \subseteq Writers
  BY DEF Writers
<1>2. job'[Upgrade] = job[Upgrade] /\ job[Upgrade].pc = "done"
  BY <1>1 DEF At
<1>3. UpgradeFits'
  BY <1>2 DEF UpgradeFits, UpgradePcs, At, Writing
<1>4. ~(old # <<>> /\ ~failed)
  BY DEF RecordsInv
<1>5. ~(Does[c] \subseteq {"mutate"})
  BY DEF RecordsInv, CallerFits
<1>6. ASSUME NEW e \in Callers, e # c PROVE CallerFits(e)' /\ (OneWriter => CallerHolds(e)')
  <2>1. job'[e] = job[e] /\ CallerFits(e)
    BY <1>1, <1>6 DEF RecordsInv
  <2>2. OneWriter => job[e].pc = "idle"
    BY <1>5, <1>6, <2>1 DEF OneWriter, CallerFits
  <2>3. CallerFits(e)'
    BY <1>2, <2>1 DEF CallerFits, At
  <2>4. OneWriter => CallerHolds(e)'
    BY <2>1, <2>2 DEF CallerHolds, WriteHolds, At
  <2> QED BY <2>3, <2>4
<1> QED BY <1>3, <1>4, <1>6 DEF RecordsInv

\* A step of the upgrade: no caller has begun.
LEMMA UpgradeStep ==
    ASSUME RecordsInv, ~At(Upgrade, "done"), TypeOK', UpgradeFits',
           \A c \in Callers : job'[c] = job[c],
           kept' \subseteq (ToSet(old') \ Unreadable) \cup ToSet(index') \cup dropped',
           old' # <<>> /\ ~failed' => /\ old # <<>> /\ ~failed /\ ~At(Upgrade, "done")'
                                      /\ \A id \in Ids : record'[id] \in {record[id], "old", "none"},
           OneWriter => IndexNamesRecords'
    PROVE  RecordsInv'
<1>1. ASSUME NEW c \in Callers PROVE CallerFits(c)' /\ CallerHolds(c)'
  <2>1. CallerFits(c) /\ job'[c] = job[c]
    BY DEF RecordsInv
  <2>2. job'[c].pc = "idle"
    BY <2>1 DEF CallerFits
  <2> QED BY <2>2 DEF CallerFits, CallerHolds, WriteHolds, At, CallerPcs
<1>2. old' # <<>> /\ ~failed' => ~At(Upgrade, "done")' /\ \A id \in Ids : record'[id] # "new"
  BY DEF RecordsInv
<1> QED BY <1>1, <1>2 DEF RecordsInv

\* What the store has charge of is not given up when the index is written.
LEMMA CoverGrows ==
    ASSUME NEW T, T \in ToSet(index'),
           dropped' = (dropped \cup (ToSet(index) \ ToSet(index'))) \ {T}
    PROVE  ToSet(index) \cup dropped \cup {T} \subseteq ToSet(index') \cup dropped'
OBVIOUS

-----------------------------------------------------------------------------
(* The callers. *)

LEMMA StartKeeps ==
    ASSUME RecordsInv, NEW c \in Callers, NEW operation \in Operations \ {"mutate"},
           NEW pc \in {"setting", "looking", "removing"}, Start(c, operation, pc)
    PROVE  RecordsInv'
<1>1. PICK id \in Ids : job' = [job EXCEPT ![c] = [Idle EXCEPT !.pc = pc, !.ids = <<id>>]]
  BY DEF Start, Become
<1> DEFINE j == [Idle EXCEPT !.pc = pc, !.ids = <<id>>]
<1>2. j \in Job /\ j.pc = pc /\ j.ids # <<>>
  <2>1. <<id>> \in Seq(Ids) /\ <<id>> # <<>>
    OBVIOUS
  <2>2. pc \in UpgradePcs \cup CallerPcs
    BY DEF CallerPcs
  <2>3. j \in Job /\ j.pc = pc /\ j.ids = <<id>>
    BY <2>1, <2>2, JobTyped
  <2> HIDE DEF j
  <2> QED BY <2>1, <2>3
<1> HIDE DEF j
<1>3. c \in Writers /\ job'[c] = j /\ \A w \in Writers : w # c => job'[w] = job[w]
  BY <1>1, StoreTyped DEF Writers, j
<1>4. Upgrade \in Writers /\ Upgrade # c /\ At(Upgrade, "done") /\ operation \in Does[c]
  BY DEF Writers, Start
<1>5. At(Upgrade, "done")' /\ ~(Does[c] \subseteq {"mutate"})
  BY <1>3, <1>4 DEF At
<1>6. UNCHANGED <<old, record, index, kept, dropped, failed, faults>>
  BY DEF Start
<1>7. TypeOK'
  <2>1. job' \in [Writers -> Job]
    BY <1>1, <1>2, <1>3, StoreTyped DEF j
  <2> QED BY <1>6, <2>1, StoreTyped DEF TypeOK
<1>8. CallerFits(c)'
  BY <1>2, <1>3, <1>5 DEF CallerFits, CallerPcs
<1>9. CallerHolds(c)'
  BY <1>2, <1>3 DEF CallerHolds, WriteHolds, At
<1>10. OneWriter => IndexNamesRecords'
  BY <1>6 DEF RecordsInv, IndexNamesRecords
<1> QED
  BY <1>3, <1>4, <1>5, <1>6, <1>7, <1>8, <1>9, <1>10, CallerStep DEF RecordsInv

LEMMA BusyCaller ==
    ASSUME RecordsInv, NEW c \in Callers, job[c].pc # "idle"
    PROVE  /\ c \in Writers /\ Upgrade \in Writers /\ c # Upgrade /\ At(Upgrade, "done")
           /\ job[c] \in Job /\ job[c].ids # <<>> /\ job[c].ids \in Seq(Ids) /\ Target(c) \in Ids
           /\ ~(Does[c] \subseteq {"mutate"})
<1>1. c \in Writers /\ Upgrade \in Writers /\ c # Upgrade
  BY DEF Writers
<1>2. CallerFits(c)
  BY DEF RecordsInv
<1>3. job[c].ids # <<>> /\ At(Upgrade, "done") /\ ~(Does[c] \subseteq {"mutate"})
  BY <1>2 DEF CallerFits
<1> QED BY <1>1, <1>3, WriterTyped

\* A caller goes to its next step, or is done.
LEMMA CallerGoes ==
    ASSUME RecordsInv, NEW c \in Callers, job[c].pc # "idle",
           NEW j \in Job, job' = [job EXCEPT ![c] = j],
           j.pc \in CallerPcs, j.pc # "idle" => j.ids = job[c].ids
    PROVE  /\ job' \in [Writers -> Job] /\ job'[c] = j /\ CallerFits(c)'
           /\ \A w \in Writers : w # c => job'[w] = job[w]
           /\ j.pc # "idle" => Target(c)' = Target(c)
<1>1. job' \in [Writers -> Job] /\ job'[c] = j /\ \A w \in Writers : w # c => job'[w] = job[w]
  BY BusyCaller, StoreTyped
<1>2. At(Upgrade, "done")'
  BY <1>1, BusyCaller DEF At
<1> QED BY <1>1, <1>2, BusyCaller DEF CallerFits, Target

LEMMA CallerSetKeeps ==
    ASSUME RecordsInv, NEW c \in Callers, Set(c) PROVE RecordsInv'
<1> DEFINE j == [job[c] EXCEPT !.pc = "indexing"]
<1>1. job[c].pc # "idle" /\ c # Upgrade /\ At(c, "setting")
  BY DEF Set, At, Writers
<1>2. j \in Job /\ j.pc = "indexing" /\ j.ids = job[c].ids
  BY <1>1, BusyCaller DEF Job
<1>3. job' = [job EXCEPT ![c] = j]
  BY DEF Set, Go
<1> HIDE DEF j
<1>4. /\ job' \in [Writers -> Job] /\ job'[c] = j /\ CallerFits(c)' /\ Target(c)' = Target(c)
      /\ \A w \in Writers : w # c => job'[w] = job[w]
  BY <1>1, <1>2, <1>3, CallerGoes DEF CallerPcs
<1>5. /\ record' = [record EXCEPT ![Target(c)] = "new"]
      /\ UNCHANGED <<old, index, kept, dropped, failed, faults>>
  BY <1>1 DEF Set
<1>6. Target(c) \in Ids /\ record \in [Ids -> Contents]
  BY <1>1, BusyCaller, StoreTyped
<1>7. record' \in [Ids -> Contents] /\ record'[Target(c)] = "new"
  BY <1>5, <1>6 DEF Contents
<1>8. TypeOK'
  BY <1>4, <1>5, <1>7, StoreTyped DEF TypeOK
<1>9. CallerHolds(c)'
  BY <1>2, <1>4, <1>7 DEF CallerHolds, WriteHolds, At
<1>10. IndexNamesRecords => IndexNamesRecords'
  BY <1>5, <1>6 DEF IndexNamesRecords
<1>11. At(Upgrade, "done")
  BY <1>1, BusyCaller
<1> QED
  BY <1>1, <1>4, <1>5, <1>8, <1>9, <1>10, <1>11, CallerStep DEF RecordsInv

LEMMA CallerSetIndexKeeps ==
    ASSUME RecordsInv, NEW c \in Callers, SetIndex(c) PROVE RecordsInv'
<1> DEFINE j == [job[c] EXCEPT !.pc = "listing", !.live = ToSet(index')]
<1>1. job[c].pc # "idle" /\ At(c, "indexing")
  BY DEF SetIndex, At
<1>2. Target(c) \in Ids /\ At(Upgrade, "done") /\ job[c] \in Job
  BY <1>1, BusyCaller
<1>3. /\ index' = Indexed(Target(c)) /\ kept' = kept \cup {Target(c)}
      /\ dropped' = (dropped \cup (ToSet(index) \ ToSet(index'))) \ {Target(c)}
      /\ job' = [job EXCEPT ![c] = j]
      /\ UNCHANGED <<old, record, failed, faults>>
  BY DEF SetIndex, Become
<1>4. /\ index' \in Seq(Ids) /\ IsInjective(index') /\ Len(index') <= MaxRecords
      /\ Target(c) \in ToSet(index') /\ ToSet(index') \subseteq ToSet(index) \cup {Target(c)}
  BY <1>2, <1>3, IndexedOf, StoreTyped
<1>5. ToSet(index') \subseteq Ids /\ ToSet(index) \subseteq Ids
  BY <1>4, StoreTyped, MembersOf
<1>6. j \in Job /\ j.pc = "listing" /\ j.ids = job[c].ids /\ j.live = ToSet(index')
  BY <1>2, <1>5 DEF Job
<1> HIDE DEF j
<1>7. /\ job' \in [Writers -> Job] /\ job'[c] = j /\ CallerFits(c)'
      /\ \A w \in Writers : w # c => job'[w] = job[w]
  BY <1>1, <1>3, <1>6, CallerGoes DEF CallerPcs
<1>8. TypeOK'
  BY <1>2, <1>3, <1>4, <1>5, <1>7, StoreTyped DEF TypeOK
<1>9. CallerHolds(c)'
  BY <1>6, <1>7 DEF CallerHolds, WriteHolds, At
<1>10. ASSUME OneWriter PROVE IndexNamesRecords'
  <2>1. IndexNamesRecords /\ record[Target(c)] # "none"
    BY <1>1, <1>10 DEF RecordsInv, CallerHolds, WriteHolds
  <2> QED BY <1>3, <1>4, <2>1 DEF IndexNamesRecords
<1>11. kept' \subseteq (ToSet(old) \ Unreadable) \cup ToSet(index') \cup dropped'
  BY <1>3, <1>4, CoverGrows DEF RecordsInv
<1> QED
  BY <1>1, <1>2, <1>3, <1>7, <1>8, <1>9, <1>10, <1>11, CallerStep

LEMMA CallerListKeysKeeps ==
    ASSUME RecordsInv, NEW c \in Callers, ListKeys(c) PROVE RecordsInv'
<1> DEFINE found == {id \in Ids : record[id] # "none"} \ job[c].live
           j == [job[c] EXCEPT !.pc = "evicting", !.live = {}, !.doomed = found]
<1>1. job[c].pc # "idle" /\ At(c, "listing")
  BY DEF ListKeys, At
<1>2. At(Upgrade, "done") /\ job[c] \in Job
  BY <1>1, BusyCaller
<1>3. job' = [job EXCEPT ![c] = j] /\ UNCHANGED <<old, record, index, kept, dropped, failed, faults>>
  BY DEF ListKeys, Become
<1>4. found \subseteq Ids
  OBVIOUS
<1>5. OneWriter => found \cap ToSet(index) = {}
  BY <1>1 DEF RecordsInv, CallerHolds, WriteHolds
<1> HIDE DEF found
<1>6. j \in Job /\ j.pc = "evicting" /\ j.ids = job[c].ids /\ j.doomed = found
  BY <1>2, <1>4 DEF Job
<1> HIDE DEF j
<1>7. /\ job' \in [Writers -> Job] /\ job'[c] = j /\ CallerFits(c)'
      /\ \A w \in Writers : w # c => job'[w] = job[w]
  BY <1>1, <1>3, <1>6, CallerGoes DEF CallerPcs
<1>8. TypeOK'
  BY <1>3, <1>7, StoreTyped DEF TypeOK
<1>9. OneWriter => CallerHolds(c)'
  BY <1>3, <1>5, <1>6, <1>7 DEF CallerHolds, WriteHolds, At
<1>10. IndexNamesRecords => IndexNamesRecords'
  BY <1>3 DEF IndexNamesRecords
<1> QED
  BY <1>1, <1>2, <1>3, <1>7, <1>8, <1>9, <1>10, CallerStep DEF RecordsInv

LEMMA CallerEvictKeyKeeps ==
    ASSUME RecordsInv, NEW c \in Callers, EvictKey(c) PROVE RecordsInv'
<1>1. job[c].pc # "idle" /\ At(c, "evicting") /\ c # Upgrade
  BY DEF EvictKey, At, Writers
<1>2. At(Upgrade, "done") /\ job[c] \in Job
  BY <1>1, BusyCaller
<1>3. UNCHANGED <<old, index, kept, dropped, failed, faults>>
  BY DEF EvictKey
<1>4. CASE job[c].doomed # {}
  <2>1. PICK id \in job[c].doomed :
            /\ record' = [record EXCEPT ![id] = "none"]
            /\ job' = [job EXCEPT ![c] = [job[c] EXCEPT !.doomed = @ \ {id}]]
    BY <1>4 DEF EvictKey, Become
  <2> DEFINE j == [job[c] EXCEPT !.doomed = @ \ {id}]
  <2>2. /\ j \in Job /\ j.pc = "evicting" /\ j.ids = job[c].ids
        /\ j.doomed = job[c].doomed \ {id} /\ id \in Ids
    BY <1>1, <1>2 DEF Job, At
  <2> HIDE DEF j
  <2>3. /\ job' \in [Writers -> Job] /\ job'[c] = j /\ CallerFits(c)'
        /\ \A w \in Writers : w # c => job'[w] = job[w]
    BY <1>1, <2>1, <2>2, CallerGoes DEF CallerPcs, j
  <2>4. record \in [Ids -> Contents] /\ record' \in [Ids -> Contents]
    BY <2>1, StoreTyped DEF Contents
  <2>5. TypeOK'
    BY <1>3, <2>3, <2>4, StoreTyped DEF TypeOK
  <2>6. ASSUME OneWriter PROVE IndexNamesRecords' /\ CallerHolds(c)'
    <3>1. job[c].doomed \cap ToSet(index) = {} /\ IndexNamesRecords
      BY <1>1, <2>6 DEF RecordsInv, CallerHolds, WriteHolds
    <3>2. ToSet(index) \subseteq Ids
      BY StoreTyped, MembersOf
    <3>3. IndexNamesRecords'
      BY <1>3, <2>1, <2>4, <3>1, <3>2 DEF IndexNamesRecords
    <3>4. CallerHolds(c)'
      BY <1>3, <2>2, <2>3, <3>1 DEF CallerHolds, WriteHolds, At
    <3> QED BY <3>3, <3>4
  <2> QED
    BY <1>1, <1>2, <1>3, <2>3, <2>5, <2>6, CallerStep DEF RecordsInv
<1>5. CASE job[c].doomed = {}
  <2>1. job' = [job EXCEPT ![c] = Idle] /\ record' = record
    BY <1>1, <1>5 DEF EvictKey, Become
  <2>2. Idle \in Job /\ Idle.pc = "idle"
    BY IdleTyped DEF Idle
  <2>3. /\ job' \in [Writers -> Job] /\ job'[c] = Idle /\ CallerFits(c)'
        /\ \A w \in Writers : w # c => job'[w] = job[w]
    BY <1>1, <2>1, <2>2, CallerGoes DEF CallerPcs
  <2>4. TypeOK'
    BY <1>3, <2>1, <2>3, StoreTyped DEF TypeOK
  <2>5. CallerHolds(c)'
    BY <2>2, <2>3 DEF CallerHolds, WriteHolds, At
  <2>6. IndexNamesRecords => IndexNamesRecords'
    BY <1>3, <2>1 DEF IndexNamesRecords
  <2> QED
    BY <1>1, <1>2, <1>3, <2>3, <2>4, <2>5, <2>6, CallerStep DEF RecordsInv
<1> QED BY <1>4, <1>5

LEMMA LookKeeps ==
    ASSUME RecordsInv, NEW c \in Callers, Look(c) PROVE RecordsInv'
<1> DEFINE pc == IF Target(c) \in ToSet(index) THEN "replacing" ELSE "setting"
           j == [job[c] EXCEPT !.pc = pc]
<1>1. job[c].pc # "idle"
  BY DEF Look, At
<1>2. At(Upgrade, "done") /\ job[c] \in Job
  BY <1>1, BusyCaller
<1>3. job' = [job EXCEPT ![c] = j] /\ UNCHANGED <<old, record, index, kept, dropped, failed, faults>>
  BY DEF Look, Go
<1>4. pc \in {"replacing", "setting"} /\ (pc = "replacing" => Target(c) \in ToSet(index))
  OBVIOUS
<1> HIDE DEF pc
<1>5. j \in Job /\ j.pc = pc /\ j.ids = job[c].ids
  BY <1>2, <1>4 DEF Job
<1> HIDE DEF j
<1>6. /\ job' \in [Writers -> Job] /\ job'[c] = j /\ CallerFits(c)'
      /\ \A w \in Writers : w # c => job'[w] = job[w]
      /\ Target(c)' = Target(c)
  <2>1. pc \in CallerPcs /\ pc # "idle"
    BY <1>4 DEF CallerPcs
  <2> QED BY <1>1, <1>3, <1>5, <2>1, CallerGoes
<1>7. TypeOK'
  BY <1>3, <1>6, StoreTyped DEF TypeOK
<1>8. CallerHolds(c)'
  BY <1>3, <1>4, <1>5, <1>6 DEF CallerHolds, WriteHolds, At
<1>9. IndexNamesRecords => IndexNamesRecords'
  BY <1>3 DEF IndexNamesRecords
<1> QED
  BY <1>1, <1>2, <1>3, <1>6, <1>7, <1>8, <1>9, CallerStep DEF RecordsInv

\* A caller is done.
LEMMA CallerEnds ==
    ASSUME RecordsInv, NEW c \in Callers, job[c].pc # "idle", job' = [job EXCEPT ![c] = Idle],
           record' \in [Ids -> Contents], faults' \in 0..MaxFaults,
           UNCHANGED <<old, index, kept, dropped, failed>>,
           OneWriter => IndexNamesRecords'
    PROVE  RecordsInv'
<1>1. Idle \in Job /\ Idle.pc = "idle"
  BY IdleTyped DEF Idle
<1>2. /\ job' \in [Writers -> Job] /\ job'[c] = Idle /\ CallerFits(c)'
      /\ \A w \in Writers : w # c => job'[w] = job[w]
  BY <1>1, CallerGoes DEF CallerPcs
<1>3. TypeOK'
  BY <1>2, StoreTyped DEF TypeOK
<1>4. CallerHolds(c)'
  BY <1>1, <1>2 DEF CallerHolds, WriteHolds, At
<1>5. At(Upgrade, "done")
  BY BusyCaller
<1> QED
  BY <1>2, <1>3, <1>4, <1>5, CallerStep DEF RecordsInv

LEMMA ReplaceInPlaceKeeps ==
    ASSUME RecordsInv, NEW c \in Callers, ReplaceInPlace(c) PROVE RecordsInv'
<1>1. job[c].pc # "idle"
  BY DEF ReplaceInPlace, At
<1>2. /\ record' = [record EXCEPT ![Target(c)] = "new"] /\ job' = [job EXCEPT ![c] = Idle]
      /\ UNCHANGED <<old, index, kept, dropped, failed, faults>>
  BY DEF ReplaceInPlace, Become
<1>3. Target(c) \in Ids /\ record \in [Ids -> Contents] /\ faults' \in 0..MaxFaults
  BY <1>1, <1>2, BusyCaller, StoreTyped
<1>4. record' \in [Ids -> Contents] /\ (IndexNamesRecords => IndexNamesRecords')
  BY <1>2, <1>3 DEF IndexNamesRecords, Contents
<1> QED
  BY <1>1, <1>2, <1>3, <1>4, CallerEnds DEF RecordsInv

LEMMA RemoveRecordKeeps ==
    ASSUME RecordsInv, NEW c \in Callers, RemoveRecord(c) PROVE RecordsInv'
<1>1. job[c].pc # "idle" /\ At(c, "removed")
  BY DEF RemoveRecord, At
<1>2. /\ record' = [record EXCEPT ![Target(c)] = "none"] /\ job' = [job EXCEPT ![c] = Idle]
      /\ UNCHANGED <<old, index, kept, dropped, failed, faults>>
  BY DEF RemoveRecord, Become
<1>3. Target(c) \in Ids /\ record \in [Ids -> Contents] /\ faults' \in 0..MaxFaults
  BY <1>1, <1>2, BusyCaller, StoreTyped
<1>4. record' \in [Ids -> Contents]
  BY <1>2, <1>3 DEF Contents
<1>5. ASSUME OneWriter PROVE IndexNamesRecords'
  <2>1. Target(c) \notin ToSet(index) /\ IndexNamesRecords
    BY <1>1, <1>5 DEF RecordsInv, CallerHolds
  <2>2. ToSet(index) \subseteq Ids
    BY StoreTyped, MembersOf
  <2> QED BY <1>2, <1>3, <2>1, <2>2 DEF IndexNamesRecords
<1> QED
  BY <1>1, <1>2, <1>3, <1>4, <1>5, CallerEnds

LEMMA WriteFailsKeeps ==
    ASSUME RecordsInv, NEW c \in Callers, WriteFails(c) PROVE RecordsInv'
<1>1. job[c].pc # "idle" /\ job' = [job EXCEPT ![c] = Idle] /\ Fault
      /\ UNCHANGED <<old, record, index, kept, dropped, failed>>
  BY DEF WriteFails, Become
<1>2. faults' \in 0..MaxFaults
  BY <1>1, StoreTyped, FaultsAssumption DEF Fault
<1>3. IndexNamesRecords => IndexNamesRecords'
  BY <1>1 DEF IndexNamesRecords
<1>4. record' \in [Ids -> Contents]
  BY <1>1, StoreTyped
<1> QED
  BY <1>1, <1>2, <1>3, <1>4, CallerEnds DEF RecordsInv

LEMMA RemoveFromIndexKeeps ==
    ASSUME RecordsInv, NEW c \in Callers, RemoveFromIndex(c) PROVE RecordsInv'
<1> DEFINE j == [job[c] EXCEPT !.pc = "removed"]
<1>1. job[c].pc # "idle"
  BY DEF RemoveFromIndex, At
<1>2. At(Upgrade, "done") /\ job[c] \in Job /\ Target(c) \in Ids
  BY <1>1, BusyCaller
<1>3. /\ job' = [job EXCEPT ![c] = j] /\ index' = Without(index, Target(c))
      /\ dropped' = dropped \cup {Target(c)}
      /\ UNCHANGED <<old, record, kept, failed, faults>>
  BY DEF RemoveFromIndex, Go
<1>4. /\ index' \in Seq(Ids) /\ IsInjective(index') /\ ToSet(index') = ToSet(index) \ {Target(c)}
      /\ Len(index') <= MaxRecords
  <2>1. /\ index' \in Seq(Ids) /\ IsInjective(index') /\ ToSet(index') = ToSet(index) \ {Target(c)}
        /\ Len(index') <= Len(index)
    BY <1>3, WithoutOf, StoreTyped
  <2>2. Len(index') \in Nat /\ Len(index) \in Nat /\ Len(index) <= MaxRecords /\ MaxRecords \in Nat
    BY <2>1, StoreTyped
  <2> QED BY <2>1, <2>2
<1>5. j \in Job /\ j.pc = "removed" /\ j.ids = job[c].ids
  BY <1>2 DEF Job
<1> HIDE DEF j
<1>6. /\ job' \in [Writers -> Job] /\ job'[c] = j /\ CallerFits(c)' /\ Target(c)' = Target(c)
      /\ \A w \in Writers : w # c => job'[w] = job[w]
  BY <1>1, <1>3, <1>5, CallerGoes DEF CallerPcs
<1>7. TypeOK'
  BY <1>2, <1>3, <1>4, <1>6, StoreTyped DEF TypeOK
<1>8. CallerHolds(c)'
  BY <1>4, <1>5, <1>6 DEF CallerHolds, WriteHolds, At
<1>9. IndexNamesRecords => IndexNamesRecords'
  BY <1>3, <1>4 DEF IndexNamesRecords
<1>10. kept' \subseteq (ToSet(old) \ Unreadable) \cup ToSet(index') \cup dropped'
  BY <1>3, <1>4 DEF RecordsInv
<1> QED
  BY <1>1, <1>2, <1>3, <1>6, <1>7, <1>8, <1>9, <1>10, CallerStep DEF RecordsInv

\* A record that is changed where it is concerns nobody.
LEMMA MutateKeeps ==
    ASSUME RecordsInv, NEW c \in Callers, Mutate(c) PROVE RecordsInv'
<1>1. PICK id \in Ids : record[id] = "old" /\ record' = [record EXCEPT ![id] = "new"]
  BY DEF Mutate
<1>2. At(Upgrade, "done") /\ UNCHANGED <<old, index, job, kept, dropped, failed, faults>>
  BY DEF Mutate
<1>3. record \in [Ids -> Contents] /\ record' \in [Ids -> Contents]
  BY <1>1, StoreTyped DEF Contents
<1>4. \A x : record[x] # "none" => record'[x] # "none"
  BY <1>1, <1>3
<1>5. TypeOK'
  BY <1>2, <1>3, StoreTyped DEF TypeOK
<1>6. UpgradeFits' /\ ~(old' # <<>> /\ ~failed')
  BY <1>2 DEF UpgradeFits, UpgradePcs, At, Writing, RecordsInv
<1>7. ASSUME NEW e \in Callers
      PROVE  CallerFits(e)' /\ (CallerHolds(e) => CallerHolds(e)')
  BY <1>2, <1>4 DEF CallerFits, CallerHolds, WriteHolds, At, Target, RecordsInv
<1>8. IndexNamesRecords => IndexNamesRecords'
  BY <1>2, <1>4 DEF IndexNamesRecords
<1> QED
  BY <1>2, <1>5, <1>6, <1>7, <1>8 DEF RecordsInv

-----------------------------------------------------------------------------
(* The upgrade. *)

LEMMA UpgradeGoes ==
    ASSUME RecordsInv, NEW j \in Job, job' = [job EXCEPT ![Upgrade] = j]
    PROVE  /\ job' \in [Writers -> Job] /\ job'[Upgrade] = j
           /\ \A c \in Callers : job'[c] = job[c]
BY StoreTyped DEF Writers

\* Where the upgrade is.
LEMMA UpgradeAt ==
    ASSUME RecordsInv, At(Upgrade, "choosing") \/ Writing(Upgrade), job[Upgrade].ids # <<>>
    PROVE  /\ job[Upgrade] \in Job /\ job[Upgrade].ids \in Seq(Ids) /\ old \in Seq(Ids)
           /\ Len(job[Upgrade].ids) \in 1..Len(old) /\ Len(old) \in Nat
           /\ Target(Upgrade) = old[Len(job[Upgrade].ids)] /\ Target(Upgrade) \in Ids
           /\ ~At(Upgrade, "done")
<1>1. Upgrade \in Writers /\ UpgradeFits
  BY DEF Writers, RecordsInv
<1>2. job[Upgrade] \in Job /\ job[Upgrade].ids \in Seq(Ids) /\ Target(Upgrade) \in Ids /\ old \in Seq(Ids)
  BY <1>1, WriterTyped, StoreTyped
<1>3. Len(job[Upgrade].ids) <= Len(old) /\ \A i \in 1..Len(job[Upgrade].ids) : job[Upgrade].ids[i] = old[i]
  BY <1>1 DEF UpgradeFits
<1>4. Len(job[Upgrade].ids) \in 1..Len(job[Upgrade].ids) /\ Len(old) \in Nat
  BY <1>2
<1>5. Target(Upgrade) = old[Len(job[Upgrade].ids)]
  BY <1>3, <1>4 DEF Target, Last
<1>6. ~At(Upgrade, "done")
  BY DEF At, Writing
<1> QED BY <1>2, <1>3, <1>4, <1>5, <1>6

\* A write of the upgrade goes on to its next step.
LEMMA UpgradeWrites ==
    ASSUME RecordsInv, Writing(Upgrade), job'[Upgrade].ids = job[Upgrade].ids, old' = old,
           Writing(Upgrade)', WriteHolds(Upgrade)',
           ToSet(index) \cup dropped \subseteq ToSet(index') \cup dropped',
           job'[Upgrade].pc \in {"listing", "evicting"} =>
               Target(Upgrade) \in ToSet(index') /\ record'[Target(Upgrade)] # "none"
    PROVE  UpgradeFits'
<1>1. UpgradeFits
  BY DEF RecordsInv
<1>2. Target(Upgrade)' = Target(Upgrade)
  BY DEF Target
<1>3. /\ old # <<>> /\ Len(job[Upgrade].ids) <= Len(old)
      /\ \A i \in 1..Len(job[Upgrade].ids) : job[Upgrade].ids[i] = old[i]
      /\ Covered({old[i] : i \in (Len(job[Upgrade].ids) + 1)..Len(old)} \ Unreadable)
      /\ job[Upgrade].ids # <<>> /\ Target(Upgrade) \notin Unreadable
  BY <1>1 DEF UpgradeFits
<1>4. \A S : Covered(S) => \A id \in S : id \in ToSet(index') \cup dropped'
  BY DEF Covered
<1>5. Covered({old[i] : i \in (Len(job[Upgrade].ids) + 1)..Len(old)} \ Unreadable)'
  BY <1>3, <1>4 DEF Covered
<1>6. /\ job'[Upgrade].pc \in UpgradePcs /\ ~At(Upgrade, "choosing")'
      /\ ~At(Upgrade, "verifying")' /\ ~At(Upgrade, "clearing")'
  BY DEF Writing, At, UpgradePcs
<1> QED BY <1>2, <1>3, <1>5, <1>6 DEF UpgradeFits

\* The upgrade is before its next record.
LEMMA UpgradeChooses ==
    ASSUME NEW s, NEW m, job'[Upgrade].pc = "choosing", job'[Upgrade].ids = s, Len(s) = m,
           old' # <<>>, m <= Len(old'), \A i \in 1..m : s[i] = old'[i],
           \A i \in (m + 1)..Len(old') :
               old'[i] \notin Unreadable => old'[i] \in ToSet(index') \cup dropped',
           \A i \in Sample' : i > m => record'[old'[i]] # "none"
    PROVE  UpgradeFits' /\ ~At(Upgrade, "done")'
<1>1. /\ ~Writing(Upgrade)' /\ At(Upgrade, "choosing")' /\ ~At(Upgrade, "verifying")'
      /\ ~At(Upgrade, "clearing")' /\ ~At(Upgrade, "done")' /\ job'[Upgrade].pc \in UpgradePcs
      /\ job'[Upgrade].pc \notin {"listing", "evicting"}
  BY DEF Writing, At, UpgradePcs
<1>2. Covered({old[i] : i \in (Len(job[Upgrade].ids) + 1)..Len(old)} \ Unreadable)'
  BY DEF Covered
<1> QED BY <1>1, <1>2 DEF UpgradeFits

LEMMA UpgradeSetKeeps ==
    ASSUME RecordsInv, Set(Upgrade) PROVE RecordsInv'
<1> DEFINE j == [job[Upgrade] EXCEPT !.pc = "indexing"]
<1>1. At(Upgrade, "setting") /\ Writing(Upgrade) /\ UpgradeFits
  BY DEF Set, At, Writing, RecordsInv
<1>2. job[Upgrade] \in Job /\ Target(Upgrade) \in Ids /\ ~At(Upgrade, "done") /\ old # <<>>
  BY <1>1, UpgradeAt DEF UpgradeFits
<1>3. /\ job' = [job EXCEPT ![Upgrade] = j] /\ record' = [record EXCEPT ![Target(Upgrade)] = "old"]
      /\ UNCHANGED <<old, index, kept, dropped, failed, faults>>
  BY DEF Set, Go
<1>4. j \in Job /\ j.pc = "indexing" /\ j.ids = job[Upgrade].ids
  BY <1>2 DEF Job
<1> HIDE DEF j
<1>5. /\ job' \in [Writers -> Job] /\ job'[Upgrade] = j /\ \A c \in Callers : job'[c] = job[c]
  BY <1>3, <1>4, UpgradeGoes
<1>6. record \in [Ids -> Contents] /\ record' \in [Ids -> Contents] /\ record'[Target(Upgrade)] = "old"
  BY <1>2, <1>3, StoreTyped DEF Contents
<1>7. TypeOK'
  BY <1>3, <1>5, <1>6, StoreTyped DEF TypeOK
<1>8. Target(Upgrade)' = Target(Upgrade) /\ ~At(Upgrade, "done")'
  BY <1>4, <1>5 DEF Target, At
<1>9. UpgradeFits'
  <2>1. Writing(Upgrade)' /\ WriteHolds(Upgrade)'
    BY <1>4, <1>5, <1>6, <1>8 DEF Writing, WriteHolds, At
  <2>2. ToSet(index) \cup dropped \subseteq ToSet(index') \cup dropped'
    BY <1>3
  <2> QED BY <1>1, <1>3, <1>4, <1>5, <2>1, <2>2, UpgradeWrites
<1>10. IndexNamesRecords => IndexNamesRecords'
  BY <1>3, <1>6 DEF IndexNamesRecords
<1>11. \A id \in Ids : record'[id] \in {record[id], "old", "none"}
  BY <1>2, <1>3, <1>6
<1> QED
  BY <1>2, <1>3, <1>5, <1>7, <1>8, <1>9, <1>10, <1>11, UpgradeStep DEF RecordsInv

LEMMA UpgradeSetIndexKeeps ==
    ASSUME RecordsInv, SetIndex(Upgrade) PROVE RecordsInv'
<1> DEFINE j == [job[Upgrade] EXCEPT !.pc = "listing", !.live = ToSet(index')]
           T == Target(Upgrade)
<1>1. At(Upgrade, "indexing") /\ Writing(Upgrade) /\ UpgradeFits
  BY DEF SetIndex, At, Writing, RecordsInv
<1>2. /\ job[Upgrade] \in Job /\ T \in Ids /\ ~At(Upgrade, "done") /\ old # <<>>
      /\ record[T] # "none"
  BY <1>1, UpgradeAt DEF UpgradeFits, WriteHolds
<1>3. /\ index' = Indexed(T) /\ kept' = kept \cup {T}
      /\ dropped' = (dropped \cup (ToSet(index) \ ToSet(index'))) \ {T}
      /\ job' = [job EXCEPT ![Upgrade] = j]
      /\ UNCHANGED <<old, record, failed, faults>>
  BY DEF SetIndex, Become
<1>4. /\ index' \in Seq(Ids) /\ IsInjective(index') /\ Len(index') <= MaxRecords
      /\ T \in ToSet(index') /\ ToSet(index') \subseteq ToSet(index) \cup {T}
  BY <1>2, <1>3, IndexedOf, StoreTyped
<1>5. ToSet(index') \subseteq Ids /\ ToSet(index) \subseteq Ids
  BY <1>4, StoreTyped, MembersOf
<1>6. j \in Job /\ j.pc = "listing" /\ j.ids = job[Upgrade].ids /\ j.live = ToSet(index')
  BY <1>2, <1>5 DEF Job
<1> HIDE DEF j, T
<1>7. /\ job' \in [Writers -> Job] /\ job'[Upgrade] = j /\ \A c \in Callers : job'[c] = job[c]
  BY <1>3, <1>6, UpgradeGoes
<1>8. TypeOK'
  BY <1>2, <1>3, <1>4, <1>5, <1>7, StoreTyped DEF TypeOK
<1>9. ToSet(index) \cup dropped \cup {T} \subseteq ToSet(index') \cup dropped'
  BY <1>3, <1>4, CoverGrows
<1>10. UpgradeFits' /\ ~At(Upgrade, "done")'
  <2>1. Writing(Upgrade)' /\ WriteHolds(Upgrade)' /\ ~At(Upgrade, "done")'
    BY <1>6, <1>7 DEF Writing, WriteHolds, At
  <2>2. T \in ToSet(index') /\ record'[T] # "none"
    BY <1>2, <1>3, <1>4
  <2> QED BY <1>1, <1>3, <1>6, <1>7, <1>9, <2>1, <2>2, UpgradeWrites DEF T
<1>11. IndexNamesRecords => IndexNamesRecords'
  BY <1>2, <1>3, <1>4 DEF IndexNamesRecords
<1>12. kept' \subseteq (ToSet(old') \ Unreadable) \cup ToSet(index') \cup dropped'
  BY <1>3, <1>9 DEF RecordsInv
<1> QED
  BY <1>2, <1>3, <1>7, <1>8, <1>10, <1>11, <1>12, UpgradeStep DEF RecordsInv

LEMMA UpgradeListKeysKeeps ==
    ASSUME RecordsInv, ListKeys(Upgrade) PROVE RecordsInv'
<1> DEFINE found == {id \in Ids : record[id] # "none"} \ job[Upgrade].live
           j == [job[Upgrade] EXCEPT !.pc = "evicting", !.live = {}, !.doomed = found]
<1>1. At(Upgrade, "listing") /\ Writing(Upgrade) /\ UpgradeFits
  BY DEF ListKeys, At, Writing, RecordsInv
<1>2. /\ job[Upgrade] \in Job /\ ~At(Upgrade, "done") /\ old # <<>>
      /\ Target(Upgrade) \in ToSet(index) /\ record[Target(Upgrade)] # "none"
  BY <1>1, UpgradeAt DEF UpgradeFits, At
<1>3. job' = [job EXCEPT ![Upgrade] = j] /\ UNCHANGED <<old, record, index, kept, dropped, failed, faults>>
  BY DEF ListKeys, Become
<1>4. found \subseteq Ids
  OBVIOUS
<1>5. found \cap ToSet(index) = {}
  BY <1>1 DEF UpgradeFits, WriteHolds
<1> HIDE DEF found
<1>6. j \in Job /\ j.pc = "evicting" /\ j.ids = job[Upgrade].ids /\ j.doomed = found
  BY <1>2, <1>4 DEF Job
<1> HIDE DEF j
<1>7. /\ job' \in [Writers -> Job] /\ job'[Upgrade] = j /\ \A c \in Callers : job'[c] = job[c]
  BY <1>3, <1>6, UpgradeGoes
<1>8. TypeOK'
  BY <1>3, <1>7, StoreTyped DEF TypeOK
<1>9. UpgradeFits' /\ ~At(Upgrade, "done")'
  <2>1. Writing(Upgrade)' /\ WriteHolds(Upgrade)' /\ ~At(Upgrade, "done")'
    BY <1>3, <1>5, <1>6, <1>7 DEF Writing, WriteHolds, At
  <2>2. ToSet(index) \cup dropped \subseteq ToSet(index') \cup dropped'
    BY <1>3
  <2> QED BY <1>1, <1>2, <1>3, <1>6, <1>7, <2>1, <2>2, UpgradeWrites
<1>10. IndexNamesRecords => IndexNamesRecords'
  BY <1>3 DEF IndexNamesRecords
<1> QED
  BY <1>2, <1>3, <1>7, <1>8, <1>9, <1>10, UpgradeStep DEF RecordsInv

LEMMA UpgradeEvictKeyKeeps ==
    ASSUME RecordsInv, EvictKey(Upgrade) PROVE RecordsInv'
<1> DEFINE ids == job[Upgrade].ids
           T == Target(Upgrade)
<1>1. At(Upgrade, "evicting") /\ Writing(Upgrade) /\ UpgradeFits
  BY DEF EvictKey, At, Writing, RecordsInv
<1>2. /\ job[Upgrade] \in Job /\ ~At(Upgrade, "done") /\ old # <<>> /\ ids # <<>>
      /\ T \in ToSet(index) /\ record[T] # "none" /\ T \notin Unreadable
      /\ job[Upgrade].doomed \cap ToSet(index) = {}
  BY <1>1, UpgradeAt DEF UpgradeFits, At, WriteHolds
<1>3. UNCHANGED <<old, index, kept, dropped, failed, faults>>
  BY DEF EvictKey
<1>4. CASE job[Upgrade].doomed # {}
  <2>1. PICK id \in job[Upgrade].doomed :
            /\ record' = [record EXCEPT ![id] = "none"]
            /\ job' = [job EXCEPT ![Upgrade] = [job[Upgrade] EXCEPT !.doomed = @ \ {id}]]
    BY <1>4 DEF EvictKey, Become
  <2> DEFINE j == [job[Upgrade] EXCEPT !.doomed = @ \ {id}]
  <2>2. /\ j \in Job /\ j.pc = "evicting" /\ j.ids = ids
        /\ j.doomed = job[Upgrade].doomed \ {id} /\ id \in Ids
    BY <1>1, <1>2 DEF Job, At
  <2> HIDE DEF j, T
  <2>3. /\ job' \in [Writers -> Job] /\ job'[Upgrade] = j /\ \A c \in Callers : job'[c] = job[c]
    BY <2>1, <2>2, UpgradeGoes DEF j
  <2>4. record \in [Ids -> Contents] /\ record' \in [Ids -> Contents]
    BY <2>1, StoreTyped DEF Contents
  <2>5. TypeOK'
    BY <1>3, <2>3, <2>4, StoreTyped DEF TypeOK
  <2>6. ToSet(index) \subseteq Ids /\ id \notin ToSet(index)
    BY <1>2, StoreTyped, MembersOf
  <2>7. \A x \in ToSet(index) : record'[x] = record[x]
    BY <2>1, <2>4, <2>6
  <2>8. UpgradeFits' /\ ~At(Upgrade, "done")'
    <3>1. Writing(Upgrade)' /\ WriteHolds(Upgrade)' /\ ~At(Upgrade, "done")'
      BY <1>2, <1>3, <2>2, <2>3 DEF Writing, WriteHolds, At
    <3>2. T \in ToSet(index') /\ record'[T] # "none"
      BY <1>2, <1>3, <2>7
    <3>3. ToSet(index) \cup dropped \subseteq ToSet(index') \cup dropped'
      BY <1>3
    <3> QED BY <1>1, <1>3, <2>2, <2>3, <3>1, <3>2, <3>3, UpgradeWrites DEF T
  <2>9. IndexNamesRecords => IndexNamesRecords'
    BY <1>3, <2>7 DEF IndexNamesRecords
  <2>10. \A x \in Ids : record'[x] \in {record[x], "old", "none"}
    BY <2>1, <2>4
  <2> QED
    BY <1>2, <1>3, <2>3, <2>5, <2>8, <2>9, <2>10, UpgradeStep DEF RecordsInv
<1>5. CASE job[Upgrade].doomed = {}
  <2> DEFINE j == [job[Upgrade] EXCEPT !.pc = "choosing", !.ids = Front(@)]
             n == Len(ids)
  <2>1. job' = [job EXCEPT ![Upgrade] = j] /\ record' = record
    BY <1>5 DEF EvictKey, Become
  <2>2. /\ ids \in Seq(Ids) /\ old \in Seq(Ids) /\ n \in 1..Len(old) /\ Len(old) \in Nat
        /\ T = old[n] /\ \A i \in 1..n : ids[i] = old[i]
        /\ Covered({old[i] : i \in (n + 1)..Len(old)} \ Unreadable)
    BY <1>1, <1>2, UpgradeAt DEF UpgradeFits
  <2> HIDE DEF T
  <2>3. Front(ids) \in Seq(Ids) /\ Len(Front(ids)) = n - 1
        /\ \A i \in 1..(n - 1) : Front(ids)[i] = ids[i]
    BY <2>2, PrefixOf DEF Front
  <2>4. j \in Job /\ j.pc = "choosing" /\ j.ids = Front(ids)
    BY <1>2, <2>3 DEF Job
  <2> HIDE DEF j
  <2>5. /\ job' \in [Writers -> Job] /\ job'[Upgrade] = j /\ \A c \in Callers : job'[c] = job[c]
    BY <2>1, <2>4, UpgradeGoes
  <2>6. TypeOK'
    BY <1>3, <2>1, <2>5, StoreTyped DEF TypeOK
  <2>7. UpgradeFits'
    <3>1. n - 1 <= Len(old) /\ \A i \in 1..(n - 1) : Front(ids)[i] = old[i]
      BY <2>2, <2>3
    <3>2. ASSUME NEW i \in ((n - 1) + 1)..Len(old), old[i] \notin Unreadable
          PROVE  old[i] \in ToSet(index) \cup dropped
      <4>1. i = n \/ i \in (n + 1)..Len(old)
        BY <2>2
      <4> QED BY <1>2, <2>2, <3>2, <4>1 DEF Covered
    <3>3. ASSUME NEW i \in Sample, i > n - 1 PROVE record[old[i]] # "none"
      <4>1. i \in 1..Len(old) /\ old[i] \notin Unreadable
            /\ \A k \in 1..(i - 1) : old[k] \in Unreadable
        BY DEF Sample
      <4>2. ~(n <= i - 1)
        <5>1. n <= i - 1 => n \in 1..(i - 1)
          BY <2>2, <4>1
        <5> QED BY <1>2, <2>2, <4>1, <5>1
      <4>3. i = n
        BY <2>2, <3>3, <4>1, <4>2
      <4> QED BY <1>2, <2>2, <4>3
    <3>4. Sample' = Sample
      BY <1>3 DEF Sample
    <3> HIDE DEF n, ids
    <3> QED
      BY <1>2, <1>3, <2>1, <2>3, <2>4, <2>5, <3>1, <3>2, <3>3, <3>4, UpgradeChooses
  <2>8. ~At(Upgrade, "done")'
    BY <2>4, <2>5 DEF At
  <2>9. IndexNamesRecords => IndexNamesRecords'
    BY <1>3, <2>1 DEF IndexNamesRecords
  <2> QED
    BY <1>2, <1>3, <2>1, <2>5, <2>6, <2>7, <2>8, <2>9, UpgradeStep DEF RecordsInv
<1> QED BY <1>4, <1>5

LEMMA BeginUpgradeKeeps ==
    ASSUME RecordsInv, BeginUpgrade PROVE RecordsInv'
<1>1. At(Upgrade, "not run") /\ ~At(Upgrade, "done") /\ old \in Seq(Ids)
  BY StoreTyped DEF BeginUpgrade, At
<1>2. UNCHANGED <<old, record, index, kept, dropped, failed, faults>>
  BY DEF BeginUpgrade
<1>3. IndexNamesRecords => IndexNamesRecords'
  BY <1>2 DEF IndexNamesRecords
<1>4. CASE old = <<>>
  <2> DEFINE j == [Idle EXCEPT !.pc = "done"]
  <2>1. j \in Job /\ j.pc = "done"
    BY IdleTyped DEF Idle
  <2>2. job' = [job EXCEPT ![Upgrade] = j]
    BY <1>4 DEF BeginUpgrade, Become
  <2> HIDE DEF j
  <2>3. job' \in [Writers -> Job] /\ job'[Upgrade] = j /\ \A c \in Callers : job'[c] = job[c]
    BY <2>1, <2>2, UpgradeGoes
  <2>4. TypeOK'
    BY <1>2, <2>3, StoreTyped DEF TypeOK
  <2>5. UpgradeFits'
    BY <2>1, <2>3 DEF UpgradeFits, UpgradePcs, At, Writing
  <2> QED BY <1>1, <1>2, <1>3, <1>4, <2>3, <2>4, <2>5, UpgradeStep DEF RecordsInv
<1>5. CASE old # <<>>
  <2> DEFINE j == [Idle EXCEPT !.pc = "choosing", !.ids = old]
  <2>1. j \in Job /\ j.pc = "choosing" /\ j.ids = old
    BY <1>1, JobTyped DEF UpgradePcs
  <2>2. job' = [job EXCEPT ![Upgrade] = j]
    BY <1>5 DEF BeginUpgrade, Become
  <2> HIDE DEF j
  <2>3. job' \in [Writers -> Job] /\ job'[Upgrade] = j /\ \A c \in Callers : job'[c] = job[c]
    BY <2>1, <2>2, UpgradeGoes
  <2>4. TypeOK'
    BY <1>2, <2>3, StoreTyped DEF TypeOK
  <2>5. /\ Len(old) <= Len(old') /\ \A i \in (Len(old) + 1)..Len(old') : FALSE
        /\ \A i \in Sample' : ~(i > Len(old))
    <3>1. Len(old) \in Nat /\ old' = old
      <4>1. old \in Seq(Ids)
        BY <1>1
      <4>2. Len(old) \in Nat
        BY <4>1
      <4> QED BY <1>2, <4>2
    <3>2. \A i \in Sample' : i \in 1..Len(old)
      BY <3>1 DEF Sample
    <3> QED BY <3>1, <3>2
  <2>6. UpgradeFits' /\ ~At(Upgrade, "done")'
    BY <1>2, <1>5, <2>1, <2>3, <2>5, UpgradeChooses
  <2> QED BY <1>1, <1>2, <1>3, <1>5, <2>3, <2>4, <2>6, UpgradeStep DEF RecordsInv
<1> QED BY <1>4, <1>5

LEMMA ChooseNextKeeps ==
    ASSUME RecordsInv, ChooseNext PROVE RecordsInv'
<1> DEFINE ids == job[Upgrade].ids
           n == Len(ids)
<1>1. At(Upgrade, "choosing") /\ ~At(Upgrade, "done") /\ UpgradeFits /\ Upgrade \in Writers
  BY DEF ChooseNext, At, RecordsInv, Writers
<1>2. /\ job[Upgrade] \in Job /\ ids \in Seq(Ids) /\ old \in Seq(Ids) /\ old # <<>>
      /\ n <= Len(old) /\ n \in Nat /\ Len(old) \in Nat /\ \A i \in 1..n : ids[i] = old[i]
  <2>1. job[Upgrade] \in Job /\ ids \in Seq(Ids) /\ old \in Seq(Ids)
    BY <1>1, WriterTyped, StoreTyped
  <2>2. old # <<>> /\ n <= Len(old) /\ \A i \in 1..n : ids[i] = old[i]
    BY <1>1 DEF UpgradeFits
  <2>3. n \in Nat /\ Len(old) \in Nat
    BY <2>1
  <2> QED BY <2>1, <2>2, <2>3
<1>3. /\ Covered({old[i] : i \in (n + 1)..Len(old)} \ Unreadable)
      /\ \A i \in Sample : i > n => record[old[i]] # "none"
  BY <1>1 DEF UpgradeFits
<1>4. UNCHANGED <<old, record, index, kept, dropped, failed, faults>> /\ Sample' = Sample
  BY DEF ChooseNext, Sample
<1>5. IndexNamesRecords => IndexNamesRecords'
  BY <1>4 DEF IndexNamesRecords
<1>6. CASE ids = <<>>
  <2> DEFINE j == [job[Upgrade] EXCEPT !.pc = "verifying"]
  <2>1. j \in Job /\ j.pc = "verifying"
    BY <1>2 DEF Job
  <2>2. job' = [job EXCEPT ![Upgrade] = j]
    BY <1>6 DEF ChooseNext, Go
  <2> HIDE DEF j
  <2>3. job' \in [Writers -> Job] /\ job'[Upgrade] = j /\ \A c \in Callers : job'[c] = job[c]
    BY <2>1, <2>2, UpgradeGoes
  <2>4. TypeOK'
    BY <1>4, <2>3, StoreTyped DEF TypeOK
  <2>5. n = 0 /\ (n + 1)..Len(old) = 1..Len(old) /\ ToSet(old) = {old[i] : i \in 1..Len(old)}
    BY <1>2, <1>6, MembersOf
  <2>6. Covered(ToSet(old) \ Unreadable)'
    <3>1. Covered(ToSet(old) \ Unreadable)
      BY <1>3, <2>5
    <3> QED BY <1>4, <3>1 DEF Covered
  <2>7. \A i \in Sample : record[old[i]] # "none"
    BY <1>3, <2>5 DEF Sample
  <2>8. UpgradeFits' /\ ~At(Upgrade, "done")'
    BY <1>4, <2>1, <2>3, <2>6, <2>7 DEF UpgradeFits, UpgradePcs, At, Writing
  <2> QED BY <1>1, <1>2, <1>4, <1>5, <2>3, <2>4, <2>8, UpgradeStep DEF RecordsInv
<1>7. CASE ids # <<>> /\ Target(Upgrade) \in Unreadable
  <2> DEFINE j == [job[Upgrade] EXCEPT !.ids = Front(@)]
  <2>1. n \in 1..Len(old) /\ Target(Upgrade) = old[n]
    BY <1>1, <1>7, UpgradeAt
  <2>2. Front(ids) \in Seq(Ids) /\ Len(Front(ids)) = n - 1
        /\ \A i \in 1..(n - 1) : Front(ids)[i] = ids[i]
    BY <1>2, <2>1, PrefixOf DEF Front
  <2>3. j \in Job /\ j.pc = "choosing" /\ j.ids = Front(ids)
    BY <1>1, <1>2, <2>2 DEF Job, At
  <2>4. job' = [job EXCEPT ![Upgrade] = j]
    BY <1>7 DEF ChooseNext, Become
  <2> HIDE DEF j
  <2>5. job' \in [Writers -> Job] /\ job'[Upgrade] = j /\ \A c \in Callers : job'[c] = job[c]
    BY <2>3, <2>4, UpgradeGoes
  <2>6. TypeOK'
    BY <1>4, <2>5, StoreTyped DEF TypeOK
  <2>7. n - 1 <= Len(old) /\ \A i \in 1..(n - 1) : Front(ids)[i] = old[i]
    <3>1. n - 1 <= Len(old) /\ \A i \in 1..(n - 1) : i \in 1..n
      BY <1>2, <2>1
    <3> QED BY <1>2, <2>2, <3>1
  <2>8. ASSUME NEW i \in ((n - 1) + 1)..Len(old), old[i] \notin Unreadable
        PROVE  old[i] \in ToSet(index) \cup dropped
    <3>1. i = n \/ i \in (n + 1)..Len(old)
      BY <1>2, <2>1
    <3> QED BY <1>3, <1>7, <2>1, <2>8, <3>1 DEF Covered
  <2>9. ASSUME NEW i \in Sample, i > n - 1 PROVE record[old[i]] # "none"
    <3>1. i \in 1..Len(old) /\ i # n
      BY <1>7, <2>1 DEF Sample
    <3>2. i > n
      BY <1>2, <2>1, <2>9, <3>1
    <3> QED BY <1>3, <3>2
  <2> HIDE DEF n, ids
  <2>10. UpgradeFits' /\ ~At(Upgrade, "done")'
    <3>1. old' = old /\ old # <<>> /\ record' = record /\ index' = index /\ dropped' = dropped
      BY <1>2, <1>4
    <3>2. Len(Front(ids)) = n - 1 /\ job'[Upgrade].pc = "choosing" /\ job'[Upgrade].ids = Front(ids)
      BY <2>2, <2>3, <2>5
    <3> QED BY <1>4, <2>7, <2>8, <2>9, <3>1, <3>2, UpgradeChooses
  <2> QED BY <1>1, <1>2, <1>4, <1>5, <2>5, <2>6, <2>10, UpgradeStep DEF RecordsInv
<1>8. CASE ids # <<>> /\ Target(Upgrade) \notin Unreadable
  <2> DEFINE j == [job[Upgrade] EXCEPT !.pc = "setting"]
  <2>1. j \in Job /\ j.pc = "setting" /\ j.ids = ids
    BY <1>2 DEF Job
  <2>2. job' = [job EXCEPT ![Upgrade] = j]
    BY <1>8 DEF ChooseNext, Go
  <2> HIDE DEF j
  <2>3. job' \in [Writers -> Job] /\ job'[Upgrade] = j /\ \A c \in Callers : job'[c] = job[c]
    BY <2>1, <2>2, UpgradeGoes
  <2>4. TypeOK'
    BY <1>4, <2>3, StoreTyped DEF TypeOK
  <2>5. Target(Upgrade)' = Target(Upgrade) /\ job'[Upgrade].ids = job[Upgrade].ids
    BY <2>1, <2>3 DEF Target
  <2>6. Covered({old[i] : i \in (Len(job[Upgrade].ids) + 1)..Len(old)} \ Unreadable)'
    BY <1>3, <1>4, <2>5 DEF Covered
  <2>7. UpgradeFits' /\ ~At(Upgrade, "done")'
    BY <1>2, <1>4, <1>8, <2>1, <2>3, <2>5, <2>6 DEF UpgradeFits, UpgradePcs, At, Writing, WriteHolds
  <2> QED BY <1>1, <1>2, <1>4, <1>5, <2>3, <2>4, <2>7, UpgradeStep DEF RecordsInv
<1> QED BY <1>6, <1>7, <1>8

\* What was written last is there to be read back.
LEMMA VerifyKeeps ==
    ASSUME RecordsInv, Verify PROVE RecordsInv'
<1> DEFINE j == [job[Upgrade] EXCEPT !.pc = "clearing"]
<1>1. At(Upgrade, "verifying") /\ ~At(Upgrade, "done") /\ UpgradeFits /\ job[Upgrade] \in Job
  BY StoreTyped DEF Verify, At, RecordsInv, Writers
<1>2. Covered(ToSet(old) \ Unreadable) /\ \A i \in Sample : record[old[i]] # "none"
  BY <1>1 DEF UpgradeFits
<1>3. job' = [job EXCEPT ![Upgrade] = j] /\ UNCHANGED <<old, record, index, kept, dropped, failed, faults>>
  BY <1>2 DEF Verify, Go
<1>4. j \in Job /\ j.pc = "clearing"
  BY <1>1 DEF Job
<1> HIDE DEF j
<1>5. job' \in [Writers -> Job] /\ job'[Upgrade] = j /\ \A c \in Callers : job'[c] = job[c]
  BY <1>3, <1>4, UpgradeGoes
<1>6. TypeOK'
  BY <1>3, <1>5, StoreTyped DEF TypeOK
<1>7. Covered(kept)'
  BY <1>2, <1>3 DEF Covered, RecordsInv
<1>8. UpgradeFits' /\ ~At(Upgrade, "done")'
  BY <1>4, <1>5, <1>7 DEF UpgradeFits, UpgradePcs, At, Writing
<1>9. IndexNamesRecords => IndexNamesRecords'
  BY <1>3 DEF IndexNamesRecords
<1> QED BY <1>1, <1>3, <1>5, <1>6, <1>8, <1>9, UpgradeStep DEF RecordsInv

LEMMA ClearLegacyKeeps ==
    ASSUME RecordsInv, ClearLegacy PROVE RecordsInv'
<1>1. At(Upgrade, "clearing") /\ ~At(Upgrade, "done") /\ UpgradeFits /\ old \in Seq(Ids)
  BY StoreTyped DEF ClearLegacy, At, RecordsInv
<1>2. Covered(kept) /\ UNCHANGED <<record, index, kept, dropped, failed, faults>>
  BY <1>1 DEF UpgradeFits, ClearLegacy
<1>3. IndexNamesRecords => IndexNamesRecords'
  BY <1>2 DEF IndexNamesRecords
<1>4. kept' \subseteq (ToSet(old') \ Unreadable) \cup ToSet(index') \cup dropped'
  BY <1>2 DEF Covered
<1>5. CASE old = <<>>
  <2> DEFINE j == [Idle EXCEPT !.pc = "done"]
  <2>1. j \in Job /\ j.pc = "done"
    BY IdleTyped DEF Idle
  <2>2. job' = [job EXCEPT ![Upgrade] = j] /\ old' = old
    BY <1>5 DEF ClearLegacy, Become
  <2> HIDE DEF j
  <2>3. job' \in [Writers -> Job] /\ job'[Upgrade] = j /\ \A c \in Callers : job'[c] = job[c]
    BY <2>1, <2>2, UpgradeGoes
  <2>4. TypeOK'
    BY <1>2, <2>2, <2>3, StoreTyped DEF TypeOK
  <2>5. UpgradeFits'
    BY <2>1, <2>3 DEF UpgradeFits, UpgradePcs, At, Writing
  <2> QED BY <1>1, <1>2, <1>3, <1>4, <1>5, <2>2, <2>3, <2>4, <2>5, UpgradeStep DEF RecordsInv
<1>6. CASE old # <<>>
  <2>1. old' \in {<<>>, Tail(old)} /\ job' = job
    BY <1>6 DEF ClearLegacy
  <2>2. old' \in Seq(Ids)
    <3>1. <<>> \in Seq(Ids) /\ Tail(old) \in Seq(Ids)
      BY <1>1, <1>6
    <3> QED BY <2>1, <3>1
  <2>3. TypeOK'
    BY <1>2, <2>1, <2>2, StoreTyped DEF TypeOK
  <2>4. Covered(kept)'
    BY <1>2 DEF Covered
  <2>5. UpgradeFits' /\ ~At(Upgrade, "done")'
    BY <1>1, <2>1, <2>4 DEF UpgradeFits, UpgradePcs, At, Writing
  <2> QED BY <1>1, <1>2, <1>3, <1>4, <1>6, <2>1, <2>3, <2>5, UpgradeStep DEF RecordsInv
<1> QED BY <1>5, <1>6

LEMMA UpgradeFailsKeeps ==
    ASSUME RecordsInv, UpgradeFails PROVE RecordsInv'
<1> DEFINE j == [Idle EXCEPT !.pc = "done"]
<1>1. ~At(Upgrade, "done") /\ failed' = TRUE /\ Fault
      /\ UNCHANGED <<old, record, index, kept, dropped>> /\ job' = [job EXCEPT ![Upgrade] = j]
  BY DEF UpgradeFails, Become, At
<1>2. j \in Job /\ j.pc = "done"
  BY IdleTyped DEF Idle
<1> HIDE DEF j
<1>3. job' \in [Writers -> Job] /\ job'[Upgrade] = j /\ \A c \in Callers : job'[c] = job[c]
  BY <1>1, <1>2, UpgradeGoes
<1>4. faults' \in 0..MaxFaults
  BY <1>1, StoreTyped, FaultsAssumption DEF Fault
<1>5. TypeOK'
  BY <1>1, <1>3, <1>4, StoreTyped DEF TypeOK
<1>6. UpgradeFits'
  BY <1>2, <1>3 DEF UpgradeFits, UpgradePcs, At, Writing
<1>7. IndexNamesRecords => IndexNamesRecords'
  BY <1>1 DEF IndexNamesRecords
<1> QED BY <1>1, <1>3, <1>5, <1>6, <1>7, UpgradeStep DEF RecordsInv

LEMMA EvictKeeps ==
    ASSUME RecordsInv, Evict PROVE RecordsInv'
<1>1. job' = Fresh /\ Fault /\ UNCHANGED <<old, record, index, kept, dropped, failed>>
  BY DEF Evict
<1>2. job' \in [Writers -> Job]
  BY <1>1, IdleTyped DEF Fresh
<1>3. job'[Upgrade] = NotRun /\ \A c \in Callers : job'[c] = Idle
  BY <1>1 DEF Fresh, Writers
<1>4. NotRun.pc = "not run" /\ Idle.pc = "idle"
  BY DEF NotRun, Idle
<1>5. faults' \in 0..MaxFaults
  BY <1>1, StoreTyped, FaultsAssumption DEF Fault
<1>6. TypeOK'
  BY <1>1, <1>2, <1>5, StoreTyped DEF TypeOK
<1>7. UpgradeFits' /\ ~At(Upgrade, "done")'
  BY <1>3, <1>4 DEF UpgradeFits, UpgradePcs, At, Writing
<1>8. \A c \in Callers : CallerFits(c)' /\ CallerHolds(c)'
  BY <1>3, <1>4 DEF CallerFits, CallerHolds, WriteHolds, CallerPcs, At
<1>9. IndexNamesRecords => IndexNamesRecords'
  BY <1>1 DEF IndexNamesRecords
<1> QED BY <1>1, <1>6, <1>7, <1>8, <1>9 DEF RecordsInv

LEMMA RecordsStep ==
    ASSUME RecordsInv, RecordsNext PROVE RecordsInv'
<1>1. ASSUME NEW w \in Writers, Set(w) \/ SetIndex(w) \/ ListKeys(w) \/ EvictKey(w) PROVE RecordsInv'
  <2>1. CASE w = Upgrade
    BY <1>1, <2>1, UpgradeSetKeeps, UpgradeSetIndexKeeps, UpgradeListKeysKeeps, UpgradeEvictKeyKeeps
  <2>2. CASE w \in Callers
    BY <1>1, <2>2, CallerSetKeeps, CallerSetIndexKeeps, CallerListKeysKeeps, CallerEvictKeyKeeps
  <2> QED BY <2>1, <2>2 DEF Writers
<1>2. ASSUME NEW c \in Callers, Put(c) \/ Replace(c) \/ RemoveId(c) PROVE RecordsInv'
  BY <1>2, StartKeeps DEF Put, Replace, RemoveId, Operations
<1> QED
  BY <1>1, <1>2, BeginUpgradeKeeps, ChooseNextKeeps, VerifyKeeps, ClearLegacyKeeps, MutateKeeps,
     LookKeeps, ReplaceInPlaceKeeps, RemoveFromIndexKeeps, RemoveRecordKeeps, WriteFailsKeeps,
     UpgradeFailsKeeps DEF RecordsNext

\* Faults are counted by what the records have no part in, too.
LEMMA FaultsOfOthers ==
    ASSUME faults \in 0..MaxFaults, TrailNext \/ KeysNext
    PROVE  faults' \in 0..MaxFaults
<1>1. CASE Fault
  BY <1>1, FaultsAssumption DEF Fault
<1>2. CASE UNCHANGED faults
  BY <1>2
<1>3. Fault \/ UNCHANGED faults
  <2>1. CASE TrailNext
    BY <2>1 DEF TrailNext, RecordEvent, AppendEvent, AppendFails, Compact, LoseEvent, Acknowledge,
       Later
  <2>2. CASE KeysNext
    <3>1. ASSUME KeepKey \/ RaiseFlag \/ Convert \/ StoreRecord PROVE Fault \/ UNCHANGED faults
      BY <3>1 DEF KeepKey, RaiseFlag, Convert, StoreRecord
    <3>2. ASSUME Enable \/ Unlock \/ ChangePassphrase \/ Disable PROVE UNCHANGED faults
      BY <3>2 DEF Enable, Unlock, ChangePassphrase, Disable, Open
    <3>3. ASSUME \/ HoldKey \/ Lock \/ ListArea \/ ReadPlain \/ OpenEnvelope \/ AreaDone
          \/ LockFirst
                 \/ LowerFlag \/ DiscardKey \/ BeginWrite \/ RouteWrite \/ KeyForWrite
                   \/ RemoveStored
          PROVE  UNCHANGED faults
      BY <3>3 DEF HoldKey, Lock, ListArea, ReadPlain, OpenEnvelope, AreaDone, LockFirst, LowerFlag,
         DiscardKey, BeginWrite, RouteWrite, KeyForWrite, RemoveStored
    <3> QED BY <2>2, <3>1, <3>2, <3>3 DEF KeysNext
  <2> QED BY <2>1, <2>2
<1> QED BY <1>1, <1>2, <1>3

LEMMA RecordsUntouched ==
    ASSUME RecordsInv, UNCHANGED recordVars, faults' \in 0..MaxFaults PROVE RecordsInv'
<1>1. UNCHANGED <<old, record, index, job, kept, dropped, failed>>
  BY DEF recordVars
<1>2. TypeOK'
  BY <1>1, StoreTyped DEF TypeOK
<1>3. UpgradeFits'
  BY <1>1 DEF RecordsInv, UpgradeFits, At, Writing, WriteHolds, Target, Covered, Sample
<1>4. ASSUME NEW c \in Callers PROVE CallerFits(c)' /\ (CallerHolds(c) => CallerHolds(c)')
  BY <1>1 DEF RecordsInv, CallerFits, CallerHolds, At, WriteHolds, Target
<1> QED BY <1>1, <1>2, <1>3, <1>4 DEF RecordsInv, IndexNamesRecords, At

\* The invariant of the records: at every point of a write and of an upgrade, what the writer
\* holds fits the index and the records, and what the upgrade is past is in the store.
THEOREM RecordsInvariant == StorageSpec => []RecordsInv
<1>1. StorageInit => RecordsInv
  <2> SUFFICES ASSUME StorageInit PROVE RecordsInv
    OBVIOUS
  <2>1. /\ old \in Seq(Ids) /\ record = [id \in Ids |-> "none"] /\ index = <<>> /\ job = Fresh
        /\ kept = ToSet(old) \ Unreadable /\ dropped = {} /\ failed = FALSE /\ faults = 0
    BY DEF StorageInit, Init
  <2>2. job \in [Writers -> Job] /\ job[Upgrade] = NotRun /\ \A c \in Callers : job[c] = Idle
    BY <2>1, IdleTyped DEF Fresh, Writers
  <2>3. NotRun.pc = "not run" /\ Idle.pc = "idle"
    BY DEF NotRun, Idle
  <2>4. index \in Seq(Ids) /\ IsInjective(index) /\ Len(index) = 0 /\ ToSet(index) = {}
    BY <2>1 DEF IsInjective, ToSet
  <2>5. kept \subseteq Ids /\ 0 \in 0..MaxFaults /\ 0 <= MaxRecords
    BY <2>1, MembersOf, FaultsAssumption
  <2>6. TypeOK
    BY <2>1, <2>2, <2>4, <2>5 DEF TypeOK, Contents
  <2>7. UpgradeFits /\ ~At(Upgrade, "done")
    BY <2>2, <2>3 DEF UpgradeFits, UpgradePcs, At, Writing
  <2>8. \A c \in Callers : CallerFits(c) /\ CallerHolds(c)
    BY <2>2, <2>3 DEF CallerFits, CallerHolds, WriteHolds, CallerPcs, At
  <2>9. IndexNamesRecords /\ \A id \in Ids : record[id] # "new"
    BY <2>1, <2>4 DEF IndexNamesRecords
  <2> QED BY <2>1, <2>6, <2>7, <2>8, <2>9 DEF RecordsInv
<1>2. RecordsInv /\ [StorageNext]_storageVars => RecordsInv'
  <2> SUFFICES ASSUME RecordsInv, [StorageNext]_storageVars PROVE RecordsInv'
    OBVIOUS
  <2>1. faults \in 0..MaxFaults
    BY StoreTyped
  <2>2. CASE RecordsNext
    BY <2>2, RecordsStep
  <2>3. CASE (TrailNext \/ KeysNext) /\ UNCHANGED recordVars
    BY <2>1, <2>3, FaultsOfOthers, RecordsUntouched
  <2>4. CASE WorkerGone
    BY <2>4, EvictKeeps DEF WorkerGone
  <2>5. CASE UNCHANGED storageVars
    BY <2>1, <2>5, RecordsUntouched DEF storageVars, vars, recordVars
  <2>6. QED
    BY <2>2, <2>3, <2>4, <2>5 DEF StorageNext
<1>3. QED
  BY <1>1, <1>2, PTL DEF StorageSpec

\* record-store.ts: for any number of records and callers, any cap and any faults, a record
\* that was there stays readable until a caller removes it or the cap pushes it out; and no
\* index entry points at nothing, as long as the writes of one caller are not crossed by
\* another's.
THEOREM NothingLostHolds ==
    StorageSpec => []( /\ kept \subseteq ToSet(old) \cup ToSet(index) \cup dropped
                       /\ OneWriter => NothingLost)
<1>1. RecordsInv => /\ kept \subseteq ToSet(old) \cup ToSet(index) \cup dropped
                    /\ OneWriter => NothingLost
  BY DEF RecordsInv, NothingLost
<1>2. QED
  BY <1>1, RecordsInvariant, PTL

\* record-store.ts: an upgrade that is repeated puts no old record in the place of one that a
\* caller wrote since, as long as no upgrade failed, however many callers there are.
THEOREM NotRolledBackHolds == StorageSpec => NotRolledBack
<1> DEFINE A == \A id \in Ids : record[id] = "new" /\ record'[id] = "old" => failed
<1>1. RecordsInv /\ [StorageNext]_storageVars => [A]_vars
  <2> SUFFICES ASSUME RecordsInv, [StorageNext]_storageVars, NEW id \in Ids,
                      record[id] = "new", record'[id] = "old", ~failed
               PROVE  FALSE
    OBVIOUS
  <2>1. ASSUME NEW w \in Writers, Set(w) PROVE FALSE
    <3>1. w = Upgrade /\ At(Upgrade, "setting")
      <4>1. CASE w # Upgrade
        <5>1. record' = [record EXCEPT ![Target(w)] = "new"]
          BY <2>1, <4>1 DEF Set
        <5> QED BY <5>1, StoreTyped
      <4> QED BY <2>1, <4>1 DEF Set
    <3>2. old # <<>>
      BY <3>1 DEF RecordsInv, UpgradeFits, Writing, At
    <3> QED BY <3>2 DEF RecordsInv
  <2>2. record' # record
    OBVIOUS
  <2>3. ASSUME NEW w \in Writers, SetIndex(w) \/ ListKeys(w) PROVE FALSE
    BY <2>2, <2>3 DEF SetIndex, ListKeys
  <2>4. ASSUME NEW w \in Writers, EvictKey(w) PROVE FALSE
    BY <2>2, <2>4, StoreTyped DEF EvictKey
  <2>5. ASSUME NEW c \in Callers, ReplaceInPlace(c) \/ RemoveRecord(c) \/ Mutate(c) PROVE FALSE
    BY <2>5, StoreTyped DEF ReplaceInPlace, RemoveRecord, Mutate
  <2>6. ASSUME NEW c \in Callers, \/ Put(c) \/ Replace(c) \/ RemoveId(c) \/ Look(c)
                                  \/ RemoveFromIndex(c) \/ WriteFails(c) PROVE FALSE
    BY <2>2, <2>6 DEF Put, Replace, RemoveId, Start, Look, RemoveFromIndex, WriteFails
  <2>7. ASSUME BeginUpgrade \/ ChooseNext \/ Verify \/ ClearLegacy \/ UpgradeFails PROVE FALSE
    BY <2>2, <2>7 DEF BeginUpgrade, ChooseNext, Verify, ClearLegacy, UpgradeFails
  <2>8. ~RecordsNext
    BY <2>1, <2>3, <2>4, <2>5, <2>6, <2>7 DEF RecordsNext
  <2>9. ~WorkerGone
    BY <2>2 DEF WorkerGone, Evict
  <2> QED BY <2>2, <2>8, <2>9 DEF StorageNext, storageVars, recordVars, vars
<1>2. QED
  BY <1>1, RecordsInvariant, PTL DEF StorageSpec, NotRolledBack

-----------------------------------------------------------------------------
(* The bounds of local encryption, and the types of all three parts. *)

VersionsBounded ==
    /\ writes <= MaxWrites
    /\ \A r \in Records : stored[r].version <= MaxWrites + 1 /\ latest[r] <= MaxWrites + 1

\* What the route has listed and read is of its area, and there is none before it has one.
RouteBounded ==
    /\ route.todo \subseteq route.area
    /\ \A c \in route.copy : c.record \in route.area /\ c.version <= MaxWrites + 1
    /\ route.pc \in {"idle", "keying", "flagging", "rewrapping", "unlocking", "listing"} =>
          route.todo = {} /\ route.copy = {}

BoundsInv == lapsed \in BOOLEAN /\ VersionsBounded /\ RouteBounded

LEMMA BoundsKept ==
    ASSUME VersionsBounded, UNCHANGED <<writes, stored, latest>> PROVE VersionsBounded'
BY DEF VersionsBounded

LEMMA RouteBoundKept == ASSUME RouteBounded, UNCHANGED route PROVE RouteBounded'
BY DEF RouteBounded

LEMMA EndBounded == ASSUME EndRoute PROVE RouteBounded'
BY DEF EndRoute, NoRoute, RouteBounded

\* The route alone moves, with nothing listed or read.
LEMMA BeginningBounded ==
    ASSUME KeysInv, BoundsInv,
           \/ Enable \/ KeepKey \/ RaiseFlag \/ Unlock \/ ChangePassphrase \/ Disable \/ HoldKey
    PROVE  BoundsInv'
<1>1. UNCHANGED <<writes, stored, latest>> /\ lapsed' \in {lapsed, FALSE}
  BY DEF Enable, KeepKey, RaiseFlag, Unlock, ChangePassphrase, Disable, Open, HoldKey
<1>2. route \in RouteType
  BY DEF KeysInv, KeysTyped
<1>3. CASE Enable \/ Unlock \/ ChangePassphrase \/ Disable
  <2>1. route'.area = {} /\ route'.todo = {} /\ route'.copy = {}
    BY <1>3 DEF Enable, Unlock, ChangePassphrase, Disable, Open, Begin, NoRoute
  <2> QED BY <1>1, <2>1, BoundsKept DEF BoundsInv, RouteBounded
<1>4. CASE KeepKey \/ RaiseFlag \/ HoldKey
  <2>1. CASE EndRoute
    BY <1>1, <2>1, BoundsKept, EndBounded DEF BoundsInv
  <2>2. CASE ~EndRoute
    <3>1. route.todo = {} /\ route.copy = {}
      BY <1>4 DEF KeepKey, RaiseFlag, HoldKey, RouteAt, BoundsInv, RouteBounded
    <3>2. route'.todo = {} /\ route'.copy = {}
      BY <1>2, <1>4, <2>2, <3>1 DEF KeepKey, RaiseFlag, HoldKey, RouteTo, RouteType
    <3> QED BY <1>1, <3>2, BoundsKept DEF BoundsInv, RouteBounded
  <2> QED BY <2>1, <2>2
<1> QED BY <1>3, <1>4

\* The areas are gone through.
LEMMA AreasBounded ==
    ASSUME KeysInv, SealInv, BoundsInv, ListArea \/ ReadPlain \/ OpenEnvelope \/ AreaDone
    PROVE  BoundsInv'
<1>1. /\ UNCHANGED <<writes, stored, latest>>
      /\ lapsed' \in BOOLEAN
  BY DEF ListArea, ReadPlain, OpenEnvelope, AreaDone, BoundsInv
<1>2. /\ route \in RouteType /\ route.area \subseteq Records
      /\ stored \in [Records -> [form : Forms, version : Nat]]
  BY DEF KeysInv, KeysTyped, RouteType
<1>3. ASSUME NEW r \in route.todo
      PROVE  CopyOf(r).record \in route.area /\ CopyOf(r).version <= MaxWrites + 1
  BY <1>2, <1>3 DEF BoundsInv, RouteBounded, VersionsBounded, CopyOf
<1>4. CASE ListArea
  <2>1. /\ route'.todo \subseteq route'.area /\ route'.copy = {} /\ route'.pc = "reading"
    BY <1>2, <1>4 DEF ListArea, RouteType
  <2> QED BY <1>1, <2>1, BoundsKept DEF BoundsInv, RouteBounded
<1>5. CASE ReadPlain
  <2>1. PICK r \in route.todo :
            route' = IF Sealed(r) \/ stored[r].form = "none"
                     THEN [route EXCEPT !.todo = NotYet(r)]
                     ELSE [route EXCEPT !.todo = NotYet(r), !.pc = "writing", !.copy = {CopyOf(r)}]
    BY <1>5 DEF ReadPlain
  <2>2. /\ route'.todo \subseteq route.todo /\ route'.area = route.area
        /\ route'.copy \in {route.copy, {CopyOf(r)}} /\ route'.pc \in {"reading", "writing"}
    BY <1>2, <1>5, <2>1 DEF NotYet, RouteType, ReadPlain, RouteAt
  <2> QED BY <1>1, <1>3, <2>2, BoundsKept DEF BoundsInv, RouteBounded
<1>6. CASE OpenEnvelope
  <2>1. PICK r \in route.todo :
            \/ route' = [route EXCEPT !.todo = NotYet(r)]
            \/ route' = [route EXCEPT !.todo = NotYet(r), !.copy = @ \cup {CopyOf(r)}]
            \/ EndRoute
    BY <1>6 DEF OpenEnvelope
  <2>2. CASE EndRoute
    BY <1>1, <2>2, BoundsKept, EndBounded DEF BoundsInv
  <2>3. CASE ~EndRoute
    <3>1. /\ route'.todo \subseteq route.todo /\ route'.area = route.area
          /\ route'.copy \subseteq route.copy \cup {CopyOf(r)} /\ route'.pc = "reading"
      <4>1. route.pc = "reading"
        BY <1>6 DEF OpenEnvelope, RouteAt
      <4>2. CASE route' = [route EXCEPT !.todo = NotYet(r)]
        BY <1>2, <4>1, <4>2 DEF NotYet, RouteType
      <4>3. CASE route' = [route EXCEPT !.todo = NotYet(r), !.copy = @ \cup {CopyOf(r)}]
        BY <1>2, <4>1, <4>3 DEF NotYet, RouteType
      <4> QED BY <2>1, <2>3, <4>2, <4>3
    <3> QED BY <1>1, <1>3, <3>1, BoundsKept DEF BoundsInv, RouteBounded
  <2> QED BY <2>2, <2>3
<1>7. CASE AreaDone
  <2>1. route.todo = {} /\ RouteAt("reading") /\ route.does \in {"enable", "disable"}
    BY <1>7 DEF AreaDone, KeysInv, RouteFits, RouteAt, Switching
  <2>2. CASE route.does = "disable" /\ route.copy # {}
    <3>1. route' = [route EXCEPT !.pc = "writing"]
      BY <1>7, <2>2 DEF AreaDone
    <3>2. /\ route'.todo = route.todo /\ route'.copy = route.copy /\ route'.area = route.area
          /\ route'.pc = "writing"
      BY <1>2, <3>1 DEF RouteType
    <3> QED BY <1>1, <3>2, BoundsKept DEF BoundsInv, RouteBounded
  <2>3. CASE ~(route.does = "disable" /\ route.copy # {})
    <3>1. route.copy = {}
      BY <2>1, <2>3 DEF SealInv, SealsFit
    <3>2. route'.todo = {} /\ route'.copy = {}
      BY <1>2, <1>7, <2>1, <2>3, <3>1 DEF AreaDone, NoRoute, RouteType
    <3> QED BY <1>1, <3>2, BoundsKept DEF BoundsInv, RouteBounded
  <2> QED BY <2>2, <2>3
<1> QED BY <1>4, <1>5, <1>6, <1>7

LEMMA ConvertBounded == ASSUME KeysInv, BoundsInv, Convert PROVE BoundsInv'
<1>1. /\ route \in RouteType /\ route.copy \subseteq CopyType
      /\ stored \in [Records -> [form : Forms, version : Nat]]
      /\ UNCHANGED <<writes, latest>> /\ lapsed' \in BOOLEAN
  BY DEF KeysInv, KeysTyped, RouteType, Convert, BoundsInv
<1>2. PICK c \in route.copy :
          \/ /\ PutForm(c, IF route.does = "enable" THEN unwrapped ELSE "plain")
             /\ route' = [route EXCEPT !.copy = @ \ {c},
                              !.pc = IF route.copy = {c} THEN "reading" ELSE "writing"]
          \/ /\ UNCHANGED stored
             /\ \/ route' = [route EXCEPT !.pc = "reading", !.copy = {}]
                \/ EndRoute
  BY DEF Convert
<1>3. c.record \in Records /\ c.version \in Nat /\ c.version <= MaxWrites + 1
  BY <1>1, <1>2 DEF CopyType, BoundsInv, RouteBounded
<1>4. VersionsBounded'
  <2>1. CASE PutForm(c, IF route.does = "enable" THEN unwrapped ELSE "plain")
    <3>1. \A r \in Records : stored'[r].version \in {stored[r].version, c.version}
      BY <1>1, <1>3, <2>1 DEF PutForm
    <3> QED BY <1>1, <1>3, <3>1 DEF BoundsInv, VersionsBounded
  <2>2. CASE UNCHANGED stored
    BY <1>1, <2>2, BoundsKept DEF BoundsInv
  <2> QED BY <1>2, <2>1, <2>2
<1>5. RouteBounded'
  <2>1. CASE EndRoute
    BY <2>1, EndBounded
  <2>2. CASE ~EndRoute
    <3>1. /\ route'.todo = route.todo /\ route'.area = route.area
          /\ route'.copy \subseteq route.copy /\ route'.pc \in {"reading", "writing"}
      <4>1. CASE route' = [route EXCEPT !.copy = @ \ {c},
                               !.pc = IF route.copy = {c} THEN "reading" ELSE "writing"]
        BY <1>1, <4>1 DEF RouteType
      <4>2. CASE route' = [route EXCEPT !.pc = "reading", !.copy = {}]
        BY <1>1, <4>2 DEF RouteType
      <4> QED BY <1>2, <2>2, <4>1, <4>2
    <3> QED BY <3>1 DEF BoundsInv, RouteBounded
  <2> QED BY <2>1, <2>2
<1> QED BY <1>1, <1>4, <1>5 DEF BoundsInv

\* The end of switching off, and the writers that move no route.
LEMMA RestBounded ==
    ASSUME KeysInv, BoundsInv,
           \/ Lock \/ LockFirst \/ LowerFlag \/ DiscardKey \/ BeginWrite \/ RouteWrite \/ KeyForWrite
    PROVE  BoundsInv'
<1>1. lapsed' \in {lapsed, FALSE}
  BY DEF Lock, LockFirst, LowerFlag, DiscardKey, BeginWrite, RouteWrite, KeyForWrite
<1>2. route \in RouteType /\ writes \in Nat
  BY DEF KeysInv, KeysTyped
<1>3. VersionsBounded'
  <2>1. CASE BeginWrite
    BY <1>2, <2>1 DEF BeginWrite, BoundsInv, VersionsBounded
  <2>2. CASE ~BeginWrite
    BY <2>2, BoundsKept DEF Lock, LockFirst, LowerFlag, DiscardKey, RouteWrite, KeyForWrite, BoundsInv
  <2> QED BY <2>1, <2>2
<1>4. RouteBounded'
  <2>1. CASE LockFirst \/ LowerFlag
    <3>1. /\ route'.todo = route.todo /\ route'.area = route.area /\ route'.copy = route.copy
          /\ route'.pc \in {"lowering", "discarding"}
      BY <1>2, <2>1 DEF LockFirst, LowerFlag, RouteTo, RouteType
    <3> QED BY <3>1 DEF BoundsInv, RouteBounded
  <2>2. CASE DiscardKey
    BY <2>2, EndBounded DEF DiscardKey
  <2>3. CASE Lock \/ BeginWrite \/ RouteWrite \/ KeyForWrite
    BY <2>3, RouteBoundKept DEF Lock, BeginWrite, RouteWrite, KeyForWrite, BoundsInv
  <2> QED BY <2>1, <2>2, <2>3
<1> QED BY <1>1, <1>3, <1>4 DEF BoundsInv

LEMMA StoresBounded == ASSUME KeysInv, BoundsInv, StoreRecord \/ RemoveStored PROVE BoundsInv'
<1>1. /\ stored \in [Records -> [form : Forms, version : Nat]] /\ latest \in [Records -> Nat]
      /\ writes \in Nat
  BY DEF KeysInv, KeysTyped
<1>2. UNCHANGED <<route, writes, lapsed>>
  BY DEF StoreRecord, RemoveStored
<1>3. \A r \in Records : /\ stored'[r].version \in {stored[r].version, writes + 1, 0}
                         /\ latest'[r] \in {latest[r], writes + 1, 0}
  BY <1>1 DEF StoreRecord, RemoveStored, Absent
<1>4. VersionsBounded'
  BY <1>1, <1>2, <1>3 DEF BoundsInv, VersionsBounded
<1> QED BY <1>2, <1>4, RouteBoundKept DEF BoundsInv

LEMMA BoundsStart == StorageInit => BoundsInv
<1> SUFFICES ASSUME KeysInit PROVE BoundsInv
  BY DEF StorageInit
<1>1. \A r \in Records : stored[r].version \in {0, 1} /\ latest[r] = stored[r].version
  BY DEF KeysInit, Absent
<1>2. VersionsBounded
  BY <1>1 DEF KeysInit, VersionsBounded
<1>3. RouteBounded
  BY DEF KeysInit, NoRoute, RouteBounded
<1> QED BY <1>2, <1>3 DEF KeysInit, BoundsInv

\* The types and bounds of all that is stored: an index within its cap and without repetition,
\* a trail within its limit, copies that are of the area being converted, and no version
\* beyond the writes there were, for any constants.
THEOREM StorageTypeOKHolds == StorageSpec => []StorageTypeOK
<1>1. KeysInv /\ SealInv /\ BoundsInv /\ [StorageNext]_storageVars => BoundsInv'
  <2> SUFFICES ASSUME KeysInv, SealInv, BoundsInv, [StorageNext]_storageVars PROVE BoundsInv'
    OBVIOUS
  <2>1. CASE UNCHANGED keysVars
    BY <2>1, BoundsKept, RouteBoundKept DEF keysVars, BoundsInv
  <2>2. CASE KeysNext
    BY <2>2, BeginningBounded, AreasBounded, ConvertBounded, RestBounded, StoresBounded
       DEF KeysNext
  <2>3. CASE WorkerGone
    BY <2>3, BoundsKept, EndBounded DEF WorkerGone, KeysForget, EndRoute, BoundsInv
  <2> QED BY <2>1, <2>2, <2>3 DEF StorageNext, storageVars
<1>2. KeysInv /\ BoundsInv => KeysTypeOK
  <2> SUFFICES ASSUME KeysInv, BoundsInv PROVE KeysTypeOK
    OBVIOUS
  <2>1. KeysTyped
    BY DEF KeysInv
  <2>2. stored \in [Records -> [form : Forms, version : 0..(MaxWrites + 1)]]
    BY <2>1 DEF KeysTyped, BoundsInv, VersionsBounded
  <2>3. latest \in [Records -> 0..(MaxWrites + 1)] /\ writes \in 0..MaxWrites
    BY <2>1 DEF KeysTyped, BoundsInv, VersionsBounded
  <2>4. route.copy \subseteq [record : route.area, version : 0..(MaxWrites + 1)]
    <3> SUFFICES ASSUME NEW c \in route.copy
                 PROVE  c \in [record : route.area, version : 0..(MaxWrites + 1)]
      OBVIOUS
    <3>1. c \in CopyType
      BY <2>1 DEF KeysTyped, RouteType
    <3>2. c.record \in route.area /\ c.version \in 0..(MaxWrites + 1)
      BY <3>1 DEF CopyType, BoundsInv, RouteBounded
    <3> QED BY <3>1, <3>2 DEF CopyType
  <2>5. /\ route.pc \in RoutePcs /\ route.does \in {"none", "open", "enable", "disable"}
        /\ route.key \in Keys /\ route.todo \subseteq route.area
        /\ write.pc \in {"idle", "routing", "keying", "writing"}
        /\ write.record \subseteq Records /\ write.key \in Keys
    BY <2>1 DEF KeysTyped, RouteType, WriteType, BoundsInv, RouteBounded
  <2> QED BY <2>1, <2>2, <2>3, <2>4, <2>5 DEF KeysTyped, KeysTypeOK, BoundsInv, Keys, RoutePcs
<1>3. ChainInv => TrailTypeOK
  <2> SUFFICES ASSUME ChainInv PROVE TrailTypeOK
    OBVIOUS
  <2>1. ToSet(events) \subseteq AuditEvent
    BY MembersOf DEF ChainInv, Chain
  <2> QED BY <2>1 DEF ChainInv, TrailInv, TrailTypeOK
<1>4. RecordsInv => TypeOK
  BY DEF RecordsInv
<1>5. KeysInv /\ SealInv /\ [StorageNext]_storageVars => SealInv'
  BY SealNext
<1> QED BY <1>1, <1>2, <1>3, <1>4, <1>5, SealStart, BoundsStart, KeysInvariant, ChainInvariant,
        RecordsInvariant, PTL DEF StorageSpec, StorageTypeOK
=============================================================================
