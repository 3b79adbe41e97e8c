---------------------------- MODULE ScheduleClock ----------------------------
(***************************************************************************)
(* What a schedule owes (schedule-clock.ts).  An instant is a natural      *)
(* number; a cadence is the set of instants it comes round at, so that the *)
(* uneven gaps of a calendar need no arithmetic.  NoTime stands for an     *)
(* absent instant.  Constant operators only.                               *)
(***************************************************************************)
EXTENDS Naturals, FiniteSets

CONSTANTS
    RunGrace,       \* RUN_GRACE_MS
    MaxEnumerated   \* MAX_ENUMERATED_OCCURRENCES

NoTime == 0

Least(S) == CHOOSE x \in S : \A y \in S : x <= y
Greatest(S) == CHOOSE x \in S : \A y \in S : y <= x
Later(a, b) == IF a > b THEN a ELSE b

\* The first occurrence strictly after an instant.
nextOccurrence(cadence, after) == Least({t \in cadence : t > after})

\* The members of S that have fewer than n members of S before them.
FirstOf(S, n) == {t \in S : Cardinality({u \in S : u < t}) < n}

\* The occurrences a schedule has not claimed and that are not in the future.
Unclaimed(schedule, now) ==
    LET floor  == schedule.lastClaimed
        cursor == IF schedule.nextRunAt > floor THEN schedule.nextRunAt
                                                ELSE nextOccurrence(schedule.cadence, floor)
    IN  IF cursor > now THEN {}
        ELSE {cursor} \cup {t \in schedule.cadence : cursor < t /\ t <= now}

\* Past the cap, the latest occurrence stands for the gap.
Enumerated(schedule, now) ==
    LET all == Unclaimed(schedule, now) IN
    IF Cardinality(all) <= MaxEnumerated THEN all
    ELSE FirstOf(all, MaxEnumerated - 1)
         \cup {Greatest({t \in schedule.cadence : t <= now})}

\* Mutation: only the latest occurrence is looked at.
occurrencesDueOnly(schedule, now) ==
    LET past == IF schedule.enabled THEN Enumerated(schedule, now) ELSE {} IN
    IF past = {} THEN [missed |-> {}, due |-> NoTime]
    ELSE LET latest == Greatest(past) IN
         IF now - latest <= RunGrace
         THEN [missed |-> {}, due |-> latest]
         ELSE [missed |-> {latest}, due |-> NoTime]

\* The verdict on a schedule: what was missed and what, if anything, runs now.
occurrencesDue(schedule, now) ==
    LET past == IF schedule.enabled THEN Enumerated(schedule, now) ELSE {} IN
    IF past = {} THEN [missed |-> {}, due |-> NoTime]
    ELSE LET latest == Greatest(past) IN
         IF now - latest <= RunGrace
         THEN [missed |-> past \ {latest}, due |-> latest]
         ELSE [missed |-> past, due |-> NoTime]

\* Mutation: the latest instant wins.
nextWakeUpLatest(schedules) ==
    LET times == {r.nextRunAt : r \in {q \in schedules : q.enabled}} IN
    IF times = {} THEN NoTime ELSE Greatest(times)

\* The instant the single alarm is armed for, given the listed schedules.
nextWakeUp(schedules) ==
    LET times == {r.nextRunAt : r \in {q \in schedules : q.enabled}} IN
    IF times = {} THEN NoTime ELSE Least(times)
=============================================================================
