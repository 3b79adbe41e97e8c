---------------------------- MODULE ScheduleRuns ----------------------------
(***************************************************************************)
(* Scheduled execution: ScheduleRunner over ScheduleStore, the routes of   *)
(* the panel, the single Chrome alarm, and the startup of a worker.        *)
(*                                                                         *)
(* A job is a chain of awaits: the tick (one at a time, `ticking`), the    *)
(* startup of the worker generation, and one per panel request in flight.  *)
(* An action is one await's continuation up to the next storage or alarm   *)
(* call.  execute() is shared by the tick and by runNow; finishRun followed*)
(* by recordOutcome is shared by settle, cancelRun and recover.  A run     *)
(* record is put in steps, RecordStore.write: the record, the index, and   *)
(* the eviction of every record the index just written does not name.      *)
(***************************************************************************)
EXTENDS ScheduleClock

CONSTANTS
    Schedules,   \* schedule identifiers, each created at most once
    Cadences,    \* the cadences a person may choose
    Panel,       \* slots for panel requests in flight
    Outcomes,    \* the statuses classify() may give a target that ended
    MaxRuns,     \* MAX_RUNS
    MaxNow,      \* bound: the clock stops here
    MaxSleeps,   \* bound: how often the worker goes away
    MaxEdits,    \* bound: how often a schedule is edited
    Scenarios    \* the sets of Operations that may occur together in one behaviour

Operations == {"create", "edit", "setEnabled", "remove", "runNow", "cancelRun", "sleep"}

Clock   == "clock"     \* the job behind ScheduleRunner.ticking
Startup == "startup"   \* the job of startup()
Jobs    == {Clock, Startup} \cup Panel
Times   == 1..MaxNow
RunIds  == Schedules \X Times

ASSUME ScheduleAssumption ==
    /\ Clock \notin Panel /\ Startup \notin Panel
    /\ Schedules # {}
    /\ MaxNow \in Nat \ {0} /\ MaxSleeps \in Nat /\ MaxEdits \in Nat
    /\ RunGrace \in Nat /\ MaxEnumerated \in Nat \ {0} /\ MaxRuns \in Nat \ {0}
    /\ Scenarios # {} /\ \A ops \in Scenarios : ops \subseteq Operations

ASSUME OutcomeAssumption ==
    Outcomes # {} /\ Outcomes \subseteq {"completed", "failed", "blocked", "cancelled"}

\* nextOccurrence is defined: every cadence comes round again.
ASSUME CadenceAssumption ==
    \A c \in Cadences :
        /\ c \subseteq Nat \ {0}
        /\ \A n \in 0..MaxNow : \E t \in c : t > n /\ \A u \in c : u > n => t <= u

VARIABLES
    now,     \* Date.now()
    sched,   \* durable: the schedules store
    runs,    \* durable: the status of each run record, "none" when there is none
    index,   \* durable: the run records the index of the runs' store names
    exposed, \* history: the runs the index pushed out, or whose put overlapped another put
    alarm,   \* the alarm Chrome holds, NoTime when there is none
    job,     \* the jobs
    tick,    \* runTick's local variables
    fired,   \* history: how often the tick started each occurrence's target
    sleeps,  \* how often the worker went away
    edits,   \* how often a schedule was edited
    ops      \* what a person or the browser does in this behaviour

vars == <<now, sched, runs, index, exposed, alarm, job, tick, fired, sleeps, edits, ops>>

-----------------------------------------------------------------------------
(* Records. *)

Ended == {"completed", "failed", "blocked", "cancelled", "missed"}

ScheduleRecord == [there       : {"unborn", "stored", "gone"},
                   cadence     : Cadences \cup {{}},
                   enabled     : BOOLEAN,
                   nextRunAt   : Nat,
                   lastClaimed : Nat,               \* lastClaimedOccurrenceAt
                   last        : Ended \cup {"none"}] \* lastRunStatus

NoSchedule(there) == [there |-> there, cadence |-> {}, enabled |-> FALSE, nextRunAt |-> NoTime,
                      lastClaimed |-> NoTime, last |-> "none"]

\* The record create() writes at an instant.
NewSchedule(c, at) == [there |-> "stored", cadence |-> c, enabled |-> TRUE,
                       nextRunAt |-> nextOccurrence(c, at), lastClaimed |-> at,
                       last |-> "none"]

\* From the first write of a run's put to its last: RecordStore.write.
Writing == {"indexing", "scanning", "purging"}

Executing == {"checking", "starting", "storing", "executing", "settling", "closing", "noting"}
             \cup Writing
Rearming  == {"rearming", "clearing", "arming"}

JobRecord == [pc     : {"idle", "listing", "advancing", "down", "booting", "recovering",
                        "joining", "up", "replacing", "removing", "sweeping", "deleting"}
                       \cup Executing \cup Rearming,
              s      : Schedules,
              at     : Nat,                          \* occurrenceAt, or the alarm to arm
              result : Ended \cup {"running"},       \* the status to store
              left   : SUBSET RunIds,                \* listed runs still to be handled, or, until
                                                     \* a put has evicted, the index it wrote
              copy   : ScheduleRecord]               \* the record replace() will write

AnySchedule == CHOOSE s \in Schedules : TRUE

At(pc) == [pc |-> pc, s |-> AnySchedule, at |-> NoTime, result |-> "running", left |-> {},
           copy |-> NoSchedule("unborn")]

NoTick == [list |-> [s \in Schedules |-> NoSchedule("unborn")], todo |-> {},
           s |-> AnySchedule, missed |-> {}, due |-> NoTime]

Stored(s) == sched[s].there = "stored"
RunOf(j)  == <<job[j].s, job[j].at>>
Listed    == {s \in Schedules : Stored(s)}

\* RecordStore.get and list: a record the index does not name is invisible.
Seen(id) == id \in index /\ runs[id] # "none"

\* A browser start: the schedules were created some time ago.
Init ==
    /\ now = 1
    /\ sched \in [Schedules -> {NoSchedule("unborn")} \cup {NewSchedule(c, 1) : c \in Cadences}]
    /\ runs = [id \in RunIds |-> "none"]
    /\ index = {} /\ exposed = {}
    /\ alarm = NoTime
    /\ job = [j \in Jobs |-> At(IF j = Startup THEN "booting" ELSE "idle")]
    /\ tick = NoTick
    /\ fired = [id \in RunIds |-> 0]
    /\ sleeps = 0 /\ edits = 0
    /\ ops \in Scenarios

Go(j, pc) == job' = [job EXCEPT ![j].pc = pc]

\* Where a job continues once a run has been dealt with.
Home(j) == CASE j = Clock -> "advancing" [] j = Startup -> "recovering" [] OTHER -> "idle"

GoHome(j) == job' = [job EXCEPT ![j] = [At(Home(j)) EXCEPT !.left = job[j].left]]

-----------------------------------------------------------------------------
(* ScheduleStore. *)

\* Mutation: mutate() creates the record it does not find.
MutateOrCreate(s, record) == sched' = [sched EXCEPT ![s] = [record EXCEPT !.there = "stored"]]

\* mutate(): a record that is absent is never created.
MutateSchedule(s, record) ==
    sched' = IF Stored(s) THEN [sched EXCEPT ![s] = record] ELSE sched

\* The record after an occurrence was claimed.
Claimed(record, at) ==
    [record EXCEPT !.lastClaimed = at, !.nextRunAt = nextOccurrence(record.cadence, at)]

\* claimOccurrence and skipOccurrence apply to an occurrence above the floor.
claimable(s, at) == Stored(s) /\ at > sched[s].lastClaimed

-----------------------------------------------------------------------------
(* A run record's life: execute(), settle(), finishRun, recordOutcome. *)

\* execute(): storage health and the target are looked at before anything is stored.
Check(j) ==
    /\ job[j].pc = "checking"
    /\ \/ job' = [job EXCEPT ![j].pc = "starting", ![j].result = "running"]
       \/ job' = [job EXCEPT ![j].pc = "settling", ![j].result = "blocked"]
    /\ UNCHANGED <<now, sched, runs, index, exposed, alarm, tick, fired, sleeps, edits, ops>>

\* startRun is done: a run that is running now reaches its target.
Started(j) ==
    IF job[j].result = "running"
    THEN /\ Go(j, "executing")
         /\ fired' = IF j = Clock /\ fired[RunOf(j)] < 2
                     THEN [fired EXCEPT ![RunOf(j)] = @ + 1] ELSE fired
    ELSE Go(j, "noting") /\ UNCHANGED fired

\* startRun's read.
Start(j) ==
    /\ job[j].pc = "starting"
    /\ IF Seen(RunOf(j)) THEN Started(j) ELSE Go(j, "storing") /\ UNCHANGED fired
    /\ UNCHANGED <<now, sched, runs, index, exposed, alarm, tick, sleeps, edits, ops>>

\* The runs of two puts that overlap.
Overlapping(j) ==
    LET others == {k \in Jobs \ {j} : job[k].pc \in Writing} IN
    IF others = {} THEN {} ELSE {RunOf(k) : k \in others \cup {j}}

\* startRun's put: RecordStore.write sets the record, ...
Store(j) ==
    /\ job[j].pc = "storing"
    /\ runs' = [runs EXCEPT ![RunOf(j)] = job[j].result]
    /\ exposed' = exposed \cup Overlapping(j)
    /\ Go(j, "indexing")
    /\ UNCHANGED <<now, sched, index, alarm, tick, fired, sleeps, edits, ops>>

\* ... names it in the index, at the cap in place of an older one (whichever), ...
Index(j) ==
    /\ job[j].pc = "indexing"
    /\ LET named == index \cup {RunOf(j)} IN
       \/ Cardinality(named) <= MaxRuns /\ index' = named /\ UNCHANGED exposed
       \/ /\ Cardinality(named) > MaxRuns
          /\ \E oldest \in named \ {RunOf(j)} :
                 index' = named \ {oldest} /\ exposed' = exposed \cup {oldest}
    /\ job' = [job EXCEPT ![j].pc = "scanning", ![j].left = index']
    /\ UNCHANGED <<now, sched, runs, alarm, tick, fired, sleeps, edits, ops>>

\* ... and evict() lists the keys that are not in the index it wrote ...
Scan(j) ==
    /\ job[j].pc = "scanning"
    /\ job' = [job EXCEPT ![j].pc = "purging",
                          ![j].left = {id \in RunIds : runs[id] # "none"} \ job[j].left]
    /\ UNCHANGED <<now, sched, runs, index, exposed, alarm, tick, fired, sleeps, edits, ops>>

\* ... and removes them one by one.
Purge(j) ==
    /\ job[j].pc = "purging"
    /\ \/ job[j].left = {} /\ Started(j) /\ UNCHANGED runs
       \/ \E id \in job[j].left :
           /\ runs' = [runs EXCEPT ![id] = "none"]
           /\ job' = [job EXCEPT ![j].left = job[j].left \ {id}]
           /\ UNCHANGED fired
    /\ UNCHANGED <<now, sched, index, exposed, alarm, tick, sleeps, edits, ops>>

\* The target ends, is refused at the confirmation boundary or is stopped: classify().
Finish(j) ==
    /\ job[j].pc = "executing"
    /\ \E outcome \in Outcomes :
           job' = [job EXCEPT ![j].pc = "settling", ![j].result = outcome]
    /\ UNCHANGED <<now, sched, runs, index, exposed, alarm, tick, fired, sleeps, edits, ops>>

\* settle()'s read of the run record.
Settle(j) ==
    /\ job[j].pc = "settling"
    /\ Go(j, IF Seen(RunOf(j)) THEN "closing" ELSE "starting")
    /\ UNCHANGED <<now, sched, runs, index, exposed, alarm, tick, fired, sleeps, edits, ops>>

\* finishRun: only a run that is still running ends.  mutate() does not ask the index.
Close(j) ==
    /\ job[j].pc = "closing"
    /\ runs' = IF runs[RunOf(j)] = "running" THEN [runs EXCEPT ![RunOf(j)] = job[j].result]
                ELSE runs
    /\ Go(j, "noting")
    /\ UNCHANGED <<now, sched, index, exposed, alarm, tick, fired, sleeps, edits, ops>>

\* recordOutcome.
Note(j) ==
    /\ job[j].pc = "noting"
    /\ MutateSchedule(job[j].s, [sched[job[j].s] EXCEPT !.last = job[j].result])
    /\ GoHome(j)
    /\ UNCHANGED <<now, runs, index, exposed, alarm, tick, fired, sleeps, edits, ops>>

-----------------------------------------------------------------------------
(* runTick(): every schedule of one listing, then the alarm. *)

List ==
    /\ job[Clock].pc = "listing"
    /\ tick' = [NoTick EXCEPT !.list = [s \in Schedules |->
                                           IF Stored(s) THEN sched[s] ELSE NoSchedule("unborn")],
                              !.todo = Listed]
    /\ Go(Clock, "advancing")
    /\ UNCHANGED <<now, sched, runs, index, exposed, alarm, fired, sleeps, edits, ops>>

\* advance() judges the listed record, which may be out of date by now.
Advance ==
    /\ job[Clock].pc = "advancing" /\ tick.missed = {} /\ tick.due = NoTime
    /\ \E s \in tick.todo :
           LET verdict == occurrencesDue(tick.list[s], now) IN
           tick' = [tick EXCEPT !.todo = @ \ {s}, !.s = s, !.missed = verdict.missed,
                                !.due = verdict.due, !.list[s] = NoSchedule("unborn")]
    /\ UNCHANGED <<now, sched, runs, index, exposed, alarm, job, fired, sleeps, edits, ops>>

\* recordMissed: skipOccurrence, then startRun and recordOutcome as for any run.
Skip ==
    /\ job[Clock].pc = "advancing" /\ tick.missed # {}
    /\ LET s == tick.s   at == Least(tick.missed) IN
       /\ tick' = [tick EXCEPT !.missed = @ \ {at}]
       /\ IF claimable(s, at)
          THEN /\ sched' = [sched EXCEPT ![s] = Claimed(@, at)]
               /\ job' = [job EXCEPT ![Clock] = [At("starting") EXCEPT !.s = s, !.at = at,
                                                                       !.result = "missed"]]
          ELSE UNCHANGED <<sched, job>>
    /\ UNCHANGED <<now, runs, index, exposed, alarm, fired, sleeps, edits, ops>>

\* Mutation: the claim is not checked against the floor.
FireUnclaimed ==
    /\ job[Clock].pc = "advancing" /\ tick.missed = {} /\ tick.due # NoTime
    /\ LET s == tick.s   at == tick.due IN
       /\ tick' = [tick EXCEPT !.due = NoTime]
       /\ IF Stored(s) /\ sched[s].enabled
          THEN /\ job' = [job EXCEPT ![Clock] = [At("checking") EXCEPT !.s = s, !.at = at]]
               /\ UNCHANGED sched
          ELSE UNCHANGED <<sched, job>>
    /\ UNCHANGED <<now, runs, index, exposed, alarm, fired, sleeps, edits, ops>>

\* fire(): claimOccurrence, before anything that could be done twice.
Fire ==
    /\ job[Clock].pc = "advancing" /\ tick.missed = {} /\ tick.due # NoTime
    /\ LET s == tick.s   at == tick.due IN
       /\ tick' = [tick EXCEPT !.due = NoTime]
       /\ IF claimable(s, at) /\ sched[s].enabled
          THEN /\ sched' = [sched EXCEPT ![s] = Claimed(@, at)]
               /\ job' = [job EXCEPT ![Clock] = [At("checking") EXCEPT !.s = s, !.at = at]]
          ELSE UNCHANGED <<sched, job>>
    /\ UNCHANGED <<now, runs, index, exposed, alarm, fired, sleeps, edits, ops>>

\* Every schedule was advanced.
Advanced ==
    /\ job[Clock].pc = "advancing" /\ tick.todo = {} /\ tick.missed = {} /\ tick.due = NoTime
    /\ Go(Clock, "rearming")
    /\ tick' = NoTick
    /\ UNCHANGED <<now, sched, runs, index, exposed, alarm, fired, sleeps, edits, ops>>

\* rearm()'s listing.
Rearm(j) ==
    /\ job[j].pc = "rearming"
    /\ job' = [job EXCEPT ![j].pc = "clearing",
                          ![j].at = nextWakeUp({sched[s] : s \in Listed})]
    /\ UNCHANGED <<now, sched, runs, index, exposed, alarm, tick, fired, sleeps, edits, ops>>

\* setWakeUp clears the alarm ...
Clear(j) ==
    /\ job[j].pc = "clearing"
    /\ alarm' = NoTime
    /\ job' = [job EXCEPT ![j] = IF job[j].at = NoTime THEN At("idle")
                                 ELSE [At("arming") EXCEPT !.at = job[j].at]]
    /\ UNCHANGED <<now, sched, runs, index, exposed, tick, fired, sleeps, edits, ops>>

\* ... and creates it anew, never in the past.  Its second of delay is below the unit of time.
Arm(j) ==
    /\ job[j].pc = "arming"
    /\ alarm' = Later(job[j].at, now)
    /\ job' = [job EXCEPT ![j] = At("idle")]
    /\ UNCHANGED <<now, sched, runs, index, exposed, tick, fired, sleeps, edits, ops>>

-----------------------------------------------------------------------------
(* startup() and the alarm. *)

\* Mutation: recovery overlooks the runs.
RecoverNothing ==
    /\ job[Startup].pc = "booting"
    /\ job' = [job EXCEPT ![Startup] = At("recovering")]
    /\ UNCHANGED <<now, sched, runs, index, exposed, alarm, tick, fired, sleeps, edits, ops>>

\* recover() lists the runs still marked running.
Recover ==
    /\ job[Startup].pc = "booting"
    /\ job' = [job EXCEPT ![Startup] = [At("recovering") EXCEPT
                                           !.left = {id \in index : runs[id] = "running"}]]
    /\ UNCHANGED <<now, sched, runs, index, exposed, alarm, tick, fired, sleeps, edits, ops>>

\* recover() closes one of them as interrupted.
RecoverOne ==
    /\ job[Startup].pc = "recovering"
    /\ \E id \in job[Startup].left :
           job' = [job EXCEPT ![Startup] = [At("closing") EXCEPT
                      !.s = id[1], !.at = id[2], !.result = "failed",
                      !.left = job[Startup].left \ {id}]]
    /\ UNCHANGED <<now, sched, runs, index, exposed, alarm, tick, fired, sleeps, edits, ops>>

\* tick(), when none is under way; a second caller waits for the first.
StartTick(from) ==
    [from EXCEPT ![Clock] = IF from[Clock].pc = "idle" THEN At("listing") ELSE from[Clock]]

\* startup() ends with a tick.
Join ==
    /\ job[Startup].pc = "recovering" /\ job[Startup].left = {}
    /\ job' = StartTick([job EXCEPT ![Startup] = At("joining")])
    /\ UNCHANGED <<now, sched, runs, index, exposed, alarm, tick, fired, sleeps, edits, ops>>

Joined ==
    /\ job[Startup].pc = "joining" /\ job[Clock].pc = "idle"
    /\ Go(Startup, "up")
    /\ UNCHANGED <<now, sched, runs, index, exposed, alarm, tick, fired, sleeps, edits, ops>>

\* Mutation: the alarm only wakes the worker.
AlarmOnlyWakes ==
    /\ alarm # NoTime /\ alarm <= now
    /\ alarm' = NoTime
    /\ job' = IF job[Startup].pc = "down" THEN [job EXCEPT ![Startup] = At("booting")] ELSE job
    /\ UNCHANGED <<now, sched, runs, index, exposed, tick, fired, sleeps, edits, ops>>

\* The alarm fires once, waking the worker first; its listener ticks.
AlarmFires ==
    /\ alarm # NoTime /\ alarm <= now
    /\ alarm' = NoTime
    /\ job' = StartTick([job EXCEPT ![Startup] =
                            IF job[Startup].pc = "down" THEN At("booting") ELSE job[Startup]])
    /\ UNCHANGED <<now, sched, runs, index, exposed, tick, fired, sleeps, edits, ops>>

\* Any other event starts the worker.
Wake ==
    /\ job[Startup].pc = "down"
    /\ job' = [job EXCEPT ![Startup] = At("booting")]
    /\ UNCHANGED <<now, sched, runs, index, exposed, alarm, tick, fired, sleeps, edits, ops>>

\* The worker is evicted or the browser ends; Chrome may forget the alarm then.
Sleep ==
    /\ "sleep" \in ops /\ sleeps < MaxSleeps
    /\ job[Startup].pc # "down"
    /\ sleeps' = sleeps + 1
    /\ job' = [j \in Jobs |-> At(IF j = Startup THEN "down" ELSE "idle")]
    /\ tick' = NoTick
    /\ alarm' \in {alarm, NoTime}
    /\ UNCHANGED <<now, sched, runs, index, exposed, fired, edits, ops>>

TimePasses ==
    /\ now < MaxNow
    /\ now' = now + 1
    /\ UNCHANGED <<sched, runs, index, exposed, alarm, job, tick, fired, sleeps, edits, ops>>

-----------------------------------------------------------------------------
(* The panel's requests. *)

Begins(p, op) == op \in ops /\ job[p].pc = "idle" /\ job[Startup].pc # "down"

\* schedule.create.
Create(p) ==
    /\ Begins(p, "create")
    /\ \E s \in Schedules, c \in Cadences :
        /\ sched[s].there = "unborn"
        /\ sched' = [sched EXCEPT ![s] = NewSchedule(c, now)]
    /\ Go(p, "rearming")
    /\ UNCHANGED <<now, runs, index, exposed, alarm, tick, fired, sleeps, edits, ops>>

\* edit() with a cadence: it is counted from now or the last claim.
Edited(record, c) ==
    [record EXCEPT !.cadence = c, !.nextRunAt = nextOccurrence(c, Later(now, record.lastClaimed))]

\* setEnabled(): resuming counts from now or the last claim.
Toggled(record) ==
    IF record.enabled THEN [record EXCEPT !.enabled = FALSE]
    ELSE [record EXCEPT !.enabled = TRUE,
                        !.nextRunAt = nextOccurrence(record.cadence,
                                                     Later(now, record.lastClaimed))]

\* schedule.edit, up to the write: the name or target alone, or the cadence too.
Edit(p) ==
    /\ Begins(p, "edit") /\ edits < MaxEdits
    /\ edits' = edits + 1
    /\ \E s \in Listed :
        \E edited \in {sched[s]} \cup {Edited(sched[s], c) : c \in Cadences} :
           job' = [job EXCEPT ![p] = [At("replacing") EXCEPT !.s = s, !.copy = edited]]
    /\ UNCHANGED <<now, sched, runs, index, exposed, alarm, tick, fired, sleeps, ops>>

\* schedule.setEnabled, up to the write.
SetEnabled(p) ==
    /\ Begins(p, "setEnabled")
    /\ \E s \in Listed :
           job' = [job EXCEPT ![p] = [At("replacing") EXCEPT !.s = s, !.copy = Toggled(sched[s])]]
    /\ UNCHANGED <<now, sched, runs, index, exposed, alarm, tick, fired, sleeps, edits, ops>>

\* RecordStore.replace: the whole record, whatever is stored by now.
Replace(p) ==
    /\ job[p].pc = "replacing"
    /\ sched' = [sched EXCEPT ![job[p].s] = job[p].copy]
    /\ job' = [job EXCEPT ![p] = At("rearming")]
    /\ UNCHANGED <<now, runs, index, exposed, alarm, tick, fired, sleeps, edits, ops>>

\* schedule.remove: the schedule first ...
Remove(p) ==
    /\ Begins(p, "remove")
    /\ \E s \in Listed :
        /\ sched' = [sched EXCEPT ![s] = NoSchedule("gone")]
        /\ job' = [job EXCEPT ![p] = [At("removing") EXCEPT !.s = s]]
    /\ UNCHANGED <<now, runs, index, exposed, alarm, tick, fired, sleeps, edits, ops>>

\* ... then a listing of its runs ...
ListRuns(p) ==
    /\ job[p].pc = "removing"
    /\ job' = [job EXCEPT ![p].pc = "sweeping",
                  ![p].left = {id \in index : id[1] = job[p].s /\ runs[id] # "none"}]
    /\ UNCHANGED <<now, sched, runs, index, exposed, alarm, tick, fired, sleeps, edits, ops>>

\* ... which are removed one by one: out of the index first ...
Sweep(p) ==
    /\ job[p].pc = "sweeping"
    /\ \/ /\ job[p].left = {}
          /\ job' = [job EXCEPT ![p] = At("rearming")]
          /\ UNCHANGED index
       \/ \E id \in job[p].left :
           /\ index' = index \ {id}
           /\ job' = [job EXCEPT ![p].pc = "deleting", ![p].at = id[2],
                                 ![p].left = job[p].left \ {id}]
    /\ UNCHANGED <<now, sched, runs, exposed, alarm, tick, fired, sleeps, edits, ops>>

\* ... and then the record.
Delete(p) ==
    /\ job[p].pc = "deleting"
    /\ runs' = [runs EXCEPT ![RunOf(p)] = "none"]
    /\ job' = [job EXCEPT ![p].pc = "sweeping", ![p].at = NoTime]
    /\ UNCHANGED <<now, sched, index, exposed, alarm, tick, fired, sleeps, edits, ops>>

\* schedule.runNow: attended, claims nothing.  An instant to the millisecond, so that it
\* is neither an occurrence's nor another press's.
RunNow(p) ==
    /\ Begins(p, "runNow")
    /\ \E s \in Listed :
        /\ now \notin UNION Cadences
        /\ <<s, now>> \notin index /\ runs[<<s, now>>] = "none"
        /\ \A j \in Jobs : RunOf(j) # <<s, now>>
        /\ job' = [job EXCEPT ![p] = [At("checking") EXCEPT !.s = s, !.at = now]]
    /\ UNCHANGED <<now, sched, runs, index, exposed, alarm, tick, fired, sleeps, edits, ops>>

\* schedule.cancelRun: reads the run and stops its task, if it knows one.  However it is
\* stopped, Finish chooses how the target ends.
CancelRun(p) ==
    /\ Begins(p, "cancelRun")
    /\ \E id \in index :
        /\ runs[id] = "running"
        /\ job' = [job EXCEPT ![p] = [At("closing") EXCEPT !.s = id[1], !.at = id[2],
                                                          !.result = "cancelled"]]
    /\ UNCHANGED <<now, sched, runs, index, exposed, alarm, tick, fired, sleeps, edits, ops>>

-----------------------------------------------------------------------------
(* The system. *)

PutStep(j) == Store(j) \/ Index(j) \/ Scan(j) \/ Purge(j)

RunStep(j) ==
    Check(j) \/ Start(j) \/ PutStep(j) \/ Finish(j) \/ Settle(j) \/ Close(j) \/ Note(j)

TickStep == List \/ Advance \/ Skip \/ Fire \/ Advanced

StartupStep == Recover \/ RecoverOne \/ Join \/ Joined

RequestStep(p) == Replace(p) \/ ListRuns(p) \/ Sweep(p) \/ Delete(p)

RearmStep(j) == Rearm(j) \/ Clear(j) \/ Arm(j)

Request(p) ==
    \/ Create(p) \/ Edit(p) \/ SetEnabled(p) \/ Remove(p) \/ RunNow(p) \/ CancelRun(p)

Next ==
    \/ \E j \in Jobs : RunStep(j) \/ RearmStep(j)
    \/ TickStep
    \/ StartupStep
    \/ \E p \in Panel : RequestStep(p) \/ Request(p)
    \/ AlarmFires \/ Wake \/ Sleep \/ TimePasses

Spec == Init /\ [][Next]_vars

\* Every await ends, time passes, a due alarm is delivered and the worker is started again.
Fairness ==
    /\ \A j \in Jobs : WF_vars(RunStep(j)) /\ WF_vars(RearmStep(j))
    /\ WF_vars(TickStep) /\ WF_vars(StartupStep)
    /\ \A p \in Panel : WF_vars(RequestStep(p))
    /\ WF_vars(AlarmFires) /\ WF_vars(Wake) /\ WF_vars(TimePasses)

FairSpec == Spec /\ Fairness

-----------------------------------------------------------------------------
(* Properties. *)

\* service-worker.ts, at the alarm listener: the claim "makes running anything twice
\* impossible whichever way they interleave".
NeverTwice == \A id \in RunIds : fired[id] <= 1

\* What replaces a whole record with one it read before an await, and what moves a schedule.
Replacing == {"edit", "setEnabled"}
Moving    == {"create", "edit", "setEnabled"}

\* No two requests of the panel are in flight together.
OneRequest == \A p, q \in Panel : p = q

\* schedule-runner.ts: however ticks, startups, evictions and requests interleave, an
\* occurrence's target is started at most once, as long as no schedule is edited and no two
\* requests pause or resume at a time.
AtMostOnce == edits = 0 /\ ("setEnabled" \in ops => OneRequest) => NeverTwice

\* schedule-model.ts and schedule-store.ts: nothing a tick, a settling, a request or a
\* recovery does late takes back what is stored.  The last claim never decreases, unless a
\* request replaces the record it read before an await; a run that ended keeps its status for
\* as long as the store shows it; a deleted schedule does not come back, unless a second
\* request brings it back.
NothingGoesBack ==
    [][/\ ops \cap Replacing = {} =>
              \A s \in Schedules : Stored(s) /\ Stored(s)' =>
                  sched'[s].lastClaimed >= sched[s].lastClaimed
       /\ \A id \in RunIds : Seen(id) /\ runs[id] \in Ended => runs'[id] = runs[id] \/ ~Seen(id)'
       /\ (ops \cap Replacing = {} \/ OneRequest) =>
              \A s \in Schedules : sched[s].there = "gone" => sched'[s].there = "gone"]_vars

Quiet == \A j \in Jobs : job[j].pc \in {"idle", "up"}

\* Since the browser's start a schedule came round no more often than a tick enumerates.
WithinCap(s) == Cardinality({t \in sched[s].cadence : 1 < t /\ t <= now}) <= MaxEnumerated

\* schedule-runner.ts, recordMissed: as long as the worker stays and nobody moves a
\* schedule, no occurrence up to the last claim is without a record, run or missed, if the
\* enumeration was never cut short, and the record was neither pushed out of a full history
\* nor put while another run's was.
NoSilentGap ==
    Quiet /\ sleeps = 0 /\ ops \cap Moving = {} =>
        \A s \in Schedules, at \in Times :
            (/\ Stored(s) /\ WithinCap(s)
             /\ at \in sched[s].cadence /\ 1 < at /\ at <= sched[s].lastClaimed
             /\ <<s, at>> \notin exposed)
                => Seen(<<s, at>>)

\* service-worker.ts, setWakeUp: once nothing is in flight, the one alarm is due no later
\* than the first occurrence of any schedule that is not paused, as long as nobody moves one
\* while a tick re-arms the alarm.
WakeUpArmed ==
    Quiet /\ ops \cap Moving = {} =>
        \A s \in Schedules : Stored(s) /\ sched[s].enabled =>
            alarm # NoTime /\ alarm <= Later(sched[s].nextRunAt, now)

\* schedule-runner.ts: an occurrence that has come is claimed, run or recorded as missed,
\* unless its schedule is paused, moved or deleted first.
OccurrenceIsHandled ==
    \A s \in Schedules, at \in Times :
        (Stored(s) /\ sched[s].enabled /\ sched[s].nextRunAt = at /\ at <= now)
            ~> (~Stored(s) \/ ~sched[s].enabled \/ sched[s].lastClaimed >= at)

\* schedule-runner.ts, recover: no run is shown as running for ever, whatever became of the
\* worker that started it.
RunIsClosed ==
    \A id \in RunIds : (Seen(id) /\ runs[id] = "running") ~> ~(Seen(id) /\ runs[id] = "running")
=============================================================================
