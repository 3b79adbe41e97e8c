------------------------- MODULE TaskLifecycleProofs -------------------------
(***************************************************************************)
(* Proofs about TaskLifecycle, for every set of tasks, runs and sources and *)
(* every bound: first what the store promises of a record (IInv), then that *)
(* a task has one run at a time (SInv).                                    *)
(***************************************************************************)
EXTENDS TaskLifecycle, TLAPS

-----------------------------------------------------------------------------
(* The inductive invariant.                                                *)

\* A run between the dispatch of a tool call and the record of its result has
\* that call still to count off.
Dispatched == {"dispatching", "executing", "choosing", "chosen", "judging"}

CallsLeft == \A r \in Runs : run[r].pc \in Dispatched => run[r].calls > 0

\* The awaits of the runtime itself, past the plan gate of execute().
Acting == {"binding", "looping", "generating", "backoff", "calling", "dispatching",
           "executing", "choosing", "chosen", "judging"}

\* What a run remembers of its task still holds of the stored record: its taint
\* is on it, and an approval it saw has not gone away.
RunFits(x, rec) ==
    /\ x.seen \subseteq x.ctx
    /\ x.pc \in Suspended => /\ rec.state # "ABSENT"
                             /\ x.ctx \subseteq rec.taint
                             /\ x.planned => rec.approval > 0
    /\ x.pc \in Acting /\ rec.classic => x.planned

RunsFit == \A r \in Runs : RunFits(run[r], task[run[r].task])

\* Only a task that exists is resumed.
ResumingExists == \A t \in Tasks : resuming[t] # "no" => task[t].state # "ABSENT"

IInv == TypeOK /\ CallsLeft /\ RunsFit /\ ResumingExists /\ OutcomeTruthful

-----------------------------------------------------------------------------
(* Types of records and of the store writes.                               *)

\* The facts about records and bounds that the type lemmas share.
LEMMA FreshType ==
    \A r \in Runs, t \in Tasks, p \in Suspended \cup {"unused", "done"} :
        Fresh(r, t, p) \in RunRecord
BY DEF Fresh, RunRecord

LEMMA AnyTaskType == AnyTask \in Tasks
BY ConstantsAssumption DEF AnyTask

LEMMA NewTaskType == NoTask \in TaskRecord /\ \A c \in BOOLEAN : NewTask(c) \in TaskRecord
BY DEF NoTask, NewTask, TaskRecord, TaskStates, Live

\* The store writes keep a record's type and change nothing but its state.
LEMMA WriteTypes ==
    ASSUME NEW rec \in TaskRecord, NEW s \in TaskStates
    PROVE  /\ Transitioned(rec, s) \in TaskRecord
           /\ Completed(rec, s) \in TaskRecord
           /\ Failed(rec) \in TaskRecord
BY DEF Transitioned, Completed, Failed, TaskRecord, TaskStates, Live, Terminal

LEMMA TypeInit == Init => TypeOK
BY FreshType, AnyTaskType, NewTaskType
   DEF Init, TypeOK, DurableType, RunType, WorkerType, Phases

-----------------------------------------------------------------------------
(* What the building blocks of an action do to the types.                  *)

\* The updates of a run's own record that the actions make.
LEMMA RecordTypes ==
    ASSUME NEW rec \in RunRecord
    PROVE  /\ [rec EXCEPT !.pc = "backoff", !.retries = @ + 1] \in RunRecord
           /\ \A n \in Nat :
                [rec EXCEPT !.pc = "calling", !.requests = @ + 1, !.calls = n] \in RunRecord
           /\ rec.calls > 0 => [rec EXCEPT !.calls = @ - 1, !.trouble = TRUE] \in RunRecord
           /\ [rec EXCEPT !.pc = "judging", !.trouble = TRUE] \in RunRecord
           /\ rec.calls > 0 => [rec EXCEPT !.pc = "calling", !.calls = @ - 1] \in RunRecord
<1>0. /\ rec.retries + 1 \in Nat /\ rec.requests + 1 \in Nat
      /\ rec.calls > 0 => rec.calls - 1 \in Nat
  BY DEF RunRecord
<1>a. ASSUME NEW n \in Nat
      PROVE  [rec EXCEPT !.pc = "backoff", !.retries = n] \in RunRecord
  BY DEF RunRecord, Suspended
<1>b. ASSUME NEW n \in Nat, NEW m \in Nat
      PROVE  [rec EXCEPT !.pc = "calling", !.requests = m, !.calls = n] \in RunRecord
  BY DEF RunRecord, Suspended
<1>c. ASSUME NEW n \in Nat
      PROVE  [rec EXCEPT !.calls = n, !.trouble = TRUE] \in RunRecord
  BY DEF RunRecord
<1>d. ASSUME NEW n \in Nat
      PROVE  [rec EXCEPT !.pc = "calling", !.calls = n] \in RunRecord
  BY DEF RunRecord, Suspended
<1>1. [rec EXCEPT !.pc = "backoff", !.retries = @ + 1] \in RunRecord
  BY <1>0, <1>a
<1>2. ASSUME NEW n \in Nat
      PROVE  [rec EXCEPT !.pc = "calling", !.requests = @ + 1, !.calls = n] \in RunRecord
  BY <1>0, <1>b
<1>3. rec.calls > 0 => [rec EXCEPT !.calls = @ - 1, !.trouble = TRUE] \in RunRecord
  BY <1>0, <1>c
<1>4. [rec EXCEPT !.pc = "judging", !.trouble = TRUE] \in RunRecord
  BY DEF RunRecord, Suspended
<1>5. rec.calls > 0 => [rec EXCEPT !.pc = "calling", !.calls = @ - 1] \in RunRecord
  BY <1>0, <1>d
<1> QED BY <1>1, <1>2, <1>3, <1>4, <1>5

\* The two updates that set many fields at once.
LEMMA BegunType ==
    ASSUME NEW rec \in RunRecord, NEW h \in Runs, NEW p \in BOOLEAN,
           NEW x \in SUBSET Sources, NEW m \in Nat, NEW n \in Nat
    PROVE  [rec EXCEPT !.pc = "resolving", !.sig = h, !.planned = p, !.ctx = x,
                       !.requests = m, !.retries = n] \in RunRecord
BY DEF RunRecord, Suspended

LEMMA JudgingType ==
    ASSUME NEW rec \in RunRecord, NEW x \in SUBSET Sources, NEW y \in SUBSET Sources,
           NEW a \in BOOLEAN, NEW b \in BOOLEAN
    PROVE  [rec EXCEPT !.pc = "judging", !.ctx = x, !.seen = y, !.acted = a, !.trouble = b]
               \in RunRecord
BY DEF RunRecord, Suspended

LEMMA UsageType ==
    ASSUME NEW rec \in TaskRecord, RunType, NEW r \in Runs, NEW n \in Nat
    PROVE  UsageStored(rec, r, n) \in TaskRecord
<1>1. run[r].retries \in Nat
  BY DEF RunType, RunRecord
<1> QED BY <1>1 DEF UsageStored, TaskRecord

LEMMA RunTask == ASSUME RunType, NEW r \in Runs
                 PROVE  run[r] \in RunRecord /\ run[r].task \in Tasks
BY DEF RunType, RunRecord

LEMMA GotoType ==
    ASSUME RunType, NEW r \in Runs, NEW p \in Suspended \cup {"unused", "done"}, Goto(r, p)
    PROVE  RunType'
BY DEF RunType, Goto, RunRecord

LEMMA RunUpdateType ==
    ASSUME RunType, NEW r \in Runs, NEW rec \in RunRecord, run' = [run EXCEPT ![r] = rec]
    PROVE  RunType'
BY DEF RunType

LEMMA TaskUpdateType ==
    ASSUME DurableType, NEW t \in Tasks, NEW rec \in TaskRecord,
           task' = [task EXCEPT ![t] = rec]
    PROVE  task' \in [Tasks -> TaskRecord]
BY DEF DurableType

LEMMA TransitionType ==
    ASSUME DurableType, RunType, NEW r \in Runs, NEW s \in TaskStates, Transition(r, s)
    PROVE  DurableType'
<1>1. PICK t \in Tasks : t = run[r].task
  BY RunTask
<1>2. task[t] \in TaskRecord
  BY DEF DurableType
<1>3. Transitioned(task[t], s) \in TaskRecord
  BY <1>2, WriteTypes
<1>4. task' = [task EXCEPT ![t] = Transitioned(task[t], s)] /\ reported' = reported
  BY <1>1 DEF Transition
<1> QED BY <1>3, <1>4 DEF DurableType

LEMMA CompleteType ==
    ASSUME DurableType, RunType, NEW r \in Runs, NEW s \in Terminal, Complete(r, s)
    PROVE  DurableType' /\ RunType'
<1>1. PICK t \in Tasks : t = run[r].task
  BY RunTask
<1>2. Completed(task[t], s) \in TaskRecord
  BY WriteTypes DEF DurableType, TaskStates
<1>3. task' = [task EXCEPT ![t] = Completed(task[t], s)]
  BY <1>1 DEF Complete
<1>4. reported' \in [Tasks -> SUBSET Terminal]
  BY <1>1 DEF Complete, DurableType
<1>5. RunType'
  BY GotoType DEF Complete, Suspended
<1> QED BY <1>2, <1>3, <1>4, <1>5 DEF DurableType

LEMMA FailType ==
    ASSUME DurableType, RunType, NEW r \in Runs, FailTask(r)
    PROVE  DurableType' /\ RunType'
<1>1. PICK t \in Tasks : t = run[r].task
  BY RunTask
<1>2. Failed(task[t]) \in TaskRecord
  BY WriteTypes DEF DurableType, TaskStates, Terminal
<1>3. task' = [task EXCEPT ![t] = Failed(task[t])]
  BY <1>1 DEF FailTask
<1>4. reported' \in [Tasks -> SUBSET Terminal]
  BY <1>1 DEF FailTask, DurableType, Terminal
<1>5. RunType'
  BY GotoType DEF FailTask, Suspended
<1> QED BY <1>2, <1>3, <1>4, <1>5 DEF DurableType

LEMMA StopType ==
    ASSUME DurableType, RunType, NEW r \in Runs, Stop(r)
    PROVE  DurableType' /\ RunType'
<1>1. CASE ctl[run[r].sig] = "paused"
  <2>1. Goto(r, "finishing") /\ UNCHANGED durable
    BY <1>1 DEF Stop
  <2> QED BY <2>1, GotoType DEF durable, DurableType, Suspended
<1>2. CASE ctl[run[r].sig] # "paused"
  BY <1>2, CompleteType DEF Stop, Terminal
<1> QED BY <1>1, <1>2

LEMMA StoppedShortType == \A r \in Runs : StoppedShort(r) \in Terminal
BY DEF StoppedShort, Terminal

-----------------------------------------------------------------------------
(* Type correctness.                                                       *)

\* A step of a run keeps the types; what it leaves of worker is unchanged or
\* the handle of its task.
LEMMA RunStepType ==
    ASSUME TypeOK, CallsLeft, NEW r \in Runs, RunStep(r)
    PROVE  TypeOK'
<1> DEFINE t == run[r].task
<1>a. DurableType /\ RunType /\ WorkerType
  BY DEF TypeOK
<1>b. run[r] \in RunRecord /\ t \in Tasks /\ task[t] \in TaskRecord
  BY <1>a, RunTask DEF DurableType
<1> USE DEF TypeOK
<1>w. UNCHANGED worker => WorkerType'
  BY <1>a DEF worker, WorkerType
<1>d. UNCHANGED durable => DurableType'
  BY <1>a DEF durable, DurableType
<1>h. ASSUME handle' = [handle EXCEPT ![t] = NoRun],
             UNCHANGED <<ctl, resuming, phase, toRecover, crashes>>
      PROVE  WorkerType'
  BY <1>a, <1>b, <1>h DEF WorkerType
<1>f. \A p \in {"unused", "done"} : Fresh(r, AnyTask, p) \in RunRecord
  BY FreshType, AnyTaskType
<1>1. CASE Begin(r)
  <2> DEFINE rec == task[t]
             began == [run[r] EXCEPT !.pc = "resolving", !.sig = handle[t],
                            !.planned = rec.approval > 0, !.ctx = rec.taint,
                            !.requests = rec.requests, !.retries = rec.retries]
  <2>1. CASE handle[t] = NoRun \/ isTerminal(rec.state) \/ ctl[handle[t]] # "live"
    <3>1. /\ handle' = [handle EXCEPT ![t] = NoRun]
          /\ run' = [run EXCEPT ![r] = Fresh(r, AnyTask, "done")]
          /\ UNCHANGED <<durable, ctl, resuming, phase, toRecover, crashes>>
      BY <1>1, <2>1 DEF Begin
    <3> QED BY <3>1, <1>a, <1>d, <1>f, <1>h, RunUpdateType DEF durable
  <2>2. CASE ~(handle[t] = NoRun \/ isTerminal(rec.state) \/ ctl[handle[t]] # "live")
    <3>1. run' = [run EXCEPT ![r] = began] /\ UNCHANGED <<durable, worker>>
      BY <1>1, <2>2 DEF Begin, worker
    <3>2. handle[t] \in Runs
      BY <2>2, <1>a, <1>b DEF WorkerType
    <3>3. /\ (rec.approval > 0) \in BOOLEAN
          /\ rec.taint \in SUBSET Sources /\ rec.requests \in Nat /\ rec.retries \in Nat
      BY <1>b DEF TaskRecord
    <3>4. began \in RunRecord
      BY <3>2, <3>3, <1>b, BegunType
    <3> QED BY <3>1, <3>4, <1>a, <1>d, <1>w, RunUpdateType
  <2> QED BY <2>1, <2>2
<1>2. CASE Resolve(r)
  BY <1>2, <1>a, <1>w, TransitionType, GotoType
     DEF Resolve, TaskStates, Live, Suspended
<1>3. CASE Throw(r)
  BY <1>3, <1>a, <1>w, FailType DEF Throw
<1>4. CASE Propose(r)
  <2>1. CASE aborted(r)
    BY <1>4, <2>1, <1>a, <1>w, <1>d, GotoType DEF Propose, Suspended, durable
  <2>2. CASE ~aborted(r)
    <3>1. [task[t] EXCEPT !.proposed = TRUE] \in TaskRecord
      BY <1>b DEF TaskRecord
    <3>2. task' = [task EXCEPT ![t] = [task[t] EXCEPT !.proposed = TRUE]]
      BY <1>4, <2>2, <1>a, <1>b DEF Propose, DurableType
    <3>3. DurableType'
      BY <3>1, <3>2, <1>4, <1>a, <1>b, TaskUpdateType DEF Propose, DurableType
    <3> QED BY <1>4, <2>2, <3>3, <1>a, <1>w, GotoType DEF Propose, Suspended
  <2> QED BY <2>1, <2>2
<1>5. CASE AwaitApproval(r)
  BY <1>5, <1>a, <1>w, TransitionType, GotoType
     DEF AwaitApproval, TaskStates, Live, Suspended
<1>6. CASE Finish(r)
  BY <1>6, <1>a, <1>d, <1>f, <1>h, RunUpdateType DEF Finish
<1>7. CASE Bind(r)
  BY <1>7, <1>a, <1>w, CompleteType, TransitionType, GotoType
     DEF Bind, TaskStates, Live, Terminal, Suspended
<1>8. CASE Loop(r)
  BY <1>8, <1>a, <1>w, StopType, CompleteType, StoppedShortType, TransitionType, GotoType
     DEF Loop, TaskStates, Live, Suspended
<1>9. CASE GenerateRejected(r)
  <2>1. [run[r] EXCEPT !.pc = "backoff", !.retries = @ + 1] \in RunRecord
    BY <1>b, RecordTypes
  <2>2. CASE Stop(r)
    BY <2>2, <1>9, <1>a, <1>w, StopType DEF GenerateRejected
  <2>3. CASE Complete(r, StoppedShort(r))
    BY <2>3, <1>9, <1>a, <1>w, CompleteType, StoppedShortType DEF GenerateRejected
  <2>4. CASE /\ Transition(r, "RECOVERING")
             /\ run' = [run EXCEPT ![r] = [run[r] EXCEPT !.pc = "backoff", !.retries = @ + 1]]
    <3>1. DurableType'
      BY <2>4, <1>a, TransitionType DEF TaskStates, Live
    <3>2. RunType'
      BY <2>1, <2>4, <1>a, RunUpdateType
    <3> QED BY <3>1, <3>2, <1>9, <1>w DEF GenerateRejected
  <2> QED BY <2>2, <2>3, <2>4, <1>9, <1>a, <1>b DEF GenerateRejected, RunType
<1>10. CASE Backoff(r)
  BY <1>10, <1>a, <1>w, <1>d, StopType, GotoType DEF Backoff, Suspended
<1>11. CASE GenerateText(r)
  <2> DEFINE outcome == IF run[r].trouble THEN "PARTIAL" ELSE "COMPLETED"
             counted == UsageStored(task[t], r, run[r].requests + 1)
  <2>0. run[r].requests + 1 \in Nat
    BY <1>b DEF RunRecord
  <2>1. counted \in TaskRecord /\ outcome \in Terminal
    BY <2>0, <1>a, <1>b, UsageType DEF Terminal
  <2>2. Completed(counted, outcome) \in TaskRecord
    BY <2>1, WriteTypes DEF TaskStates
  <2>3. task' \in [Tasks -> TaskRecord]
    BY <2>2, <1>11, <1>a, <1>b, TaskUpdateType DEF GenerateText
  <2>4. reported' \in [Tasks -> SUBSET Terminal]
    BY <2>1, <1>11, <1>a, <1>b DEF GenerateText, DurableType
  <2>5. RunType' /\ WorkerType'
    BY <1>11, <1>a, <1>w, GotoType DEF GenerateText, Suspended
  <2> QED BY <2>3, <2>4, <2>5 DEF DurableType
<1>12. ASSUME NEW n \in 1..MaxCalls, GenerateCalls(r, n) PROVE TypeOK'
  <2>0. run[r].requests + 1 \in Nat
    BY <1>b DEF RunRecord
  <2>1. UsageStored(task[t], r, run[r].requests + 1) \in TaskRecord
    BY <2>0, <1>a, <1>b, UsageType
  <2>2. [run[r] EXCEPT !.pc = "calling", !.requests = @ + 1, !.calls = n] \in RunRecord
    <3>1. n \in Nat
      BY ConstantsAssumption
    <3> QED BY <3>1, <1>b, RecordTypes
  <2>3. DurableType'
    BY <2>1, <1>12, <1>a, <1>b, TaskUpdateType DEF GenerateCalls, DurableType
  <2>4. RunType' /\ WorkerType'
    BY <2>2, <1>12, <1>a, <1>w, RunUpdateType DEF GenerateCalls, RunType
  <2> QED BY <2>3, <2>4
<1>13. CASE Call(r)
  <2>0. run[r].requests \in Nat
    BY <1>b DEF RunRecord
  <2>1. UsageStored(task[t], r, run[r].requests) \in TaskRecord
    BY <2>0, <1>a, <1>b, UsageType
  <2>2. run[r].calls > 0 => [run[r] EXCEPT !.calls = @ - 1, !.trouble = TRUE] \in RunRecord
    BY <1>b, RecordTypes
  <2>3. CASE run[r].calls = 0
    <3>1. DurableType'
      BY <2>1, <2>3, <1>13, <1>a, <1>b, TaskUpdateType DEF Call, DurableType
    <3> QED BY <3>1, <2>3, <1>13, <1>a, <1>w, GotoType DEF Call, Suspended
  <2>4. CASE run[r].calls > 0 /\ aborted(r)
    BY <2>4, <1>13, <1>a, <1>w, StopType DEF Call
  <2>5. CASE /\ run[r].calls > 0
             /\ run' = [run EXCEPT ![r] = [run[r] EXCEPT !.calls = @ - 1, !.trouble = TRUE]]
             /\ UNCHANGED durable
    BY <2>2, <2>5, <1>13, <1>a, <1>w, <1>d, RunUpdateType DEF Call
  <2>6. CASE Transition(r, "WAITING_FOR_TOOL") /\ Goto(r, "dispatching")
    BY <2>6, <1>13, <1>a, <1>w, TransitionType, GotoType
       DEF Call, TaskStates, Live, Suspended
  <2> QED BY <2>3, <2>4, <2>5, <2>6, <1>13, <1>a, <1>b DEF Call, RunType
<1>14. CASE Refuse(r)
  <2>1. [run[r] EXCEPT !.pc = "judging", !.trouble = TRUE] \in RunRecord
    BY <1>b DEF RunRecord, Suspended
  <2> QED BY <2>1, <1>14, <1>a, <1>w, <1>d, RunUpdateType DEF Refuse
<1>15. CASE ExecuteTool(r)
  BY <1>15, <1>a, <1>w, <1>d, GotoType DEF ExecuteTool, Suspended
<1>16. CASE RequestFile(r)
  BY <1>16, <1>a, <1>w, TransitionType, GotoType
     DEF RequestFile, TaskStates, Live, Suspended
<1>17. CASE SettleFile(r)
  BY <1>17, <1>a, <1>w, TransitionType, GotoType
     DEF SettleFile, TaskStates, Live, Suspended
<1>18. ASSUME NEW read \in SUBSET Sources, ToolReturns(r, read) PROVE TypeOK'
  <2> DEFINE taint == task[t].taint \cup read
             judged(ok) == [run[r] EXCEPT !.pc = "judging",
                              !.ctx = IF read = {} THEN @ ELSE taint,
                              !.seen = @ \cup read,
                              !.acted = IF ok THEN TRUE ELSE @,
                              !.trouble = IF ok THEN @ ELSE TRUE]
  <2>1. [task[t] EXCEPT !.taint = taint] \in TaskRecord
    BY <1>b DEF TaskRecord
  <2>2. task' = [task EXCEPT ![t] = [task[t] EXCEPT !.taint = taint]]
    BY <1>18, <1>a, <1>b DEF ToolReturns, DurableType
  <2>3. DurableType'
    BY <2>1, <2>2, <1>18, <1>a, <1>b, TaskUpdateType DEF ToolReturns, DurableType
  <2>4. \E ok \in BOOLEAN : run' = [run EXCEPT ![r] = judged(ok)]
    BY <1>18, <1>a, <1>b DEF ToolReturns, RunType
  <2>5. PICK ok \in BOOLEAN : run' = [run EXCEPT ![r] = judged(ok)]
    BY <2>4
  <2>6. /\ taint \in SUBSET Sources /\ run[r].ctx \in SUBSET Sources
        /\ run[r].seen \in SUBSET Sources
        /\ run[r].acted \in BOOLEAN /\ run[r].trouble \in BOOLEAN
    BY <1>b DEF TaskRecord, RunRecord
  <2>7. judged(ok) \in RunRecord
    BY <2>6, <1>b, JudgingType
  <2>8. RunType' /\ WorkerType'
    BY <2>5, <2>7, <1>18, <1>a, <1>w, RunUpdateType DEF ToolReturns
  <2> QED BY <2>3, <2>8
<1>19. CASE TaintLost(r)
  BY <1>19, <1>a, <1>w, CompleteType DEF TaintLost, Terminal
<1>20. CASE Judge(r)
  <2>1. [run[r] EXCEPT !.pc = "calling", !.calls = @ - 1] \in RunRecord
    BY <1>20, <1>b, RecordTypes DEF Judge, CallsLeft, Dispatched
  <2>2. CASE Complete(r, StoppedShort(r))
    BY <2>2, <1>20, <1>a, <1>w, CompleteType, StoppedShortType DEF Judge
  <2>3. CASE /\ run' = [run EXCEPT ![r] = [run[r] EXCEPT !.pc = "calling", !.calls = @ - 1]]
             /\ UNCHANGED durable
    BY <2>1, <2>3, <1>20, <1>a, <1>w, <1>d, RunUpdateType DEF Judge
  <2> QED BY <2>2, <2>3, <1>20, <1>a, <1>b DEF Judge, RunType
<1> QED BY <1>1, <1>2, <1>3, <1>4, <1>5, <1>6, <1>7, <1>8, <1>9, <1>10, <1>11, <1>12,
           <1>13, <1>14, <1>15, <1>16, <1>17, <1>18, <1>19, <1>20 DEF RunStep

\* Spawning a run on an existing name and an existing task.
LEMMA SpawnType ==
    ASSUME TypeOK, NEW t \in Tasks, NEW r \in Runs, Spawn(t, r)
    PROVE  RunType' /\ handle' \in [Tasks -> Runs \cup {NoRun}]
<1>1. Fresh(r, t, "spawned") \in RunRecord
  BY FreshType DEF Suspended
<1> QED BY <1>1 DEF Spawn, TypeOK, RunType, WorkerType

LEMMA AbortType ==
    ASSUME TypeOK, NEW t \in Tasks, NEW reason \in {"paused", "cancelled"}, Abort(t, reason)
    PROVE  /\ handle' \in [Tasks -> Runs \cup {NoRun}]
           /\ ctl' \in [Runs -> {"live", "paused", "cancelled"}]
BY DEF Abort, TypeOK, WorkerType

LEMMA UserStepType == ASSUME TypeOK, UserStep PROVE TypeOK'
<1>a. DurableType /\ RunType /\ WorkerType
  BY DEF TypeOK
<1>b. \A t \in Tasks : task[t] \in TaskRecord
  BY <1>a DEF DurableType
<1>c. "CANCELLED" \in TaskStates /\ "PAUSED" \in TaskStates /\ "RUNNING" \in TaskStates
  BY DEF TaskStates, Live, Terminal
<1> SUFFICES ASSUME NEW t \in Tasks,
                    \/ \E classic \in BOOLEAN, r \in Runs : Create(t, classic, r)
                    \/ \E u \in Tasks, r \in Runs : Retry(t, u, r)
                    \/ Pause(t) \/ Cancel(t) \/ Resume(t)
                    \/ ApprovePlan(t) \/ RevisePlan(t) \/ AddSiteToPlan(t)
             PROVE  TypeOK'
  BY DEF UserStep
<1>1. ASSUME NEW classic \in BOOLEAN, NEW r \in Runs, Create(t, classic, r) PROVE TypeOK'
  <2>1. DurableType'
    BY <1>1, <1>a, NewTaskType, TaskUpdateType DEF Create, DurableType
  <2>2. RunType' /\ handle' \in [Tasks -> Runs \cup {NoRun}]
    BY <1>1, SpawnType DEF Create
  <2> QED BY <1>1, <1>a, <2>1, <2>2 DEF Create, TypeOK, WorkerType
<1>2. ASSUME NEW u \in Tasks, NEW r \in Runs, Retry(t, u, r) PROVE TypeOK'
  <2> DEFINE stopped == IF isTerminal(task[t].state) THEN task[t]
                        ELSE Transitioned(task[t], "CANCELLED")
  <2>1. stopped \in TaskRecord /\ NewTask(task[t].classic) \in TaskRecord
    <3>1. task[t].classic \in BOOLEAN
      BY <1>b DEF TaskRecord
    <3> QED BY <3>1, <1>b, <1>c, WriteTypes, NewTaskType
  <2>2. task' \in [Tasks -> TaskRecord]
    BY <2>1, <1>2, <1>a DEF Retry, DurableType
  <2>3. reported' \in [Tasks -> SUBSET Terminal]
    BY <1>2, <1>a DEF Retry, DurableType, Terminal
  <2>4. RunType'
    <3>1. Fresh(r, u, "spawned") \in RunRecord
      BY FreshType DEF Suspended
    <3> QED BY <3>1, <1>2, <1>a, RunUpdateType DEF Retry
  <2>5. WorkerType'
    BY <1>2, <1>a DEF Retry, WorkerType
  <2> QED BY <2>2, <2>3, <2>4, <2>5 DEF TypeOK, DurableType
<1>3. CASE Pause(t)
  <2>1. Transitioned(task[t], "PAUSED") \in TaskRecord
    BY <1>b, <1>c, WriteTypes
  <2>2. DurableType'
    BY <2>1, <1>3, <1>a, TaskUpdateType DEF Pause, DurableType
  <2> QED BY <2>2, <1>3, <1>a, AbortType DEF Pause, TypeOK, RunType, WorkerType
<1>4. CASE Cancel(t)
  <2> DEFINE rec == IF Choosing(t) = {} THEN task[t] ELSE Transitioned(task[t], "RUNNING")
  <2>1. rec \in TaskRecord
    BY <1>b, <1>c, WriteTypes
  <2>2. Transitioned(rec, "CANCELLED") \in TaskRecord
    BY <2>1, <1>c, WriteTypes
  <2>3. CancelRecord(t, rec)
    BY <1>4 DEF Cancel
  <2>4. task' = [task EXCEPT ![t] = Transitioned(rec, "CANCELLED")]
    BY <2>3 DEF CancelRecord
  <2>5. reported' \in [Tasks -> SUBSET Terminal]
    BY <2>3, <1>a DEF CancelRecord, DurableType, Terminal
  <2>6. RunType'
    <3>1. \A r \in Runs : [run[r] EXCEPT !.pc = "chosen"] \in RunRecord
      BY <1>a DEF RunType, RunRecord, Suspended
    <3> QED BY <3>1, <1>4, <1>a DEF Cancel, RunType
  <2>7. WorkerType'
    BY <1>4, <1>a, AbortType DEF Cancel, WorkerType
  <2> QED BY <2>2, <2>4, <2>5, <2>6, <2>7, <1>a, TaskUpdateType DEF TypeOK, DurableType
<1>5. CASE Resume(t)
  BY <1>5, <1>a DEF Resume, TypeOK, DurableType, RunType, WorkerType, durable
<1>6. CASE ApprovePlan(t)
  <2>1. [task[t] EXCEPT !.approval = 1] \in TaskRecord
    BY <1>b DEF TaskRecord
  <2>2. task' = [task EXCEPT ![t] = [task[t] EXCEPT !.approval = 1]]
    BY <1>6, <1>a DEF ApprovePlan, DurableType
  <2> QED BY <2>1, <2>2, <1>6, <1>a
          DEF ApprovePlan, TypeOK, DurableType, RunType, WorkerType
<1>7. CASE RevisePlan(t)
  <2>1. [task[t] EXCEPT !.proposed = FALSE] \in TaskRecord
    BY <1>b DEF TaskRecord
  <2>2. task' = [task EXCEPT ![t] = [task[t] EXCEPT !.proposed = FALSE]]
    BY <1>7, <1>a DEF RevisePlan, DurableType
  <2> QED BY <2>1, <2>2, <1>7, <1>a
          DEF RevisePlan, TypeOK, DurableType, RunType, WorkerType
<1>8. CASE AddSiteToPlan(t)
  <2>0. task[t].approval + 1 \in Nat
    BY <1>b DEF TaskRecord
  <2>1. [task[t] EXCEPT !.approval = task[t].approval + 1] \in TaskRecord
    BY <2>0, <1>b DEF TaskRecord
  <2>2. task' = [task EXCEPT ![t] = [task[t] EXCEPT !.approval = task[t].approval + 1]]
    BY <1>8, <1>a DEF AddSiteToPlan, DurableType
  <2> QED BY <2>1, <2>2, <1>8, <1>a
          DEF AddSiteToPlan, TypeOK, DurableType, RunType, WorkerType, worker
<1> QED BY <1>1, <1>2, <1>3, <1>4, <1>5, <1>6, <1>7, <1>8

LEMMA ResumeStepType == ASSUME TypeOK, NEW t \in Tasks, ResumeStep(t) PROVE TypeOK'
<1>1. CASE ResumeRefused(t)
  BY <1>1 DEF ResumeRefused, TypeOK, DurableType, RunType, WorkerType, durable
<1>2. CASE ResumeRead(t)
  BY <1>2 DEF ResumeRead, TypeOK, DurableType, RunType, WorkerType, durable
<1>3. ASSUME NEW r \in Runs, ResumeStart(t, r) PROVE TypeOK'
  <2>1. RunType' /\ handle' \in [Tasks -> Runs \cup {NoRun}]
    BY <1>3, SpawnType DEF ResumeStart, TypeOK, RunType, WorkerType
  <2> QED BY <2>1, <1>3 DEF ResumeStart, TypeOK, DurableType, WorkerType, durable
<1> QED BY <1>1, <1>2, <1>3 DEF ResumeStep

LEMMA StartupStepType == ASSUME TypeOK, StartupStep PROVE TypeOK'
<1>1. CASE ListInterrupted
  BY <1>1 DEF ListInterrupted, TypeOK, DurableType, RunType, WorkerType, durable, Phases
<1>2. ASSUME NEW t \in Tasks, Recover(t) PROVE TypeOK'
  <2>1. [task[t] EXCEPT !.state = "PAUSED"] \in TaskRecord /\ task[t] \in TaskRecord
    BY DEF TypeOK, DurableType, TaskRecord, TaskStates, Live
  <2>2. task' \in [Tasks -> TaskRecord]
    BY <2>1, <1>2 DEF Recover, TypeOK, DurableType
  <2> QED BY <2>2, <1>2 DEF Recover, TypeOK, DurableType, RunType, WorkerType, Phases
<1> QED BY <1>1, <1>2 DEF StartupStep

LEMMA WorkerStepType == ASSUME TypeOK, Suspend \/ Crash PROVE TypeOK'
<1>1. CASE Suspend
  <2>1. \A t \in Tasks : /\ task[t] \in TaskRecord
                         /\ Transitioned(task[t], "RUNNING") \in TaskRecord
    BY WriteTypes DEF TypeOK, DurableType, TaskStates, Live
  <2>2. DurableType'
    BY <2>1, <1>1 DEF Suspend, TypeOK, DurableType
  <2>3. RunType'
    <3>1. \A r \in Runs : /\ run[r] \in RunRecord
                          /\ [run[r] EXCEPT !.pc = "chosen"] \in RunRecord
      BY DEF TypeOK, RunType, RunRecord, Suspended
    <3> QED BY <3>1, <1>1 DEF Suspend, RunType
  <2>4. WorkerType'
    BY <1>1 DEF Suspend, TypeOK, WorkerType, Phases
  <2> QED BY <2>2, <2>3, <2>4 DEF TypeOK
<1>2. CASE Crash
  <2>1. \A r \in Runs : run[r] \in RunRecord /\ Fresh(r, AnyTask, "done") \in RunRecord
    BY FreshType, AnyTaskType DEF TypeOK, RunType
  <2>2. RunType'
    BY <2>1, <1>2 DEF Crash, RunType
  <2>3. DurableType' /\ WorkerType'
    BY <1>2 DEF Crash, TypeOK, DurableType, WorkerType, durable, Phases
  <2> QED BY <2>2, <2>3 DEF TypeOK
<1> QED BY <1>1, <1>2

LEMMA TypeNext == ASSUME TypeOK, CallsLeft, [Next]_vars PROVE TypeOK'
<1>1. ASSUME NEW r \in Runs, RunStep(r) PROVE TypeOK'
  BY <1>1, RunStepType
<1>2. CASE UserStep
  BY <1>2, UserStepType
<1>3. ASSUME NEW t \in Tasks, ResumeStep(t) PROVE TypeOK'
  BY <1>3, ResumeStepType
<1>4. CASE StartupStep
  BY <1>4, StartupStepType
<1>5. CASE Suspend \/ Crash
  BY <1>5, WorkerStepType
<1>6. CASE UNCHANGED vars
  BY <1>6 DEF vars, durable, worker, TypeOK, DurableType, RunType, WorkerType
<1> QED BY <1>1, <1>2, <1>3, <1>4, <1>5, <1>6 DEF Next

-----------------------------------------------------------------------------
(* Every step lets a stored record only grow.                              *)

\* What no write of the program undoes on a record that exists.
Grown(a, b) ==
    /\ b.classic = a.classic
    /\ a.approval <= b.approval
    /\ a.taint \subseteq b.taint
    /\ a.state # "ABSENT" => b.state # "ABSENT"
    /\ isTerminal(a.state) => b.state = a.state

\* A step leaves task t grown, and its observer told the truth.
Grows(t) == Grown(task[t], task'[t]) /\ reported'[t] \subseteq {task'[t].state}

\* The transition table has no way out of a terminal state.
LEMMA TerminalStuck == \A from, to : isTerminal(from) => ~canTransition(from, to)
BY DEF isTerminal, canTransition, Terminal, Stopping

LEMMA GrownRefl == ASSUME NEW rec \in TaskRecord PROVE Grown(rec, rec)
BY DEF Grown, TaskRecord

LEMMA GrownTrans ==
    ASSUME NEW a \in TaskRecord, NEW b \in TaskRecord, NEW c \in TaskRecord,
           Grown(a, b), Grown(b, c)
    PROVE  Grown(a, c)
BY DEF Grown, TaskRecord

LEMMA GrownMoved ==
    ASSUME NEW rec \in TaskRecord, NEW s \in TaskStates, ~isTerminal(rec.state)
    PROVE  Grown(rec, [rec EXCEPT !.state = s])
BY DEF Grown, TaskRecord, TaskStates, Live, Terminal

\* None of the three store writes moves a finished record.
LEMMA GrownWrites ==
    ASSUME NEW rec \in TaskRecord, NEW s \in TaskStates
    PROVE  /\ Grown(rec, Transitioned(rec, s))
           /\ Grown(rec, Completed(rec, s))
           /\ Grown(rec, Failed(rec))
<1>1. Grown(rec, rec)
  BY GrownRefl
<1>2. ~isTerminal(rec.state) => Grown(rec, [rec EXCEPT !.state = s])
  BY GrownMoved
<1>3. ~isTerminal(rec.state) => Grown(rec, [rec EXCEPT !.state = "FAILED"])
  BY GrownMoved DEF TaskStates, Terminal
<1>4. canTransition(rec.state, s) => ~isTerminal(rec.state)
  BY TerminalStuck
<1> QED BY <1>1, <1>2, <1>3, <1>4
        DEF Transitioned, Completed, completeApplies, Failed

\* An outcome told earlier stays true when the record only grows.
LEMMA ToldKept ==
    ASSUME TypeOK, OutcomeTruthful, NEW t \in Tasks, Grown(task[t], task'[t]),
           reported'[t] = reported[t]
    PROVE  Grows(t)
<1>1. reported[t] \subseteq Terminal /\ reported[t] \subseteq {task[t].state}
  BY DEF TypeOK, DurableType, OutcomeTruthful
<1>2. reported[t] # {} => isTerminal(task[t].state)
  BY <1>1 DEF isTerminal
<1> QED BY <1>1, <1>2 DEF Grows, Grown

\* Before a task has finished nothing is told.
LEMMA NothingTold ==
    ASSUME TypeOK, OutcomeTruthful, NEW t \in Tasks, ~isTerminal(task[t].state)
    PROVE  reported[t] = {}
BY DEF TypeOK, DurableType, OutcomeTruthful, isTerminal

\* A task whose record and observer a step leaves alone.
LEMMA SameGrows ==
    ASSUME TypeOK, OutcomeTruthful, NEW t \in Tasks,
           task'[t] = task[t], reported'[t] = reported[t]
    PROVE  Grows(t)
<1>1. Grown(task[t], task'[t])
  BY GrownRefl DEF TypeOK, DurableType
<1> QED BY <1>1, ToldKept

LEMMA DurableGrows ==
    ASSUME TypeOK, OutcomeTruthful, UNCHANGED durable
    PROVE  \A t \in Tasks : Grows(t)
BY SameGrows DEF durable

\* A write of one record that only grows it, with nothing told.
LEMMA WriteGrows ==
    ASSUME TypeOK, OutcomeTruthful, NEW t \in Tasks, NEW rec, Grown(task[t], rec),
           task' = [task EXCEPT ![t] = rec], UNCHANGED reported
    PROVE  \A u \in Tasks : Grows(u)
<1> TAKE u \in Tasks
<1>1. CASE u = t
  <2>1. task'[u] = rec
    BY <1>1 DEF TypeOK, DurableType
  <2> QED BY <2>1, <1>1, ToldKept
<1>2. CASE u # t
  BY <1>2, SameGrows DEF TypeOK, DurableType
<1> QED BY <1>1, <1>2

LEMMA TransitionGrows ==
    ASSUME TypeOK, OutcomeTruthful, NEW r \in Runs, NEW s \in TaskStates, Transition(r, s)
    PROVE  \A u \in Tasks : Grows(u)
<1>1. run[r].task \in Tasks
  BY RunTask DEF TypeOK
<1>2. Grown(task[run[r].task], Transitioned(task[run[r].task], s))
  BY <1>1, GrownWrites DEF TypeOK, DurableType
<1> QED BY <1>1, <1>2, WriteGrows DEF Transition, TypeOK, DurableType

\* A write that ends task t with outcome o, or does not apply.
LEMMA EndGrows ==
    ASSUME TypeOK, OutcomeTruthful, NEW t \in Tasks, NEW rec \in TaskRecord,
           NEW o, NEW applies \in BOOLEAN,
           Grown(task[t], rec), applies => rec.state = o /\ ~isTerminal(task[t].state),
           task' = [task EXCEPT ![t] = rec],
           reported' = [reported EXCEPT ![t] =
                            IF applies THEN reported[t] \cup {o} ELSE reported[t]]
    PROVE  \A u \in Tasks : Grows(u)
<1> TAKE u \in Tasks
<1>1. CASE u # t
  BY <1>1, SameGrows DEF TypeOK, DurableType
<1>2. CASE u = t
  <2>1. task'[t] = rec
    BY DEF TypeOK, DurableType
  <2>2. CASE ~applies
    BY <2>1, <2>2, <1>2, ToldKept DEF TypeOK, DurableType
  <2>3. CASE applies
    <3>1. reported'[t] = {o}
      BY <2>3, NothingTold DEF TypeOK, DurableType
    <3> QED BY <3>1, <2>1, <2>3, <1>2 DEF Grows
  <2> QED BY <2>2, <2>3
<1> QED BY <1>1, <1>2

LEMMA CompleteGrows ==
    ASSUME TypeOK, OutcomeTruthful, NEW r \in Runs, NEW s \in Terminal, Complete(r, s)
    PROVE  \A u \in Tasks : Grows(u)
<1>1. PICK t \in Tasks : t = run[r].task
  BY RunTask DEF TypeOK
<1>2. task[t] \in TaskRecord /\ s \in TaskStates
  BY DEF TypeOK, DurableType, TaskStates
<1>3. Completed(task[t], s) \in TaskRecord /\ Grown(task[t], Completed(task[t], s))
  BY <1>2, WriteTypes, GrownWrites
<1>4. completeApplies(task[t], s) =>
          Completed(task[t], s).state = s /\ ~isTerminal(task[t].state)
  BY <1>2 DEF Completed, completeApplies, TaskRecord
<1>5. completeApplies(task[t], s) \in BOOLEAN
  BY DEF completeApplies, isTerminal
<1>6. /\ task' = [task EXCEPT ![t] = Completed(task[t], s)]
      /\ reported' = [reported EXCEPT ![t] = IF completeApplies(task[t], s)
                                             THEN reported[t] \cup {s} ELSE reported[t]]
  BY <1>1 DEF Complete
<1> QED BY <1>3, <1>4, <1>5, <1>6, EndGrows

LEMMA FailGrows ==
    ASSUME TypeOK, OutcomeTruthful, NEW r \in Runs, FailTask(r)
    PROVE  \A u \in Tasks : Grows(u)
<1>1. PICK t \in Tasks : t = run[r].task
  BY RunTask DEF TypeOK
<1>2. task[t] \in TaskRecord /\ "FAILED" \in TaskStates
  BY DEF TypeOK, DurableType, TaskStates, Terminal
<1>3. Failed(task[t]) \in TaskRecord /\ Grown(task[t], Failed(task[t]))
  BY <1>2, WriteTypes, GrownWrites
<1> DEFINE applies == ~isTerminal(task[t].state)
<1>4. applies => Failed(task[t]).state = "FAILED" /\ ~isTerminal(task[t].state)
  BY <1>2 DEF Failed, TaskRecord
<1>5. applies \in BOOLEAN
  BY DEF isTerminal
<1>6. /\ task' = [task EXCEPT ![t] = Failed(task[t])]
      /\ reported' = [reported EXCEPT ![t] = IF applies
                                             THEN reported[t] \cup {"FAILED"} ELSE reported[t]]
  BY <1>1 DEF FailTask
<1> HIDE DEF applies
<1>7. applies => ~isTerminal(task[t].state)
  BY <1>4
<1> QED BY <1>3, <1>4, <1>5, <1>6, EndGrows

LEMMA StopGrows ==
    ASSUME TypeOK, OutcomeTruthful, NEW r \in Runs, Stop(r)
    PROVE  \A u \in Tasks : Grows(u)
<1>1. CASE ctl[run[r].sig] = "paused"
  BY <1>1, DurableGrows DEF Stop
<1>2. CASE ctl[run[r].sig] # "paused"
  BY <1>2, CompleteGrows DEF Stop, Terminal
<1> QED BY <1>1, <1>2

LEMMA RunStepGrows ==
    ASSUME TypeOK, OutcomeTruthful, NEW r \in Runs, RunStep(r)
    PROVE  \A u \in Tasks : Grows(u)
<1> DEFINE t == run[r].task
<1>b. t \in Tasks /\ task[t] \in TaskRecord /\ run[r] \in RunRecord
  BY RunTask DEF TypeOK, DurableType
<1>c. {"PLANNING", "RUNNING", "RECOVERING", "WAITING_FOR_TOOL", "WAITING_FOR_USER"}
          \subseteq TaskStates
  BY DEF TaskStates, Live
<1>s. StoppedShort(r) \in Terminal
  BY StoppedShortType
<1>1. CASE \/ Begin(r) \/ Finish(r) \/ Refuse(r) \/ ExecuteTool(r)
  BY <1>1, DurableGrows DEF Begin, Finish, Refuse, ExecuteTool
<1>2. CASE \/ Resolve(r) \/ AwaitApproval(r) \/ RequestFile(r) \/ SettleFile(r)
  BY <1>2, <1>c, TransitionGrows DEF Resolve, AwaitApproval, RequestFile, SettleFile
<1>3. CASE Throw(r)
  BY <1>3, FailGrows DEF Throw
<1>4. CASE Propose(r)
  <2>1. Grown(task[t], [task[t] EXCEPT !.proposed = TRUE])
    BY <1>b DEF Grown, TaskRecord
  <2>2. CASE UNCHANGED durable
    BY <2>2, DurableGrows
  <2>3. CASE task' = [task EXCEPT ![t] = [task[t] EXCEPT !.proposed = TRUE]]
    BY <2>1, <2>3, <1>4, <1>b, WriteGrows DEF Propose
  <2> QED BY <2>2, <2>3, <1>4, <1>b DEF Propose, TypeOK, DurableType, durable
<1>5. CASE Bind(r) \/ Loop(r)
  BY <1>5, <1>c, <1>s, CompleteGrows, TransitionGrows, StopGrows DEF Bind, Loop, Terminal
<1>6. CASE GenerateRejected(r)
  BY <1>6, <1>c, <1>s, CompleteGrows, TransitionGrows, StopGrows DEF GenerateRejected
<1>7. CASE Backoff(r)
  BY <1>7, StopGrows, DurableGrows DEF Backoff
<1>u. ASSUME NEW n \in Nat
      PROVE  /\ UsageStored(task[t], r, n) \in TaskRecord
             /\ UsageStored(task[t], r, n).state = task[t].state
             /\ Grown(task[t], UsageStored(task[t], r, n))
  <2>1. UsageStored(task[t], r, n) \in TaskRecord
    BY <1>b, UsageType DEF TypeOK
  <2> QED BY <2>1, <1>b DEF UsageStored, Grown, TaskRecord
<1>n. run[r].requests \in Nat /\ run[r].requests + 1 \in Nat
  BY <1>b DEF RunRecord
<1>8. CASE GenerateText(r)
  <2> DEFINE outcome == IF run[r].trouble THEN "PARTIAL" ELSE "COMPLETED"
             counted == UsageStored(task[t], r, run[r].requests + 1)
             applies == completeApplies(task[t], outcome)
  <2>0. counted \in TaskRecord /\ counted.state = task[t].state /\ Grown(task[t], counted)
    BY <1>n, <1>u
  <2>1. outcome \in TaskStates
    BY DEF TaskStates, Terminal
  <2>2. /\ Completed(counted, outcome) \in TaskRecord
        /\ Grown(counted, Completed(counted, outcome))
    BY <2>0, <2>1, WriteTypes, GrownWrites
  <2>3. Grown(task[t], Completed(counted, outcome))
    BY <2>0, <2>2, <1>b, GrownTrans
  <2>4. applies => Completed(counted, outcome).state = outcome /\ ~isTerminal(task[t].state)
    BY <2>0 DEF Completed, completeApplies, TaskRecord
  <2>5. applies \in BOOLEAN
    BY DEF completeApplies, isTerminal
  <2>6. /\ task' = [task EXCEPT ![t] = Completed(counted, outcome)]
        /\ reported' = [reported EXCEPT ![t] = IF applies THEN reported[t] \cup {outcome}
                                               ELSE reported[t]]
    BY <1>8 DEF GenerateText
  <2> HIDE DEF counted, outcome, applies
  <2> QED BY <2>2, <2>3, <2>4, <2>5, <2>6, <1>b, EndGrows
<1>9. ASSUME NEW n \in 1..MaxCalls, GenerateCalls(r, n) PROVE \A u \in Tasks : Grows(u)
  BY <1>9, <1>b, <1>n, <1>u, WriteGrows DEF GenerateCalls
<1>10. CASE Call(r)
  <2>1. CASE task' = [task EXCEPT ![t] = UsageStored(task[t], r, run[r].requests)]
             /\ UNCHANGED reported
    BY <2>1, <1>b, <1>n, <1>u, WriteGrows
  <2>2. CASE Stop(r) \/ Transition(r, "WAITING_FOR_TOOL") \/ UNCHANGED durable
    BY <2>2, <1>c, StopGrows, TransitionGrows, DurableGrows
  <2> QED BY <2>1, <2>2, <1>10 DEF Call
<1>11. ASSUME NEW read \in SUBSET Sources, ToolReturns(r, read)
       PROVE  \A u \in Tasks : Grows(u)
  <2>1. Grown(task[t], [task[t] EXCEPT !.taint = task[t].taint \cup read])
    BY <1>b DEF Grown, TaskRecord
  <2> QED BY <2>1, <1>11, <1>b, WriteGrows DEF ToolReturns
<1>12. CASE TaintLost(r)
  BY <1>12, CompleteGrows DEF TaintLost, Terminal
<1>13. CASE Judge(r)
  BY <1>13, <1>s, CompleteGrows, DurableGrows DEF Judge
<1> QED BY <1>1, <1>2, <1>3, <1>4, <1>5, <1>6, <1>7, <1>8, <1>9, <1>10, <1>11, <1>12, <1>13
        DEF RunStep

\* A task that did not exist before the step, or grew.
Appears(t) == task[t].state = "ABSENT" /\ task'[t].state # "ABSENT" /\ reported'[t] = {}

LEMMA CancelGrows ==
    ASSUME TypeOK, OutcomeTruthful, NEW t \in Tasks, NEW rec \in TaskRecord,
           Grown(task[t], rec), CancelRecord(t, rec)
    PROVE  \A u \in Tasks : Grows(u)
<1> DEFINE gone == Transitioned(rec, "CANCELLED")
           applies == transitionAllowed(rec, "CANCELLED")
<1>1. gone \in TaskRecord /\ Grown(rec, gone)
  BY WriteTypes, GrownWrites DEF TaskStates, Terminal
<1>2. Grown(task[t], gone)
  BY <1>1, GrownTrans DEF TypeOK, DurableType
<1>3. /\ task' = [task EXCEPT ![t] = gone]
      /\ reported' = [reported EXCEPT ![t] = IF applies THEN reported[t] \cup {"CANCELLED"}
                                             ELSE reported[t]]
  BY DEF CancelRecord
<1>4. applies => gone.state = "CANCELLED"
  BY DEF transitionAllowed, Transitioned, TaskRecord
<1>5. task'[t] = gone
  BY <1>3 DEF TypeOK, DurableType
<1> HIDE DEF gone, applies
<1> TAKE u \in Tasks
<1>6. CASE u # t
  BY <1>3, <1>6, SameGrows DEF TypeOK, DurableType
<1>7. CASE u = t /\ ~applies
  BY <1>2, <1>3, <1>5, <1>7, ToldKept DEF TypeOK, DurableType
<1>8. CASE u = t /\ applies
  <2>1. reported[t] \subseteq {"CANCELLED"}
    <3>1. CASE isTerminal(task[t].state)
      BY <3>1, <1>2, <1>4, <1>8 DEF OutcomeTruthful, Grown
    <3>2. CASE ~isTerminal(task[t].state)
      BY <3>2, NothingTold
    <3> QED BY <3>1, <3>2
  <2>2. reported'[t] \subseteq {"CANCELLED"}
    BY <2>1, <1>3 DEF TypeOK, DurableType
  <2> QED BY <2>2, <1>2, <1>4, <1>5, <1>8 DEF Grows
<1> QED BY <1>6, <1>7, <1>8

LEMMA NewAppears ==
    ASSUME TypeOK, OutcomeTruthful, NEW t \in Tasks, NEW c \in BOOLEAN,
           task[t].state = "ABSENT", task'[t] = NewTask(c), reported'[t] = reported[t]
    PROVE  Appears(t)
<1>1. reported[t] = {}
  BY NothingTold DEF isTerminal, Terminal
<1>2. task'[t].state = "QUEUED"
  BY DEF NewTask, NoTask
<1> QED BY <1>1, <1>2 DEF Appears

LEMMA UserStepGrows ==
    ASSUME TypeOK, OutcomeTruthful, UserStep
    PROVE  \A v \in Tasks : Grows(v) \/ Appears(v)
<1>b. \A t \in Tasks : task[t] \in TaskRecord
  BY DEF TypeOK, DurableType
<1>c. "CANCELLED" \in TaskStates /\ "PAUSED" \in TaskStates /\ "RUNNING" \in TaskStates
  BY DEF TaskStates, Live, Terminal
<1> SUFFICES ASSUME NEW t \in Tasks,
                    \/ \E classic \in BOOLEAN, r \in Runs : Create(t, classic, r)
                    \/ \E u \in Tasks, r \in Runs : Retry(t, u, r)
                    \/ Pause(t) \/ Cancel(t) \/ Resume(t)
                    \/ ApprovePlan(t) \/ RevisePlan(t) \/ AddSiteToPlan(t)
             PROVE  \A v \in Tasks : Grows(v) \/ Appears(v)
  BY DEF UserStep
<1>1. ASSUME NEW classic \in BOOLEAN, NEW r \in Runs, Create(t, classic, r)
      PROVE  \A v \in Tasks : Grows(v) \/ Appears(v)
  <2> TAKE v \in Tasks
  <2>1. CASE v = t
    BY <2>1, <1>1, NewAppears DEF Create, TypeOK, DurableType
  <2>2. CASE v # t
    BY <2>2, <1>1, SameGrows DEF Create, TypeOK, DurableType
  <2> QED BY <2>1, <2>2
<1>2. ASSUME NEW u \in Tasks, NEW r \in Runs, Retry(t, u, r)
      PROVE  \A v \in Tasks : Grows(v) \/ Appears(v)
  <2> DEFINE gone == Transitioned(task[t], "CANCELLED")
             over == isTerminal(task[t].state)
             applies == transitionAllowed(task[t], "CANCELLED")
  <2>0. task[t].state # "ABSENT" /\ task[u].state = "ABSENT" /\ t # u
    BY <1>2 DEF Retry
  <2>1. /\ task' = [task EXCEPT ![t] = IF over THEN task[t] ELSE gone,
                                ![u] = NewTask(task[t].classic)]
        /\ over => reported' = reported
        /\ ~over => reported' = [reported EXCEPT ![t] =
                        IF applies THEN reported[t] \cup {"CANCELLED"} ELSE reported[t]]
    BY <1>2 DEF Retry
  <2>2. /\ task'[u] = NewTask(task[t].classic) /\ reported'[u] = reported[u]
        /\ task'[t] = IF over THEN task[t] ELSE gone
        /\ \A v \in Tasks \ {t, u} : task'[v] = task[v] /\ reported'[v] = reported[v]
    BY <2>0, <2>1 DEF TypeOK, DurableType
  <2>3. Appears(u)
    <3>1. task[t].classic \in BOOLEAN
      BY <1>b DEF TaskRecord
    <3> QED BY <3>1, <2>0, <2>2, NewAppears
  <2>4. Grows(t)
    <3>1. CASE over
      BY <3>1, <2>1, <2>2, SameGrows
    <3>2. CASE ~over
      <4>1. gone \in TaskRecord /\ Grown(task[t], gone)
        BY <1>b, <1>c, WriteTypes, GrownWrites
      <4>2. task'[t] = gone
        BY <3>2, <2>2
      <4>3. reported[t] = {}
        BY <3>2, NothingTold
      <4>4. reported'[t] = IF applies THEN {"CANCELLED"} ELSE {}
        BY <3>2, <4>3, <2>1 DEF TypeOK, DurableType
      <4>5. applies => gone.state = "CANCELLED"
        BY <1>b DEF transitionAllowed, Transitioned, TaskRecord
      <4> QED BY <4>1, <4>2, <4>4, <4>5 DEF Grows
    <3> QED BY <3>1, <3>2
  <2> TAKE v \in Tasks
  <2>5. CASE v \notin {t, u}
    BY <2>5, <2>2, SameGrows
  <2> QED BY <2>3, <2>4, <2>5
<1>3. CASE Pause(t)
  BY <1>3, <1>b, <1>c, GrownWrites, WriteGrows DEF Pause
<1>4. CASE Cancel(t)
  <2> DEFINE rec == IF Choosing(t) = {} THEN task[t] ELSE Transitioned(task[t], "RUNNING")
  <2>1. rec \in TaskRecord /\ Grown(task[t], rec)
    BY <1>b, <1>c, WriteTypes, GrownWrites, GrownRefl
  <2>2. CancelRecord(t, rec)
    BY <1>4 DEF Cancel
  <2> HIDE DEF rec
  <2> QED BY <2>1, <2>2, CancelGrows
<1>5. CASE Resume(t)
  BY <1>5, DurableGrows DEF Resume
<1>6. CASE ApprovePlan(t)
  <2>1. Grown(task[t], [task[t] EXCEPT !.approval = 1])
    BY <1>6, <1>b DEF ApprovePlan, Grown, TaskRecord
  <2> QED BY <2>1, <1>6, WriteGrows DEF ApprovePlan, TypeOK, DurableType
<1>7. CASE RevisePlan(t)
  <2>1. Grown(task[t], [task[t] EXCEPT !.proposed = FALSE])
    BY <1>b DEF Grown, TaskRecord
  <2> QED BY <2>1, <1>7, WriteGrows DEF RevisePlan, TypeOK, DurableType
<1>8. CASE AddSiteToPlan(t)
  <2>1. Grown(task[t], [task[t] EXCEPT !.approval = task[t].approval + 1])
    BY <1>b DEF Grown, TaskRecord
  <2> QED BY <2>1, <1>8, WriteGrows DEF AddSiteToPlan, TypeOK, DurableType
<1> QED BY <1>1, <1>2, <1>3, <1>4, <1>5, <1>6, <1>7, <1>8

\* Every step of the program, and every stutter.
LEMMA NextGrows ==
    ASSUME TypeOK, OutcomeTruthful, [Next]_vars
    PROVE  \A v \in Tasks : Grows(v) \/ Appears(v)
<1>b. \A t \in Tasks : task[t] \in TaskRecord
  BY DEF TypeOK, DurableType
<1>1. ASSUME NEW r \in Runs, RunStep(r) PROVE \A v \in Tasks : Grows(v)
  BY <1>1, RunStepGrows
<1>2. CASE UserStep
  BY <1>2, UserStepGrows
<1>3. ASSUME NEW t \in Tasks, ResumeStep(t) PROVE \A v \in Tasks : Grows(v)
  BY <1>3, DurableGrows DEF ResumeStep, ResumeRefused, ResumeRead, ResumeStart
<1>4. CASE StartupStep
  <2>1. CASE ListInterrupted
    BY <2>1, DurableGrows DEF ListInterrupted
  <2>2. ASSUME NEW t \in Tasks, Recover(t) PROVE \A v \in Tasks : Grows(v)
    <3> DEFINE parked == IF isTerminal(task[t].state) THEN task[t]
                         ELSE [task[t] EXCEPT !.state = "PAUSED"]
    <3>1. Grown(task[t], parked)
      BY <1>b, GrownRefl, GrownMoved DEF TaskStates, Live
    <3> QED BY <3>1, <2>2, WriteGrows DEF Recover, TypeOK, DurableType
  <2> QED BY <2>1, <2>2, <1>4 DEF StartupStep
<1>5. CASE Suspend
  <2> TAKE v \in Tasks
  <2>1. /\ task'[v] = IF Choosing(v) = {} THEN task[v] ELSE Transitioned(task[v], "RUNNING")
        /\ reported' = reported
    BY <1>5 DEF Suspend
  <2>2. Grown(task[v], task'[v])
    BY <2>1, <1>b, GrownRefl, GrownWrites DEF TaskStates, Live
  <2> QED BY <2>1, <2>2, ToldKept
<1>6. CASE Crash
  BY <1>6, DurableGrows DEF Crash
<1>7. CASE UNCHANGED vars
  BY <1>7, DurableGrows DEF vars
<1> QED BY <1>1, <1>2, <1>3, <1>4, <1>5, <1>6, <1>7 DEF Next

-----------------------------------------------------------------------------
(* Every step leaves every run fitting its task's record.                  *)

\* What the step must leave of run q.
Kept(q) == /\ RunFits(run'[q], task'[run'[q].task])
           /\ run'[q].pc \in Dispatched => run'[q].calls > 0

\* What is known of a step by now.
Known == /\ TypeOK /\ TypeOK' /\ CallsLeft /\ RunsFit
         /\ \A v \in Tasks : Grows(v) \/ Appears(v)

\* A record that grew, or was not there, still fits what a run remembers.
LEMMA FitsGrown ==
    ASSUME NEW x \in RunRecord, NEW a \in TaskRecord, NEW b \in TaskRecord,
           RunFits(x, a), Grown(a, b)
    PROVE  RunFits(x, b)
BY DEF RunFits, Grown, TaskRecord

LEMMA FitsAppears ==
    ASSUME NEW x \in RunRecord, NEW a \in TaskRecord, NEW b \in TaskRecord,
           RunFits(x, a), a.state = "ABSENT"
    PROVE  RunFits(x, b)
BY DEF RunFits, Acting, Suspended

LEMMA FreshFits ==
    ASSUME NEW r \in Runs, NEW t \in Tasks, NEW rec \in TaskRecord
    PROVE  /\ RunFits(Fresh(r, t, "done"), rec)
           /\ rec.state # "ABSENT" => RunFits(Fresh(r, t, "spawned"), rec)
           /\ Fresh(r, t, "done").pc \notin Dispatched
           /\ Fresh(r, t, "spawned").pc \notin Dispatched
BY DEF RunFits, Fresh, Acting, Suspended, Dispatched, TaskRecord

\* Moving on to another await, not past the plan gate.
LEMMA FitsMoved ==
    ASSUME NEW x \in RunRecord, NEW rec \in TaskRecord, NEW p, RunFits(x, rec),
           x.pc \in Suspended, p \in Acting => x.pc \in Acting \/ (rec.classic => x.planned)
    PROVE  RunFits([x EXCEPT !.pc = p], rec)
BY DEF RunFits, RunRecord

\* A run the step does not touch.
LEMMA Untouched ==
    ASSUME Known, NEW q \in Runs, run'[q] = run[q]
    PROVE  Kept(q)
<1> USE DEF Known
<1>1. run[q] \in RunRecord /\ run[q].task \in Tasks
  BY RunTask DEF TypeOK
<1>2. task[run[q].task] \in TaskRecord /\ task'[run[q].task] \in TaskRecord
  BY <1>1 DEF TypeOK, DurableType
<1>3. RunFits(run[q], task[run[q].task])
  BY DEF RunsFit
<1>4. RunFits(run[q], task'[run[q].task])
  BY <1>1, <1>2, <1>3, FitsGrown, FitsAppears DEF Grows, Appears
<1>5. run[q].pc \in Dispatched => run[q].calls > 0
  BY DEF CallsLeft
<1> QED BY <1>4, <1>5 DEF Kept

\* A run that only moves on.
LEMMA MovedOn ==
    ASSUME Known, NEW q \in Runs, NEW p, run'[q] = [run[q] EXCEPT !.pc = p],
           run[q].pc \in Suspended, p \in Acting => run[q].pc \in Acting,
           p \in Dispatched => run[q].pc \in Dispatched \/ run[q].calls > 0
    PROVE  Kept(q)
<1> USE DEF Known
<1>1. run[q] \in RunRecord /\ run[q].task \in Tasks /\ run'[q] \in RunRecord
  BY RunTask DEF TypeOK, RunType
<1>2. task[run[q].task] \in TaskRecord /\ task'[run[q].task] \in TaskRecord
  BY <1>1 DEF TypeOK, DurableType
<1>3. RunFits(run[q], task[run[q].task])
  BY DEF RunsFit
<1>4. RunFits(run'[q], task[run[q].task])
  BY <1>1, <1>2, <1>3, FitsMoved
<1>5. run'[q].task = run[q].task /\ run'[q].calls = run[q].calls /\ run'[q].pc = p
  BY <1>1 DEF RunRecord
<1>6. RunFits(run'[q], task'[run[q].task])
  BY <1>1, <1>2, <1>4, FitsGrown, FitsAppears DEF Grows, Appears
<1>7. run'[q].pc \in Dispatched => run'[q].calls > 0
  BY <1>5 DEF CallsLeft
<1> QED BY <1>5, <1>6, <1>7 DEF Kept

\* A step that touches one run keeps the others.
LEMMA OneTouched ==
    ASSUME Known, NEW r \in Runs, NEW x, run' = [run EXCEPT ![r] = x], Kept(r)
    PROVE  \A q \in Runs : Kept(q)
BY Untouched DEF Known, TypeOK, RunType

LEMMA GotoKept ==
    ASSUME Known, NEW r \in Runs, NEW p, Goto(r, p),
           run[r].pc \in Suspended, p \in Acting => run[r].pc \in Acting,
           p \in Dispatched => run[r].pc \in Dispatched \/ run[r].calls > 0
    PROVE  \A q \in Runs : Kept(q)
<1>1. run' = [run EXCEPT ![r] = [run[r] EXCEPT !.pc = p]]
  BY DEF Known, TypeOK, RunType, Goto
<1>2. run'[r] = [run[r] EXCEPT !.pc = p]
  BY <1>1 DEF Known, TypeOK, RunType
<1>3. Kept(r)
  BY <1>2, MovedOn
<1> QED BY <1>1, <1>3, OneTouched

\* A run on its way out.
LEMMA OutKept ==
    ASSUME Known, NEW r \in Runs, run[r].pc \in Suspended,
           \/ Goto(r, "finishing") \/ Stop(r) \/ FailTask(r)
           \/ \E s \in Terminal : Complete(r, s)
    PROVE  \A q \in Runs : Kept(q)
<1>1. Goto(r, "finishing")
  BY DEF Stop, FailTask, Complete
<1>2. "finishing" \notin Acting /\ "finishing" \notin Dispatched
  BY DEF Acting, Dispatched
<1> QED BY <1>1, <1>2, GotoKept

\* The plan gate: a run gets past it unplanned only if its task is not one
\* that plans first.
LEMMA ResolveKept ==
    ASSUME Known, NEW r \in Runs, Resolve(r)
    PROVE  \A q \in Runs : Kept(q)
<1> DEFINE t == run[r].task
<1>0. /\ run[r] \in RunRecord /\ t \in Tasks
      /\ task[t] \in TaskRecord /\ task'[t] \in TaskRecord
      /\ run[r].pc = "resolving" /\ RunFits(run[r], task[t])
  BY RunTask DEF Known, TypeOK, DurableType, Resolve, RunsFit
<1>1. CASE Goto(r, "finishing") \/ Goto(r, "proposing")
  BY <1>0, <1>1, GotoKept DEF Acting, Dispatched, Suspended
<1>2. CASE Goto(r, "binding") /\ (task[t].classic => run[r].planned)
  <2>1. run' = [run EXCEPT ![r] = [run[r] EXCEPT !.pc = "binding"]]
    BY <1>2 DEF Known, TypeOK, RunType, Goto
  <2>2. run'[r] = [run[r] EXCEPT !.pc = "binding"]
    BY <2>1 DEF Known, TypeOK, RunType
  <2>3. RunFits(run'[r], task[t])
    BY <2>2, <1>0, <1>2, FitsMoved DEF Suspended
  <2>4. run'[r].task = t /\ run'[r].pc = "binding" /\ run'[r] \in RunRecord
    BY <2>2, <1>0 DEF RunRecord, Known, TypeOK, RunType
  <2>5. RunFits(run'[r], task'[t])
    BY <2>3, <2>4, <1>0, FitsGrown, FitsAppears DEF Known, Grows, Appears
  <2>6. Kept(r)
    BY <2>4, <2>5 DEF Kept, Dispatched
  <2> QED BY <2>1, <2>6, OneTouched
<1>3. \/ Goto(r, "finishing") \/ Goto(r, "proposing")
      \/ Goto(r, "binding") /\ (task[t].classic => run[r].planned)
  <2>1. task[t].classic \in BOOLEAN /\ run[r].planned \in BOOLEAN
    BY <1>0 DEF TaskRecord, RunRecord
  <2>2. CASE ~transitionAllowed(task[t], "PLANNING")
    BY <2>2 DEF Resolve
  <2>3. CASE transitionAllowed(task[t], "PLANNING") /\ task[t].classic /\ ~run[r].planned
    BY <2>3 DEF Resolve
  <2>4. CASE /\ transitionAllowed(task[t], "PLANNING")
             /\ ~(task[t].classic /\ ~run[r].planned)
    BY <2>1, <2>4 DEF Resolve
  <2> QED BY <2>2, <2>3, <2>4
<1> QED BY <1>1, <1>2, <1>3

\* A run whose memory of its task the step leaves alone.
LEMMA ChangedKept ==
    ASSUME Known, NEW r \in Runs, NEW x \in RunRecord, run' = [run EXCEPT ![r] = x],
           x.task = run[r].task, x.seen = run[r].seen, x.ctx = run[r].ctx,
           x.planned = run[r].planned, run[r].pc \in Suspended,
           x.pc \in Acting => run[r].pc \in Acting, x.pc \in Dispatched => x.calls > 0
    PROVE  \A q \in Runs : Kept(q)
<1> DEFINE t == run[r].task
<1>0. /\ run[r] \in RunRecord /\ t \in Tasks /\ run'[r] = x
      /\ task[t] \in TaskRecord /\ task'[t] \in TaskRecord
  BY RunTask DEF Known, TypeOK, DurableType, RunType
<1>1. RunFits(x, task[t])
  BY DEF Known, RunsFit, RunFits
<1>2. RunFits(x, task'[t])
  BY <1>0, <1>1, FitsGrown, FitsAppears DEF Known, Grows, Appears
<1>3. Kept(r)
  BY <1>0, <1>2 DEF Kept
<1> QED BY <1>3, OneTouched

\* A run that is over.
LEMMA DoneKept ==
    ASSUME Known, NEW r \in Runs, run' = [run EXCEPT ![r] = Fresh(r, AnyTask, "done")]
    PROVE  \A q \in Runs : Kept(q)
<1>1. run'[r] = Fresh(r, AnyTask, "done") /\ run'[r].task = AnyTask
  BY DEF Known, TypeOK, RunType, Fresh
<1>2. task'[AnyTask] \in TaskRecord
  BY AnyTaskType DEF Known, TypeOK, DurableType
<1>3. Kept(r)
  BY <1>1, <1>2, AnyTaskType, FreshFits DEF Kept
<1> QED BY <1>3, OneTouched

LEMMA BeginKept ==
    ASSUME Known, NEW r \in Runs, Begin(r)
    PROVE  \A q \in Runs : Kept(q)
<1> DEFINE t == run[r].task
           rec == task[t]
           h == handle[t]
           begun == [run[r] EXCEPT !.pc = "resolving", !.sig = h,
                                   !.planned = rec.approval > 0, !.ctx = rec.taint,
                                   !.requests = rec.requests, !.retries = rec.retries]
<1>0. /\ run[r] \in RunRecord /\ t \in Tasks /\ rec \in TaskRecord
      /\ task'[t] \in TaskRecord /\ RunFits(run[r], rec) /\ run[r].pc \in Suspended
  BY RunTask DEF Known, TypeOK, DurableType, Begin, Suspended, RunsFit
<1>1. CASE h = NoRun \/ isTerminal(rec.state) \/ ctl[h] # "live"
  BY <1>1, DoneKept DEF Begin
<1>2. CASE ~(h = NoRun \/ isTerminal(rec.state) \/ ctl[h] # "live")
  <2>1. run' = [run EXCEPT ![r] = begun]
    BY <1>2 DEF Begin
  <2>2. run'[r] = begun
    BY <2>1 DEF Known, TypeOK, RunType
  <2>3. /\ begun.pc = "resolving" /\ begun.task = t /\ begun.ctx = rec.taint
        /\ begun.seen = run[r].seen /\ begun.planned = (rec.approval > 0)
    BY <1>0 DEF RunRecord
  <2>4. run[r].seen \subseteq rec.taint /\ rec.state # "ABSENT"
    BY <1>0 DEF RunFits
  <2>5. begun \in RunRecord
    BY <2>2 DEF Known, TypeOK, RunType
  <2> HIDE DEF begun
  <2>6. RunFits(begun, rec)
    BY <2>3, <2>4 DEF RunFits, Acting
  <2>7. RunFits(begun, task'[t])
    BY <2>5, <2>6, <1>0, FitsGrown, FitsAppears DEF Known, Grows, Appears
  <2>8. Kept(r)
    BY <2>2, <2>3, <2>7 DEF Kept, Dispatched
  <2> QED BY <2>1, <2>8, OneTouched
<1> QED BY <1>1, <1>2

\* What a tool read is in the run's taint and on the record before the result
\* can be used.
LEMMA ToolReturnsKept ==
    ASSUME Known, NEW r \in Runs, NEW read \in SUBSET Sources, ToolReturns(r, read)
    PROVE  \A q \in Runs : Kept(q)
<1> DEFINE t == run[r].task
           taint == task[t].taint \cup read
<1>0. /\ run[r] \in RunRecord /\ t \in Tasks /\ task[t] \in TaskRecord
      /\ task'[t] \in TaskRecord /\ RunFits(run[r], task[t])
      /\ run[r].pc \in {"executing", "chosen"}
  BY RunTask DEF Known, TypeOK, DurableType, ToolReturns, RunsFit
<1>1. PICK ok \in BOOLEAN :
        run' = [run EXCEPT ![r] = [run[r] EXCEPT !.pc = "judging",
                              !.ctx = IF read = {} THEN @ ELSE taint,
                              !.seen = @ \cup read,
                              !.acted = IF ok THEN TRUE ELSE @,
                              !.trouble = IF ok THEN @ ELSE TRUE]]
  BY DEF ToolReturns
<1> DEFINE c == IF read = {} THEN run[r].ctx ELSE taint
           a == IF ok THEN TRUE ELSE run[r].acted
           b == IF ok THEN run[r].trouble ELSE TRUE
<1>a. run'[r] = [run[r] EXCEPT !.pc = "judging", !.ctx = c, !.seen = run[r].seen \cup read,
                              !.acted = a, !.trouble = b]
  BY <1>1 DEF Known, TypeOK, RunType
<1>2. /\ run'[r].pc = "judging" /\ run'[r].task = t /\ run'[r].calls = run[r].calls
      /\ run'[r].ctx = c
      /\ run'[r].seen = run[r].seen \cup read /\ run'[r].planned = run[r].planned
  <2> HIDE DEF c, a, b
  <2> QED BY <1>0, <1>a DEF RunRecord
<1>3. task' = [task EXCEPT ![t] = [task[t] EXCEPT !.taint = taint]]
  BY DEF ToolReturns, Known, TypeOK, DurableType
<1>4. /\ task'[t].taint = taint /\ task'[t].state = task[t].state
      /\ task'[t].approval = task[t].approval /\ task'[t].classic = task[t].classic
  BY <1>0, <1>3 DEF Known, TypeOK, DurableType, TaskRecord
<1>5. /\ run[r].seen \subseteq run[r].ctx /\ run[r].ctx \subseteq task[t].taint
      /\ task[t].state # "ABSENT"
      /\ run[r].planned => task[t].approval > 0
      /\ task[t].classic => run[r].planned
  BY <1>0 DEF RunFits, Suspended, Acting
<1>6. RunFits(run'[r], task'[t])
  <2>1. run'[r].seen \subseteq run'[r].ctx
    <3>1. CASE read = {}
      BY <3>1, <1>2, <1>5
    <3>2. CASE read # {}
      BY <3>2, <1>2, <1>5
    <3> QED BY <3>1, <3>2
  <2>2. run'[r].ctx \subseteq task'[t].taint
    BY <1>2, <1>4, <1>5
  <2> QED BY <2>1, <2>2, <1>2, <1>4, <1>5 DEF RunFits
<1>7. run[r].calls > 0
  BY <1>0 DEF Known, CallsLeft, Dispatched
<1>8. Kept(r)
  BY <1>2, <1>6, <1>7 DEF Kept
<1> QED BY <1>1, <1>8, OneTouched

LEMMA RunStepKept ==
    ASSUME Known, NEW r \in Runs, RunStep(r)
    PROVE  \A q \in Runs : Kept(q)
<1>0. run[r] \in RunRecord
  BY DEF Known, TypeOK, RunType
<1>s. StoppedShort(r) \in Terminal
  BY StoppedShortType
<1> USE DEF Suspended, Acting, Dispatched
<1>1. CASE Begin(r)
  BY <1>1, BeginKept
<1>2. CASE Resolve(r)
  BY <1>2, ResolveKept
<1>3. CASE Throw(r)
  BY <1>3, OutKept DEF Throw, InTry
<1>4. CASE Propose(r)
  BY <1>4, OutKept, GotoKept DEF Propose
<1>5. CASE AwaitApproval(r)
  BY <1>5, OutKept DEF AwaitApproval
<1>6. CASE Finish(r)
  BY <1>6, DoneKept DEF Finish
<1>7. CASE Bind(r)
  BY <1>7, OutKept, GotoKept DEF Bind, Terminal
<1>8. CASE Loop(r)
  BY <1>8, <1>s, OutKept, GotoKept DEF Loop
<1>9. CASE GenerateRejected(r)
  <2> DEFINE x == [run[r] EXCEPT !.pc = "backoff", !.retries = @ + 1]
  <2>1. CASE Stop(r) \/ Complete(r, StoppedShort(r))
    BY <2>1, <1>9, <1>s, OutKept DEF GenerateRejected
  <2>2. CASE run' = [run EXCEPT ![r] = x]
    <3>1. x \in RunRecord
      BY <1>0, RecordTypes
    <3>2. /\ x.task = run[r].task /\ x.seen = run[r].seen /\ x.ctx = run[r].ctx
          /\ x.planned = run[r].planned /\ x.pc = "backoff"
      BY <1>0 DEF RunRecord
    <3> HIDE DEF x
    <3> QED BY <3>1, <3>2, <2>2, <1>9, ChangedKept DEF GenerateRejected
  <2> QED BY <2>1, <2>2, <1>9 DEF GenerateRejected
<1>10. CASE Backoff(r)
  BY <1>10, OutKept, GotoKept DEF Backoff
<1>11. CASE GenerateText(r)
  BY <1>11, OutKept DEF GenerateText
<1>12. ASSUME NEW n \in 1..MaxCalls, GenerateCalls(r, n) PROVE \A q \in Runs : Kept(q)
  <2> DEFINE x == [run[r] EXCEPT !.pc = "calling", !.requests = @ + 1, !.calls = n]
  <2>1. x \in RunRecord
    <3>1. n \in Nat
      BY ConstantsAssumption
    <3> QED BY <3>1, <1>0, RecordTypes
  <2>2. /\ x.task = run[r].task /\ x.seen = run[r].seen /\ x.ctx = run[r].ctx
        /\ x.planned = run[r].planned /\ x.pc = "calling"
    BY <1>0 DEF RunRecord
  <2> QED BY <2>1, <2>2, <1>12, ChangedKept DEF GenerateCalls
<1>13. CASE Call(r)
  <2> DEFINE x == [run[r] EXCEPT !.calls = @ - 1, !.trouble = TRUE]
  <2>1. CASE Stop(r) \/ Goto(r, "looping")
    BY <2>1, <1>13, OutKept, GotoKept DEF Call
  <2>2. CASE Goto(r, "dispatching") /\ run[r].calls > 0
    BY <2>2, <1>13, GotoKept DEF Call
  <2>3. CASE run' = [run EXCEPT ![r] = x] /\ run[r].calls > 0
    <3>1. x \in RunRecord
      BY <2>3, <1>0, RecordTypes
    <3>2. /\ x.task = run[r].task /\ x.seen = run[r].seen /\ x.ctx = run[r].ctx
          /\ x.planned = run[r].planned /\ x.pc = run[r].pc
      BY <1>0 DEF RunRecord
    <3>3. run[r].pc = "calling"
      BY <1>13 DEF Call
    <3> HIDE DEF x
    <3> QED BY <3>1, <3>2, <3>3, <2>3, ChangedKept
  <2> QED BY <2>1, <2>2, <2>3, <1>13 DEF Call
<1>14. CASE Refuse(r)
  <2> DEFINE x == [run[r] EXCEPT !.pc = "judging", !.trouble = TRUE]
  <2>1. x \in RunRecord
    BY <1>0, RecordTypes
  <2>2. /\ x.task = run[r].task /\ x.seen = run[r].seen /\ x.ctx = run[r].ctx
        /\ x.planned = run[r].planned /\ x.pc = "judging" /\ x.calls = run[r].calls
    BY <1>0 DEF RunRecord
  <2>3. run[r].pc = "dispatching" /\ run[r].calls > 0 /\ run' = [run EXCEPT ![r] = x]
    BY <1>14 DEF Refuse, Known, CallsLeft
  <2> HIDE DEF x
  <2> QED BY <2>1, <2>2, <2>3, ChangedKept
<1>15. CASE ExecuteTool(r) \/ RequestFile(r) \/ SettleFile(r)
  BY <1>15, GotoKept DEF ExecuteTool, RequestFile, SettleFile
<1>16. ASSUME NEW read \in SUBSET Sources, ToolReturns(r, read)
       PROVE  \A q \in Runs : Kept(q)
  BY <1>16, ToolReturnsKept
<1>17. CASE TaintLost(r)
  BY <1>17, OutKept DEF TaintLost, Terminal
<1>18. CASE Judge(r)
  <2> DEFINE x == [run[r] EXCEPT !.pc = "calling", !.calls = @ - 1]
  <2>1. CASE Complete(r, StoppedShort(r))
    BY <2>1, <1>18, <1>s, OutKept DEF Judge
  <2>2. CASE run' = [run EXCEPT ![r] = x]
    <3>1. run[r].pc = "judging" /\ run[r].calls > 0
      BY <1>18 DEF Judge, Known, CallsLeft
    <3>2. x \in RunRecord
      BY <3>1, <1>0, RecordTypes
    <3>3. /\ x.task = run[r].task /\ x.seen = run[r].seen /\ x.ctx = run[r].ctx
          /\ x.planned = run[r].planned /\ x.pc = "calling"
      BY <1>0 DEF RunRecord
    <3> HIDE DEF x
    <3> QED BY <3>1, <3>2, <3>3, <2>2, ChangedKept
  <2> QED BY <2>1, <2>2, <1>18 DEF Judge
<1> QED BY <1>1, <1>2, <1>3, <1>4, <1>5, <1>6, <1>7, <1>8, <1>9, <1>10, <1>11, <1>12,
           <1>13, <1>14, <1>15, <1>16, <1>17, <1>18 DEF RunStep

\* What a step that is not a run's own may do to a run.
Handled(q) ==
    \/ run'[q] = run[q]
    \/ run[q].pc = "choosing" /\ run'[q] = [run[q] EXCEPT !.pc = "chosen"]
    \/ \E t \in Tasks : run'[q] = Fresh(q, t, "spawned") /\ task'[t].state # "ABSENT"
    \/ run'[q] = Fresh(q, AnyTask, "done")

LEMMA HandledKept ==
    ASSUME Known, NEW q \in Runs, Handled(q)
    PROVE  Kept(q)
<1>0. \A t \in Tasks : task'[t] \in TaskRecord
  BY DEF Known, TypeOK, DurableType
<1>1. CASE run'[q] = run[q]
  BY <1>1, Untouched
<1>2. CASE run[q].pc = "choosing" /\ run'[q] = [run[q] EXCEPT !.pc = "chosen"]
  BY <1>2, MovedOn DEF Acting, Dispatched, Suspended
<1>3. ASSUME NEW t \in Tasks, run'[q] = Fresh(q, t, "spawned"), task'[t].state # "ABSENT"
      PROVE  Kept(q)
  <2>1. run'[q].task = t
    BY <1>3 DEF Fresh
  <2> QED BY <2>1, <1>0, <1>3, FreshFits DEF Kept
<1>4. CASE run'[q] = Fresh(q, AnyTask, "done")
  <2>1. run'[q].task = AnyTask
    BY <1>4 DEF Fresh
  <2> QED BY <2>1, <1>0, <1>4, AnyTaskType, FreshFits DEF Kept
<1> QED BY <1>1, <1>2, <1>3, <1>4 DEF Handled

LEMMA SpawnHandled ==
    ASSUME TypeOK, NEW t \in Tasks, NEW r \in Runs, task'[t].state # "ABSENT",
           run' = [run EXCEPT ![r] = Fresh(r, t, "spawned")]
    PROVE  \A q \in Runs : Handled(q)
BY DEF TypeOK, RunType, Handled

LEMMA UserStepHandled ==
    ASSUME TypeOK, UserStep
    PROVE  \A q \in Runs : Handled(q)
<1>1. ASSUME NEW t \in Tasks, NEW classic \in BOOLEAN, NEW r \in Runs, Create(t, classic, r)
      PROVE  \A q \in Runs : Handled(q)
  <2>1. task'[t].state # "ABSENT"
    BY <1>1 DEF Create, TypeOK, DurableType, NewTask, NoTask
  <2> QED BY <2>1, <1>1, SpawnHandled DEF Create, Spawn
<1>2. ASSUME NEW t \in Tasks, NEW u \in Tasks, NEW r \in Runs, Retry(t, u, r)
      PROVE  \A q \in Runs : Handled(q)
  <2>1. task'[u] = NewTask(task[t].classic)
    BY <1>2 DEF Retry, TypeOK, DurableType
  <2>2. task'[u].state # "ABSENT"
    BY <2>1 DEF NewTask, NoTask
  <2> QED BY <2>2, <1>2, SpawnHandled DEF Retry
<1>3. ASSUME NEW t \in Tasks, Cancel(t) PROVE \A q \in Runs : Handled(q)
  BY <1>3 DEF Cancel, Choosing, Handled
<1>4. ASSUME NEW t \in Tasks,
             Pause(t) \/ Resume(t) \/ ApprovePlan(t) \/ RevisePlan(t) \/ AddSiteToPlan(t)
      PROVE  \A q \in Runs : Handled(q)
  BY <1>4 DEF Pause, Resume, ApprovePlan, RevisePlan, AddSiteToPlan, Handled
<1> QED BY <1>1, <1>2, <1>3, <1>4 DEF UserStep

\* Every step keeps the runs and the records together.
LEMMA NextKept ==
    ASSUME IInv, Known, [Next]_vars
    PROVE  \A q \in Runs : Kept(q)
<1>1. ASSUME NEW r \in Runs, RunStep(r) PROVE \A q \in Runs : Kept(q)
  BY <1>1, RunStepKept
<1>2. CASE UserStep
  BY <1>2, UserStepHandled, HandledKept DEF Known
<1>3. ASSUME NEW t \in Tasks, ResumeStep(t) PROVE \A q \in Runs : Kept(q)
  <2>1. CASE UNCHANGED run
    BY <2>1, Untouched
  <2>2. ASSUME NEW r \in Runs, ResumeStart(t, r), Spawn(t, r)
        PROVE  \A q \in Runs : Kept(q)
    <3>1. task'[t].state # "ABSENT"
      BY <2>2 DEF ResumeStart, durable, IInv, ResumingExists
    <3> QED BY <3>1, <2>2, SpawnHandled, HandledKept DEF Spawn, Known
  <2> QED BY <2>1, <2>2, <1>3 DEF ResumeStep, ResumeRefused, ResumeRead, ResumeStart
<1>4. CASE StartupStep
  BY <1>4, Untouched DEF StartupStep, ListInterrupted, Recover
<1>5. CASE Suspend
  <2>1. \A q \in Runs : Handled(q)
    BY <1>5 DEF Suspend, Handled
  <2> QED BY <2>1, HandledKept
<1>6. CASE Crash
  <2>1. \A q \in Runs : Handled(q)
    BY <1>6 DEF Crash, Handled
  <2> QED BY <2>1, HandledKept
<1>7. CASE UNCHANGED vars
  BY <1>7, Untouched DEF vars
<1> QED BY <1>1, <1>2, <1>3, <1>4, <1>5, <1>6, <1>7 DEF IInv, Next

LEMMA ResumingKept ==
    ASSUME IInv, [Next]_vars, \A v \in Tasks : Grows(v) \/ Appears(v)
    PROVE  ResumingExists'
<1> SUFFICES ASSUME NEW t \in Tasks, resuming'[t] # "no"
             PROVE  task'[t].state # "ABSENT"
  BY DEF ResumingExists
<1>1. CASE task[t].state # "ABSENT"
  BY <1>1 DEF Grows, Grown, Appears
<1>2. CASE task[t].state = "ABSENT"
  <2>1. resuming[t] = "no"
    BY <1>2 DEF IInv, ResumingExists
  <2>2. resuming \in [Tasks -> {"no", "asked", "read"}]
    BY DEF IInv, TypeOK, WorkerType
  <2>3. ASSUME NEW r \in Runs, RunStep(r) PROVE resuming' = resuming
    BY <2>3 DEF RunStep, worker, Begin, Resolve, Throw, Propose, AwaitApproval, Finish, Bind,
            Loop, GenerateRejected, Backoff, GenerateText, GenerateCalls, Call, Refuse,
            ExecuteTool, RequestFile, SettleFile, ToolReturns, TaintLost, Judge
  <2>4. CASE UserStep
    BY <2>1, <2>2, <2>4, <1>2
       DEF UserStep, Create, Retry, Pause, Cancel, Resume, ApprovePlan, RevisePlan,
           AddSiteToPlan, worker, Live
  <2>5. ASSUME NEW u \in Tasks, ResumeStep(u) PROVE resuming'[t] = "no"
    BY <2>1, <2>2, <2>5 DEF ResumeStep, ResumeRefused, ResumeRead, ResumeStart
  <2>6. CASE StartupStep \/ Suspend \/ Crash \/ UNCHANGED vars
    BY <2>1, <2>6 DEF StartupStep, ListInterrupted, Recover, Suspend, Crash, vars, worker
  <2> QED BY <2>1, <2>3, <2>4, <2>5, <2>6 DEF Next
<1> QED BY <1>1, <1>2

-----------------------------------------------------------------------------
(* The theorems.                                                           *)

LEMMA InvInit == Init => IInv
<1> SUFFICES ASSUME Init PROVE IInv
  OBVIOUS
<1>1. TypeOK
  BY TypeInit
<1>2. \A r \in Runs : run[r].pc = "unused" /\ run[r].seen = {}
  BY DEF Init, Fresh
<1>3. CallsLeft /\ RunsFit
  BY <1>2 DEF CallsLeft, Dispatched, RunsFit, RunFits, Acting, Suspended
<1>4. ResumingExists /\ OutcomeTruthful
  BY DEF Init, ResumingExists, OutcomeTruthful
<1> QED BY <1>1, <1>3, <1>4 DEF IInv

LEMMA InvNext == IInv /\ [Next]_vars => IInv'
<1> SUFFICES ASSUME IInv, [Next]_vars PROVE IInv'
  OBVIOUS
<1>1. TypeOK'
  BY TypeNext DEF IInv
<1>2. \A v \in Tasks : Grows(v) \/ Appears(v)
  BY NextGrows DEF IInv
<1>3. \A q \in Runs : Kept(q)
  BY <1>1, <1>2, NextKept DEF IInv, Known
<1>4. CallsLeft' /\ RunsFit'
  BY <1>3 DEF Kept, CallsLeft, RunsFit
<1>5. OutcomeTruthful'
  BY <1>2 DEF OutcomeTruthful, Grows, Appears
<1>6. ResumingExists'
  BY <1>2, ResumingKept
<1> QED BY <1>1, <1>4, <1>5, <1>6 DEF IInv

\* The inductive invariant holds in every reachable state.
THEOREM Invariance == Spec => []IInv
<1>1. Init => IInv
  BY InvInit
<1>2. IInv /\ [Next]_vars => IInv'
  BY InvNext
<1> QED BY <1>1, <1>2, PTL DEF Spec

\* Every variable keeps its type: the records of the store, the runs, and the
\* handles, controllers and startup state of the worker; no run counts off a
\* tool call it does not have.
THEOREM TypeCorrect == Spec => []TypeOK
<1>1. IInv => TypeOK
  BY DEF IInv
<1> QED BY <1>1, Invariance, PTL

\* What a conversation was made from is in the taint it is authorised with and
\* on the stored record, through every pause, resume, cancel and restart.
THEOREM TaintIsRecorded == Spec => []TaintRecorded
<1>1. IInv => TaintRecorded
  BY DEF IInv, RunsFit, RunFits, TaintRecorded
<1> QED BY <1>1, Invariance, PTL

\* The lifecycle observer is only told what the store holds.
THEOREM OutcomeIsTruthful == Spec => []OutcomeTruthful
<1>1. IInv => OutcomeTruthful
  BY DEF IInv
<1> QED BY <1>1, Invariance, PTL

\* A task that plans first acts only once a plan was approved.
THEOREM PlanIsGated == Spec => []PlanGate
<1>1. IInv => PlanGate
  BY DEF IInv, RunsFit, RunFits, PlanGate, Acting, Suspended
<1> QED BY <1>1, Invariance, PTL

\* A finished task keeps its outcome, whatever arrives late.
THEOREM TerminalStaysFinal == Spec => TerminalIsFinal
<1>1. IInv /\ [Next]_vars =>
        [\A t \in Tasks : isTerminal(task[t].state) => task'[t].state = task[t].state]_vars
  <2> SUFFICES ASSUME IInv, [Next]_vars, NEW t \in Tasks, isTerminal(task[t].state)
               PROVE  task'[t].state = task[t].state
    OBVIOUS
  <2>1. Grows(t) \/ Appears(t)
    BY NextGrows DEF IInv
  <2> QED BY <2>1 DEF Grows, Grown, Appears, isTerminal, Terminal
<1> QED BY <1>1, Invariance, PTL DEF Spec, TerminalIsFinal

\* An approved plan is never taken back or replaced by an older version.
THEOREM ApprovalIsKept == Spec => ApprovalKept
<1>1. IInv /\ [Next]_vars =>
        [\A t \in Tasks : task[t].state # "ABSENT" =>
                             task[t].approval <= task'[t].approval]_vars
  <2> SUFFICES ASSUME IInv, [Next]_vars, NEW t \in Tasks, task[t].state # "ABSENT"
               PROVE  task[t].approval <= task'[t].approval
    OBVIOUS
  <2>1. Grows(t) \/ Appears(t)
    BY NextGrows DEF IInv
  <2> QED BY <2>1 DEF Grows, Grown, Appears
<1> QED BY <1>1, Invariance, PTL DEF Spec, ApprovalKept

-----------------------------------------------------------------------------
(* One run per task.                                                       *)

\* Past the handle check at the top of execute.
Begun == InTry \cup {"finishing"}

\* A run that goes on and was not told to stop.
Going(r) == run[r].pc \in Suspended /\ ctl[r] = "live"

\* A run listens to its own controller, which lives while it is registered; the
\* slot of a task names a run of that task that goes on, and while a run waits
\* for its first read nobody else is registered.
Registered ==
    /\ \A r \in Runs : run[r].sig = r
    /\ \A r \in Runs : run[r].pc = "unused" => ctl[r] = "live"
    /\ \A t \in Tasks : handle[t] # NoRun => run[handle[t]].task = t /\ Going(handle[t])
    /\ \A r \in Runs : run[r].pc = "spawned" => handle[run[r].task] \in {r, NoRun}

\* Startup has yet to look at task t, or to park it.
Excused(t) == phase = "starting" \/ (phase = "recovering" /\ t \in toRecover)

\* The states a task is not in at an await of the run that works on it, because
\* the write that would take it on from there would be refused.
Placed(p, s) ==
    /\ p \in {"proposing", "proposed"} => s \notin {"WAITING_FOR_PERMISSION", "RECOVERING"}
    /\ p = "generating" => s \notin {"WAITING_FOR_TOOL", "WAITING_FOR_PERMISSION", "RECOVERING"}

\* Before its first write and after its last a run claims no work.
Idle(p, s) == p \in {"spawned", "resolving", "finishing"} => s \notin Working

\* A run that was not told to stop is the one registered for its task, unless
\* the task ended before it began; it is the only one that has begun; its task
\* has not ended and has read nothing that it does not know of.
LiveFits(r, t) ==
    /\ handle[t] = r \/ (run[r].pc = "spawned" /\ isTerminal(task[t].state))
    /\ run[r].pc \in Begun =>
          \A q \in Runs : run[q].pc \in Begun /\ run[q].task = t => q = r
    /\ run[r].pc \in InTry => ~isTerminal(task[t].state) /\ task[t].taint \subseteq run[r].ctx
    /\ Placed(run[r].pc, task[t].state)
    /\ Idle(run[r].pc, task[t].state) \/ Excused(t)

\* The task of a run that was told to stop has ended.
Lone(r) ==
    run[r].pc \in Suspended =>
        /\ ctl[r] # "live" => isTerminal(task[run[r].task].state)
        /\ ctl[r] = "live" => LiveFits(r, run[r].task)

\* A task that claims work has a run, or startup will park it.
Staffed(t) ==
    task[t].state \in Working /\ ~Excused(t) =>
        \E r \in Runs : run[r].pc \in Suspended /\ run[r].task = t

Alone == Undisturbed => (\A r \in Runs : Lone(r)) /\ (\A t \in Tasks : Staffed(t))

SInv == Registered /\ Alone

\* What is known of a step before it is shown to keep SInv.
Step == /\ IInv /\ IInv' /\ SInv
        /\ \A v \in Tasks : Grows(v) \/ Appears(v)

-----------------------------------------------------------------------------
(* Where the store writes leave a task.                                    *)

\* A run is stopped from every state in which its task claims work.
LEMMA StoppingLands ==
    ASSUME NEW rec \in TaskRecord, NEW s \in Stopping
    PROVE  Completed(rec, s).state \notin Working
BY DEF Completed, completeApplies, canTransition, isTerminal, TaskRecord, TaskStates, Live,
       Terminal, Stopping, Working

LEMMA CompletedLands ==
    ASSUME NEW rec \in TaskRecord, Placed("generating", rec.state)
    PROVE  Completed(rec, "COMPLETED").state \notin Working
BY DEF Completed, completeApplies, canTransition, isTerminal, TaskRecord, TaskStates, Live,
       Terminal, Stopping, Working, Placed

LEMMA FailedLands ==
    ASSUME NEW rec \in TaskRecord
    PROVE  Failed(rec).state \notin Working
BY DEF Failed, isTerminal, TaskRecord, Terminal, Working

\* A refused move leaves the state; no move made by a run ends a task.
LEMMA TransitionLands ==
    ASSUME NEW rec \in TaskRecord, NEW s \in Live
    PROVE  /\ Transitioned(rec, s).state \in {s, rec.state}
           /\ Transitioned(rec, s).taint = rec.taint
           /\ ~isTerminal(rec.state) => ~isTerminal(Transitioned(rec, s).state)
           /\ canTransition(rec.state, s) => Transitioned(rec, s).state = s
BY DEF Transitioned, isTerminal, TaskRecord, Live, Terminal

LEMMA StoppedShortStops == \A r \in Runs : StoppedShort(r) \in Stopping
BY DEF StoppedShort, Stopping

-----------------------------------------------------------------------------
(* A step of a run inside execute's try block.                             *)

\* It moves no other run, no other task and nothing of the worker.
Inner(r) ==
    /\ run[r].pc \in InTry /\ run'[r].pc \in Begun
    /\ run'[r].task = run[r].task /\ run'[r].sig = run[r].sig
    /\ \A q \in Runs \ {r} : run'[q] = run[q]
    /\ \A u \in Tasks \ {run[r].task} : task'[u] = task[u]
    /\ UNCHANGED worker

\* Where it leaves the task, if nobody told the run to stop.
Landed(r, t) ==
    /\ run'[r].pc \in InTry =>
          /\ ~isTerminal(task[t].state) => ~isTerminal(task'[t].state)
          /\ task[t].taint \subseteq run[r].ctx => task'[t].taint \subseteq run'[r].ctx
    /\ Placed(run'[r].pc, task'[t].state)
    /\ Idle(run[r].pc, task[t].state) => Idle(run'[r].pc, task'[t].state)

\* Goto, and a record of r that is written back.
LEMMA InnerGoto ==
    ASSUME IInv, NEW r \in Runs, NEW p \in Begun, run[r].pc \in InTry, Goto(r, p)
    PROVE  /\ run'[r].pc = p /\ run'[r].task = run[r].task /\ run'[r].sig = run[r].sig
           /\ run'[r].ctx = run[r].ctx
           /\ \A q \in Runs \ {r} : run'[q] = run[q]
BY DEF Goto, IInv, TypeOK, RunType, RunRecord

\* A store write of the run, which then is over.
LEMMA OutLands ==
    ASSUME IInv, NEW r \in Runs, run[r].pc \in InTry, UNCHANGED worker,
           \/ FailTask(r)
           \/ \E s \in Stopping : Complete(r, s)
           \/ Complete(r, "COMPLETED") /\ Placed("generating", task[run[r].task].state)
    PROVE  Inner(r) /\ Landed(r, run[r].task)
<1> DEFINE t == run[r].task
<1>0. t \in Tasks /\ task[t] \in TaskRecord
  BY RunTask DEF IInv, TypeOK, DurableType
<1>1. /\ task'[t].state \notin Working
      /\ \A u \in Tasks \ {t} : task'[u] = task[u]
      /\ Goto(r, "finishing")
  <2>1. CASE FailTask(r)
    BY <2>1, <1>0, FailedLands DEF FailTask, IInv, TypeOK, DurableType
  <2>2. ASSUME NEW s \in Stopping, Complete(r, s)
        PROVE  /\ task'[t].state \notin Working
               /\ \A u \in Tasks \ {t} : task'[u] = task[u]
               /\ Goto(r, "finishing")
    BY <2>2, <1>0, StoppingLands DEF Complete, IInv, TypeOK, DurableType
  <2>3. CASE Complete(r, "COMPLETED") /\ Placed("generating", task[t].state)
    BY <2>3, <1>0, CompletedLands DEF Complete, IInv, TypeOK, DurableType
  <2> QED BY <2>1, <2>2, <2>3
<1>2. /\ run'[r].pc = "finishing" /\ run'[r].task = t /\ run'[r].sig = run[r].sig
      /\ \A q \in Runs \ {r} : run'[q] = run[q]
  BY <1>1, InnerGoto DEF Begun
<1>3. Inner(r)
  BY <1>1, <1>2 DEF Inner, Begun
<1>4. Landed(r, t)
  BY <1>1, <1>2 DEF Landed, InTry, Placed, Idle
<1> QED BY <1>3, <1>4

\* A move made by the run, after which it goes on at p.
LEMMA MoveLands ==
    ASSUME IInv, NEW r \in Runs, run[r].pc \in InTry, UNCHANGED worker,
           NEW s \in Live, Transition(r, s), NEW p \in Begun, Goto(r, p),
           \A b \in {s, task[run[r].task].state} :
               (b # s => ~canTransition(b, s)) =>
                   /\ Placed(p, b)
                   /\ Idle(run[r].pc, task[run[r].task].state) => Idle(p, b)
    PROVE  Inner(r) /\ Landed(r, run[r].task)
<1> DEFINE t == run[r].task
<1>0. t \in Tasks /\ task[t] \in TaskRecord
  BY RunTask DEF IInv, TypeOK, DurableType
<1>1. /\ task'[t] = Transitioned(task[t], s)
      /\ \A u \in Tasks \ {t} : task'[u] = task[u]
  BY <1>0 DEF Transition, IInv, TypeOK, DurableType
<1>2. /\ run'[r].pc = p /\ run'[r].task = t /\ run'[r].sig = run[r].sig
      /\ run'[r].ctx = run[r].ctx
      /\ \A q \in Runs \ {r} : run'[q] = run[q]
  BY InnerGoto
<1>3. Inner(r)
  BY <1>1, <1>2 DEF Inner
<1>4. /\ task'[t].state \in {s, task[t].state}
      /\ task'[t].state # s => ~canTransition(task'[t].state, s)
      /\ task'[t].taint = task[t].taint
      /\ ~isTerminal(task[t].state) => ~isTerminal(task'[t].state)
  BY <1>0, <1>1, TransitionLands
<1>5. /\ Placed(p, task'[t].state)
      /\ Idle(run[r].pc, task[t].state) => Idle(p, task'[t].state)
  BY <1>4
<1> QED BY <1>2, <1>3, <1>4, <1>5 DEF Landed

\* A step that leaves the state and the taint of the task.
LEMMA StayLands ==
    ASSUME IInv, NEW r \in Runs, run[r].pc \in InTry, UNCHANGED worker,
           run'[r].pc \in InTry, run'[r].task = run[r].task, run'[r].sig = run[r].sig,
           run'[r].ctx = run[r].ctx,
           \A q \in Runs \ {r} : run'[q] = run[q],
           task'[run[r].task].state = task[run[r].task].state,
           task'[run[r].task].taint = task[run[r].task].taint,
           \A u \in Tasks \ {run[r].task} : task'[u] = task[u],
           Placed(run'[r].pc, task[run[r].task].state),
           run'[r].pc # "resolving"
    PROVE  Inner(r) /\ Landed(r, run[r].task)
BY DEF Inner, Landed, Begun, InTry, Idle

\* Whatever a run does past its beginning, until its end.
LEMMA RunStepInner ==
    ASSUME IInv, NEW r \in Runs, RunStep(r), ~Begin(r), ~Finish(r)
    PROVE  Inner(r)
<1> DEFINE t == run[r].task
<1>0. /\ t \in Tasks /\ run[r] \in RunRecord
      /\ run \in [Runs -> RunRecord] /\ task \in [Tasks -> TaskRecord]
  BY RunTask DEF IInv, TypeOK, RunType, DurableType
<1>g. ASSUME NEW p \in Begun, Goto(r, p), run[r].pc \in InTry
      PROVE  /\ run'[r].pc \in Begun /\ run'[r].task = t /\ run'[r].sig = run[r].sig
             /\ \A q \in Runs \ {r} : run'[q] = run[q]
  BY <1>g, InnerGoto
<1>o. ASSUME run[r].pc \in InTry, UNCHANGED worker,
             \/ Stop(r) \/ FailTask(r) \/ \E s \in Terminal : Complete(r, s)
      PROVE  Inner(r)
  <2>1. /\ Goto(r, "finishing")
        /\ \A u \in Tasks \ {t} : task'[u] = task[u]
    BY <1>0, <1>o DEF Stop, FailTask, Complete, durable
  <2>2. /\ run'[r].pc \in Begun /\ run'[r].task = t /\ run'[r].sig = run[r].sig
        /\ \A q \in Runs \ {r} : run'[q] = run[q]
    BY <2>1, <1>o, <1>g DEF Begun
  <2> QED BY <2>1, <2>2, <1>o DEF Inner
<1>m. ASSUME run[r].pc \in InTry, UNCHANGED worker, NEW p \in Begun, Goto(r, p),
             \/ UNCHANGED task
             \/ \E x : task' = [task EXCEPT ![t] = x]
      PROVE  Inner(r)
  <2>1. \A u \in Tasks \ {t} : task'[u] = task[u]
    BY <1>0, <1>m
  <2>2. /\ run'[r].pc \in Begun /\ run'[r].task = t /\ run'[r].sig = run[r].sig
        /\ \A q \in Runs \ {r} : run'[q] = run[q]
    BY <1>m, <1>g
  <2> QED BY <2>1, <2>2, <1>m DEF Inner
<1>x. ASSUME run[r].pc \in InTry, UNCHANGED worker, NEW x, run' = [run EXCEPT ![r] = x],
             x.pc \in Begun, x.task = t, x.sig = run[r].sig,
             \/ UNCHANGED task
             \/ \E y : task' = [task EXCEPT ![t] = y]
      PROVE  Inner(r)
  <2>1. \A u \in Tasks \ {t} : task'[u] = task[u]
    BY <1>0, <1>x
  <2>2. run'[r] = x /\ \A q \in Runs \ {r} : run'[q] = run[q]
    BY <1>0, <1>x
  <2> QED BY <2>1, <2>2, <1>x DEF Inner
<1>s. StoppedShort(r) \in Terminal
  BY StoppedShortType
<1>a. "BLOCKED" \in Terminal /\ "PARTIAL" \in Terminal
  BY DEF Terminal
<1>p. \A p \in Suspended \ {"spawned"} : p \in Begun
  BY DEF Begun, InTry
<1> USE DEF Suspended, InTry
<1>2. CASE Resolve(r)
  BY <1>2, <1>m, <1>p DEF Resolve, Transition
<1>3. CASE Throw(r)
  BY <1>3, <1>o DEF Throw
<1>4. CASE Propose(r)
  <2>1. run[r].pc \in InTry /\ UNCHANGED worker
    BY <1>4 DEF Propose
  <2>2. CASE Goto(r, "finishing") /\ UNCHANGED task
    BY <2>1, <2>2, <1>m, <1>p
  <2>3. CASE Goto(r, "proposed") /\ \E x : task' = [task EXCEPT ![t] = x]
    BY <2>1, <2>3, <1>m, <1>p
  <2> QED BY <2>2, <2>3, <1>4 DEF Propose
<1>5. CASE AwaitApproval(r)
  BY <1>5, <1>m, <1>p DEF AwaitApproval, Transition
<1>7. CASE Bind(r)
  BY <1>7, <1>a, <1>o, <1>m, <1>p DEF Bind, Transition
<1>8. CASE Loop(r)
  BY <1>8, <1>s, <1>o, <1>m, <1>p DEF Loop, Transition
<1>9. CASE GenerateRejected(r)
  <2> DEFINE x == [run[r] EXCEPT !.pc = "backoff", !.retries = @ + 1]
  <2>1. run[r].pc \in InTry /\ UNCHANGED worker
    BY <1>9 DEF GenerateRejected
  <2>2. CASE Stop(r) \/ Complete(r, StoppedShort(r))
    BY <2>1, <2>2, <1>s, <1>o
  <2>3. CASE run' = [run EXCEPT ![r] = x] /\ Transition(r, "RECOVERING")
    <3>1. x.pc = "backoff" /\ x.task = t /\ x.sig = run[r].sig
      BY <1>0 DEF RunRecord
    <3> HIDE DEF x
    <3> QED BY <3>1, <2>1, <2>3, <1>x, <1>p DEF Transition
  <2> QED BY <2>2, <2>3, <1>9 DEF GenerateRejected
<1>10. CASE Backoff(r)
  BY <1>10, <1>o, <1>m, <1>p DEF Backoff, durable
<1>11. CASE GenerateText(r)
  BY <1>11, <1>m, <1>p DEF GenerateText
<1>12. ASSUME NEW n \in 1..MaxCalls, GenerateCalls(r, n) PROVE Inner(r)
  <2> DEFINE x == [run[r] EXCEPT !.pc = "calling", !.requests = @ + 1, !.calls = n]
  <2>1. /\ run[r].pc \in InTry /\ UNCHANGED worker /\ run' = [run EXCEPT ![r] = x]
        /\ \E y : task' = [task EXCEPT ![t] = y]
    BY <1>12 DEF GenerateCalls
  <2>2. x.pc = "calling" /\ x.task = t /\ x.sig = run[r].sig
    BY <1>0 DEF RunRecord
  <2> HIDE DEF x
  <2> QED BY <2>1, <2>2, <1>x, <1>p
<1>13. CASE Call(r)
  <2> DEFINE x == [run[r] EXCEPT !.calls = @ - 1, !.trouble = TRUE]
  <2>1. run[r].pc = "calling" /\ UNCHANGED worker
    BY <1>13 DEF Call
  <2>2. CASE Stop(r)
    BY <2>1, <2>2, <1>o
  <2>3. CASE Goto(r, "looping") /\ \E y : task' = [task EXCEPT ![t] = y]
    BY <2>1, <2>3, <1>m, <1>p
  <2>4. CASE Goto(r, "dispatching") /\ Transition(r, "WAITING_FOR_TOOL")
    BY <2>1, <2>4, <1>m, <1>p DEF Transition
  <2>5. CASE run' = [run EXCEPT ![r] = x] /\ UNCHANGED durable
    <3>1. x.pc = "calling" /\ x.task = t /\ x.sig = run[r].sig
      BY <2>1, <1>0 DEF RunRecord
    <3> HIDE DEF x
    <3> QED BY <3>1, <2>1, <2>5, <1>x, <1>p DEF durable
  <2> QED BY <2>2, <2>3, <2>4, <2>5, <1>13 DEF Call
<1>14. CASE Refuse(r)
  <2> DEFINE x == [run[r] EXCEPT !.pc = "judging", !.trouble = TRUE]
  <2>1. /\ run[r].pc \in InTry /\ UNCHANGED worker /\ run' = [run EXCEPT ![r] = x]
        /\ UNCHANGED task
    BY <1>14 DEF Refuse, durable
  <2>2. x.pc = "judging" /\ x.task = t /\ x.sig = run[r].sig
    BY <1>0 DEF RunRecord
  <2> HIDE DEF x
  <2> QED BY <2>1, <2>2, <1>x, <1>p
<1>15. CASE ExecuteTool(r)
  BY <1>15, <1>m, <1>p DEF ExecuteTool, durable
<1>16. CASE RequestFile(r) \/ SettleFile(r)
  BY <1>16, <1>m, <1>p DEF RequestFile, SettleFile, Transition
<1>18. ASSUME NEW read \in SUBSET Sources, ToolReturns(r, read) PROVE Inner(r)
  <2>1. /\ run[r].pc \in InTry /\ UNCHANGED worker
        /\ \E y : task' = [task EXCEPT ![t] = y]
    <3>1. task' = [task EXCEPT ![t] = [task[t] EXCEPT !.taint = task[t].taint \cup read]]
      BY <1>18, <1>0 DEF ToolReturns
    <3> QED BY <3>1, <1>18 DEF ToolReturns
  <2>2. PICK ok \in BOOLEAN :
          run' = [run EXCEPT ![r] =
                    [run[r] EXCEPT !.pc = "judging",
                              !.ctx = IF read = {} THEN @ ELSE task[t].taint \cup read,
                              !.seen = @ \cup read,
                              !.acted = IF ok THEN TRUE ELSE @,
                              !.trouble = IF ok THEN @ ELSE TRUE]]
    BY <1>18 DEF ToolReturns
  <2> DEFINE c == IF read = {} THEN run[r].ctx ELSE task[t].taint \cup read
             a == IF ok THEN TRUE ELSE run[r].acted
             b == IF ok THEN run[r].trouble ELSE TRUE
             x == [run[r] EXCEPT !.pc = "judging", !.ctx = c,
                              !.seen = run[r].seen \cup read, !.acted = a, !.trouble = b]
  <2>3. run' = [run EXCEPT ![r] = x]
    BY <2>2
  <2>4. x.pc = "judging" /\ x.task = t /\ x.sig = run[r].sig
    <3> HIDE DEF a, b, c
    <3> QED BY <1>0 DEF RunRecord
  <2> HIDE DEF x
  <2> QED BY <2>1, <2>3, <2>4, <1>x, <1>p
<1>19. CASE TaintLost(r)
  BY <1>19, <1>a, <1>o DEF TaintLost
<1>20. CASE Judge(r)
  <2> DEFINE x == [run[r] EXCEPT !.pc = "calling", !.calls = @ - 1]
  <2>1. run[r].pc \in InTry /\ UNCHANGED worker
    BY <1>20 DEF Judge
  <2>2. CASE Complete(r, StoppedShort(r))
    BY <2>1, <2>2, <1>s, <1>o
  <2>3. CASE run' = [run EXCEPT ![r] = x] /\ UNCHANGED durable
    <3>1. x.pc = "calling" /\ x.task = t /\ x.sig = run[r].sig
      BY <1>0 DEF RunRecord
    <3> HIDE DEF x
    <3> QED BY <3>1, <2>1, <2>3, <1>x, <1>p DEF durable
  <2> QED BY <2>2, <2>3, <1>20 DEF Judge
<1> QED BY <1>2, <1>3, <1>4, <1>5, <1>7, <1>8, <1>9, <1>10, <1>11, <1>12,
           <1>13, <1>14, <1>15, <1>16, <1>18, <1>19, <1>20 DEF RunStep

\* If nobody told it to stop, the run leaves its task where it will want it.
LEMMA RunStepLands ==
    ASSUME IInv, NEW r \in Runs, RunStep(r), ~Begin(r), ~Finish(r), ~aborted(r),
           Placed(run[r].pc, task[run[r].task].state)
    PROVE  Landed(r, run[r].task)
<1> DEFINE t == run[r].task
<1>0. /\ t \in Tasks /\ run[r] \in RunRecord /\ task[t] \in TaskRecord
      /\ run \in [Runs -> RunRecord] /\ task \in [Tasks -> TaskRecord]
  BY RunTask DEF IInv, TypeOK, RunType, DurableType
<1>w. UNCHANGED worker /\ run[r].pc \in InTry
  BY RunStepInner DEF Inner
<1>o. ASSUME \/ FailTask(r)
             \/ \E s \in Stopping : Complete(r, s)
      PROVE  Landed(r, t)
  BY <1>o, <1>w, OutLands
<1>m. ASSUME NEW s \in Live, Transition(r, s), NEW p \in Begun, Goto(r, p),
             \A b \in {s, task[t].state} :
               (b # s => ~canTransition(b, s)) =>
                   Placed(p, b) /\ (Idle(run[r].pc, task[t].state) => Idle(p, b))
      PROVE  Landed(r, t)
  BY <1>m, <1>w, MoveLands
<1>s. StoppedShort(r) \in Stopping
  BY StoppedShortStops
<1>a. "BLOCKED" \in Stopping /\ "PARTIAL" \in Stopping
  BY DEF Stopping
<1>p. \A p \in Suspended \ {"spawned"} : p \in Begun
  BY DEF Begun, InTry
<1>i. Inner(r)
  BY RunStepInner
\* A step that writes nothing of the record that the next one depends on.
<1>y. ASSUME task'[t].state = task[t].state, task'[t].taint = task[t].taint,
             run'[r].pc \in InTry \ {"resolving"}, run'[r].ctx = run[r].ctx,
             Placed(run'[r].pc, task[t].state)
      PROVE  Landed(r, t)
  BY <1>y, <1>w, <1>i, StayLands DEF Inner
<1>t. ASSUME NEW p \in Begun, Goto(r, p)
      PROVE  run'[r].pc = p /\ run'[r].ctx = run[r].ctx
  BY <1>t, <1>w, InnerGoto
<1>c. \A x \in RunRecord : \A n : [x EXCEPT !.pc = n].ctx = x.ctx
  BY DEF RunRecord
<1> USE DEF Suspended, InTry
<1>2. CASE Resolve(r)
  <2> DEFINE s == task[t].state
  <2>1. Transition(r, "PLANNING") /\ "PLANNING" \in Live /\ run[r].pc = "resolving"
    BY <1>2 DEF Resolve, Live
  <2>2. CASE ~transitionAllowed(task[t], "PLANNING")
    <3>1. Goto(r, "finishing")
      BY <2>2, <1>2 DEF Resolve
    <3>2. Idle("resolving", s) => s \notin Working
      BY DEF Idle
    <3>3. task'[t] = task[t]
      BY <2>1, <2>2, <1>0 DEF Transition, Transitioned, transitionAllowed
    <3>4. run'[r].pc = "finishing"
      BY <3>1, <1>t, <1>p
    <3> QED BY <3>2, <3>3, <3>4, <2>1 DEF Landed, Placed, Idle
  <2>3. CASE transitionAllowed(task[t], "PLANNING")
    <3>1. PICK p \in {"proposing", "binding"} : Goto(r, p)
      <4>1. task[t].classic \in BOOLEAN /\ run[r].planned \in BOOLEAN
        BY <1>0 DEF TaskRecord, RunRecord
      <4>2. CASE task[t].classic /\ ~run[r].planned
        BY <4>2, <2>3, <1>2 DEF Resolve
      <4>3. CASE ~(task[t].classic /\ ~run[r].planned)
        BY <4>1, <4>3, <2>3, <1>2 DEF Resolve
      <4> QED BY <4>2, <4>3
    <3>2. \A b \in {"PLANNING", s} : (b # "PLANNING" => ~canTransition(b, "PLANNING")) =>
              b = "PLANNING"
      BY <2>3 DEF transitionAllowed
    <3>3. Placed(p, "PLANNING") /\ Idle(p, "PLANNING")
      BY DEF Placed, Idle
    <3> QED BY <2>1, <3>1, <3>2, <3>3, <1>m, <1>p
  <2> QED BY <2>2, <2>3
<1>3. CASE Throw(r)
  BY <1>3, <1>o DEF Throw
<1>4. CASE Propose(r)
  <2>1. /\ task' = [task EXCEPT ![t].proposed = TRUE]
        /\ Goto(r, "proposed") /\ run[r].pc = "proposing"
    BY <1>4 DEF Propose
  <2>2. task'[t].state = task[t].state /\ task'[t].taint = task[t].taint
    BY <2>1, <1>0 DEF TaskRecord
  <2>3. run'[r].pc = "proposed" /\ run'[r].ctx = run[r].ctx
    BY <2>1, <1>p, <1>t
  <2> QED BY <2>1, <2>2, <2>3, <1>y DEF Placed
<1>5. CASE AwaitApproval(r)
  <2>1. /\ Transition(r, "WAITING_FOR_USER") /\ Goto(r, "finishing")
        /\ run[r].pc = "proposed"
    BY <1>5 DEF AwaitApproval
  <2>2. \A b \in {"WAITING_FOR_USER", task[t].state} :
            (b # "WAITING_FOR_USER" => ~canTransition(b, "WAITING_FOR_USER")) => b \notin Working
    BY <2>1 DEF Placed, Working, canTransition
  <2>3. \A b : b \notin Working => Placed("finishing", b) /\ Idle("finishing", b)
    BY DEF Placed, Idle
  <2>4. "WAITING_FOR_USER" \in Live
    BY DEF Live
  <2> QED BY <2>1, <2>2, <2>3, <2>4, <1>m, <1>p
\* Moves after which the run may find its task in any state.
<1>n. ASSUME NEW s \in Live, Transition(r, s), NEW p \in Begun, Goto(r, p),
             p \notin {"resolving", "finishing", "proposing", "proposed", "generating"}
      PROVE  Landed(r, t)
  <2>1. \A b : Placed(p, b) /\ Idle(p, b)
    BY <1>n DEF Placed, Idle, Begun
  <2> QED BY <2>1, <1>n, <1>m
<1>7. CASE Bind(r)
  <2>1. CASE Complete(r, "BLOCKED") \/ Complete(r, "PARTIAL")
    BY <2>1, <1>a, <1>o
  <2>2. CASE Transition(r, "PLANNING") /\ Goto(r, "looping")
    BY <2>2, <1>n, <1>p DEF Live
  <2> QED BY <2>1, <2>2, <1>7 DEF Bind
<1>8. CASE Loop(r)
  <2>1. CASE Complete(r, StoppedShort(r))
    BY <2>1, <1>s, <1>o
  <2>2. CASE Transition(r, "RUNNING") /\ Goto(r, "generating") /\ run[r].pc = "looping"
    <3>1. \A b \in {"RUNNING", task[t].state} :
              (b # "RUNNING" => ~canTransition(b, "RUNNING")) =>
                  Placed("generating", b) /\ Idle("generating", b)
      BY DEF Placed, Idle, canTransition
    <3> QED BY <2>2, <3>1, <1>m, <1>p DEF Live
  <2> QED BY <2>1, <2>2, <1>8 DEF Loop
\* Steps that write back a record of r with another await.
<1>x. ASSUME NEW x, run' = [run EXCEPT ![r] = x], x.pc \in InTry, x.ctx = run[r].ctx,
             x.pc \notin {"resolving", "proposing", "proposed", "generating"},
             \/ UNCHANGED task
             \/ \E n : task' = [task EXCEPT ![t] = UsageStored(task[t], r, n)]
      PROVE  Landed(r, t)
  <2>1. run'[r] = x
    BY <1>x, <1>0
  <2>2. task'[t].state = task[t].state /\ task'[t].taint = task[t].taint
    BY <1>x, <1>0 DEF UsageStored, TaskRecord
  <2>3. Placed(x.pc, task[t].state)
    BY <1>x DEF Placed
  <2> QED BY <2>1, <2>2, <2>3, <1>x, <1>y
<1>9. CASE GenerateRejected(r)
  <2> DEFINE x == [run[r] EXCEPT !.pc = "backoff", !.retries = @ + 1]
  <2>1. CASE Complete(r, StoppedShort(r))
    BY <2>1, <1>s, <1>o
  <2>2. CASE run' = [run EXCEPT ![r] = x] /\ Transition(r, "RECOVERING")
    <3>1. run'[r].pc = "backoff" /\ run'[r].ctx = run[r].ctx
      BY <2>2, <1>0 DEF RunRecord
    <3>2. task'[t] = Transitioned(task[t], "RECOVERING")
      BY <2>2, <1>0 DEF Transition
    <3>3. /\ task'[t].taint = task[t].taint
          /\ ~isTerminal(task[t].state) => ~isTerminal(task'[t].state)
      BY <3>2, <1>0, TransitionLands DEF Live
    <3> QED BY <3>1, <3>3 DEF Landed, Placed, Idle
  <2> QED BY <2>1, <2>2, <1>9 DEF GenerateRejected
<1>10. CASE Backoff(r)
  <2>1. Goto(r, "looping") /\ UNCHANGED task
    BY <1>10 DEF Backoff, durable
  <2>2. run'[r].pc = "looping" /\ run'[r].ctx = run[r].ctx
    BY <2>1, <1>p, <1>t
  <2> QED BY <2>1, <2>2, <1>y DEF Placed
<1>11. CASE GenerateText(r)
  <2> DEFINE outcome == IF run[r].trouble THEN "PARTIAL" ELSE "COMPLETED"
             counted == UsageStored(task[t], r, run[r].requests + 1)
  <2>1. counted \in TaskRecord /\ counted.state = task[t].state
    <3>1. run[r].requests + 1 \in Nat
      BY <1>0 DEF RunRecord
    <3>2. counted \in TaskRecord
      BY <3>1, <1>0, UsageType DEF IInv, TypeOK
    <3> QED BY <3>2, <1>0 DEF UsageStored, TaskRecord
  <2>2. task'[t] = Completed(counted, outcome) /\ Goto(r, "finishing")
    BY <1>11, <1>0 DEF GenerateText
  <2>3. run[r].pc = "generating"
    BY <1>11 DEF GenerateText
  <2> HIDE DEF counted
  <2>4. task'[t].state \notin Working
    BY <2>1, <2>2, <2>3, <1>a, StoppingLands, CompletedLands
  <2>5. run'[r].pc = "finishing"
    BY <2>2, <1>t, <1>p
  <2> QED BY <2>4, <2>5 DEF Landed, Placed, Idle
<1>12. ASSUME NEW n \in 1..MaxCalls, GenerateCalls(r, n) PROVE Landed(r, t)
  <2> DEFINE x == [run[r] EXCEPT !.pc = "calling", !.requests = @ + 1, !.calls = n]
  <2>1. /\ run' = [run EXCEPT ![r] = x]
        /\ task' = [task EXCEPT ![t] = UsageStored(task[t], r, run[r].requests + 1)]
    BY <1>12, <1>0 DEF GenerateCalls
  <2>2. x.pc = "calling" /\ x.ctx = run[r].ctx
    BY <1>0 DEF RunRecord
  <2> HIDE DEF x
  <2> QED BY <2>1, <2>2, <1>x
<1>13. CASE Call(r)
  <2> DEFINE x == [run[r] EXCEPT !.calls = @ - 1, !.trouble = TRUE]
  <2>1. run[r].pc = "calling"
    BY <1>13 DEF Call
  <2>3. CASE /\ Goto(r, "looping")
             /\ task' = [task EXCEPT ![t] = UsageStored(task[t], r, run[r].requests)]
    <3>1. run' = [run EXCEPT ![r] = [run[r] EXCEPT !.pc = "looping"]]
      BY <2>3, <1>0 DEF Goto
    <3>2. [run[r] EXCEPT !.pc = "looping"].pc = "looping"
      BY <1>0 DEF RunRecord
    <3> QED BY <3>1, <3>2, <2>3, <1>0, <1>c, <1>x
  <2>4. CASE Goto(r, "dispatching") /\ Transition(r, "WAITING_FOR_TOOL")
    BY <2>4, <1>n, <1>p DEF Live
  <2>5. CASE run' = [run EXCEPT ![r] = x] /\ UNCHANGED durable
    <3>1. x.pc = "calling" /\ x.ctx = run[r].ctx
      BY <2>1, <1>0 DEF RunRecord
    <3> HIDE DEF x
    <3> QED BY <3>1, <2>5, <1>x DEF durable
  <2> QED BY <2>3, <2>4, <2>5, <1>13, <1>0 DEF Call
<1>14. CASE Refuse(r)
  <2> DEFINE x == [run[r] EXCEPT !.pc = "judging", !.trouble = TRUE]
  <2>1. run' = [run EXCEPT ![r] = x] /\ UNCHANGED task
    BY <1>14 DEF Refuse, durable
  <2>2. x.pc = "judging" /\ x.ctx = run[r].ctx
    BY <1>0 DEF RunRecord
  <2> HIDE DEF x
  <2> QED BY <2>1, <2>2, <1>x
<1>15. CASE ExecuteTool(r)
  <2>1. Goto(r, "executing") /\ UNCHANGED task
    BY <1>15 DEF ExecuteTool, durable
  <2>2. run'[r].pc = "executing" /\ run'[r].ctx = run[r].ctx
    BY <2>1, <1>p, <1>t
  <2> QED BY <2>1, <2>2, <1>y DEF Placed
<1>16. CASE RequestFile(r) \/ SettleFile(r)
  BY <1>16, <1>n, <1>p DEF RequestFile, SettleFile, Live
<1>18. ASSUME NEW read \in SUBSET Sources, ToolReturns(r, read) PROVE Landed(r, t)
  <2>1. task' = [task EXCEPT ![t] = [task[t] EXCEPT !.taint = task[t].taint \cup read]]
    BY <1>18, <1>0 DEF ToolReturns
  <2>2. PICK ok \in BOOLEAN :
          run' = [run EXCEPT ![r] =
                    [run[r] EXCEPT !.pc = "judging",
                              !.ctx = IF read = {} THEN @ ELSE task[t].taint \cup read,
                              !.seen = @ \cup read,
                              !.acted = IF ok THEN TRUE ELSE @,
                              !.trouble = IF ok THEN @ ELSE TRUE]]
    BY <1>18 DEF ToolReturns
  <2> DEFINE c == IF read = {} THEN run[r].ctx ELSE task[t].taint \cup read
             a == IF ok THEN TRUE ELSE run[r].acted
             b == IF ok THEN run[r].trouble ELSE TRUE
             x == [run[r] EXCEPT !.pc = "judging", !.ctx = c,
                              !.seen = run[r].seen \cup read, !.acted = a, !.trouble = b]
  <2>3. run'[r] = x
    BY <2>2, <1>0
  <2>4. x.pc = "judging" /\ x.ctx = c
    <3> HIDE DEF a, b, c
    <3> QED BY <1>0 DEF RunRecord
  <2>5. task'[t].state = task[t].state /\ task'[t].taint = task[t].taint \cup read
    BY <2>1, <1>0 DEF TaskRecord
  <2> HIDE DEF x
  <2>6. task[t].taint \subseteq run[r].ctx => task'[t].taint \subseteq run'[r].ctx
    <3>1. CASE read = {}
      BY <3>1, <2>3, <2>4, <2>5
    <3>2. CASE read # {}
      BY <3>2, <2>3, <2>4, <2>5
    <3> QED BY <3>1, <3>2
  <2> QED BY <2>3, <2>4, <2>5, <2>6 DEF Landed, Placed, Idle
<1>19. CASE TaintLost(r)
  BY <1>19, <1>a, <1>o DEF TaintLost
<1>20. CASE Judge(r)
  <2> DEFINE x == [run[r] EXCEPT !.pc = "calling", !.calls = @ - 1]
  <2>1. CASE Complete(r, StoppedShort(r))
    BY <2>1, <1>s, <1>o
  <2>2. CASE run' = [run EXCEPT ![r] = x] /\ UNCHANGED durable
    <3>1. x.pc = "calling" /\ x.ctx = run[r].ctx
      BY <1>0 DEF RunRecord
    <3> HIDE DEF x
    <3> QED BY <3>1, <2>2, <1>x DEF durable
  <2> QED BY <2>1, <2>2, <1>20 DEF Judge
<1> QED BY <1>2, <1>3, <1>4, <1>5, <1>7, <1>8, <1>9, <1>10, <1>11, <1>12,
           <1>13, <1>14, <1>15, <1>16, <1>18, <1>19, <1>20 DEF RunStep

-----------------------------------------------------------------------------
(* What keeps the invariant of one run per task.                           *)

\* The facts about a state that the steps below begin with.
LEMMA Facts ==
    ASSUME IInv
    PROVE  /\ run \in [Runs -> RunRecord] /\ task \in [Tasks -> TaskRecord]
           /\ handle \in [Tasks -> Runs \cup {NoRun}]
           /\ ctl \in [Runs -> {"live", "paused", "cancelled"}]
           /\ \A q \in Runs : run[q].task \in Tasks
           /\ \A q \in Runs : run[q].pc \in Suspended => task[run[q].task].state # "ABSENT"
           /\ NoRun \notin Runs
BY RunTask, ConstantsAssumption
   DEF IInv, TypeOK, RunType, DurableType, WorkerType, RunsFit, RunFits

\* A finished task that has a run stays as it is.
LEMMA EndedStays ==
    ASSUME Step, NEW t \in Tasks, isTerminal(task[t].state)
    PROVE  task'[t].state = task[t].state
BY DEF Step, Grows, Grown, Appears, isTerminal, Terminal

\* What is to be shown of a run after a step.
LEMMA LoneThen ==
    ASSUME NEW q \in Runs, NEW t, run'[q].task = t,
           ctl'[q] # "live" => isTerminal(task'[t].state),
           ctl'[q] = "live" => LiveFits(q, t)'
    PROVE  Lone(q)'
BY DEF Lone, LiveFits

\* A run that the step leaves alone, with all that it depends on.
LEMMA LoneKept ==
    ASSUME Step, NEW q \in Runs, NEW t \in Tasks, run[q].task = t,
           Lone(q), run'[q] = run[q], ctl'[q] = ctl[q], handle'[t] = handle[t],
           task'[t].state = task[t].state, task'[t].taint = task[t].taint,
           \A p \in Runs : run'[p].pc \in Begun /\ run'[p].task = t
                             => run[p].pc \in Begun /\ run[p].task = t,
           Excused(t) /\ task[t].state \in Working => Excused(t)'
    PROVE  Lone(q)'
<1> SUFFICES ASSUME run[q].pc \in Suspended
             PROVE  Lone(q)'
  BY DEF Lone
<1>1. CASE ctl[q] # "live"
  <2>1. isTerminal(task'[t].state)
    BY <1>1 DEF Lone
  <2> QED BY <2>1, <1>1, LoneThen
<1>2. CASE ctl[q] = "live"
  <2>1. LiveFits(q, t)
    BY <1>2 DEF Lone
  <2>2. LiveFits(q, t)'
    BY <2>1 DEF LiveFits, Placed, Idle
  <2> QED BY <2>2, <1>2, LoneThen
<1> QED BY <1>1, <1>2

\* A finished task asks nothing of a run that has not begun or was stopped.
LEMMA LoneEnded ==
    ASSUME NEW q \in Runs, NEW t \in Tasks, run'[q].task = t, isTerminal(task'[t].state),
           ctl'[q] = "live" => run'[q].pc = "spawned"
    PROVE  Lone(q)'
<1>1. ASSUME ctl'[q] = "live" PROVE LiveFits(q, t)'
  <2>1. task'[t].state \notin Working
    BY DEF isTerminal, Terminal, Working
  <2>2. run'[q].pc = "spawned"
    BY <1>1
  <2> QED BY <2>1, <2>2 DEF LiveFits, Begun, InTry, Placed, Idle
<1> QED BY <1>1, LoneThen

\* A task that the step leaves alone, with its runs.
LEMMA StaffedKept ==
    ASSUME NEW t \in Tasks, Staffed(t),
           task'[t].state \in Working => task[t].state \in Working,
           \A q \in Runs : run[q].pc \in Suspended /\ run[q].task = t
                             => run'[q].pc \in Suspended /\ run'[q].task = t,
           Excused(t) /\ task'[t].state \in Working => Excused(t)'
    PROVE  Staffed(t)'
BY DEF Staffed

\* Nobody else is on a task whose run goes on.
LEMMA OnlyOne ==
    ASSUME IInv, SInv, Undisturbed, NEW r \in Runs, NEW q \in Runs, q # r,
           run[q].task = run[r].task, run[r].pc \in Begun, Going(q)
    PROVE  /\ run[q].pc = "spawned" /\ isTerminal(task[run[r].task].state)
           /\ ctl[r] # "live" \/ run[r].pc = "finishing"
<1>1. Lone(q) /\ Lone(r) /\ run[r].pc \in Suspended /\ run[q].pc \in Suspended
  BY DEF SInv, Alone, Going, Begun, InTry, Suspended
<1>2. LiveFits(q, run[q].task)
  BY <1>1 DEF Lone, Going
<1>3. run[q].pc \notin Begun
  BY <1>2 DEF LiveFits
<1>4. run[q].pc = "spawned"
  BY <1>1, <1>3 DEF Begun, InTry
<1>5. CASE ctl[r] # "live"
  BY <1>1, <1>4, <1>5 DEF Lone
<1>6. CASE ctl[r] = "live"
  <2>1. LiveFits(r, run[r].task)
    BY <1>1, <1>6 DEF Lone
  <2>2. handle[run[r].task] = r
    BY <2>1 DEF LiveFits, Begun, InTry
  <2>3. isTerminal(task[run[r].task].state)
    BY <2>2, <1>2 DEF LiveFits
  <2>4. run[r].pc \notin InTry
    BY <2>1, <2>3 DEF LiveFits
  <2> QED BY <1>4, <2>3, <2>4 DEF Begun
<1> QED BY <1>5, <1>6

-----------------------------------------------------------------------------
(* The steps of a run.                                                     *)

LEMMA InnerRegistered ==
    ASSUME Step, NEW r \in Runs, Inner(r)
    PROVE  Registered'
<1>0. Registered /\ UNCHANGED <<handle, ctl>>
  BY DEF Step, SInv, Inner, worker
<1>1. \A q \in Runs : /\ run'[q].sig = run[q].sig /\ run'[q].task = run[q].task
                      /\ run[q].pc \in Suspended => run'[q].pc \in Suspended
                      /\ run'[q].pc \in {"unused", "spawned"} => run'[q] = run[q]
  BY DEF Inner, Begun, InTry, Suspended
<1>2. handle \in [Tasks -> Runs \cup {NoRun}]
  BY Facts DEF Step
<1> QED BY <1>0, <1>1, <1>2 DEF Registered, Going

LEMMA InnerAlone ==
    ASSUME Step, NEW r \in Runs, RunStep(r), ~Begin(r), ~Finish(r)
    PROVE  Alone'
<1> SUFFICES ASSUME Undisturbed'
             PROVE  (\A q \in Runs : Lone(q)') /\ (\A t \in Tasks : Staffed(t)')
  BY DEF Alone
<1>0. /\ Inner(r) /\ IInv /\ SInv
      /\ run[r].pc \in Begun /\ run[r].pc \in Suspended
  BY RunStepInner, Facts DEF Step, Inner, Begun, InTry
<1>t. PICK t \in Tasks : t = run[r].task
  BY <1>0, Facts
<1>1. /\ UNCHANGED <<handle, ctl, phase, toRecover>>
      /\ run[r].sig = r
  BY <1>0 DEF Inner, worker, SInv, Registered
<1>2. Undisturbed /\ \A q \in Runs : Lone(q)
  BY <1>0, <1>1 DEF Undisturbed, SInv, Alone
<1>3. \A q \in Runs : /\ run'[q].task = run[q].task
                      /\ run'[q].pc \in Begun <=> run[q].pc \in Begun
                      /\ run'[q].pc \in Suspended <=> run[q].pc \in Suspended
  BY <1>0 DEF Inner, Begun, InTry, Suspended
<1>e. \A u \in Tasks : Excused(u)' <=> Excused(u)
  BY <1>1 DEF Excused
<1>4. ASSUME NEW q \in Runs, q # r, run[q].task # t PROVE Lone(q)'
  <2>1. PICK u \in Tasks : u = run[q].task
    BY <1>0, Facts
  <2>2. run'[q] = run[q] /\ task'[u] = task[u]
    BY <2>1, <1>4, <1>0, <1>t DEF Inner
  <2> QED BY <2>1, <2>2, <1>1, <1>2, <1>3, <1>e, LoneKept
<1>5. ASSUME NEW q \in Runs, q # r, run[q].task = t PROVE Lone(q)'
  <2>1. run'[q] = run[q]
    BY <1>5, <1>0 DEF Inner
  <2> SUFFICES ASSUME run[q].pc \in Suspended PROVE Lone(q)'
    BY <2>1 DEF Lone
  <2>2. isTerminal(task[t].state) /\ (ctl[q] = "live" => run[q].pc = "spawned")
    BY <1>0, <1>2, <1>5, <1>t, OnlyOne DEF Going, Lone
  <2>3. task'[t].state = task[t].state
    BY <2>2, <1>0, EndedStays
  <2>4. isTerminal(task'[t].state)
    BY <2>2, <2>3
  <2> QED BY <2>1, <2>2, <2>4, <1>1, <1>5, LoneEnded
<1>6. Lone(r)'
  <2>1. CASE ctl[r] # "live"
    <3>1. isTerminal(task[t].state)
      BY <2>1, <1>0, <1>2, <1>t DEF Lone
    <3>2. isTerminal(task'[t].state)
      BY <3>1, <1>0, EndedStays
    <3> QED BY <2>1, <3>2, <1>1, <1>3, <1>t, LoneEnded
  <2>2. CASE ctl[r] = "live"
    <3>1. LiveFits(r, t)
      BY <2>2, <1>0, <1>2, <1>t DEF Lone
    <3>2. ~aborted(r)
      BY <2>2, <1>1 DEF aborted
    <3>3. Landed(r, t)
      BY <3>1, <3>2, <1>0, <1>t, RunStepLands DEF LiveFits
    <3>4. run[r].pc \in InTry /\ run'[r].pc \in Begun
      BY <1>0 DEF Inner
    <3>5. /\ handle[t] = r
          /\ \A q \in Runs : run[q].pc \in Begun /\ run[q].task = t => q = r
          /\ ~isTerminal(task[t].state) /\ task[t].taint \subseteq run[r].ctx
          /\ Idle(run[r].pc, task[t].state) \/ Excused(t)
      BY <3>1, <3>4 DEF LiveFits, InTry, Begun
    <3>6. /\ run'[r].pc \in InTry =>
                ~isTerminal(task'[t].state) /\ task'[t].taint \subseteq run'[r].ctx
          /\ Placed(run'[r].pc, task'[t].state)
          /\ Idle(run'[r].pc, task'[t].state) \/ Excused(t)'
      BY <3>3, <3>5, <1>e DEF Landed
    <3>7. /\ handle'[t] = r
          /\ \A q \in Runs : run'[q].pc \in Begun /\ run'[q].task = t => q = r
      BY <3>5, <1>1, <1>3
    <3>8. LiveFits(r, t)'
      BY <3>6, <3>7 DEF LiveFits
    <3> QED BY <3>8, <2>2, <1>1, <1>3, <1>t, LoneThen
  <2> QED BY <2>1, <2>2
<1>7. ASSUME NEW u \in Tasks PROVE Staffed(u)'
  <2>1. CASE u = t
    <3>1. run'[r].pc \in Suspended /\ run'[r].task = u
      BY <2>1, <1>0, <1>3, <1>t
    <3> QED BY <3>1 DEF Staffed
  <2>2. CASE u # t
    <3>1. task'[u] = task[u] /\ Staffed(u)
      BY <2>2, <1>0, <1>2, <1>t DEF Inner, SInv, Alone
    <3> QED BY <3>1, <1>3, <1>e, StaffedKept
  <2> QED BY <2>1, <2>2
<1> QED BY <1>4, <1>5, <1>6, <1>7, <1>t

\* A run that ends, and takes whatever its task has registered with it.
Leaves(r) ==
    /\ run[r].pc \in {"spawned", "finishing"}
    /\ handle' = [handle EXCEPT ![run[r].task] = NoRun]
    /\ run' = [run EXCEPT ![r] = Fresh(r, AnyTask, "done")]
    /\ UNCHANGED <<task, ctl, phase, toRecover>>

\* A run that has read its task and goes on.
Enters(r) ==
    LET t == run[r].task IN
    /\ run[r].pc = "spawned" /\ handle[t] = r /\ ctl[r] = "live"
    /\ ~isTerminal(task[t].state)
    /\ run'[r].pc = "resolving" /\ run'[r].task = t /\ run'[r].sig = r
    /\ run'[r].ctx = task[t].taint
    /\ \A q \in Runs \ {r} : run'[q] = run[q]
    /\ UNCHANGED <<task, handle, ctl, phase, toRecover>>

LEMMA BeginShape ==
    ASSUME IInv, SInv, NEW r \in Runs, Begin(r)
    PROVE  Leaves(r) \/ Enters(r)
<1>t. PICK t \in Tasks : t = run[r].task
  BY Facts
<1>1. run \in [Runs -> RunRecord] /\ run[r] \in RunRecord
  BY Facts
<1>2. CASE handle[t] = NoRun \/ isTerminal(task[t].state) \/ ctl[handle[t]] # "live"
  BY <1>2, <1>t DEF Begin, Leaves, durable
<1>3. CASE ~(handle[t] = NoRun \/ isTerminal(task[t].state) \/ ctl[handle[t]] # "live")
  <2> DEFINE p == task[t].approval > 0
  <2>1. /\ run' = [run EXCEPT ![r] =
                  [run[r] EXCEPT !.pc = "resolving", !.sig = handle[t], !.planned = p,
                            !.ctx = task[t].taint,
                            !.requests = task[t].requests, !.retries = task[t].retries]]
        /\ UNCHANGED <<task, handle, ctl, phase, toRecover>> /\ run[r].pc = "spawned"
    BY <1>3, <1>t DEF Begin, durable
  <2>2. handle[t] = r
    BY <2>1, <1>3, <1>t DEF SInv, Registered
  <2> HIDE DEF p
  <2>3. /\ run'[r].pc = "resolving" /\ run'[r].task = t /\ run'[r].sig = r
        /\ run'[r].ctx = task[t].taint
    BY <2>1, <2>2, <1>1, <1>t DEF RunRecord
  <2> QED BY <2>1, <2>2, <2>3, <1>1, <1>3, <1>t DEF Enters
<1> QED BY <1>2, <1>3

LEMMA FinishShape == \A r \in Runs : Finish(r) => Leaves(r)
BY DEF Finish, Leaves, durable

\* What is to be shown of the registrations after a step.
LEMMA RegisteredThen ==
    ASSUME Step,
           \A q \in Runs : run'[q].sig = q,
           \A q \in Runs : run'[q].pc = "unused" => ctl'[q] = "live",
           \A u \in Tasks, h \in Runs : handle'[u] = h =>
               run'[h].task = u /\ run'[h].pc \in Suspended /\ ctl'[h] = "live",
           \A q \in Runs, u \in Tasks : run'[q].pc = "spawned" /\ run'[q].task = u =>
               handle'[u] \in {q, NoRun}
    PROVE  Registered'
<1>1. handle' \in [Tasks -> Runs \cup {NoRun}]
  BY DEF Step, IInv, TypeOK, WorkerType
<1>2. \A q \in Runs : run'[q].task \in Tasks
  BY DEF Step, IInv, TypeOK, RunType, RunRecord
<1> QED BY <1>1, <1>2 DEF Registered, Going

LEMMA LeavesRegistered ==
    ASSUME Step, NEW r \in Runs, Leaves(r)
    PROVE  Registered'
<1>t. PICK t \in Tasks : t = run[r].task
  BY Facts DEF Step
<1>1. /\ Registered /\ handle \in [Tasks -> Runs \cup {NoRun}]
      /\ run \in [Runs -> RunRecord] /\ NoRun \notin Runs
  BY Facts DEF Step, SInv
<1>2. /\ run'[r] = Fresh(r, AnyTask, "done")
      /\ \A q \in Runs \ {r} : run'[q] = run[q]
      /\ handle'[t] = NoRun /\ \A u \in Tasks \ {t} : handle'[u] = handle[u]
      /\ ctl' = ctl
  BY <1>1, <1>t DEF Leaves
<1>3. run'[r].pc = "done" /\ run'[r].sig = r
  BY <1>2 DEF Fresh
<1>4. \A q \in Runs : run'[q].sig = q
  BY <1>1, <1>2, <1>3 DEF Registered
<1>5. \A q \in Runs : run'[q].pc = "unused" => ctl'[q] = "live"
  BY <1>1, <1>2, <1>3 DEF Registered
<1>6. ASSUME NEW u \in Tasks, NEW h \in Runs, handle'[u] = h
      PROVE  run'[h].task = u /\ run'[h].pc \in Suspended /\ ctl'[h] = "live"
  <2>1. u # t /\ handle[u] = h
    BY <1>1, <1>2, <1>6
  <2>2. run[h].task = u /\ Going(h) /\ h # r
    BY <2>1, <1>1, <1>t DEF Registered
  <2> QED BY <2>2, <1>2 DEF Going
<1>7. ASSUME NEW q \in Runs, NEW u \in Tasks, run'[q].pc = "spawned", run'[q].task = u
      PROVE  handle'[u] \in {q, NoRun}
  <2>1. run'[q] = run[q]
    BY <1>2, <1>3, <1>7
  <2>2. handle[u] \in {q, NoRun}
    BY <2>1, <1>1, <1>7 DEF Registered
  <2> QED BY <2>2, <1>2
<1> QED BY <1>4, <1>5, <1>6, <1>7, RegisteredThen

LEMMA LeavesAlone ==
    ASSUME Step, NEW r \in Runs, Leaves(r)
    PROVE  Alone'
<1> SUFFICES ASSUME Undisturbed'
             PROVE  (\A q \in Runs : Lone(q)') /\ (\A t \in Tasks : Staffed(t)')
  BY DEF Alone
<1>t. PICK t \in Tasks : t = run[r].task
  BY Facts DEF Step
<1>0. /\ IInv /\ SInv /\ Registered
      /\ run \in [Runs -> RunRecord] /\ handle \in [Tasks -> Runs \cup {NoRun}]
      /\ NoRun \notin Runs
  BY Facts DEF Step, SInv
<1>1. /\ run'[r].pc = "done" /\ \A q \in Runs \ {r} : run'[q] = run[q]
      /\ handle'[t] = NoRun /\ \A u \in Tasks \ {t} : handle'[u] = handle[u]
      /\ UNCHANGED <<task, ctl, phase, toRecover>>
      /\ run[r].pc \in {"spawned", "finishing"}
  BY <1>0, <1>t DEF Leaves, Fresh
<1>2. Undisturbed /\ \A q \in Runs : Lone(q)
  BY <1>0, <1>1 DEF Undisturbed, SInv, Alone
<1>e. \A u \in Tasks : Excused(u)' <=> Excused(u)
  BY <1>1 DEF Excused
<1>3. \A u : \A p \in Runs : run'[p].pc \in Begun /\ run'[p].task = u
                => run[p].pc \in Begun /\ run[p].task = u
  BY <1>1 DEF Begun, InTry, Suspended
<1>4. ASSUME NEW q \in Runs, q # r PROVE Lone(q)'
  <2>1. PICK u \in Tasks : u = run[q].task
    BY <1>0, Facts
  <2>2. CASE u # t
    BY <2>1, <2>2, <1>1, <1>2, <1>3, <1>4, <1>e, LoneKept
  <2>3. CASE u = t
    <3> SUFFICES ASSUME run[q].pc \in Suspended PROVE Lone(q)'
      BY <1>1, <1>4 DEF Lone
    <3>1. CASE ctl[q] # "live"
      BY <3>1, <2>1, <2>3, <1>1, <1>2, <1>4, LoneEnded DEF Lone
    <3>2. CASE ctl[q] = "live"
      <4>1. run[q].pc = "spawned" /\ isTerminal(task[t].state)
        <5>1. CASE run[r].pc = "finishing"
          BY <5>1, <3>2, <2>1, <2>3, <1>0, <1>2, <1>4, <1>t, OnlyOne DEF Going, Begun
        <5>2. CASE run[r].pc = "spawned"
          <6>1. handle[t] # q
            BY <5>2, <1>0, <1>4, <1>t DEF Registered
          <6>2. LiveFits(q, t)
            BY <3>2, <2>1, <2>3, <1>2 DEF Lone
          <6> QED BY <6>1, <6>2 DEF LiveFits
        <5> QED BY <5>1, <5>2, <1>1
      <4> QED BY <4>1, <2>1, <2>3, <1>1, <1>4, LoneEnded
    <3> QED BY <3>1, <3>2
  <2> QED BY <2>2, <2>3
<1>5. Lone(r)'
  BY <1>1 DEF Lone, Suspended
<1>6. ASSUME NEW u \in Tasks PROVE Staffed(u)'
  <2>1. Staffed(u)
    BY <1>0, <1>2 DEF SInv, Alone
  <2>2. CASE u # t
    BY <2>1, <2>2, <1>1, <1>e, <1>t, StaffedKept
  <2>3. CASE u = t
    <3>1. Lone(r) /\ run[r].pc \in Suspended
      BY <1>1, <1>2 DEF Suspended
    <3>2. CASE ctl[r] # "live"
      BY <3>1, <3>2, <2>3, <1>1, <1>t DEF Lone, Staffed, isTerminal, Terminal, Working
    <3>3. CASE ctl[r] = "live"
      <4>1. Idle(run[r].pc, task[t].state) \/ Excused(t)
        BY <3>1, <3>3, <1>t DEF Lone, LiveFits
      <4>2. task[t].state \notin Working \/ Excused(t)
        BY <4>1, <1>1 DEF Idle
      <4> QED BY <4>2, <2>3, <1>1, <1>e DEF Staffed
    <3> QED BY <3>2, <3>3
  <2> QED BY <2>2, <2>3
<1> QED BY <1>4, <1>5, <1>6

LEMMA EntersRegistered ==
    ASSUME Step, NEW r \in Runs, Enters(r)
    PROVE  Registered'
<1>0. Registered /\ UNCHANGED <<handle, ctl>> /\ handle \in [Tasks -> Runs \cup {NoRun}]
  BY Facts DEF Step, SInv, Enters
<1>1. \A q \in Runs : /\ run'[q].sig = q /\ run'[q].task = run[q].task
                      /\ run[q].pc \in Suspended => run'[q].pc \in Suspended
                      /\ run'[q].pc \in {"unused", "spawned"} => run'[q] = run[q]
  BY <1>0 DEF Enters, Suspended, Registered
<1> QED BY <1>0, <1>1 DEF Registered, Going

LEMMA EntersAlone ==
    ASSUME Step, NEW r \in Runs, Enters(r)
    PROVE  Alone'
<1> SUFFICES ASSUME Undisturbed'
             PROVE  (\A q \in Runs : Lone(q)') /\ (\A t \in Tasks : Staffed(t)')
  BY DEF Alone
<1>t. PICK t \in Tasks : t = run[r].task
  BY Facts DEF Step
<1>0. IInv /\ SInv
  BY DEF Step
<1>1. /\ run[r].pc = "spawned" /\ handle[t] = r /\ ctl[r] = "live"
      /\ ~isTerminal(task[t].state)
      /\ run'[r].pc = "resolving" /\ run'[r].task = t /\ run'[r].ctx = task[t].taint
      /\ \A q \in Runs \ {r} : run'[q] = run[q]
      /\ UNCHANGED <<task, handle, ctl, phase, toRecover>>
  BY <1>t DEF Enters
<1>2. Undisturbed /\ \A q \in Runs : Lone(q)
  BY <1>0, <1>1 DEF Undisturbed, SInv, Alone
<1>e. \A u \in Tasks : Excused(u)' <=> Excused(u)
  BY <1>1 DEF Excused
<1>3. ASSUME NEW q \in Runs, q # r, run[q].task = t PROVE run[q].pc \notin Suspended
  <2> SUFFICES ASSUME run[q].pc \in Suspended PROVE FALSE
    OBVIOUS
  <2>1. ctl[q] = "live"
    BY <1>1, <1>2, <1>3 DEF Lone
  <2>2. LiveFits(q, t)
    BY <2>1, <1>2, <1>3 DEF Lone
  <2> QED BY <2>2, <1>1, <1>3 DEF LiveFits
<1>4. ASSUME NEW q \in Runs, q # r PROVE Lone(q)'
  <2>1. PICK u \in Tasks : u = run[q].task
    BY <1>0, Facts
  <2>2. CASE u = t
    BY <2>1, <2>2, <1>1, <1>3, <1>4 DEF Lone
  <2>3. CASE u # t
    BY <2>1, <2>3, <1>1, <1>2, <1>4, <1>e, LoneKept
  <2> QED BY <2>2, <2>3
<1>5. Lone(r)'
  <2>1. LiveFits(r, t)
    BY <1>1, <1>2, <1>t DEF Lone, Suspended
  <2>2. Idle("spawned", task[t].state) \/ Excused(t)
    BY <2>1, <1>1 DEF LiveFits
  <2>3. Idle("resolving", task[t].state) \/ Excused(t)'
    BY <2>2, <1>e DEF Idle
  <2>4. ASSUME NEW q \in Runs, run'[q].pc \in Begun, run'[q].task = t PROVE q = r
    BY <2>4, <1>1, <1>3 DEF Begun, InTry, Suspended
  <2>5. Placed("resolving", task[t].state)
    BY DEF Placed
  <2>6. LiveFits(r, t)'
    BY <2>3, <2>4, <2>5, <1>1 DEF LiveFits
  <2> QED BY <2>6, <1>1, LoneThen
<1>6. ASSUME NEW u \in Tasks PROVE Staffed(u)'
  <2>1. \A q \in Runs : run[q].pc \in Suspended /\ run[q].task = u
                          => run'[q].pc \in Suspended /\ run'[q].task = u
    BY <1>1, <1>t DEF Suspended
  <2>2. Staffed(u)
    BY <1>0, <1>2 DEF SInv, Alone
  <2> QED BY <2>1, <2>2, <1>1, <1>e, StaffedKept
<1> QED BY <1>4, <1>5, <1>6

\* Every step of a run.
LEMMA RunStepSingle ==
    ASSUME Step, NEW r \in Runs, RunStep(r)
    PROVE  SInv'
<1>1. CASE Begin(r)
  BY <1>1, BeginShape, LeavesRegistered, LeavesAlone, EntersRegistered, EntersAlone
     DEF Step, SInv
<1>2. CASE Finish(r)
  BY <1>2, FinishShape, LeavesRegistered, LeavesAlone DEF SInv
<1>3. CASE ~Begin(r) /\ ~Finish(r)
  BY <1>3, RunStepInner, InnerRegistered, InnerAlone DEF Step, SInv
<1> QED BY <1>1, <1>2, <1>3

-----------------------------------------------------------------------------
(* The steps of the panel and of the worker.                               *)

\* The controllers registered for the tasks in A are dropped, and the runs in S
\* begin; a run of a task in A may have its file request settled.
Shift(A, S) ==
    /\ \A q \in S : /\ run[q].pc = "unused"
                    /\ run'[q].pc = "spawned" /\ run'[q].sig = q /\ run'[q].task \notin A
                    /\ handle'[run'[q].task] = q
                    /\ \A p \in Runs : run[p].pc = "spawned" => run[p].task # run'[q].task
                    /\ \A p \in S : p = q
    /\ \A q \in Runs \ S :
          \/ run'[q] = run[q]
          \/ /\ run[q].task \in A /\ run[q].pc = "choosing"
             /\ run'[q] = [run[q] EXCEPT !.pc = "chosen"]
    /\ \A t \in A : handle'[t] = NoRun
    /\ \A u \in Tasks \ A : handle'[u] = handle[u] \/ \E q \in S : run'[q].task = u
    /\ \A q \in Runs : (\A t \in A : handle[t] # q) => ctl'[q] = ctl[q]

\* And the tasks in A have ended, their runs being told; a run begins only where
\* no other goes on and no work is claimed.
Calm(A, S) ==
    /\ UNCHANGED <<phase, toRecover>>
    /\ \A t \in A : isTerminal(task'[t].state)
    /\ \A q \in Runs : (\E t \in A : handle[t] = q) => ctl'[q] # "live"
    /\ \A q \in S, u \in Tasks : run'[q].task = u =>
          /\ task'[u].state \notin Working \/ Excused(u)
          /\ \A p \in Runs : run[p].pc \in Suspended /\ run[p].task = u
                               => isTerminal(task[u].state) /\ ctl[p] # "live"
    /\ \A u \in Tasks \ A : (\A q \in S : run'[q].task # u) =>
          task'[u].state = task[u].state /\ task'[u].taint = task[u].taint

\* What a run outside S looks like after the step.
LEMMA ShiftRuns ==
    ASSUME Step, NEW A, NEW S, Shift(A, S), NEW q \in Runs \ S
    PROVE  /\ run'[q].task = run[q].task /\ run'[q].sig = run[q].sig
           /\ run'[q].pc \in Suspended <=> run[q].pc \in Suspended
           /\ run'[q].pc \in Begun <=> run[q].pc \in Begun
           /\ run'[q].pc \in {"unused", "spawned"} => run'[q] = run[q]
           /\ run[q].pc \in {"unused", "spawned"} => run'[q] = run[q]
           /\ run[q].task \notin A => run'[q] = run[q]
<1>1. run[q] \in RunRecord
  BY Facts DEF Step
<1>2. CASE run'[q] = run[q]
  BY <1>2
<1>3. CASE /\ run[q].task \in A /\ run[q].pc = "choosing"
           /\ run'[q] = [run[q] EXCEPT !.pc = "chosen"]
  <2>1. run'[q].pc = "chosen" /\ run'[q].task = run[q].task /\ run'[q].sig = run[q].sig
    BY <1>1, <1>3 DEF RunRecord
  <2> QED BY <2>1, <1>3 DEF Begun, InTry, Suspended
<1> QED BY <1>2, <1>3 DEF Shift

LEMMA ShiftRegistered ==
    ASSUME Step, NEW A \in SUBSET Tasks, NEW S \in SUBSET Runs, Shift(A, S)
    PROVE  Registered'
<1>0. /\ Registered /\ NoRun \notin Runs
      /\ handle \in [Tasks -> Runs \cup {NoRun}]
  BY Facts DEF Step, SInv
<1>h. \A t \in Tasks, h \in Runs : handle[t] = h =>
          run[h].task = t /\ run[h].pc \in Suspended /\ ctl[h] = "live"
  BY <1>0 DEF Registered, Going
<1>1. ASSUME NEW q \in Runs PROVE run'[q].sig = q
  <2>1. CASE q \in S
    BY <2>1 DEF Shift
  <2>2. CASE q \notin S
    BY <2>2, <1>0, ShiftRuns DEF Registered
  <2> QED BY <2>1, <2>2
<1>c. ASSUME NEW q \in Runs, run[q].pc = "unused" PROVE ctl'[q] = "live"
  <2>1. \A t \in A : handle[t] # q
    BY <1>c, <1>h DEF Suspended
  <2> QED BY <2>1, <1>0, <1>c DEF Registered, Shift
<1>2. ASSUME NEW q \in Runs, run'[q].pc = "unused" PROVE ctl'[q] = "live"
  <2>1. q \notin S
    BY <1>2 DEF Shift
  <2> QED BY <2>1, <1>2, <1>c, ShiftRuns
<1>3. ASSUME NEW u \in Tasks, NEW h \in Runs, handle'[u] = h
      PROVE  run'[h].task = u /\ run'[h].pc \in Suspended /\ ctl'[h] = "live"
  <2>1. u \notin A
    BY <1>0, <1>3 DEF Shift
  <2>2. CASE handle[u] = h
    <3>1. run[h].task = u /\ run[h].pc \in Suspended /\ ctl[h] = "live"
      BY <2>2, <1>h
    <3>2. h \notin S
      BY <3>1 DEF Shift, Suspended
    <3>3. \A t \in A : handle[t] # h
      BY <3>1, <2>1, <1>h
    <3>4. ctl'[h] = "live"
      BY <3>1, <3>3 DEF Shift
    <3> QED BY <3>1, <3>2, <3>4, ShiftRuns
  <2>3. ASSUME NEW q \in S, run'[q].task = u
        PROVE  run'[h].task = u /\ run'[h].pc \in Suspended /\ ctl'[h] = "live"
    BY <2>3, <1>3, <1>c DEF Shift, Suspended
  <2> QED BY <2>1, <2>2, <2>3, <1>3 DEF Shift
<1>4. ASSUME NEW q \in Runs, NEW u \in Tasks, run'[q].pc = "spawned", run'[q].task = u
      PROVE  handle'[u] \in {q, NoRun}
  <2>1. CASE q \in S
    BY <2>1, <1>4 DEF Shift
  <2>2. CASE q \notin S
    <3>1. run'[q] = run[q]
      BY <2>2, <1>4, ShiftRuns
    <3>2. handle[u] \in {q, NoRun}
      BY <3>1, <1>0, <1>4 DEF Registered
    <3>3. \A p \in S : run'[p].task # u
      BY <3>1, <1>4 DEF Shift
    <3> QED BY <3>2, <3>3 DEF Shift
  <2> QED BY <2>1, <2>2
<1> QED BY <1>1, <1>2, <1>3, <1>4, RegisteredThen

LEMMA ShiftAlone ==
    ASSUME Step, NEW A \in SUBSET Tasks, NEW S \in SUBSET Runs, Shift(A, S),
           Undisturbed => Calm(A, S)
    PROVE  Undisturbed /\ Undisturbed' =>
               (\A q \in Runs : Lone(q)') /\ (\A t \in Tasks : Staffed(t)')
<1> SUFFICES ASSUME Undisturbed, Undisturbed'
             PROVE  (\A q \in Runs : Lone(q)') /\ (\A t \in Tasks : Staffed(t)')
  OBVIOUS
<1>0. /\ IInv /\ SInv /\ Registered /\ NoRun \notin Runs
      /\ handle \in [Tasks -> Runs \cup {NoRun}]
      /\ Calm(A, S) /\ \A q \in Runs : Lone(q)
  BY Facts DEF Step, SInv, Alone
<1>h. \A t \in Tasks, h \in Runs : handle[t] = h =>
          run[h].task = t /\ run[h].pc \in Suspended /\ ctl[h] = "live"
  BY <1>0 DEF Registered, Going
<1>e. \A u \in Tasks : Excused(u)' <=> Excused(u)
  BY <1>0 DEF Calm, Excused
<1>b. ASSUME NEW p \in Runs, NEW u, run'[p].pc \in Begun, run'[p].task = u
      PROVE  run[p].pc \in Begun /\ run[p].task = u
  <2>1. p \notin S
    BY <1>b DEF Shift, Begun, InTry
  <2> QED BY <2>1, <1>b, ShiftRuns
<1>1. ASSUME NEW q \in S PROVE Lone(q)'
  <2>1. PICK u \in Tasks : u = run'[q].task
    BY <1>0, <1>1, Facts DEF Step, IInv, TypeOK, RunType, RunRecord
  <2>2. handle'[u] = q /\ run'[q].pc = "spawned"
    BY <2>1, <1>1 DEF Shift
  <2>3. task'[u].state \notin Working \/ Excused(u)'
    BY <2>1, <1>0, <1>1, <1>e DEF Calm
  <2>4. LiveFits(q, u)'
    BY <2>2, <2>3 DEF LiveFits, Begun, InTry, Placed, Idle
  <2>5. ctl'[q] = "live"
    <3>1. run[q].pc = "unused"
      BY <1>1 DEF Shift
    <3>2. \A t \in A : handle[t] # q
      BY <3>1, <1>h DEF Suspended
    <3> QED BY <3>1, <3>2, <1>0, <1>1 DEF Shift, Registered
  <2> QED BY <2>1, <2>4, <2>5, <1>1, LoneThen
<1>2. ASSUME NEW q \in Runs \ S PROVE Lone(q)'
  <2>1. PICK u \in Tasks : u = run[q].task
    BY <1>0, Facts
  <2> SUFFICES ASSUME run[q].pc \in Suspended PROVE Lone(q)'
    BY <1>2, ShiftRuns DEF Lone
  <2>2. run'[q].task = u
    BY <2>1, <1>2, ShiftRuns
  <2>3. CASE u \in A
    <3>1. isTerminal(task'[u].state)
      BY <2>3, <1>0 DEF Calm
    <3>2. ASSUME ctl'[q] = "live" PROVE run'[q].pc = "spawned"
      <4>1. \A t \in A : handle[t] # q
        BY <3>2, <1>0 DEF Calm
      <4>2. ctl[q] = "live" /\ handle[u] # q
        BY <4>1, <3>2, <2>3 DEF Shift
      <4>3. LiveFits(q, u)
        BY <4>2, <2>1, <1>0 DEF Lone
      <4>4. run[q].pc = "spawned"
        BY <4>2, <4>3 DEF LiveFits
      <4> QED BY <4>4, <1>2, ShiftRuns
    <3> QED BY <3>1, <3>2, <2>2, LoneEnded
  <2>4. CASE \E p \in S : run'[p].task = u
    <3>1. isTerminal(task[u].state) /\ ctl[q] # "live" /\ u \notin A
      BY <2>1, <2>4, <1>0 DEF Calm, Shift
    <3>2. isTerminal(task'[u].state)
      BY <3>1, EndedStays
    <3>3. ctl'[q] = ctl[q]
      <4>1. \A t \in A : handle[t] # q
        BY <3>1, <1>h
      <4> QED BY <4>1 DEF Shift
    <3> QED BY <3>1, <3>2, <3>3, <2>2, LoneEnded
  <2>5. CASE u \notin A /\ \A p \in S : run'[p].task # u
    <3>1. run'[q] = run[q]
      BY <2>1, <2>5, <1>2, ShiftRuns
    <3>2. /\ handle'[u] = handle[u]
          /\ task'[u].state = task[u].state /\ task'[u].taint = task[u].taint
      BY <2>5, <1>0 DEF Shift, Calm
    <3>3. ctl'[q] = ctl[q]
      <4>1. \A t \in A : handle[t] # q
        BY <2>1, <2>5, <1>h
      <4> QED BY <4>1 DEF Shift
    <3> QED BY <3>1, <3>2, <3>3, <2>1, <1>0, <1>b, <1>e, LoneKept
  <2> QED BY <2>3, <2>4, <2>5
<1>3. ASSUME NEW u \in Tasks PROVE Staffed(u)'
  <2>1. CASE u \in A
    BY <2>1, <1>0 DEF Calm, Staffed, isTerminal, Terminal, Working
  <2>2. CASE \E p \in S : run'[p].task = u
    BY <2>2 DEF Shift, Staffed, Suspended
  <2>3. CASE u \notin A /\ \A p \in S : run'[p].task # u
    <3>1. task'[u].state = task[u].state /\ Staffed(u)
      BY <2>3, <1>0 DEF Calm, SInv, Alone
    <3>2. ASSUME NEW q \in Runs, run[q].pc \in Suspended, run[q].task = u
          PROVE  run'[q].pc \in Suspended /\ run'[q].task = u
      <4>1. q \notin S
        BY <3>2 DEF Shift, Suspended
      <4> QED BY <4>1, <3>2, ShiftRuns
    <3> QED BY <3>1, <3>2, <1>e, StaffedKept
  <2> QED BY <2>1, <2>2, <2>3
<1> QED BY <1>1, <1>2, <1>3

\* A calm step follows only calm states.
LEMMA ShiftCalm ==
    ASSUME Step, NEW A \in SUBSET Tasks, NEW S \in SUBSET Runs, Shift(A, S),
           phase' = phase, Undisturbed'
    PROVE  Undisturbed
<1>0. Registered /\ NoRun \notin Runs
  BY Facts DEF Step, SInv
<1>1. ASSUME NEW q \in Runs, ctl[q] = "paused" PROVE FALSE
  <2>1. \A t \in A : handle[t] # q
    BY <1>0, <1>1 DEF Registered, Going
  <2>2. ctl'[q] = "paused"
    BY <2>1, <1>1 DEF Shift
  <2> QED BY <2>2 DEF Undisturbed
<1> QED BY <1>1 DEF Undisturbed

LEMMA ShiftSingle ==
    ASSUME Step, NEW A \in SUBSET Tasks, NEW S \in SUBSET Runs, Shift(A, S),
           phase' = phase, Undisturbed => Calm(A, S)
    PROVE  SInv'
BY ShiftRegistered, ShiftAlone, ShiftCalm DEF SInv, Alone

\* A step that moves no run, and parks tasks if it moves any.
Parks ==
    /\ UNCHANGED <<run, handle, ctl>>
    /\ phase' # "suspending" => phase # "suspending"
    /\ \A t \in Tasks :
          /\ task'[t].taint = task[t].taint
          /\ \/ /\ task'[t].state = task[t].state
                /\ Excused(t) /\ task[t].state \in Working => Excused(t)'
             \/ task'[t].state = "PAUSED" /\ ~isTerminal(task[t].state)

LEMMA ParksSingle ==
    ASSUME Step, Parks
    PROVE  SInv'
<1>1. Registered'
  BY DEF Step, SInv, Parks, Registered, Going
<1>2. ASSUME Undisturbed'
      PROVE  (\A q \in Runs : Lone(q)') /\ (\A t \in Tasks : Staffed(t)')
  <2>0. Undisturbed /\ (\A q \in Runs : Lone(q)) /\ UNCHANGED <<run, handle, ctl>>
    BY <1>2 DEF Parks, Undisturbed, Step, SInv, Alone
  <2>1. ASSUME NEW q \in Runs PROVE Lone(q)'
    <3>1. PICK t \in Tasks : t = run[q].task
      BY Facts DEF Step
    <3>2. CASE task'[t].state = task[t].state
      <4>1. /\ task'[t].taint = task[t].taint
            /\ Excused(t) /\ task[t].state \in Working => Excused(t)'
        BY <3>2 DEF Parks, isTerminal, Working, Terminal
      <4> QED BY <4>1, <3>1, <3>2, <2>0, LoneKept
    <3>3. CASE task'[t].state = "PAUSED" /\ ~isTerminal(task[t].state)
      <4> SUFFICES ASSUME run[q].pc \in Suspended PROVE Lone(q)'
        BY <2>0 DEF Lone
      <4>1. ctl[q] = "live"
        BY <3>1, <3>3, <2>0 DEF Lone
      <4>2. LiveFits(q, t)
        BY <4>1, <3>1, <2>0 DEF Lone
      <4>3. task'[t].taint = task[t].taint
        BY DEF Parks
      <4>4. handle'[t] = q /\ ~isTerminal(task'[t].state)
        BY <4>2, <3>3, <2>0 DEF LiveFits, isTerminal, Terminal
      <4>5. Placed(run[q].pc, "PAUSED") /\ Idle(run[q].pc, "PAUSED")
        BY DEF Placed, Idle, Working
      <4>6. LiveFits(q, t)'
        BY <4>2, <4>3, <4>4, <4>5, <3>3, <2>0 DEF LiveFits
      <4> QED BY <4>1, <4>6, <3>1, <2>0, LoneThen
    <3> QED BY <3>2, <3>3 DEF Parks
  <2>2. ASSUME NEW t \in Tasks PROVE Staffed(t)'
    <3>1. Staffed(t)
      BY <2>0 DEF Step, SInv, Alone
    <3>2. CASE task'[t].state = "PAUSED"
      BY <3>2 DEF Staffed, Working
    <3>3. CASE /\ task'[t].state = task[t].state
               /\ Excused(t) /\ task[t].state \in Working => Excused(t)'
      BY <3>1, <3>3, <2>0, StaffedKept
    <3> QED BY <3>2, <3>3 DEF Parks
  <2> QED BY <2>1, <2>2
<1> QED BY <1>1, <1>2 DEF SInv, Alone

\* A task is cancelled from every state it can be in.
LEMMA CancelledEnds ==
    ASSUME NEW rec \in TaskRecord, rec.state # "ABSENT"
    PROVE  isTerminal(Transitioned(rec, "CANCELLED").state)
BY DEF Transitioned, canTransition, isTerminal, TaskRecord, TaskStates, Live, Terminal,
       Stopping

LEMMA SpawnShift ==
    ASSUME Step, NEW u \in Tasks, NEW r \in Runs, Spawn(u, r), UNCHANGED ctl,
           \A p \in Runs : run[p].pc = "spawned" => run[p].task # u
    PROVE  Shift({}, {r})
<1>1. run \in [Runs -> RunRecord] /\ handle \in [Tasks -> Runs \cup {NoRun}]
  BY Facts DEF Step
<1>2. run'[r] = Fresh(r, u, "spawned") /\ handle'[u] = r /\ run[r].pc = "unused"
  BY <1>1 DEF Spawn, Unused
<1>3. run'[r].pc = "spawned" /\ run'[r].sig = r /\ run'[r].task = u
  BY <1>2 DEF Fresh
<1>4. \A v \in Tasks : v # u => handle'[v] = handle[v]
  BY <1>1 DEF Spawn
<1>5. \A q \in Runs \ {r} : run'[q] = run[q]
  BY <1>1 DEF Spawn
<1> QED BY <1>2, <1>3, <1>4, <1>5 DEF Shift

LEMMA CreateSingle ==
    ASSUME Step, NEW t \in Tasks, NEW classic \in BOOLEAN, NEW r \in Runs,
           Create(t, classic, r)
    PROVE  SInv'
<1>1. /\ \A p \in Runs : run[p].pc \in Suspended => run[p].task # t
      /\ task \in [Tasks -> TaskRecord] /\ run \in [Runs -> RunRecord]
  BY Facts DEF Step, Create
<1>2. Shift({}, {r})
  BY <1>1, SpawnShift DEF Create, Suspended
<1>3. /\ task'[t].state = "QUEUED" /\ \A u \in Tasks \ {t} : task'[u] = task[u]
      /\ UNCHANGED <<phase, toRecover>>
  BY <1>1 DEF Create, NewTask, NoTask
<1>4. run'[r].task = t
  BY <1>1 DEF Create, Spawn, Fresh
<1>5. Calm({}, {r})
  BY <1>1, <1>3, <1>4 DEF Calm, Working
<1> QED BY <1>2, <1>3, <1>5, ShiftSingle

LEMMA ResumeStartSingle ==
    ASSUME Step, NEW t \in Tasks, NEW r \in Runs, ResumeStart(t, r)
    PROVE  SInv'
<1>0. /\ UNCHANGED <<task, ctl, phase, toRecover>>
      /\ \A q \in Runs : run[q].pc = "spawned" => run[q].task # t
  BY DEF ResumeStart, durable
<1>1. CASE UNCHANGED <<handle, run>>
  <2>1. Parks
    BY <1>0, <1>1 DEF Parks, Excused
  <2> QED BY <2>1, ParksSingle
<1>2. CASE handle[t] = NoRun /\ Spawn(t, r)
  <2>1. Shift({}, {r})
    BY <1>0, <1>2, SpawnShift
  <2>2. run'[r].task = t
    BY <1>2, Facts DEF Step, Spawn, Fresh
  <2>3. ASSUME Undisturbed, NEW p \in Runs, run[p].pc \in Suspended, run[p].task = t
        PROVE  isTerminal(task[t].state) /\ ctl[p] # "live"
    <3>1. Lone(p) /\ NoRun \notin Runs
      BY <2>3, Facts DEF Step, SInv, Alone
    <3>2. CASE ctl[p] # "live"
      BY <3>1, <3>2, <2>3 DEF Lone
    <3>3. CASE ctl[p] = "live"
      <4>1. LiveFits(p, t)
        BY <3>1, <3>3, <2>3 DEF Lone
      <4> QED BY <4>1, <3>1, <1>0, <1>2, <2>3 DEF LiveFits
    <3> QED BY <3>2, <3>3
  <2>4. ASSUME Undisturbed PROVE task[t].state \notin Working \/ Excused(t)
    <3>1. Staffed(t)
      BY <2>4 DEF Step, SInv, Alone
    <3> QED BY <3>1, <2>3, <2>4 DEF Staffed, isTerminal, Terminal, Working
  <2>5. Undisturbed => Calm({}, {r})
    BY <2>2, <2>3, <2>4, <1>0 DEF Calm
  <2> QED BY <2>1, <2>5, <1>0, ShiftSingle
<1> QED BY <1>0, <1>1, <1>2 DEF ResumeStart

LEMMA CancelSingle ==
    ASSUME Step, NEW t \in Tasks, Cancel(t)
    PROVE  SInv'
<1>0. /\ run \in [Runs -> RunRecord] /\ task \in [Tasks -> TaskRecord]
      /\ handle \in [Tasks -> Runs \cup {NoRun}] /\ NoRun \notin Runs
      /\ ctl \in [Runs -> {"live", "paused", "cancelled"}]
  BY Facts DEF Step
<1>1. Shift({t}, {})
  <2>1. \A q \in Runs : \/ run'[q] = run[q]
                        \/ /\ run[q].task = t /\ run[q].pc = "choosing"
                           /\ run'[q] = [run[q] EXCEPT !.pc = "chosen"]
    BY DEF Cancel, Choosing
  <2>2. handle'[t] = NoRun /\ \A u \in Tasks \ {t} : handle'[u] = handle[u]
    BY <1>0 DEF Cancel, Abort
  <2>3. \A q \in Runs : handle[t] # q => ctl'[q] = ctl[q]
    BY <1>0 DEF Cancel, Abort
  <2> QED BY <2>1, <2>2, <2>3 DEF Shift
<1>2. Calm({t}, {})
  <2> DEFINE rec == IF Choosing(t) = {} THEN task[t] ELSE Transitioned(task[t], "RUNNING")
  <2>1. rec \in TaskRecord /\ rec.state # "ABSENT"
    <3>1. task[t] \in TaskRecord /\ task[t].state # "ABSENT"
      BY <1>0 DEF Cancel
    <3>2. "RUNNING" \in TaskStates
      BY DEF TaskStates, Live
    <3> QED BY <3>1, <3>2, WriteTypes, GrownWrites DEF Grown
  <2>2. task' = [task EXCEPT ![t] = Transitioned(rec, "CANCELLED")]
    BY DEF Cancel, CancelRecord
  <2> HIDE DEF rec
  <2>3. isTerminal(task'[t].state) /\ \A u \in Tasks \ {t} : task'[u] = task[u]
    BY <2>1, <2>2, <1>0, CancelledEnds
  <2>4. \A q \in Runs : handle[t] = q => ctl'[q] # "live"
    BY <1>0 DEF Cancel, Abort
  <2>5. UNCHANGED <<phase, toRecover>>
    BY DEF Cancel
  <2> QED BY <2>3, <2>4, <2>5 DEF Calm
<1> QED BY <1>1, <1>2, ShiftSingle DEF Calm

LEMMA RetrySingle ==
    ASSUME Step, NEW t \in Tasks, NEW u \in Tasks, NEW r \in Runs, Retry(t, u, r)
    PROVE  SInv'
<1>0. /\ run \in [Runs -> RunRecord] /\ task \in [Tasks -> TaskRecord]
      /\ handle \in [Tasks -> Runs \cup {NoRun}] /\ NoRun \notin Runs
      /\ ctl \in [Runs -> {"live", "paused", "cancelled"}]
      /\ t # u /\ task[t].state # "ABSENT" /\ run[r].pc = "unused"
      /\ \A p \in Runs : run[p].pc \in Suspended => run[p].task # u
      /\ UNCHANGED <<phase, toRecover>>
  BY Facts DEF Step, Retry, Unused
<1>1. /\ run'[r] = Fresh(r, u, "spawned") /\ \A q \in Runs \ {r} : run'[q] = run[q]
      /\ task'[u] = NewTask(task[t].classic)
      /\ \A v \in Tasks \ {t, u} : task'[v] = task[v]
  BY <1>0 DEF Retry
<1>2. /\ run'[r].pc = "spawned" /\ run'[r].sig = r /\ run'[r].task = u
      /\ task'[u].state = "QUEUED"
  BY <1>1 DEF Fresh, NewTask, NoTask
<1>3. CASE isTerminal(task[t].state)
  <2>1. /\ handle' = [handle EXCEPT ![u] = r] /\ ctl' = ctl /\ task'[t] = task[t]
    BY <1>0, <1>3 DEF Retry
  <2>2. Shift({}, {r})
    BY <2>1, <1>0, <1>1, <1>2 DEF Shift, Suspended
  <2>3. Calm({}, {r})
    BY <2>1, <1>0, <1>1, <1>2 DEF Calm, Working
  <2> QED BY <2>2, <2>3, <1>0, ShiftSingle
<1>4. CASE ~isTerminal(task[t].state)
  <2>1. /\ handle' = [handle EXCEPT ![t] = NoRun, ![u] = r]
        /\ ctl' = IF handle[t] = NoRun THEN ctl ELSE [ctl EXCEPT ![handle[t]] = "cancelled"]
        /\ task'[t] = Transitioned(task[t], "CANCELLED")
    BY <1>0, <1>4 DEF Retry
  <2>2. isTerminal(task'[t].state)
    BY <2>1, <1>0, CancelledEnds
  <2>3. /\ handle'[t] = NoRun /\ handle'[u] = r
        /\ \A v \in Tasks \ {t, u} : handle'[v] = handle[v]
    BY <2>1, <1>0
  <2>4. \A q \in Runs : /\ handle[t] # q => ctl'[q] = ctl[q]
                        /\ handle[t] = q => ctl'[q] # "live"
    BY <2>1, <1>0
  <2>5. Shift({t}, {r})
    BY <2>3, <2>4, <1>0, <1>1, <1>2 DEF Shift, Suspended
  <2>6. Calm({t}, {r})
    BY <2>2, <2>4, <1>0, <1>1, <1>2 DEF Calm, Working
  <2> QED BY <2>5, <2>6, <1>0, ShiftSingle
<1> QED BY <1>3, <1>4

LEMMA PauseSingle ==
    ASSUME Step, NEW t \in Tasks, Pause(t)
    PROVE  SInv'
<1>0. /\ run \in [Runs -> RunRecord] /\ task \in [Tasks -> TaskRecord]
      /\ handle \in [Tasks -> Runs \cup {NoRun}] /\ NoRun \notin Runs
      /\ ctl \in [Runs -> {"live", "paused", "cancelled"}]
      /\ UNCHANGED <<run, phase, toRecover>>
      /\ task[t] \in TaskRecord /\ task[t].state # "ABSENT"
      /\ task' = [task EXCEPT ![t] = Transitioned(task[t], "PAUSED")]
  BY Facts DEF Step, Pause
<1>1. CASE handle[t] = NoRun
  <2>1. UNCHANGED <<run, handle, ctl>>
    BY <1>0, <1>1 DEF Pause, Abort
  <2>2. /\ task'[t].taint = task[t].taint
        /\ \/ task'[t].state = task[t].state
           \/ task'[t].state = "PAUSED" /\ ~isTerminal(task[t].state)
    BY <1>0 DEF Transitioned, canTransition, isTerminal, Terminal, TaskRecord, Stopping
  <2>3. Parks
    BY <2>1, <2>2, <1>0 DEF Parks, Excused
  <2> QED BY <2>3, ParksSingle
<1>2. CASE handle[t] # NoRun
  <2>1. /\ handle'[t] = NoRun /\ \A u \in Tasks \ {t} : handle'[u] = handle[u]
        /\ \A q \in Runs : handle[t] # q => ctl'[q] = ctl[q]
        /\ handle[t] \in Runs /\ ctl'[handle[t]] = "paused"
    BY <1>0, <1>2 DEF Pause, Abort
  <2>2. Shift({t}, {})
    BY <2>1, <1>0 DEF Shift
  <2>3. ~Undisturbed'
    BY <2>1 DEF Undisturbed
  <2> QED BY <2>2, <2>3, ShiftRegistered DEF SInv, Alone
<1> QED BY <1>1, <1>2

LEMMA UserStepSingle == ASSUME Step, UserStep PROVE SInv'
<1>1. ASSUME NEW t \in Tasks,
             Resume(t) \/ ApprovePlan(t) \/ RevisePlan(t) \/ AddSiteToPlan(t)
      PROVE  SInv'
  <2>1. /\ UNCHANGED <<run, handle, ctl, phase, toRecover>>
        /\ \A u \in Tasks : task'[u].state = task[u].state /\ task'[u].taint = task[u].taint
    <3>1. task \in [Tasks -> TaskRecord]
      BY Facts DEF Step
    <3>2. CASE Resume(t)
      BY <3>2 DEF Resume, durable
    <3>3. CASE ApprovePlan(t) \/ RevisePlan(t) \/ AddSiteToPlan(t)
      BY <3>1, <3>3 DEF ApprovePlan, RevisePlan, AddSiteToPlan, worker, TaskRecord
    <3> QED BY <3>2, <3>3, <1>1
  <2>2. Parks
    BY <2>1 DEF Parks, Excused
  <2> QED BY <2>2, ParksSingle
<1> QED BY <1>1, CreateSingle, RetrySingle, PauseSingle, CancelSingle DEF UserStep

LEMMA ResumeStepSingle == ASSUME Step, NEW t \in Tasks, ResumeStep(t) PROVE SInv'
<1>1. CASE ResumeRefused(t) \/ ResumeRead(t)
  <2>1. Parks
    BY <1>1 DEF ResumeRefused, ResumeRead, Parks, Excused, durable
  <2> QED BY <2>1, ParksSingle
<1> QED BY <1>1, ResumeStartSingle DEF ResumeStep

LEMMA StartupStepSingle == ASSUME Step, StartupStep PROVE SInv'
<1>0. task \in [Tasks -> TaskRecord]
  BY Facts DEF Step
<1>1. CASE ListInterrupted
  <2>1. \A t \in Tasks : task[t].state \in Working => t \in toRecover'
    BY <1>1 DEF ListInterrupted, recoveryStateFor, Working
  <2>2. \A t \in Tasks : task[t].state \in Working => Excused(t)'
    BY <2>1, <1>1 DEF ListInterrupted, Excused
  <2>3. Parks
    BY <2>2, <1>1 DEF ListInterrupted, Parks, durable
  <2> QED BY <2>3, ParksSingle
<1>2. ASSUME NEW t \in Tasks, Recover(t) PROVE SInv'
  <2>1. ASSUME NEW u \in Tasks, u # t, Excused(u) PROVE Excused(u)'
    BY <2>1, <1>2 DEF Recover, Excused
  <2>2. \A u \in Tasks \ {t} : task'[u] = task[u]
    BY <1>0, <1>2 DEF Recover
  <2>3. /\ task'[t].taint = task[t].taint
        /\ \/ task'[t].state = task[t].state /\ isTerminal(task[t].state)
           \/ task'[t].state = "PAUSED" /\ ~isTerminal(task[t].state)
    BY <1>0, <1>2 DEF Recover, TaskRecord
  <2>4. UNCHANGED <<run, handle, ctl>> /\ phase # "suspending"
    BY <1>2 DEF Recover
  <2>5. isTerminal(task[t].state) => task[t].state \notin Working
    BY DEF isTerminal, Terminal, Working
  <2>6. Parks
    BY <2>1, <2>2, <2>3, <2>4, <2>5 DEF Parks
  <2> QED BY <2>6, ParksSingle
<1> QED BY <1>1, <1>2 DEF StartupStep

LEMMA WorkerStepSingle == ASSUME Step, Suspend \/ Crash PROVE SInv'
<1>0. /\ run \in [Runs -> RunRecord] /\ handle \in [Tasks -> Runs \cup {NoRun}]
      /\ NoRun \notin Runs /\ Registered
  BY Facts DEF Step, SInv
<1>1. CASE Suspend
  <2>1. ~Undisturbed'
    BY <1>1 DEF Suspend, Undisturbed
  <2>2. \A q \in Runs : \/ run'[q] = run[q]
                        \/ /\ run[q].task \in Tasks /\ run[q].pc = "choosing"
                           /\ run'[q] = [run[q] EXCEPT !.pc = "chosen"]
    BY <1>1, Facts DEF Suspend, Step
  <2>3. /\ \A t \in Tasks : handle'[t] = NoRun
        /\ \A q \in Runs : (\A t \in Tasks : handle[t] # q) => ctl'[q] = ctl[q]
    BY <1>1 DEF Suspend
  <2>4. Shift(Tasks, {})
    BY <2>2, <2>3 DEF Shift
  <2> QED BY <2>1, <2>4, ShiftRegistered DEF SInv, Alone
<1>2. CASE Crash
  <2>1. \A q \in Runs : /\ run'[q].sig = q /\ run'[q].pc \in {"unused", "done"}
                        /\ ctl'[q] = "live"
    BY <1>0, <1>2 DEF Crash, Unused, Fresh, Registered
  <2>2. /\ \A t \in Tasks : handle'[t] = NoRun
        /\ phase' = "starting"
    BY <1>2 DEF Crash
  <2>3. Registered'
    BY <2>1, <2>2, <1>0, RegisteredThen
  <2>4. /\ \A q \in Runs : Lone(q)'
        /\ \A t \in Tasks : Staffed(t)'
    BY <2>1, <2>2 DEF Lone, Suspended, Staffed, Excused
  <2> QED BY <2>3, <2>4 DEF SInv, Alone
<1> QED BY <1>1, <1>2

LEMMA SingleInit == ASSUME Init PROVE SInv
<1>1. \A r \in Runs : run[r].pc = "unused" /\ run[r].sig = r /\ ctl[r] = "live"
  BY DEF Init, Fresh
<1>2. (\A t \in Tasks : handle[t] = NoRun) /\ phase = "starting"
  BY DEF Init
<1>3. Registered
  BY <1>1, <1>2 DEF Registered
<1>4. (\A r \in Runs : Lone(r)) /\ \A t \in Tasks : Staffed(t)
  BY <1>1, <1>2 DEF Lone, Suspended, Staffed, Excused
<1> QED BY <1>3, <1>4 DEF SInv, Alone

LEMMA SingleNext == IInv /\ IInv' /\ SInv /\ [Next]_vars => SInv'
<1> SUFFICES ASSUME IInv, IInv', SInv, [Next]_vars PROVE SInv'
  OBVIOUS
<1>1. Step
  BY NextGrows DEF Step, IInv
<1>2. CASE UNCHANGED vars
  <2>1. Parks
    BY <1>2 DEF Parks, Excused, vars, durable, worker
  <2> QED BY <2>1, <1>1, ParksSingle
<1> QED BY <1>1, <1>2, RunStepSingle, UserStepSingle, ResumeStepSingle, StartupStepSingle,
           WorkerStepSingle DEF Next


-----------------------------------------------------------------------------
(* The steps from one tool call to the next.                               *)

\* Only a run itself takes it to a tool call, or into the tool.
LEMMA OwnStep ==
    ASSUME IInv, SInv, [Next]_vars, NEW r \in Runs,
           run[r].pc \in {"calling", "dispatching"},
           run'[r].pc \in {"dispatching", "executing"}, run'[r].pc # run[r].pc
    PROVE  RunStep(r) /\ ~Begin(r) /\ ~Finish(r)
<1>0. run \in [Runs -> RunRecord]
  BY Facts
<1>u. run' # run
  OBVIOUS
<1>1. ASSUME NEW q \in Runs, RunStep(q) PROVE q = r
  <2>1. CASE Begin(q)
    <3>1. run[q].pc = "spawned" /\ \A p \in Runs \ {q} : run'[p] = run[p]
      BY <2>1, <1>0, BeginShape DEF Begin, Leaves, Enters
    <3> QED BY <3>1
  <2>2. CASE Finish(q)
    <3>1. \A p \in Runs \ {q} : run'[p] = run[p]
      BY <2>2, <1>0 DEF Finish
    <3> QED BY <3>1
  <2>3. CASE ~Begin(q) /\ ~Finish(q)
    BY <1>1, <2>3, RunStepInner DEF Inner
  <2> QED BY <2>1, <2>2, <2>3
<1>2. ~Begin(r) /\ ~Finish(r)
  BY DEF Begin, Finish
<1>s. ASSUME NEW u \in Tasks, NEW q \in Runs, run' = [run EXCEPT ![q] = Fresh(q, u, "spawned")]
      PROVE  FALSE
  <2>1. run'[r] = run[r] \/ run'[r].pc = "spawned"
    BY <1>0, <1>s DEF Fresh
  <2> QED BY <2>1
<1>3. ~UserStep
  <2>1. ASSUME NEW t \in Tasks, NEW classic \in BOOLEAN, NEW q \in Runs, Create(t, classic, q)
        PROVE  FALSE
    BY <2>1, <1>s DEF Create, Spawn
  <2>2. ASSUME NEW t \in Tasks, NEW u \in Tasks, NEW q \in Runs, Retry(t, u, q) PROVE FALSE
    BY <2>2, <1>s DEF Retry
  <2>3. ASSUME NEW t \in Tasks, Cancel(t) PROVE FALSE
    BY <2>3 DEF Cancel, Choosing
  <2>4. ASSUME NEW t \in Tasks,
               \/ Pause(t) \/ Resume(t) \/ ApprovePlan(t) \/ RevisePlan(t) \/ AddSiteToPlan(t)
        PROVE  FALSE
    BY <2>4, <1>u DEF Pause, Resume, ApprovePlan, RevisePlan, AddSiteToPlan
  <2> QED BY <2>1, <2>2, <2>3, <2>4 DEF UserStep
<1>4. ASSUME NEW t \in Tasks, ResumeStep(t) PROVE FALSE
  BY <1>4, <1>u, <1>s DEF ResumeStep, ResumeRefused, ResumeRead, ResumeStart, Spawn
<1>5. ~StartupStep
  BY <1>u DEF StartupStep, ListInterrupted, Recover
<1>6. ~Suspend
  BY DEF Suspend
<1>7. ~Crash
  BY DEF Crash, Fresh, Unused
<1>8. ~UNCHANGED vars
  BY <1>u DEF vars
<1> QED BY <1>1, <1>2, <1>3, <1>4, <1>5, <1>6, <1>7, <1>8 DEF Next

\* It leaves a tool call's check of the signal by ExecuteTool alone ...
LEMMA StartsTool ==
    ASSUME IInv, SInv, [Next]_vars, NEW r \in Runs,
           run[r].pc = "dispatching", run'[r].pc = "executing"
    PROVE  ~aborted(r)
<1>1. RunStep(r)
  BY OwnStep
<1>2. \A p \in Begun : Goto(r, p) => p = "executing"
  BY InnerGoto DEF Suspended, InTry
<1>3. ~FailTask(r)
  BY <1>2 DEF FailTask, Begun
<1>4. ~Refuse(r)
  BY Facts DEF Refuse, RunRecord
<1> QED BY <1>1, <1>3, <1>4
       DEF RunStep, Begin, Resolve, Throw, Propose, AwaitApproval, Finish, Bind, Loop,
           GenerateRejected, Backoff, GenerateText, GenerateCalls, Call, ExecuteTool,
           RequestFile, SettleFile, ToolReturns, TaintLost, Judge

\* ... and it comes to one by Call, which has checked it too.
LEMMA MakesCall ==
    ASSUME IInv, SInv, [Next]_vars, NEW r \in Runs,
           run[r].pc = "calling", run'[r].pc = "dispatching"
    PROVE  ~aborted(r)
<1>1. RunStep(r)
  BY OwnStep
<1>2. \A p \in Begun : Goto(r, p) => p = "dispatching"
  BY InnerGoto DEF Suspended, InTry
<1>3. ~FailTask(r) /\ \A s : ~Complete(r, s)
  BY <1>2 DEF FailTask, Complete, Begun
<1>4. ~Stop(r)
  BY <1>2, <1>3 DEF Stop, Begun
<1>5. ~Goto(r, "looping")
  BY <1>2 DEF Begun, InTry, Suspended
<1>6. Call(r)
  BY <1>1, <1>3
     DEF RunStep, Begin, Resolve, Throw, Propose, AwaitApproval, Finish, Bind, Loop,
         GenerateRejected, Backoff, GenerateText, GenerateCalls, Refuse, ExecuteTool,
         RequestFile, SettleFile, ToolReturns, TaintLost, Judge
<1> QED BY <1>4, <1>5, <1>6 DEF Call
-----------------------------------------------------------------------------
(* The theorems about one run per task.                                    *)

\* In every reachable state a run that was not told to stop is alone on its task.
THEOREM SingleRun == Spec => []SInv
<1>1. Init => SInv
  BY SingleInit
<1>2. IInv /\ IInv' /\ SInv /\ [Next]_vars => SInv'
  BY SingleNext
<1> QED BY <1>1, <1>2, Invariance, PTL DEF Spec

\* A live run is the one its task's slot names, so that a cancel reaches it.
THEOREM RunsAreStoppable == Spec => []LiveRunStoppable
<1>1. SInv => LiveRunStoppable
  <2> SUFFICES ASSUME SInv, Undisturbed, NEW r \in Runs, run[r].pc \in InTry, ~aborted(r)
               PROVE  handle[run[r].task] = run[r].sig
    BY DEF LiveRunStoppable
  <2>1. run[r].sig = r /\ Lone(r)
    BY DEF SInv, Registered, Alone
  <2>2. LiveFits(r, run[r].task)
    BY <2>1 DEF Lone, aborted, InTry
  <2> QED BY <2>1, <2>2 DEF LiveFits, InTry
<1> QED BY <1>1, SingleRun, PTL

\* Once startup is over, a task that claims work has a run.
THEOREM WorkHasARunner == Spec => []WorkHasRunner
<1>1. SInv => WorkHasRunner
  BY DEF SInv, Alone, Staffed, Excused, WorkHasRunner
<1> QED BY <1>1, SingleRun, PTL

\* A live run in execute's try block fits its task.
LEMMA LiveRunFits ==
    ASSUME SInv, Undisturbed, NEW r \in Runs, run[r].pc \in InTry, ~aborted(r)
    PROVE  LiveFits(r, run[r].task)
<1>1. Lone(r) /\ run[r].sig = r
  BY DEF SInv, Alone, Registered
<1> QED BY <1>1 DEF aborted, Lone, InTry

\* No tool starts for a task that has ended: the run that starts one was not
\* told to stop (tool-registry.ts checks the signal once more before it executes).
THEOREM NoToolRunsAfterEnd == Spec => NoToolAfterEnd
<1> DEFINE P == Undisturbed =>
                  \A r \in Runs : run[r].pc = "dispatching" /\ run'[r].pc = "executing"
                                     => ~isTerminal(task[run[r].task].state)
<1>1. IInv /\ SInv /\ [Next]_vars => P
  <2> SUFFICES ASSUME IInv, SInv, [Next]_vars, Undisturbed, NEW r \in Runs,
                      run[r].pc = "dispatching", run'[r].pc = "executing"
               PROVE  ~isTerminal(task[run[r].task].state)
    OBVIOUS
  <2>1. run[r].pc \in InTry
    BY DEF InTry, Suspended
  <2>2. LiveFits(r, run[r].task)
    BY <2>1, StartsTool, LiveRunFits
  <2> QED BY <2>1, <2>2 DEF LiveFits
<1> QED BY <1>1, Invariance, SingleRun, PTL DEF Spec, NoToolAfterEnd

\* Every tool call is authorised with all that its task has read: the run that
\* makes it is the only one, and started from the stored taint.
THEOREM TaintIsCarried == Spec => TaintCarried
<1> DEFINE P == Undisturbed =>
                  \A r \in Runs : run[r].pc = "calling" /\ run'[r].pc = "dispatching"
                                     => task[run[r].task].taint \subseteq run[r].ctx
<1>1. IInv /\ SInv /\ [Next]_vars => P
  <2> SUFFICES ASSUME IInv, SInv, [Next]_vars, Undisturbed, NEW r \in Runs,
                      run[r].pc = "calling", run'[r].pc = "dispatching"
               PROVE  task[run[r].task].taint \subseteq run[r].ctx
    OBVIOUS
  <2>1. run[r].pc \in InTry
    BY DEF InTry, Suspended
  <2>2. LiveFits(r, run[r].task)
    BY <2>1, MakesCall, LiveRunFits
  <2> QED BY <2>1, <2>2 DEF LiveFits
<1> QED BY <1>1, Invariance, SingleRun, PTL DEF Spec, TaintCarried
=============================================================================
