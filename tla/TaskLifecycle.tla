---------------------------- MODULE TaskLifecycle ----------------------------
(***************************************************************************)
(* The life of a task in the service worker: TaskManager, the agent        *)
(* runtime it drives, the durable task store, the file-selection broker    *)
(* and the recovery of a restarted worker.                                 *)
(*                                                                         *)
(* Every call of TaskManager.execute is a run.  Its program counter names  *)
(* the await it is suspended at; an action is the synchronous stretch of   *)
(* code from one await to the next.  A store update is a read-modify-write *)
(* under the storage mutex, queued by that stretch, so it takes effect in  *)
(* the same action.  An AbortController is created together with a run and *)
(* carries its name; a run uses the controller registered for its task     *)
(* when it begins, which need not be its own.                              *)
(***************************************************************************)
EXTENDS Naturals, FiniteSets, TaskModel

CONSTANTS
    Tasks,             \* task identifiers
    Runs,              \* names for the calls of execute(), each used once
    NoRun,             \* the value of an empty slot of the running map
    Sources,           \* things a tool may read that taint a task
    MaxModelRequests,  \* budget.maxModelRequests
    MaxAttempts,       \* retry policy: maxAttempts
    MaxCalls,          \* bound: tool calls in one model answer
    MaxAmendments,     \* bound: plan versions
    MaxCrashes,        \* bound: worker restarts
    Ops                \* the disturbances that can happen: see Disturbances

Disturbances == {"pause", "suspend", "crash"}

ASSUME ConstantsAssumption ==
    /\ Tasks # {} /\ NoRun \notin Runs
    /\ MaxModelRequests \in Nat /\ MaxAttempts \in Nat /\ MaxCalls \in Nat
    /\ MaxAmendments \in Nat /\ MaxCrashes \in Nat
    /\ Ops \subseteq Disturbances

VARIABLES
    task,       \* durable: the stored record of each task
    reported,   \* outcomes told to the lifecycle observer, per task
    run,        \* the calls of execute()
    handle,     \* TaskManager.running: the controller registered per task
    ctl,        \* the controllers: live, or aborted by a pause or otherwise
    resuming,   \* resume() calls between their awaits, per task
    phase,      \* where the worker generation is in its startup or its end
    toRecover,  \* listInterrupted's snapshot, still to be parked
    crashes     \* worker restarts so far

durable == <<task, reported>>
worker  == <<handle, ctl, resuming, phase, toRecover, crashes>>
vars    == <<durable, run, worker>>

-----------------------------------------------------------------------------
(* Records. *)

TaskRecord == [state    : TaskStates \cup {"ABSENT"},
               classic  : BOOLEAN,         \* authorizationModel = 'classic'
               proposed : BOOLEAN,         \* planProposal is present
               approval : Nat,             \* planApproval.version, 0: absent
               taint    : SUBSET Sources,
               requests : Nat,             \* usage.modelRequests
               retries  : Nat]             \* usage.retries

NoTask == [state |-> "ABSENT", classic |-> FALSE, proposed |-> FALSE, approval |-> 0,
           taint |-> {}, requests |-> 0, retries |-> 0]

\* createTask.
NewTask(classic) == [NoTask EXCEPT !.state = "QUEUED", !.classic = classic]

\* The awaits of execute() and of everything it calls.
Suspended == {"spawned", "resolving", "proposing", "proposed", "binding", "looping",
              "generating", "backoff", "calling", "dispatching", "executing",
              "choosing", "chosen", "judging", "finishing"}

\* Past the handle check, inside execute's try block.
InTry == Suspended \ {"spawned", "finishing"}

RunRecord == [pc       : Suspended \cup {"unused", "done"},
              task     : Tasks,
              sig      : Runs,            \* the controller whose signal it holds
              planned  : BOOLEAN,         \* its snapshot of the task was approved
              ctx      : SUBSET Sources,  \* taintState, the runtime's variable
              seen     : SUBSET Sources,  \* what its messages are made from
              requests : Nat, retries : Nat,
              calls    : Nat,             \* tool calls of the answer still to make
              acted    : BOOLEAN,         \* completed.length > 0
              trouble  : BOOLEAN]         \* failed or blocked is not empty

Fresh(r, t, p) == [pc |-> p, task |-> t, sig |-> r, planned |-> FALSE, ctx |-> {},
                   seen |-> {}, requests |-> 0, retries |-> 0, calls |-> 0,
                   acted |-> FALSE, trouble |-> FALSE]

AnyTask == CHOOSE t \in Tasks : TRUE

Init ==
    /\ task = [t \in Tasks |-> NoTask]
    /\ reported = [t \in Tasks |-> {}]
    /\ run = [r \in Runs |-> Fresh(r, AnyTask, "unused")]
    /\ handle = [t \in Tasks |-> NoRun]
    /\ ctl = [r \in Runs |-> "live"]
    /\ resuming = [t \in Tasks |-> "no"]
    /\ phase = "starting"
    /\ toRecover = {}
    /\ crashes = 0

aborted(r) == ctl[run[r].sig] # "live"

-----------------------------------------------------------------------------
(* The store writes a run makes, each with the await it leads to. *)

Goto(r, p) == run' = [run EXCEPT ![r].pc = p]

\* TaskManager.transition to a state that is not terminal, made by run r.
Transition(r, next) ==
    /\ task' = [task EXCEPT ![run[r].task] = Transitioned(@, next)]
    /\ UNCHANGED reported

\* Mutation: the observer is told although the write did not apply.
CompleteAlwaysReports(r, outcome) ==
    LET t == run[r].task IN
    /\ task' = [task EXCEPT ![t] = Completed(@, outcome)]
    /\ reported' = [reported EXCEPT ![t] = @ \cup {outcome}]
    /\ Goto(r, "finishing")

\* RuntimeCallbacks.onComplete; the observer hears of it when it applied.
Complete(r, outcome) ==
    LET t == run[r].task IN
    /\ task' = [task EXCEPT ![t] = Completed(@, outcome)]
    /\ reported' = [reported EXCEPT ![t] =
                        IF completeApplies(task[t], outcome) THEN @ \cup {outcome} ELSE @]
    /\ Goto(r, "finishing")

\* TaskManager.fail.
FailTask(r) ==
    LET t == run[r].task IN
    /\ task' = [task EXCEPT ![t] = Failed(@)]
    /\ reported' = [reported EXCEPT ![t] =
                        IF isTerminal(task[t].state) THEN @ ELSE @ \cup {"FAILED"}]
    /\ Goto(r, "finishing")

\* AgentRuntime.stop: a pause writes nothing, any other abort cancels.
Stop(r) ==
    IF ctl[run[r].sig] = "paused"
    THEN Goto(r, "finishing") /\ UNCHANGED durable
    ELSE Complete(r, "CANCELLED")

\* completed.length > 0 ? 'PARTIAL' : 'FAILED'.
StoppedShort(r) == IF run[r].acted THEN "PARTIAL" ELSE "FAILED"

-----------------------------------------------------------------------------
(* TaskManager.execute up to the runtime. *)

\* Mutation: the run takes a proposal for an approval.
BeginTrustsProposal(r) ==
    LET t == run[r].task
        h == handle[t]
        rec == task[t]
    IN
    /\ run[r].pc = "spawned"
    /\ h # NoRun /\ ~isTerminal(rec.state)
    /\ run' = [run EXCEPT ![r] =
                  [run[r] EXCEPT !.pc = "resolving", !.sig = h, !.planned = rec.proposed,
                            !.ctx = rec.taint]]
    /\ UNCHANGED <<durable, worker>>

\* Mutation: a resumed run starts from clean taint.
BeginClean(r) ==
    LET t == run[r].task
        h == handle[t]
    IN
    /\ run[r].pc = "spawned"
    /\ h # NoRun /\ ~isTerminal(task[t].state)
    /\ run' = [run EXCEPT ![r] = [run[r] EXCEPT !.pc = "resolving", !.sig = h]]
    /\ UNCHANGED <<durable, worker>>

\* getTask has answered: the handle is checked and the task read.
Begin(r) ==
    LET t == run[r].task
        h == handle[t]
        rec == task[t]
    IN
    /\ run[r].pc = "spawned"
    /\ IF h = NoRun \/ isTerminal(rec.state) \/ ctl[h] # "live"
       THEN /\ handle' = [handle EXCEPT ![t] = NoRun]
            /\ run' = [run EXCEPT ![r] = Fresh(r, AnyTask, "done")]
       ELSE /\ run' = [run EXCEPT ![r] =
                  [run[r] EXCEPT !.pc = "resolving", !.sig = h, !.planned = rec.approval > 0,
                            !.ctx = rec.taint,
                            !.requests = rec.requests, !.retries = rec.retries]]
            /\ UNCHANGED handle
    /\ UNCHANGED <<durable, ctl, resuming, phase, toRecover, crashes>>

\* resolveProvider answered with the task's own provider and model.
Resolve(r) ==
    LET t == run[r].task IN
    /\ run[r].pc = "resolving"
    /\ Transition(r, "PLANNING")
    /\ Goto(r, CASE ~transitionAllowed(task[t], "PLANNING") -> "finishing"
                 [] transitionAllowed(task[t], "PLANNING")
                    /\ task[t].classic /\ ~run[r].planned -> "proposing"
                 [] OTHER -> "binding")
    /\ UNCHANGED worker

\* The provider changed under the task, or something in the try block threw.
Throw(r) ==
    /\ run[r].pc \in InTry
    /\ run[r].pc = "proposing" => ~aborted(r)
    /\ FailTask(r)
    /\ UNCHANGED worker

\* proposePlan: the planning turn answered.
Propose(r) ==
    LET t == run[r].task IN
    /\ run[r].pc = "proposing"
    /\ IF aborted(r)
       THEN Goto(r, "finishing") /\ UNCHANGED task
       ELSE /\ task' = [task EXCEPT ![t].proposed = TRUE]
            /\ Goto(r, "proposed")
    /\ UNCHANGED <<reported, worker>>

\* proposePlan: the proposal is stored; the task waits for its approval.
AwaitApproval(r) ==
    /\ run[r].pc = "proposed"
    /\ Transition(r, "WAITING_FOR_USER")
    /\ Goto(r, "finishing")
    /\ UNCHANGED worker

\* execute's finally: drops whatever handle the task has by now.
Finish(r) ==
    /\ run[r].pc = "finishing"
    /\ handle' = [handle EXCEPT ![run[r].task] = NoRun]
    /\ run' = [run EXCEPT ![r] = Fresh(r, AnyTask, "done")]
    /\ UNCHANGED <<durable, ctl, resuming, phase, toRecover, crashes>>

-----------------------------------------------------------------------------
(* AgentRuntime.run. *)

\* The tab is known: run() begins.  A model without tool calling blocks the
\* task, an evidence key that cannot be restored stops it.
Bind(r) ==
    /\ run[r].pc = "binding"
    /\ \/ Complete(r, "BLOCKED")
       \/ Complete(r, "PARTIAL")
       \/ Transition(r, "PLANNING") /\ Goto(r, "looping")
    /\ UNCHANGED worker

\* Top of the loop: the abort check, checkBudget (time may run out at any
\* turn, requests do at their limit), then RUNNING and the model request.
Loop(r) ==
    /\ run[r].pc = "looping"
    /\ \/ aborted(r) /\ Stop(r)
       \/ ~aborted(r) /\ Complete(r, StoppedShort(r))
       \/ /\ ~aborted(r)
          /\ run[r].requests < MaxModelRequests
          /\ Transition(r, "RUNNING")
          /\ Goto(r, "generating")
    /\ UNCHANGED worker

\* Mutation: a retry is not counted.
GenerateRejectedUncounted(r) ==
    /\ run[r].pc = "generating"
    /\ \/ aborted(r) /\ Stop(r)
       \/ /\ run[r].retries + 1 < MaxAttempts
          /\ Transition(r, "RECOVERING")
          /\ Goto(r, "backoff")
       \/ Complete(r, StoppedShort(r))
    /\ UNCHANGED worker

\* provider.generate rejected: cancelled, worth a retry, or final.
GenerateRejected(r) ==
    /\ run[r].pc = "generating"
    /\ \/ aborted(r) /\ Stop(r)
       \/ /\ run[r].retries + 1 < MaxAttempts
          /\ Transition(r, "RECOVERING")
          /\ run' = [run EXCEPT ![r] = [run[r] EXCEPT !.pc = "backoff", !.retries = @ + 1]]
       \/ Complete(r, StoppedShort(r))
    /\ UNCHANGED worker

\* sleep(retry.delayMs, signal) ended.
Backoff(r) ==
    /\ run[r].pc = "backoff"
    /\ \/ aborted(r) /\ Stop(r)
       \/ ~aborted(r) /\ Goto(r, "looping") /\ UNCHANGED durable
    /\ UNCHANGED worker

\* onUsage: the run's own counters replace the stored ones.
UsageStored(rec, r, requests) ==
    [rec EXCEPT !.requests = requests, !.retries = run[r].retries]

\* The model answered in text, which ends the task.  There is no abort check
\* between the answer and the terminal write.
GenerateText(r) ==
    LET t == run[r].task
        outcome == IF run[r].trouble THEN "PARTIAL" ELSE "COMPLETED"
        counted == UsageStored(task[t], r, run[r].requests + 1)
    IN
    /\ run[r].pc = "generating"
    /\ task' = [task EXCEPT ![t] = Completed(counted, outcome)]
    /\ reported' = [reported EXCEPT ![t] =
                        IF completeApplies(task[t], outcome) THEN @ \cup {outcome} ELSE @]
    /\ Goto(r, "finishing")
    /\ UNCHANGED worker

\* The model answered with n tool calls.
GenerateCalls(r, n) ==
    LET t == run[r].task IN
    /\ run[r].pc = "generating"
    /\ task' = [task EXCEPT ![t] = UsageStored(@, r, run[r].requests + 1)]
    /\ run' = [run EXCEPT ![r] =
                  [run[r] EXCEPT !.pc = "calling", !.requests = @ + 1, !.calls = n]]
    /\ UNCHANGED <<reported, worker>>

\* Mutation: the loop runs past the last call.
CallPastTheEnd(r) ==
    /\ run[r].pc = "calling"
    /\ \/ run[r].calls = 0 /\ Goto(r, "looping")
       \/ run' = [run EXCEPT ![r] = [run[r] EXCEPT !.calls = @ - 1, !.trouble = TRUE]]
    /\ UNCHANGED <<durable, worker>>

\* The loop over the answer's tool calls: its end, its abort check, a call
\* with malformed arguments, and a call that is dispatched.
Call(r) ==
    LET t == run[r].task IN
    /\ run[r].pc = "calling"
    /\ \/ /\ run[r].calls = 0
          /\ task' = [task EXCEPT ![t] = UsageStored(@, r, run[r].requests)]
          /\ Goto(r, "looping")
          /\ UNCHANGED reported
       \/ run[r].calls > 0 /\ aborted(r) /\ Stop(r)
       \/ /\ run[r].calls > 0 /\ ~aborted(r)
          /\ run' = [run EXCEPT ![r] = [run[r] EXCEPT !.calls = @ - 1, !.trouble = TRUE]]
          /\ UNCHANGED durable
       \/ /\ run[r].calls > 0 /\ ~aborted(r)
          /\ Transition(r, "WAITING_FOR_TOOL")
          /\ Goto(r, "dispatching")
    /\ UNCHANGED worker

-----------------------------------------------------------------------------
(* ToolRegistry.dispatch, as one call of it looks to the runtime. *)

\* Refused by the schema, the policy, the egress gate, the person or a prompt
\* that expired; or the task was aborted while that was being decided.
Refuse(r) ==
    /\ run[r].pc = "dispatching"
    /\ run' = [run EXCEPT ![r] = [run[r] EXCEPT !.pc = "judging", !.trouble = TRUE]]
    /\ UNCHANGED <<durable, worker>>

\* Mutation: no abort check after the approval.
ExecuteToolUnchecked(r) ==
    /\ run[r].pc = "dispatching"
    /\ Goto(r, "executing")
    /\ UNCHANGED <<durable, worker>>

\* Approved, and not aborted since: the tool starts.
ExecuteTool(r) ==
    /\ run[r].pc = "dispatching"
    /\ ~aborted(r)
    /\ Goto(r, "executing")
    /\ UNCHANGED <<durable, worker>>

\* FileSelectionBroker.request, from inside a tool.
RequestFile(r) ==
    /\ run[r].pc = "executing"
    /\ Transition(r, "WAITING_FOR_USER")
    /\ Goto(r, "choosing")
    /\ UNCHANGED worker

\* The person answered, or the broker's timer did.  Nothing asks whether the
\* task was paused meanwhile.
SettleFile(r) ==
    /\ run[r].pc = "choosing"
    /\ Transition(r, "RUNNING")
    /\ Goto(r, "chosen")
    /\ UNCHANGED worker

\* The tool returned what it read from the sources read, and appendTaint put
\* them on the record before the result may enter the conversation.
ToolReturns(r, read) ==
    LET t == run[r].task
        taint == task[t].taint \cup read
    IN
    /\ run[r].pc \in {"executing", "chosen"}
    /\ task' = [task EXCEPT ![t].taint = taint]
    /\ \E ok \in BOOLEAN :
         run' = [run EXCEPT ![r] =
                    [run[r] EXCEPT !.pc = "judging",
                              !.ctx = IF read = {} THEN @ ELSE taint,
                              !.seen = @ \cup read,
                              !.acted = IF ok THEN TRUE ELSE @,
                              !.trouble = IF ok THEN @ ELSE TRUE]]
    /\ UNCHANGED <<reported, worker>>

\* Mutation: the run goes on although its taint could not be stored.
TaintLostIgnored(r) ==
    /\ run[r].pc \in {"executing", "chosen"}
    /\ run' = [run EXCEPT ![r] = [run[r] EXCEPT !.pc = "judging", !.seen = Sources]]
    /\ UNCHANGED <<durable, worker>>

\* The tool returned and its taint could not be stored.
TaintLost(r) ==
    /\ run[r].pc \in {"executing", "chosen"}
    /\ Complete(r, "PARTIAL")
    /\ UNCHANGED worker

\* The call is recorded; the loop detector may end the task.
Judge(r) ==
    /\ run[r].pc = "judging"
    /\ \/ Complete(r, StoppedShort(r))
       \/ /\ run' = [run EXCEPT ![r] = [run[r] EXCEPT !.pc = "calling", !.calls = @ - 1]]
          /\ UNCHANGED durable
    /\ UNCHANGED worker

RunStep(r) ==
    \/ Begin(r) \/ Resolve(r) \/ Throw(r) \/ Propose(r) \/ AwaitApproval(r) \/ Finish(r)
    \/ Bind(r) \/ Loop(r) \/ GenerateRejected(r) \/ Backoff(r) \/ GenerateText(r)
    \/ \E n \in 1..MaxCalls : GenerateCalls(r, n)
    \/ Call(r) \/ Refuse(r) \/ ExecuteTool(r) \/ RequestFile(r) \/ SettleFile(r)
    \/ \E read \in SUBSET Sources : ToolReturns(r, read)
    \/ TaintLost(r) \/ Judge(r)

-----------------------------------------------------------------------------
(* The routes of the side panel.  Handlers are registered before startup is *)
(* awaited, so messages are answered in every phase but the last moments.   *)

Serving == phase # "suspending"

Unused(r) == run[r].pc = "unused"

\* The runs of task t that wait for the file broker.
Choosing(t) == {r \in Runs : run[r].pc = "choosing" /\ run[r].task = t}

\* running.set and the unawaited call of execute().
Spawn(t, r) ==
    /\ Unused(r)
    /\ handle' = [handle EXCEPT ![t] = r]
    /\ run' = [run EXCEPT ![r] = Fresh(r, t, "spawned")]

\* The registered controller of t, if any, is aborted and dropped.
Abort(t, reason) ==
    /\ ctl' = IF handle[t] = NoRun THEN ctl ELSE [ctl EXCEPT ![handle[t]] = reason]
    /\ handle' = [handle EXCEPT ![t] = NoRun]

\* task.create.
Create(t, classic, r) ==
    /\ Serving /\ task[t].state = "ABSENT"
    /\ task' = [task EXCEPT ![t] = NewTask(classic)]
    /\ Spawn(t, r)
    /\ UNCHANGED <<reported, ctl, resuming, phase, toRecover, crashes>>

\* task.pause.
Pause(t) ==
    /\ "pause" \in Ops
    /\ Serving /\ task[t].state # "ABSENT"
    /\ Abort(t, "paused")
    /\ task' = [task EXCEPT ![t] = Transitioned(@, "PAUSED")]
    /\ UNCHANGED <<reported, run, resuming, phase, toRecover, crashes>>

\* TaskManager.cancel on the record rec; the observer is told on every call.
CancelRecord(t, rec) ==
    /\ task' = [task EXCEPT ![t] = Transitioned(rec, "CANCELLED")]
    /\ reported' = [reported EXCEPT ![t] =
                        IF transitionAllowed(rec, "CANCELLED") THEN @ \cup {"CANCELLED"} ELSE @]

\* task.cancel: file requests are settled first, each as if answered.
Cancel(t) ==
    LET rec == IF Choosing(t) = {} THEN task[t] ELSE Transitioned(task[t], "RUNNING") IN
    /\ Serving /\ task[t].state # "ABSENT"
    /\ run' = [r \in Runs |-> IF r \in Choosing(t) THEN [run[r] EXCEPT !.pc = "chosen"]
                              ELSE run[r]]
    /\ Abort(t, "cancelled")
    /\ CancelRecord(t, rec)
    /\ UNCHANGED <<resuming, phase, toRecover, crashes>>

\* task.retry: a live task is cancelled, and its objective becomes task u.
Retry(t, u, r) ==
    LET stopped == IF isTerminal(task[t].state) THEN task[t]
                   ELSE Transitioned(task[t], "CANCELLED")
    IN
    /\ Serving /\ task[t].state # "ABSENT" /\ task[u].state = "ABSENT"
    /\ Unused(r)
    /\ task' = [task EXCEPT ![t] = stopped, ![u] = NewTask(task[t].classic)]
    /\ IF isTerminal(task[t].state)
       THEN /\ handle' = [handle EXCEPT ![u] = r]
            /\ UNCHANGED <<ctl, reported>>
       ELSE /\ ctl' = IF handle[t] = NoRun THEN ctl ELSE [ctl EXCEPT ![handle[t]] = "cancelled"]
            /\ handle' = [handle EXCEPT ![t] = NoRun, ![u] = r]
            /\ reported' = [reported EXCEPT ![t] =
                   IF transitionAllowed(task[t], "CANCELLED") THEN @ \cup {"CANCELLED"} ELSE @]
    /\ run' = [run EXCEPT ![r] = Fresh(r, u, "spawned")]
    /\ UNCHANGED <<resuming, phase, toRecover, crashes>>

\* task.resume, up to its first await.  Bound: one resume at a time per task.
Resume(t) ==
    /\ Serving /\ task[t].state # "ABSENT" /\ resuming[t] = "no"
    /\ resuming' = [resuming EXCEPT ![t] = "asked"]
    /\ UNCHANGED <<durable, run, handle, ctl, phase, toRecover, crashes>>

\* resume: persistence is unhealthy, or the task has finished.
ResumeRefused(t) ==
    /\ resuming[t] = "asked"
    /\ resuming' = [resuming EXCEPT ![t] = "no"]
    /\ UNCHANGED <<durable, run, handle, ctl, phase, toRecover, crashes>>

\* resume: getTask read a task that has not finished.
ResumeRead(t) ==
    /\ resuming[t] = "asked"
    /\ ~isTerminal(task[t].state)
    /\ resuming' = [resuming EXCEPT ![t] = "read"]
    /\ UNCHANGED <<durable, run, handle, ctl, phase, toRecover, crashes>>

\* Mutation: resume does not look for a handle.
ResumeStartTwice(t, r) ==
    /\ resuming[t] = "read"
    /\ resuming' = [resuming EXCEPT ![t] = "no"]
    /\ Spawn(t, r)
    /\ UNCHANGED <<durable, ctl, phase, toRecover, crashes>>

\* resume: a registered handle means the task runs already.  The storage mutex
\* is first in, first out per key, so a run spawned earlier has been given its
\* own read of the record, and has begun, before this read is answered.
ResumeStart(t, r) ==
    /\ resuming[t] = "read"
    /\ \A q \in Runs : ~(run[q].pc = "spawned" /\ run[q].task = t)
    /\ resuming' = [resuming EXCEPT ![t] = "no"]
    /\ \/ handle[t] # NoRun /\ UNCHANGED <<handle, run>>
       \/ handle[t] = NoRun /\ Spawn(t, r)
    /\ UNCHANGED <<durable, ctl, phase, toRecover, crashes>>

\* Mutation: a second approval is accepted.
ApprovePlanAgain(t) ==
    /\ Serving /\ resuming[t] = "no"
    /\ task[t].state \in Live /\ task[t].proposed
    /\ task' = [task EXCEPT ![t].approval = 1]
    /\ resuming' = [resuming EXCEPT ![t] = "asked"]
    /\ UNCHANGED <<reported, run, handle, ctl, phase, toRecover, crashes>>

\* plan.approve, up to the resume it ends in.
ApprovePlan(t) ==
    /\ Serving /\ resuming[t] = "no"
    /\ task[t].state \in Live /\ task[t].approval = 0 /\ task[t].proposed
    /\ task' = [task EXCEPT ![t].approval = 1]
    /\ resuming' = [resuming EXCEPT ![t] = "asked"]
    /\ UNCHANGED <<reported, run, handle, ctl, phase, toRecover, crashes>>

\* plan.revise: the proposal is dropped and the task planned again.
RevisePlan(t) ==
    /\ Serving /\ resuming[t] = "no"
    /\ task[t].state \in Live /\ task[t].approval = 0
    /\ task' = [task EXCEPT ![t].proposed = FALSE]
    /\ resuming' = [resuming EXCEPT ![t] = "asked"]
    /\ UNCHANGED <<reported, run, handle, ctl, phase, toRecover, crashes>>

\* addSiteToPlan, from "allow for this task" in a permission prompt.
AddSiteToPlan(t) ==
    /\ task[t].approval \in 1..MaxAmendments
    /\ \E r \in Runs : run[r].task = t /\ run[r].pc = "dispatching"
    /\ task' = [task EXCEPT ![t].approval = @ + 1]
    /\ UNCHANGED <<reported, run, worker>>

-----------------------------------------------------------------------------
(* The worker's own life. *)

\* chrome.runtime.onSuspend: abortAll and the brokers' denyAll and cancelAll.
Suspend ==
    /\ "suspend" \in Ops /\ crashes < MaxCrashes
    /\ Serving
    /\ phase' = "suspending"
    /\ ctl' = [r \in Runs |-> IF \E t \in Tasks : handle[t] = r THEN "cancelled" ELSE ctl[r]]
    /\ handle' = [t \in Tasks |-> NoRun]
    /\ task' = [t \in Tasks |-> IF Choosing(t) = {} THEN task[t]
                                ELSE Transitioned(task[t], "RUNNING")]
    /\ run' = [r \in Runs |-> IF run[r].pc = "choosing" THEN [run[r] EXCEPT !.pc = "chosen"]
                              ELSE run[r]]
    /\ UNCHANGED <<reported, resuming, toRecover, crashes>>

\* The worker dies with everything it holds in memory; another one starts.
Crash ==
    /\ "crash" \in Ops /\ crashes < MaxCrashes
    /\ crashes' = crashes + 1
    /\ run' = [r \in Runs |-> IF Unused(r) THEN run[r] ELSE Fresh(r, AnyTask, "done")]
    /\ handle' = [t \in Tasks |-> NoRun]
    /\ resuming' = [t \in Tasks |-> "no"]
    /\ ctl' = [r \in Runs |-> "live"]
    /\ toRecover' = {}
    /\ phase' = "starting"
    /\ UNCHANGED durable

\* recoverInterruptedTasks: listInterrupted.
ListInterrupted ==
    /\ phase = "starting"
    /\ toRecover' = {t \in Tasks : recoveryStateFor(task[t].state) # task[t].state}
    /\ phase' = IF toRecover' = {} THEN "up" ELSE "recovering"
    /\ UNCHANGED <<durable, run, handle, ctl, resuming, crashes>>

\* Mutation: a listed task is parked whatever became of it.
RecoverBlind(t) ==
    /\ t \in toRecover /\ phase = "recovering"
    /\ task' = [task EXCEPT ![t].state = "PAUSED"]
    /\ toRecover' = toRecover \ {t}
    /\ phase' = IF toRecover' = {} THEN "up" ELSE "recovering"
    /\ UNCHANGED <<reported, run, handle, ctl, resuming, crashes>>

\* recoverInterruptedTasks: one listed task is parked, as it was when listed.
Recover(t) ==
    /\ t \in toRecover /\ phase = "recovering"
    /\ task' = [task EXCEPT ![t] = IF isTerminal(@.state) THEN @
                                   ELSE [@ EXCEPT !.state = "PAUSED"]]
    /\ toRecover' = toRecover \ {t}
    /\ phase' = IF toRecover' = {} THEN "up" ELSE "recovering"
    /\ UNCHANGED <<reported, run, handle, ctl, resuming, crashes>>

-----------------------------------------------------------------------------
UserStep ==
    \E t \in Tasks :
        \/ \E classic \in BOOLEAN, r \in Runs : Create(t, classic, r)
        \/ \E u \in Tasks, r \in Runs : Retry(t, u, r)
        \/ Pause(t) \/ Cancel(t) \/ Resume(t)
        \/ ApprovePlan(t) \/ RevisePlan(t) \/ AddSiteToPlan(t)

ResumeStep(t) ==
    \/ ResumeRefused(t) \/ ResumeRead(t)
    \/ \E r \in Runs : ResumeStart(t, r)

StartupStep == ListInterrupted \/ \E t \in Tasks : Recover(t)

Next ==
    \/ \E r \in Runs : RunStep(r)
    \/ UserStep
    \/ \E t \in Tasks : ResumeStep(t)
    \/ StartupStep
    \/ Suspend
    \/ Crash

Spec == Init /\ [][Next]_vars

\* Every await a run makes ends: provider requests and tools have timeouts,
\* prompts expire, and the event loop runs every settled continuation.
FairSpec ==
    /\ Spec
    /\ \A r \in Runs : WF_vars(RunStep(r))
    /\ WF_vars(StartupStep)

-----------------------------------------------------------------------------
(* Properties. *)

Phases == {"starting", "recovering", "up", "suspending"}

DurableType ==
    /\ task \in [Tasks -> TaskRecord]
    /\ reported \in [Tasks -> SUBSET Terminal]

RunType == run \in [Runs -> RunRecord]

WorkerType ==
    /\ handle \in [Tasks -> Runs \cup {NoRun}]
    /\ ctl \in [Runs -> {"live", "paused", "cancelled"}]
    /\ resuming \in [Tasks -> {"no", "asked", "read"}]
    /\ phase \in Phases
    /\ toRecover \subseteq Tasks
    /\ crashes \in Nat

\* Nobody has paused a running task in this worker generation, and the worker
\* is not being put away.  A paused run goes on until it notices, and may meet
\* the run that resumes its task; what is said of one run per task holds of
\* behaviours in which no such two meet.
Undisturbed == phase # "suspending" /\ \A r \in Runs : ctl[r] # "paused"

\* Every variable keeps its type; in particular a run never runs past the last
\* tool call of an answer.
TypeOK == DurableType /\ RunType /\ WorkerType

\* A finished task keeps its outcome: no late answer of an older run, no
\* recovery, no route and no file request moves the record again
\* (task-model.ts: no transition leaves a terminal state).
TerminalIsFinal ==
    [][\A t \in Tasks : isTerminal(task[t].state) => task'[t].state = task[t].state]_vars

\* What a run's conversation was made from is in the taint it authorises the
\* next request and the next tool call with, and that taint is on the stored
\* record, whatever was paused, resumed or restarted in between
\* (agent-runtime.ts persists taint before the result is used).
TaintRecorded ==
    \A r \in Runs : /\ run[r].seen \subseteq run[r].ctx
                    /\ run[r].pc \in Suspended => run[r].ctx \subseteq task[run[r].task].taint

\* Once a task has read something, every tool call the model makes afterwards
\* is authorised as carrying it (taint-state.ts: "once a task has read something
\* sensitive, every argument the model subsequently produces is treated as
\* carrying it").
TaintCarried ==
    [][Undisturbed =>
         \A r \in Runs : run[r].pc = "calling" /\ run'[r].pc = "dispatching"
                            => task[run[r].task].taint \subseteq run[r].ctx]_vars

\* The lifecycle observer is only ever told the outcome the store holds, so it
\* never hears two different outcomes of one task (task-manager.ts, fail and
\* onComplete: "an observer can never see a terminal state the store does not
\* hold").
OutcomeTruthful == \A t \in Tasks : reported[t] \subseteq {task[t].state}

\* A task that plans first touches nothing before a person approved a plan,
\* although a run decides this on the record it read when it began.
PlanGate ==
    \A r \in Runs : /\ run[r].pc \in {"dispatching", "executing", "choosing", "chosen"}
                    /\ task[run[r].task].classic
                    => task[run[r].task].approval > 0

\* An approval is never minted again nor lost, so the sites the person added
\* during the run stay (approvePlanFor refuses a second approval).
ApprovalKept ==
    [][\A t \in Tasks : task[t].state # "ABSENT" =>
                           task[t].approval <= task'[t].approval]_vars

\* A run that has not been told to stop can be: the handle registered for its
\* task is the controller it listens to (task-manager.ts, running: "Abort
\* handles for tasks currently executing in this worker generation").
LiveRunStoppable ==
    Undisturbed =>
        \A r \in Runs : run[r].pc \in InTry /\ ~aborted(r) => handle[run[r].task] = run[r].sig

\* Stop means stop: no tool starts for a task that has ended.
NoToolAfterEnd ==
    [][Undisturbed =>
         \A r \in Runs : run[r].pc = "dispatching" /\ run'[r].pc = "executing"
                            => ~isTerminal(task[run[r].task].state)]_vars

\* No task claims to be worked on while nothing executes it, once a new worker
\* generation has recovered (lifecycle-manager.ts, recoverInterruptedTasks).
WorkHasRunner ==
    phase = "up" /\ Undisturbed =>
        \A t \in Tasks : task[t].state \in Working =>
            \E r \in Runs : run[r].pc \in Suspended /\ run[r].task = t

\* Only the user leaves PAUSED: a paused task moves again by being cancelled
\* or through a run that was not itself told to pause (task-model.ts).
OnlyUserLeavesPaused ==
    [][\A t \in Tasks :
         task[t].state = "PAUSED" /\ task'[t].state \notin {"PAUSED", "CANCELLED"}
            => \E r \in Runs : run[r].task = t /\ run[r].pc \in Suspended /\ ~aborted(r)]_vars

\* Every run ends: the budget bounds its turns and every await ends.
RunsEnd == \A r \in Runs : run[r].pc \in Suspended ~> run[r].pc = "done"

\* A task being worked on comes to an end or to a person.
WorkSettles ==
    \A t \in Tasks : task[t].state \in Working
                        ~> task[t].state \in Terminal \cup {"WAITING_FOR_USER", "PAUSED"}
=============================================================================
