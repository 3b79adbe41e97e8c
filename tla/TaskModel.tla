------------------------------ MODULE TaskModel ------------------------------
(***************************************************************************)
(* The task state machine of src/src/tasks/task-model.ts, the store writes *)
(* that move a record along it, and the state a record is parked in when   *)
(* the service worker restarts (task-store.ts).  Constant operators only.  *)
(***************************************************************************)

\* TERMINAL_STATES.
Terminal == {"COMPLETED", "PARTIAL", "BLOCKED", "FAILED", "CANCELLED"}

Live == {"QUEUED", "PLANNING", "RUNNING", "WAITING_FOR_TOOL",
         "WAITING_FOR_PERMISSION", "WAITING_FOR_USER", "PAUSED", "RECOVERING"}

\* TASK_STATES.
TaskStates == Live \cup Terminal

\* isTerminal.
isTerminal(s) == s \in Terminal

\* The four ways of stopping, which every live state but PAUSED permits.
Stopping == {"CANCELLED", "FAILED", "BLOCKED", "PARTIAL"}

\* Mutation: the table without PARTIAL in the waiting states.
canTransitionStranding(from, to) ==
    \/ from = "QUEUED" /\ to \in {"PLANNING", "PAUSED", "CANCELLED", "FAILED", "BLOCKED"}
    \/ from \in {"PLANNING", "RUNNING"} /\ to # from
    \/ from = "WAITING_FOR_TOOL"
       /\ to \in {"RUNNING", "WAITING_FOR_USER", "RECOVERING", "PAUSED",
                  "CANCELLED", "FAILED", "BLOCKED"}
    \/ from = "WAITING_FOR_USER"
       /\ to \in {"RUNNING", "PLANNING", "PAUSED", "CANCELLED", "FAILED", "BLOCKED"}
    \/ from = "PAUSED" /\ to \in {"RUNNING", "PLANNING", "CANCELLED", "FAILED"}
    \/ from = "RECOVERING" /\ to \in {"RUNNING", "PLANNING", "PAUSED"} \cup Stopping

\* canTransition over the table TRANSITIONS.
canTransition(from, to) ==
    \/ from = "QUEUED" /\ to \in {"PLANNING", "PAUSED"} \cup Stopping
    \/ from = "PLANNING"
       /\ to \in {"RUNNING", "WAITING_FOR_USER", "PAUSED", "COMPLETED"} \cup Stopping
    \/ from = "RUNNING"
       /\ to \in {"PLANNING", "WAITING_FOR_TOOL", "WAITING_FOR_PERMISSION",
                  "WAITING_FOR_USER", "PAUSED", "RECOVERING", "COMPLETED"} \cup Stopping
    \/ from = "WAITING_FOR_TOOL"
       /\ to \in {"RUNNING", "WAITING_FOR_USER", "RECOVERING", "PAUSED"} \cup Stopping
    \/ from = "WAITING_FOR_PERMISSION" /\ to \in {"RUNNING", "PAUSED"} \cup Stopping
    \/ from = "WAITING_FOR_USER" /\ to \in {"RUNNING", "PLANNING", "PAUSED"} \cup Stopping
    \/ from = "PAUSED" /\ to \in {"RUNNING", "PLANNING", "CANCELLED", "FAILED"}
    \/ from = "RECOVERING" /\ to \in {"RUNNING", "PLANNING", "PAUSED"} \cup Stopping

\* States in which the panel shows a task as being worked on.
Working == {"PLANNING", "RUNNING", "WAITING_FOR_TOOL", "WAITING_FOR_PERMISSION", "RECOVERING"}

\* Mutation: a task that was backing off is not parked.
recoveryStateForStranding(s) ==
    IF s \in Working \ {"RECOVERING"} THEN "PAUSED" ELSE s

\* recoveryStateFor.
recoveryStateFor(s) == IF s \in Working THEN "PAUSED" ELSE s

-----------------------------------------------------------------------------
(* The three store writes that move a task record.  A record is any record *)
(* with a field state; each operator is the mutator handed to updateTask.  *)

\* TaskManager.transition: a rejected move leaves the record as it is.
Transitioned(rec, next) ==
    IF canTransition(rec.state, next) THEN [rec EXCEPT !.state = next] ELSE rec

\* Whether transition() answers true; it does for a move to the same state.
transitionAllowed(rec, next) == rec.state = next \/ canTransition(rec.state, next)

\* Whether onComplete applies a runtime's outcome: a finished task keeps its
\* outcome, and a paused task is not the runtime's to finish.
completeApplies(rec, outcome) ==
    /\ ~isTerminal(rec.state)
    /\ rec.state # "PAUSED"
    /\ canTransition(rec.state, outcome)

\* RuntimeCallbacks.onComplete.
Completed(rec, outcome) ==
    IF completeApplies(rec, outcome) THEN [rec EXCEPT !.state = outcome] ELSE rec

\* TaskManager.fail: applies to a paused task too.
Failed(rec) == IF isTerminal(rec.state) THEN rec ELSE [rec EXCEPT !.state = "FAILED"]
=============================================================================
