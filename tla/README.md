# Verification of the AI Browser Agent

TLA+ models of the AI Browser Agent, the TLC runs that check them on small
instances, and TLAPS proofs of the results that hold for every instance. The
reference is the source: paths below are relative to the repository's root
(`src/` is the extension, `server/` the account service), and `PROJECT.json`
(`map`) ties every definition to the lines it models.

| module | what it is |
| --- | --- |
| `TaskModel` | the task state machine and the guarded store writes, as constant operators |
| `TaskLifecycle` | tasks, runs, plan gate, taint, file requests, startup and end of a worker |
| `TaskLifecycleProofs` | its two inductive invariants and theorems |
| `ScheduleClock` | what a schedule owes: due, missed, next occurrence, the alarm's instant |
| `ScheduleRuns` | ticks, claims, run records, panel requests, the alarm, evictions |
| `ScheduleRunsProofs` | its invariant and theorems |
| `TokenFamilies` | what the account service promises about refresh tokens |
| `TokenFamiliesProofs` | what that promise is worth |
| `SessionServer` | the service's requests from await to await |
| `SessionServerProofs` | its invariant, theorems, and that it implements `TokenFamilies` |
| `SessionClient` | the extension's session jobs, composed with `SessionServer` |
| `SessionClientProofs` | its invariant and theorems |
| `EmailCodes` | one-time codes by mail, composed with `SessionServer` |
| `EmailCodesProofs` | its invariant, and what of `SessionServer` it keeps |
| `PolicyDecision` | the policy engine's and the egress gate's verdicts, as operators |
| `ToolDispatch` | a tool call from request to return: pipeline, permission engine, brokers, site rules |
| `ConnectorWrites` | the writes of tool calls to a connected service, composed with `ToolDispatch` |
| `ConnectorSession` | a connection: session, vault, tokens a person supplies, requests |
| `Connectors` | the calls and writes, and the connection, under one worker |
| `ConnectorsProofs` | the invariants and theorems of calls, writes and connection, and theorems about the verdicts |
| `StorageFaults` | the bounded number of writes that fail |
| `RecordStore` | records beside an index, eviction by the cap, upgrade from older generations |
| `AuditTrail` | the audit list, its eviction markers, and the record of persistence health |
| `LocalEncryption` | protected credentials: keys, switching on and off, and the writers meanwhile |
| `Storage` | the three together under one worker and one quota |
| `StorageProofs` | the invariants and theorems of the trail, of protected credentials and of the records |
| `MC...` | the instances TLC checks |

## 1. The system

An MV3 browser extension. A *service worker* owns all state and may be evicted
at any await; a side panel and content scripts talk to it by messages. It runs
*tasks* (a language model calling tools on pages) under policy, permission and
egress checks, on demand or on *schedules*; it talks to external services
through *connectors*. A separate *account service* issues sessions.

The components, with the state they keep, what they do, what is hard about
them and what makes them correct:

| component | state | operations | hard | correct when |
| --- | --- | --- | --- | --- |
| task state machine and store (`src/tasks`) | task records, an index | guarded transitions, completion, recovery | every writer races with every other one | a terminal state is final |
| task manager (`src/background/task-manager.ts`) | the running map of abort handles | create, execute, pause, resume, cancel, retry, plan routes, abort all | two calls of execute for one task; late callbacks | one stoppable run per task; an observer hears what the store holds |
| agent runtime (`src/agent/runtime`) | one run's messages, budget, taint | turn loop, retries, tool calls, stop paths | snapshots used after awaits; a tool that has read and then fails | taint is stored before it is used; every run ends |
| file-selection broker | pending requests with timers | request, respond, time out, cancel | a late answer against a pause or a cancel | a late answer moves nothing |
| worker lifecycle | none | recover, suspend | recovery against routes; eviction anywhere | no task claims work nobody does |
| schedules (`src/schedules`, `schedule-runner.ts`) | schedules, run records, one alarm | tick, claim, run, settle, recover, panel requests | the same occurrence from two sides; one alarm for all; sleep | at most once; nothing missed silently; the alarm is armed |
| account sessions (`server/app`) | sessions, identities | sign in, rotate, verify, sign out, detach | concurrent rotations; revocation of what does not exist yet | a token is worth one session; an ended family is dead |
| client identity (`src/identity`) | refresh and access token | sign in, refresh, sign out | the panel, a task and a schedule at once; lost answers; eviction between two writes | the client never spends a token twice |
| email codes, rate limits, Google sign-in (`server/app`) | challenges, buckets, states | start, verify, complete, link | concurrent guesses; a code used for two purposes | a code is worth one sign-in; attempts are bounded |
| connectors (`src/connectors`) | sessions, tokens, write claims | connect, reconcile, disconnect, call, write | a write whose answer was lost; a connection that changes under a request | no silent replay of an uncertain write; nothing is used that was not confirmed |
| permission broker and engine, policy, plans | pending prompts, grants, approved plan | ask, answer, time out, decide | answers after time-out or cancel; order of the checks | nothing runs without a decision that covers it |
| egress gate and consent | consents, taint | decide, ask, remember | consent given for one signature used for another | tainted data leaves only as consented |
| records and storage (`src/storage`) | an index and records per kind | put, replace, mutate, evict, upgrade | writers and eviction between record and index; interrupted upgrades | what the index names is there; nothing is lost by an upgrade |
| audit log (`src/audit/audit-log.ts`, `persistence-health.ts`) | one list with markers, a health record | record, retry after compaction, evict, verify, acknowledge | the limit reached while appending; a lost event whose report is lost too | the trail is one stretch, and a reader can tell a quiet period from a cut one |
| local encryption (`src/crypto`) | flag, wrapped key, session key, two areas of records | enable, unlock, lock, change passphrase, disable, routed reads and writes | a switch interrupted anywhere; a write that crosses it | no record under a lost key; nothing in plain while it is on |
| skills, workflows, workspaces, accounts, MCP, files | their stores | run, record, replay, reconcile, migrate | steps across an eviction | see section 7 |

They interact by calls within the worker (the runner and the panel's routes
call the task manager; the manager calls the runtime; the runtime calls tools,
the permission engine and the file broker), by shared storage under a mutex per
key, by callbacks (`onComplete`, `onFail`, `onTaintChanged`, the lifecycle
observer), by Chrome's events (alarm, suspend, startup) and by HTTP with the
account service. `PROJECT.json` lists all components and the hazards at their
lines.

## 2. How code becomes a model

JavaScript runs to the next await without interruption. So an action is the
stretch of code from one await to the next, and a program counter names the
await. A storage update is a read-modify-write under a keyed mutex that keeps
the order of its callers; it takes effect in the action that queues it. Reads
that are decided on after a later await are kept as snapshots in the model as
they are in the code. Definitions called `...Unchecked`, `...Blind` and the
like, introduced by "Mutation:", are plausible mistakes; no specification uses
them, and each shows that a property notices that mistake.

**TaskLifecycle.** `task` is the stored record (state, plan, approval, taint,
usage); `run` the calls of `TaskManager.execute`, one program counter each;
`handle` the map `running`; `ctl` the abort controllers. The actions follow
`execute`, the runtime's loop (`Generate...`, `Backoff`, `Call`, `ExecuteTool`,
`ToolReturns`, `TaintLost`, `Judge`), the file broker (`RequestFile`,
`SettleFile`), the routes (`Create`, `Pause`, `Cancel`, `Retry`, `Resume...`,
`ApprovePlan`, `RevisePlan`, `AddSiteToPlan`) and the worker (`Suspend`,
`Crash`, `ListInterrupted`, `Recover`). The outcome of a model request, a tool,
a permission prompt or a loop check is a choice.

**ScheduleRuns.** `sched` and `runs` are durable, `job` is one chain of awaits
each for the tick, the startup and each panel request; `execute` is shared by
the tick and Run now, and the end of a run by `settle`, `cancelRun` and
`recover`, as in the code. A run record is put as `RecordStore.write` does it,
in storage steps of their own: `Store` sets the record, `Index` names it in
`index` (at the cap, in place of an older one), `Scan` lists the keys, `Purge`
removes one by one those the index just written did not name - whichever job put
them. What reads the store sees a record only if the index names it (`Seen`).
Which record the cap drops is a choice, a superset of the code's "the oldest".
`exposed` is the history of the runs that the cap dropped or whose put
overlapped another job's. A cadence is the set of instants it comes round at,
so the calendar's arithmetic is not needed. `ops` is chosen at the start and
says which requests and disturbances a behaviour has. The schedules' own store
is simpler: a create, a replacement and a removal take effect in one step, a
listing is one step in either store, and no storage call of this module fails.

**SessionServer.** `session` and `identity` are the tables, `request` is what
each request does between two store calls. `issued` and `ended` are histories:
the sessions whose tokens reached a caller, and the families revoked as a
whole. A session's age is not kept; one that is alive may have expired. One
account, which is not deleted.

**SessionClient** adds the extension: `stored` and `access` are the two stored
tokens, `job` the worker's jobs, each waiting for a request of `SessionServer`.
An answer may be lost before or after the server acted; an eviction drops the
jobs and not what they wrote or sent.

**EmailCodes.** `challenge` is the in-memory challenge store, `mail` what a
request does about codes until it has one accepted; a sign-in with a code then
goes on as a request of `SessionServer` on the same tables. In the scene
"codes" sign-ins with a code, links and removals of an identity interleave; that
scene has no refresh, sign-in by other means or sign-out, which the scene
"tokens" has without codes. One address, owned by
the account of `SessionServer` (`Ours`), by another (`elsewhere`) or by none.
`gained` is the history of what each code was worth, and to whom.

**PolicyDecision, ToolDispatch.** The verdicts are operators with the stages in
the code's order; a site is a registrable domain, a call's sensitivity and
classification are its `shape`, an input. `call[t]` is the call of a task from
await to await: `Observe` (the runtime reads the tab's address, then the model
asks), `Locate` (the pipeline reads it again), `Judge` (`loadPolicyContext` and
both verdicts), `Approve`, `Ask`, `Answer`, `Expire`, `Cancel` (engine and
brokers), `Amend`, `Grant`/`StoreGrant`, `Load`/`Save` (what an answer writes),
`Enter`, `Act`, `Finish`. `rules` is one stored record with the history of
decisions; every writer reads it and writes it back after an await, as the code
does, and `copy` is what it read. `page` is what a tab shows, and moves.

**ConnectorWrites.** A call whose tool writes to a connected service hands over
to a `writer`, which goes on when the call has timed out: `Claim` (one update of
the durable claims, trimmed by age and number; a key has one claim at most, so
taking it out is `Without`), `Check`, `Send`, `Answered`,
`Settle`. The service is external: it did the write, refused it or did not say.
`sent` counts requests it may have acted on; `excused` counts claims that were
dropped without an answer (`ResolveWrite`, by a person; by age; by number).

**RecordStore.** `job` is one operation per caller, and the worker's upgrade,
each from storage call to storage call; `old` is what is left of the older
generation. A write may fail (quota), the worker may go away anywhere. The
upgrade goes through the old generation from its end and passes over what
cannot be migrated, where the code filters first and then reverses: the order
and the writes are the same. The index never holds an id twice, so removing an
id (a `filter`) is removing its first occurrence.

**AuditTrail.** `events` is the stored list, `recorder` what a call of `record`
does from one update to the next: `RecordEvent` (shaped, or refused),
`AppendEvent` (age, number, marker, event and byte bound in one update),
`AppendFails`, `Compact` and the retry, `LoseEvent`. A record's digest is of its
content, so `prevDigest` is the content; `Verdict` is `verifyIntegrity`. The
clock never goes back, so the entries a retention filter leaves are the first
ones, and `FreshCount` is their number.
`health` is the stored severity and `floor` what the worker remembers; a report
raises both unless its write fails (`Report`). `lost` and `reported` are
histories: the worst loss since the last acknowledgement, and the worst whose
report was written. The clock does not go back.

**LocalEncryption.** `stored[r]` is a record's form - absent, plain, damaged, or
sealed under a key - and the version of its content. `route` is the panel's
request: `K1Store.initialize`, `unlock`, `changePassphrase`, `disable`, and the
two conversions of `protect-existing.ts`, write by write; `write` is a credential
being written through `K1AwareArea` and `ProtectedStorageArea`, which read the
flag, the state and the key at three awaits. A passphrase is right or the request
changes nothing; the cryptography is a perfect box. One panel: while a request is
under way it disables its buttons, so there is one route at a time. `crossed` is
the history of the records that were written or removed while protection was
being switched, `lapsed` of a switch that was interrupted or gave up half way.

**ConnectorSession.** `session` is the status the worker keeps (`covers`: its
scopes cover a write), `vault` the stored token, which outlives the worker and
not the browser, `asking` the calls of `connectWithToken` that wait for the
service, `request` what `ConnectorRuntime.call` and the transport do for a tool
from await to await. `Edges` is the transition table; the code ignores a refused
transition, and so does `To`. Every connector of this build takes a supplied
token, so `UNAVAILABLE`, `DENIED`, the OAuth flow and refresh are not reached. A
storage area answers in the order it was asked, so a storage call and what its
caller does next are one action.

**Connectors** puts `ConnectorWrites` and `ConnectorSession` under one worker.
In `ConnectorWrites` the preflight of a write is a choice, which covers whatever
the session does; so the connection is followed in the scene in which no task
asks for anything (`Quiet`), and TLC checks the sum. A request with `writes` is
that write, without its claim.

**Storage** runs the three under one `WorkerGone` and one bound of faults. They
share no other state, so a behaviour is `about` one of them: TLC checks the sum
and not the product.

Left out on purpose: failing storage calls (other than the taint write, which
the runtime handles, and those of `Storage`), names, the number of schedules,
formatting, logging. Listing a store is one step. A scheduled run's id never
equals that of a Run now (their instants differ).

## 3. The runs

Every property of a passing run has a mutant in `PROJECT.json` that breaks it
under the same configuration.

| run | instance | shows |
| --- | --- | --- |
| `task_safety` | 2 tasks, 2 runs, pauses, suspension, one crash | `TerminalIsFinal`, `OutcomeTruthful`, `LiveRunStoppable` |
| `task_live` | 1 task, 3 runs, tools, taint, one crash | `TypeOK`, `PlanGate`, `TaintRecorded`, `WorkHasRunner`, `ApprovalKept`, `NoToolAfterEnd`, `TaintCarried`; live: `RunsEnd`, `WorkSettles` |
| `task_paused` | 1 task, 1 run, pauses | **violated**: `OnlyUserLeavesPaused` |
| `schedules_once` | 1 schedule, 4 instants, 1 panel request at a time, one of four kinds of disturbance | `AtMostOnce`, `NoSilentGap`, `NothingGoesBack` |
| `schedules_live` | 2 schedules, one eviction | `WakeUpArmed`; live: `OccurrenceIsHandled`, `RunIsClosed` |
| `schedules_edited` | 1 schedule, edited once | **violated**: `NeverTwice` |
| `sessions_server` | 3 sessions, 2 requests, 4 identities of which 2 are the address, 2 challenges of 2 attempts | `TypeOK`, `SingleUse`, `EndedIsDead`, `CodeIsWorthOne`, `AddressHasOneOwner`, and the refinement `PromiseKept` |
| `sessions_client` | 2 callers, 2 requests, 3 sessions, one lost answer or eviction | `PresentedOnce`, `AccessNotAhead`; live: `RefreshSettles` |
| `sessions_overwritten` | the same, without faults | **violated**: `OnlyOverItsOwn` |
| `tools` | `Connectors`: a watched and an unattended task, 10 kinds of call, 2 sites, 2 writers; 2 tokens, 1 request, 3 acts of the person, 2 evictions | `ConnectorsTypeOK`, `NothingSilent`, `RepeatIsExplained`, `OnlyConfirmed`, `ActsWhereJudged`; live: `CallReturns` |
| `records` | `Storage`: 3 ids of which 2 fit, 1 unreadable, a writer and a changer; 2 recorders, a trail of 4, 5 events; 3 credentials in 2 areas, 2 keys, 2 writes; 3 faults | `StorageTypeOK`, `NothingLost`, `NotRolledBack`, `TrailIntact`, `LossIsKnown`, `NothingLocked`, `SealedWhileOn` |
| `records_raced` | two callers that put, no faults, nothing to upgrade | **violated**: `IndexNamesRecords` |

**Bounds and why they are enough.** `Tasks` 2 and `Runs` 2 let the runs of two
tasks, or two runs of one task, interleave with a crash; the properties compare
one run with one task, so a third adds no new pair. `Runs` 3 with one task is a
first run, its retry or resumption, and a third that finds both. `MaxCalls`,
`MaxAmendments`, `MaxCrashes` 1: one call still pending when another thing
happens, one amended plan, one restart (a second restart meets the states the
first one left). `MaxModelRequests` 1 and `MaxAttempts` 2 reach the budget and
the back-off. `MaxNow` 4 with `RunGrace` 1 gives on-time, late and missed
occurrences; the uneven calendar comes round at 2, 3 and 4, once more than
`MaxEnumerated` 2, so a tick that is late enough is cut short (32 in the code).
`MaxRuns` 2 in `schedules_once` (250 in the code) makes the third record push
one out, and there a panel request's put can meet the tick's; in the other two
runs it never binds. `Outcomes` is one status: every ended status is treated
alike, and the theorems are for any set of them. Four sets of requests stand for what a
person does to one schedule; one eviction and one edit suffice for every
snapshot to become stale once. Three sessions are a family of two and a
stranger, or a chain of three; two requests are a race; two identities are one
to remove and one to keep. `Callers` 2 is one refresh and whatever meets it.
`Room` keeps the client from starting a request for which the model has no
session left. Two challenges are one and its replacement, two attempts a wrong
one and the last; two identities for the address are one that is removed and the
one that is linked after it.

`Scenes` (in `EmailCodes` and `ToolDispatch`) are what a behaviour starts with
and asks for, chosen at the start, so that a run checks the sum of the cases and
not their product. In the scene "tokens" the service's requests interleave
without codes, as they would with `SessionServer` alone; in "codes" a session
that is there without a code is made first (`Detaching`). The scenes of `tools`
are every kind of call in every mode with a page that moves once; the calls a
rule or a plan makes a difference to, with it; both tasks calling at once across
an eviction; one write with an eviction; two writes that compete for one place
in the claims; and the connection by itself (`QuietScene`). Two tokens are one
that may write and one that may not, each of a site of its own; three acts are a
connection, its replacement and a disconnection in any order, two evictions one
before and one after. `MaxRecords` 1 there makes trimming happen at the second write
(200 in the code), `MaxExcuses` 1 lets one claim be dropped, of any two keys (`Bounded`). `MaxRecords` 2 and
three ids in `records` make every third record push one out; `MaxFaults` 3 is an
upgrade interrupted twice and a write that fails. A trail of four is the least
in which 90% of the limit and the limit without two differ (three, two); five
events, of which the clock lets some expire, evict twice, so that a marker is
itself evicted. Two credentials are one converted and one not; the area that
comes second has one. Two keys are one that is in use and one that replaces it,
two writes one before a switch and one across it. Of these bounds the proofs
need none.

**Symmetry.** Tasks and runs (`task_safety`), and sessions, requests and
the identities that are not the address (`sessions_server`) appear in no order
and no property names one, so permuting them is sound; the runs with liveness use none. In
`records` the two credentials of the first area, the keys and the recorders are
interchangeable (`Alike`): the code treats the members of each alike, and takes
none before another but by choice. `AnyTask` is a
`CHOOSE` from a symmetric set, which only fills the field of a run not yet used.
`sessions_client` takes session ids in order (`InOrder`): ids are random, and
every step that may take one may take the lowest.

**Deadlock** is checked, but in the schedule runs, where the clock stops at
`MaxNow`, in `tools`, where a task that was aborted asks for nothing more, and
in `records`, where the trail runs out of events and a profile without
records and without keys left has nothing to switch. `records_raced` checks it
for `RecordStore`.

**Fairness.** `TaskLifecycle!FairSpec`: each await of a run and of a startup
ends - the model, tools and prompts have time-outs (the broker's five minutes,
the provider's abort) - and no user action, crash or pause is ever owed.
`ScheduleRuns!FairSpec`: awaits end, time passes, Chrome delivers a due alarm
and starts the worker again on an event; panel requests, edits and evictions
are not owed. `SessionClient!FairSpec`: what the worker and the service await
ends (an answer or an error of `fetch`); faults and new jobs are not owed.
`ConnectorWrites!Fairness`: the steps of a call that are the worker's own - a
storage call returns, a prompt's timer fires, a tool has its time limit; no
answer by a person and no new call is owed.

## 4. What is proved

For every value of the constants, by TLAPS; the constants' assumptions
(`ConstantsAssumption`, `ScheduleAssumption`, `OutcomeAssumption`, `CadenceAssumption`, `ServerAssumption`, `ClientAssumption`, `CodesAssumption`, `SiteAssumption`, `DispatchAssumption`,
`WritesAssumption`, `StoreAssumption`, `FaultsAssumption`, `TrailAssumption`, `EncryptionAssumption`,
`SessionAssumption`) say that bounds are naturals, that "none"
is not a member, that the writers are finitely many, and how the parameters fit: an unattended task has no approved
plan, a page call has a page to begin with, and a tool that would convey a
secret declares the transfer (`DispatchAssumption`: every tool in the registry
that names a write destination does), and every cadence comes round again
(`CadenceAssumption`: the search for the next occurrence succeeds).

* **TaskLifecycle.** `TypeCorrect`, `TaintIsRecorded`, `OutcomeIsTruthful`,
  `PlanIsGated`, `TerminalStaysFinal` and `ApprovalIsKept`. The
  invariant `IInv` adds to the types and `OutcomeTruthful`: a dispatched call is
  still counted (`CallsLeft`, or `calls - 1` would leave the naturals); what a
  run remembers of its task - taint, approval - still holds of the record
  (`RunsFit`: the record's taint and approval only grow, which `Grows` and
  `Grown` state once); only an existing task is resumed (`ResumingExists`). The
  proof has one case per action and lemmas for the three store writes.
* **TaskLifecycle, one run per task.** `RunsAreStoppable`, `WorkHasARunner`,
  `NoToolRunsAfterEnd` and `TaintIsCarried` rest on `SInv`, proved on top of
  `IInv`. `Registered` holds always: a run listens to its own controller, a
  task's slot names a run of that task that goes on, and while a run waits for
  its first read nobody else is registered. The rest is stated for an
  `Undisturbed` generation - nobody has paused a running task in it and it is
  not being put away - because without that it is false (section 6): `Lone`, a
  run that was told to stop belongs to a task that has ended; `LiveFits`, a live
  run is the registered one and the only one that has begun, its task has not
  ended and has read nothing it does not know of; `Staffed`, a task that claims
  work has a run or waits for recovery. Two clauses are there for induction
  only: `Placed` names the states a task is *not* in at an await, since the
  write that takes it on would be refused from there and the run would end with
  its task still claiming work; `Idle` says that a run claims no work before its
  first write or after its last. The steps of the panel and the worker share two
  lemmas, `ShiftSingle` (slots are dropped, a run begins) and `ParksSingle`.
* **ScheduleRuns.** `AtMostOnceHolds`, `NoSilentGapHolds`, `WakeUpArmedHolds`,
  `NothingGoesBackHolds`. `IInv` says of each job and of `runTick`'s variables
  what they have established (`RecordsFit`, `TickFits`, `JobsFit`); that a claim
  is ahead of every occurrence that was started, and a copy a request writes
  back is not behind it (`Once`, with `Spent` and `ResumeFits`); that without
  requests that move a schedule its record is in step with its cadence
  (`InStep`), that what is claimed is recorded or about to be, or `exposed`
  (`Recorded`), and that whoever deletes a schedule's runs has deleted the
  schedule first (`Swept`); and that the alarm, or a job that is going to set
  it, covers each schedule (`Armed`, with `Covered`). `PutsFit` is about the
  puts that are under way: two at once are both `exposed` (`Alone`); the index
  an eviction goes by names every record that is seen and not `exposed`, and
  none of them is among the keys to be removed (`Shielded`); and what the tick
  has set and indexed so far is there (`Written`, without which the end of a put
  would not give `Recorded`). One lemma for each of the four steps of a put
  (`StorePuts`, `IndexPuts`, `ScanPuts`, `PurgePuts`), and `OthersTurn` for the
  rest. The facts about the clock - the first occurrence after an instant,
  the last of a finite set - are lemmas from the well-foundedness of subset
  ordering, since `nextOccurrence` is a `CHOOSE`. The conditions in the
  properties are those of the proofs: where one is dropped, TLC has a
  counterexample (section 6).
* **SessionServer.** `IInv` says that a row's family is there and shares its
  identity (`Families`), that a successor's predecessor was handed out and spent
  (`Successors`), that what a request remembers still holds of the table
  (`RequestsFit`) and that a spent token has one winner (`OneWinner`). Without
  `OneWinner` and the clause of `Fits` on "minting", `SingleUse` is not
  inductive; without "a revoked successor has a revoked predecessor" a refresh
  could hand out a dead session. `SingleUseHolds`, `EndedIsDeadHolds` follow,
  and `Implements`: each action is a step of `TokenFamilies` or a stutter (a
  claim, an insertion and a deleted identity are seen by nobody; a revocation is
  `End` or `Kill`; the answer to a refresh is `Replace`).
* **SessionClient.** `PresentedOnceHolds` and `AccessNotAheadHolds` rest on
  `CInv`. `Service` is `SessionServer`'s invariant, carried over; what the
  client's proof counts on from each step of the service is `Served` (in
  `SessionServerProofs`): a request stays a refresh of its token or becomes an
  answer, spends or succeeds that token and no other, and a session it returns
  is new to everybody. A session is held by one answer or one job from the moment it
  is issued until it is stored, and while it is held it is neither stored nor
  spent nor anyone's predecessor (`Kept`). Hence what is stored is never the
  predecessor of the access token or of one about to be written (`Behind`,
  which is `AccessNotAhead` made inductive: it also speaks of the job that has
  written the first of the two tokens). Without faults every refresh of the
  service is awaited by the one refreshing job (`Followed`, `OneRefresh`), and a
  stored token that is spent is about to be replaced or cleared by it
  (`StoredFresh`); without the last a second refresh could start from it. With a
  lost answer both are false, and so is `PresentedOnce`.
* **TokenFamilies.** `WorthOfThePromise`: the abstract specification itself
  entails single use and the death of ended families.

* **EmailCodes.** `SessionsHold` carries `SessionServer`'s invariant over to the
  composition, so that `SafeWithCodes` and `ImplementsWithCodes` follow.
  `OneOwner` is inductive because the address is unique in the table, whatever
  `LookUp` saw before. `CodeIsWorthOneHolds` rests on `CodesInv`: a request that
  holds an accepted code has the purpose and the account of its row
  (`MailFits`), the row is closed (`RowFits`), and no other request holds it and
  nothing was gained by it yet (`OneHolder`). Without `OneHolder` two requests
  could each gain once.
* **ToolDispatch.** `IInv` adds to the types that every copy of the site rules -
  the record, what a call or a removal is about to write back - allows only
  sites a person granted (`AllEarned`: the copies are stale, and a stale copy
  may bring back a removed rule, but not one nobody made), and that a call in
  flight was decided as the operators say for some context of that kind
  (`CallsFit`). `NothingSilentHolds` and `ActsWhereJudgedHolds` follow.
* **PolicyDecision.** `StricterModeNeverLoosens`, `UnattendedNeverLoosens`,
  `BlockNeverLoosens`, `PlanOnlyAnswers`: monotonicity of the verdict in each
  part of its context. `SecretNeverLeaves`: a payload with a secret is refused
  on every external channel, whatever the policy engine says and whatever was
  consented to.

* **ConnectorWrites.** `RepeatIsExplainedHolds` from `WInv`, a count for each
  key: the requests sent, the writers that may still send or report a failure
  (`Able`), and one if no claim stands (`Spare`) are together at most one more
  than the excuses; and no more writers wait than have sent (`Waits`, or `sent -
  1` would leave the naturals). A claim moves the one from `Spare` to the
  writer, sending moves it to `sent`, a refusal back to the writer, and its
  settlement back to `Spare`; a writer that disappears only lowers the sum. The
  step that needs care is a claim made while old claims expire: the claim of a
  write under way does not, so a key that can be claimed had none that stood.
  `CountedKept` does the arithmetic once for all steps of a writer; `WithoutIs`,
  `PrefixIs` and `ClaimedIs` are what the updates of the sequence preserve.
  `ConnectorsTypeOKHolds` puts the types of the three invariants together.
* **ConnectorSession.** `OnlyConfirmedHolds` for `SessionSpec`, the connection
  by itself, and `PartsHold`: `Connectors` takes only steps of `ConnectorWrites`
  and `ConnectorSession`, so the theorems about either hold of it. `Confirmed` says that nothing
  is in the vault, behind the session's scopes or in a request but what the
  service accepted; of these the vault comes first, because the other two are
  filled from it at later awaits, and by a worker that remembers nothing.
* **AuditTrail** (in `StorageProofs`). `TrailInvariant`: what is stored covers every report that was
  written, and what is stored or remembered covers every loss. The second alone
  is not inductive: an eviction forgets the floor, and then only what was
  reported is owed. `LossIsKnownHolds` follows. `ChainInvariant` is about the
  list: numbers that fall by one (`Chain`: each is a function of the first, so
  that no induction along the list is needed), each entry with the content
  before it, times that do not rise towards the end, and `Named`: what left last
  is in some marker's `removed`. The times are there because what leaves by age
  must be a suffix; with them `FreshAreFirst` and `EvictedAreLast` show that what
  leaves is always one stretch at the end, which a marker can name by its least
  and greatest number. `AppendedFits` does an append, `ChainOfPrefix` and
  `ChainOfEntry` what it is made of. `TrailIntactHolds` follows, for every limit
  of at least two.
* **LocalEncryption** (in `StorageProofs`). `KeysInv` says what the route has established by each of
  its program counters (`RouteFits`), that every record no write crossed is in
  its latest version and readable (`RecordsFit`), that so is every copy the
  route holds (`CopiesFit`: a copy written back must not be old), how far
  switching off has got (`ProgressFits`: by the time the flag is lowered, no
  record is sealed), and what a write under way knows (`WriteFits`: its key is
  the current one, or it crosses the switch). `NothingLockedHolds` follows.
  `ProgressFits` is what makes the order of `disable` matter: without it
  `DiscardKey` could take the key of a sealed record. One lemma for each
  action, with one step for each part of the invariant. `SealInv` is what
  `SealedWhileOn` needs beside it: how far switching on has got (`Enabled`: the
  first area while the second is converted, and in each what was gone through
  but the one copy under way), that switching off has written nothing before it
  may give up without a lapse (`Unbroken`), and that a write in plain was begun
  while protection was off (`SealsFit`). `SealedWhileOnHolds` follows.
* **RecordStore** (in `StorageProofs`). `RecordsInv` says that what the upgrade has
  gone through is in the index or was dropped (`UpgradeFits`, with `Covered`),
  that what it counted on when it verified is still there, and what each writer
  carries from one storage call to the next: a list of keys that is the index
  (`WriteHolds`), a target that is in it, or is not in it any more
  (`CallerHolds`). The part about callers is a fact only if at most one of them
  adds, replaces or removes (`OneWriter`), and so is `IndexNamesRecords`:
  `records_raced` shows two that break it. So `NothingLostHolds` states
  `NothingLost` under `OneWriter`, and without any hypothesis that no record that
  was there is lost; `NotRolledBackHolds` needs none.
* **Storage** (in `StorageProofs`). `StorageTypeOKHolds` takes the types of the three
  parts from their invariants; the bounds of the copies and versions of local
  encryption are an invariant of their own, `BoundsInv`.

Only model-checked: liveness under fairness, which is outside this prover's
reach (`RunsEnd`, `WorkSettles`, `OccurrenceIsHandled`, `RunIsClosed`,
`RefreshSettles`, `CallReturns`). Every safety property of a passing run is
stated by a theorem.

## 5. Findings

Four runs end in a violation; each property restates a sentence of the
repository and `PROJECT.json` quotes it.

* `task_paused`: `execute` moves the task to `PLANNING` after an await in which
  the user may have paused it (`src/background/task-manager.ts:329`).
* `schedules_edited`: `edit` writes back a record it read before an await, the
  claim included, and the occurrence runs twice
  (`src/schedules/schedule-store.ts:266`).
* `sessions_overwritten`: the refresh's compare-and-set is a read, an await and
  a write; a sign-out in between is undone (`src/identity/session-client.ts:157`).
* `records_raced`: a put whose record is written and not yet indexed loses it to
  the eviction of another put, and its index entry then points at nothing
  (`src/storage/record-store.ts:404`).

## 6. What the code does not promise

Found while modelling, most by a run that the configurations now exclude, some
by reading. They
explain why some properties are stated with a condition, or checked without
pauses or edits.

* With a pause, or a suspension while a resume is under way, two runs of a task
  meet, and what is said of one run per task is said of `Undisturbed` behaviours
  only. The `finally` of the paused `execute` deletes the handle of the run that
  resumed the task (`task-manager.ts:365`), which then cannot be cancelled
  (`LiveRunStoppable`); a text answer to the paused run ends the task while the
  resumed one starts tools (`NoToolAfterEnd`); and a paused run that writes once
  more takes the task out of `PAUSED` and then stops without a word
  (`WorkHasRunner`, `WorkSettles`).
* `onSuspend` aborts runs without a reason and they still have time to write
  `CANCELLED` (`service-worker.ts:5694`), where `task-store.ts:4` says tasks
  survive the worker.
* Recovery starts after the routes are registered (`service-worker.ts:5759`);
  `lifecycle-manager.ts:49` presumes the opposite.
* With pauses, a resumed run can authorise with the taint its earlier snapshot
  had while the run before it is still storing more (`agent-runtime.ts:157`);
  `TaintCarried` is stated for `Undisturbed` behaviours too.
* `setEnabled` replaces the record like `edit` (`schedule-store.ts:297`), so a
  claim can go back. One request at a time cannot make an occurrence run twice: a pause writes
  the old claim back disabled, and a resume counts from now and waits for its
  write while the schedule is paused, when nothing is claimed. Two that overlap
  can. `AtMostOnce` and
  `NothingGoesBack` state these conditions.
* An edit or a pause in flight brings a deleted schedule back: `replace` creates
  a record that is not there (`record-store.ts:265`).
* `NoSilentGap` is about schedules nobody creates, edits or pauses in the
  behaviour, and that came round no more often than a tick enumerates: beyond
  the cap the earliest occurrences have no record.
* A run's record can be deleted as it is written. `startRun` puts it
  (`schedule-store.ts:423`) in three storage calls, and eviction removes every
  record the index it wrote does not name (`record-store.ts:404`). A Run now
  whose put indexes and evicts between the tick's record of a missed occurrence
  and its index entry takes that record; the occurrence is claimed and nothing
  retries, so it is gone from the history without a word. It is what
  `records_raced` shows of the store. `NoSilentGap` therefore leaves out a run
  whose put overlapped another's, or which a full history dropped (`exposed`),
  and holds of every other. Two creates at once meet the same eviction in the
  schedules' store, where the model has one step.
* `recover()` can close a run of its own generation that still executes
  (`schedule-runner.ts:515`), and a run cancelled by the person can have its
  schedule's summary overwritten when its target ends (`:420`).
* A run recorded after `remove` listed the history stays without a schedule
  (`schedule-store.ts:312`).
* With a request that creates, edits or resumes a schedule `WakeUpArmed` fails: a
  tick's `alarms.clear` may be applied after the request's `alarms.create`
  (`service-worker.ts:2202`).
* A 401 clears the stored session without comparing it
  (`session-client.ts:119`): a sign-in that completed meanwhile is lost.
* A lost answer to a refresh leaves a spent token stored, and its next use ends
  the family: the trade `session-service.ts:187` describes.
* A sign-in with an identity that is being removed can insert its session
  between `revokeForIdentity` and `deleteIdentity` and keep it
  (`identity-service.ts:303`); two removals at once can remove the last two
  identities (`:287`). `EndedIsDead` is about families that existed.
* Site rules: a decision's history entry is saved with the rules that were
  loaded before an await (`permission-engine.ts:293`), so a rule removed in
  between comes back, where `keyed-mutex.ts:4` and `storage-area.ts:185` say
  updates are atomic. `NothingSilent` therefore asks whether the site was *ever*
  granted.
* An origin that drifted is decided before the exfiltration verdict
  (`policy-engine.ts:265`, `:291`): for a blocked payload `evaluatePolicy` alone
  asks. The gate still refuses it (`SecretNeverLeaves`).
* `assertAutomatable` compares the page with the one the call was planned for,
  not with the one it was judged for, and neither is known when the address
  could not be read; block rules are then not consulted, where
  `service-worker.ts:791` says the gate denies. `ActsWhereJudged` is stated for
  addresses that could be read.
* A prompt posted after its task was cancelled stays pending until its timer,
  and an "always" answered to it is stored.
* A write refused by the egress gate was never sent and is marked uncertain; an
  opaque redirect after sending is marked failed, so it may be repeated
  (`excused`); a write in flight when its worker is evicted stays in flight and
  `pendingWrites` does not list it (`write-guard.ts:114`); a retried task has a
  new id, so its claims do not match those of the task it retries (`:61`).
* Connector sessions (`connector-session.ts:252`, `:496`): `reconcile` while a
  token is being checked makes the session READY with the old token's scopes, and
  READY to READY is no transition, so the new token's are not recorded: TLC finds
  a write that leaves with a token the service said may not write. Hence
  `OnlyConfirmed` says "of a token it accepted". A disconnection while a token
  is being checked is followed by that token being stored. For a connector bound
  to a site, origin and credential are read at two awaits
  (`connector-transport.ts:191`): TLC finds a replacement in between, after which
  the new token goes to the old site, where `token-vault.ts` says that this cannot
  be. If storing the token fails, the session stays AUTHENTICATING, from where
  `connectWithToken` and `disconnect` are refused until the worker is restarted.
* Google sign-in: `exchange` finds the challenge, counts the attempt, creates
  the session and then deletes the row (`google-auth-service.ts:330`); two at
  once both get a session, where line 371 says the code cannot be presented
  twice.
* `clearLegacy` also removes records that could not be migrated
  (`record-store.ts:487` logs "left in place"), and verification reads one
  record; after an upgrade that failed, its repetition by the next worker puts
  back what was written or removed in between. `NotRolledBack` is stated for
  upgrades that did not fail. A `remove` that meets a `put` of the same id can
  index entry without a record.
* Audit trail: the byte bound (`audit-log.ts`, `withinBytes`) and `compact` drop
  records without a marker, where the comment on the append says that no
  committed state has records removed without one; `TrailIntact` asks for the
  marker only where neither has removed more. A clock set back by more than the
  retention is outside the model. `degraded` of the
  log is cleared by the next success; the health record, which `LossIsKnown` is
  about, is not.
* Local encryption. A record written or removed while protection is being
  switched (`crossed`) may be overwritten with the value it had, come back, be
  left sealed under the discarded key, or be left in plain. Enabling that is
  interrupted is not resumed: `protect-existing.ts` says the next run converts
  the rest, but `initialize` refuses when protection is on, and nothing else
  calls it. A disabling that refuses at the second area leaves the first in
  plain, where the message says nothing was changed. Two windows that enable at
  once, which the model does not have, can leave records under a lost key. A
  read that was routed before a switch may return an envelope.

## 7. Not modelled, and the plan

In this order:

1. Google sign-in (`GoogleCodes`, with `SessionServer`'s tables), rate limits.
2. The preflight of a write by `ConnectorSession`'s session instead of a choice:
   with two writers and two acts the product did not finish within minutes. The
   OAuth flow, when a connector uses it.
3. Skill runs, workflow recording and replay, workspaces, account migration.
4. As operators with a reference definition: the loop detector, the retry
   policy, the search for the next calendar occurrence.

Not planned: wire formats of providers and connectors, page observation and
browser tools (effects outside the program's state), the user interface,
cryptographic primitives, notifications, logging and configuration.
