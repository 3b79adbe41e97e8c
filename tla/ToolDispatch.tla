---------------------------- MODULE ToolDispatch ----------------------------
(***************************************************************************)
(* A tool call from the model's request to the tool's return: the dispatch *)
(* pipeline of ToolRegistry, the permission engine, the brokers that put a *)
(* question to a person, and the record of site rules that every decision  *)
(* is read from and written back to.  A task has one call under way; the   *)
(* calls of several tasks, the panel and the pages interleave.  An action  *)
(* is what one of them does from one await to the next.                    *)
(***************************************************************************)
EXTENDS PolicyDecision

CONSTANTS
    Tasks,
    Unattended,    \* the tasks of scheduled runs
    Origins,       \* what a tab may show
    NoOrigin,      \* no tab, or one whose address could not be read
    SiteOf,        \* the registrable domain of an origin
    Shapes,        \* the calls a model may ask for
    GrantRisks,    \* the risks a person may grant a site for
    Scenes         \* what a behaviour starts with, asks for, and is disturbed by

\* kind is the tool's siteAuthorization; "connector" is the "none" of a connector's write.
\* A tool that names what it writes declares it as a transfer, too.
Shape == [kind       : {"page", "destination", "none", "connector"},
          risk       : Risks,                             \* the tool's, as classify raised it
          prohibited : BOOLEAN,
          target     : Place,
          navigable  : BOOLEAN,
          leaks      : {"allow", "confirm", "block"},
          egress     : {"undeclared", "allow", "confirm", "deny"}]  \* authorizeEgress
\* moves and evictions bound how often a page moves and the worker goes away.
Scene == [mode : Modes, rules : Rules, plan : [Tasks -> SUBSET Sites],
          asks : [Tasks -> SUBSET Shapes], page : [Tasks -> Origins \cup {NoOrigin}],
          moves : Nat, evictions : Nat]

ASSUME DispatchAssumption ==
    /\ Unattended \subseteq Tasks
    /\ NoOrigin \notin Origins /\ SiteOf \in [Origins -> Sites]
    /\ Shapes # {} /\ Shapes \subseteq Shape
    /\ \A s \in Shapes : s.leaks = "block" => s.egress = "deny"
    /\ GrantRisks \subseteq 0..2
    /\ \A scene \in Scenes :
          /\ scene \in Scene
          /\ \A t \in Unattended : scene.plan[t] = {}
          /\ \A t \in Tasks : \A s \in scene.asks[t] : s.kind = "page" => scene.page[t] \in Origins

VARIABLES
    asks,       \* the calls each task's model may ask for; none: the task is not there
    mode,       \* the permission mode
    page,       \* what each task's tab shows
    rules,      \* durable: the site rules
    plan,       \* durable: the sites of the plan approved for each task, {} without one
    aborted,    \* the tasks whose run was aborted
    call,       \* each task's call
    removal,    \* policy.removeSiteRule, between its read and its write
    granted,    \* history: the sites a person ever allowed for good
    moves, evictions    \* those that may still come

dispatchVars == <<asks, mode, page, rules, plan, aborted, call, removal, granted, moves, evictions>>

-----------------------------------------------------------------------------
(* Records. *)

Approving == {"asking", "prompted", "amending", "granting", "storing"}
Recording == {"loading", "saving", "recorded"}
Pcs == {"idle", "planned", "located", "judged", "executing", "acted"} \cup Approving \cup Recording

AnyShape == CHOOSE s \in Shapes : TRUE

CallRecord == [pc      : Pcs,
               shape   : Shapes,
               planned : Origins \cup {NoOrigin},    \* plannedUrl
               here    : Origins \cup {NoOrigin},    \* currentUrl
               verdict : Verdicts,
               granted : {"no", "policy", "person"},
               risk    : GrantRisks \cup {0},        \* response.maxRisk
               copy    : Rules]                      \* the record that was read

Unruled == [s \in Sites |-> NoRule]

Idle == [pc |-> "idle", shape |-> AnyShape, planned |-> NoOrigin, here |-> NoOrigin,
         verdict |-> "DENY", granted |-> "no", risk |-> 0, copy |-> Unruled]

NoRemoval == [site |-> NoSite, copy |-> Unruled]

PlaceOf(o) == IF o \in Origins THEN SiteOf[o] ELSE NoSite

\* resolveSiteScope: the worker decides which address governs a call.
Scope(c) == CASE c.shape.kind = "page" -> PlaceOf(c.here)
              [] c.shape.kind = "destination" -> c.shape.target
              [] OTHER -> NoSite

\* grantSiteFor: the site a prompt offers to allow for good.
GrantSite(c) == IF Scope(c) # NoSite THEN Scope(c) ELSE c.shape.target

\* evaluateTransition: only the same origin is no change, and only of known addresses.
Moved(c) == c.planned # NoOrigin /\ c.here # NoOrigin /\ c.planned # c.here

\* The policy request of a call.
Request(c) == [risk |-> c.shape.risk, prohibited |-> c.shape.prohibited, scope |-> Scope(c),
               target |-> c.shape.target, navigable |-> c.shape.navigable,
               moved |-> Moved(c), leaks |-> c.shape.leaks]

\* loadPolicyContext.
ContextOf(t) == [mode |-> mode, rules |-> rules, unattended |-> t \in Unattended,
                 plan |-> plan[t]]

DispatchInit ==
    /\ \E scene \in Scenes :
          /\ asks = scene.asks /\ mode = scene.mode
          /\ rules = scene.rules /\ plan = scene.plan
          /\ granted = {s \in Sites : scene.rules[s].decision = "allow"}
          /\ page = scene.page /\ moves = scene.moves /\ evictions = scene.evictions
    /\ aborted = {}
    /\ call = [t \in Tasks |-> Idle]
    /\ removal = NoRemoval

At(t, pc)  == call[t].pc = pc
Go(t, pc)  == call' = [call EXCEPT ![t].pc = pc]
Return(t)  == call' = [call EXCEPT ![t] = Idle]
Decide(t, by) == call' = [call EXCEPT ![t].pc = "loading", ![t].granted = by]

-----------------------------------------------------------------------------
(* ToolRegistry.dispatch, up to the decision. *)

\* The runtime reads the tab's address and asks the model, which asks for a call.
Observe(t) ==
    /\ At(t, "idle") /\ t \notin aborted
    /\ \E s \in asks[t], o \in {page[t], NoOrigin} :
           call' = [call EXCEPT ![t] = [Idle EXCEPT !.pc = "planned", !.shape = s, !.planned = o]]
    /\ UNCHANGED <<asks, mode, page, rules, plan, aborted, removal, granted, moves, evictions>>

\* The name, the task's narrowing, the schema and the workspace may refuse the call;
\* then the tab's address is read again.
Locate(t) ==
    /\ At(t, "planned")
    /\ \/ Return(t)
       \/ \E o \in {page[t], NoOrigin} :
              call' = [call EXCEPT ![t].pc = "located", ![t].here = o]
    /\ UNCHANGED <<asks, mode, page, rules, plan, aborted, removal, granted, moves, evictions>>

\* loadPolicyContext, whose last read is the site rules, and the decision taken on it.
Judge(t) ==
    /\ At(t, "located")
    /\ call' = [call EXCEPT ![t].pc = "judged",
           ![t].verdict = Combined(evaluatePolicy(Request(call[t]), ContextOf(t)),
                                   call[t].shape.egress)]
    /\ UNCHANGED <<asks, mode, page, rules, plan, aborted, removal, granted, moves, evictions>>

-----------------------------------------------------------------------------
(* PermissionEngine.requestApproval, UnattendedPrompter and PermissionBroker. *)

\* The egress decision was recorded; a denial is recorded, and so is a permission.
Approve(t) ==
    /\ At(t, "judged")
    /\ CASE call[t].verdict = "DENY" -> Decide(t, "no")
         [] call[t].verdict = "ALLOW" -> Decide(t, "policy")
         [] OTHER -> IF t \in aborted THEN Decide(t, "no") ELSE Go(t, "asking")
    /\ UNCHANGED <<asks, mode, page, rules, plan, aborted, removal, granted, moves, evictions>>

\* Mutation: every prompt is put to the panel.
AskAnyone(t) ==
    /\ At(t, "asking")
    /\ Go(t, "prompted")
    /\ UNCHANGED <<asks, mode, page, rules, plan, aborted, removal, granted, moves, evictions>>

\* UnattendedPrompter.prompt: the task's session is known.  A task that cannot be read
\* is answered like an unattended one.
Ask(t) ==
    /\ At(t, "asking")
    /\ \/ Decide(t, "no")
       \/ t \notin Unattended /\ Go(t, "prompted")
    /\ UNCHANGED <<asks, mode, page, rules, plan, aborted, removal, granted, moves, evictions>>

\* respond(): the pending request is answered.  There is none for a late answer.
Answer(t) ==
    /\ At(t, "prompted")
    /\ \/ Decide(t, "no") \/ Decide(t, "person")
       \/ call' = [call EXCEPT ![t].pc = "amending", ![t].granted = "person"]
       \/ \E r \in GrantRisks :
              call' = [call EXCEPT ![t].pc = "granting", ![t].granted = "person", ![t].risk = r]
    /\ UNCHANGED <<asks, mode, page, rules, plan, aborted, removal, granted, moves, evictions>>

\* Mutation: a prompt waits for ever.
NeverExpire(t) == FALSE /\ UNCHANGED dispatchVars

\* The prompt's timer.
Expire(t) ==
    /\ At(t, "prompted")
    /\ Decide(t, "no")
    /\ UNCHANGED <<asks, mode, page, rules, plan, aborted, removal, granted, moves, evictions>>

\* approve_task: the site joins the plan, if the task has one; the write may fail.
Amend(t) ==
    /\ At(t, "amending")
    /\ plan' \in {plan, IF plan[t] = {} THEN plan
                        ELSE [plan EXCEPT ![t] = @ \cup ({GrantSite(call[t])} \ {NoSite})]}
    /\ Go(t, "loading")
    /\ UNCHANGED <<asks, mode, page, rules, aborted, removal, granted, moves, evictions>>

\* approve_site: the site rules are read ...
Grant(t) ==
    /\ At(t, "granting")
    /\ IF GrantSite(call[t]) = NoSite THEN call' = [call EXCEPT ![t].pc = "loading", ![t].risk = 0]
       ELSE call' = [call EXCEPT ![t].pc = "storing", ![t].copy = rules]
    /\ UNCHANGED <<asks, mode, page, rules, plan, aborted, removal, granted, moves, evictions>>

\* ... and written with the site's rule replaced.
StoreGrant(t) ==
    /\ At(t, "storing")
    /\ LET s == GrantSite(call[t]) IN
       /\ rules' = [call[t].copy EXCEPT ![s] = [decision |-> "allow", maxRisk |-> call[t].risk]]
       /\ granted' = granted \cup {s}
    /\ call' = [call EXCEPT ![t].pc = "loading", ![t].copy = Unruled, ![t].risk = 0]
    /\ UNCHANGED <<asks, mode, page, plan, aborted, removal, moves, evictions>>

\* record(): the site rules and the history are one record, which is read ...
Load(t) ==
    /\ At(t, "loading")
    /\ call' = [call EXCEPT ![t].pc = "saving", ![t].copy = rules]
    /\ UNCHANGED <<asks, mode, page, rules, plan, aborted, removal, granted, moves, evictions>>

\* ... and written back with an entry more in its history.
Save(t) ==
    /\ At(t, "saving")
    /\ rules' = call[t].copy
    /\ call' = [call EXCEPT ![t].pc = "recorded", ![t].copy = Unruled]
    /\ UNCHANGED <<asks, mode, page, plan, aborted, removal, granted, moves, evictions>>

-----------------------------------------------------------------------------
(* Execution. *)

\* A call that was granted runs, unless its task was aborted meanwhile.
Enter(t) ==
    /\ At(t, "recorded")
    /\ IF call[t].granted = "no" \/ t \in aborted THEN Return(t) ELSE Go(t, "executing")
    /\ UNCHANGED <<asks, mode, page, rules, plan, aborted, removal, granted, moves, evictions>>

\* Mutation: the tool acts on whatever page is there.
ActAnywhere(t) ==
    /\ At(t, "executing") /\ call[t].shape.kind # "connector"
    /\ Go(t, "acted")
    /\ UNCHANGED <<asks, mode, page, rules, plan, aborted, removal, granted, moves, evictions>>

\* requireTab and assertAutomatable: a page tool reads the tab again, and acts only on the
\* origin the call was planned for, if that is known.
Act(t) ==
    /\ At(t, "executing") /\ call[t].shape.kind # "connector"
    /\ IF call[t].shape.kind = "page" /\ call[t].planned \notin {NoOrigin, page[t]}
       THEN Return(t) ELSE Go(t, "acted")
    /\ UNCHANGED <<asks, mode, page, rules, plan, aborted, removal, granted, moves, evictions>>

\* The tool returned, threw, or ran out of time.
Finish(t) ==
    /\ At(t, "executing") \/ At(t, "acted")
    /\ Return(t)
    /\ UNCHANGED <<asks, mode, page, rules, plan, aborted, removal, granted, moves, evictions>>

-----------------------------------------------------------------------------
(* The panel, the pages and the worker. *)

\* task.cancel: denyForTask, and the run's signal in the same stretch.
Cancel(t) ==
    /\ asks[t] # {} /\ t \notin aborted
    /\ aborted' = aborted \cup {t}
    /\ IF At(t, "prompted") THEN Decide(t, "no") ELSE UNCHANGED call
    /\ UNCHANGED <<asks, mode, page, rules, plan, removal, granted, moves, evictions>>

\* policy.removeSiteRule: the rules are read ...
RemoveRule(s) ==
    /\ removal.site = NoSite /\ rules[s].decision # "none"
    /\ removal' = [site |-> s, copy |-> rules]
    /\ UNCHANGED <<asks, mode, page, rules, plan, aborted, call, granted, moves, evictions>>

\* ... and written without the site's.
StoreRemoval ==
    /\ removal.site # NoSite
    /\ rules' = [removal.copy EXCEPT ![removal.site] = NoRule]
    /\ removal' = NoRemoval
    /\ UNCHANGED <<asks, mode, page, plan, aborted, call, granted, moves, evictions>>

\* A page, or whoever is in front of it, goes elsewhere.
Navigate(t) ==
    /\ moves > 0 /\ asks[t] # {} /\ page[t] # NoOrigin
    /\ moves' = moves - 1
    /\ \E o \in Origins \ {page[t]} : page' = [page EXCEPT ![t] = o]
    /\ UNCHANGED <<asks, mode, rules, plan, aborted, call, removal, granted, evictions>>

\* The worker goes away: with notice, so that the prompts are denied and the runs aborted
\* while there is still time to act on it, or without.
Suspend ==
    /\ evictions > 0 /\ aborted # Tasks
    /\ aborted' = Tasks
    /\ call' = [t \in Tasks |-> IF At(t, "prompted")
                                THEN [call[t] EXCEPT !.pc = "loading", !.granted = "no"] ELSE call[t]]
    /\ UNCHANGED <<asks, mode, page, rules, plan, removal, granted, moves, evictions>>

Evict ==
    /\ evictions > 0
    /\ evictions' = evictions - 1
    /\ call' = [t \in Tasks |-> Idle] /\ aborted' = {}
    /\ removal' = NoRemoval
    /\ UNCHANGED <<asks, mode, page, rules, plan, granted, moves>>

Step(t) ==
    \/ Locate(t) \/ Judge(t)
    \/ Approve(t) \/ Ask(t) \/ Expire(t) \/ Amend(t) \/ Grant(t) \/ StoreGrant(t)
    \/ Load(t) \/ Save(t)
    \/ Enter(t) \/ Act(t) \/ Finish(t)

Dispatch ==
    \/ \E t \in Tasks : Observe(t) \/ Step(t) \/ Answer(t) \/ Cancel(t) \/ Navigate(t)
    \/ \E s \in Sites : RemoveRule(s)
    \/ StoreRemoval \/ Suspend

-----------------------------------------------------------------------------
(* Properties. *)

DispatchTypeOK ==
    /\ asks \in [Tasks -> SUBSET Shapes] /\ mode \in Modes
    /\ page \in [Tasks -> Origins \cup {NoOrigin}]
    /\ rules \in Rules
    /\ plan \in [Tasks -> SUBSET Sites]
    /\ aborted \subseteq Tasks
    /\ call \in [Tasks -> CallRecord]
    /\ removal \in [site : Place, copy : Rules]
    /\ granted \subseteq Sites
    /\ moves \in Nat /\ evictions \in Nat

Running(t) == At(t, "executing") \/ At(t, "acted")

\* policy-engine.ts and unattended-prompter.ts: a running call that changes something (R1
\* asks in manual mode, R2 in auto) has a person behind it - they answered its prompt, or
\* they set the mode to skip and are watching, or they approved the site for good or for
\* the task.  What is prohibited, and what is asked in every mode, is never run on a rule.
PersonBehind(t) ==
    LET c == call[t] IN
    \/ c.granted = "person" /\ t \notin Unattended
    \/ /\ c.shape.risk < 3 /\ c.shape.leaks = "allow" /\ c.shape.egress # "confirm"
       /\ t \notin Unattended \/ c.shape.risk < 2
       /\ \/ c.shape.risk = 0 \/ mode = "skip" \/ (mode = "auto" /\ c.shape.risk = 1)
          \/ mode = "auto" /\ GrantSite(c) \in granted
          \/ Scope(c) \in plan[t]

NothingSilent ==
    \A t \in Tasks : Running(t) =>
        PersonBehind(t) /\ ~call[t].shape.prohibited /\ call[t].shape.risk < 5
                        /\ call[t].shape.leaks # "block" /\ call[t].shape.egress # "deny"

\* browser-tools.ts, assertAutomatable: a change that nobody was asked about happens on a
\* page of the site whose rules were consulted, however the page moved in between; where
\* the tab's address could be read when the call was planned and when it was judged.
ActsWhereJudged ==
    [][\A t \in Tasks :
           LET c == call[t] IN
           At(t, "executing") /\ call'[t].pc = "acted" /\ c.shape.kind = "page"
               /\ c.shape.risk >= 1 /\ c.granted = "policy" /\ NoOrigin \notin {c.planned, c.here}
           => PlaceOf(page[t]) = Scope(c)]_dispatchVars

\* Every call returns to the runtime: a prompt is answered, expires or is denied.
CallReturns == \A t \in Tasks : ~At(t, "idle") ~> At(t, "idle")
=============================================================================
