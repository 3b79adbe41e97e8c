-------------------------- MODULE ConnectorsProofs --------------------------
(***************************************************************************)
(* Proofs about the tool calls, their writes and the connection, for every *)
(* set of tasks, sites, pages, calls, writers and tokens: what makes a     *)
(* decision stricter; that no call that changes something runs without a   *)
(* person behind it, and that it acts on the site it was judged for; that  *)
(* nothing gets into the vault, into the session's scopes or into a        *)
(* request but what the service has confirmed; and that a write is sent    *)
(* again only when the first one was refused or its claim was dropped.     *)
(***************************************************************************)
EXTENDS Connectors, FiniteSetTheorems, SequenceTheorems, TLAPS

-----------------------------------------------------------------------------
(* The decisions. *)

Order(verdict) == CASE verdict = "DENY" -> 2
                    [] verdict = "ALLOW_WITH_CONFIRMATION" -> 1
                    [] OTHER -> 0

\* policy-engine.ts, evaluatePolicy: a stricter mode never makes a decision looser.
THEOREM StricterModeNeverLoosens ==
    ASSUME NEW c \in Call, NEW x \in Context, NEW m \in Modes, Strictness(x.mode) <= Strictness(m)
    PROVE  Order(evaluatePolicy(c, x)) <= Order(evaluatePolicy(c, [x EXCEPT !.mode = m]))
<1> DEFINE y == [x EXCEPT !.mode = m]
<1>1. /\ x.mode \in Modes /\ y.mode = m
      /\ y.rules = x.rules /\ y.unattended = x.unattended /\ y.plan = x.plan
  BY DEF Context
<1>2. RuleFor(y, c.scope) = RuleFor(x, c.scope) /\ RuleFor(y, c.target) = RuleFor(x, c.target)
  BY <1>1 DEF RuleFor
<1>3. Blocked(c, y) = Blocked(c, x) /\ PlanCovers(c, y) = PlanCovers(c, x)
  BY <1>1, <1>2 DEF Blocked, PlanCovers
<1>4. Granted(c, y) = Granted(c, x)
  BY <1>2 DEF Granted
<1>5. EffectiveRisk(c) \in Risks
  BY DEF EffectiveRisk, Max2, Call, Risks
<1>6. ModeAllows(c, y) => ModeAllows(c, x)
  BY <1>1, <1>4, <1>5 DEF ModeAllows, Strictness, Modes, Risks
<1> HIDE DEF y
<1> QED BY <1>1, <1>3, <1>6 DEF evaluatePolicy, Order, y
\* policy-engine.ts, evaluatePolicy: that nobody is watching can only make an answer stricter.
THEOREM UnattendedNeverLoosens ==
    ASSUME NEW c \in Call, NEW x \in Context
    PROVE  Order(evaluatePolicy(c, x)) <= Order(evaluatePolicy(c, [x EXCEPT !.unattended = TRUE]))
<1> DEFINE y == [x EXCEPT !.unattended = TRUE]
<1>1. y.mode = x.mode /\ y.rules = x.rules /\ y.plan = x.plan /\ y.unattended
  BY DEF Context
<1>2. RuleFor(y, c.scope) = RuleFor(x, c.scope) /\ RuleFor(y, c.target) = RuleFor(x, c.target)
  BY <1>1 DEF RuleFor
<1>3. Blocked(c, y) = Blocked(c, x) /\ ModeAllows(c, y) = ModeAllows(c, x)
  BY <1>1, <1>2 DEF Blocked, ModeAllows, Granted
<1>4. ~PlanCovers(c, y)
  BY <1>1 DEF PlanCovers
<1> HIDE DEF y
<1> QED BY <1>1, <1>3, <1>4 DEF evaluatePolicy, Order, y

\* policy-engine.ts, evaluatePolicy: blocking a site can refuse a call and never permit one.
THEOREM BlockNeverLoosens ==
    ASSUME NEW c \in Call, NEW x \in Context, NEW s \in Sites, NEW rule \in Rule,
           rule.decision = "block"
    PROVE  Order(evaluatePolicy(c, x))
               <= Order(evaluatePolicy(c, [x EXCEPT !.rules = [x.rules EXCEPT ![s] = rule]]))
<1> DEFINE y == [x EXCEPT !.rules = [x.rules EXCEPT ![s] = rule]]
<1>1. /\ y.mode = x.mode /\ y.unattended = x.unattended /\ y.plan = x.plan
      /\ x.rules \in Rules /\ y.rules = [x.rules EXCEPT ![s] = rule]
  BY DEF Context
<1>2. \A t \in Sites : y.rules[t] = x.rules[t] \/ y.rules[t].decision = "block"
  BY <1>1 DEF Rules
<1>3. ASSUME NEW place PROVE RuleFor(y, place) = RuleFor(x, place)
                             \/ RuleFor(y, place).decision = "block"
  BY <1>2 DEF RuleFor
<1>4. Blocked(c, x) => Blocked(c, y)
  BY <1>3 DEF Blocked
<1>5. Granted(c, y) => Granted(c, x)
  BY <1>3 DEF Granted
<1>6. PlanCovers(c, y) = PlanCovers(c, x) /\ (ModeAllows(c, y) => ModeAllows(c, x))
  BY <1>1, <1>5 DEF PlanCovers, ModeAllows
<1> HIDE DEF y
<1> QED BY <1>1, <1>4, <1>6 DEF evaluatePolicy, Order, y

\* policy-engine.ts, evaluatePolicy: an approved plan only answers a question, for a call
\* below R3 on a page that did not move, and never for a run nobody watches.
THEOREM PlanOnlyAnswers ==
    ASSUME NEW c \in Call, NEW x \in Context, NEW sites \in SUBSET Sites,
           evaluatePolicy(c, [x EXCEPT !.plan = sites]) # evaluatePolicy(c, [x EXCEPT !.plan = {}])
    PROVE  /\ evaluatePolicy(c, [x EXCEPT !.plan = sites]) = "ALLOW"
           /\ evaluatePolicy(c, [x EXCEPT !.plan = {}]) = "ALLOW_WITH_CONFIRMATION"
           /\ c.risk < 3 /\ ~x.unattended /\ c.leaks = "allow"
           /\ c.moved => c.risk = 0
<1> DEFINE y == [x EXCEPT !.plan = sites]
           z == [x EXCEPT !.plan = {}]
<1>1. /\ y.mode = z.mode /\ y.rules = z.rules /\ y.unattended = z.unattended
      /\ z.plan = {} /\ z.unattended = x.unattended
  BY DEF Context
<1>2. Blocked(c, y) = Blocked(c, z) /\ ModeAllows(c, y) = ModeAllows(c, z) /\ ~PlanCovers(c, z)
  BY <1>1 DEF Blocked, ModeAllows, Granted, RuleFor, PlanCovers
<1>3. PlanCovers(c, y) => ~x.unattended
  BY <1>1 DEF PlanCovers
<1>4. EffectiveRisk(c) \in Risks /\ EffectiveRisk(c) >= c.risk /\ c.risk \in Risks
      /\ c.leaks \in {"allow", "confirm", "block"}
  BY DEF EffectiveRisk, Max2, Call, Risks
<1> HIDE DEF y, z
<1>5. evaluatePolicy(c, y) # evaluatePolicy(c, z)
  BY DEF y, z
<1>6. /\ ~(c.prohibited \/ c.risk >= 5 \/ Blocked(c, z) \/ ~c.navigable)
      /\ ~(c.moved /\ c.risk >= 1) /\ c.leaks # "block"
      /\ ~(c.leaks = "confirm" \/ EffectiveRisk(c) >= 3
              \/ (z.unattended /\ EffectiveRisk(c) >= 2))
      /\ PlanCovers(c, y) /\ ~ModeAllows(c, z)
  BY <1>1, <1>2, <1>5 DEF evaluatePolicy
<1>7. evaluatePolicy(c, y) = "ALLOW" /\ evaluatePolicy(c, z) = "ALLOW_WITH_CONFIRMATION"
  BY <1>1, <1>2, <1>6 DEF evaluatePolicy
<1>8. c.risk < 3 /\ c.leaks = "allow" /\ (c.moved => c.risk = 0)
  BY <1>4, <1>6 DEF Risks
<1> QED BY <1>3, <1>6, <1>7, <1>8 DEF y, z

\* egress-gate.ts and tool-registry.ts: a secret in a declared transfer is refused whatever
\* the policy, the mode, the page and the consents say.
THEOREM SecretNeverLeaves ==
    ASSUME NEW c \in Call, NEW x \in Context, NEW e \in Transfer, e.external, e.leaks = "block"
    PROVE  Combined(evaluatePolicy(c, x), authorizeEgress(e)) = "DENY"
BY DEF authorizeEgress, Combined

\* What a decision that does not refuse says of the call.
LEMMA PolicySound ==
    ASSUME NEW c \in Call, NEW x \in Context, NEW v, v = evaluatePolicy(c, x)
    PROVE  /\ v \in Verdicts
           /\ v # "DENY" => ~c.prohibited /\ c.risk < 5
           /\ v = "ALLOW" =>
                /\ c.leaks = "allow" /\ c.risk < 3 /\ (c.moved => c.risk = 0)
                /\ ~x.unattended \/ c.risk < 2
                /\ PlanCovers(c, x) \/ ModeAllows(c, x)
<1>1. EffectiveRisk(c) \in Risks /\ EffectiveRisk(c) >= c.risk /\ c.risk \in Risks
      /\ c.leaks \in {"allow", "confirm", "block"}
  BY DEF EffectiveRisk, Max2, Call, Risks
<1> QED BY <1>1 DEF evaluatePolicy, Verdicts, Risks

\* ... and of what lets it through.
LEMMA LetThrough ==
    ASSUME NEW c \in Call, NEW x \in Context, PlanCovers(c, x) \/ ModeAllows(c, x)
    PROVE  \/ c.scope \in x.plan
           \/ c.risk = 0 \/ x.mode = "skip" \/ (x.mode = "auto" /\ c.risk = 1)
           \/ LET place == IF c.scope # NoSite THEN c.scope ELSE c.target
              IN  x.mode = "auto" /\ place \in Sites /\ x.rules[place].decision = "allow"
<1>1. EffectiveRisk(c) \in Risks /\ EffectiveRisk(c) >= c.risk /\ c.risk \in Risks
  BY DEF EffectiveRisk, Max2, Call, Risks
<1>2. ASSUME Granted(c, x)
      PROVE  LET place == IF c.scope # NoSite THEN c.scope ELSE c.target
             IN  place \in Sites /\ x.rules[place].decision = "allow"
  BY <1>2 DEF Granted, RuleFor, NoRule
<1> QED BY <1>1, <1>2 DEF PlanCovers, ModeAllows, Risks

\* The stricter of the two decisions refuses with either.
LEMMA CombinedSound ==
    ASSUME NEW v \in Verdicts, NEW e \in {"undeclared", "allow", "confirm", "deny"}
    PROVE  /\ Combined(v, e) \in Verdicts
           /\ Combined(v, e) # "DENY" => v # "DENY" /\ e # "deny"
           /\ Combined(v, e) = "ALLOW" => v = "ALLOW" /\ e # "confirm"
BY DEF Combined, Verdicts
-----------------------------------------------------------------------------
(* The inductive invariant. *)

Judged == {"judged", "executing", "acted"} \cup Approving \cup Recording
Posed  == Approving \ {"asking"}
Settled == Recording \cup {"executing", "acted"}

\* What lets a call through that nobody is asked about.
Licence(t, c) ==
    /\ c.shape.risk < 3 /\ c.shape.leaks = "allow" /\ c.shape.egress # "confirm"
    /\ t \notin Unattended \/ c.shape.risk < 2
    /\ \/ c.shape.risk = 0 \/ mode = "skip" \/ (mode = "auto" /\ c.shape.risk = 1)
       \/ mode = "auto" /\ GrantSite(c) \in granted
       \/ Scope(c) \in plan[t]

\* What is never let through.
Permissible(shape) ==
    ~shape.prohibited /\ shape.risk < 5 /\ shape.leaks # "block" /\ shape.egress # "deny"

\* A call's record agrees with the decision it was given ...
Decided(t, c) ==
    c.pc \in Judged =>
        /\ c.verdict # "DENY" => Permissible(c.shape)
        /\ c.verdict = "ALLOW" => Licence(t, c) /\ (Moved(c) => c.shape.risk = 0)

\* ... and where it stands with who permitted it.
Stage(t, c) ==
    /\ c.pc \in Approving => c.verdict = "ALLOW_WITH_CONFIRMATION"
    /\ c.pc \in Posed => t \notin Unattended
    /\ c.pc \in Posed \ {"prompted"} => c.granted = "person"
    /\ c.pc \in Settled /\ c.granted = "policy" => c.verdict = "ALLOW"
    /\ c.pc \in Settled /\ c.granted = "person" =>
           c.verdict = "ALLOW_WITH_CONFIRMATION" /\ t \notin Unattended
    /\ c.pc \in {"executing", "acted"} => c.granted # "no"
    /\ c.pc = "storing" => GrantSite(c) \in Sites

Fit(t, c) == Decided(t, c) /\ Stage(t, c)

\* A person once allowed every site that a copy of the rules allows.
Earned(f) == \A s \in Sites : f[s].decision = "allow" => s \in granted

CallsFit  == \A t \in Tasks : Fit(t, call[t]) /\ Earned(call[t].copy)
AllEarned == Earned(rules) /\ Earned(removal.copy)

IInv == DispatchTypeOK /\ AllEarned /\ CallsFit

\* Calls, rules and plans only gain what a fitting record rests on.
Gains == /\ mode' = mode /\ granted \subseteq granted'
         /\ \A t \in Tasks : plan[t] \subseteq plan'[t]

LEMMA Kept ==
    ASSUME Gains, NEW t \in Tasks, NEW c, Fit(t, c)
    PROVE  Fit(t, c)'
<1>1. Licence(t, c) => Licence(t, c)'
  BY DEF Gains, Licence, GrantSite, Scope, PlaceOf
<1> QED BY <1>1 DEF Fit, Decided, Stage, Moved, Permissible

LEMMA EarnedKept == ASSUME Gains, NEW f, Earned(f) PROVE Earned(f)'
BY DEF Gains, Earned

\* The record of a call may be written by its name or by its value.
LEMMA SameRecord ==
    ASSUME NEW t \in Tasks, NEW c, call'[t] = c, Fit(t, c)', Earned(c.copy)'
    PROVE  Fit(t, call[t])' /\ Earned(call[t].copy)'
<1>1. Licence(t, c)' => Licence(t, call[t])'
  BY DEF Licence, GrantSite, Scope, PlaceOf
<1>2. Moved(call[t])' => Moved(c)'
  BY DEF Moved
<1>3. Permissible(c.shape)' => Permissible(call[t].shape)'
  BY DEF Permissible
<1>4. Fit(t, call[t])'
  BY <1>1, <1>2, <1>3 DEF Fit, Decided, Stage
<1> QED BY <1>4 DEF Earned

LEMMA KeepInv ==
    ASSUME IInv, Gains, DispatchTypeOK', AllEarned',
           NEW changed \in SUBSET Tasks,
           \A t \in Tasks \ changed : call'[t] = call[t],
           \A t \in changed : Fit(t, call[t])' /\ Earned(call[t].copy)'
    PROVE  IInv'
<1>1. ASSUME NEW t \in Tasks \ changed PROVE Fit(t, call[t])' /\ Earned(call[t].copy)'
  <2>1. PICK c : c = call[t]
    OBVIOUS
  <2>2. Fit(t, c) /\ Earned(c.copy) /\ call'[t] = c
    BY <2>1 DEF IInv, CallsFit
  <2>3. Fit(t, c)' /\ Earned(c.copy)'
    BY <2>2, Kept, EarnedKept
  <2> QED BY <2>2, <2>3, SameRecord
<1> QED BY <1>1 DEF IInv, CallsFit

\* One call takes a new record that fits, and nothing durable changes.
LEMMA OneCall ==
    ASSUME IInv, NEW t \in Tasks, NEW rec \in CallRecord, Fit(t, rec), Earned(rec.copy),
           call' = [call EXCEPT ![t] = rec],
           UNCHANGED <<asks, mode, page, rules, plan, removal, granted, moves, evictions>>,
           aborted' \subseteq Tasks
    PROVE  IInv'
<1>1. DispatchTypeOK'
  BY DEF IInv, DispatchTypeOK
<1>2. Gains
  BY DEF Gains
<1>3. call'[t] = rec /\ \A q \in Tasks \ {t} : call'[q] = call[q]
  BY DEF IInv, DispatchTypeOK
<1>4. Fit(t, rec)' /\ Earned(rec.copy)'
  BY <1>2, Kept, EarnedKept
<1>5. Fit(t, call[t])' /\ Earned(call[t].copy)'
  BY <1>3, <1>4, SameRecord
<1> DEFINE changed == {t}
<1>7. \A q \in changed : Fit(q, call[q])' /\ Earned(call[q].copy)'
  BY <1>5
<1>8. changed \in SUBSET Tasks /\ \A q \in Tasks \ changed : call'[q] = call[q]
  BY <1>3
<1> HIDE DEF changed
<1>6. AllEarned'
  BY DEF IInv, AllEarned, Earned
<1> QED BY <1>1, <1>2, <1>6, <1>7, <1>8, KeepInv
\* The call is the one that was judged, further on its way.
LEMMA Onward ==
    ASSUME IInv, NEW t \in Tasks, NEW rec \in CallRecord,
           rec.shape = call[t].shape, rec.planned = call[t].planned, rec.here = call[t].here,
           rec.verdict = call[t].verdict, rec.pc \in Judged => call[t].pc \in Judged,
           Stage(t, rec), Earned(rec.copy),
           call' = [call EXCEPT ![t] = rec],
           UNCHANGED <<asks, mode, page, rules, plan, removal, granted, moves, evictions>>,
           aborted' \subseteq Tasks
    PROVE  IInv'
<1>1. Decided(t, call[t])
  BY DEF IInv, CallsFit, Fit
<1>2. Licence(t, call[t]) => Licence(t, rec)
  BY DEF Licence, GrantSite, Scope
<1>3. Decided(t, rec)
  BY <1>1, <1>2 DEF Decided, Moved
<1> QED BY <1>3, OneCall DEF Fit

LEMMA CallIs ==
    ASSUME IInv, NEW t \in Tasks
    PROVE  call[t] \in CallRecord /\ Decided(t, call[t]) /\ Stage(t, call[t])
           /\ Earned(call[t].copy) /\ aborted \subseteq Tasks
BY DEF IInv, DispatchTypeOK, CallsFit, Fit

-----------------------------------------------------------------------------
(* The steps of one call. *)

LEMMA IdleIs == Idle \in CallRecord /\ Idle.pc = "idle" /\ \A f : f = Idle.copy => Earned(f)
<1>1. AnyShape \in Shapes
  BY DispatchAssumption DEF AnyShape
<1>2. Unruled \in Rules
  BY DEF Unruled, NoRule, Rules, Rule
<1> QED BY <1>1, <1>2 DEF Idle, CallRecord, Pcs, Verdicts, Earned, Unruled, NoRule

\* A call that is not judged yet says nothing.
LEMMA Unjudged ==
    ASSUME NEW t \in Tasks, NEW rec, rec.pc \in {"idle", "planned", "located"}
    PROVE  Fit(t, rec)
BY DEF Fit, Decided, Stage, Judged, Posed, Settled, Approving, Recording

LEMMA ReturnInv ==
    ASSUME IInv, NEW t \in Tasks, Return(t),
           UNCHANGED <<asks, mode, page, rules, plan, aborted, removal, granted, moves, evictions>>
    PROVE  IInv'
<1>1. call' = [call EXCEPT ![t] = Idle] /\ aborted' \subseteq Tasks
  BY CallIs DEF Return
<1>2. Fit(t, Idle) /\ Earned(Idle.copy)
  BY IdleIs, Unjudged
<1> QED BY <1>1, <1>2, IdleIs, OneCall

LEMMA ObserveInv == ASSUME IInv, NEW t \in Tasks, Observe(t) PROVE IInv'
<1>1. PICK s \in asks[t], o \in {page[t], NoOrigin} :
         call' = [call EXCEPT ![t] = [Idle EXCEPT !.pc = "planned", !.shape = s, !.planned = o]]
  BY DEF Observe
<1> DEFINE rec == [Idle EXCEPT !.pc = "planned", !.shape = s, !.planned = o]
<1>2. s \in Shapes /\ o \in Origins \cup {NoOrigin} /\ aborted' \subseteq Tasks
  BY <1>1 DEF IInv, DispatchTypeOK, Observe
<1>3. rec \in CallRecord /\ rec.pc = "planned" /\ rec.copy = Idle.copy
  BY <1>2, IdleIs DEF CallRecord, Pcs
<1>4. call' = [call EXCEPT ![t] = rec]
  BY <1>1
<1> HIDE DEF rec
<1>5. Fit(t, rec) /\ Earned(rec.copy)
  BY <1>3, IdleIs, Unjudged
<1> QED BY <1>2, <1>3, <1>4, <1>5, OneCall DEF Observe

LEMMA LocateInv == ASSUME IInv, NEW t \in Tasks, Locate(t) PROVE IInv'
<1>1. CASE Return(t)
  BY <1>1, ReturnInv DEF Locate
<1>2. ASSUME NEW o \in {page[t], NoOrigin},
             call' = [call EXCEPT ![t].pc = "located", ![t].here = o]
      PROVE  IInv'
  <2> DEFINE rec == [call[t] EXCEPT !.pc = "located", !.here = o]
  <2>1. o \in Origins \cup {NoOrigin}
    BY DEF IInv, DispatchTypeOK
  <2>2. rec \in CallRecord /\ rec.pc = "located" /\ rec.copy = call[t].copy
    BY <2>1, CallIs DEF CallRecord, Pcs
  <2>3. call' = [call EXCEPT ![t] = rec]
    BY <1>2 DEF IInv, DispatchTypeOK
  <2> HIDE DEF rec
  <2>4. Fit(t, rec) /\ Earned(rec.copy)
    BY <2>2, Unjudged, CallIs
  <2> QED BY <2>2, <2>3, <2>4, CallIs, OneCall DEF Locate
<1> QED BY <1>1, <1>2 DEF Locate
LEMMA RequestIs ==
    ASSUME NEW c \in CallRecord
    PROVE  /\ Request(c) \in Call
           /\ Request(c).risk = c.shape.risk /\ Request(c).prohibited = c.shape.prohibited
           /\ Request(c).leaks = c.shape.leaks /\ Request(c).moved = Moved(c)
           /\ Request(c).scope = Scope(c)
           /\ Request(c).target = c.shape.target
           /\ GrantSite(c) = IF Scope(c) # NoSite THEN Scope(c) ELSE c.shape.target
           /\ c.shape \in Shape /\ Scope(c) \in Place
<1>1. c.shape \in Shape /\ c.here \in Origins \cup {NoOrigin}
  BY DispatchAssumption DEF CallRecord
<1>2. Scope(c) \in Place
  BY <1>1, DispatchAssumption DEF Scope, PlaceOf, Place, Shape
<1>3. Moved(c) \in BOOLEAN
  BY DEF Moved
<1> QED BY <1>1, <1>2, <1>3 DEF Request, Call, Shape, GrantSite

LEMMA ContextIs ==
    ASSUME IInv, NEW t \in Tasks
    PROVE  /\ ContextOf(t) \in Context
           /\ ContextOf(t).mode = mode /\ ContextOf(t).rules = rules
           /\ ContextOf(t).plan = plan[t]
           /\ ContextOf(t).unattended = (t \in Unattended)
<1>1. plan[t] \in SUBSET Sites /\ mode \in Modes /\ rules \in Rules
  BY DEF IInv, DispatchTypeOK
<1>2. (t \in Unattended) \in BOOLEAN
  OBVIOUS
<1> QED BY <1>1, <1>2 DEF ContextOf, Context

\* What the decision on a call is worth.
LEMMA DecisionIs ==
    ASSUME IInv, NEW t \in Tasks, NEW c \in CallRecord, NEW v,
           v = Combined(evaluatePolicy(Request(c), ContextOf(t)), c.shape.egress)
    PROVE  /\ v \in Verdicts
           /\ v # "DENY" => Permissible(c.shape)
           /\ v = "ALLOW" => Licence(t, c) /\ (Moved(c) => c.shape.risk = 0)
<1> DEFINE w == evaluatePolicy(Request(c), ContextOf(t))
<1>1. c.shape \in Shapes /\ c.shape.egress \in {"undeclared", "allow", "confirm", "deny"}
  BY RequestIs DEF Shape, CallRecord
<1>2. PICK q : q = Request(c)
  OBVIOUS
<1>3. PICK x : x = ContextOf(t)
  OBVIOUS
<1>4. q \in Call /\ x \in Context /\ w = evaluatePolicy(q, x)
  BY <1>2, <1>3, RequestIs, ContextIs
<1>5. /\ w \in Verdicts
      /\ w # "DENY" => ~q.prohibited /\ q.risk < 5
      /\ w = "ALLOW" =>
           /\ q.leaks = "allow" /\ q.risk < 3 /\ (q.moved => q.risk = 0)
           /\ ~x.unattended \/ q.risk < 2
           /\ PlanCovers(q, x) \/ ModeAllows(q, x)
  <2> HIDE DEF w
  <2> QED BY <1>4, PolicySound
<1>6. w = "ALLOW" =>
           \/ q.scope \in x.plan
           \/ q.risk = 0 \/ x.mode = "skip" \/ (x.mode = "auto" /\ q.risk = 1)
           \/ LET place == IF q.scope # NoSite THEN q.scope ELSE q.target
              IN  x.mode = "auto" /\ place \in Sites /\ x.rules[place].decision = "allow"
  BY <1>4, <1>5, LetThrough
<1> HIDE DEF w
<1>7. /\ v \in Verdicts
      /\ v # "DENY" => w # "DENY" /\ c.shape.egress # "deny"
      /\ v = "ALLOW" => w = "ALLOW" /\ c.shape.egress # "confirm"
  BY <1>1, <1>5, CombinedSound DEF w
<1>8. v # "DENY" => Permissible(c.shape)
  BY <1>1, <1>2, <1>5, <1>7, RequestIs, DispatchAssumption DEF Permissible
<1>9. ASSUME v = "ALLOW" PROVE Licence(t, c) /\ (Moved(c) => c.shape.risk = 0)
  <2>1. /\ c.shape.leaks = "allow" /\ c.shape.risk < 3 /\ (Moved(c) => c.shape.risk = 0)
        /\ t \notin Unattended \/ c.shape.risk < 2
        /\ c.shape.egress # "confirm"
    BY <1>9, <1>2, <1>3, <1>5, <1>7, RequestIs, ContextIs
  <2>2. \/ Scope(c) \in plan[t]
        \/ c.shape.risk = 0 \/ mode = "skip" \/ (mode = "auto" /\ c.shape.risk = 1)
        \/ mode = "auto" /\ GrantSite(c) \in Sites /\ rules[GrantSite(c)].decision = "allow"
    BY <1>9, <1>2, <1>3, <1>6, <1>7, RequestIs, ContextIs
  <2>3. \A s \in Sites : rules[s].decision = "allow" => s \in granted
    BY DEF IInv, AllEarned, Earned
  <2> QED BY <2>1, <2>2, <2>3 DEF Licence
<1> QED BY <1>7, <1>8, <1>9

LEMMA JudgeInv == ASSUME IInv, NEW t \in Tasks, Judge(t) PROVE IInv'
<1> DEFINE v   == Combined(evaluatePolicy(Request(call[t]), ContextOf(t)), call[t].shape.egress)
           rec == [call[t] EXCEPT !.pc = "judged", !.verdict = v]
<1>1. /\ v \in Verdicts
      /\ v # "DENY" => Permissible(call[t].shape)
      /\ v = "ALLOW" => Licence(t, call[t]) /\ (Moved(call[t]) => call[t].shape.risk = 0)
  <2>1. PICK c : c = call[t]
    OBVIOUS
  <2>2. PICK u : u = v
    OBVIOUS
  <2>3. c \in CallRecord /\ u = Combined(evaluatePolicy(Request(c), ContextOf(t)), c.shape.egress)
    BY <2>1, <2>2, CallIs
  <2>4. /\ u \in Verdicts
        /\ u # "DENY" => Permissible(c.shape)
        /\ u = "ALLOW" => Licence(t, c) /\ (Moved(c) => c.shape.risk = 0)
    BY <2>3, DecisionIs
  <2> HIDE DEF v
  <2> QED BY <2>1, <2>2, <2>4
<1>2. call' = [call EXCEPT ![t] = rec] /\ aborted' \subseteq Tasks
  BY CallIs DEF Judge, IInv, DispatchTypeOK
<1> HIDE DEF v
<1>3. /\ rec \in CallRecord /\ rec.pc = "judged" /\ rec.verdict = v
      /\ rec.shape = call[t].shape /\ rec.here = call[t].here
      /\ rec.planned = call[t].planned /\ rec.copy = call[t].copy
  BY <1>1, CallIs DEF CallRecord, Pcs
<1> HIDE DEF rec
<1>4. Licence(t, call[t]) => Licence(t, rec)
  BY <1>3 DEF Licence, GrantSite, Scope
<1>5. Fit(t, rec) /\ Earned(rec.copy)
  BY <1>1, <1>3, <1>4, CallIs DEF Fit, Decided, Stage, Moved, Posed, Settled, Approving, Recording
<1> QED BY <1>2, <1>3, <1>5, OneCall DEF Judge
LEMMA DecideInv ==
    ASSUME IInv, NEW t \in Tasks, NEW by \in {"no", "policy", "person"}, Decide(t, by),
           call[t].pc \in Judged,
           by = "policy" => call[t].verdict = "ALLOW",
           by = "person" => call[t].verdict = "ALLOW_WITH_CONFIRMATION" /\ t \notin Unattended,
           UNCHANGED <<asks, mode, page, rules, plan, removal, granted, moves, evictions>>,
           aborted' \subseteq Tasks
    PROVE  IInv'
<1> DEFINE rec == [call[t] EXCEPT !.pc = "loading", !.granted = by]
<1>1. /\ rec \in CallRecord /\ rec.pc = "loading" /\ rec.granted = by /\ rec.copy = call[t].copy
      /\ rec.shape = call[t].shape /\ rec.planned = call[t].planned /\ rec.here = call[t].here
      /\ rec.verdict = call[t].verdict
  BY CallIs DEF CallRecord, Pcs, Recording
<1>2. call' = [call EXCEPT ![t] = rec]
  BY DEF Decide, IInv, DispatchTypeOK
<1> HIDE DEF rec
<1>3. Stage(t, rec) /\ Earned(rec.copy)
  BY <1>1, CallIs DEF Stage, Approving, Posed, Settled, Recording
<1> QED BY <1>1, <1>2, <1>3, Onward

\* The call goes on to a stage that its record fits.
LEMMA GoInv ==
    ASSUME IInv, NEW t \in Tasks, NEW pc \in Pcs, Go(t, pc), call[t].pc \in Judged,
           \A rec \in CallRecord :
               /\ rec.pc = pc /\ rec.verdict = call[t].verdict /\ rec.granted = call[t].granted
               => Stage(t, rec),
           UNCHANGED <<asks, mode, page, rules, plan, aborted, removal, granted, moves, evictions>>
    PROVE  IInv'
<1> DEFINE rec == [call[t] EXCEPT !.pc = pc]
<1>1. /\ rec \in CallRecord /\ rec.pc = pc /\ rec.granted = call[t].granted
      /\ rec.shape = call[t].shape /\ rec.planned = call[t].planned /\ rec.here = call[t].here
      /\ rec.verdict = call[t].verdict /\ rec.copy = call[t].copy
  BY CallIs DEF CallRecord
<1>2. call' = [call EXCEPT ![t] = rec] /\ aborted' \subseteq Tasks
  BY CallIs DEF Go
<1> HIDE DEF rec
<1>3. Stage(t, rec) /\ Earned(rec.copy)
  BY <1>1, CallIs
<1> QED BY <1>1, <1>2, <1>3, Onward

LEMMA ApproveInv == ASSUME IInv, NEW t \in Tasks, Approve(t) PROVE IInv'
<1>1. /\ call[t].pc = "judged" /\ call[t].pc \in Judged
      /\ aborted' \subseteq Tasks /\ call[t].verdict \in Verdicts
  BY CallIs DEF Approve, At, Judged, CallRecord
<1>2. CASE Decide(t, "no")
  BY <1>1, <1>2, DecideInv DEF Approve
<1>3. CASE call[t].verdict = "ALLOW" /\ Decide(t, "policy")
  BY <1>1, <1>3, DecideInv DEF Approve
<1>4. CASE call[t].verdict = "ALLOW_WITH_CONFIRMATION" /\ Go(t, "asking")
  <2>1. \A rec \in CallRecord :
            rec.pc = "asking" /\ rec.verdict = call[t].verdict => Stage(t, rec)
    BY <1>4 DEF Stage, Approving, Posed, Settled, Recording
  <2>2. "asking" \in Pcs
    BY DEF Pcs, Approving
  <2> QED BY <1>1, <1>4, <2>1, <2>2, GoInv DEF Approve
<1> QED BY <1>1, <1>2, <1>3, <1>4 DEF Approve, Verdicts

\* A call that waits for an answer.
LEMMA Waiting ==
    ASSUME IInv, NEW t \in Tasks, call[t].pc \in Approving
    PROVE  /\ call[t].pc \in Judged /\ call[t].verdict = "ALLOW_WITH_CONFIRMATION"
           /\ call[t].pc # "asking" => t \notin Unattended
           /\ call[t].pc \notin {"asking", "prompted"} => call[t].granted = "person"
BY CallIs DEF Stage, Judged, Posed

LEMMA AskInv == ASSUME IInv, NEW t \in Tasks, Ask(t) PROVE IInv'
<1>1. call[t].pc \in Approving /\ aborted' \subseteq Tasks
  BY CallIs DEF Ask, At, Approving
<1>2. CASE Decide(t, "no")
  BY <1>1, <1>2, Waiting, DecideInv DEF Ask
<1>3. CASE t \notin Unattended /\ Go(t, "prompted")
  <2>1. \A rec \in CallRecord :
            rec.pc = "prompted" /\ rec.verdict = call[t].verdict => Stage(t, rec)
    BY <1>1, <1>3, Waiting DEF Stage, Approving, Posed, Settled, Recording
  <2>2. "prompted" \in Pcs
    BY DEF Pcs, Approving
  <2> QED BY <1>1, <1>3, <2>1, <2>2, Waiting, GoInv DEF Ask
<1> QED BY <1>2, <1>3 DEF Ask

LEMMA AnswerInv == ASSUME IInv, NEW t \in Tasks, Answer(t) PROVE IInv'
<1>1. /\ call[t].pc = "prompted" /\ call[t].pc \in Approving /\ aborted' \subseteq Tasks
      /\ UNCHANGED <<asks, mode, page, rules, plan, removal, granted, moves, evictions>>
  BY CallIs DEF Answer, At, Approving
<1>2. /\ call[t].pc \in Judged /\ call[t].verdict = "ALLOW_WITH_CONFIRMATION"
      /\ t \notin Unattended
  BY <1>1, Waiting
<1>3. CASE Decide(t, "no") \/ Decide(t, "person")
  BY <1>1, <1>2, <1>3, DecideInv
<1>4. ASSUME NEW pc \in {"amending", "granting"}, NEW r \in GrantRisks \cup {0}, NEW rec,
             rec = [call[t] EXCEPT !.pc = pc, !.granted = "person", !.risk = r],
             call' = [call EXCEPT ![t] = rec]
      PROVE  IInv'
  <2>1. /\ rec \in CallRecord /\ rec.pc = pc /\ rec.granted = "person"
        /\ rec.shape = call[t].shape /\ rec.planned = call[t].planned
        /\ rec.here = call[t].here /\ rec.verdict = call[t].verdict /\ rec.copy = call[t].copy
    BY <1>4, CallIs DEF CallRecord, Pcs, Approving
  <2>2. Stage(t, rec) /\ Earned(rec.copy)
    BY <1>2, <2>1, CallIs DEF Stage, Approving, Posed, Settled, Recording
  <2> QED BY <1>1, <1>2, <1>4, <2>1, <2>2, Onward
<1>5. CASE call' = [call EXCEPT ![t].pc = "amending", ![t].granted = "person"]
  <2> DEFINE rec == [call[t] EXCEPT !.pc = "amending", !.granted = "person", !.risk = call[t].risk]
  <2>1. call[t].risk \in GrantRisks \cup {0}
    BY CallIs DEF CallRecord
  <2>2. rec = [call[t] EXCEPT !.pc = "amending", !.granted = "person"]
    BY CallIs DEF CallRecord
  <2>3. call' = [call EXCEPT ![t] = rec]
    BY <1>5, <2>2 DEF IInv, DispatchTypeOK
  <2>4. PICK d : d = rec
    OBVIOUS
  <2>5. PICK r \in GrantRisks \cup {0} : r = call[t].risk
    BY <2>1
  <2>6. d = [call[t] EXCEPT !.pc = "amending", !.granted = "person", !.risk = r]
        /\ call' = [call EXCEPT ![t] = d]
    BY <2>3, <2>4, <2>5
  <2> HIDE DEF rec
  <2> QED BY <2>6, <1>4
<1>6. ASSUME NEW r \in GrantRisks,
             call' = [call EXCEPT ![t].pc = "granting", ![t].granted = "person", ![t].risk = r]
      PROVE  IInv'
  <2>1. PICK d : d = [call[t] EXCEPT !.pc = "granting", !.granted = "person", !.risk = r]
    OBVIOUS
  <2>2. call' = [call EXCEPT ![t] = d]
    BY <1>6, <2>1 DEF IInv, DispatchTypeOK
  <2> QED BY <2>1, <2>2, <1>4
<1> QED BY <1>3, <1>5, <1>6 DEF Answer

LEMMA ExpireInv == ASSUME IInv, NEW t \in Tasks, Expire(t) PROVE IInv'
<1>1. call[t].pc \in Approving /\ aborted' \subseteq Tasks
  BY CallIs DEF Expire, At, Approving
<1> QED BY <1>1, Waiting, DecideInv DEF Expire
\* The call goes on while something durable changes.
LEMMA OnwardGains ==
    ASSUME IInv, NEW t \in Tasks, NEW rec \in CallRecord,
           rec.shape = call[t].shape, rec.planned = call[t].planned, rec.here = call[t].here,
           rec.verdict = call[t].verdict, rec.pc \in Judged => call[t].pc \in Judged,
           Stage(t, rec), Earned(rec.copy),
           call' = [call EXCEPT ![t] = rec],
           Gains, DispatchTypeOK', AllEarned'
    PROVE  IInv'
<1>1. Decided(t, call[t])
  BY DEF IInv, CallsFit, Fit
<1>2. Licence(t, call[t]) => Licence(t, rec)
  BY DEF Licence, GrantSite, Scope
<1>3. Fit(t, rec)
  BY <1>1, <1>2 DEF Fit, Decided, Moved
<1>4. call'[t] = rec /\ \A q \in Tasks \ {t} : call'[q] = call[q]
  BY DEF IInv, DispatchTypeOK
<1>5. Fit(t, rec)' /\ Earned(rec.copy)'
  BY <1>3, Kept, EarnedKept
<1>6. Fit(t, call[t])' /\ Earned(call[t].copy)'
  BY <1>4, <1>5, SameRecord
<1> DEFINE changed == {t}
<1>7. \A q \in changed : Fit(q, call[q])' /\ Earned(call[q].copy)'
  BY <1>6
<1>8. changed \in SUBSET Tasks /\ \A q \in Tasks \ changed : call'[q] = call[q]
  BY <1>4
<1> HIDE DEF changed
<1> QED BY <1>7, <1>8, KeepInv

LEMMA GrantSiteIs == ASSUME IInv, NEW t \in Tasks PROVE GrantSite(call[t]) \in Place
<1>1. PICK c \in CallRecord : c = call[t]
  BY CallIs
<1>2. GrantSite(c) \in Place
  BY RequestIs DEF Shape
<1> QED BY <1>1, <1>2

LEMMA AmendInv == ASSUME IInv, NEW t \in Tasks, Amend(t) PROVE IInv'
<1>1. call[t].pc = "amending" /\ call[t].pc \in Approving
  BY DEF Amend, At, Approving
<1>2. /\ call[t].pc \in Judged /\ call[t].verdict = "ALLOW_WITH_CONFIRMATION"
      /\ t \notin Unattended /\ call[t].granted = "person"
  BY <1>1, Waiting
<1> DEFINE rec == [call[t] EXCEPT !.pc = "loading"]
<1>3. /\ rec \in CallRecord /\ rec.pc = "loading" /\ rec.granted = "person"
      /\ rec.shape = call[t].shape /\ rec.planned = call[t].planned /\ rec.here = call[t].here
      /\ rec.verdict = call[t].verdict /\ rec.copy = call[t].copy
  BY <1>2, CallIs DEF CallRecord, Pcs, Recording
<1>4. call' = [call EXCEPT ![t] = rec]
  BY DEF Amend, Go
<1> HIDE DEF rec
<1>5. Stage(t, rec) /\ Earned(rec.copy)
  BY <1>2, <1>3, CallIs DEF Stage, Approving, Posed, Settled, Recording
<1>6. GrantSite(call[t]) \in Place
  BY GrantSiteIs
<1>7. plan' \in [Tasks -> SUBSET Sites] /\ \A q \in Tasks : plan[q] \subseteq plan'[q]
  <2> DEFINE site == GrantSite(call[t])
  <2>1. site \in Place
    BY <1>6
  <2>2. plan \in [Tasks -> SUBSET Sites]
    BY DEF IInv, DispatchTypeOK
  <2>3. plan' = plan \/ plan' = [plan EXCEPT ![t] = plan[t] \cup ({site} \ {NoSite})]
    BY DEF Amend
  <2> HIDE DEF site
  <2> QED BY <2>1, <2>2, <2>3 DEF Place
<1>8. DispatchTypeOK'
  BY <1>3, <1>4, <1>7 DEF IInv, DispatchTypeOK, Amend
<1>9. Gains /\ AllEarned'
  BY <1>7 DEF Gains, IInv, AllEarned, Earned, Amend
<1> QED BY <1>2, <1>3, <1>4, <1>5, <1>8, <1>9, OnwardGains

LEMMA GrantInv == ASSUME IInv, NEW t \in Tasks, Grant(t) PROVE IInv'
<1>1. call[t].pc = "granting" /\ call[t].pc \in Approving /\ aborted' \subseteq Tasks
  BY CallIs DEF Grant, At, Approving
<1>2. /\ call[t].pc \in Judged /\ call[t].verdict = "ALLOW_WITH_CONFIRMATION"
      /\ t \notin Unattended /\ call[t].granted = "person"
  BY <1>1, Waiting
<1>3. rules \in Rules /\ Earned(rules)
  BY DEF IInv, DispatchTypeOK, AllEarned
<1>4. CASE call' = [call EXCEPT ![t].pc = "loading", ![t].risk = 0]
  <2> DEFINE rec == [call[t] EXCEPT !.pc = "loading", !.risk = 0]
  <2>1. /\ rec \in CallRecord /\ rec.pc = "loading" /\ rec.granted = "person"
        /\ rec.shape = call[t].shape /\ rec.planned = call[t].planned
        /\ rec.here = call[t].here /\ rec.verdict = call[t].verdict /\ rec.copy = call[t].copy
    BY <1>2, CallIs DEF CallRecord, Pcs, Recording
  <2>2. call' = [call EXCEPT ![t] = rec]
    BY <1>4 DEF IInv, DispatchTypeOK
  <2> HIDE DEF rec
  <2>3. Stage(t, rec) /\ Earned(rec.copy)
    BY <1>2, <2>1, CallIs DEF Stage, Approving, Posed, Settled, Recording
  <2> QED BY <1>1, <1>2, <2>1, <2>2, <2>3, Onward DEF Grant
<1>5. CASE GrantSite(call[t]) # NoSite /\ call' = [call EXCEPT ![t].pc = "storing", ![t].copy = rules]
  <2> DEFINE rec == [call[t] EXCEPT !.pc = "storing", !.copy = rules]
  <2>1. /\ rec \in CallRecord /\ rec.pc = "storing" /\ rec.granted = "person"
        /\ rec.shape = call[t].shape /\ rec.planned = call[t].planned
        /\ rec.here = call[t].here /\ rec.verdict = call[t].verdict /\ rec.copy = rules
    BY <1>2, <1>3, CallIs DEF CallRecord, Pcs, Approving
  <2>2. call' = [call EXCEPT ![t] = rec]
    BY <1>5 DEF IInv, DispatchTypeOK
  <2> HIDE DEF rec
  <2>4. GrantSite(rec) = GrantSite(call[t])
    BY <2>1 DEF GrantSite, Scope
  <2>5. GrantSite(rec) \in Sites
    BY <1>5, <2>4, GrantSiteIs, CallIs DEF Place
  <2>3. Stage(t, rec) /\ Earned(rec.copy)
    BY <1>2, <1>3, <2>1, <2>5 DEF Stage, Approving, Posed, Settled, Recording
  <2> QED BY <1>1, <1>2, <2>1, <2>2, <2>3, Onward DEF Grant
<1> QED BY <1>4, <1>5 DEF Grant

LEMMA LoadInv == ASSUME IInv, NEW t \in Tasks, Load(t) PROVE IInv'
<1>1. call[t].pc = "loading" /\ call[t].pc \in Judged /\ aborted' \subseteq Tasks
  BY CallIs DEF Load, At, Judged, Recording
<1>2. rules \in Rules /\ Earned(rules)
  BY DEF IInv, DispatchTypeOK, AllEarned
<1> DEFINE rec == [call[t] EXCEPT !.pc = "saving", !.copy = rules]
<1>3. /\ rec \in CallRecord /\ rec.pc = "saving" /\ rec.granted = call[t].granted
      /\ rec.shape = call[t].shape /\ rec.planned = call[t].planned /\ rec.here = call[t].here
      /\ rec.verdict = call[t].verdict /\ rec.copy = rules
  BY <1>2, CallIs DEF CallRecord, Pcs, Recording
<1>4. call' = [call EXCEPT ![t] = rec]
  BY DEF Load, IInv, DispatchTypeOK
<1> HIDE DEF rec
<1>5. Stage(t, rec) /\ Earned(rec.copy)
  BY <1>1, <1>2, <1>3, CallIs DEF Stage, Approving, Posed, Settled, Recording
<1> QED BY <1>1, <1>3, <1>4, <1>5, Onward DEF Load

LEMMA UnruledIs == Unruled \in Rules /\ \A f : f = Unruled => Earned(f)
BY DEF Unruled, NoRule, Rules, Rule, Earned

LEMMA SaveInv == ASSUME IInv, NEW t \in Tasks, Save(t) PROVE IInv'
<1>1. call[t].pc = "saving" /\ call[t].pc \in Judged
  BY DEF Save, At, Judged, Recording
<1> DEFINE rec == [call[t] EXCEPT !.pc = "recorded", !.copy = Unruled]
<1>2. /\ rec \in CallRecord /\ rec.pc = "recorded" /\ rec.granted = call[t].granted
      /\ rec.shape = call[t].shape /\ rec.planned = call[t].planned /\ rec.here = call[t].here
      /\ rec.verdict = call[t].verdict /\ rec.copy = Unruled
  BY CallIs, UnruledIs DEF CallRecord, Pcs, Recording
<1>3. call' = [call EXCEPT ![t] = rec]
  BY DEF Save, IInv, DispatchTypeOK
<1> HIDE DEF rec
<1>4. Stage(t, rec) /\ Earned(rec.copy)
  BY <1>1, <1>2, CallIs, UnruledIs DEF Stage, Approving, Posed, Settled, Recording
<1>5. /\ rules' = call[t].copy /\ call[t].copy \in Rules /\ Earned(call[t].copy)
      /\ UNCHANGED <<asks, mode, page, plan, aborted, removal, granted, moves, evictions>>
  BY CallIs DEF Save, CallRecord
<1>6. DispatchTypeOK'
  BY <1>2, <1>3, <1>5 DEF IInv, DispatchTypeOK
<1>7. Gains /\ AllEarned'
  BY <1>5 DEF Gains, IInv, AllEarned, Earned
<1> QED BY <1>1, <1>2, <1>3, <1>4, <1>6, <1>7, OnwardGains

LEMMA StoreGrantInv == ASSUME IInv, NEW t \in Tasks, StoreGrant(t) PROVE IInv'
<1>1. call[t].pc = "storing" /\ call[t].pc \in Approving
  BY DEF StoreGrant, At, Approving
<1>2. /\ call[t].pc \in Judged /\ call[t].verdict = "ALLOW_WITH_CONFIRMATION"
      /\ t \notin Unattended /\ call[t].granted = "person"
  BY <1>1, Waiting
<1> DEFINE rec == [call[t] EXCEPT !.pc = "loading", !.copy = Unruled, !.risk = 0]
<1>3. /\ rec \in CallRecord /\ rec.pc = "loading" /\ rec.granted = "person"
      /\ rec.shape = call[t].shape /\ rec.planned = call[t].planned /\ rec.here = call[t].here
      /\ rec.verdict = call[t].verdict /\ rec.copy = Unruled
  BY <1>2, CallIs, UnruledIs DEF CallRecord, Pcs, Recording
<1>4. call' = [call EXCEPT ![t] = rec]
  BY DEF StoreGrant, IInv, DispatchTypeOK
<1> HIDE DEF rec
<1>5. Stage(t, rec) /\ Earned(rec.copy)
  BY <1>2, <1>3, UnruledIs DEF Stage, Approving, Posed, Settled, Recording
<1>6. call[t].risk \in 0..2
  <2>1. GrantRisks \subseteq 0..2
    BY DispatchAssumption
  <2>2. call[t].risk \in GrantRisks \cup {0}
    BY CallIs DEF CallRecord
  <2>3. 0 \in 0..2
    OBVIOUS
  <2>4. \A r : r \in GrantRisks \cup {0} => r \in 0..2
    BY <2>1, <2>3, Zenon
  <2> QED BY <2>2, <2>4, Zenon
<1>7. PICK s : s = GrantSite(call[t])
  OBVIOUS
<1>8. PICK new : new = [decision |-> "allow", maxRisk |-> call[t].risk]
  OBVIOUS
<1>9. /\ rules' = [call[t].copy EXCEPT ![s] = new] /\ granted' = granted \cup {s}
      /\ UNCHANGED <<asks, mode, page, plan, aborted, removal, moves, evictions>>
  BY <1>7, <1>8 DEF StoreGrant
<1>10. s \in Sites /\ new \in Rule /\ call[t].copy \in Rules /\ Earned(call[t].copy)
  BY <1>1, <1>6, <1>7, <1>8, CallIs DEF Stage, Rule, CallRecord
<1>11. DispatchTypeOK'
  <2>1. rules' \in Rules
    BY <1>9, <1>10 DEF Rules
  <2> QED BY <1>3, <1>4, <1>9, <1>10, <2>1 DEF IInv, DispatchTypeOK
<1>12. Gains /\ AllEarned'
  <2>1. Earned(rules)'
    BY <1>9, <1>10 DEF Earned, Rules
  <2>2. Gains
    BY <1>9 DEF Gains
  <2>3. Earned(removal.copy)'
    BY <1>9 DEF IInv, AllEarned, Earned
  <2> QED BY <2>1, <2>2, <2>3 DEF AllEarned
<1> QED BY <1>2, <1>3, <1>4, <1>5, <1>11, <1>12, OnwardGains
LEMMA EnterInv == ASSUME IInv, NEW t \in Tasks, Enter(t) PROVE IInv'
<1>1. CASE Return(t)
  BY <1>1, ReturnInv DEF Enter
<1>2. CASE call[t].granted # "no" /\ Go(t, "executing")
  <2>1. call[t].pc = "recorded" /\ call[t].pc \in Settled /\ call[t].pc \in Judged
    BY DEF Enter, At, Judged, Settled, Recording
  <2>2. Stage(t, call[t])
    BY CallIs
  <2>3. \A rec \in CallRecord :
            /\ rec.pc = "executing" /\ rec.verdict = call[t].verdict
            /\ rec.granted = call[t].granted
            => Stage(t, rec)
    BY <1>2, <2>1, <2>2 DEF Stage, Approving, Posed, Settled, Recording
  <2>4. "executing" \in Pcs
    BY DEF Pcs
  <2> QED BY <1>2, <2>1, <2>3, <2>4, GoInv DEF Enter
<1> QED BY <1>1, <1>2 DEF Enter

\* The tool acts, on a page or through a connector.
LEMMA ActedInv ==
    ASSUME IInv, NEW t \in Tasks, At(t, "executing"), Go(t, "acted"),
           UNCHANGED <<asks, mode, page, rules, plan, aborted, removal, granted, moves, evictions>>
    PROVE  IInv'
<1>1. call[t].pc = "executing" /\ call[t].pc \in Judged
  BY DEF At, Judged
<1>2. Stage(t, call[t])
  BY CallIs
<1>3. \A rec \in CallRecord :
          /\ rec.pc = "acted" /\ rec.verdict = call[t].verdict /\ rec.granted = call[t].granted
          => Stage(t, rec)
  BY <1>1, <1>2 DEF Stage, Approving, Posed, Settled, Recording
<1>4. "acted" \in Pcs
  BY DEF Pcs
<1> QED BY <1>1, <1>3, <1>4, GoInv

LEMMA StepInv == ASSUME IInv, NEW t \in Tasks, Step(t) PROVE IInv'
<1>1. CASE Act(t)
  BY <1>1, ActedInv, ReturnInv DEF Act
<1>2. CASE Finish(t)
  BY <1>2, ReturnInv DEF Finish
<1> QED BY <1>1, <1>2, LocateInv, JudgeInv, ApproveInv, AskInv, ExpireInv, AmendInv, GrantInv,
           StoreGrantInv, LoadInv, SaveInv, EnterInv DEF Step

-----------------------------------------------------------------------------
(* The panel, the pages and the worker. *)

\* Nothing happens to the calls.
LEMMA CallsAside ==
    ASSUME IInv, call' = call, Gains, DispatchTypeOK', AllEarned'
    PROVE  IInv'
<1> DEFINE changed == {}
<1>1. changed \in SUBSET Tasks /\ \A q \in Tasks \ changed : call'[q] = call[q]
  OBVIOUS
<1>2. \A q \in changed : Fit(q, call[q])' /\ Earned(call[q].copy)'
  OBVIOUS
<1> HIDE DEF changed
<1> QED BY <1>1, <1>2, KeepInv

LEMMA CancelInv == ASSUME IInv, NEW t \in Tasks, Cancel(t) PROVE IInv'
<1>1. aborted' \subseteq Tasks
  BY CallIs DEF Cancel
<1>2. CASE At(t, "prompted") /\ Decide(t, "no")
  <2>1. call[t].pc \in Approving
    BY <1>2 DEF At, Approving
  <2> QED BY <1>1, <1>2, <2>1, Waiting, DecideInv DEF Cancel
<1>3. CASE UNCHANGED call
  <2>1. DispatchTypeOK' /\ Gains /\ AllEarned'
    BY <1>1, <1>3 DEF IInv, DispatchTypeOK, Gains, AllEarned, Earned, Cancel
  <2> QED BY <1>3, <2>1, CallsAside
<1> QED BY <1>2, <1>3 DEF Cancel

LEMMA RemoveRuleInv == ASSUME IInv, NEW s \in Sites, RemoveRule(s) PROVE IInv'
<1>1. DispatchTypeOK' /\ Gains
  BY DEF IInv, DispatchTypeOK, Gains, RemoveRule, Place
<1>2. AllEarned'
  BY DEF IInv, AllEarned, Earned, RemoveRule
<1> QED BY <1>1, <1>2, CallsAside DEF RemoveRule

LEMMA StoreRemovalInv == ASSUME IInv, StoreRemoval PROVE IInv'
<1>1. PICK s : s = removal.site
  OBVIOUS
<1>2. PICK f : f = removal.copy
  OBVIOUS
<1>3. s \in Sites /\ f \in Rules /\ Earned(f) /\ NoRule \in Rule /\ NoRule.decision = "none"
  BY <1>1, <1>2 DEF IInv, DispatchTypeOK, AllEarned, StoreRemoval, Place, NoRule, Rule
<1>4. rules' = [f EXCEPT ![s] = NoRule]
  BY <1>1, <1>2 DEF StoreRemoval
<1>5. rules' \in Rules /\ Earned(rules)'
  BY <1>3, <1>4 DEF Rules, Earned, StoreRemoval
<1>6. NoRemoval \in [site : Place, copy : Rules] /\ NoRemoval.copy = Unruled
  BY UnruledIs DEF NoRemoval, Place
<1>7. DispatchTypeOK' /\ Gains
  BY <1>5, <1>6 DEF IInv, DispatchTypeOK, Gains, StoreRemoval
<1>8. Earned(removal.copy)'
  BY <1>6 DEF Earned, StoreRemoval, Unruled, NoRule
<1> QED BY <1>5, <1>7, <1>8, CallsAside DEF AllEarned, StoreRemoval

LEMMA NavigateInv == ASSUME IInv, NEW t \in Tasks, Navigate(t) PROVE IInv'
<1>1. PICK o \in Origins : page' = [page EXCEPT ![t] = o]
  BY DEF Navigate
<1>2. DispatchTypeOK' /\ Gains
  BY <1>1 DEF IInv, DispatchTypeOK, Gains, Navigate
<1>3. AllEarned'
  BY DEF IInv, AllEarned, Earned, Navigate
<1> QED BY <1>2, <1>3, CallsAside DEF Navigate

LEMMA SuspendInv == ASSUME IInv, Suspend PROVE IInv'
<1> DEFINE changed == {t \in Tasks : At(t, "prompted")}
<1>1. \A t \in Tasks : call'[t] = IF t \in changed
                                THEN [call[t] EXCEPT !.pc = "loading", !.granted = "no"]
                                ELSE call[t]
  BY DEF Suspend
<1>2. Gains /\ AllEarned'
  BY DEF IInv, Suspend, Gains, AllEarned, Earned
<1>3. ASSUME NEW t \in changed
      PROVE  call'[t] \in CallRecord /\ Fit(t, call[t])' /\ Earned(call[t].copy)'
  <2>1. PICK rec : rec = [call[t] EXCEPT !.pc = "loading", !.granted = "no"]
    OBVIOUS
  <2>2. /\ rec \in CallRecord /\ rec.pc = "loading" /\ rec.granted = "no"
        /\ rec.shape = call[t].shape /\ rec.planned = call[t].planned
        /\ rec.here = call[t].here /\ rec.verdict = call[t].verdict /\ rec.copy = call[t].copy
    BY <2>1, CallIs DEF CallRecord, Pcs, Recording
  <2>3. Decided(t, call[t]) /\ Earned(call[t].copy) /\ call[t].pc \in Judged
    BY CallIs DEF At, Judged, Approving
  <2>4. Licence(t, call[t]) => Licence(t, rec)
    BY <2>2 DEF Licence, GrantSite, Scope
  <2>5. Fit(t, rec) /\ Earned(rec.copy)
    BY <2>2, <2>3, <2>4 DEF Fit, Decided, Moved, Stage, Approving, Posed, Settled, Recording
  <2>6. call'[t] = rec
    BY <1>1, <2>1
  <2>7. Fit(t, rec)' /\ Earned(rec.copy)'
    BY <1>2, <2>5, Kept, EarnedKept
  <2> QED BY <2>2, <2>6, <2>7, SameRecord
<1>4. call' \in [Tasks -> CallRecord]
  <2>1. call' = [t \in Tasks |-> call'[t]]
    BY DEF Suspend
  <2>2. \A t \in Tasks : call'[t] \in CallRecord
    BY <1>1, <1>3, CallIs
  <2> QED BY <2>1, <2>2
<1>5. DispatchTypeOK'
  BY <1>4 DEF IInv, DispatchTypeOK, Suspend
<1>6. changed \in SUBSET Tasks /\ (\A q \in Tasks \ changed : call'[q] = call[q])
  BY <1>1
<1>7. \A q \in changed : Fit(q, call[q])' /\ Earned(call[q].copy)'
  BY <1>3
<1> HIDE DEF changed
<1> QED BY <1>2, <1>5, <1>6, <1>7, KeepInv

\* Every call is idle: nothing is said of any.
LEMMA AllIdle ==
    ASSUME call \in [Tasks -> CallRecord], \A t \in Tasks : call[t] = Idle
    PROVE  CallsFit
BY IdleIs, Unjudged DEF CallsFit

LEMMA EvictInv == ASSUME IInv, Evict PROVE IInv'
<1>1. NoRemoval \in [site : Place, copy : Rules] /\ NoRemoval.copy = Unruled
  BY UnruledIs DEF NoRemoval, Place
<1>2. DispatchTypeOK' /\ Gains
  BY <1>1, IdleIs DEF IInv, DispatchTypeOK, Evict, Gains
<1>3. AllEarned'
  BY <1>1 DEF IInv, AllEarned, Earned, Evict, Unruled, NoRule
<1>4. ASSUME NEW t \in Tasks PROVE Fit(t, call[t])' /\ Earned(call[t].copy)'
  <2>1. PICK rec : rec = Idle
    OBVIOUS
  <2>2. Fit(t, rec) /\ Earned(rec.copy)
    BY <2>1, IdleIs, Unjudged
  <2>3. Fit(t, rec)' /\ Earned(rec.copy)'
    BY <1>2, <2>2, Kept, EarnedKept
  <2>4. call'[t] = rec
    BY <2>1 DEF Evict, Idle, AnyShape, Unruled
  <2> QED BY <2>3, <2>4, SameRecord
<1> QED BY <1>2, <1>3, <1>4 DEF IInv, CallsFit
-----------------------------------------------------------------------------
(* The theorems. *)

LEMMA InitInv == Init => IInv
<1> SUFFICES ASSUME DispatchInit PROVE IInv
  BY DEF Init
<1>1. PICK scene \in Scenes :
          /\ asks = scene.asks /\ mode = scene.mode
          /\ rules = scene.rules /\ plan = scene.plan
          /\ granted = {s \in Sites : scene.rules[s].decision = "allow"}
          /\ page = scene.page /\ moves = scene.moves /\ evictions = scene.evictions
  BY DEF DispatchInit
<1>2. scene \in Scene
  BY DispatchAssumption
<1>3. call \in [Tasks -> CallRecord] /\ \A t \in Tasks : call[t] = Idle
  BY IdleIs DEF DispatchInit
<1>4. NoRemoval \in [site : Place, copy : Rules] /\ NoRemoval.copy = Unruled
  BY UnruledIs DEF NoRemoval, Place
<1>5. DispatchTypeOK
  BY <1>1, <1>2, <1>3, <1>4 DEF DispatchInit, DispatchTypeOK, Scene
<1>6. AllEarned
  BY <1>1, <1>4, UnruledIs DEF DispatchInit, AllEarned, Earned
<1> QED BY <1>3, <1>5, <1>6, AllIdle DEF IInv

LEMMA DispatchInv == ASSUME IInv, Dispatch PROVE IInv'
BY StepInv, ObserveInv, AnswerInv, CancelInv, NavigateInv, RemoveRuleInv, StoreRemovalInv,
   SuspendInv DEF Dispatch

\* The writes of connectors leave the calls alone, but for the step that begins one.
LEMMA WritesAside ==
    ASSUME NEW w \in Writers, WriteStep(w)
    PROVE  UNCHANGED dispatchVars
BY DEF WriteStep, Claim, Check, Send, Answered, Settle

LEMMA UnchangedInv == ASSUME IInv, UNCHANGED dispatchVars PROVE IInv'
<1>1. DispatchTypeOK' /\ Gains /\ AllEarned' /\ call' = call
  BY DEF IInv, DispatchTypeOK, Gains, AllEarned, Earned, dispatchVars
<1> QED BY <1>1, CallsAside

LEMMA NextInv == ASSUME IInv, [Next]_vars PROVE IInv'
<1>1. ASSUME NEW t \in Tasks, NEW w \in Writers, Begin(t, w) PROVE IInv'
  BY <1>1, ActedInv DEF Begin
<1>2. CASE EvictAll
  BY <1>2, EvictInv DEF EvictAll
<1>3. CASE UNCHANGED dispatchVars
  BY <1>3, UnchangedInv
<1>4. CASE ListPending \/ \E k \in Keys : ResolveWrite(k)
  BY <1>3, <1>4 DEF ListPending, ResolveWrite
<1>5. CASE UNCHANGED vars
  BY <1>3, <1>5 DEF vars
<1> QED BY <1>1, <1>2, <1>3, <1>4, <1>5, DispatchInv, WritesAside DEF Next, ToolsNext

\* The invariant of the dispatch holds of every behaviour.
THEOREM Inductive == Spec => []IInv
BY InitInv, NextInv, PTL DEF Spec

LEMMA NoneSilent == IInv => NothingSilent
<1> SUFFICES ASSUME IInv, NEW t \in Tasks, Running(t)
             PROVE  PersonBehind(t) /\ Permissible(call[t].shape)
  BY DEF NothingSilent, Permissible
<1>1. call[t].pc \in Judged /\ call[t].pc \in Settled /\ call[t].pc \in {"executing", "acted"}
  BY DEF Running, At, Judged, Settled
<1>2. call[t] \in CallRecord /\ Decided(t, call[t]) /\ Stage(t, call[t])
  BY CallIs
<1>3. call[t].granted \in {"policy", "person"}
  BY <1>1, <1>2 DEF Stage, CallRecord
<1>4. CASE call[t].granted = "policy"
  BY <1>1, <1>2, <1>4 DEF Stage, Decided, Licence, PersonBehind
<1>5. CASE call[t].granted = "person"
  BY <1>1, <1>2, <1>5 DEF Stage, Decided, PersonBehind
<1> QED BY <1>3, <1>4, <1>5

\* policy-engine.ts and unattended-prompter.ts: whatever the calls, the rules, the plans and
\* the interleaving, a call that changes something has a person behind it, and what is
\* prohibited never runs.
THEOREM NothingSilentHolds == Spec => []NothingSilent
BY Inductive, NoneSilent, PTL

\* A call that is executing acts by its own step, or begins a write.
LEMMA OwnStep ==
    ASSUME IInv, [Next]_vars, NEW t \in Tasks, At(t, "executing"), call'[t].pc = "acted"
    PROVE  Act(t) \/ \E w \in Writers : Begin(t, w)
<1>1. call \in [Tasks -> CallRecord] /\ call[t].pc = "executing" /\ Idle.pc = "idle"
  BY IdleIs DEF IInv, DispatchTypeOK, At
<1>2. call'[t] # call[t]
  BY <1>1
<1>3. ASSUME NEW q \in Tasks, Step(q) \/ Observe(q) \/ Answer(q) \/ Cancel(q) \/ Navigate(q)
      PROVE  Act(t)
  <2>1. CASE Observe(q) \/ Locate(q) \/ Judge(q)
    BY <1>1, <1>2, <2>1 DEF Observe, Locate, Judge, At, Return
  <2>2. CASE Approve(q) \/ Ask(q)
    BY <1>1, <1>2, <2>2 DEF Approve, Ask, At, Decide, Go
  <2>3. CASE Answer(q) \/ Expire(q) \/ Cancel(q)
    BY <1>1, <1>2, <2>3 DEF Answer, Expire, Cancel, At, Decide
  <2>4. CASE Amend(q) \/ Grant(q) \/ StoreGrant(q)
    BY <1>1, <1>2, <2>4 DEF Amend, Grant, StoreGrant, At, Go
  <2>5. CASE Load(q) \/ Save(q) \/ Enter(q)
    BY <1>1, <1>2, <2>5 DEF Load, Save, Enter, At, Go, Return
  <2>6. CASE Finish(q)
    BY <1>1, <1>2, <2>6 DEF Finish, Return
  <2>7. CASE Act(q)
    BY <1>1, <1>2, <2>7 DEF Act, Return, Go
  <2>8. CASE Navigate(q)
    BY <1>2, <2>8 DEF Navigate
  <2> QED BY <1>3, <2>1, <2>2, <2>3, <2>4, <2>5, <2>6, <2>7, <2>8 DEF Step
<1>4. ASSUME NEW s \in Sites, RemoveRule(s) PROVE FALSE
  BY <1>2, <1>4 DEF RemoveRule
<1>5. CASE StoreRemoval
  BY <1>2, <1>5 DEF StoreRemoval
<1>6. CASE Suspend
  BY <1>1, <1>2, <1>6 DEF Suspend, At
<1>7. ASSUME NEW q \in Tasks, NEW w \in Writers, Begin(q, w) PROVE Begin(t, w)
  BY <1>1, <1>2, <1>7 DEF Begin, Go
<1>8. CASE EvictAll
  BY <1>1, <1>8 DEF EvictAll, Evict
<1>9. CASE UNCHANGED dispatchVars
  BY <1>2, <1>9 DEF dispatchVars
<1>10. CASE ListPending \/ \E k \in Keys : ResolveWrite(k)
  BY <1>9, <1>10 DEF ListPending, ResolveWrite
<1>11. CASE UNCHANGED vars
  BY <1>9, <1>11 DEF vars
<1> QED BY <1>3, <1>4, <1>5, <1>6, <1>7, <1>8, <1>9, <1>10, <1>11, WritesAside DEF Next, ToolsNext, Dispatch
\* What ActsWhereJudged says of one call.
ActsThere(t) ==
    LET c == call[t] IN
    At(t, "executing") /\ call'[t].pc = "acted" /\ c.shape.kind = "page"
        /\ c.shape.risk >= 1 /\ c.granted = "policy" /\ NoOrigin \notin {c.planned, c.here}
    => PlaceOf(page[t]) = Scope(c)

LEMMA ActsThereStep == ASSUME IInv, [Next]_vars, NEW t \in Tasks PROVE ActsThere(t)
<1> SUFFICES ASSUME At(t, "executing"), call'[t].pc = "acted", call[t].shape.kind = "page",
                    call[t].shape.risk >= 1, call[t].granted = "policy",
                    NoOrigin \notin {call[t].planned, call[t].here}
             PROVE  PlaceOf(page[t]) = Scope(call[t])
  BY DEF ActsThere
<1>1. call[t].pc = "executing" /\ call[t].pc \in Judged /\ call[t].pc \in Settled
  BY DEF At, Judged, Settled
<1>2. call[t] \in CallRecord /\ Decided(t, call[t]) /\ Stage(t, call[t])
  BY CallIs
<1>3. Moved(call[t]) => call[t].shape.risk = 0
  BY <1>1, <1>2 DEF Decided, Stage
<1>4. ~Moved(call[t])
  BY <1>3
<1>5. call[t].planned = call[t].here
  BY <1>4 DEF Moved
<1>6. Act(t)
  <2>1. ASSUME NEW w \in Writers, Begin(t, w) PROVE FALSE
    BY <2>1 DEF Begin
  <2> QED BY <2>1, OwnStep
<1>7. page[t] = call[t].planned
  <2>1. CASE Return(t)
    <3>1. call'[t].pc = "idle"
      BY <2>1, IdleIs DEF Return, IInv, DispatchTypeOK
    <3> QED BY <3>1
  <2>2. CASE call[t].planned \in {NoOrigin, page[t]}
    BY <2>2
  <2> QED BY <1>6, <2>1, <2>2 DEF Act
<1> QED BY <1>5, <1>7 DEF Scope

\* browser-tools.ts, assertAutomatable: an action nobody was asked about happens on a page
\* of the site whose rules were consulted, however the page moved since.
THEOREM ActsWhereJudgedHolds == Spec => ActsWhereJudged
<1> DEFINE Acts == \A t \in Tasks : ActsThere(t)
<1>1. IInv /\ [Next]_vars => [Acts]_dispatchVars
  BY ActsThereStep
<1>2. ActsWhereJudged <=> [][Acts]_dispatchVars
  BY DEF ActsWhereJudged, ActsThere
<1> HIDE DEF Acts
<1> QED BY <1>1, <1>2, Inductive, PTL DEF Spec

-----------------------------------------------------------------------------
(* The connection.  What makes OnlyConfirmed inductive is that the vault   *)
(* is where the session and the requests have a token from, and that       *)
(* Accept is the only step that fills it.                                  *)

RequestPcs == {"idle", "addressed", "ready", "permitted", "authorized", "sent"}
RequestRecord == [pc : RequestPcs, writes : BOOLEAN, to : SUBSET {HomeOf[t] : t \in Tokens},
                  header : SUBSET Tokens]
SessionRecord == [state : DOMAIN Edges, covers : BOOLEAN]

\* The part of the type invariant that the proof needs.
Types ==
    /\ session \in SessionRecord
    /\ vault \in SUBSET Tokens /\ confirmed \in SUBSET Tokens
    /\ request \in [Requests -> RequestRecord]

MayWrite == confirmed \cap CanWrite # {}
Homes == {HomeOf[t] : t \in confirmed}

Sound(r) ==
    /\ r.to \subseteq Homes /\ r.header \subseteq confirmed
    /\ r.pc \in {"ready", "permitted", "authorized", "sent"} /\ r.writes => MayWrite
    /\ r.pc \in {"authorized", "sent"} => r.header # {}

\* The inductive invariant.
Confirmed ==
    /\ Types
    /\ vault \subseteq confirmed
    /\ session.covers => MayWrite
    /\ \A q \in Requests : Sound(request[q])

\* A transition keeps a status a status, and its scopes.
LEMMA ToKeeps ==
    ASSUME NEW s \in SessionRecord, NEW to \in DOMAIN Edges
    PROVE  To(s, to) \in SessionRecord /\ To(s, to).covers = s.covers
BY DEF To, SessionRecord

\* The scopes that come with READY are those of the token.
LEMMA ToReadyKeeps ==
    ASSUME NEW s \in SessionRecord, NEW t
    PROVE  /\ ToReady(s, t) \in SessionRecord
           /\ ToReady(s, t).covers => s.covers \/ t \in CanWrite
BY DEF ToReady, SessionRecord, Edges

\* A status rebuilt from the vault has only the scopes of a token in it.
LEMMA ReconciledKeeps ==
    ASSUME Confirmed
    PROVE  Reconciled \in SessionRecord /\ (Reconciled.covers => MayWrite)
<1> USE DEF Confirmed, Types
<1>1. "NEEDS_AUTH" \in DOMAIN Edges /\ "AUTHENTICATING" \in DOMAIN Edges
  BY DEF Edges
<1>2. CASE vault # {} /\ session.state # "READY"
  <2> DEFINE s == To(To(session, "NEEDS_AUTH"), "AUTHENTICATING")
  <2>1. s \in SessionRecord /\ s.covers = session.covers
    BY <1>1, ToKeeps
  <2>2. Token \in vault
    BY <1>2 DEF Token
  <2>3. ToReady(s, Token) \in SessionRecord
        /\ (ToReady(s, Token).covers => s.covers \/ Token \in CanWrite)
    BY <2>1, ToReadyKeeps
  <2>4. Reconciled = ToReady(s, Token)
    BY <1>2 DEF Reconciled
  <2> HIDE DEF s
  <2> QED
    BY <2>1, <2>2, <2>3, <2>4 DEF MayWrite
<1>3. CASE vault = {} /\ session.state \in {"READY", "UNCONFIGURED"}
  BY <1>1, <1>3, ToKeeps DEF Reconciled
<1>4. CASE ~(vault # {} /\ session.state # "READY")
           /\ ~(vault = {} /\ session.state \in {"READY", "UNCONFIGURED"})
  BY <1>4 DEF Reconciled
<1> QED
  BY <1>2, <1>3, <1>4

\* Nothing is connected at first but what was confirmed before.
LEMMA ConfirmedInit == SessionInit => Confirmed
<1> SUFFICES ASSUME SessionInit PROVE Confirmed
  OBVIOUS
<1> USE DEF SessionInit
<1>1. Types
  BY DEF Types, NewSession, SessionRecord, Edges, NoRequest, RequestRecord, RequestPcs
<1>2. \A q \in Requests : Sound(request[q])
  BY DEF Sound, NoRequest
<1> QED
  BY <1>1, <1>2 DEF Confirmed, NewSession

\* A step of one request that leaves vault and confirmed alone.
LEMMA RequestKeeps ==
    ASSUME Confirmed, NEW q \in Requests, NEW r \in RequestRecord,
           request' = [request EXCEPT ![q] = r], Sound(r),
           UNCHANGED <<vault, confirmed>>,
           session' \in SessionRecord, session'.covers => MayWrite
    PROVE  Confirmed'
<1>1. Types'
  BY DEF Confirmed, Types
<1>2. \A p \in Requests : request'[p] = IF p = q THEN r ELSE request[p]
  BY DEF Confirmed, Types
<1>3. \A p \in Requests : Sound(request[p])' <=> Sound(IF p = q THEN r ELSE request[p])
  BY <1>2 DEF Sound, Homes, MayWrite
<1> QED
  BY <1>1, <1>3 DEF Confirmed, MayWrite

\* A step of the session that leaves the requests alone, when more may be confirmed.
LEMMA SessionKeeps ==
    ASSUME Confirmed, request' = request, confirmed \subseteq confirmed',
           confirmed' \in SUBSET Tokens, vault' \subseteq confirmed',
           session' \in SessionRecord, session'.covers => MayWrite'
    PROVE  Confirmed'
<1>1. Types'
  BY DEF Confirmed, Types
<1>2. \A q \in Requests : Sound(request[q])'
  BY DEF Confirmed, Sound, Homes, MayWrite
<1> QED
  BY <1>1, <1>2 DEF Confirmed

\* Each operation keeps the invariant.
LEMMA ConfirmedStep == Confirmed /\ [SessionNext \/ SessionForgets]_sessionVars => Confirmed'
<1> SUFFICES ASSUME Confirmed, [SessionNext \/ SessionForgets]_sessionVars
             PROVE  Confirmed'
  OBVIOUS
<1> USE SessionAssumption
<1>a. session \in SessionRecord /\ (session.covers => MayWrite)
  BY DEF Confirmed, Types
<1>b. NewSession \in SessionRecord /\ NewSession.covers = FALSE
  BY DEF NewSession, SessionRecord, Edges
<1>c. /\ "NEEDS_AUTH" \in DOMAIN Edges /\ "AUTHENTICATING" \in DOMAIN Edges
      /\ "UNCONFIGURED" \in DOMAIN Edges
  BY DEF Edges
<1>d. NoRequest \in RequestRecord /\ Sound(NoRequest)
  BY DEF NoRequest, RequestRecord, RequestPcs, Sound
<1>1. CASE ListConnectors
  BY <1>1, ReconciledKeeps, SessionKeeps DEF ListConnectors, Confirmed, Types, MayWrite
<1>2. ASSUME NEW t \in Tokens, Connect(t) PROVE Confirmed'
  <2>1. SteppedBack \in SessionRecord /\ SteppedBack.covers = session.covers
    BY <1>a, <1>c, ToKeeps DEF SteppedBack
  <2>2. session' \in SessionRecord /\ session'.covers = session.covers
    BY <1>2, <1>c, <2>1, ToKeeps DEF Connect
  <2> QED
    BY <1>2, <1>a, <2>2, SessionKeeps DEF Connect, Confirmed, Types, MayWrite
<1>3. ASSUME NEW t \in Tokens, Accept(t) PROVE Confirmed'
  <2>1. session' \in SessionRecord /\ (session'.covers => session.covers \/ t \in CanWrite)
    BY <1>3, <1>a, ToReadyKeeps DEF Accept
  <2>2. session'.covers => MayWrite'
    BY <1>3, <1>a, <2>1 DEF Accept, MayWrite
  <2> QED
    BY <1>3, <2>1, <2>2, SessionKeeps DEF Accept, Confirmed, Types
<1>4. ASSUME NEW t \in Tokens, Reject(t) PROVE Confirmed'
  <2>1. session' \in SessionRecord /\ session'.covers = session.covers
    BY <1>4, <1>a, <1>c, ToKeeps DEF Reject
  <2> QED
    BY <1>4, <1>a, <2>1, SessionKeeps DEF Reject, Confirmed, Types, MayWrite
<1>5. CASE RefuseSite
  <2>1. session' \in SessionRecord /\ session'.covers = session.covers
    BY <1>5, <1>a, <1>c, ToKeeps DEF RefuseSite
  <2> QED
    BY <1>5, <1>a, <2>1, SessionKeeps DEF RefuseSite, Confirmed, Types, MayWrite
<1>6. CASE Disconnect
  <2>1. session' \in SessionRecord /\ session'.covers = session.covers
    BY <1>6, <1>a, <1>c, ToKeeps DEF Disconnect
  <2> QED
    BY <1>6, <1>a, <2>1, SessionKeeps DEF Disconnect, Confirmed, Types, MayWrite
<1>7. ASSUME NEW q \in Requests, RequestStep(q) PROVE Confirmed'
  <2> DEFINE r == request[q]
  <2>r. r \in RequestRecord /\ Sound(r)
    BY DEF Confirmed, Types
  <2>p. \A pc \in RequestPcs : [r EXCEPT !.pc = pc] \in RequestRecord
    BY <2>r DEF RequestRecord
  <2>g. ASSUME GiveUp(q), UNCHANGED <<vault, confirmed>>,
               session' \in SessionRecord, session'.covers => MayWrite
        PROVE  Confirmed'
    BY <1>d, <2>g, RequestKeeps DEF GiveUp
  <2>m. ASSUME NEW pc \in RequestPcs, Proceed(q, pc), UNCHANGED <<vault, confirmed>>,
               session' \in SessionRecord, session'.covers => MayWrite,
               Sound([r EXCEPT !.pc = pc])
        PROVE  Confirmed'
    <3>1. request' = [request EXCEPT ![q] = [r EXCEPT !.pc = pc]]
      BY <2>m DEF Proceed
    <3> HIDE DEF r
    <3> QED
      BY <2>m, <2>p, <3>1, RequestKeeps
  <2>1. CASE Address(q)
    <3>1. PICK w \in BOOLEAN :
             request' = [request EXCEPT ![q] = [NoRequest EXCEPT !.pc = "addressed",
                                                                 !.writes = w, !.to = Bound]]
      BY <2>1 DEF Address
    <3> DEFINE n == [NoRequest EXCEPT !.pc = "addressed", !.writes = w, !.to = Bound]
    <3>2. Bound \subseteq Homes /\ Bound \in SUBSET {HomeOf[t] : t \in Tokens}
      BY DEF Bound, Homes, Confirmed, Types
    <3>3. NoRequest.header = {}
      BY DEF NoRequest
    <3>4. n \in RequestRecord /\ Sound(n)
      BY <1>d, <3>2, <3>3 DEF RequestRecord, RequestPcs, Sound
    <3>5. UNCHANGED <<session, vault, confirmed>>
      BY <2>1 DEF Address
    <3> HIDE DEF n
    <3>6. request' = [request EXCEPT ![q] = n]
      BY <3>1 DEF n
    <3> QED
      BY <1>a, <3>4, <3>5, <3>6, RequestKeeps
  <2>2. CASE Preflight(q)
    <3>1. session' \in SessionRecord /\ (session'.covers => MayWrite)
      BY <2>2, ReconciledKeeps DEF Preflight
    <3>2. UNCHANGED <<vault, confirmed>>
      BY <2>2 DEF Preflight
    <3>3. CASE session'.state = "READY" /\ (r.writes => session'.covers)
      <4>1. Proceed(q, "ready")
        BY <2>2, <3>3 DEF Preflight
      <4>2. Sound([r EXCEPT !.pc = "ready"])
        BY <2>r, <3>1, <3>3 DEF Sound, RequestRecord
      <4> QED
        BY <2>m, <3>1, <3>2, <4>1, <4>2 DEF RequestPcs
    <3>4. CASE ~(session'.state = "READY" /\ (r.writes => session'.covers))
      <4>1. GiveUp(q)
        BY <2>2, <3>4 DEF Preflight
      <4> QED
        BY <2>g, <3>1, <3>2, <4>1
    <3> QED
      BY <3>3, <3>4
  <2>3. CASE Permit(q)
    <3>1. UNCHANGED <<session, vault, confirmed>> /\ r.pc = "ready"
          /\ (Proceed(q, "permitted") \/ GiveUp(q))
      BY <2>3 DEF Permit, Requesting
    <3>2. Sound([r EXCEPT !.pc = "permitted"])
      BY <2>r, <3>1 DEF Sound, RequestRecord
    <3>3. session' \in SessionRecord /\ (session'.covers => MayWrite)
      BY <1>a, <3>1
    <3> QED
      BY <2>g, <2>m, <3>1, <3>2, <3>3 DEF RequestPcs
  <2>4. CASE ReadCredential(q)
    <3>1. UNCHANGED <<session, vault, confirmed>> /\ r.pc = "permitted"
      BY <2>4 DEF ReadCredential, Requesting
    <3>2. session' \in SessionRecord /\ (session'.covers => MayWrite)
      BY <1>a, <3>1
    <3>3. CASE vault # {}
      <4> DEFINE n == [r EXCEPT !.pc = "authorized", !.header = vault]
      <4>1. n \in RequestRecord
        BY <2>r DEF RequestRecord, RequestPcs, Confirmed, Types
      <4>2. Sound(n)
        BY <2>r, <3>1, <3>3 DEF Sound, RequestRecord, Confirmed
      <4>3. request' = [request EXCEPT ![q] = n]
        BY <2>4, <3>3 DEF ReadCredential
      <4> HIDE DEF n, r
      <4> QED
        BY <3>1, <3>2, <4>1, <4>2, <4>3, RequestKeeps
    <3>4. CASE vault = {}
      <4>1. GiveUp(q)
        BY <2>4, <3>4 DEF ReadCredential
      <4> QED
        BY <2>g, <3>1, <3>2, <4>1
    <3> QED
      BY <3>3, <3>4
  <2>5. CASE Leave(q)
    <3>1. UNCHANGED <<session, vault, confirmed>> /\ r.pc = "authorized"
          /\ (Proceed(q, "sent") \/ GiveUp(q))
      BY <2>5 DEF Leave, Requesting
    <3>2. Sound([r EXCEPT !.pc = "sent"])
      BY <2>r, <3>1 DEF Sound, RequestRecord
    <3>3. session' \in SessionRecord /\ (session'.covers => MayWrite)
      BY <1>a, <3>1
    <3> QED
      BY <2>g, <2>m, <3>1, <3>2, <3>3 DEF RequestPcs
  <2>6. CASE Respond(q)
    <3>1. UNCHANGED <<session, vault, confirmed>> /\ GiveUp(q)
      BY <2>6 DEF Respond
    <3> QED
      BY <1>a, <2>g, <3>1
  <2> QED
    BY <1>7, <2>1, <2>2, <2>3, <2>4, <2>5, <2>6 DEF RequestStep
<1>8. CASE SessionForgets
  <2>1. request' = [q \in Requests |-> NoRequest] /\ confirmed' = confirmed
        /\ vault' \subseteq vault /\ session' = NewSession
    BY <1>8 DEF SessionForgets
  <2>2. Types'
    BY <1>b, <1>d, <2>1 DEF Confirmed, Types
  <2>3. \A q \in Requests : Sound(request[q])'
    BY <1>d, <2>1 DEF Sound, Homes, MayWrite, NoRequest
  <2> QED
    BY <1>b, <2>1, <2>2, <2>3 DEF Confirmed
<1>9. CASE UNCHANGED sessionVars
  BY <1>9, <1>a, SessionKeeps DEF sessionVars, Confirmed, Types, MayWrite
<1> QED
  BY <1>1, <1>2, <1>3, <1>4, <1>5, <1>6, <1>7, <1>8, <1>9 DEF SessionNext

\* Everything in the vault, the session's scopes and a request has been confirmed.
THEOREM ConfirmedInvariant == SessionSpec => []Confirmed
BY ConfirmedInit, ConfirmedStep, PTL DEF SessionSpec

\* A request carries a token, goes to a site and may write only as the service confirmed.
THEOREM OnlyConfirmedHolds == SessionSpec => []OnlyConfirmed
<1>1. Confirmed => OnlyConfirmed
  BY DEF Confirmed, Types, Sound, Homes, MayWrite, OnlyConfirmed, RequestRecord
<1> QED
  BY <1>1, ConfirmedInvariant, PTL

\* Connectors takes the steps of both of its parts, one at a time or, when the worker goes,
\* together: what holds of ConnectorWrites and of ConnectorSession holds there.
THEOREM PartsHold == ConnectorsSpec => Spec /\ SessionSpec
<1>1. ConnectorsInit => Init /\ SessionInit
  BY DEF ConnectorsInit
<1>2. [ConnectorsNext]_connectorsVars => [Next]_vars /\ [SessionNext \/ SessionForgets]_sessionVars
  BY DEF ConnectorsNext, connectorsVars, Next
<1> QED
  BY <1>1, <1>2, PTL DEF ConnectorsSpec, Spec, SessionSpec
-----------------------------------------------------------------------------
(* The claims: a sequence with one claim of a key at most.                 *)

DistinctKeys(s) == \A i, j \in 1..Len(s) : s[i].key = s[j].key => i = j

\* Every claim of s is one of t.
Among(s, t) == \A i \in 1..Len(s) : \E j \in 1..Len(t) : s[i] = t[j]

LEMMA PrefixIs ==
    ASSUME NEW s \in Seq(ClaimRecord), DistinctKeys(s), NEW n \in 0..Len(s)
    PROVE  /\ SubSeq(s, 1, n) \in Seq(ClaimRecord) /\ Len(SubSeq(s, 1, n)) = n
           /\ DistinctKeys(SubSeq(s, 1, n)) /\ Among(SubSeq(s, 1, n), s)
           /\ \A i \in 1..n : SubSeq(s, 1, n)[i] = s[i]
<1> DEFINE t == SubSeq(s, 1, n)
<1>1. t \in Seq(ClaimRecord) /\ Len(t) = n /\ \A i \in 1..n : t[i] = s[i]
  OBVIOUS
<1> HIDE DEF t
<1>2. DistinctKeys(t) /\ Among(t, s)
  BY <1>1 DEF DistinctKeys, Among
<1> QED BY <1>1, <1>2 DEF t

\* Removing the one claim of a key.
LEMMA WithoutIs ==
    ASSUME NEW s \in Seq(ClaimRecord), DistinctKeys(s), NEW k \in Keys
    PROVE  /\ Without(s, k) \in Seq(ClaimRecord) /\ Len(Without(s, k)) <= Len(s)
           /\ DistinctKeys(Without(s, k)) /\ Among(Without(s, k), s)
           /\ \A i \in 1..Len(Without(s, k)) : Without(s, k)[i].key # k
<1>1. CASE \A i \in 1..Len(s) : s[i].key # k
  <2>1. Without(s, k) = s
    BY <1>1 DEF Without, RemoveFirstMatch
  <2> QED BY <1>1, <2>1 DEF Among
<1>2. ASSUME NEW p \in 1..Len(s), s[p].key = k
      PROVE  /\ Without(s, k) \in Seq(ClaimRecord) /\ Len(Without(s, k)) <= Len(s)
             /\ DistinctKeys(Without(s, k)) /\ Among(Without(s, k), s)
             /\ \A i \in 1..Len(Without(s, k)) : Without(s, k)[i].key # k
  <2>1. {i \in 1..Len(s) : s[i].key = k} = {p}
    BY <1>2 DEF DistinctKeys
  <2>2. Min({p}) = p
    BY DEF Min
  <2>3. SelectInSeq(s, LAMBDA r : r.key = k) = p
    BY <2>1, <2>2 DEF SelectInSeq
  <2> DEFINE t == SubSeq(s, 1, p - 1) \o SubSeq(s, p + 1, Len(s))
  <2>4. Without(s, k) = t
    BY <1>2, <2>3 DEF Without, RemoveFirstMatch, RemoveAt
  <2>5. t \in Seq(ClaimRecord) /\ Len(t) = Len(s) - 1
        /\ \A i \in 1..Len(t) : t[i] = IF i < p THEN s[i] ELSE s[i + 1]
    <3> DEFINE a == SubSeq(s, 1, p - 1)
               b == SubSeq(s, p + 1, Len(s))
    <3>1. a \in Seq(ClaimRecord) /\ Len(a) = p - 1 /\ \A i \in 1..p - 1 : a[i] = s[i]
      BY <1>2
    <3>2. b \in Seq(ClaimRecord) /\ Len(b) = Len(s) - p /\ \A i \in 1..Len(s) - p : b[i] = s[p + i]
      BY <1>2
    <3> HIDE DEF a, b
    <3>0. /\ a \o b \in Seq(ClaimRecord) /\ Len(a \o b) = Len(a) + Len(b)
          /\ \A i \in 1..Len(a) + Len(b) : (a \o b)[i] = IF i <= Len(a) THEN a[i] ELSE b[i - Len(a)]
      BY <3>1, <3>2, ConcatProperties
    <3>3. a \o b \in Seq(ClaimRecord) /\ Len(a \o b) = Len(s) - 1
      BY <1>2, <3>0, <3>1, <3>2
    <3>4. ASSUME NEW i \in 1..Len(s) - 1 PROVE (a \o b)[i] = IF i < p THEN s[i] ELSE s[i + 1]
      <4>1. (a \o b)[i] = IF i <= p - 1 THEN a[i] ELSE b[i - (p - 1)]
        BY <1>2, <3>0, <3>1, <3>2
      <4>2. CASE i < p
        BY <1>2, <3>1, <4>1, <4>2
      <4>3. CASE ~(i < p)
        <5>1. i - (p - 1) \in 1..Len(s) - p /\ p + (i - (p - 1)) = i + 1
          BY <1>2, <4>3
        <5> QED BY <1>2, <3>2, <4>1, <4>3, <5>1
      <4> QED BY <4>2, <4>3
    <3> QED BY <3>3, <3>4 DEF a, b
  <2> HIDE DEF t
  <2>6. \A i \in 1..Len(t) : \E j \in 1..Len(s) : t[i] = s[j] /\ j # p /\ j = IF i < p THEN i ELSE i + 1
    BY <2>5
  <2>7. DistinctKeys(t)
    BY <2>5, <2>6 DEF DistinctKeys
  <2>8. Among(t, s) /\ \A i \in 1..Len(t) : t[i].key # k
    BY <1>2, <2>6 DEF Among, DistinctKeys
  <2> QED BY <2>4, <2>5, <2>7, <2>8
<1> QED BY <1>1, <1>2

\* The new claim first, and the newest of the others.
LEMMA ClaimedIs ==
    ASSUME NEW s \in Seq(ClaimRecord), DistinctKeys(s), NEW k \in Keys
    PROVE  /\ Claimed(s, k) \in Seq(ClaimRecord)
           /\ Len(Claimed(s, k)) \in 1..MaxRecords /\ DistinctKeys(Claimed(s, k))
           /\ Claimed(s, k)[1] = [key |-> k, outcome |-> "in_flight"]
           /\ \A i \in 2..Len(Claimed(s, k)) : \E j \in 1..Len(s) : Claimed(s, k)[i] = s[j]
<1> DEFINE r == [key |-> k, outcome |-> "in_flight"]
           o == Without(s, k)
           all == <<r>> \o o
           n == IF Len(all) < MaxRecords THEN Len(all) ELSE MaxRecords
<1>1. r \in ClaimRecord /\ r.key = k
  BY DEF ClaimRecord, Outcomes
<1>2. /\ o \in Seq(ClaimRecord) /\ DistinctKeys(o) /\ Among(o, s)
      /\ \A i \in 1..Len(o) : o[i].key # k
  BY WithoutIs
<1> HIDE DEF r, o
<1>3. /\ all \in Seq(ClaimRecord) /\ Len(all) = 1 + Len(o) /\ all[1] = r
      /\ \A i \in 2..Len(all) : i - 1 \in 1..Len(o) /\ all[i] = o[i - 1]
  BY <1>1, <1>2
<1> HIDE DEF all
<1>4. DistinctKeys(all)
  <2> SUFFICES ASSUME NEW i \in 1..Len(all), NEW j \in 1..Len(all), all[i].key = all[j].key
               PROVE  i = j
    BY DEF DistinctKeys
  <2>1. \A m \in 2..Len(all) : all[m].key # k
    BY <1>2, <1>3
  <2>2. CASE i = 1 \/ j = 1
    BY <1>1, <1>3, <2>1, <2>2
  <2>3. CASE i # 1 /\ j # 1
    BY <1>2, <1>3, <2>3 DEF DistinctKeys
  <2> QED BY <2>2, <2>3
<1>5. n \in 0..Len(all) /\ n \in 1..MaxRecords
  BY <1>2, <1>3, WritesAssumption
<1> HIDE DEF n
<1>6. Claimed(s, k) = SubSeq(all, 1, n)
  BY DEF Claimed, all, r, o, n
<1>7. /\ Claimed(s, k) \in Seq(ClaimRecord) /\ Len(Claimed(s, k)) = n
      /\ DistinctKeys(Claimed(s, k)) /\ \A i \in 1..n : Claimed(s, k)[i] = all[i]
  BY <1>3, <1>4, <1>5, <1>6, PrefixIs
<1>8. ASSUME NEW i \in 2..n PROVE \E j \in 1..Len(s) : Claimed(s, k)[i] = s[j]
  <2>1. i \in 1..n /\ i \in 2..Len(all)
    BY <1>3, <1>5
  <2>2. i - 1 \in 1..Len(o) /\ Claimed(s, k)[i] = o[i - 1]
    BY <1>3, <1>7, <2>1
  <2>3. PICK j \in 1..Len(s) : o[i - 1] = s[j]
    BY <1>2, <2>2 DEF Among
  <2> QED BY <2>2, <2>3
<1> QED BY <1>3, <1>5, <1>7, <1>8 DEF r

-----------------------------------------------------------------------------
(* The writes.  A writer that may still send, or will still say that its   *)
(* write did nothing, counts like a request that was sent; so does a key   *)
(* that no claim stands for, which may be claimed.  All of them together   *)
(* are one more than the excuses.                                          *)

WriterRecord == [pc   : {"idle", "claiming", "checking", "sending", "waiting"} \cup Settling,
                 keys : SUBSET Keys]

OneKey(j) == IF j.pc = "idle" THEN j.keys = {} ELSE \E k \in Keys : j.keys = {k}

WritesTypes ==
    /\ claims \in Seq(ClaimRecord) /\ Len(claims) <= MaxRecords /\ DistinctKeys(claims)
    /\ writer \in [Writers -> WriterRecord] /\ \A w \in Writers : OneKey(writer[w])
    /\ listed \subseteq Keys
    /\ sent \in [Keys -> Nat] /\ excused \in [Keys -> 0..MaxExcuses]

MaySend == {"checking", "sending", "failed"}
Within(k, pcs) == {w \in Writers : k \in writer[w].keys /\ writer[w].pc \in pcs}
Able(k)  == Within(k, MaySend)
Waits(k) == Within(k, {"waiting"})
Spare(k) == IF k \in Standing(claims) THEN 0 ELSE 1

Counted(k) ==
    /\ Cardinality(Waits(k)) <= sent[k]
    /\ sent[k] + Cardinality(Able(k)) + Spare(k) <= 1 + excused[k]

WInv == WritesTypes /\ \A k \in Keys : Counted(k)

LEMMA StandingIs ==
    ASSUME NEW s \in Seq(ClaimRecord), NEW k
    PROVE  /\ k \in Standing(s) <=> \E i \in 1..Len(s) : s[i].key = k /\ s[i].outcome # "failed"
           /\ k \in {r.key : r \in ToSet(s)} <=> \E i \in 1..Len(s) : s[i].key = k
<1>1. ToSet(s) = {s[i] : i \in 1..Len(s)}
  BY DEF ToSet
<1> QED BY <1>1 DEF Standing

\* The claims are replaced by some of them and by new ones: a key whose claim stood and is
\* gone is excused.
LEMMA ReplaceIs ==
    ASSUME WritesTypes, NEW after \in Seq(ClaimRecord), Replace(after),
           \A i \in 1..Len(after) : \/ after[i].outcome = "in_flight"
                                    \/ \E j \in 1..Len(claims) : after[i] = claims[j]
    PROVE  /\ claims' = after /\ excused' \in [Keys -> 0..MaxExcuses]
           /\ \A k \in Keys :
                 /\ excused'[k] \in Nat /\ excused[k] <= excused'[k]
                 /\ excused[k] + Spare(k)' <= excused'[k] + Spare(k)
                 /\ k \notin Standing(claims) => excused'[k] = excused[k]
<1>1. claims' = after /\ \A k \in Keys : excused'[k] <= MaxExcuses
  BY DEF Replace, Bounded
<1>2. \A k \in Keys : /\ excused[k] \in Nat
                      /\ excused'[k] = IF k \in Standing(claims) \ {r.key : r \in ToSet(after)}
                                       THEN excused[k] + 1 ELSE excused[k]
  BY DEF Replace, WritesTypes
<1>3. excused' \in [Keys -> 0..MaxExcuses]
  <2>1. \E f : excused' = [k \in Keys |-> f[k]]
    <3>1. excused' = [k \in Keys |-> excused'[k]]
      BY DEF Replace
    <3> QED BY <3>1
  <2> QED BY <1>1, <1>2, <2>1, WritesAssumption
<1>4. ASSUME NEW k \in Keys, k \in Standing(claims), k \in {r.key : r \in ToSet(after)}
      PROVE  k \in Standing(after)
  <2>1. PICK i \in 1..Len(after) : after[i].key = k
    BY <1>4, StandingIs
  <2>2. PICK m \in 1..Len(claims) : claims[m].key = k /\ claims[m].outcome # "failed"
    BY <1>4, StandingIs DEF WritesTypes
  <2>3. after[i].outcome # "failed"
    BY <2>1, <2>2 DEF WritesTypes, DistinctKeys
  <2> QED BY <2>1, <2>3, StandingIs
<1>5. ASSUME NEW k \in Keys
      PROVE  /\ excused'[k] \in Nat /\ excused[k] <= excused'[k]
             /\ excused[k] + Spare(k)' <= excused'[k] + Spare(k)
             /\ k \notin Standing(claims) => excused'[k] = excused[k]
  <2>1. Spare(k)' = IF k \in Standing(after) THEN 0 ELSE 1
    BY <1>1 DEF Spare
  <2> QED BY <1>2, <1>4, <2>1 DEF Spare
<1> QED BY <1>1, <1>3, <1>5

\* Counting writers.
LEMMA Counting ==
    ASSUME NEW S \in SUBSET Writers, NEW w \in Writers
    PROVE  /\ Cardinality(S) \in Nat
           /\ Cardinality(S \cup {w}) \in Nat /\ Cardinality(S \cup {w}) <= Cardinality(S) + 1
           /\ Cardinality(S \ {w}) \in Nat /\ Cardinality(S \ {w}) <= Cardinality(S)
           /\ w \in S => Cardinality(S \ {w}) = Cardinality(S) - 1
<1>1. IsFiniteSet(S)
  BY FS_Subset, WritesAssumption
<1>2. /\ IsFiniteSet(S \cup {w})
      /\ Cardinality(S \cup {w}) = IF w \in S THEN Cardinality(S) ELSE Cardinality(S) + 1
  BY <1>1, FS_AddElement
<1>3. /\ IsFiniteSet(S \ {w})
      /\ Cardinality(S \ {w}) = IF w \in S THEN Cardinality(S) - 1 ELSE Cardinality(S)
  BY <1>1, FS_RemoveElement
<1>4. /\ Cardinality(S) \in Nat /\ Cardinality(S \cup {w}) \in Nat
      /\ Cardinality(S \ {w}) \in Nat
  BY <1>1, <1>2, <1>3, FS_CardinalityType
<1> QED BY <1>2, <1>3, <1>4

\* What writer record j counts for key k in states pcs.
Weight(j, k, pcs) == IF k \in j.keys /\ j.pc \in pcs THEN 1 ELSE 0

\* A writer goes on to record j: what its key is worth more than before is excused, and
\* nobody waits who has not sent.
LEMMA CountedKept ==
    ASSUME WInv, NEW w \in Writers, NEW k \in Keys, writer[w].keys \subseteq {k},
           NEW j \in WriterRecord, OneKey(j), j.keys \subseteq {k},
           writer' = [writer EXCEPT ![w] = j],
           \A l \in Keys : sent'[l] \in Nat /\ excused'[l] \in Nat,
           \A l \in Keys \ {k} : /\ sent'[l] = sent[l]
                                 /\ excused[l] + Spare(l)' <= excused'[l] + Spare(l),
           sent[k] + Weight(j, k, {"waiting"}) <= sent'[k] + Weight(writer[w], k, {"waiting"}),
           sent'[k] + Weight(j, k, MaySend) + Spare(k)' + excused[k]
              <= sent[k] + Weight(writer[w], k, MaySend) + Spare(k) + excused'[k]
    PROVE  /\ writer' \in [Writers -> WriterRecord] /\ \A v \in Writers : OneKey(writer'[v])
           /\ \A l \in Keys : Counted(l)'
<1> DEFINE a == Weight(writer[w], k, MaySend)
           b == Weight(j, k, MaySend)
           x == Weight(writer[w], k, {"waiting"})
           y == Weight(j, k, {"waiting"})
<1>0. /\ a \in 0..1 /\ b \in 0..1 /\ x \in 0..1 /\ y \in 0..1
      /\ a = 1 => k \in writer[w].keys /\ writer[w].pc \in MaySend
      /\ k \in j.keys /\ j.pc \in MaySend => b = 1
      /\ x = 1 => k \in writer[w].keys /\ writer[w].pc = "waiting"
      /\ k \in j.keys /\ j.pc = "waiting" => y = 1
  BY DEF Weight
<1>10. /\ sent[k] + y <= sent'[k] + x
       /\ sent'[k] + b + Spare(k)' + excused[k] <= sent[k] + a + Spare(k) + excused'[k]
  OBVIOUS
<1> HIDE DEF a, b, x, y
<1>1. WritesTypes
  BY DEF WInv
<1>2. /\ writer' \in [Writers -> WriterRecord] /\ \A v \in Writers : OneKey(writer'[v])
      /\ writer'[w] = j /\ \A v \in Writers \ {w} : writer'[v] = writer[v]
  BY <1>1 DEF WritesTypes
<1>3. ASSUME NEW l \in Keys \ {k} PROVE Counted(l)'
  <2>1. Able(l)' = Able(l) /\ Waits(l)' = Waits(l)
    <3>1. l \notin writer[w].keys /\ l \notin j.keys
      BY <1>3
    <3> QED BY <1>2, <3>1 DEF Able, Waits, Within
  <2>2. /\ Cardinality(Able(l)) \in Nat /\ Cardinality(Waits(l)) \in Nat
        /\ Spare(l) \in Nat /\ Spare(l)' \in Nat /\ excused[l] \in Nat /\ sent[l] \in Nat
    <3>1. Able(l) \in SUBSET Writers /\ Waits(l) \in SUBSET Writers
      BY DEF Able, Waits, Within
    <3>2. Cardinality(Able(l)) \in Nat /\ Cardinality(Waits(l)) \in Nat
      BY <3>1, Counting
    <3> QED BY <1>1, <3>2 DEF Spare, WritesTypes
  <2>3. Cardinality(Waits(l)) <= sent[l] /\ sent[l] + Cardinality(Able(l)) + Spare(l) <= 1 + excused[l]
    BY DEF WInv, Counted
  <2>4. /\ sent'[l] = sent[l] /\ excused'[l] \in Nat
        /\ excused[l] + Spare(l)' <= excused'[l] + Spare(l)
    OBVIOUS
  <2>5. sent'[l] + Cardinality(Able(l)) + Spare(l)' <= 1 + excused'[l]
    BY <2>2, <2>3, <2>4
  <2> QED BY <2>1, <2>3, <2>4, <2>5 DEF Counted
<1>4. Counted(k)'
  <2>1. /\ Able(k)' = IF k \in j.keys /\ j.pc \in MaySend THEN Able(k) \cup {w} ELSE Able(k) \ {w}
        /\ Waits(k)' = IF k \in j.keys /\ j.pc = "waiting" THEN Waits(k) \cup {w}
                       ELSE Waits(k) \ {w}
    <3>1. ASSUME NEW P
          PROVE  {v \in Writers : k \in writer'[v].keys /\ writer'[v].pc \in P}
                 = IF k \in j.keys /\ j.pc \in P THEN Within(k, P) \cup {w}
                   ELSE Within(k, P) \ {w}
      <4>1. CASE k \in j.keys /\ j.pc \in P
        BY <1>2, <4>1 DEF Within
      <4>2. CASE ~(k \in j.keys /\ j.pc \in P)
        BY <1>2, <4>2 DEF Within
      <4> QED BY <4>1, <4>2
    <3> QED BY <3>1 DEF Able, Waits, Within
  <2>2. (a = 1 => w \in Able(k)) /\ (x = 1 => w \in Waits(k))
    BY <1>0 DEF Able, Waits, Within
  <2>3. Able(k) \in SUBSET Writers /\ Waits(k) \in SUBSET Writers
    BY DEF Able, Waits, Within
  <2>4. ASSUME NEW S \in SUBSET Writers, NEW T, NEW c \in BOOLEAN, NEW p \in 0..1, NEW q \in 0..1,
               T = IF c THEN S \cup {w} ELSE S \ {w}, p = 1 => w \in S, c => q = 1
        PROVE  Cardinality(T) \in Nat /\ Cardinality(T) + p <= Cardinality(S) + q
    <3>0. /\ Cardinality(S) \in Nat
          /\ Cardinality(S \cup {w}) \in Nat /\ Cardinality(S \cup {w}) <= Cardinality(S) + 1
          /\ Cardinality(S \ {w}) \in Nat /\ Cardinality(S \ {w}) <= Cardinality(S)
          /\ w \in S => Cardinality(S \ {w}) = Cardinality(S) - 1
      BY Counting
    <3>1. CASE c /\ w \in S
      <4>1. T = S /\ q = 1
        BY <2>4, <3>1
      <4> QED BY <3>0, <4>1
    <3>2. CASE c /\ w \notin S
      <4>1. T = S \cup {w} /\ q = 1 /\ p = 0
        BY <2>4, <3>2
      <4> QED BY <3>0, <4>1
    <3>3. CASE ~c
      <4>1. T = S \ {w}
        BY <2>4, <3>3
      <4> QED BY <2>4, <3>0, <4>1
    <3> QED BY <3>1, <3>2, <3>3
  <2>5. Cardinality(Able(k)') \in Nat /\ Cardinality(Able(k)') + a <= Cardinality(Able(k)) + b
    <3>1. (k \in j.keys /\ j.pc \in MaySend) \in BOOLEAN
      OBVIOUS
    <3> QED BY <1>0, <2>1, <2>2, <2>3, <2>4, <3>1
  <2>6. Cardinality(Waits(k)') \in Nat /\ Cardinality(Waits(k)') + x <= Cardinality(Waits(k)) + y
    <3>1. (k \in j.keys /\ j.pc = "waiting") \in BOOLEAN
      OBVIOUS
    <3> QED BY <1>0, <2>1, <2>2, <2>3, <2>4, <3>1
  <2>7. /\ Cardinality(Able(k)) \in Nat /\ Cardinality(Waits(k)) \in Nat
        /\ Spare(k) \in Nat /\ Spare(k)' \in Nat /\ excused[k] \in Nat /\ sent[k] \in Nat
    <3>1. Cardinality(Able(k)) \in Nat /\ Cardinality(Waits(k)) \in Nat
      BY <2>3, Counting
    <3> QED BY <1>1, <3>1 DEF Spare, WritesTypes
  <2>8. Cardinality(Waits(k)) <= sent[k] /\ sent[k] + Cardinality(Able(k)) + Spare(k) <= 1 + excused[k]
    BY DEF WInv, Counted
  <2>9. sent'[k] \in Nat /\ excused'[k] \in Nat
    OBVIOUS
  <2>10. Cardinality(Waits(k)') <= sent'[k]
    BY <1>0, <1>10, <2>6, <2>7, <2>8, <2>9
  <2>11. sent'[k] + Cardinality(Able(k)') + Spare(k)' <= 1 + excused'[k]
    BY <1>0, <1>10, <2>5, <2>7, <2>8, <2>9
  <2> QED BY <2>10, <2>11 DEF Counted
<1> QED BY <1>2, <1>3, <1>4

LEMMA KeyIs ==
    ASSUME WritesTypes, NEW w \in Writers, writer[w].pc # "idle"
    PROVE  Key(w) \in Keys /\ writer[w].keys = {Key(w)} /\ writer[w] \in WriterRecord
<1>1. PICK k \in Keys : writer[w].keys = {k}
  BY DEF WritesTypes, OneKey
<1>2. Key(w) = k
  BY <1>1 DEF Key
<1> QED BY <1>1, <1>2 DEF WritesTypes

LEMMA NoWriteIs == NoWrite \in WriterRecord /\ OneKey(NoWrite) /\ NoWrite.keys = {} /\ NoWrite.pc = "idle"
BY DEF NoWrite, WriterRecord, OneKey

\* A writer with a key goes on to another state.
LEMMA OnwardIs ==
    ASSUME WritesTypes, NEW w \in Writers, writer[w].pc # "idle",
           NEW pc \in {"claiming", "checking", "sending", "waiting"} \cup Settling
    PROVE  /\ [writer[w] EXCEPT !.pc = pc] \in WriterRecord
           /\ [writer[w] EXCEPT !.pc = pc].pc = pc
           /\ [writer[w] EXCEPT !.pc = pc].keys = {Key(w)}
           /\ OneKey([writer[w] EXCEPT !.pc = pc])
<1>1. Key(w) \in Keys /\ writer[w].keys = {Key(w)} /\ writer[w] \in WriterRecord
  BY KeyIs
<1> QED BY <1>1 DEF WriterRecord, OneKey, Settling

\* The numbers, and what does not change with the claims.
LEMMA NumbersAre ==
    ASSUME WritesTypes
    PROVE  \A l \in Keys : /\ sent[l] \in Nat /\ excused[l] \in Nat
                           /\ Spare(l) \in {0, 1}
BY DEF WritesTypes, Spare

\* A step of writer w that leaves the claims alone.
LEMMA AsideInv ==
    ASSUME WInv, NEW w \in Writers, NEW k \in Keys, writer[w].keys \subseteq {k},
           NEW j \in WriterRecord, OneKey(j), j.keys \subseteq {k},
           writer' = [writer EXCEPT ![w] = j], UNCHANGED <<claims, listed>>,
           sent' \in [Keys -> Nat], \A l \in Keys \ {k} : sent'[l] = sent[l],
           excused' \in [Keys -> 0..MaxExcuses], \A l \in Keys \ {k} : excused'[l] = excused[l],
           sent[k] + Weight(j, k, {"waiting"}) <= sent'[k] + Weight(writer[w], k, {"waiting"}),
           sent'[k] + Weight(j, k, MaySend) + excused[k]
              <= sent[k] + Weight(writer[w], k, MaySend) + excused'[k]
    PROVE  WInv'
<1>1. WritesTypes
  BY DEF WInv
<1>2. \A l \in Keys : /\ sent[l] \in Nat /\ excused[l] \in Nat /\ Spare(l) \in {0, 1}
                      /\ sent'[l] \in Nat /\ excused'[l] \in Nat
  BY <1>1, NumbersAre, WritesAssumption
<1>3. \A l \in Keys : Spare(l)' = Spare(l)
  BY DEF Spare
<1>4. \A l \in Keys : sent'[l] \in Nat /\ excused'[l] \in Nat
  BY <1>2
<1>5. \A l \in Keys \ {k} : /\ sent'[l] = sent[l]
                            /\ excused[l] + Spare(l)' <= excused'[l] + Spare(l)
  BY <1>2, <1>3
<1>6. sent'[k] + Weight(j, k, MaySend) + Spare(k)' + excused[k]
         <= sent[k] + Weight(writer[w], k, MaySend) + Spare(k) + excused'[k]
  <2>1. Weight(j, k, MaySend) \in {0, 1} /\ Weight(writer[w], k, MaySend) \in {0, 1}
    BY DEF Weight
  <2> QED BY <1>2, <1>3, <2>1
<1>7. /\ writer' \in [Writers -> WriterRecord] /\ \A v \in Writers : OneKey(writer'[v])
      /\ \A l \in Keys : Counted(l)'
  BY <1>4, <1>5, <1>6, CountedKept
<1>8. WritesTypes'
  BY <1>1, <1>7 DEF WritesTypes, DistinctKeys
<1> QED BY <1>7, <1>8 DEF WInv

\* A step that changes neither sent nor excused.
LEMMA PlainInv ==
    ASSUME WInv, NEW w \in Writers, NEW k \in Keys, writer[w].keys \subseteq {k},
           NEW j \in WriterRecord, OneKey(j), j.keys \subseteq {k},
           writer' = [writer EXCEPT ![w] = j], UNCHANGED <<claims, listed, sent, excused>>,
           k \in j.keys /\ j.pc \in MaySend => k \in writer[w].keys /\ writer[w].pc \in MaySend,
           ~(k \in j.keys /\ j.pc = "waiting")
    PROVE  WInv'
<1>1. /\ sent' \in [Keys -> Nat] /\ \A l \in Keys \ {k} : sent'[l] = sent[l]
      /\ excused' \in [Keys -> 0..MaxExcuses] /\ \A l \in Keys \ {k} : excused'[l] = excused[l]
      /\ sent[k] \in Nat /\ excused[k] \in Nat
  BY WritesAssumption DEF WInv, WritesTypes
<1>2. /\ sent[k] + Weight(j, k, {"waiting"}) <= sent'[k] + Weight(writer[w], k, {"waiting"})
      /\ sent'[k] + Weight(j, k, MaySend) + excused[k]
            <= sent[k] + Weight(writer[w], k, MaySend) + excused'[k]
  <2>1. /\ Weight(j, k, {"waiting"}) = 0 /\ Weight(writer[w], k, {"waiting"}) \in {0, 1}
        /\ Weight(j, k, MaySend) \in {0, 1} /\ Weight(writer[w], k, MaySend) \in {0, 1}
        /\ Weight(j, k, MaySend) <= Weight(writer[w], k, MaySend)
    BY DEF Weight
  <2> QED BY <1>1, <2>1
<1> QED BY <1>1, <1>2, AsideInv

LEMMA BeginWInv ==
    ASSUME IInv, WInv, NEW t \in Tasks, NEW w \in Writers, Begin(t, w) PROVE WInv'
<1> DEFINE k == <<t, call[t].shape>>
           j == [pc |-> "claiming", keys |-> {k}]
<1>1. k \in Keys
  BY DEF Begin, IInv, DispatchTypeOK, CallRecord, Keys
<1> HIDE DEF k
<1>2. j \in WriterRecord /\ OneKey(j) /\ j.keys = {k} /\ j.pc = "claiming"
  BY <1>1 DEF WriterRecord, OneKey
<1> HIDE DEF j
<1>3. writer[w].keys = {}
  BY DEF Begin, Writing, WInv, WritesTypes, OneKey
<1>4. writer' = [writer EXCEPT ![w] = j] /\ UNCHANGED <<claims, listed, sent, excused>>
  BY DEF Begin, j, k
<1> QED BY <1>1, <1>2, <1>3, <1>4, PlainInv DEF MaySend

LEMMA CheckWInv ==
    ASSUME WInv, NEW w \in Writers, Check(w) PROVE WInv'
<1>1. writer[w].pc = "checking" /\ Key(w) \in Keys /\ writer[w].keys = {Key(w)}
  BY KeyIs DEF Check, Writing, WInv
<1>2. ASSUME NEW pc \in {"sending", "failed"}, Advance(w, pc) PROVE WInv'
  <2> DEFINE j == [writer[w] EXCEPT !.pc = pc]
  <2>1. writer' = [writer EXCEPT ![w] = j]
    BY <1>2 DEF Advance
  <2>2. j \in WriterRecord /\ OneKey(j) /\ j.keys = {Key(w)} /\ j.pc = pc
    BY <1>1, OnwardIs DEF WInv, Settling
  <2> HIDE DEF j
  <2>3. UNCHANGED <<claims, listed, sent, excused>>
    BY DEF Check
  <2> QED BY <1>1, <2>1, <2>2, <2>3, PlainInv DEF MaySend
<1> QED BY <1>2 DEF Check

LEMMA SendWInv ==
    ASSUME WInv, NEW w \in Writers, Send(w) PROVE WInv'
<1>1. /\ writer[w].pc = "sending" /\ Key(w) \in Keys /\ writer[w].keys = {Key(w)}
      /\ UNCHANGED <<claims, listed, excused>>
  BY KeyIs DEF Send, Writing, WInv
<1>2. ASSUME NEW pc \in {"failed", "uncertain"}, Advance(w, pc), UNCHANGED sent PROVE WInv'
  <2> DEFINE j == [writer[w] EXCEPT !.pc = pc]
  <2>1. writer' = [writer EXCEPT ![w] = j]
    BY <1>2 DEF Advance
  <2>2. j \in WriterRecord /\ OneKey(j) /\ j.keys = {Key(w)} /\ j.pc = pc
    BY <1>1, OnwardIs DEF WInv, Settling
  <2> HIDE DEF j
  <2> QED BY <1>1, <1>2, <2>1, <2>2, PlainInv DEF MaySend
<1>3. CASE Advance(w, "waiting") /\ sent' = [sent EXCEPT ![Key(w)] = @ + 1]
  <2> DEFINE j == [writer[w] EXCEPT !.pc = "waiting"]
  <2>1. writer' = [writer EXCEPT ![w] = j]
    BY <1>3 DEF Advance
  <2>2. j \in WriterRecord /\ OneKey(j) /\ j.keys = {Key(w)} /\ j.pc = "waiting"
    BY <1>1, OnwardIs DEF WInv
  <2>3. /\ sent[Key(w)] \in Nat /\ sent'[Key(w)] = sent[Key(w)] + 1
        /\ sent' \in [Keys -> Nat] /\ \A l \in Keys \ {Key(w)} : sent'[l] = sent[l]
        /\ excused' \in [Keys -> 0..MaxExcuses] /\ excused[Key(w)] \in Nat
        /\ \A l \in Keys \ {Key(w)} : excused'[l] = excused[l]
    BY <1>1, <1>3, WritesAssumption DEF WInv, WritesTypes
  <2> HIDE DEF j
  <2>4. /\ Weight(j, Key(w), {"waiting"}) = 1 /\ Weight(writer[w], Key(w), {"waiting"}) = 0
        /\ Weight(j, Key(w), MaySend) = 0 /\ Weight(writer[w], Key(w), MaySend) = 1
    BY <1>1, <2>2 DEF Weight, MaySend
  <2>5. /\ sent[Key(w)] + Weight(j, Key(w), {"waiting"})
               <= sent'[Key(w)] + Weight(writer[w], Key(w), {"waiting"})
        /\ sent'[Key(w)] + Weight(j, Key(w), MaySend) + excused[Key(w)]
               <= sent[Key(w)] + Weight(writer[w], Key(w), MaySend) + excused'[Key(w)]
    BY <1>1, <2>3, <2>4
  <2> QED BY <1>1, <2>1, <2>2, <2>3, <2>5, AsideInv
<1> QED BY <1>2, <1>3 DEF Send

LEMMA AnsweredWInv ==
    ASSUME WInv, NEW w \in Writers, Answered(w) PROVE WInv'
<1> DEFINE k == Key(w)
<1>0. UNCHANGED <<claims, listed>>
  BY DEF Answered
<1>1. /\ writer[w].pc = "waiting" /\ k \in Keys /\ writer[w].keys = {k}
  BY KeyIs DEF Answered, Writing, WInv
<1>2. sent[k] \in Nat /\ excused[k] \in Nat /\ sent \in [Keys -> Nat]
      /\ excused \in [Keys -> 0..MaxExcuses]
  BY <1>1, WritesAssumption DEF WInv, WritesTypes
<1>3. sent[k] - 1 \in Nat
  <2>1. w \in Waits(k) /\ Waits(k) \in SUBSET Writers
    BY <1>1 DEF Waits, Within
  <2>2. Cardinality(Waits(k)) \in Nat /\ Cardinality(Waits(k) \ {w}) \in Nat
        /\ Cardinality(Waits(k) \ {w}) = Cardinality(Waits(k)) - 1
    BY <2>1, Counting
  <2>3. Cardinality(Waits(k)) <= sent[k]
    BY <1>1 DEF WInv, Counted
  <2> QED BY <1>2, <2>2, <2>3
<1> HIDE DEF k
<1>4. ASSUME NEW pc \in {"completed", "uncertain"}, Advance(w, pc), UNCHANGED <<sent, excused>>
      PROVE  WInv'
  <2> DEFINE j == [writer[w] EXCEPT !.pc = pc]
  <2>1. writer' = [writer EXCEPT ![w] = j]
    BY <1>4 DEF Advance
  <2>2. j \in WriterRecord /\ OneKey(j) /\ j.keys = {k} /\ j.pc = pc
    BY <1>1, OnwardIs DEF WInv, Settling, k
  <2> HIDE DEF j
  <2> QED BY <1>0, <1>1, <1>4, <2>1, <2>2, PlainInv DEF MaySend
<1>5. CASE EndWrite(w) /\ UNCHANGED <<sent, excused>>
  <2>1. writer' = [writer EXCEPT ![w] = NoWrite]
    BY <1>5 DEF EndWrite
  <2> QED BY <1>0, <1>1, <1>5, <2>1, NoWriteIs, PlainInv
<1>6. ASSUME Advance(w, "failed"),
             sent' \in [Keys -> Nat], \A l \in Keys \ {k} : sent'[l] = sent[l],
             excused' \in [Keys -> 0..MaxExcuses], \A l \in Keys \ {k} : excused'[l] = excused[l],
             sent[k] <= sent'[k] + 1, sent'[k] + 1 + excused[k] <= sent[k] + excused'[k]
      PROVE  WInv'
  <2> DEFINE j == [writer[w] EXCEPT !.pc = "failed"]
  <2>1. writer' = [writer EXCEPT ![w] = j]
    BY <1>6 DEF Advance
  <2>2. j \in WriterRecord /\ OneKey(j) /\ j.keys = {k} /\ j.pc = "failed"
    BY <1>1, OnwardIs DEF WInv, Settling, k
  <2> HIDE DEF j
  <2>3. /\ Weight(j, k, {"waiting"}) = 0 /\ Weight(writer[w], k, {"waiting"}) = 1
        /\ Weight(j, k, MaySend) = 1 /\ Weight(writer[w], k, MaySend) = 0
    BY <1>1, <2>2 DEF Weight, MaySend
  <2>4. /\ sent[k] + Weight(j, k, {"waiting"}) <= sent'[k] + Weight(writer[w], k, {"waiting"})
        /\ sent'[k] + Weight(j, k, MaySend) + excused[k]
               <= sent[k] + Weight(writer[w], k, MaySend) + excused'[k]
    <3>1. sent'[k] \in Nat /\ excused'[k] \in Nat
      BY <1>1, <1>6, WritesAssumption
    <3> QED BY <1>2, <1>6, <2>3, <3>1
  <2> QED BY <1>0, <1>1, <1>6, <2>1, <2>2, <2>4, AsideInv
<1>7. CASE Advance(w, "failed") /\ sent' = [sent EXCEPT ![k] = @ - 1] /\ UNCHANGED excused
  <2>1. /\ sent' \in [Keys -> Nat] /\ sent'[k] = sent[k] - 1
        /\ \A l \in Keys \ {k} : sent'[l] = sent[l]
    BY <1>1, <1>2, <1>3, <1>7
  <2>2. sent[k] <= sent'[k] + 1 /\ sent'[k] + 1 + excused[k] <= sent[k] + excused'[k]
    BY <1>2, <1>7, <2>1
  <2> QED BY <1>2, <1>6, <1>7, <2>1, <2>2
<1>8. CASE /\ Advance(w, "failed")
           /\ excused' = [excused EXCEPT ![k] = @ + 1] /\ Bounded(excused')
           /\ UNCHANGED sent
  <2>1. excused'[k] = excused[k] + 1 /\ excused'[k] <= MaxExcuses
    BY <1>1, <1>8 DEF Bounded, WInv, WritesTypes
  <2>2. excused[k] + 1 \in 0..MaxExcuses
    BY <1>2, <2>1, WritesAssumption
  <2>3. excused' \in [Keys -> 0..MaxExcuses] /\ \A l \in Keys \ {k} : excused'[l] = excused[l]
    BY <1>1, <1>2, <1>8, <2>2
  <2>4. sent[k] <= sent'[k] + 1 /\ sent'[k] + 1 + excused[k] <= sent[k] + excused'[k]
    BY <1>2, <1>8, <2>1
  <2> QED BY <1>2, <1>6, <1>8, <2>3, <2>4
<1> QED BY <1>4, <1>5, <1>7, <1>8 DEF Answered, k

\* A writer goes on, and the claims are replaced.
LEMMA ReplaceInv ==
    ASSUME WInv, NEW w \in Writers, NEW k \in Keys, writer[w].keys \subseteq {k},
           NEW j \in WriterRecord, OneKey(j), j.keys \subseteq {k},
           writer' = [writer EXCEPT ![w] = j], UNCHANGED <<listed, sent>>,
           NEW after \in Seq(ClaimRecord), Len(after) <= MaxRecords, DistinctKeys(after),
           Replace(after),
           \A i \in 1..Len(after) : \/ after[i].outcome = "in_flight"
                                    \/ \E m \in 1..Len(claims) : after[i] = claims[m],
           Weight(j, k, {"waiting"}) = 0,
           Weight(j, k, MaySend) + Spare(k)' + excused[k] <= Spare(k) + excused'[k]
    PROVE  WInv'
<1>1. WritesTypes
  BY DEF WInv
<1>2. /\ claims' = after /\ excused' \in [Keys -> 0..MaxExcuses]
      /\ \A l \in Keys : /\ excused'[l] \in Nat /\ excused[l] <= excused'[l]
                         /\ excused[l] + Spare(l)' <= excused'[l] + Spare(l)
  BY <1>1, ReplaceIs
<1>3. \A l \in Keys : sent[l] \in Nat /\ excused[l] \in Nat /\ Spare(l) \in {0, 1} /\ Spare(l)' \in {0, 1}
  BY <1>1, NumbersAre DEF Spare
<1>4. \A l \in Keys : sent'[l] \in Nat /\ excused'[l] \in Nat
  BY <1>2, <1>3
<1>5. \A l \in Keys \ {k} : /\ sent'[l] = sent[l]
                            /\ excused[l] + Spare(l)' <= excused'[l] + Spare(l)
  BY <1>2
<1>6. /\ Weight(j, k, MaySend) \in {0, 1} /\ Weight(writer[w], k, MaySend) \in {0, 1}
      /\ Weight(writer[w], k, {"waiting"}) \in {0, 1}
  BY DEF Weight
<1>7. /\ sent[k] + Weight(j, k, {"waiting"}) <= sent'[k] + Weight(writer[w], k, {"waiting"})
      /\ sent'[k] + Weight(j, k, MaySend) + Spare(k)' + excused[k]
            <= sent[k] + Weight(writer[w], k, MaySend) + Spare(k) + excused'[k]
  <2>1. /\ sent[k] \in Nat /\ excused[k] \in Nat /\ excused'[k] \in Nat /\ sent'[k] = sent[k]
        /\ Spare(k) \in Nat /\ Spare(k)' \in Nat
    BY <1>2, <1>3
  <2>2. /\ Weight(j, k, MaySend) \in Nat /\ Weight(writer[w], k, MaySend) \in Nat
        /\ Weight(writer[w], k, {"waiting"}) \in Nat
    BY <1>6
  <2>3. sent[k] + Weight(j, k, {"waiting"}) <= sent'[k] + Weight(writer[w], k, {"waiting"})
    BY <2>1, <2>2
  <2>4. ASSUME NEW n \in Nat, NEW b \in Nat, NEW a \in Nat, NEW p \in Nat, NEW q \in Nat,
               NEW e \in Nat, NEW f \in Nat, b + q + e <= p + f
        PROVE  n + b + q + e <= n + a + p + f
    BY <2>4
  <2> QED BY <2>1, <2>2, <2>3, <2>4
<1>8. /\ writer' \in [Writers -> WriterRecord] /\ \A v \in Writers : OneKey(writer'[v])
      /\ \A l \in Keys : Counted(l)'
  BY <1>4, <1>5, <1>7, CountedKept
<1>9. WritesTypes'
  BY <1>1, <1>2, <1>8 DEF WritesTypes
<1> QED BY <1>8, <1>9 DEF WInv

\* The claim of a write that is under way does not expire, so a key that may be claimed had
\* no claim that stood: nothing is excused, and the key is spent on the writer.
LEMMA ClaimWInv ==
    ASSUME WInv, NEW w \in Writers, Claim(w) PROVE WInv'
<1> SUFFICES ASSUME NEW k \in Keys, k = Key(w) PROVE WInv'
  BY KeyIs DEF Claim, Writing, WInv
<1>1. /\ WritesTypes /\ writer[w].pc = "claiming" /\ k \in Keys /\ writer[w].keys = {k}
      /\ UNCHANGED <<listed, sent>>
  BY KeyIs DEF Claim, Writing, WInv
<1>2. PICK n \in 0..Len(claims) :
          /\ Expired(n)
          /\ IF Refuses(Fresh(n), k) THEN Replace(Fresh(n)) /\ EndWrite(w)
             ELSE Replace(Claimed(Fresh(n), k)) /\ Advance(w, "checking")
  BY DEF Claim
<1> DEFINE f == Fresh(n)
<1>3. /\ f \in Seq(ClaimRecord) /\ Len(f) = n /\ DistinctKeys(f) /\ Among(f, claims)
      /\ \A i \in 1..n : f[i] = claims[i]
  BY <1>1, <1>2, PrefixIs DEF WritesTypes, Fresh
<1>4. \A i \in 1..Len(claims) : claims[i].key = k => i \in 1..n
  BY <1>1, <1>2 DEF Expired, UnderWay
<1>5. n <= MaxRecords
  BY <1>1, <1>2, WritesAssumption DEF WritesTypes
<1>6. Spare(k) \in {0, 1} /\ excused[k] \in Nat
  BY <1>1, NumbersAre
<1>7. CASE Refuses(f, k) /\ Replace(f) /\ EndWrite(w)
  <2>1. \A i \in 1..Len(f) : \/ f[i].outcome = "in_flight"
                             \/ \E m \in 1..Len(claims) : f[i] = claims[m]
    BY <1>3 DEF Among
  <2>2. excused[k] + Spare(k)' <= excused'[k] + Spare(k) /\ excused'[k] \in Nat
    BY <1>1, <1>3, <1>7, <2>1, ReplaceIs
  <2>3. Weight(NoWrite, k, MaySend) = 0 /\ Weight(NoWrite, k, {"waiting"}) = 0
    BY NoWriteIs DEF Weight
  <2>4. Spare(k)' \in {0, 1}
    BY DEF Spare
  <2>5. Weight(NoWrite, k, MaySend) + Spare(k)' + excused[k] <= Spare(k) + excused'[k]
    BY <1>6, <2>2, <2>3, <2>4
  <2>6. writer' = [writer EXCEPT ![w] = NoWrite]
    BY <1>7 DEF EndWrite
  <2> HIDE DEF f
  <2> QED BY <1>1, <1>3, <1>5, <1>7, <2>1, <2>3, <2>5, <2>6, NoWriteIs, ReplaceInv
<1>8. CASE ~Refuses(f, k) /\ Replace(Claimed(f, k)) /\ Advance(w, "checking")
  <2> DEFINE j == [writer[w] EXCEPT !.pc = "checking"]
             after == Claimed(f, k)
  <2>1. writer' = [writer EXCEPT ![w] = j]
    BY <1>8 DEF Advance
  <2>2. j \in WriterRecord /\ OneKey(j) /\ j.keys = {k} /\ j.pc = "checking"
    BY <1>1, OnwardIs
  <2> HIDE DEF j, f
  <2>3. /\ after \in Seq(ClaimRecord) /\ Len(after) \in 1..MaxRecords /\ DistinctKeys(after)
        /\ after[1] = [key |-> k, outcome |-> "in_flight"]
        /\ \A i \in 2..Len(after) : \E m \in 1..Len(f) : after[i] = f[m]
    BY <1>1, <1>3, ClaimedIs
  <2> HIDE DEF after
  <2>4. \A i \in 1..Len(after) : \/ after[i].outcome = "in_flight"
                                 \/ \E m \in 1..Len(claims) : after[i] = claims[m]
    <3> SUFFICES ASSUME NEW i \in 1..Len(after), i # 1
                 PROVE  \E m \in 1..Len(claims) : after[i] = claims[m]
      BY <2>3
    <3>1. i \in 2..Len(after)
      BY <2>3
    <3> QED BY <1>3, <2>3, <3>1 DEF Among
  <2>5. k \notin Standing(claims)
    <3> SUFFICES ASSUME NEW i \in 1..Len(claims), claims[i].key = k, claims[i].outcome # "failed"
                 PROVE  FALSE
      BY <1>1, StandingIs DEF WritesTypes
    <3>1. i \in 1..n /\ f[i] = claims[i]
      BY <1>3, <1>4
    <3>2. f[i] \in ToSet(f)
      BY <1>3, <3>1 DEF ToSet
    <3> QED BY <1>8, <3>1, <3>2 DEF Refuses
  <2>6. claims' = after /\ excused'[k] = excused[k]
    BY <1>1, <1>8, <2>3, <2>4, <2>5, ReplaceIs DEF after
  <2>7. k \in Standing(after)
    BY <2>3, StandingIs
  <2>8. Spare(k) = 1 /\ Spare(k)' = 0
    BY <2>5, <2>6, <2>7 DEF Spare
  <2>9. Weight(j, k, MaySend) = 1 /\ Weight(j, k, {"waiting"}) = 0
    BY <2>2 DEF Weight, MaySend
  <2>10. Weight(j, k, MaySend) + Spare(k)' + excused[k] <= Spare(k) + excused'[k]
    BY <1>6, <2>6, <2>8, <2>9
  <2>11. Len(after) <= MaxRecords /\ Replace(after)
    BY <1>8, <2>3, WritesAssumption DEF after
  <2> QED BY <1>1, <2>1, <2>2, <2>3, <2>4, <2>9, <2>10, <2>11, ReplaceInv
<1> QED BY <1>2, <1>7, <1>8

\* The outcome is written into the claim, if there is one: a key whose write failed may be
\* claimed again, which its writer no longer counts for.
LEMMA SettleWInv ==
    ASSUME WInv, NEW w \in Writers, Settle(w) PROVE WInv'
<1> SUFFICES ASSUME NEW k \in Keys, k = Key(w) PROVE WInv'
  BY KeyIs DEF Settle, Settling, WInv
<1>1. /\ WritesTypes /\ writer[w].pc \in Settling /\ k \in Keys /\ writer[w].keys = {k}
      /\ UNCHANGED <<listed, sent, excused>>
  BY KeyIs DEF Settle, Settling, WInv
<1> DEFINE o == writer[w].pc
           Put(r) == IF r.key = k THEN [r EXCEPT !.outcome = o] ELSE r
<1>2. claims' = [i \in 1..Len(claims) |-> Put(claims[i])]
  BY <1>1 DEF Settle, WritesTypes
<1>3. writer' = [writer EXCEPT ![w] = NoWrite]
  BY DEF Settle, EndWrite
<1>4. \A r \in ClaimRecord : /\ Put(r) \in ClaimRecord /\ Put(r).key = r.key
                             /\ Put(r).outcome = IF r.key = k THEN o ELSE r.outcome
  BY <1>1 DEF ClaimRecord, Settling, Outcomes
<1> HIDE DEF Put
<1>5. /\ claims' \in Seq(ClaimRecord) /\ Len(claims') = Len(claims)
      /\ \A i \in 1..Len(claims) : /\ claims'[i].key = claims[i].key
                                   /\ claims'[i].outcome = IF claims[i].key = k THEN o
                                                           ELSE claims[i].outcome
  <2>1. claims \in Seq(ClaimRecord) /\ Len(claims) \in Nat
    BY <1>1 DEF WritesTypes
  <2>2. \A i \in 1..Len(claims) : claims[i] \in ClaimRecord /\ claims'[i] = Put(claims[i])
    BY <1>2, <2>1
  <2>3. claims' \in [1..Len(claims) -> ClaimRecord]
    BY <1>2, <1>4, <2>2
  <2>4. claims' \in Seq(ClaimRecord) /\ Len(claims') = Len(claims)
    BY <2>1, <2>3, SeqDef, LenProperties
  <2> QED BY <1>4, <2>2, <2>4
<1>6. DistinctKeys(claims')
  BY <1>1, <1>5 DEF WritesTypes, DistinctKeys
<1>7. ASSUME NEW l \in Keys
      PROVE  /\ l # k => Spare(l)' = Spare(l)
             /\ l = k => Spare(l)' <= Spare(l) \/ o = "failed"
             /\ Spare(l) \in {0, 1} /\ Spare(l)' \in {0, 1}
  <2>1. /\ l \in Standing(claims) <=>
               \E i \in 1..Len(claims) : claims[i].key = l /\ claims[i].outcome # "failed"
        /\ l \in Standing(claims') <=>
               \E i \in 1..Len(claims) : claims'[i].key = l /\ claims'[i].outcome # "failed"
    BY <1>1, <1>5, StandingIs DEF WritesTypes
  <2>2. /\ Spare(l) = IF l \in Standing(claims) THEN 0 ELSE 1
        /\ Spare(l)' = IF l \in Standing(claims') THEN 0 ELSE 1
    BY DEF Spare
  <2>3. l # k => (l \in Standing(claims') <=> l \in Standing(claims))
    BY <1>5, <2>1
  <2>4. l = k /\ l \in Standing(claims) /\ o # "failed" => l \in Standing(claims')
    BY <1>5, <2>1
  <2> QED BY <2>2, <2>3, <2>4
<1>8. \A l \in Keys : sent[l] \in Nat /\ excused[l] \in Nat
  BY <1>1, NumbersAre
<1>9. /\ Weight(NoWrite, k, MaySend) = 0 /\ Weight(NoWrite, k, {"waiting"}) = 0
      /\ Weight(writer[w], k, {"waiting"}) = 0 /\ Weight(writer[w], k, MaySend) \in {0, 1}
      /\ o = "failed" => Weight(writer[w], k, MaySend) = 1
  BY <1>1, NoWriteIs DEF Weight, MaySend, Settling
<1>10. /\ \A l \in Keys : sent'[l] \in Nat /\ excused'[l] \in Nat
       /\ \A l \in Keys \ {k} : /\ sent'[l] = sent[l]
                                /\ excused[l] + Spare(l)' <= excused'[l] + Spare(l)
  BY <1>1, <1>7, <1>8
<1>11. /\ sent[k] + Weight(NoWrite, k, {"waiting"}) <= sent'[k] + Weight(writer[w], k, {"waiting"})
       /\ sent'[k] + Weight(NoWrite, k, MaySend) + Spare(k)' + excused[k]
             <= sent[k] + Weight(writer[w], k, MaySend) + Spare(k) + excused'[k]
  <2>1. Spare(k)' <= Weight(writer[w], k, MaySend) + Spare(k)
    BY <1>1, <1>7, <1>9
  <2>2. Spare(k) \in {0, 1} /\ Spare(k)' \in {0, 1}
    BY <1>1, <1>7
  <2> QED BY <1>1, <1>8, <1>9, <2>1, <2>2
<1>12. /\ writer' \in [Writers -> WriterRecord] /\ \A v \in Writers : OneKey(writer'[v])
       /\ \A l \in Keys : Counted(l)'
  BY <1>1, <1>3, <1>10, <1>11, NoWriteIs, CountedKept
<1>13. WritesTypes'
  BY <1>1, <1>5, <1>6, <1>12 DEF WritesTypes
<1> QED BY <1>12, <1>13 DEF WInv

\* The writers stay as they are, and a claim that is gone is excused.
LEMMA StillInv ==
    ASSUME WInv, UNCHANGED <<writer, sent>>, listed' \subseteq Keys,
           claims' \in Seq(ClaimRecord), Len(claims') <= MaxRecords, DistinctKeys(claims'),
           excused' \in [Keys -> 0..MaxExcuses],
           \A l \in Keys : excused[l] + Spare(l)' <= excused'[l] + Spare(l)
    PROVE  WInv'
<1>1. WritesTypes
  BY DEF WInv
<1>2. WritesTypes'
  BY <1>1 DEF WritesTypes
<1>3. ASSUME NEW l \in Keys PROVE Counted(l)'
  <2>1. Able(l)' = Able(l) /\ Waits(l)' = Waits(l)
    BY DEF Able, Waits, Within
  <2>2. Able(l) \in SUBSET Writers
    BY DEF Able, Within
  <2>3. Cardinality(Able(l)) \in Nat
    <3>1. IsFiniteSet(Able(l))
      BY <2>2, FS_Subset, WritesAssumption
    <3> QED BY <3>1, FS_CardinalityType
  <2>4. /\ sent[l] \in Nat /\ excused[l] \in Nat /\ excused'[l] \in Nat
        /\ Spare(l) \in Nat /\ Spare(l)' \in Nat
    BY <1>1, WritesAssumption DEF WritesTypes, Spare
  <2>5. /\ Cardinality(Waits(l)) <= sent[l]
        /\ sent[l] + Cardinality(Able(l)) + Spare(l) <= 1 + excused[l]
    BY DEF WInv, Counted
  <2>6. sent[l] + Cardinality(Able(l)) + Spare(l)' <= 1 + excused'[l]
    BY <2>3, <2>4, <2>5
  <2> QED BY <2>1, <2>5, <2>6 DEF Counted
<1> QED BY <1>2, <1>3 DEF WInv

LEMMA UnchangedWInv ==
    ASSUME WInv, UNCHANGED <<claims, writer, sent, excused>>, listed' \subseteq Keys
    PROVE  WInv'
<1>1. WritesTypes
  BY DEF WInv
<1>2. \A l \in Keys : excused[l] + Spare(l)' <= excused'[l] + Spare(l)
  BY <1>1, NumbersAre DEF Spare
<1>3. /\ claims' \in Seq(ClaimRecord) /\ Len(claims') <= MaxRecords /\ DistinctKeys(claims')
      /\ excused' \in [Keys -> 0..MaxExcuses]
  BY <1>1 DEF WritesTypes
<1> QED BY <1>2, <1>3, StillInv

LEMMA ListPendingWInv == ASSUME WInv, ListPending PROVE WInv'
<1>1. claims \in Seq(ClaimRecord) /\ \A r \in ToSet(claims) : r.key \in Keys
  <2>1. claims \in Seq(ClaimRecord)
    BY DEF WInv, WritesTypes
  <2>2. ToSet(claims) = {claims[i] : i \in 1..Len(claims)}
    BY <2>1 DEF ToSet
  <2>3. \A r \in ClaimRecord : r.key \in Keys
    BY DEF ClaimRecord
  <2> QED BY <2>1, <2>2, <2>3
<1> QED BY <1>1, UnchangedWInv DEF ListPending

LEMMA ResolveWriteWInv == ASSUME WInv, NEW k \in Keys, ResolveWrite(k) PROVE WInv'
<1> DEFINE after == Without(claims, k)
<1>1. WritesTypes /\ Replace(after) /\ UNCHANGED <<writer, listed, sent>>
  BY DEF WInv, ResolveWrite
<1>2. /\ after \in Seq(ClaimRecord) /\ Len(after) <= Len(claims) /\ DistinctKeys(after)
      /\ Among(after, claims)
  BY <1>1, WithoutIs DEF WritesTypes
<1> HIDE DEF after
<1>3. Len(after) <= MaxRecords /\ listed' \subseteq Keys
  BY <1>1, <1>2, WritesAssumption DEF WritesTypes
<1>4. \A i \in 1..Len(after) : \/ after[i].outcome = "in_flight"
                               \/ \E m \in 1..Len(claims) : after[i] = claims[m]
  BY <1>2 DEF Among
<1>5. /\ claims' = after /\ excused' \in [Keys -> 0..MaxExcuses]
      /\ \A l \in Keys : excused[l] + Spare(l)' <= excused'[l] + Spare(l)
  BY <1>1, <1>2, <1>4, ReplaceIs
<1> QED BY <1>1, <1>2, <1>3, <1>5, StillInv

\* No writer is left; what it was about to send is sent no more.
LEMMA EvictAllWInv == ASSUME WInv, EvictAll PROVE WInv'
<1>1. WritesTypes /\ writer' = [w \in Writers |-> NoWrite] /\ UNCHANGED <<claims, listed, sent, excused>>
  BY DEF WInv, EvictAll
<1>2. WritesTypes'
  BY <1>1, NoWriteIs DEF WritesTypes
<1>3. ASSUME NEW l \in Keys PROVE Counted(l)'
  <2>1. \A w \in Writers : writer'[w].keys = {}
    BY <1>1, NoWriteIs
  <2>2. Able(l)' = {} /\ Waits(l)' = {}
    BY <2>1 DEF Able, Waits, Within
  <2>3. Cardinality(Able(l)') = 0 /\ Cardinality(Waits(l)') = 0
    BY <2>2, FS_EmptySet
  <2>4. Spare(l)' = Spare(l)
    BY <1>1 DEF Spare
  <2>5. sent[l] \in Nat /\ excused[l] \in Nat /\ Spare(l) \in Nat
    BY <1>1, NumbersAre
  <2>6. Cardinality(Able(l)) \in Nat
    <3>1. Able(l) \in SUBSET Writers
      BY DEF Able, Within
    <3>2. IsFiniteSet(Able(l))
      BY <3>1, FS_Subset, WritesAssumption
    <3> QED BY <3>2, FS_CardinalityType
  <2>7. sent[l] + Cardinality(Able(l)) + Spare(l) <= 1 + excused[l]
    BY DEF WInv, Counted
  <2>8. 0 <= sent[l] /\ sent[l] + 0 + Spare(l) <= 1 + excused[l]
    BY <2>5, <2>6, <2>7
  <2> QED BY <1>1, <2>3, <2>4, <2>8 DEF Counted
<1> QED BY <1>2, <1>3 DEF WInv

LEMMA InitWInv == Init => WInv
<1> SUFFICES ASSUME WritesInit PROVE WInv
  BY DEF Init
<1>1. WritesTypes
  <2>1. claims \in Seq(ClaimRecord) /\ Len(claims) = 0
    BY DEF WritesInit
  <2> QED BY <2>1, NoWriteIs, WritesAssumption DEF WritesInit, WritesTypes, DistinctKeys
<1>2. ASSUME NEW l \in Keys PROVE Counted(l)
  <2>1. Able(l) = {} /\ Waits(l) = {}
    BY NoWriteIs DEF WritesInit, Able, Waits, Within
  <2>2. Cardinality(Able(l)) = 0 /\ Cardinality(Waits(l)) = 0
    BY <2>1, FS_EmptySet
  <2>3. Spare(l) \in {0, 1} /\ sent[l] = 0 /\ excused[l] = 0
    BY DEF Spare, WritesInit
  <2> QED BY <2>2, <2>3 DEF Counted
<1> QED BY <1>1, <1>2 DEF WInv

LEMMA NextWInv == ASSUME IInv, WInv, [Next]_vars PROVE WInv'
<1>1. CASE UNCHANGED writeVars
  <2>1. UNCHANGED <<claims, writer, sent, excused>> /\ listed' \subseteq Keys
    BY <1>1 DEF writeVars, WInv, WritesTypes
  <2> QED BY <2>1, UnchangedWInv
<1>2. CASE \E t \in Tasks, w \in Writers : Begin(t, w)
  BY <1>2, BeginWInv
<1>3. CASE \E w \in Writers : WriteStep(w)
  BY <1>3, ClaimWInv, CheckWInv, SendWInv, AnsweredWInv, SettleWInv DEF WriteStep
<1>4. CASE ListPending \/ \E k \in Keys : ResolveWrite(k)
  BY <1>4, ListPendingWInv, ResolveWriteWInv
<1>5. CASE EvictAll
  BY <1>5, EvictAllWInv
<1> QED BY <1>1, <1>2, <1>3, <1>4, <1>5 DEF Next, ToolsNext, vars

\* The count of the requests, of the writers that may still send and of the keys that may be
\* claimed holds of every behaviour.
THEOREM WritesCounted == Spec => []WInv
BY InitWInv, NextWInv, Inductive, PTL DEF Spec

\* write-guard.ts: a write is sent again only after the service refused it, or its claim was
\* dropped or settled by a redirect; until then its claim stands, whatever became of its
\* call, its writer or the worker.
THEOREM RepeatIsExplainedHolds == Spec => []RepeatIsExplained
<1>1. ASSUME WInv, NEW k \in Keys
      PROVE  /\ sent[k] <= 1 + excused[k]
             /\ sent[k] > 0 /\ excused[k] = 0 => k \in Standing(claims)
  <2>1. Able(k) \in SUBSET Writers
    BY DEF Able, Within
  <2>2. IsFiniteSet(Able(k))
    BY <2>1, FS_Subset, WritesAssumption
  <2>3. Cardinality(Able(k)) \in Nat
    BY <2>2, FS_CardinalityType
  <2>4. sent[k] \in Nat /\ excused[k] \in Nat /\ Spare(k) \in {0, 1}
    BY <1>1, NumbersAre DEF WInv
  <2>5. sent[k] + Cardinality(Able(k)) + Spare(k) <= 1 + excused[k]
    BY <1>1 DEF WInv, Counted
  <2>6. sent[k] <= 1 + excused[k] /\ (sent[k] > 0 /\ excused[k] = 0 => Spare(k) = 0)
    BY <2>3, <2>4, <2>5
  <2> QED BY <2>6 DEF Spare
<1>2. WInv => RepeatIsExplained
  BY <1>1 DEF RepeatIsExplained
<1> QED BY <1>2, WritesCounted, PTL

-----------------------------------------------------------------------------
(* The types. *)

LEMMA WritesTypesAre == IInv /\ WInv => TypeOK
<1> SUFFICES ASSUME IInv, WInv PROVE TypeOK
  OBVIOUS
<1>1. WritesTypes /\ DispatchTypeOK
  BY DEF WInv, IInv
<1>2. ToSet(claims) \subseteq ClaimRecord
  BY <1>1 DEF WritesTypes, ToSet
<1>3. ASSUME NEW w \in Writers, writer[w].pc = "idle" PROVE writer[w] = NoWrite
  BY <1>1, <1>3 DEF WritesTypes, WriterRecord, OneKey, NoWrite
<1>4. ASSUME NEW w \in Writers, writer[w].pc # "idle"
      PROVE  /\ writer[w].pc \in {"claiming", "checking", "sending", "waiting"} \cup Settling
             /\ \E k \in Keys : writer[w].keys = {k}
  BY <1>1, <1>4 DEF WritesTypes, WriterRecord, OneKey
<1> QED BY <1>1, <1>2, <1>3, <1>4 DEF TypeOK, WritesTypes

\* The rest of the connection's types.
Held ==
    /\ vault = {} \/ \E t \in Tokens : vault = {t}
    /\ asking \subseteq Tokens /\ acts \in 0..MaxActs

LEMMA HeldInit == SessionInit => Held
BY DEF SessionInit, Held

LEMMA HeldStep == Held /\ [SessionNext \/ SessionForgets]_sessionVars => Held'
<1> SUFFICES ASSUME Held, [SessionNext \/ SessionForgets]_sessionVars PROVE Held'
  OBVIOUS
<1>1. ASSUME PersonActs PROVE acts' \in 0..MaxActs
  BY <1>1, SessionAssumption DEF PersonActs, Held
<1>2. ASSUME NEW t \in Tokens, Connect(t) \/ Accept(t) \/ Reject(t) PROVE Held'
  BY <1>1, <1>2 DEF Connect, Accept, Reject, Held
<1>3. CASE RefuseSite \/ Disconnect
  BY <1>1, <1>3 DEF RefuseSite, Disconnect, Held
<1>4. ASSUME NEW q \in Requests, RequestStep(q) PROVE Held'
  BY <1>4 DEF RequestStep, Address, Preflight, Permit, ReadCredential, Leave, Respond, Held
<1>5. CASE ListConnectors \/ SessionForgets \/ UNCHANGED sessionVars
  BY <1>5 DEF ListConnectors, SessionForgets, sessionVars, Held
<1> QED BY <1>2, <1>3, <1>4, <1>5 DEF SessionNext

LEMMA SessionTypesAre == Confirmed /\ Held => SessionTypeOK
<1> SUFFICES ASSUME Confirmed, Held PROVE SessionTypeOK
  OBVIOUS
<1>1. Cardinality(vault) <= 1
  <2>1. CASE vault = {}
    <3>1. Cardinality(vault) = 0
      BY <2>1, FS_EmptySet
    <3> QED BY <3>1
  <2>2. CASE \E t \in Tokens : vault = {t}
    <3>1. Cardinality(vault) = 1
      BY <2>2, FS_Singleton
    <3> QED BY <3>1
  <2> QED BY <2>1, <2>2 DEF Held
<1>2. session \in [state : DOMAIN Edges, covers : BOOLEAN]
  BY DEF Confirmed, Types, SessionRecord
<1>3. ASSUME NEW q \in Requests
      PROVE  /\ request[q].pc \in RequestPcs
             /\ request[q].writes \in BOOLEAN /\ request[q].header \subseteq Tokens
             /\ request[q].to \subseteq {HomeOf[t] : t \in Tokens}
  BY DEF Confirmed, Types, RequestRecord
<1> QED BY <1>1, <1>2, <1>3 DEF SessionTypeOK, Confirmed, Types, Held, RequestPcs

\* Every step of the tool calls, the writes and the connection leaves each part of the state
\* in its range: at most MAX_RECORDS claims, one stored token, one key for a writer.
THEOREM ConnectorsTypeOKHolds == ConnectorsSpec => []ConnectorsTypeOK
<1>1. SessionSpec => []Held
  BY HeldInit, HeldStep, PTL DEF SessionSpec
<1>2. TypeOK /\ SessionTypeOK => ConnectorsTypeOK
  BY DEF ConnectorsTypeOK
<1> QED
  BY <1>1, <1>2, PartsHold, Inductive, WritesCounted, WritesTypesAre, ConfirmedInvariant,
     SessionTypesAre, PTL
=============================================================================
