--------------------------- MODULE PolicyDecision ---------------------------
(***************************************************************************)
(* What one tool call needs: the policy engine's decision, the egress      *)
(* gate's, and the stricter of the two, as operators over a call and the   *)
(* context it is judged in.  A site is a registrable domain; an address    *)
(* enters only through the site it is of.                                  *)
(***************************************************************************)
EXTENDS Integers

CONSTANTS
    Sites,
    NoSite     \* an address that is absent, or cannot be parsed

ASSUME SiteAssumption == NoSite \notin Sites

Place == Sites \cup {NoSite}

Risks == 0..5      \* R0 .. R5

Verdicts == {"ALLOW", "ALLOW_WITH_CONFIRMATION", "DENY"}
Modes    == {"skip", "auto", "manual"}

\* A site's rule; maxRisk bounds an "allow" and is at most R2.
Rule  == [decision : {"none", "allow", "block"}, maxRisk : 0..2]
Rules == [Sites -> Rule]

NoRule == [decision |-> "none", maxRisk |-> 0]

Call == [risk       : Risks,
         prohibited : BOOLEAN,
         scope      : Place,        \* siteScope
         target     : Place,        \* targetUrl
         navigable  : BOOLEAN,      \* checkNavigable(targetUrl), true without a target
         moved      : BOOLEAN,      \* the page is of another origin than when planned
         leaks      : {"allow", "confirm", "block"}]  \* evaluateExfiltration's verdict

Context == [mode : Modes, rules : Rules, unattended : BOOLEAN, plan : SUBSET Sites]

-----------------------------------------------------------------------------
(* The policy engine. *)

Max2(a, b) == IF a >= b THEN a ELSE b

Strictness(mode) == CASE mode = "manual" -> 2 [] mode = "auto" -> 1 [] OTHER -> 0

strictestMode(a, b) == IF Strictness(a) >= Strictness(b) THEN a ELSE b

\* findRule: an unparsable address has no rule.
RuleFor(x, place) == IF place \in Sites THEN x.rules[place] ELSE NoRule

Blocked(c, x) == "block" \in {RuleFor(x, c.scope).decision, RuleFor(x, c.target).decision}

\* The risk, once a read on a page that moved counts as R1.
EffectiveRisk(c) == IF c.moved THEN Max2(c.risk, 1) ELSE c.risk

\* The plan a person approved for the task covers the call's site.
PlanCovers(c, x) == ~x.unattended /\ c.scope \in x.plan

\* A standing rule is consulted for the scope, or else for the destination.
Granted(c, x) ==
    LET rule == RuleFor(x, IF c.scope # NoSite THEN c.scope ELSE c.target)
    IN  rule.decision = "allow" /\ EffectiveRisk(c) <= rule.maxRisk

ModeAllows(c, x) ==
    \/ x.mode = "skip"
    \/ x.mode = "manual" /\ EffectiveRisk(c) = 0
    \/ x.mode = "auto" /\ (EffectiveRisk(c) < 2 \/ Granted(c, x))

\* Mutation: the mode is asked whether or not anybody is watching.
evaluateAttended(c, x) ==
    IF c.prohibited \/ c.risk >= 5 \/ Blocked(c, x) \/ ~c.navigable THEN "DENY"
    ELSE IF c.moved /\ c.risk >= 1 THEN "ALLOW_WITH_CONFIRMATION"
    ELSE IF c.leaks = "block" THEN "DENY"
    ELSE IF c.leaks = "confirm" \/ EffectiveRisk(c) >= 3 THEN "ALLOW_WITH_CONFIRMATION"
    ELSE IF PlanCovers(c, x) \/ ModeAllows(c, x) THEN "ALLOW"
    ELSE "ALLOW_WITH_CONFIRMATION"

\* The stages in the code's order: what is refused, what is asked, what is let through.
evaluatePolicy(c, x) ==
    IF c.prohibited \/ c.risk >= 5 \/ Blocked(c, x) \/ ~c.navigable THEN "DENY"
    ELSE IF c.moved /\ c.risk >= 1 THEN "ALLOW_WITH_CONFIRMATION"
    ELSE IF c.leaks = "block" THEN "DENY"
    ELSE IF c.leaks = "confirm" \/ EffectiveRisk(c) >= 3
            \/ (x.unattended /\ EffectiveRisk(c) >= 2) THEN "ALLOW_WITH_CONFIRMATION"
    ELSE IF PlanCovers(c, x) \/ ModeAllows(c, x) THEN "ALLOW"
    ELSE "ALLOW_WITH_CONFIRMATION"

-----------------------------------------------------------------------------
(* The egress gate. *)

Transfer == [external  : BOOLEAN,    \* the channel leaves the extension
             known     : BOOLEAN,    \* the taint is known and the task has its salt
             named     : BOOLEAN,    \* the destination has an identity
             leaks     : {"allow", "confirm", "block"},
             provider  : BOOLEAN,    \* a request to a model provider
             switched  : BOOLEAN,    \* ... that is not the one the task is pinned to
             conveys   : BOOLEAN,    \* the carrier can convey what was read
             signed    : BOOLEAN,    \* the taint has a signature
             consented : BOOLEAN]    \* a consent for this key, not below the sensitivity

\* A secret in the payload is what makes leaks "block".
authorizeEgress(e) ==
    IF ~e.external THEN "allow"
    ELSE IF ~e.known \/ ~e.named \/ e.leaks = "block" THEN "deny"
    ELSE IF e.provider /\ ~e.switched THEN "allow"
    ELSE IF ~e.provider /\ (e.leaks = "allow" \/ ~e.conveys) THEN "allow"
    ELSE IF ~e.signed THEN "deny"
    ELSE IF e.consented THEN "allow" ELSE "confirm"

\* The stricter of the two decisions, for a call that declares a transfer.
Combined(verdict, egress) ==
    CASE egress = "deny" -> "DENY"
      [] egress = "confirm" /\ verdict # "DENY" -> "ALLOW_WITH_CONFIRMATION"
      [] OTHER -> verdict
=============================================================================
