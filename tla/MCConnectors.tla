-------------------------- MODULE MCConnectors --------------------------
(* Connectors for TLC: a task somebody watches and one nobody does, and two tokens. *)
EXTENDS Connectors, TLC

CONSTANTS watched, alone, shop, bank, atShop, atBank, full, readonly

SiteOfOrigin == (atShop :> shop) @@ (atBank :> bank)

Plain(kind, risk, target) ==
    [kind |-> kind, risk |-> risk, prohibited |-> FALSE, target |-> target,
     navigable |-> TRUE, leaks |-> "allow", egress |-> "undeclared"]

Read    == Plain("page", 0, NoSite)
Click   == Plain("page", 2, NoSite)
Submit  == Plain("page", 3, NoSite)
Open    == Plain("destination", 1, bank)
Post    == Plain("destination", 2, shop)
Deploy  == [Plain("none", 1, NoSite) EXCEPT !.prohibited = TRUE]

\* Transfers: of private data, of a secret, and one consented to before.
Upload == [external |-> TRUE, known |-> TRUE, named |-> TRUE, leaks |-> "confirm",
           provider |-> FALSE, switched |-> FALSE, conveys |-> TRUE, signed |-> TRUE,
           consented |-> FALSE]
Secret == [Upload EXCEPT !.leaks = "block"]
Agreed == [Upload EXCEPT !.consented = TRUE]

Mcp     == [Plain("destination", 3, bank) EXCEPT !.leaks = Secret.leaks,
                                                 !.egress = authorizeEgress(Secret)]
Type    == [Plain("page", 2, NoSite) EXCEPT !.egress = authorizeEgress(Upload)]
Issue   == [Plain("connector", 3, NoSite) EXCEPT !.egress = authorizeEgress(Agreed)]
Comment == [Plain("connector", 3, NoSite) EXCEPT !.egress = authorizeEgress(Upload)]

AllShapes == {Read, Click, Submit, Open, Post, Deploy, Mcp, Type, Issue, Comment}

NoRules    == Unruled
ShopOpen   == [Unruled EXCEPT ![shop] = [decision |-> "allow", maxRisk |-> 2]]
BankClosed == [Unruled EXCEPT ![bank] = [decision |-> "block", maxRisk |-> 0]]

NoPlans  == [t \in Tasks |-> {}]
ShopPlan == [NoPlans EXCEPT ![watched] = {shop}]

\* Each task's model keeps asking for one thing.
Each(s1, s2) == [t \in Tasks |-> IF t = watched THEN s1 ELSE s2]

\* Tabs that show the shop, or none; and what may happen meanwhile.
Scene0(m, r, p, a, tabs, k, n) ==
    [mode |-> m, rules |-> r, plan |-> p, asks |-> a, page |-> [t \in Tasks |-> tabs],
     moves |-> k, evictions |-> n]

PageShapes == {s \in AllShapes : s.kind # "connector"}

\* Every call in every mode, and the calls that a rule or a plan makes a difference to.
WatchedScenes ==
    {Scene0(m, NoRules, NoPlans, Each({s}, {}), atShop, 1, 0) : m \in Modes, s \in PageShapes}
    \cup {Scene0("auto", r, NoPlans, Each({s}, {}), atShop, 1, 0) :
             r \in {ShopOpen, BankClosed}, s \in {Click, Open, Post}}
    \cup {Scene0("auto", NoRules, ShopPlan, Each({s}, {}), atShop, 1, 0) : s \in {Click, Submit}}

AloneScenes ==
    {Scene0("skip", ShopOpen, NoPlans, Each({}, {s}), atShop, 1, 0) : s \in PageShapes}

TogetherScenes == {Scene0("auto", NoRules, NoPlans, Each({Post}, {Post}), NoOrigin, 0, 1)}

\* One write and an eviction, and two writes that compete for the last place in the record.
EvictedWrites == {Scene0("auto", NoRules, NoPlans, Each({Issue}, {}), NoOrigin, 0, 1)}
TwoWrites     == {Scene0("auto", NoRules, NoPlans, Each({Issue, Comment}, {}), NoOrigin, 0, 0)}

\* Nobody asks for anything: the connection, over two evictions.
QuietScene == {Scene0("auto", NoRules, NoPlans, Each({}, {}), NoOrigin, 0, 2)}

Homes == (full :> shop) @@ (readonly :> bank)

AllScenes == QuietScene \cup WatchedScenes \cup AloneScenes \cup TogetherScenes \cup EvictedWrites \cup TwoWrites
=============================================================================
