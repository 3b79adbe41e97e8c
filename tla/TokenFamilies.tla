--------------------------- MODULE TokenFamilies ---------------------------
(***************************************************************************)
(* What the account service promises about refresh tokens, without any of  *)
(* the steps in which it keeps the promise: a session handed to a caller   *)
(* is replaced at most once, and a family that has been ended hands out    *)
(* nothing more and leaves nothing alive.                                  *)
(***************************************************************************)
CONSTANTS
    Sessions,    \* names of sessions, and of their refresh tokens
    NoSession    \* "it has no predecessor", which is not a session

VARIABLES
    family,  \* the family of each session handed to a caller
    from,    \* its predecessor, if it came from a refresh
    dead,    \* the handed out sessions that authenticate nobody any more
    ended    \* the families that were ended as a whole

vars == <<family, from, dead, ended>>

Handed == DOMAIN family

TypeOK ==
    /\ Handed \subseteq Sessions
    /\ family \in [Handed -> Sessions]
    /\ from \in [Handed -> Sessions \cup {NoSession}]
    /\ dead \subseteq Handed
    /\ ended \subseteq Sessions

Init ==
    /\ family = [s \in {} |-> NoSession] /\ from = [s \in {} |-> NoSession]
    /\ dead = {} /\ ended = {}

\* Entry s of f becomes v.
With(f, s, v) == [t \in DOMAIN f \cup {s} |-> IF t = s THEN v ELSE f[t]]

\* A sign-in: a family of its own.
Open(s) ==
    /\ s \in Sessions \ Handed /\ s \notin ended
    /\ family' = With(family, s, s) /\ from' = With(from, s, NoSession)
    /\ UNCHANGED <<dead, ended>>

\* A refresh: p is replaced, once, while its family lives.
Replace(p, s) ==
    /\ p \in Handed \ dead /\ s \in Sessions \ Handed
    /\ family[p] \notin ended
    /\ \A t \in Handed : from[t] # p
    /\ family' = With(family, s, family[p]) /\ from' = With(from, s, p)
    /\ UNCHANGED <<dead, ended>>

\* A sign-out: of one session.
Kill(s) ==
    /\ s \in Handed
    /\ dead' = dead \cup {s}
    /\ UNCHANGED <<family, from, ended>>

\* A token presented twice, or an identity removed: whole families end.
End(F) ==
    /\ ended' = ended \cup F
    /\ dead' = dead \cup {s \in Handed : family[s] \in F}
    /\ UNCHANGED <<family, from>>

Next ==
    \/ \E s \in Sessions : Open(s) \/ Kill(s)
    \/ \E p, s \in Sessions : Replace(p, s)
    \/ \E F \in SUBSET Sessions : End(F)

Spec == Init /\ [][Next]_vars

\* A refresh token is worth one session.
SingleUse == \A s, t \in Handed : from[s] = from[t] /\ from[s] # NoSession => s = t

\* Nothing handed out from a family that was ended is alive.
EndedIsDead == \A s \in Handed : family[s] \in ended => s \in dead
=============================================================================
