------------------------ MODULE TokenFamiliesProofs ------------------------
(***************************************************************************)
(* What the promise of TokenFamilies is worth: every behaviour that keeps  *)
(* it keeps refresh tokens single-use and ended families dead.             *)
(***************************************************************************)
EXTENDS TokenFamilies, TLAPS

IInv == TypeOK /\ SingleUse /\ EndedIsDead

LEMMA InvInit == Init => IInv
BY DEF Init, IInv, TypeOK, SingleUse, EndedIsDead, Handed

\* A session is handed out, in a family that has not been ended.
LEMMA Handing ==
    ASSUME IInv, NEW s \in Sessions \ Handed, NEW f \in Sessions \ ended,
           NEW p \in Sessions \cup {NoSession},
           p # NoSession => \A t \in Handed : from[t] # p,
           family' = With(family, s, f), from' = With(from, s, p), UNCHANGED <<dead, ended>>
    PROVE  IInv'
<1>1. /\ Handed' = Handed \cup {s}
      /\ family'[s] = f /\ from'[s] = p
      /\ \A t \in Handed : family'[t] = family[t] /\ from'[t] = from[t]
  BY DEF IInv, TypeOK, Handed, With
<1>2. TypeOK'
  BY DEF IInv, TypeOK, Handed, With
<1>3. SingleUse'
  BY <1>1 DEF IInv, SingleUse
<1>4. EndedIsDead'
  BY <1>1 DEF IInv, EndedIsDead
<1> QED BY <1>2, <1>3, <1>4 DEF IInv

LEMMA InvNext == IInv /\ [Next]_vars => IInv'
<1> SUFFICES ASSUME IInv, [Next]_vars PROVE IInv'
  OBVIOUS
<1>1. ASSUME NEW s \in Sessions, Open(s) PROVE IInv'
  BY <1>1, Handing DEF Open
<1>2. ASSUME NEW s \in Sessions, Kill(s) PROVE IInv'
  BY <1>2 DEF Kill, IInv, TypeOK, SingleUse, EndedIsDead, Handed
<1>3. ASSUME NEW p \in Sessions, NEW s \in Sessions, Replace(p, s) PROVE IInv'
  <2>1. family[p] \in Sessions \ ended
    BY <1>3 DEF Replace, IInv, TypeOK
  <2> QED BY <1>3, <2>1, Handing DEF Replace
<1>4. ASSUME NEW F \in SUBSET Sessions, End(F) PROVE IInv'
  BY <1>4 DEF End, IInv, TypeOK, SingleUse, EndedIsDead, Handed
<1>5. CASE UNCHANGED vars
  BY <1>5 DEF vars, IInv, TypeOK, SingleUse, EndedIsDead, Handed
<1> QED BY <1>1, <1>2, <1>3, <1>4, <1>5 DEF Next

\* The promise of session-service.ts: a refresh token is worth one session, and nothing of a
\* family that was ended is alive.
THEOREM WorthOfThePromise == Spec => [](SingleUse /\ EndedIsDead)
<1>1. IInv => SingleUse /\ EndedIsDead
  BY DEF IInv
<1> QED BY <1>1, InvInit, InvNext, PTL DEF Spec
=============================================================================
