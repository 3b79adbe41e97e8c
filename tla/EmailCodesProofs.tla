-------------------------- MODULE EmailCodesProofs --------------------------
(***************************************************************************)
(* Proofs about EmailCodes, for every set of requests, challenges and      *)
(* identities: what SessionServerProofs shows of the sessions holds while  *)
(* identities come by mail as well; a code is worth one thing; and the     *)
(* address has one owner.                                                  *)
(***************************************************************************)
EXTENDS EmailCodes, SessionServerProofs, FiniteSetTheorems

-----------------------------------------------------------------------------
(* The sessions. *)

\* What a row or a request names as its identity is, or was, in the table.
NamesLinked ==
    /\ \A s \in Sessions : session[s].via \in linked \cup {NoIdentity}
    /\ \A r \in Requests : request[r].via \in linked \cup {NoIdentity}

SessionsInv ==
    /\ IInv /\ identity \subseteq linked
    /\ scene = "codes" => NamesLinked

LEMMA SessionsInit == CodesInit => SessionsInv
<1> SUFFICES ASSUME CodesInit PROVE SessionsInv
  OBVIOUS
<1>1. identity \subseteq Identities
  BY CodesAssumption DEF CodesInit
<1>2. TypeOK
  BY <1>1 DEF CodesInit, TypeOK, NoRow, SessionRow, Idle, RequestRecord, Pcs
<1>3. \A s \in Sessions : ~Exists(s) /\ session[s].from = NoSession
  BY DEF CodesInit, NoRow, Exists
<1>4. Families /\ Successors /\ Recorded /\ SingleUse /\ EndedIsDead
  BY <1>3, Distinct DEF CodesInit, Exists, Families, Successors, Recorded, SingleUse, EndedIsDead
<1>5. RequestsFit /\ OneWinner
  BY DEF CodesInit, RequestsFit, OneWinner, Fits, Idle, Presented, Refreshing, Claiming
<1>6. NamesLinked /\ identity \subseteq linked
  BY DEF CodesInit, NamesLinked, NoRow, Idle
<1> QED BY <1>2, <1>4, <1>5, <1>6 DEF IInv, SessionsInv

\* A step of the service alone never adds an identity.
LEMMA Shrinks == [Next]_vars => identity' \subseteq identity
<1> SUFFICES ASSUME [Next]_vars PROVE identity' \subseteq identity
  OBVIOUS
<1>1. ASSUME NEW r \in Requests, Arrive(r) \/ Leave(r) PROVE identity' = identity
  BY <1>1 DEF Arrive, Leave, Refresh, Logout, Detach, Present, SignIn
<1>2. ASSUME NEW r \in Requests, Serve(r) PROVE identity' \subseteq identity
  BY <1>2 DEF Serve, Find, Reuse, Claim, Mint, Reread, Create, Verify, Revoke, Look, List,
              Unlink, Delete
<1>3. CASE UNCHANGED vars
  BY <1>3 DEF vars
<1> QED BY <1>1, <1>2, <1>3 DEF Next

\* The steps of the service while codes are used.
Aside(r) ==
    \/ \E i \in identity : SignIn(r, i)
    \/ Create(r)
    \/ \E s \in Sessions, i \in identity : Detach(r, s, i)
    \/ Verify(r) \/ Look(r) \/ List(r) \/ Unlink(r) \/ Delete(r) \/ Leave(r)

LEMMA AsideIsNext == ASSUME IInv, NEW r \in Requests, Aside(r) PROVE Next
<1>1. identity \subseteq Identities
  BY DEF IInv, TypeOK
<1> QED BY <1>1 DEF Aside, Next, Arrive, Serve

LEMMA AsideLinked ==
    ASSUME SessionsInv, NamesLinked, NEW r \in Requests, Aside(r), linked' = linked
    PROVE  NamesLinked'
<1>1. /\ session \in [Sessions -> SessionRow] /\ request \in [Requests -> RequestRecord]
      /\ identity \subseteq linked
  BY DEF SessionsInv, IInv, TypeOK
<1>2. ASSUME NEW i \in identity, SignIn(r, i) PROVE NamesLinked'
  BY <1>1, <1>2 DEF SignIn, Begin, NamesLinked, Idle
<1>3. ASSUME NEW s \in Sessions, NEW i \in identity, Detach(r, s, i) PROVE NamesLinked'
  BY <1>1, <1>3 DEF Detach, Present, Begin, NamesLinked, Idle
<1>4. CASE Verify(r) \/ Look(r) \/ List(r)
  BY <1>1, <1>4 DEF Verify, Look, List, Go, Answer, NamesLinked, Idle, RequestRecord
<1>5. CASE Leave(r)
  BY <1>1, <1>5 DEF Leave, NamesLinked, Idle
<1>6. CASE Unlink(r)
  BY <1>1, <1>6 DEF Unlink, Go, Revoked, NamesLinked, SessionRow, RequestRecord
<1>7. CASE Delete(r)
  BY <1>1, <1>7 DEF Delete, Answer, NamesLinked, SessionRow, Idle, RequestRecord
<1>8. CASE Create(r)
  <2>1. PICK v : v = request[r].via
    OBVIOUS
  <2>2. v \in linked \cup {NoIdentity}
    BY <2>1 DEF NamesLinked
  <2>3. ASSUME NEW q \in Requests PROVE request'[q].via \in linked \cup {NoIdentity}
    BY <1>1, <1>8 DEF Create, Return, Answer, NamesLinked, Idle, RequestRecord
  <2>4. session' = session
           \/ \E n \in Sessions : session' = [session EXCEPT ![n] = Row(n, NoSession, v)]
    BY <1>8, <2>1 DEF Create
  <2>5. ASSUME NEW s \in Sessions PROVE session'[s].via \in linked \cup {NoIdentity}
    BY <1>1, <2>2, <2>4 DEF NamesLinked, Row, NoRow
  <2> QED BY <2>3, <2>5 DEF NamesLinked
<1> QED BY <1>2, <1>3, <1>4, <1>5, <1>6, <1>7, <1>8 DEF Aside
\* An identity that was never in the table is added: nobody has seen it.
LEMMA AttachInv ==
    ASSUME SessionsInv, NamesLinked, NEW i \in Identities \ linked,
           identity' = identity \cup {i}, linked' = linked \cup {i},
           UNCHANGED <<session, request, issued, ended>>
    PROVE  IInv' /\ NamesLinked' /\ identity' \subseteq linked'
<1>1. TypeOK'
  BY DEF SessionsInv, IInv, TypeOK
<1>2. Families' /\ Successors' /\ Recorded' /\ SingleUse' /\ EndedIsDead'
  BY DEF SessionsInv, IInv, Families, Successors, Recorded, SingleUse, EndedIsDead, Exists
<1>3. ASSUME NEW r \in Requests PROVE Fits(request[r])'
  <2>2. Fits(request[r]) /\ request[r].via \in linked \cup {NoIdentity}
    BY DEF SessionsInv, IInv, RequestsFit, NamesLinked
  <2>3. request[r].via = i => i = NoIdentity
    BY <2>2
  <2>4. i # NoIdentity
    BY Distinct
  <2> QED BY <2>2, <2>3, <2>4 DEF Fits
<1>4. OneWinner'
  BY DEF SessionsInv, IInv, OneWinner
<1>5. NamesLinked' /\ identity' \subseteq linked'
  BY DEF NamesLinked, SessionsInv
<1> QED BY <1>1, <1>2, <1>3, <1>4, <1>5 DEF IInv, RequestsFit

\* The caller of a request about codes left.
LEMMA LeaveMailInv ==
    ASSUME SessionsInv, NEW r \in Requests, LeaveMail(r)
    PROVE  IInv' /\ (NamesLinked => NamesLinked')
<1>1. Idle \in RequestRecord /\ Idle.pc = "idle"
  BY RecordFields, Records DEF SessionsInv, IInv, Idle
<1>2. Fits(Idle) /\ Idle.pc \notin Claiming
  BY <1>1, IdleFits
<1>3. /\ request' = [request EXCEPT ![r] = Idle]
      /\ UNCHANGED <<session, identity, issued, ended, linked>>
  BY DEF LeaveMail
<1>4. IInv'
  BY <1>1, <1>2, <1>3, RequestStep DEF SessionsInv
<1>5. request \in [Requests -> RequestRecord]
  BY DEF SessionsInv, IInv, TypeOK
<1>6. NamesLinked => NamesLinked'
  BY <1>3, <1>5 DEF NamesLinked, Idle
<1> QED BY <1>4, <1>6

\* What a step about codes does to the sessions.
LEMMA CodesAre ==
    ASSUME NEW r \in Requests, Codes(r)
    PROVE  \/ UNCHANGED <<vars, linked>>
           \/ Aside(r) /\ linked' = linked
           \/ LeaveMail(r)
           \/ /\ UNCHANGED <<session, request, issued, ended>>
              /\ \E i \in Identities \ linked : identity' = identity \cup {i}
                                              /\ linked' = linked \cup {i}
<1>1. CASE Start(r) \/ Authorise(r) \/ Deliver(r) \/ Resolve(r) \/ LookUp(r)
  BY <1>1 DEF Start, Authorise, Deliver, Resolve, LookUp
<1>2. ASSUME NEW s \in Sessions, NEW ch \in Challenges, StartLink(r, s) \/ CompleteLink(r, s, ch)
      PROVE  UNCHANGED <<vars, linked>>
  BY <1>2 DEF StartLink, CompleteLink, WithSession
<1>3. ASSUME NEW ch \in Challenges, Verifies(r, ch) PROVE UNCHANGED <<vars, linked>>
  BY <1>3 DEF Verifies
<1>4. CASE SignInByCode(r)
  BY <1>4 DEF SignInByCode, Aside, Ours
<1>5. CASE CreateByCode(r)
  BY <1>5 DEF CreateByCode, Aside
<1>6. CASE Insert(r)
  BY <1>6, CodesAssumption DEF Insert, Attach, vars
<1>7. ASSUME NEW s \in Sessions, StartLink(r, s) PROVE UNCHANGED <<vars, linked>>
  BY <1>7 DEF StartLink, WithSession
<1> QED BY <1>1, <1>2, <1>3, <1>4, <1>5, <1>6, <1>7 DEF Codes

LEMMA SessionsNext == SessionsInv /\ [CodesNext]_allVars => SessionsInv'
<1> SUFFICES ASSUME SessionsInv, [CodesNext]_allVars PROVE SessionsInv'
  OBVIOUS
<1>0. IInv /\ identity \subseteq linked /\ identity \subseteq Identities
  BY DEF SessionsInv, IInv, TypeOK
<1>1. ASSUME [Next]_vars, linked' = linked PROVE IInv' /\ identity' \subseteq linked'
  BY <1>0, <1>1, InvNext, Shrinks
<1>2. CASE scene = "tokens" /\ Next /\ UNCHANGED mailVars
  BY <1>1, <1>2 DEF mailVars, SessionsInv
<1>3. ASSUME scene = "codes", UNCHANGED <<vars, linked>> PROVE SessionsInv'
  <2>1. NamesLinked'
    BY <1>3 DEF SessionsInv, NamesLinked, vars
  <2> QED BY <1>1, <1>3, <2>1 DEF SessionsInv
<1>4. ASSUME NEW r \in Requests, scene = "codes", Aside(r), linked' = linked PROVE SessionsInv'
  <2>1. NamesLinked'
    BY <1>4, AsideLinked DEF SessionsInv
  <2>2. Next
    BY <1>0, <1>4, AsideIsNext
  <2> QED BY <1>1, <1>4, <2>1, <2>2 DEF SessionsInv
<1>5. ASSUME NEW r \in Requests, scene = "codes", Codes(r) PROVE SessionsInv'
  <2>1. NamesLinked
    BY <1>5 DEF SessionsInv
  <2>2. CASE LeaveMail(r)
    BY <1>0, <2>1, <2>2, LeaveMailInv DEF SessionsInv, LeaveMail
  <2>3. CASE /\ UNCHANGED <<session, request, issued, ended>>
             /\ \E i \in Identities \ linked : identity' = identity \cup {i}
                                             /\ linked' = linked \cup {i}
    BY <2>1, <2>3, AttachInv DEF SessionsInv
  <2> QED BY <1>3, <1>4, <1>5, <2>2, <2>3, CodesAre
<1>6. ASSUME NEW r \in Requests, scene = "codes", Detaching(r) PROVE SessionsInv'
  <2>1. linked' = linked
    BY <1>6 DEF Detaching, mailVars
  <2>2. Aside(r)
    BY <1>6 DEF Detaching, Aside, SignIn
  <2> QED BY <1>4, <1>6, <2>1, <2>2
<1>7. ASSUME NEW ch \in Challenges, scene = "codes", Expire(ch) PROVE SessionsInv'
  BY <1>3, <1>7 DEF Expire
<1>8. CASE UNCHANGED allVars
  <2>1. UNCHANGED <<vars, linked>> /\ scene' = scene
    BY <1>8 DEF allVars, mailVars
  <2>2. NamesLinked => NamesLinked'
    BY <2>1 DEF NamesLinked, vars
  <2> QED BY <1>1, <2>1, <2>2 DEF SessionsInv
<1> QED BY <1>2, <1>5, <1>6, <1>7, <1>8 DEF CodesNext
\* The sessions' invariant holds of every behaviour of the composition.
THEOREM SessionsHold == CodesSpec => []SessionsInv
BY SessionsInit, SessionsNext, PTL DEF CodesSpec

\* session-service.ts, identity-service.ts: single use and the end of a family survive that
\* identities are added by mail.
THEOREM SafeWithCodes == CodesSpec => [](TypeOK /\ SingleUse /\ EndedIsDead)
<1>1. SessionsInv => TypeOK /\ SingleUse /\ EndedIsDead
  BY DEF SessionsInv, IInv
<1> QED BY <1>1, SessionsHold, PTL

LEMMA PromiseInitCodes == CodesInit => Promise!Init
BY DEF CodesInit, Promise!Init

LEMMA PromiseStepCodes ==
    SessionsInv /\ [CodesNext]_allVars => [Promise!Next]_(Promise!vars)
<1> SUFFICES ASSUME SessionsInv, [CodesNext]_allVars PROVE [Promise!Next]_(Promise!vars)
  OBVIOUS
<1>0. IInv
  BY DEF SessionsInv
<1>1. ASSUME UNCHANGED <<session, issued, ended>> PROVE UNCHANGED Promise!vars
  BY <1>1 DEF Promise!vars
<1>2. ASSUME Next PROVE [Promise!Next]_(Promise!vars)
  BY <1>0, <1>2, PromiseStep
<1>3. ASSUME NEW r \in Requests, Codes(r) PROVE [Promise!Next]_(Promise!vars)
  <2>1. CASE Aside(r)
    BY <1>0, <1>2, <2>1, AsideIsNext
  <2>2. CASE UNCHANGED <<vars, linked>>
    BY <1>1, <2>2 DEF vars
  <2>3. CASE LeaveMail(r)
    BY <1>1, <2>3 DEF LeaveMail
  <2>4. CASE UNCHANGED <<session, request, issued, ended>>
    BY <1>1, <2>4
  <2> QED BY <1>3, <2>1, <2>2, <2>3, <2>4, CodesAre
<1>4. ASSUME NEW r \in Requests, Detaching(r) PROVE [Promise!Next]_(Promise!vars)
  <2>1. Aside(r)
    BY <1>4 DEF Detaching, Aside, SignIn
  <2> QED BY <1>0, <1>2, <2>1, AsideIsNext
<1>5. ASSUME NEW ch \in Challenges, Expire(ch) PROVE [Promise!Next]_(Promise!vars)
  BY <1>1, <1>5 DEF Expire, vars
<1>6. CASE UNCHANGED allVars
  BY <1>1, <1>6 DEF allVars, vars
<1> QED BY <1>2, <1>3, <1>4, <1>5, <1>6 DEF CodesNext

\* What callers see of the sessions is a behaviour of TokenFamilies, with codes as without.
THEOREM ImplementsWithCodes == CodesSpec => PromiseKept
BY PromiseInitCodes, PromiseStepCodes, SessionsHold, PTL DEF CodesSpec, PromiseKept, Promise!Spec

-----------------------------------------------------------------------------
(* The address. *)

\* At most one account has the address, as at most one identity.
OneOwner ==
    /\ elsewhere \in BOOLEAN
    /\ elsewhere => Ours = {}
    /\ \A i, j \in Ours : i = j

LEMMA OwnerInit == CodesInit => OneOwner
<1> SUFFICES ASSUME CodesInit PROVE OneOwner
  OBVIOUS
<1>1. CASE scene = "tokens"
  BY <1>1 DEF CodesInit, OneOwner, Ours
<1>2. CASE scene # "tokens"
  BY <1>2 DEF CodesInit, OneOwner, Ours
<1> QED BY <1>1, <1>2

LEMMA OwnerNext == OneOwner /\ SessionsInv /\ [CodesNext]_allVars => OneOwner'
<1> SUFFICES ASSUME OneOwner, SessionsInv, [CodesNext]_allVars PROVE OneOwner'
  OBVIOUS
<1>1. ASSUME identity' \subseteq identity, elsewhere' = elsewhere PROVE OneOwner'
  BY <1>1 DEF OneOwner, Ours
<1>2. ASSUME Next, UNCHANGED mailVars PROVE OneOwner'
  BY <1>1, <1>2, Shrinks DEF mailVars
<1>3. ASSUME NEW r \in Requests, Insert(r) PROVE OneOwner'
  <2>1. CASE UNCHANGED <<identity, elsewhere>>
    BY <1>1, <2>1
  <2>2. CASE Ours = {} /\ ~elsewhere /\ Attach(r)
    BY <2>2 DEF Attach, OneOwner, Ours
  <2> QED BY <1>3, <2>1, <2>2 DEF Insert
<1>4. ASSUME NEW r \in Requests, Codes(r), ~Insert(r) PROVE OneOwner'
  <2>1. identity' = identity /\ elsewhere' = elsewhere
    <3>1. CASE Start(r) \/ Authorise(r) \/ Deliver(r) \/ Resolve(r) \/ LookUp(r) \/ LeaveMail(r)
      BY <3>1 DEF Start, Authorise, Deliver, Resolve, LookUp, LeaveMail, vars
    <3>2. ASSUME NEW s \in Sessions, StartLink(r, s) \/ \E ch \in Challenges : CompleteLink(r, s, ch)
          PROVE  identity' = identity /\ elsewhere' = elsewhere
      BY <3>2 DEF StartLink, CompleteLink, WithSession, vars
    <3>3. ASSUME NEW ch \in Challenges, Verifies(r, ch)
          PROVE  identity' = identity /\ elsewhere' = elsewhere
      BY <3>3 DEF Verifies, vars
    <3>4. CASE SignInByCode(r) \/ CreateByCode(r)
      BY <3>4 DEF SignInByCode, CreateByCode, SignIn, Create, vars
    <3> QED BY <1>4, <3>1, <3>2, <3>3, <3>4 DEF Codes
  <2> QED BY <1>1, <2>1
<1>5. ASSUME NEW r \in Requests, Detaching(r) PROVE OneOwner'
  <2>1. Aside(r) /\ UNCHANGED mailVars
    BY <1>5 DEF Detaching, Aside, SignIn
  <2> QED BY <1>2, <2>1, AsideIsNext DEF SessionsInv
<1>6. ASSUME NEW ch \in Challenges, Expire(ch) PROVE OneOwner'
  BY <1>1, <1>6 DEF Expire, vars
<1>7. CASE UNCHANGED allVars
  BY <1>1, <1>7 DEF allVars, mailVars, vars
<1> QED BY <1>2, <1>3, <1>4, <1>5, <1>6, <1>7 DEF CodesNext

LEMMA OwnerIsOne == OneOwner => AddressHasOneOwner
<1> SUFFICES ASSUME OneOwner PROVE AddressHasOneOwner
  OBVIOUS
<1>1. CASE Ours = {}
  <2>1. Cardinality(Ours) = 0
    BY <1>1, FS_EmptySet
  <2> QED BY <2>1 DEF AddressHasOneOwner, OneOwner
<1>2. CASE Ours # {}
  <2>1. PICK i : i \in Ours
    BY <1>2
  <2>2. Ours = {i}
    BY <2>1 DEF OneOwner
  <2>3. Cardinality(Ours) = 1
    BY <2>2, FS_Singleton
  <2>4. ~elsewhere
    BY <1>2 DEF OneOwner
  <2> QED BY <2>3, <2>4 DEF AddressHasOneOwner
<1> QED BY <1>1, <1>2

\* identity-service.ts and memory-store.ts: whatever sign-ins, links and removals interleave,
\* the address has one owner.
THEOREM AddressHasOneOwnerHolds == CodesSpec => []AddressHasOneOwner
BY OwnerInit, OwnerNext, OwnerIsOne, SessionsHold, PTL DEF CodesSpec
-----------------------------------------------------------------------------
(* What a code is worth. *)

\* The requests that had a code accepted, and have not finished on it.
Holding == {"resolving", "found", "signing", "attaching", "inserting"}

MailPcs == {"idle", "delivering", "authorising"} \cup Holding

MailRecord == [pc : MailPcs, does : {"none", "start", "complete", "us", "them"},
               s : Sessions \cup {NoSession}, ch : Challenges \cup {NoChallenge}]

Row2 == [open : BOOLEAN, purpose : {"none", "sign_in", "link"}, owner : Owners, attempts : Nat]

MailTypes ==
    /\ mail \in [Requests -> MailRecord]
    /\ challenge \in [Challenges -> Row2]
    /\ gained = [ch \in Challenges |-> gained[ch]]

\* What was asked for, and what an accepted code may gain.
Worth(ch) == IF challenge[ch].purpose = "sign_in" THEN <<"session", "none">>
             ELSE <<"identity", challenge[ch].owner>>

RowFits(ch) ==
    /\ challenge[ch].purpose = "sign_in" => challenge[ch].owner = "none"
    /\ challenge[ch].purpose = "link" => challenge[ch].owner # "none"
    /\ challenge[ch].purpose = "none" => ~challenge[ch].open
    /\ challenge[ch].open \/ challenge[ch].purpose = "none" => gained[ch] = <<>>
    /\ gained[ch] = <<>> \/ gained[ch] = <<Worth(ch)>>

\* A request that holds a code: it is closed, has gained nothing, and was for this.
MailFits(m) ==
    /\ m.pc \in Holding \cup {"delivering"} => m.ch \in Challenges
    /\ m.pc \in Holding =>
           /\ ~challenge[m.ch].open /\ challenge[m.ch].purpose # "none"
           /\ gained[m.ch] = <<>>
           /\ m.does = challenge[m.ch].owner
    /\ m.pc \in {"resolving", "found", "signing"} => m.does = "none"
    /\ m.pc = "authorising" => m.does = "start" \/ (m.does = "complete" /\ m.ch \in Challenges)

OneHolder ==
    \A q, r \in Requests :
        q # r /\ mail[q].pc \in Holding /\ mail[r].pc \in Holding => mail[q].ch # mail[r].ch

CodesInv ==
    /\ MailTypes /\ OneHolder
    /\ \A ch \in Challenges : RowFits(ch)
    /\ \A r \in Requests : MailFits(mail[r])

LEMMA CodesInvInit == CodesInit => CodesInv
<1> SUFFICES ASSUME CodesInit PROVE CodesInv
  OBVIOUS
<1>1. MailTypes
  BY DEF CodesInit, MailTypes, NoMail, MailRecord, MailPcs, Unissued, Row2, Owners
<1>2. OneHolder /\ \A r \in Requests : MailFits(mail[r])
  BY DEF CodesInit, OneHolder, MailFits, NoMail, Holding
<1>3. ASSUME NEW ch \in Challenges PROVE RowFits(ch)
  BY DEF CodesInit, RowFits, Unissued
<1> QED BY <1>1, <1>2, <1>3 DEF CodesInv

\* A row after a step that issues no code.
RowKept(ch) ==
    /\ challenge'[ch].purpose = challenge[ch].purpose
    /\ challenge'[ch].owner = challenge[ch].owner
    /\ challenge'[ch].open => challenge[ch].open

\* A row that a step issues.
RowIssued(ch) ==
    /\ challenge[ch].purpose = "none"
    /\ challenge'[ch].purpose \in {"sign_in", "link"}
    /\ challenge'[ch].owner = "none" <=> challenge'[ch].purpose = "sign_in"

LEMMA MailStep ==
    ASSUME CodesInv, NEW r \in Requests, NEW m \in MailRecord,
           mail' = [mail EXCEPT ![r] = m], gained' = gained,
           challenge' \in [Challenges -> Row2],
           \A ch \in Challenges : RowKept(ch) \/ RowIssued(ch),
           MailFits(m)',
           m.pc \in Holding => \A q \in Requests \ {r} : mail[q].pc \in Holding => mail[q].ch # m.ch
    PROVE  CodesInv'
<1>1. /\ mail \in [Requests -> MailRecord]
      /\ mail'[r] = m /\ \A q \in Requests \ {r} : mail'[q] = mail[q]
  BY DEF CodesInv, MailTypes
<1>2. MailTypes'
  BY DEF CodesInv, MailTypes
<1>3. OneHolder'
  BY <1>1 DEF CodesInv, OneHolder
<1>4. ASSUME NEW ch \in Challenges PROVE RowFits(ch)'
  BY DEF CodesInv, RowFits, RowKept, RowIssued, Worth
<1>5. ASSUME NEW q \in Requests PROVE MailFits(mail[q])'
  <2>1. CASE q = r
    BY <1>1, <2>1 DEF MailFits
  <2>2. CASE q # r
    <3>1. mail'[q] = mail[q] /\ MailFits(mail[q])
      BY <1>1, <2>2 DEF CodesInv
    <3>2. mail[q].pc \in Holding => RowKept(mail[q].ch)
      BY <3>1 DEF MailFits, RowIssued
    <3> QED BY <3>1, <3>2 DEF MailFits, RowKept
  <2> QED BY <2>1, <2>2
<1> QED BY <1>2, <1>3, <1>4, <1>5 DEF CodesInv

\* The holder of a code gains what it is worth, and is done.
LEMMA GainStep ==
    ASSUME CodesInv, NEW r \in Requests, NEW ch \in Challenges, NEW x, mail[r].pc \in Holding,
           ch = mail[r].ch, x = Worth(ch), Done(r), Gain(ch, x), UNCHANGED challenge
    PROVE  CodesInv'
<1>1. /\ mail \in [Requests -> MailRecord] /\ NoMail \in MailRecord /\ NoMail.pc = "idle"
      /\ NoMail \in MailRecord
  BY DEF CodesInv, MailTypes, NoMail, MailRecord, MailPcs
<1>2. mail'[r] = NoMail /\ \A q \in Requests \ {r} : mail'[q] = mail[q]
  BY <1>1 DEF Done
<1>3. gained[ch] = <<>> /\ ~challenge[ch].open /\ challenge[ch].purpose # "none"
  BY DEF CodesInv, MailFits
<1>4. gained'[ch] = <<x>> /\ \A c \in Challenges \ {ch} : gained'[c] = gained[c]
  <2>1. Append(<<>>, x) = <<x>>
    OBVIOUS
  <2> QED BY <1>3, <2>1 DEF Gain, CodesInv, MailTypes
<1>5. MailTypes'
  BY <1>1 DEF CodesInv, MailTypes, Done, Gain
<1>6. OneHolder'
  BY <1>1, <1>2 DEF CodesInv, OneHolder, Holding
<1>7. ASSUME NEW c \in Challenges PROVE RowFits(c)'
  BY <1>3, <1>4 DEF CodesInv, RowFits, Worth
<1>8. ASSUME NEW q \in Requests PROVE MailFits(mail[q])'
  <2>1. CASE q = r
    BY <1>1, <1>2, <2>1 DEF MailFits, Holding, NoMail
  <2>2. CASE q # r
    <3>1. mail'[q] = mail[q] /\ MailFits(mail[q])
      BY <1>2, <2>2 DEF CodesInv
    <3>2. mail[q].pc \in Holding => mail[q].ch # ch
      BY <2>2 DEF CodesInv, OneHolder
    <3> QED BY <1>4, <3>1, <3>2 DEF MailFits
  <2> QED BY <2>1, <2>2
<1> QED BY <1>5, <1>6, <1>7, <1>8 DEF CodesInv

\* A step that leaves the rows, and one that closes some.
LEMMA RowsKept ==
    ASSUME CodesInv, challenge' \in [Challenges -> Row2],
           \A ch \in Challenges : RowKept(ch),
           NEW r \in Requests, NEW m \in MailRecord, mail' = [mail EXCEPT ![r] = m],
           gained' = gained, MailFits(m)',
           m.pc \in Holding => \A q \in Requests \ {r} : mail[q].pc \in Holding => mail[q].ch # m.ch
    PROVE  CodesInv'
BY MailStep

\* A request is done with codes.
LEMMA DoneStep ==
    ASSUME CodesInv, NEW r \in Requests, Done(r), gained' = gained,
           challenge' \in [Challenges -> Row2], \A ch \in Challenges : RowKept(ch)
    PROVE  CodesInv'
<1>1. NoMail \in MailRecord
  BY DEF NoMail, MailRecord, MailPcs
<1>2. MailFits(NoMail)' /\ NoMail.pc \notin Holding
  BY DEF MailFits, NoMail, Holding
<1> QED BY <1>1, <1>2, RowsKept DEF Done

\* Nothing about codes changes, or only rows are closed.
LEMMA ChallengeStep ==
    ASSUME CodesInv, UNCHANGED <<mail, gained>>,
           challenge' \in [Challenges -> Row2], \A ch \in Challenges : RowKept(ch)
    PROVE  CodesInv'
<1>1. MailTypes' /\ OneHolder'
  BY DEF CodesInv, MailTypes, OneHolder
<1>2. ASSUME NEW ch \in Challenges PROVE RowFits(ch)'
  BY DEF CodesInv, RowFits, RowKept, Worth
<1>3. ASSUME NEW q \in Requests PROVE MailFits(mail[q])'
  BY DEF CodesInv, MailFits, RowKept
<1> QED BY <1>1, <1>2, <1>3 DEF CodesInv

LEMMA Same ==
    ASSUME CodesInv, challenge' = challenge
    PROVE  challenge' \in [Challenges -> Row2] /\ \A ch \in Challenges : RowKept(ch)
BY DEF CodesInv, MailTypes, RowKept

\* One row is closed.
LEMMA OneClosed ==
    ASSUME CodesInv, NEW ch \in Challenges, challenge' = [challenge EXCEPT ![ch].open = FALSE]
    PROVE  challenge' \in [Challenges -> Row2] /\ \A c \in Challenges : RowKept(c)
<1>1. challenge \in [Challenges -> Row2]
  BY DEF CodesInv, MailTypes
<1>2. [challenge[ch] EXCEPT !.open = FALSE] \in Row2
  BY <1>1 DEF Row2
<1> QED BY <1>1, <1>2 DEF RowKept, Row2

\* An attempt does not match.
LEMMA Counts ==
    ASSUME CodesInv, NEW ch \in Challenges, Attempt(ch, FALSE)
    PROVE  challenge' \in [Challenges -> Row2] /\ \A c \in Challenges : RowKept(c)
<1>1. challenge \in [Challenges -> Row2]
  BY DEF CodesInv, MailTypes
<1>2. PICK row : row = challenge[ch]
  OBVIOUS
<1>3. PICK new : new = Counted(row)
  OBVIOUS
<1>4. row \in Row2 /\ challenge' = [challenge EXCEPT ![ch] = new]
  BY <1>1, <1>2, <1>3 DEF Attempt
<1>5. new \in Row2 /\ new.purpose = row.purpose /\ new.owner = row.owner /\ (new.open => row.open)
  <2>1. new = [row EXCEPT !.open = FALSE] \/ new = [row EXCEPT !.attempts = row.attempts + 1]
    BY <1>3 DEF Counted
  <2>2. CASE new = [row EXCEPT !.open = FALSE]
    BY <1>4, <2>2 DEF Row2
  <2>3. CASE new = [row EXCEPT !.attempts = row.attempts + 1]
    BY <1>4, <2>3 DEF Row2
  <2> QED BY <2>1, <2>2, <2>3
<1>6. challenge' \in [Challenges -> Row2]
  BY <1>1, <1>4, <1>5
<1>7. challenge'[ch] = new /\ \A c \in Challenges \ {ch} : challenge'[c] = challenge[c]
  BY <1>1, <1>4
<1> QED BY <1>2, <1>5, <1>6, <1>7 DEF RowKept

\* What a code is issued for, and what it then is redeemed for.
Asks(purpose, owner) ==
    /\ purpose \in {"sign_in", "link"} /\ owner \in Owners
    /\ owner = "none" <=> purpose = "sign_in"

LEMMA IssueStep ==
    ASSUME CodesInv, NEW r \in Requests, NEW purpose, NEW owner, Asks(purpose, owner),
           Issue(r, purpose, owner), gained' = gained
    PROVE  CodesInv'
<1>1. challenge \in [Challenges -> Row2]
  BY DEF CodesInv, MailTypes
<1>2. Closed \in [Challenges -> Row2]
  BY <1>1 DEF Closed, Row2
<1>3. ASSUME NEW c \in Challenges
      PROVE  /\ Closed[c].purpose = challenge[c].purpose /\ Closed[c].owner = challenge[c].owner
             /\ ~Closed[c].open
  BY <1>1 DEF Closed, Row2
<1>4. CASE challenge' = Closed /\ Done(r)
  BY <1>2, <1>3, <1>4, DoneStep DEF RowKept
<1>5. ASSUME NEW ch \in Challenges, challenge[ch] = Unissued,
             challenge' = [Closed EXCEPT ![ch] =
                 [open |-> TRUE, purpose |-> purpose, owner |-> owner, attempts |-> 0]],
             mail' = [mail EXCEPT ![r] = [NoMail EXCEPT !.pc = "delivering", !.ch = ch]]
      PROVE  CodesInv'
  <2>1. PICK m : m = [NoMail EXCEPT !.pc = "delivering", !.ch = ch]
    OBVIOUS
  <2>2. m \in MailRecord /\ m.pc = "delivering" /\ m.ch = ch
    BY <2>1 DEF NoMail, MailRecord, MailPcs
  <2>3. PICK row : row = [open |-> TRUE, purpose |-> purpose, owner |-> owner, attempts |-> 0]
    OBVIOUS
  <2>4. row \in Row2 /\ row.purpose = purpose /\ row.owner = owner
    BY <2>3 DEF Row2, Asks
  <2>5. challenge' = [Closed EXCEPT ![ch] = row]
    BY <1>5, <2>3
  <2>6. challenge' \in [Challenges -> Row2]
    BY <1>2, <2>4, <2>5
  <2>7. challenge'[ch] = row /\ \A c \in Challenges \ {ch} : challenge'[c] = Closed[c]
    BY <1>2, <2>5
  <2>8. RowIssued(ch)
    BY <1>5, <2>4, <2>7 DEF RowIssued, Unissued, Asks
  <2>9. \A c \in Challenges : RowKept(c) \/ RowIssued(c)
    BY <1>3, <2>7, <2>8 DEF RowKept
  <2>10. MailFits(m)' /\ m.pc \notin Holding
    BY <2>2 DEF MailFits, Holding
  <2>11. mail' = [mail EXCEPT ![r] = m]
    BY <1>5, <2>1
  <2> QED BY <2>2, <2>6, <2>9, <2>10, <2>11, MailStep
<1> QED BY <1>4, <1>5 DEF Issue

LEMMA RedeemStep ==
    ASSUME CodesInv, NEW r \in Requests, NEW ch \in Challenges, NEW purpose, NEW owner, NEW next,
           Asks(purpose, owner), next = (IF owner = "none" THEN "resolving" ELSE "attaching"),
           Redeem(r, ch, purpose, owner, next), gained' = gained
    PROVE  CodesInv'
<1>1. CASE ~challenge[ch].open /\ Done(r) /\ UNCHANGED challenge
  BY <1>1, Same, DoneStep
<1>2. CASE challenge' = [challenge EXCEPT ![ch].open = FALSE] /\ Done(r)
  BY <1>2, OneClosed, DoneStep
<1>3. CASE Attempt(ch, FALSE) /\ Done(r)
  BY <1>3, Counts, DoneStep
<1>4. CASE challenge[ch].open /\ Attempt(ch, TRUE)
           /\ IF challenge[ch].purpose = purpose /\ challenge[ch].owner = owner
              THEN mail' = [mail EXCEPT ![r] =
                       [pc |-> next, does |-> owner, s |-> NoSession, ch |-> ch]]
              ELSE Done(r)
  <2>1. challenge' = [challenge EXCEPT ![ch].open = FALSE]
    BY <1>4 DEF Attempt
  <2>2. CASE Done(r)
    BY <2>1, <2>2, OneClosed, DoneStep
  <2>3. CASE /\ challenge[ch].purpose = purpose /\ challenge[ch].owner = owner
             /\ mail' = [mail EXCEPT ![r] =
                    [pc |-> next, does |-> owner, s |-> NoSession, ch |-> ch]]
    <3>1. PICK m : m = [pc |-> next, does |-> owner, s |-> NoSession, ch |-> ch]
      OBVIOUS
    <3>2. m \in MailRecord /\ m.pc = next /\ m.does = owner /\ m.ch = ch /\ next \in Holding
      BY <3>1 DEF MailRecord, MailPcs, Asks, Owners, Holding
    <3>3. challenge \in [Challenges -> Row2]
      BY DEF CodesInv, MailTypes
    <3>4. /\ ~challenge'[ch].open /\ challenge'[ch].purpose = purpose
          /\ challenge'[ch].owner = owner
      BY <2>1, <2>3, <3>3 DEF Row2
    <3>5. gained[ch] = <<>>
      BY <1>4 DEF CodesInv, RowFits
    <3>6. MailFits(m)'
      BY <3>2, <3>4, <3>5 DEF MailFits, Asks
    <3>7. \A q \in Requests \ {r} : mail[q].pc \in Holding => mail[q].ch # m.ch
      BY <1>4, <3>2 DEF CodesInv, MailFits
    <3>8. mail' = [mail EXCEPT ![r] = m]
      BY <2>3, <3>1
    <3> QED BY <2>1, <3>2, <3>6, <3>7, <3>8, OneClosed, RowsKept
  <2> QED BY <1>4, <2>2, <2>3
<1> QED BY <1>1, <1>2, <1>3, <1>4 DEF Redeem

\* A request that holds a code goes on to its next step.
LEMMA ProceedStep ==
    ASSUME CodesInv, NEW r \in Requests, NEW pc \in Holding, mail[r].pc \in Holding,
           pc \in {"found", "signing"} => mail[r].does = "none", pc # "resolving",
           Proceed(r, pc), UNCHANGED <<challenge, gained>>
    PROVE  CodesInv'
<1>1. mail \in [Requests -> MailRecord]
  BY DEF CodesInv, MailTypes
<1>2. PICK m : m = [mail[r] EXCEPT !.pc = pc]
  OBVIOUS
<1>3. m \in MailRecord /\ m.pc = pc /\ m.does = mail[r].does /\ m.ch = mail[r].ch
  BY <1>1, <1>2 DEF MailRecord, MailPcs
<1>4. MailFits(m)'
  BY <1>3 DEF CodesInv, MailFits, Holding
<1>5. \A q \in Requests \ {r} : mail[q].pc \in Holding => mail[q].ch # m.ch
  BY <1>3 DEF CodesInv, OneHolder
<1>6. mail' = [mail EXCEPT ![r] = m]
  BY <1>2 DEF Proceed
<1> QED BY <1>3, <1>4, <1>5, <1>6, Same, RowsKept

\* What the holder of a code does with it is what the code is worth.
LEMMA HolderIsWorth ==
    ASSUME CodesInv, NEW r \in Requests, mail[r].pc \in Holding
    PROVE  /\ mail[r].ch \in Challenges
           /\ Worth(mail[r].ch) = <<IF mail[r].does = "none" THEN "session" ELSE "identity",
                                    mail[r].does>>
<1>1. challenge \in [Challenges -> Row2] /\ MailFits(mail[r])
  BY DEF CodesInv, MailTypes
<1>2. PICK ch : ch = mail[r].ch
  OBVIOUS
<1>3. /\ ch \in Challenges /\ challenge[ch].purpose # "none"
      /\ mail[r].does = challenge[ch].owner
  BY <1>1, <1>2 DEF MailFits
<1>4. RowFits(ch) /\ challenge[ch].purpose \in {"sign_in", "link"}
  BY <1>1, <1>3 DEF CodesInv, Row2
<1> QED BY <1>2, <1>3, <1>4 DEF RowFits, Worth

LEMMA AuthorisingStep ==
    ASSUME CodesInv, NEW r \in Requests, NEW s \in Sessions, NEW does \in {"start", "complete"},
           NEW ch \in Challenges \cup {NoChallenge}, does = "complete" => ch \in Challenges,
           WithSession(r, s, does, ch)
    PROVE  CodesInv'
<1>1. PICK m : m = [pc |-> "authorising", does |-> does, s |-> s, ch |-> ch]
  OBVIOUS
<1>2. m \in MailRecord /\ m.pc = "authorising" /\ m.does = does /\ m.ch = ch
  BY <1>1 DEF MailRecord, MailPcs
<1>3. MailFits(m)' /\ m.pc \notin Holding
  BY <1>2 DEF MailFits, Holding
<1>4. mail' = [mail EXCEPT ![r] = m] /\ challenge' = challenge /\ gained' = gained
  BY <1>1 DEF WithSession
<1> QED BY <1>2, <1>3, <1>4, Same, RowsKept

LEMMA CodesStep == ASSUME CodesInv, NEW r \in Requests, Codes(r) PROVE CodesInv'
<1>0. /\ mail \in [Requests -> MailRecord] /\ MailFits(mail[r])
      /\ Asks("sign_in", "none") /\ Asks("link", "us") /\ Asks("link", "them")
  BY DEF CodesInv, MailTypes, Asks, Owners
<1>1. CASE Start(r)
  BY <1>0, <1>1, IssueStep DEF Start
<1>2. ASSUME NEW s \in Sessions, StartLink(r, s) PROVE CodesInv'
  BY <1>2, AuthorisingStep DEF StartLink
<1>3. ASSUME NEW s \in Sessions, NEW ch \in Challenges, CompleteLink(r, s, ch) PROVE CodesInv'
  BY <1>3, AuthorisingStep DEF CompleteLink
<1>4. CASE Authorise(r)
  <2>1. gained' = gained
    BY <1>4 DEF Authorise
  <2>2. CASE Done(r) /\ UNCHANGED challenge
    BY <2>1, <2>2, Same, DoneStep
  <2>3. CASE Issue(r, "link", "us")
    BY <1>0, <2>1, <2>3, IssueStep
  <2>4. CASE mail[r].does = "complete" /\ Redeem(r, mail[r].ch, "link", "us", "attaching")
    <3>1. mail[r].ch \in Challenges
      BY <1>0, <1>4, <2>4 DEF Authorise, Doing, MailFits
    <3> QED BY <1>0, <2>1, <2>4, <3>1, RedeemStep
  <2>5. CASE mail[r].does \notin {"start", "complete"}
    BY <1>0, <1>4, <2>5 DEF MailFits, Authorise, Doing
  <2> QED BY <1>4, <2>2, <2>3, <2>4, <2>5 DEF Authorise
<1>5. CASE Deliver(r)
  <2>1. mail[r].ch \in Challenges
    BY <1>0, <1>5 DEF Deliver, Doing, MailFits
  <2>2. CASE challenge' = challenge
    BY <1>5, <2>2, Same, DoneStep DEF Deliver
  <2>3. CASE challenge' = [challenge EXCEPT ![mail[r].ch].open = FALSE]
    BY <1>5, <2>1, <2>3, OneClosed, DoneStep DEF Deliver
  <2> QED BY <1>5, <2>2, <2>3 DEF Deliver
<1>6. ASSUME NEW ch \in Challenges, Verifies(r, ch) PROVE CodesInv'
  BY <1>0, <1>6, RedeemStep DEF Verifies
<1>7. ASSUME mail[r].pc \in Holding, Done(r), UNCHANGED challenge,
             \/ UNCHANGED gained
             \/ Gain(mail[r].ch, <<IF mail[r].does = "none" THEN "session" ELSE "identity",
                                   mail[r].does>>)
      PROVE  CodesInv'
  <2>1. CASE UNCHANGED gained
    BY <1>7, <2>1, Same, DoneStep
  <2>2. CASE Gain(mail[r].ch, <<IF mail[r].does = "none" THEN "session" ELSE "identity",
                                mail[r].does>>)
    BY <1>7, <2>2, HolderIsWorth, GainStep
  <2> QED BY <1>7, <2>1, <2>2
<1>8. CASE Resolve(r)
  <2>1. mail[r].pc = "resolving" /\ mail[r].pc \in Holding /\ mail[r].does = "none"
    BY <1>0, <1>8 DEF Resolve, Doing, MailFits, Holding
  <2>2. CASE Done(r) /\ Gain(mail[r].ch, <<"session", "none">>)
    BY <1>7, <1>8, <2>1, <2>2 DEF Resolve
  <2>3. CASE (Proceed(r, "found") \/ Proceed(r, "attaching")) /\ UNCHANGED gained
    <3>1. challenge' = challenge /\ "found" \in Holding /\ "attaching" \in Holding
      BY <1>8 DEF Resolve, Holding
    <3> QED BY <2>1, <2>3, <3>1, ProceedStep
  <2> QED BY <1>8, <2>2, <2>3 DEF Resolve
<1>9. CASE SignInByCode(r)
  <2>1. /\ mail[r].pc = "found" /\ mail[r].pc \in Holding /\ mail[r].does = "none"
        /\ "signing" \in Holding
    BY <1>0, <1>9 DEF SignInByCode, Doing, MailFits, Holding
  <2>2. UNCHANGED <<challenge, gained>> /\ (Done(r) \/ Proceed(r, "signing"))
    BY <1>9 DEF SignInByCode
  <2> QED BY <1>7, <2>1, <2>2, ProceedStep
<1>10. CASE CreateByCode(r)
  <2>1. mail[r].pc = "signing" /\ mail[r].pc \in Holding /\ mail[r].does = "none"
    BY <1>0, <1>10 DEF CreateByCode, Doing, MailFits, Holding
  <2>2. /\ Done(r) /\ UNCHANGED challenge
        /\ UNCHANGED gained \/ Gain(mail[r].ch, <<"session", "none">>)
    BY <1>10 DEF CreateByCode
  <2> QED BY <1>7, <2>1, <2>2
<1>11. CASE LookUp(r)
  <2>1. mail[r].pc \in Holding /\ UNCHANGED challenge /\ "inserting" \in Holding
    BY <1>11 DEF LookUp, Doing, Holding
  <2>2. CASE Proceed(r, "inserting") /\ UNCHANGED gained
    BY <2>1, <2>2, ProceedStep
  <2>3. CASE Done(r) /\ UNCHANGED gained
    BY <1>7, <2>1, <2>3
  <2>4. CASE mail[r].does \in {"us", "them"} /\ Done(r)
             /\ Gain(mail[r].ch, <<"identity", mail[r].does>>)
    BY <1>7, <2>1, <2>4
  <2> QED BY <1>11, <2>2, <2>3, <2>4 DEF LookUp
<1>12. CASE Insert(r)
  <2>1. mail[r].pc \in Holding /\ UNCHANGED challenge /\ Done(r)
    BY <1>12 DEF Insert, Doing, Holding
  <2>2. \/ UNCHANGED gained
        \/ Gain(mail[r].ch, <<IF mail[r].does = "none" THEN "session" ELSE "identity",
                              mail[r].does>>)
    BY <1>12 DEF Insert, Attach
  <2> QED BY <1>7, <2>1, <2>2
<1>13. CASE LeaveMail(r)
  BY <1>13, Same, DoneStep DEF LeaveMail
<1> QED BY <1>1, <1>2, <1>3, <1>4, <1>5, <1>6, <1>8, <1>9, <1>10, <1>11, <1>12, <1>13 DEF Codes

LEMMA CodesInvNext == CodesInv /\ [CodesNext]_allVars => CodesInv'
<1> SUFFICES ASSUME CodesInv, [CodesNext]_allVars PROVE CodesInv'
  OBVIOUS
<1>1. ASSUME UNCHANGED mailVars PROVE CodesInv'
  <2>1. UNCHANGED <<mail, challenge, gained>>
    BY <1>1 DEF mailVars
  <2> QED BY <2>1, Same, ChallengeStep
<1>2. ASSUME NEW r \in Requests, Codes(r) PROVE CodesInv'
  BY <1>2, CodesStep
<1>3. ASSUME NEW r \in Requests, Detaching(r) PROVE CodesInv'
  BY <1>1, <1>3 DEF Detaching
<1>4. ASSUME NEW ch \in Challenges, Expire(ch) PROVE CodesInv'
  BY <1>4, OneClosed, ChallengeStep DEF Expire
<1>5. CASE UNCHANGED allVars
  BY <1>1, <1>5 DEF allVars
<1> QED BY <1>1, <1>2, <1>3, <1>4, <1>5 DEF CodesNext

LEMMA WorthOne == CodesInv => CodeIsWorthOne
<1> SUFFICES ASSUME CodesInv, NEW ch \in Challenges
             PROVE  /\ Len(gained[ch]) <= 1
                    /\ \A n \in DOMAIN gained[ch] : gained[ch][n] = Worth(ch)
  BY DEF CodeIsWorthOne, Worth
<1>1. CASE gained[ch] = <<>>
  <2>1. Len(<<>>) = 0 /\ DOMAIN <<>> = {}
    OBVIOUS
  <2> QED BY <1>1, <2>1
<1>2. ASSUME NEW x, x = Worth(ch), gained[ch] = <<x>>
      PROVE  Len(gained[ch]) <= 1 /\ \A n \in DOMAIN gained[ch] : gained[ch][n] = Worth(ch)
  <2>1. Len(<<x>>) = 1 /\ DOMAIN <<x>> = {1} /\ <<x>>[1] = x
    OBVIOUS
  <2> QED BY <1>2, <2>1
<1> QED BY <1>1, <1>2 DEF CodesInv, RowFits

\* otp-challenge-store.ts and email-auth-service.ts: however attempts and completions
\* interleave, a code is worth one thing, and only what was asked for.
THEOREM CodeIsWorthOneHolds == CodesSpec => []CodeIsWorthOne
BY CodesInvInit, CodesInvNext, WorthOne, PTL DEF CodesSpec
=============================================================================
