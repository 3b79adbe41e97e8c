------------------------ MODULE SessionServerProofs ------------------------
(***************************************************************************)
(* Proofs about SessionServer, for every set of sessions, requests and     *)
(* identities: the types, single use, the end of a family and that the     *)
(* service implements TokenFamilies.                                       *)
(***************************************************************************)
EXTENDS SessionServer, TLAPS

-----------------------------------------------------------------------------
(* The inductive invariant. *)

\* The table: a session names a family that is there and shares its identity,
\* a successor belongs to a session that was handed out and then spent, and what
\* the histories name is in the table.
Families ==
    \A s, f \in Sessions : session[s].family = f =>
        session[f].family = f /\ session[s].via = session[f].via

Successors ==
    \A s, p \in Sessions : session[s].from = p =>
        Exists(s) /\ p \in issued /\ session[p].rotated /\ session[p].family = session[s].family

Recorded == \A s \in issued \cup ended : Exists(s)

\* A request that goes on from a token was given one that had been handed out.
Presented == {"verifying", "loggingOut", "looking", "listing", "unlinking", "deleting"}
                 \cup Refreshing

\* The requests that won the claim of their token, and have not answered.
Claiming == {"minting", "rereading"}

\* What a request remembers still holds of the table.
Fits(rec) ==
    /\ rec.pc \in Presented => rec.s \in issued
    /\ rec.pc \in Claiming => session[rec.s].rotated
    /\ rec.pc = "minting" => \A s \in Sessions : session[s].from # rec.s
    /\ rec.pc = "rereading" => /\ rec.new \in Sessions \ issued
                               /\ session[rec.new].from = rec.s
                               /\ session[rec.new].revoked => session[rec.s].revoked
    /\ rec.pc \in {"claiming", "minting"} =>
           \/ rec.via = session[rec.s].via
           \/ rec.via \notin identity \cup {NoIdentity}

RequestsFit == \A r \in Requests : Fits(request[r])

\* A token has one winner.
OneWinner ==
    \A q, r \in Requests :
        q # r /\ request[q].pc \in Claiming /\ request[r].pc \in Claiming
            => request[q].s # request[r].s

IInv ==
    /\ TypeOK
    /\ Families /\ Successors /\ Recorded
    /\ RequestsFit /\ OneWinner
    /\ SingleUse /\ EndedIsDead

LEMMA Distinct == NoSession \notin Sessions /\ NoIdentity \notin Identities
BY ServerAssumption

LEMMA InvInit == Init => IInv
<1> SUFFICES ASSUME Init PROVE IInv
  OBVIOUS
<1>1. TypeOK
  BY DEF Init, TypeOK, NoRow, SessionRow, Idle, RequestRecord, Pcs
<1>2. \A s \in Sessions : ~Exists(s) /\ session[s].from = NoSession
  BY DEF Init, NoRow, Exists
<1>3. Families /\ Successors /\ Recorded /\ SingleUse /\ EndedIsDead
  BY <1>2, Distinct DEF Init, Exists, Families, Successors, Recorded, SingleUse, EndedIsDead
<1>4. RequestsFit /\ OneWinner
  BY DEF Init, RequestsFit, OneWinner, Fits, Idle, Presented, Refreshing, Claiming
<1> QED BY <1>1, <1>3, <1>4 DEF IInv

-----------------------------------------------------------------------------
(* Steps that change nothing but one request. *)

\* A request's record takes a new value that fits the table as it is, and does not claim a
\* token that the request did not hold: the invariant is kept.
LEMMA RequestStep ==
    ASSUME IInv, NEW r \in Requests, NEW rec \in RequestRecord,
           request' = [request EXCEPT ![r] = rec],
           UNCHANGED <<session, identity, issued, ended>>,
           Fits(rec),
           rec.pc \in Claiming => request[r].pc \in Claiming /\ rec.s = request[r].s
    PROVE  IInv'
<1>1. TypeOK'
  BY DEF IInv, TypeOK
<1>2. Families' /\ Successors' /\ Recorded' /\ SingleUse' /\ EndedIsDead'
  BY DEF IInv, Families, Successors, Recorded, SingleUse, EndedIsDead, Exists
<1>3. request'[r] = rec /\ \A q \in Requests \ {r} : request'[q] = request[q]
  BY DEF IInv, TypeOK
<1>4. ASSUME NEW q \in Requests PROVE Fits(request[q])' 
  <2>1. Fits(request'[q])
    BY <1>3 DEF IInv, RequestsFit
  <2> QED BY <2>1 DEF Fits
<1>5. OneWinner'
  BY <1>3 DEF IInv, OneWinner
<1> QED BY <1>1, <1>2, <1>4, <1>5 DEF IInv, RequestsFit

\* The values an action gives to a request's record.
LEMMA RecordFields ==
    ASSUME NEW rec \in RequestRecord
    PROVE  /\ Idle \in RequestRecord
           /\ \A pc \in Pcs :
                /\ [rec EXCEPT !.pc = pc] \in RequestRecord
                /\ [rec EXCEPT !.pc = pc].pc = pc /\ [rec EXCEPT !.pc = pc].s = rec.s
                /\ [rec EXCEPT !.pc = pc].via = rec.via /\ [rec EXCEPT !.pc = pc].new = rec.new
           /\ \A a \in Answers : /\ [Idle EXCEPT !.pc = a] \in RequestRecord
                                 /\ [Idle EXCEPT !.pc = a].pc = a
           /\ \A s \in Sessions : /\ [Idle EXCEPT !.pc = "ok", !.new = s] \in RequestRecord
                                  /\ [Idle EXCEPT !.pc = "ok", !.new = s].pc = "ok"
BY DEF RequestRecord, Idle, Pcs, Answers, Refreshing

LEMMA Records == ASSUME TypeOK, NEW r \in Requests PROVE request[r] \in RequestRecord
BY DEF TypeOK

\* A record that has nothing to say of the table.
LEMMA IdleFits ==
    ASSUME NEW rec, rec.pc \in Answers \cup {"idle", "signing"}
    PROVE  Fits(rec) /\ Fits(rec)' /\ rec.pc \notin Claiming
BY DEF Fits, Presented, Refreshing, Claiming, Answers

\* A request goes on, or answers, without touching the table.
LEMMA GoStep ==
    ASSUME IInv, NEW r \in Requests, NEW pc \in Pcs \ (Claiming \cup {"claiming"}), Go(r, pc),
           UNCHANGED <<session, identity, issued, ended>>,
           request[r].pc \in Presented
    PROVE  IInv'
<1> DEFINE rec == [request[r] EXCEPT !.pc = pc]
<1>1. request[r] \in RequestRecord
  BY Records DEF IInv
<1>2. rec \in RequestRecord /\ rec.pc = pc /\ rec.s = request[r].s
  BY <1>1, RecordFields
<1>3. request' = [request EXCEPT ![r] = rec]
  BY DEF Go
<1>4. Fits(request[r])
  BY DEF IInv, RequestsFit
<1> HIDE DEF rec
<1>5. Fits(rec)
  BY <1>2, <1>4 DEF Fits, Claiming
<1> QED BY <1>2, <1>3, <1>5, RequestStep DEF Claiming

LEMMA AnswerStep ==
    ASSUME IInv, NEW r \in Requests, NEW a \in Answers, Answer(r, a),
           UNCHANGED <<session, identity, issued, ended>>
    PROVE  IInv'
<1> DEFINE rec == [Idle EXCEPT !.pc = a]
<1>1. rec \in RequestRecord /\ rec.pc = a
  BY RecordFields, Records DEF IInv
<1>2. request' = [request EXCEPT ![r] = rec]
  BY DEF Answer
<1> HIDE DEF rec
<1>3. Fits(rec) /\ rec.pc \notin Claiming
  BY <1>1, IdleFits
<1> QED BY <1>1, <1>2, <1>3, RequestStep

\* A request arrives with a token that was handed out.
LEMMA ArriveStep ==
    ASSUME IInv, NEW r \in Requests, NEW rec \in RequestRecord, Begin(r, rec),
           UNCHANGED <<session, identity, issued, ended>>,
           \/ rec.pc = "signing"
           \/ rec.pc \in {"finding", "verifying"} /\ rec.s \in issued
    PROVE  IInv'
<1>1. request' = [request EXCEPT ![r] = rec]
  BY DEF Begin
<1>2. Fits(rec) /\ rec.pc \notin Claiming
  BY DEF Fits, Claiming, Presented, Refreshing
<1> QED BY <1>1, <1>2, RequestStep

-----------------------------------------------------------------------------
(* The actions that read. *)

LEMMA ArriveInv == ASSUME IInv, NEW r \in Requests, Arrive(r) PROVE IInv'
<1>0. request[r] \in RequestRecord
  BY Records DEF IInv
<1>1. ASSUME NEW s \in Sessions, Refresh(r, s) PROVE IInv'
  <2> DEFINE rec == [Idle EXCEPT !.pc = "finding", !.s = s]
  <2>1. rec \in RequestRecord /\ rec.pc = "finding" /\ rec.s = s
    BY DEF RequestRecord, Idle, Pcs, Refreshing
  <2> HIDE DEF rec
  <2> QED BY <1>1, <2>1, ArriveStep DEF Refresh, rec
<1>2. ASSUME NEW s \in Sessions, NEW op \in {"logout", "detach"},
             NEW i \in Identities \cup {NoIdentity}, Present(r, s, op, i)
      PROVE  IInv'
  <2> DEFINE rec == [Idle EXCEPT !.pc = "verifying", !.op = op, !.s = s, !.via = i]
  <2>1. rec \in RequestRecord /\ rec.pc = "verifying" /\ rec.s = s
    BY DEF RequestRecord, Idle, Pcs, Refreshing
  <2> HIDE DEF rec
  <2> QED BY <1>2, <2>1, ArriveStep DEF Present, rec
<1>3. ASSUME NEW i \in Identities, SignIn(r, i) PROVE IInv'
  <2> DEFINE rec == [Idle EXCEPT !.pc = "signing", !.via = i]
  <2>1. rec \in RequestRecord /\ rec.pc = "signing"
    BY DEF RequestRecord, Idle, Pcs, Refreshing
  <2> HIDE DEF rec
  <2> QED BY <1>3, <2>1, ArriveStep DEF SignIn, rec
<1> QED BY <1>1, <1>2, <1>3 DEF Arrive, Logout, Detach

LEMMA FindInv == ASSUME IInv, NEW r \in Requests, Find(r) PROVE IInv'
<1> DEFINE row == session[request[r].s]
           rec == [request[r] EXCEPT !.pc = "claiming", !.via = row.via]
<1>0. At(r, "finding") /\ UNCHANGED <<session, identity, issued, ended>>
  BY DEF Find
<1>1. CASE row.rotated /\ Go(r, "reusing")
  BY <1>0, <1>1, GoStep DEF At, Presented, Pcs, Claiming, Refreshing
<1>2. CASE Answer(r, "refused")
  BY <1>0, <1>2, AnswerStep DEF Answers
<1>3. CASE /\ ~row.rotated /\ ~row.revoked
           /\ request' = [request EXCEPT ![r].pc = "claiming", ![r].via = row.via]
  <2>1. request[r] \in RequestRecord /\ request[r].s \in issued /\ issued \subseteq Sessions
    BY <1>0, Records DEF IInv, TypeOK, RequestsFit, Fits, At, Presented, Refreshing
  <2>2. row.via \in Identities \cup {NoIdentity}
    BY <2>1 DEF IInv, TypeOK, SessionRow
  <2>3. /\ rec \in RequestRecord /\ rec.pc = "claiming" /\ rec.s = request[r].s
        /\ rec.via = row.via
    BY <2>1, <2>2 DEF RequestRecord, Pcs, Refreshing
  <2>4. request' = [request EXCEPT ![r] = rec]
    BY <1>3, Records DEF IInv, TypeOK
  <2>5. row.via = session[request[r].s].via
    OBVIOUS
  <2> HIDE DEF rec, row
  <2>6. Fits(rec) /\ rec.pc \notin Claiming
    BY <2>1, <2>3, <2>5 DEF Fits, Claiming
  <2> QED BY <1>0, <2>3, <2>4, <2>6, RequestStep
<1> QED BY <1>1, <1>2, <1>3 DEF Find

LEMMA ReadInv ==
    ASSUME IInv, NEW r \in Requests, Verify(r) \/ Look(r) \/ List(r) PROVE IInv'
<1>1. ASSUME Go(r, "loggingOut") \/ Go(r, "looking") \/ Go(r, "listing") \/ Go(r, "unlinking"),
             request[r].pc \in Presented, UNCHANGED <<session, identity, issued, ended>>
      PROVE  IInv'
  BY <1>1, GoStep DEF Pcs, Claiming
<1>2. ASSUME Answer(r, "refused"), UNCHANGED <<session, identity, issued, ended>>
      PROVE  IInv'
  BY <1>2, AnswerStep DEF Answers
<1>3. CASE Verify(r)
  BY <1>1, <1>2, <1>3 DEF Verify, At, Presented
<1>4. CASE Look(r)
  BY <1>1, <1>2, <1>4 DEF Look, At, Presented
<1>5. CASE List(r)
  BY <1>1, <1>2, <1>5 DEF List, At, Presented
<1> QED BY <1>3, <1>4, <1>5

LEMMA LeaveInv == ASSUME IInv, NEW r \in Requests, Leave(r) PROVE IInv'
<1>1. Idle \in RequestRecord /\ Idle.pc = "idle"
  BY RecordFields, Records DEF IInv, Idle
<1>2. Fits(Idle) /\ Idle.pc \notin Claiming
  BY <1>1, IdleFits
<1> QED BY <1>1, <1>2, RequestStep DEF Leave

-----------------------------------------------------------------------------
(* Steps that change the table. *)

\* The other requests keep fitting, the one that acted fits with its new record: all do.
LEMMA AllFit ==
    ASSUME TypeOK, NEW r \in Requests, NEW rec \in RequestRecord,
           request' = [request EXCEPT ![r] = rec],
           Fits(rec)',
           \A x \in RequestRecord : (\E q \in Requests \ {r} : x = request[q]) => Fits(x)',
           OneWinner,
           rec.pc \in Claiming =>
               \A q \in Requests \ {r} : request[q].pc \in Claiming => request[q].s # rec.s
    PROVE  RequestsFit' /\ OneWinner'
<1>1. request'[r] = rec /\ \A q \in Requests \ {r} : request'[q] = request[q]
  BY DEF TypeOK
<1>2. ASSUME NEW q \in Requests PROVE Fits(request[q])'
  <2>1. CASE q = r
    BY <1>1, <2>1 DEF Fits
  <2>2. CASE q # r
    <3>1. PICK x \in RequestRecord : x = request[q]
      BY DEF TypeOK
    <3>2. Fits(x)' /\ request'[q] = x
      BY <1>1, <2>2, <3>1
    <3> QED BY <3>2 DEF Fits
  <2> QED BY <2>1, <2>2
<1>3. OneWinner'
  BY <1>1 DEF OneWinner
<1> QED BY <1>2, <1>3 DEF RequestsFit

\* What a revocation leaves alone.
LEMMA RevokedFields ==
    ASSUME TypeOK, NEW S \in SUBSET Sessions, session' = Revoked(S)
    PROVE  /\ session' \in [Sessions -> SessionRow]
           /\ \A s \in Sessions :
                /\ session'[s].family = session[s].family /\ session'[s].from = session[s].from
                /\ session'[s].via = session[s].via
                /\ session'[s].rotated = session[s].rotated
                /\ session'[s].revoked = (session[s].revoked \/ s \in S)
<1>1. ASSUME NEW row \in SessionRow
      PROVE  /\ [row EXCEPT !.revoked = TRUE] \in SessionRow
             /\ [row EXCEPT !.revoked = TRUE].family = row.family
             /\ [row EXCEPT !.revoked = TRUE].from = row.from
             /\ [row EXCEPT !.revoked = TRUE].via = row.via
             /\ [row EXCEPT !.revoked = TRUE].rotated = row.rotated
             /\ [row EXCEPT !.revoked = TRUE].revoked = TRUE
  BY DEF SessionRow
<1>2. \A s \in Sessions : session[s] \in SessionRow /\ session[s].revoked \in BOOLEAN
  BY DEF TypeOK, SessionRow
<1>3. \A s \in Sessions : session'[s] = IF s \in S THEN [session[s] EXCEPT !.revoked = TRUE]
                                        ELSE session[s]
  BY DEF Revoked
<1>4. session' \in [Sessions -> SessionRow]
  BY <1>1, <1>2 DEF Revoked
<1>5. ASSUME NEW s \in Sessions
      PROVE  /\ session'[s].family = session[s].family /\ session'[s].from = session[s].from
             /\ session'[s].via = session[s].via
             /\ session'[s].rotated = session[s].rotated
             /\ session'[s].revoked = (session[s].revoked \/ s \in S)
  <2>1. CASE s \in S
    BY <1>1, <1>2, <1>3, <2>1
  <2>2. CASE s \notin S
    BY <1>2, <1>3, <2>2
  <2> QED BY <2>1, <2>2
<1> QED BY <1>4, <1>5

\* A revocation of sessions, with the families among them that end: what was handed out from
\* those must be revoked with them.
LEMMA RevokeStep ==
    ASSUME IInv, NEW r \in Requests, NEW rec \in RequestRecord,
           NEW S \in SUBSET Sessions, NEW F \in SUBSET Sessions,
           session' = Revoked(S), ended' = ended \cup F, UNCHANGED <<identity, issued>>,
           request' = [request EXCEPT ![r] = rec],
           Fits(rec), rec.pc \notin Claiming,
           \A f \in F : Exists(f),
           \A s \in issued : session[s].family \in F => s \in S,
           \A s, t \in Sessions : s \in S \ issued /\ session[s].family = session[t].family
                                   => t \in S
    PROVE  IInv'
<1>1. /\ session' \in [Sessions -> SessionRow]
      /\ \A s \in Sessions :
           /\ session'[s].family = session[s].family /\ session'[s].from = session[s].from
           /\ session'[s].via = session[s].via
           /\ session'[s].rotated = session[s].rotated
           /\ session'[s].revoked = (session[s].revoked \/ s \in S)
  BY RevokedFields DEF IInv
<1>2. TypeOK'
  BY <1>1 DEF IInv, TypeOK
<1>3. issued \subseteq Sessions /\ ended \subseteq Sessions
  BY DEF IInv, TypeOK
<1>4. \A s \in Sessions : Exists(s)' <=> Exists(s)
  BY <1>1 DEF Exists
<1>5. \A s \in Sessions : session[s].family \in Sessions \cup {NoSession}
                           /\ session[s].from \in Sessions \cup {NoSession}
  BY DEF IInv, TypeOK, SessionRow
<1>6. Families'
  BY <1>1, <1>4, <1>5 DEF IInv, Families, Exists
<1>7. Successors'
  BY <1>1, <1>4, <1>5 DEF IInv, Successors
<1>8. Recorded'
  BY <1>3, <1>4 DEF IInv, Recorded
<1>9. SingleUse'
  BY <1>1 DEF IInv, SingleUse
<1>10. EndedIsDead'
  BY <1>1, <1>3 DEF IInv, EndedIsDead
<1>11. ASSUME NEW x \in RequestRecord, Fits(x) PROVE Fits(x)'
  <2>1. x.pc = "rereading" => /\ x.s \in Sessions
                              /\ session[x.new].family = session[x.s].family
    BY <1>3, <1>11 DEF IInv, Successors, Fits, Presented, Refreshing
  <2> QED BY <1>1, <1>3, <1>11, <2>1 DEF Fits, Presented, Refreshing, Claiming
<1>12. RequestsFit' /\ OneWinner'
  <2>1. \A x \in RequestRecord : (\E q \in Requests \ {r} : x = request[q]) => Fits(x)'
    BY <1>11 DEF IInv, RequestsFit
  <2> QED BY <1>11, <2>1, AllFit DEF IInv
<1> QED BY <1>2, <1>6, <1>7, <1>8, <1>9, <1>10, <1>12 DEF IInv

\* What the invariant says of the session a request was given.
LEMMA GivenSession ==
    ASSUME IInv, NEW r \in Requests, request[r].pc \in Presented
    PROVE  /\ request[r].s \in issued /\ request[r].s \in Sessions
           /\ Exists(request[r].s) /\ session[request[r].s].family \in Sessions
           /\ Exists(session[request[r].s].family)
<1>1. request[r].s \in issued /\ issued \subseteq Sessions
  BY DEF IInv, TypeOK, RequestsFit, Fits
<1>2. Exists(request[r].s)
  BY <1>1 DEF IInv, Recorded
<1>3. session[request[r].s].family \in Sessions
  BY <1>1, <1>2 DEF IInv, TypeOK, SessionRow, Exists
<1>4. Exists(session[request[r].s].family)
  BY <1>1, <1>2, <1>3, Distinct DEF IInv, Families, Exists
<1> QED BY <1>1, <1>2, <1>3, <1>4

LEMMA ReuseInv == ASSUME IInv, NEW r \in Requests, Reuse(r) PROVE IInv'
<1> DEFINE f == session[request[r].s].family
           S == {s \in Sessions : session[s].family = f}
           rec == [Idle EXCEPT !.pc = "refused"]
<1>1. f \in Sessions /\ Exists(f)
  BY GivenSession DEF Reuse, At, Presented, Refreshing
<1>2. /\ session' = Revoked(S) /\ ended' = ended \cup {f} /\ UNCHANGED <<identity, issued>>
      /\ request' = [request EXCEPT ![r] = rec]
  BY DEF Reuse, Answer
<1>3. rec \in RequestRecord /\ rec.pc = "refused"
  BY RecordFields, Records DEF IInv, Answers
<1>4. \A s \in issued : session[s].family \in {f} => s \in S
  BY DEF IInv, TypeOK
<1>5. /\ S \in SUBSET Sessions /\ {f} \in SUBSET Sessions
      /\ \A s, t \in Sessions : s \in S \ issued /\ session[s].family = session[t].family
                                => t \in S
  BY <1>1
<1> HIDE DEF rec, S, f
<1>6. Fits(rec) /\ rec.pc \notin Claiming
  BY <1>3, IdleFits DEF Answers
<1> QED BY <1>1, <1>2, <1>3, <1>4, <1>5, <1>6, RevokeStep

LEMMA RevokeInv == ASSUME IInv, NEW r \in Requests, Revoke(r) PROVE IInv'
<1> DEFINE rec == [Idle EXCEPT !.pc = "ok"]
<1>1. request[r].s \in Sessions
  BY GivenSession DEF Revoke, At, Presented
<1>2. /\ session' = Revoked({request[r].s}) /\ ended' = ended \cup {}
      /\ UNCHANGED <<identity, issued>>
      /\ request' = [request EXCEPT ![r] = rec]
  BY DEF Revoke, Answer
<1>3. rec \in RequestRecord /\ rec.pc = "ok"
  BY RecordFields, Records DEF IInv, Answers
<1> HIDE DEF rec
<1>4. Fits(rec) /\ rec.pc \notin Claiming
  BY <1>3, IdleFits DEF Answers
<1>5. {request[r].s} \in SUBSET Sessions /\ {} \in SUBSET Sessions
  BY <1>1
<1>6. /\ \A s \in issued : session[s].family \in {} => s \in {request[r].s}
      /\ {request[r].s} \ issued = {}
  BY GivenSession DEF Revoke, At, Presented
<1> QED BY <1>2, <1>3, <1>4, <1>5, <1>6, RevokeStep

\* The sessions of an identity are whole families.
LEMMA WholeFamilies ==
    ASSUME IInv, NEW i, NEW s \in Sessions, Exists(s),
           session[s].family \in FamiliesOf({t \in Sessions : Exists(t) /\ session[t].via = i})
    PROVE  session[s].via = i
<1>1. PICK t \in Sessions : Exists(t) /\ session[t].via = i /\ session[t].family = session[s].family
  BY DEF FamiliesOf
<1>2. session[s].family \in Sessions
  BY DEF IInv, TypeOK, SessionRow, Exists
<1> QED BY <1>1, <1>2 DEF IInv, Families

LEMMA UnlinkInv == ASSUME IInv, NEW r \in Requests, Unlink(r) PROVE IInv'
<1> DEFINE gone == {s \in Sessions : Exists(s) /\ session[s].via = request[r].via}
           rec == [request[r] EXCEPT !.pc = "deleting"]
<1>1. /\ session' = Revoked(gone) /\ ended' = ended \cup FamiliesOf(gone)
      /\ UNCHANGED <<identity, issued>> /\ request' = [request EXCEPT ![r] = rec]
      /\ request[r].pc = "unlinking"
  BY DEF Unlink, Go, At
<1>2. rec \in RequestRecord /\ rec.pc = "deleting" /\ rec.s = request[r].s
  <2>1. request[r] \in RequestRecord /\ "deleting" \in Pcs
    BY Records DEF IInv, Pcs
  <2> QED BY <2>1, RecordFields
<1>3. \A f \in FamiliesOf(gone) : f \in Sessions /\ Exists(f)
  BY Distinct DEF IInv, TypeOK, SessionRow, Families, FamiliesOf, Exists
<1>4. \A s \in issued : session[s].family \in FamiliesOf(gone) => s \in gone
  BY WholeFamilies DEF IInv, TypeOK, Recorded
<1>5. gone \in SUBSET Sessions /\ FamiliesOf(gone) \in SUBSET Sessions
  BY <1>3
<1>8. ASSUME NEW s \in Sessions, NEW t \in Sessions, s \in gone,
             session[s].family = session[t].family
      PROVE  t \in gone
  <2>1. Exists(t) /\ session[t].family \in FamiliesOf(gone)
    BY <1>8 DEF FamiliesOf, Exists
  <2> QED BY <2>1, WholeFamilies
<1>6. Fits(request[r])
  BY DEF IInv, RequestsFit
<1> HIDE DEF rec, gone
<1>7. Fits(rec) /\ rec.pc \notin Claiming
  BY <1>1, <1>2, <1>6 DEF Fits, Presented, Claiming
<1> QED BY <1>1, <1>2, <1>3, <1>4, <1>5, <1>7, <1>8, RevokeStep

\* The winner of a claim: its token is spent and nothing else changes.
LEMMA ClaimWon ==
    ASSUME IInv, NEW r \in Requests, At(r, "claiming"), ~session[request[r].s].rotated,
           session' = [session EXCEPT ![request[r].s].rotated = TRUE],
           Go(r, "minting"), UNCHANGED <<identity, issued, ended>>
    PROVE  IInv'
<1>0. PICK s0 \in Sessions : s0 = request[r].s
  BY GivenSession DEF At, Presented, Refreshing
<1> DEFINE row == [session[s0] EXCEPT !.rotated = TRUE]
<1>1. s0 \in issued /\ request[r] \in RequestRecord /\ issued \subseteq Sessions
  BY <1>0, GivenSession, Records DEF IInv, TypeOK, At, Presented, Refreshing
<1>2. session[s0] \in SessionRow
  BY <1>1 DEF IInv, TypeOK
<1>3. /\ row \in SessionRow /\ row.rotated = TRUE
      /\ row.family = session[s0].family /\ row.from = session[s0].from
      /\ row.via = session[s0].via /\ row.revoked = session[s0].revoked
  BY <1>2 DEF SessionRow
<1>4. session' = [session EXCEPT ![s0] = row]
  BY <1>0
<1>5. PICK rec \in RequestRecord :
          /\ rec.pc = "minting" /\ rec.s = s0 /\ rec.via = request[r].via
          /\ request' = [request EXCEPT ![r] = rec]
  <2>1. "minting" \in Pcs
    BY DEF Pcs, Refreshing
  <2> QED BY <1>0, <1>1, <2>1, RecordFields DEF Go
<1> HIDE DEF row
<1>6. \A s \in Sessions : /\ session'[s].family = session[s].family
                          /\ session'[s].from = session[s].from
                          /\ session'[s].via = session[s].via
                          /\ session'[s].revoked = session[s].revoked
                          /\ session[s].rotated => session'[s].rotated
  <2>1. ASSUME NEW s \in Sessions PROVE session'[s] = IF s = s0 THEN row ELSE session[s]
    BY <1>4 DEF IInv, TypeOK
  <2> QED BY <1>3, <2>1
<1>7. session'[s0].rotated
  BY <1>1, <1>3, <1>4 DEF IInv, TypeOK
<1>8. TypeOK'
  BY <1>3, <1>4, <1>5 DEF IInv, TypeOK
<1>9. \A s \in Sessions : Exists(s)' <=> Exists(s)
  BY <1>6 DEF Exists
<1>10. \A s \in Sessions : session[s].family \in Sessions \cup {NoSession}
                           /\ session[s].from \in Sessions \cup {NoSession}
  BY DEF IInv, TypeOK, SessionRow
<1>11. Families'
  BY <1>6, <1>9, <1>10 DEF IInv, Families, Exists
<1>12. Successors'
  BY <1>6, <1>9 DEF IInv, Successors
<1>13. Recorded' /\ SingleUse' /\ EndedIsDead'
  BY <1>1, <1>6, <1>9 DEF IInv, TypeOK, Recorded, SingleUse, EndedIsDead
<1>14. ASSUME NEW x \in RequestRecord, Fits(x) PROVE Fits(x)'
  BY <1>1, <1>6, <1>14 DEF Fits, Presented, Refreshing, Claiming
<1>15. \A s \in Sessions : session[s].from # s0
  BY <1>0 DEF IInv, Successors
<1>16. rec.via = session[s0].via \/ rec.via \notin identity \cup {NoIdentity}
  BY <1>0, <1>5 DEF IInv, RequestsFit, Fits, At
<1>17. Fits(rec)'
  BY <1>1, <1>5, <1>6, <1>7, <1>15, <1>16 DEF Fits, Claiming
<1>18. \A q \in Requests \ {r} : request[q].pc \in Claiming => request[q].s # rec.s
  BY <1>0, <1>5 DEF IInv, RequestsFit, Fits
<1>19. RequestsFit' /\ OneWinner'
  <2>1. \A x \in RequestRecord : (\E q \in Requests \ {r} : x = request[q]) => Fits(x)'
    BY <1>14 DEF IInv, RequestsFit
  <2> QED BY <1>5, <1>17, <1>18, <2>1, AllFit DEF IInv
<1> QED BY <1>8, <1>11, <1>12, <1>13, <1>19 DEF IInv

LEMMA ClaimInv == ASSUME IInv, NEW r \in Requests, Claim(r) PROVE IInv'
<1>1. CASE session[request[r].s].rotated
  <2>1. At(r, "claiming") /\ Go(r, "reusing") /\ UNCHANGED <<session, identity, issued, ended>>
    BY <1>1 DEF Claim
  <2>2. request[r].pc \in Presented /\ "reusing" \in Pcs \ (Claiming \cup {"claiming"})
    BY <2>1 DEF At, Presented, Refreshing, Pcs, Claiming
  <2> QED BY <2>1, <2>2, GoStep
<1>2. CASE ~session[request[r].s].rotated
  BY <1>2, ClaimWon DEF Claim
<1> QED BY <1>1, <1>2

-----------------------------------------------------------------------------
(* A new session. *)

\* A row is added: a family of its own, handed out at once or not, or the first successor of
\* a session whose family and identity it takes.
Added(n, f, p, v) ==
    /\ ~Exists(n)
    /\ session' = [session EXCEPT ![n] = Row(f, p, v)]
    /\ UNCHANGED <<identity, ended>>
    /\ \/ f = n /\ p = NoSession /\ issued' \in {issued, issued \cup {n}}
       \/ /\ p \in issued /\ session[p].rotated /\ session[p].family = f
          /\ session[p].via = v /\ issued' = issued
          /\ \A s \in Sessions : session[s].from # p

\* No request but r holds the claim of s.
Alone(r, s) == \A q \in Requests \ {r} : request[q].pc \in Claiming => request[q].s # s

LEMMA NewSession ==
    ASSUME IInv, NEW r \in Requests, NEW rec \in RequestRecord,
           NEW n \in Sessions, NEW f \in Sessions, NEW p \in Sessions \cup {NoSession},
           NEW v \in Identities \cup {NoIdentity},
           Added(n, f, p, v), Alone(r, p), Alone(r, rec.s),
           request' = [request EXCEPT ![r] = rec], Fits(rec)'
    PROVE  IInv'
<1> USE DEF Added, Alone
<1>1. issued \subseteq Sessions /\ issued' \subseteq Sessions /\ ended \subseteq Sessions
  BY DEF IInv, TypeOK
<1>2. /\ session'[n].family = f /\ session'[n].from = p /\ session'[n].via = v
      /\ session' \in [Sessions -> SessionRow]
      /\ \A s \in Sessions \ {n} : session'[s] = session[s]
  <2>1. /\ Row(f, p, v) \in SessionRow /\ Row(f, p, v).family = f
        /\ Row(f, p, v).from = p /\ Row(f, p, v).via = v
    BY DEF Row, NoRow, SessionRow
  <2> QED BY <2>1 DEF IInv, TypeOK
<1>3. \A s \in Sessions : session[s].family \in Sessions \cup {NoSession}
                          /\ session[s].from \in Sessions \cup {NoSession}
  BY DEF IInv, TypeOK, SessionRow
\* Nothing refers to the row that was not there.
<1>4. /\ n \notin issued /\ n \notin ended
      /\ \A s \in Sessions : session[s].family # n /\ session[s].from # n
  <2>1. n \notin issued /\ n \notin ended
    BY DEF IInv, Recorded
  <2>2. ASSUME NEW s \in Sessions, session[s].family = n PROVE FALSE
    BY <2>2, Distinct DEF IInv, Families, Exists
  <2>3. ASSUME NEW s \in Sessions, session[s].from = n PROVE FALSE
    BY <2>1, <2>3 DEF IInv, Successors
  <2> QED BY <2>1, <2>2, <2>3
<1>5. session[n].family = NoSession
  BY DEF Exists
<1>6. TypeOK'
  BY <1>1, <1>2 DEF IInv, TypeOK
<1>7. \A s \in Sessions : Exists(s)' <=> Exists(s) \/ s = n
  BY <1>2, Distinct DEF Exists
<1>8. Families'
  <2>1. ASSUME NEW s \in Sessions, NEW g \in Sessions, session'[s].family = g
        PROVE  session'[g].family = g /\ session'[s].via = session'[g].via
    <3>1. CASE s = n /\ f = n
      BY <1>2, <2>1, <3>1
    <3>2. CASE s = n /\ f # n
      <4>1. p \in Sessions /\ session[p].family = f /\ session[p].via = v
        BY <1>1, <3>2
      <4>2. session[f].family = f /\ session[f].via = v
        BY <4>1 DEF IInv, Families
      <4> QED BY <1>2, <2>1, <3>2, <4>2
    <3>3. CASE s # n
      <4>1. session[s].family = g /\ g # n
        BY <1>2, <1>4, <2>1, <3>3
      <4> QED BY <1>2, <3>3, <4>1 DEF IInv, Families
    <3> QED BY <3>1, <3>2, <3>3
  <2> QED BY <2>1 DEF Families
<1>9. Successors'
  <2>1. ASSUME NEW s \in Sessions, NEW x \in Sessions, session'[s].from = x
        PROVE  /\ Exists(s)' /\ x \in issued' /\ session'[x].rotated
               /\ session'[x].family = session'[s].family
    <3>1. CASE s = n
      <4>1. x = p /\ p # NoSession /\ p # n
        BY <1>2, <1>4, <2>1, <3>1, Distinct
      <4> QED BY <1>2, <1>7, <3>1, <4>1
    <3>2. CASE s # n
      <4>1. session[s].from = x /\ x # n
        BY <1>2, <1>4, <2>1, <3>2
      <4>2. /\ Exists(s) /\ x \in issued /\ session[x].rotated
            /\ session[x].family = session[s].family
        BY <4>1 DEF IInv, Successors
      <4> QED BY <1>2, <1>7, <3>2, <4>1, <4>2
    <3> QED BY <3>1, <3>2
  <2> QED BY <2>1 DEF Successors
<1>10. Recorded'
  BY <1>1, <1>7 DEF IInv, Recorded
<1>11. SingleUse'
  BY <1>2, Distinct DEF IInv, SingleUse
<1>12. EndedIsDead'
  BY <1>1, <1>2, <1>4 DEF IInv, EndedIsDead
<1>13. ASSUME NEW x \in RequestRecord, \E q \in Requests \ {r} : x = request[q]
       PROVE  Fits(x)'
  <2>1. PICK q \in Requests \ {r} : x = request[q]
    BY <1>13
  <2>2. Fits(x)
    BY <2>1 DEF IInv, RequestsFit
  <2>3. x.pc \in Claiming => x.s # p
    BY <2>1
  <2>4. x.pc \in Presented => x.s \in issued /\ x.s \in issued' /\ x.s \in Sessions /\ x.s # n
    BY <1>1, <1>4, <2>2 DEF Fits
  <2>5. x.pc \in Presented => session'[x.s] = session[x.s]
    BY <1>2, <2>4
  <2>6. x.pc \in Claiming \cup {"claiming"} => x.pc \in Presented
    BY DEF Presented, Claiming, Refreshing
  <2>7. x.pc = "minting" => \A s \in Sessions : session'[s].from # x.s
    BY <1>2, <2>2, <2>3 DEF Fits, Claiming
  <2>8. x.pc = "rereading" => /\ x.new \in Sessions \ issued' /\ session'[x.new].from = x.s
                              /\ session'[x.new].revoked => session'[x.s].revoked
    <3>1. SUFFICES ASSUME x.pc = "rereading"
                   PROVE  /\ x.new \in Sessions \ issued' /\ session'[x.new].from = x.s
                          /\ session'[x.new].revoked => session'[x.s].revoked
      OBVIOUS
    <3>2. /\ x.new \in Sessions \ issued /\ session[x.new].from = x.s /\ x.s \in Sessions
          /\ session[x.new].revoked => session[x.s].revoked
          /\ session'[x.s] = session[x.s]
      BY <2>2, <2>4, <2>5, <2>6, <3>1 DEF Fits, Claiming
    <3>3. x.new # n
      BY <3>2 DEF IInv, Successors
    <3> QED BY <1>2, <3>2, <3>3
  <2> QED BY <2>2, <2>4, <2>5, <2>6, <2>7, <2>8 DEF Fits, Claiming
<1>14. RequestsFit' /\ OneWinner'
  BY <1>13, AllFit DEF IInv
<1> QED BY <1>6, <1>8, <1>9, <1>10, <1>11, <1>12, <1>14 DEF IInv

LEMMA CreateInv == ASSUME IInv, NEW r \in Requests, Create(r) PROVE IInv'
<1>1. CASE request[r].via \in identity
  <2>1. PICK n \in Sessions :
            /\ ~Exists(n) /\ session' = [session EXCEPT ![n] = Row(n, NoSession, request[r].via)]
            /\ Return(r, n)
    BY <1>1 DEF Create
  <2> DEFINE new == [Idle EXCEPT !.pc = "ok", !.new = n]
  <2>2. new \in RequestRecord /\ new.pc = "ok" /\ new.s = NoSession
    BY DEF RequestRecord, Idle, Pcs, Answers
  <2>3. request' = [request EXCEPT ![r] = new] /\ issued' = issued \cup {n}
    BY <2>1 DEF Return
  <2> HIDE DEF new
  <2>4. PICK rec \in RequestRecord : rec = new
    BY <2>2
  <2>5. Fits(rec)'
    BY <2>2, <2>4, IdleFits DEF Answers
  <2>6. PICK v \in Identities \cup {NoIdentity} : v = request[r].via
    BY Records DEF IInv, RequestRecord
  <2>7. \A q \in Requests : request[q].pc \in Claiming => request[q].s \in Sessions
    BY GivenSession DEF Claiming, Presented, Refreshing
  <2>8. UNCHANGED <<identity, ended>>
    BY DEF Create
  <2>9. session' = [session EXCEPT ![n] = Row(n, NoSession, v)]
    BY <2>1, <2>6
  <2>10. request' = [request EXCEPT ![r] = rec]
    BY <2>3, <2>4
  <2>11. rec.s = NoSession
    BY <2>2, <2>4
  <2>12. Alone(r, NoSession) /\ Alone(r, rec.s)
    BY <2>7, <2>11, Distinct DEF Alone
  <2>13. Added(n, n, NoSession, v)
    BY <2>1, <2>3, <2>8, <2>9 DEF Added
  <2>14. NoSession \in Sessions \cup {NoSession}
    OBVIOUS
  <2> QED BY <2>5, <2>10, <2>12, <2>13, <2>14, NewSession
<1>2. CASE request[r].via \notin identity
  BY <1>2, AnswerStep DEF Create, Answers
<1> QED BY <1>1, <1>2

LEMMA MintInv == ASSUME IInv, NEW r \in Requests, Mint(r) PROVE IInv'
<1>0. At(r, "minting") /\ UNCHANGED <<identity, issued, ended>>
  BY DEF Mint
<1>1. CASE request[r].via \in identity \cup {NoIdentity}
  <2>1. PICK p \in Sessions : p = request[r].s
    BY <1>0, GivenSession DEF At, Presented, Refreshing
  <2>2. PICK f \in Sessions : f = session[p].family
    BY <1>0, <2>1, GivenSession DEF At, Presented, Refreshing
  <2>3. PICK v \in Identities \cup {NoIdentity} : v = request[r].via
    BY Records DEF IInv, RequestRecord
  <2>4. PICK n \in Sessions :
            /\ ~Exists(n) /\ session' = [session EXCEPT ![n] = Row(f, p, v)]
            /\ request' = [request EXCEPT ![r].pc = "rereading", ![r].new = n]
    BY <1>1, <2>1, <2>2, <2>3 DEF Mint
  <2> DEFINE new == [request[r] EXCEPT !.pc = "rereading", !.new = n]
  <2>5. new \in RequestRecord /\ new.pc = "rereading" /\ new.s = p /\ new.new = n
    BY <2>1, Records DEF IInv, RequestRecord, Pcs, Refreshing
  <2>6. request' = [request EXCEPT ![r] = new]
    BY <2>4 DEF IInv, TypeOK
  <2> HIDE DEF new
  <2>7. PICK rec \in RequestRecord : rec = new
    BY <2>5
  <2>8. /\ p \in issued /\ session[p].rotated /\ session[p].via = v
        /\ \A s \in Sessions : session[s].from # p
    <3>1. Fits(request[r])
      BY DEF IInv, RequestsFit
    <3> QED BY <1>0, <1>1, <2>1, <2>3, <3>1 DEF Fits, At, Presented, Refreshing, Claiming
  <2>9. \A q \in Requests \ {r} : request[q].pc \in Claiming => request[q].s # p
    BY <1>0, <2>1 DEF IInv, OneWinner, At, Claiming
  <2>10. Fits(rec)'
    <3>1. n \notin issued
      BY <2>4 DEF IInv, Recorded
    <3>2. /\ Row(f, p, v).from = p /\ Row(f, p, v).revoked = FALSE
          /\ session'[n].from = p /\ ~session'[n].revoked /\ \A s \in Sessions \ {n} : session'[s] = session[s]
      BY <2>4 DEF IInv, TypeOK, Row, NoRow
    <3>3. session'[p].rotated
      BY <2>4, <2>8, <3>1, <3>2
    <3> QED BY <1>0, <2>5, <2>7, <2>8, <3>1, <3>2, <3>3 DEF Fits, Claiming
  <2>11. rec.s = p /\ request' = [request EXCEPT ![r] = rec]
    BY <2>5, <2>6, <2>7
  <2>12. p \in Sessions \cup {NoSession}
    OBVIOUS
  <2>13. Alone(r, p) /\ Alone(r, rec.s)
    BY <2>9, <2>11 DEF Alone
  <2>14. Added(n, f, p, v)
    BY <1>0, <2>2, <2>4, <2>8 DEF Added
  <2> QED BY <2>10, <2>11, <2>12, <2>13, <2>14, NewSession
<1>2. CASE request[r].via \notin identity \cup {NoIdentity}
  BY <1>2, AnswerStep DEF Mint, Answers
<1> QED BY <1>1, <1>2

-----------------------------------------------------------------------------
(* The last step of a refresh, and the removal of an identity. *)

LEMMA RereadInv == ASSUME IInv, NEW r \in Requests, Reread(r) PROVE IInv'
<1>0. At(r, "rereading") /\ UNCHANGED <<session, identity, ended>>
  BY DEF Reread
<1>1. CASE session[request[r].s].revoked
  <2>1. Go(r, "reusing") /\ UNCHANGED issued
    BY <1>1 DEF Reread
  <2>2. request[r].pc \in Presented /\ "reusing" \in Pcs \ (Claiming \cup {"claiming"})
    BY <1>0 DEF At, Presented, Refreshing, Pcs, Claiming
  <2> QED BY <1>0, <2>1, <2>2, GoStep
<1>2. CASE ~session[request[r].s].revoked
  <2>1. PICK n \in Sessions : n = request[r].new /\ n \notin issued /\ session[n].from = request[r].s
    BY <1>0 DEF IInv, RequestsFit, Fits, At
  <2> DEFINE new == [Idle EXCEPT !.pc = "ok", !.new = n]
  <2>2. new \in RequestRecord /\ new.pc = "ok"
    BY DEF RequestRecord, Idle, Pcs, Answers
  <2>3. request' = [request EXCEPT ![r] = new] /\ issued' = issued \cup {n}
    BY <1>2, <2>1 DEF Reread, Return
  <2> HIDE DEF new
  <2>4. PICK rec \in RequestRecord : rec = new
    BY <2>2
  <2>5. Fits(rec)' /\ rec.pc \notin Claiming
    BY <2>2, <2>4, IdleFits DEF Answers
  <2>6. request' = [request EXCEPT ![r] = rec]
    BY <2>3, <2>4
  <2>7. /\ request[r].s \in Sessions /\ request[r].s \in issued
    BY <1>0, GivenSession DEF At, Presented, Refreshing
  <2>8. Exists(n) /\ session[n].family = session[request[r].s].family
    BY <2>1, <2>7 DEF IInv, Successors
  <2>9. TypeOK'
    BY <1>0, <2>3, <2>6 DEF IInv, TypeOK
  <2>10. Families' /\ Successors' /\ Recorded' /\ SingleUse'
    BY <1>0, <2>3, <2>8 DEF IInv, Families, Successors, Recorded, SingleUse, Exists
  <2>11. EndedIsDead'
    <3>1. session[n].family \notin ended
      BY <1>2, <2>7, <2>8 DEF IInv, EndedIsDead
    <3> QED BY <1>0, <2>3, <3>1 DEF IInv, EndedIsDead
  <2>12. ASSUME NEW x \in RequestRecord, \E q \in Requests \ {r} : x = request[q]
         PROVE  Fits(x)'
    <3>1. PICK q \in Requests \ {r} : x = request[q]
      BY <2>12
    <3>2. Fits(x)
      BY <3>1 DEF IInv, RequestsFit
    <3>3. x.pc = "rereading" => x.new # n
      BY <1>0, <2>1, <3>1, <3>2 DEF IInv, OneWinner, Fits, At, Claiming
    <3> QED BY <1>0, <2>3, <3>2, <3>3 DEF Fits
  <2>13. RequestsFit' /\ OneWinner'
    BY <2>5, <2>6, <2>12, AllFit DEF IInv
  <2> QED BY <2>9, <2>10, <2>11, <2>13 DEF IInv
<1> QED BY <1>1, <1>2

LEMMA DeleteInv == ASSUME IInv, NEW r \in Requests, Delete(r) PROVE IInv'
<1>1. PICK i \in Identities \cup {NoIdentity} : i = request[r].via
  BY Records DEF IInv, RequestRecord
<1>2. /\ identity' = identity \ {i} /\ UNCHANGED <<issued, ended>>
      /\ session' = [s \in Sessions |-> IF session[s].via = i
                                        THEN [session[s] EXCEPT !.via = NoIdentity]
                                        ELSE session[s]]
      /\ Answer(r, "ok")
  BY <1>1 DEF Delete
<1>3. PICK rec \in RequestRecord : rec.pc = "ok" /\ request' = [request EXCEPT ![r] = rec]
  <2>1. [Idle EXCEPT !.pc = "ok"] \in RequestRecord /\ [Idle EXCEPT !.pc = "ok"].pc = "ok"
    BY RecordFields, Records DEF IInv, Answers
  <2> QED BY <1>2, <2>1 DEF Answer
<1>4. ASSUME NEW row \in SessionRow
      PROVE  /\ [row EXCEPT !.via = NoIdentity] \in SessionRow
             /\ [row EXCEPT !.via = NoIdentity].family = row.family
             /\ [row EXCEPT !.via = NoIdentity].from = row.from
             /\ [row EXCEPT !.via = NoIdentity].via = NoIdentity
             /\ [row EXCEPT !.via = NoIdentity].rotated = row.rotated
             /\ [row EXCEPT !.via = NoIdentity].revoked = row.revoked
  BY DEF SessionRow
<1>5. \A s \in Sessions : session[s] \in SessionRow
  BY DEF IInv, TypeOK
<1>6. /\ session' \in [Sessions -> SessionRow]
      /\ \A s \in Sessions :
           /\ session'[s].family = session[s].family /\ session'[s].from = session[s].from
           /\ session'[s].rotated = session[s].rotated
           /\ session'[s].revoked = session[s].revoked
           /\ session'[s].via = IF session[s].via = i THEN NoIdentity ELSE session[s].via
  <2>1. session' \in [Sessions -> SessionRow]
    BY <1>2, <1>4, <1>5
  <2>2. ASSUME NEW s \in Sessions
        PROVE  /\ session'[s].family = session[s].family /\ session'[s].from = session[s].from
               /\ session'[s].rotated = session[s].rotated
               /\ session'[s].revoked = session[s].revoked
               /\ session'[s].via = IF session[s].via = i THEN NoIdentity ELSE session[s].via
    <3>1. session'[s] = IF session[s].via = i THEN [session[s] EXCEPT !.via = NoIdentity]
                        ELSE session[s]
      BY <1>2
    <3> QED BY <1>4, <1>5, <3>1
  <2> QED BY <2>1, <2>2
<1>7. TypeOK'
  BY <1>2, <1>3, <1>6 DEF IInv, TypeOK
<1>8. issued \subseteq Sessions /\ ended \subseteq Sessions
  BY DEF IInv, TypeOK
<1>9. \A s \in Sessions : Exists(s)' <=> Exists(s)
  BY <1>6 DEF Exists
<1>10. Families'
  BY <1>6 DEF IInv, Families
<1>11. Successors'
  BY <1>2, <1>6, <1>9 DEF IInv, Successors
<1>12. Recorded' /\ SingleUse' /\ EndedIsDead'
  BY <1>2, <1>6, <1>8, <1>9 DEF IInv, Recorded, SingleUse, EndedIsDead
\* A request that remembers the identity finds it gone when it comes to use it.
<1>13. ASSUME NEW x \in RequestRecord, Fits(x) PROVE Fits(x)'
  <2>1. x.pc \in Presented => x.s \in Sessions
    BY <1>8, <1>13 DEF Fits
  <2>2. x.pc \in {"claiming", "minting"} =>
            x.via = session'[x.s].via \/ x.via \notin identity' \cup {NoIdentity}
    <3>1. SUFFICES ASSUME x.pc \in {"claiming", "minting"}
                   PROVE  x.via = session'[x.s].via \/ x.via \notin identity' \cup {NoIdentity}
      OBVIOUS
    <3>2. x.s \in Sessions
      BY <2>1, <3>1 DEF Presented, Refreshing
    <3>3. x.via = session[x.s].via \/ x.via \notin identity \cup {NoIdentity}
      BY <1>13, <3>1 DEF Fits
    <3> QED BY <1>2, <1>6, <3>2, <3>3
  <2> QED BY <1>2, <1>6, <1>13, <2>1, <2>2 DEF Fits, Presented, Refreshing, Claiming
<1>14. RequestsFit' /\ OneWinner'
  <2>1. Fits(rec)' /\ rec.pc \notin Claiming
    BY <1>3, IdleFits DEF Answers
  <2>2. \A x \in RequestRecord : (\E q \in Requests \ {r} : x = request[q]) => Fits(x)'
    BY <1>13 DEF IInv, RequestsFit
  <2> QED BY <1>3, <2>1, <2>2, AllFit DEF IInv
<1> QED BY <1>7, <1>10, <1>11, <1>12, <1>14 DEF IInv

-----------------------------------------------------------------------------
(* The theorems. *)

LEMMA InvNext == IInv /\ [Next]_vars => IInv'
<1> SUFFICES ASSUME IInv, [Next]_vars PROVE IInv'
  OBVIOUS
<1>1. ASSUME NEW r \in Requests, Arrive(r) PROVE IInv'
  BY <1>1, ArriveInv
<1>2. ASSUME NEW r \in Requests, Serve(r) PROVE IInv'
  BY <1>2, FindInv, ReuseInv, ClaimInv, MintInv, RereadInv, CreateInv, ReadInv, RevokeInv,
     UnlinkInv, DeleteInv
     DEF Serve
<1>3. ASSUME NEW r \in Requests, Leave(r) PROVE IInv'
  BY <1>3, LeaveInv
<1>4. CASE UNCHANGED vars
  BY <1>4 DEF vars, IInv, TypeOK, Families, Successors, Recorded, RequestsFit, Fits, OneWinner,
              SingleUse, EndedIsDead, Exists
<1> QED BY <1>1, <1>2, <1>3, <1>4 DEF Next

\* However the requests of the service interleave, the invariant holds.
THEOREM Inductive == Spec => []IInv
BY InvInit, InvNext, PTL DEF Spec

\* session-service.ts: every table and every request keeps its type.
THEOREM TypeCorrect == Spec => []TypeOK
<1>1. IInv => TypeOK
  BY DEF IInv
<1> QED BY <1>1, Inductive, PTL

\* session-service.ts, rotateSession: for any number of concurrent presentations, one refresh
\* token produces at most one session.
THEOREM SingleUseHolds == Spec => []SingleUse
<1>1. IInv => SingleUse
  BY DEF IInv
<1> QED BY <1>1, Inductive, PTL

\* session-service.ts, rotateSession: no session in a caller's hands outlives the end of its
\* family, whatever was being created when the family ended.
THEOREM EndedIsDeadHolds == Spec => []EndedIsDead
<1>1. IInv => EndedIsDead
  BY DEF IInv
<1> QED BY <1>1, Inductive, PTL

-----------------------------------------------------------------------------
(* The service implements TokenFamilies. *)

LEMMA PromiseInit == Init => Promise!Init
BY DEF Init, Promise!Init

\* The requests that are not answered yet, spent tokens and cleared columns are nobody's
\* business: a step that hands out and ends nothing is a stutter.
LEMMA Unseen ==
    ASSUME issued \subseteq Sessions, UNCHANGED <<issued, ended>>,
           \A s \in issued : /\ session'[s].family = session[s].family
                             /\ session'[s].from = session[s].from
                             /\ session'[s].revoked = session[s].revoked
    PROVE  UNCHANGED Promise!vars
BY DEF Promise!vars

\* A revocation of S, ending F.
LEMMA Ending ==
    ASSUME IInv, NEW S \in SUBSET Sessions, NEW F \in SUBSET Sessions, session' = Revoked(S),
           UNCHANGED issued, ended' = ended \cup F,
           \A s \in issued : s \in S <=> session[s].family \in F
    PROVE  Promise!End(F)
<1>1. \A s \in Sessions :
          /\ session'[s].family = session[s].family /\ session'[s].from = session[s].from
          /\ session'[s].revoked = (session[s].revoked \/ s \in S)
  BY RevokedFields DEF IInv
<1>2. issued \subseteq Sessions
  BY DEF IInv, TypeOK
<1> QED BY <1>1, <1>2 DEF Promise!End, Promise!Handed

LEMMA ReusePromise == ASSUME IInv, NEW r \in Requests, Reuse(r) PROVE Promise!Next
<1>1. PICK f \in Sessions : f = session[request[r].s].family
  BY GivenSession DEF Reuse, At, Presented, Refreshing
<1>2. PICK S \in SUBSET Sessions : S = {s \in Sessions : session[s].family = f}
  OBVIOUS
<1>3. session' = Revoked(S) /\ ended' = ended \cup {f} /\ UNCHANGED issued
  BY <1>1, <1>2 DEF Reuse
<1>4. \A s \in issued : s \in S <=> session[s].family \in {f}
  BY <1>2 DEF IInv, TypeOK
<1>5. Promise!End({f})
  BY <1>3, <1>4, Ending
<1> QED BY <1>5 DEF Promise!Next

LEMMA UnlinkPromise == ASSUME IInv, NEW r \in Requests, Unlink(r) PROVE Promise!Next
<1>1. PICK S \in SUBSET Sessions :
          S = {s \in Sessions : Exists(s) /\ session[s].via = request[r].via}
  OBVIOUS
<1>2. PICK F : F = FamiliesOf(S)
  OBVIOUS
<1>3. F \in SUBSET Sessions
  BY <1>1, <1>2 DEF IInv, TypeOK, SessionRow, FamiliesOf, Exists
<1>4. session' = Revoked(S) /\ ended' = ended \cup F /\ UNCHANGED issued
  BY <1>1, <1>2 DEF Unlink
<1>5. \A s \in issued : s \in S <=> session[s].family \in F
  <2> SUFFICES ASSUME NEW s \in issued PROVE s \in S <=> session[s].family \in F
    OBVIOUS
  <2>1. s \in Sessions /\ Exists(s)
    BY DEF IInv, TypeOK, Recorded
  <2>2. s \in S => session[s].family \in F
    BY <1>2 DEF FamiliesOf
  <2>3. session[s].family \in F => session[s].via = request[r].via
    BY <1>1, <1>2, <2>1, WholeFamilies
  <2> QED BY <1>1, <2>1, <2>2, <2>3
<1>6. Promise!End(F)
  BY <1>3, <1>4, <1>5, Ending
<1> QED BY <1>3, <1>6 DEF Promise!Next

LEMMA RevokePromise == ASSUME IInv, NEW r \in Requests, Revoke(r) PROVE Promise!Next
<1>1. PICK s0 \in Sessions : s0 = request[r].s /\ s0 \in issued
  BY GivenSession DEF Revoke, At, Presented
<1>2. session' = Revoked({s0}) /\ UNCHANGED <<issued, ended>>
  BY <1>1 DEF Revoke
<1>3. PICK S \in SUBSET Sessions : S = {s0}
  OBVIOUS
<1>4. \A s \in Sessions :
          /\ session'[s].family = session[s].family /\ session'[s].from = session[s].from
          /\ session'[s].revoked = (session[s].revoked \/ s \in S)
  BY <1>2, <1>3, RevokedFields DEF IInv
<1>5. issued \subseteq Sessions
  BY DEF IInv, TypeOK
<1>6. {s \in issued : session'[s].revoked} = {s \in issued : session[s].revoked} \cup {s0}
  BY <1>1, <1>3, <1>4, <1>5
<1>7. /\ [s \in issued |-> session'[s].family] = [s \in issued |-> session[s].family]
      /\ [s \in issued |-> session'[s].from] = [s \in issued |-> session[s].from]
  BY <1>4, <1>5
<1>8. Promise!Kill(s0)
  BY <1>1, <1>2, <1>6, <1>7 DEF Promise!Kill, Promise!Handed
<1> QED BY <1>8 DEF Promise!Next

LEMMA CreatePromise ==
    ASSUME IInv, NEW r \in Requests, Create(r), request[r].via \in identity
    PROVE  Promise!Next
<1>1. PICK n \in Sessions :
          /\ ~Exists(n) /\ session' = [session EXCEPT ![n] = Row(n, NoSession, request[r].via)]
          /\ Return(r, n) /\ UNCHANGED ended
  BY DEF Create
<1>2. issued' = issued \cup {n} /\ issued \subseteq Sessions /\ n \notin issued /\ n \notin ended
  BY <1>1 DEF Return, IInv, TypeOK, Recorded
<1>3. /\ session'[n].family = n /\ session'[n].from = NoSession /\ ~session'[n].revoked
      /\ \A s \in issued : session'[s] = session[s]
  <2>1. /\ Row(n, NoSession, request[r].via).family = n
        /\ Row(n, NoSession, request[r].via).from = NoSession
        /\ Row(n, NoSession, request[r].via).revoked = FALSE
    BY DEF Row, NoRow
  <2> QED BY <1>1, <1>2, <2>1 DEF IInv, TypeOK
<1>4. Promise!Open(n)
  BY <1>1, <1>2, <1>3 DEF Promise!Open, Promise!Handed, Promise!With
<1> QED BY <1>4 DEF Promise!Next

LEMMA RereadPromise ==
    ASSUME IInv, NEW r \in Requests, Reread(r), ~session[request[r].s].revoked
    PROVE  Promise!Next
<1>0. At(r, "rereading") /\ UNCHANGED <<session, identity, ended>>
  BY DEF Reread
<1>1. PICK p \in Sessions : p = request[r].s /\ p \in issued
  BY <1>0, GivenSession DEF At, Presented, Refreshing
<1>2. PICK n \in Sessions : n = request[r].new /\ n \notin issued /\ session[n].from = p
  BY <1>0, <1>1 DEF IInv, RequestsFit, Fits, At
<1>3. issued' = issued \cup {n} /\ issued \subseteq Sessions
  BY <1>2 DEF Reread, Return, IInv, TypeOK
<1>4. session[p].family \notin ended /\ session[n].family = session[p].family
  BY <1>1, <1>2 DEF IInv, EndedIsDead, Successors
<1>5. ~session[n].revoked
  BY <1>0, <1>1, <1>2 DEF IInv, RequestsFit, Fits, At
<1>6. \A t \in issued : session[t].from # p
  BY <1>2, <1>3, Distinct DEF IInv, SingleUse
<1>7. Promise!Replace(p, n)
  BY <1>0, <1>1, <1>2, <1>3, <1>4, <1>5, <1>6
     DEF Promise!Replace, Promise!Handed, Promise!With
<1> QED BY <1>7 DEF Promise!Next

\* What the other steps change, no caller sees.
LEMMA UnseenSteps ==
    ASSUME IInv, NEW r \in Requests, Claim(r) \/ Mint(r) \/ Delete(r)
    PROVE  UNCHANGED Promise!vars
<1>1. issued \subseteq Sessions /\ session \in [Sessions -> SessionRow]
  BY DEF IInv, TypeOK
<1>2. UNCHANGED <<issued, ended>>
  BY DEF Claim, Mint, Delete
<1>3. CASE Claim(r)
  <2>1. ASSUME NEW s \in issued
        PROVE  /\ session'[s].family = session[s].family /\ session'[s].from = session[s].from
               /\ session'[s].revoked = session[s].revoked
    BY <1>1, <1>3 DEF Claim, SessionRow
  <2> QED BY <1>1, <1>2, <2>1, Unseen
<1>4. CASE Mint(r)
  <2>1. ASSUME NEW s \in issued PROVE session'[s] = session[s]
    BY <1>1, <1>4 DEF Mint, IInv, Recorded
  <2> QED BY <1>1, <1>2, <2>1, Unseen
<1>5. CASE Delete(r)
  <2>1. ASSUME NEW s \in issued
        PROVE  /\ session'[s].family = session[s].family /\ session'[s].from = session[s].from
               /\ session'[s].revoked = session[s].revoked
    BY <1>1, <1>5 DEF Delete, SessionRow
  <2> QED BY <1>1, <1>2, <2>1, Unseen
<1> QED BY <1>3, <1>4, <1>5

LEMMA PromiseStep == IInv /\ [Next]_vars => [Promise!Next]_(Promise!vars)
<1> SUFFICES ASSUME IInv, [Next]_vars PROVE [Promise!Next]_(Promise!vars)
  OBVIOUS
<1>1. ASSUME UNCHANGED <<session, issued, ended>> PROVE UNCHANGED Promise!vars
  BY <1>1 DEF Promise!vars
<1>2. ASSUME NEW r \in Requests, Arrive(r) \/ Leave(r) PROVE UNCHANGED Promise!vars
  BY <1>1, <1>2 DEF Arrive, Leave, Refresh, Logout, Detach, Present, SignIn
<1>3. ASSUME NEW r \in Requests, Serve(r) PROVE Promise!Next \/ UNCHANGED Promise!vars
  <2>1. CASE Find(r) \/ Verify(r) \/ Look(r) \/ List(r)
    BY <1>1, <2>1 DEF Find, Verify, Look, List
  <2>2. CASE Claim(r) \/ Mint(r) \/ Delete(r)
    BY <2>2, UnseenSteps
  <2>3. CASE Reuse(r)
    BY <2>3, ReusePromise
  <2>4. CASE Revoke(r)
    BY <2>4, RevokePromise
  <2>5. CASE Unlink(r)
    BY <2>5, UnlinkPromise
  <2>6. CASE Create(r)
    <3>1. CASE request[r].via \in identity
      BY <2>6, <3>1, CreatePromise
    <3>2. CASE request[r].via \notin identity
      BY <1>1, <2>6, <3>2 DEF Create
    <3> QED BY <3>1, <3>2
  <2>7. CASE Reread(r)
    <3>1. CASE session[request[r].s].revoked
      BY <1>1, <2>7, <3>1 DEF Reread
    <3>2. CASE ~session[request[r].s].revoked
      BY <2>7, <3>2, RereadPromise
    <3> QED BY <3>1, <3>2
  <2> QED BY <1>3, <2>1, <2>2, <2>3, <2>4, <2>5, <2>6, <2>7 DEF Serve
<1>4. CASE UNCHANGED vars
  BY <1>1, <1>4 DEF vars
<1> QED BY <1>2, <1>3, <1>4 DEF Next

\* session-service.ts, identity-service.ts: what callers see of the service, each step of every
\* request taken from one await to the next, is a behaviour of TokenFamilies.
THEOREM Implements == Spec => PromiseKept
<1>1. Init => Promise!Init
  BY PromiseInit
<1>2. IInv /\ [Next]_vars => [Promise!Next]_(Promise!vars)
  BY PromiseStep
<1> QED BY <1>1, <1>2, Inductive, PTL DEF Spec, PromiseKept, Promise!Spec

-----------------------------------------------------------------------------
(* What a step of the service is to its callers, when nobody removes an    *)
(* identity.                                                               *)

\* No request removes a way to sign in, or goes on to.
NoDetach ==
    /\ identity = Identities
    /\ \A r \in Requests :
         /\ request[r].pc \in {"idle", "signing", "verifying", "loggingOut"} \cup Refreshing \cup Answers
         /\ request[r].pc = "verifying" => request[r].op = "logout"

\* Request r goes on: it stays a refresh of its token or becomes an answer, it spends or
\* succeeds that token and no other, and a session it returns is new to everybody.
Served(r) ==
    /\ \A q \in Requests \ {r} : request'[q] = request[q]
    /\ request[r].pc \notin Answers \cup {"idle"} /\ request'[r].pc # "idle"
    /\ request'[r].pc \in Refreshing => /\ request[r].pc \in Refreshing /\ request'[r].pc # "finding"
                                        /\ request'[r].s = request[r].s
    /\ request[r].pc \in Refreshing => request'[r].pc \in Refreshing \cup {"ok", "refused"}
    /\ \A s \in Sessions :
         /\ session'[s].rotated => session[s].rotated
                                   \/ (request[r].pc \in Refreshing /\ request[r].s = s)
         /\ \/ session'[s].from = session[s].from
            \/ /\ s \notin issued
               /\ session'[s].from = NoSession
                  \/ (request[r].pc \in Refreshing /\ session'[s].from = request[r].s)
    /\ issued \subseteq issued' /\ issued' \subseteq issued \cup {request'[r].new}
    /\ request'[r].pc = "ok" => request'[r].new = NoSession
                                \/ request'[r].new \in issued' \ issued
    /\ issued' # issued => request'[r].pc = "ok"

\* What callers may count on of the tables.
LEMMA CallersFacts ==
    ASSUME IInv
    PROVE  /\ issued \subseteq Sessions
           /\ \A s \in Sessions : session[s].from \in issued \cup {NoSession}
           /\ \A r \in Requests : request[r].pc \in Refreshing => request[r].s \in issued
           /\ \A r \in Requests : /\ request[r] \in RequestRecord
                                  /\ request[r].new \in Sessions \cup {NoSession}
<1>1. ASSUME NEW s \in Sessions PROVE session[s].from \in issued \cup {NoSession}
  <2>1. session[s].from \in Sessions \cup {NoSession}
    BY DEF IInv, TypeOK, SessionRow
  <2>2. CASE session[s].from \in Sessions
    BY <2>2 DEF IInv, Successors
  <2> QED BY <2>1, <2>2
<1> QED BY <1>1 DEF IInv, TypeOK, RequestRecord, RequestsFit, Fits, Presented

\* A request that answers or goes on without the tables being touched.
LEMMA ServedAside ==
    ASSUME IInv, NEW r \in Requests, UNCHANGED <<session, issued>>,
           request[r].pc \notin Answers \cup {"idle"},
           \/ \E a \in {"ok", "refused"} : Answer(r, a)
           \/ Answer(r, "failed") /\ request[r].pc \notin Refreshing
           \/ \E pc \in Pcs \ {"idle", "finding", "ok", "failed"} :
                 /\ Go(r, pc)
                 /\ pc \in Refreshing <=> request[r].pc \in Refreshing
    PROVE  Served(r)
<1>2. request[r] \in RequestRecord /\ request \in [Requests -> RequestRecord]
  BY DEF IInv, TypeOK
<1>1. \A q \in Requests \ {r} : request'[q] = request[q]
  <2>1. \E x : request' = [request EXCEPT ![r] = x]
    BY DEF Answer, Go
  <2> QED BY <2>1, <1>2
<1>3. CASE \E a \in Answers : Answer(r, a) /\ (a = "failed" => request[r].pc \notin Refreshing)
  <2>1. PICK a \in Answers : Answer(r, a) /\ (a = "failed" => request[r].pc \notin Refreshing)
    BY <1>3
  <2>2. request'[r].pc = a /\ request'[r].new = NoSession
    BY <1>2, <2>1 DEF Answer, Idle
  <2> QED BY <1>1, <2>1, <2>2 DEF Served, Answers, Refreshing
<1>4. ASSUME NEW pc \in Pcs \ {"idle", "finding", "ok", "failed"}, Go(r, pc),
             pc \in Refreshing <=> request[r].pc \in Refreshing
      PROVE  Served(r)
  <2>1. request'[r].pc = pc /\ request'[r].s = request[r].s
    BY <1>2, <1>4 DEF Go, RequestRecord
  <2> QED BY <1>1, <1>4, <2>1 DEF Served, Answers, Refreshing
<1> QED BY <1>3, <1>4 DEF Answers

LEMMA FindServed == ASSUME IInv, NEW r \in Requests, Find(r) PROVE Served(r)
<1>0. At(r, "finding") /\ UNCHANGED <<session, identity, issued, ended>>
  BY DEF Find
<1>1. CASE Go(r, "reusing") \/ Answer(r, "refused")
  BY <1>0, <1>1, ServedAside DEF At, Answers, Refreshing, Pcs
<1>2. CASE request' = [request EXCEPT ![r].pc = "claiming", ![r].via = session[request[r].s].via]
  <2>1. request \in [Requests -> RequestRecord]
    BY DEF IInv, TypeOK
  <2>2. \A q \in Requests \ {r} : request'[q] = request[q]
    BY <1>2, <2>1
  <2>3. request'[r].pc = "claiming" /\ request'[r].s = request[r].s
    BY <1>2, <2>1 DEF RequestRecord
  <2> QED BY <1>0, <2>2, <2>3 DEF Served, At, Answers, Refreshing
<1> QED BY <1>1, <1>2 DEF Find

\* A revocation leaves alone what callers see of the other columns.
LEMMA RevokedServed ==
    ASSUME IInv, NEW r \in Requests, NEW S \in SUBSET Sessions, session' = Revoked(S),
           UNCHANGED issued, NEW a \in {"ok", "refused"}, Answer(r, a),
           request[r].pc \notin Answers \cup {"idle"}
    PROVE  Served(r)
<1>1. \A s \in Sessions : /\ session'[s].from = session[s].from
                          /\ session'[s].rotated = session[s].rotated
  BY RevokedFields DEF IInv
<1>2. request \in [Requests -> RequestRecord]
  BY DEF IInv, TypeOK
<1>3. /\ \A q \in Requests \ {r} : request'[q] = request[q]
      /\ request'[r].pc = a /\ request'[r].new = NoSession
  BY <1>2 DEF Answer, Idle
<1> QED BY <1>1, <1>3 DEF Served, Refreshing, Answers

LEMMA ClaimServed == ASSUME IInv, NEW r \in Requests, Claim(r) PROVE Served(r)
<1>0. At(r, "claiming") /\ UNCHANGED issued
  BY DEF Claim
<1>1. CASE Go(r, "reusing") /\ UNCHANGED session
  BY <1>0, <1>1, ServedAside DEF At, Answers, Refreshing, Pcs
<1>2. CASE session' = [session EXCEPT ![request[r].s].rotated = TRUE] /\ Go(r, "minting")
  <2>1. /\ request \in [Requests -> RequestRecord] /\ session \in [Sessions -> SessionRow]
        /\ request[r].s \in Sessions
    BY <1>0, CallersFacts DEF IInv, TypeOK, At, Refreshing
  <2>2. /\ \A q \in Requests \ {r} : request'[q] = request[q]
        /\ request'[r].pc = "minting" /\ request'[r].s = request[r].s
    BY <1>2, <2>1 DEF Go, RequestRecord
  <2>3. \A s \in Sessions : /\ session'[s].from = session[s].from
                            /\ s # request[r].s => session'[s].rotated = session[s].rotated
    BY <1>2, <2>1 DEF SessionRow
  <2> QED BY <1>0, <2>2, <2>3 DEF Served, At, Answers, Refreshing
<1> QED BY <1>1, <1>2 DEF Claim

LEMMA MintServed == ASSUME IInv, NoDetach, NEW r \in Requests, Mint(r) PROVE Served(r)
<1>0. /\ At(r, "minting") /\ UNCHANGED issued
      /\ request \in [Requests -> RequestRecord] /\ session \in [Sessions -> SessionRow]
  BY DEF Mint, IInv, TypeOK
<1>1. request[r].via \in identity \cup {NoIdentity}
  BY <1>0 DEF NoDetach, RequestRecord
<1>2. PICK n \in Sessions :
        /\ ~Exists(n)
        /\ session' = [session EXCEPT ![n] =
               Row(session[request[r].s].family, request[r].s, request[r].via)]
        /\ request' = [request EXCEPT ![r].pc = "rereading", ![r].new = n]
  BY <1>1 DEF Mint
<1>3. /\ \A q \in Requests \ {r} : request'[q] = request[q]
      /\ request'[r].pc = "rereading" /\ request'[r].s = request[r].s
  BY <1>0, <1>2 DEF RequestRecord
<1>4. /\ \A s \in Sessions \ {n} : session'[s] = session[s]
      /\ session'[n].from = request[r].s /\ session'[n].rotated = FALSE
  BY <1>0, <1>2 DEF Row, NoRow
<1>5. n \notin issued
  BY <1>2 DEF IInv, Recorded
<1>6. At(r, "minting") => request[r].pc \in Refreshing
  BY DEF At, Refreshing
<1>7. ASSUME NEW s \in Sessions
      PROVE  /\ session'[s].rotated => session[s].rotated
             /\ session'[s].from = session[s].from
                \/ (s \notin issued /\ session'[s].from = request[r].s)
  <2>1. CASE s = n
    BY <1>4, <1>5, <2>1
  <2>2. CASE s # n
    BY <1>4, <2>2
  <2> QED BY <2>1, <2>2
<1> QED BY <1>0, <1>3, <1>6, <1>7 DEF Served, At, Answers, Refreshing

LEMMA RereadServed == ASSUME IInv, NEW r \in Requests, Reread(r) PROVE Served(r)
<1>0. At(r, "rereading") /\ UNCHANGED session /\ request \in [Requests -> RequestRecord]
  BY DEF Reread, IInv, TypeOK
<1>1. CASE Go(r, "reusing") /\ UNCHANGED issued
  BY <1>0, <1>1, ServedAside DEF At, Answers, Refreshing, Pcs
<1>2. CASE Return(r, request[r].new)
  <2>1. /\ \A q \in Requests \ {r} : request'[q] = request[q]
        /\ request'[r].pc = "ok" /\ request'[r].new = request[r].new
        /\ issued' = issued \cup {request[r].new}
    BY <1>0, <1>2 DEF Return, Idle
  <2>2. request[r].new \notin issued
    BY <1>0 DEF IInv, RequestsFit, Fits, At
  <2> QED BY <1>0, <2>1, <2>2 DEF Served, At, Answers, Refreshing
<1> QED BY <1>1, <1>2 DEF Reread

LEMMA CreateServed == ASSUME IInv, NEW r \in Requests, Create(r) PROVE Served(r)
<1>0. /\ At(r, "signing") /\ request \in [Requests -> RequestRecord]
      /\ session \in [Sessions -> SessionRow]
  BY DEF Create, IInv, TypeOK
<1>1. CASE Answer(r, "failed") /\ UNCHANGED <<session, issued>>
  BY <1>0, <1>1, ServedAside DEF At, Answers, Refreshing
<1>2. CASE \E n \in Sessions : /\ ~Exists(n)
                               /\ session' = [session EXCEPT ![n] = Row(n, NoSession, request[r].via)]
                               /\ Return(r, n)
  <2>1. PICK n \in Sessions : /\ ~Exists(n)
                              /\ session' = [session EXCEPT ![n] = Row(n, NoSession, request[r].via)]
                              /\ Return(r, n)
    BY <1>2
  <2>2. /\ \A q \in Requests \ {r} : request'[q] = request[q]
        /\ request'[r].pc = "ok" /\ request'[r].new = n
        /\ issued' = issued \cup {n}
    BY <1>0, <2>1 DEF Return, Idle
  <2>3. n \notin issued
    BY <2>1 DEF IInv, Recorded
  <2>4. /\ \A s \in Sessions \ {n} : session'[s] = session[s]
        /\ session'[n].from = NoSession /\ session'[n].rotated = FALSE
    BY <1>0, <2>1 DEF Row, NoRow
  <2>5. ASSUME NEW s \in Sessions
        PROVE  /\ session'[s].rotated => session[s].rotated
               /\ session'[s].from = session[s].from
                  \/ (s \notin issued /\ session'[s].from = NoSession)
    <3>1. CASE s = n
      BY <2>3, <2>4, <3>1
    <3>2. CASE s # n
      BY <2>4, <3>2
    <3> QED BY <3>1, <3>2
  <2> QED BY <1>0, <2>2, <2>3, <2>5 DEF Served, At, Answers, Refreshing
<1> QED BY <1>1, <1>2 DEF Create

LEMMA ServeServed == ASSUME IInv, NoDetach, NEW r \in Requests, Serve(r) PROVE Served(r) /\ NoDetach'
<1>0. /\ request \in [Requests -> RequestRecord]
      /\ request[r].pc \notin {"looking", "listing", "unlinking", "deleting"}
      /\ request[r].pc = "verifying" => request[r].op = "logout"
  BY DEF IInv, TypeOK, NoDetach, Refreshing, Answers
<1>1. Served(r) /\ identity' = identity /\ request'[r].pc \in {"loggingOut"} \cup Refreshing \cup Answers
  <2>1. CASE Find(r)
    <3>1. Served(r)
      BY <2>1, FindServed
    <3>2. request'[r].pc \in Refreshing \cup {"ok", "refused"}
      BY <2>1, <3>1 DEF Served, Find, At, Refreshing
    <3> QED BY <2>1, <3>1, <3>2 DEF Find, Answers
  <2>2. CASE Claim(r) \/ Mint(r) \/ Reread(r)
    <3>1. Served(r)
      BY <2>2, ClaimServed, MintServed, RereadServed
    <3>2. request'[r].pc \in Refreshing \cup {"ok", "refused"}
      BY <2>2, <3>1 DEF Served, Claim, Mint, Reread, At, Refreshing
    <3> QED BY <2>2, <3>1, <3>2 DEF Claim, Mint, Reread, Answers
  <2>3. CASE Reuse(r) \/ Revoke(r)
    <3>1. PICK a \in {"ok", "refused"} : Answer(r, a)
      BY <2>3 DEF Reuse, Revoke
    <3>2. PICK S \in SUBSET Sessions : session' = Revoked(S)
      <4>1. CASE Reuse(r)
        BY <4>1 DEF Reuse
      <4>2. CASE Revoke(r)
        <5>1. request[r].s \in Sessions
          BY <4>2, CallersFacts DEF Revoke, At, IInv, RequestsFit, Fits, Presented
        <5> QED BY <4>2, <5>1 DEF Revoke
      <4> QED BY <2>3, <4>1, <4>2
    <3>3. Served(r)
      BY <2>3, <3>1, <3>2, RevokedServed DEF Reuse, Revoke, At, Answers, Refreshing
    <3>4. request'[r].pc = a
      BY <1>0, <3>1 DEF Answer
    <3> QED BY <2>3, <3>3, <3>4 DEF Reuse, Revoke, Answers
  <2>4. CASE Create(r)
    <3>1. request'[r].pc \in {"ok", "failed"}
      BY <1>0, <2>4 DEF Create, Answer, Return, Idle
    <3> QED BY <2>4, <3>1, CreateServed DEF Create, Answers
  <2>5. CASE Verify(r)
    <3>1. UNCHANGED <<session, identity, issued>> /\ At(r, "verifying")
      BY <2>5 DEF Verify
    <3>2. CASE Answer(r, "refused")
      <4>1. request'[r].pc = "refused"
        BY <1>0, <3>2 DEF Answer
      <4> QED BY <3>1, <3>2, <4>1, ServedAside DEF At, Answers, Refreshing
    <3>3. CASE Go(r, "loggingOut")
      <4>1. request'[r].pc = "loggingOut"
        BY <1>0, <3>3 DEF Go, RequestRecord
      <4> QED BY <3>1, <3>3, <4>1, ServedAside DEF At, Answers, Refreshing, Pcs
    <3> QED BY <1>0, <2>5, <3>2, <3>3 DEF Verify, At
  <2>6. ~(Look(r) \/ List(r) \/ Unlink(r) \/ Delete(r))
    BY <1>0 DEF Look, List, Unlink, Delete, At
  <2> QED BY <2>1, <2>2, <2>3, <2>4, <2>5, <2>6 DEF Serve
<1>2. NoDetach'
  <2>1. \A q \in Requests \ {r} : request'[q] = request[q]
    BY <1>1 DEF Served
  <2> QED BY <1>1, <2>1 DEF NoDetach, Refreshing, Answers
<1> QED BY <1>1, <1>2
=============================================================================
