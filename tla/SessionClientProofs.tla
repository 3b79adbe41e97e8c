------------------------ MODULE SessionClientProofs ------------------------
(***************************************************************************)
(* Proofs about SessionClient, for every number of requests, sessions,     *)
(* callers and faults: a session the client is given belongs to one job    *)
(* until that job has stored it, so the access token is never of a session *)
(* beside the token it replaced; and as long as nothing is lost the client *)
(* never presents a spent token.                                           *)
(***************************************************************************)
EXTENDS SessionClient, TLAPS

P == INSTANCE SessionServerProofs

-----------------------------------------------------------------------------
(* The service, of which SessionServerProofs knows.                        *)

\* What the service keeps, and that the client removes no identity.
Service == P!IInv /\ P!NoDetach

Refreshes(r) == request[r].pc \in Server!Refreshing
Answered(r)  == request[r].pc \in Server!Answers

\* The client has request r begun, with the token s.
Begun(r, pc, s) ==
    /\ request[r].pc = "idle"
    /\ request'[r].pc = pc /\ request'[r].s = s
    /\ \A q \in Requests \ {r} : request'[q] = request[q]
    /\ UNCHANGED <<session, issued>>

\* Nobody follows request r any more.
Gone(r) ==
    /\ request'[r].pc = "idle"
    /\ \A q \in Requests \ {r} : request'[q] = request[q]
    /\ UNCHANGED <<session, issued>>

\* What the client's proofs use of a step of the service: see Served.
LEMMA ServeIs ==
    ASSUME NEW r, Server!Serve(r)
    PROVE  P!Serve(r)
<1>1. Server!Find(r) => P!Find(r)
  BY DEF Server!Find, P!Find, Server!At, P!At, Server!Go, P!Go, Server!Answer, P!Answer,
         Server!Idle, P!Idle
<1>2. Server!Reuse(r) => P!Reuse(r)
  BY DEF Server!Reuse, P!Reuse, Server!At, P!At, Server!Revoked, P!Revoked, Server!Answer,
         P!Answer, Server!Idle, P!Idle
<1>3. Server!Claim(r) => P!Claim(r)
  BY DEF Server!Claim, P!Claim, Server!At, P!At, Server!Go, P!Go
<1>4. Server!Mint(r) => P!Mint(r)
  BY DEF Server!Mint, P!Mint, Server!At, P!At, Server!Exists, P!Exists, Server!Row, P!Row,
         Server!NoRow, P!NoRow, Server!Answer, P!Answer, Server!Idle, P!Idle
<1>5. Server!Reread(r) => P!Reread(r)
  BY DEF Server!Reread, P!Reread, Server!At, P!At, Server!Go, P!Go, Server!Return, P!Return,
         Server!Idle, P!Idle
<1>6. Server!Create(r) => P!Create(r)
  BY DEF Server!Create, P!Create, Server!At, P!At, Server!Exists, P!Exists, Server!Row, P!Row,
         Server!NoRow, P!NoRow, Server!Answer, P!Answer, Server!Idle, P!Idle, Server!Return,
         P!Return
<1>7. Server!Verify(r) => P!Verify(r)
  BY DEF Server!Verify, P!Verify, Server!At, P!At, Server!Go, P!Go, Server!Answer, P!Answer,
         Server!Idle, P!Idle
<1>8. Server!Revoke(r) => P!Revoke(r)
  BY DEF Server!Revoke, P!Revoke, Server!At, P!At, Server!Revoked, P!Revoked, Server!Answer,
         P!Answer, Server!Idle, P!Idle
<1>9. Server!Look(r) => P!Look(r)
  BY DEF Server!Look, P!Look, Server!At, P!At, Server!Go, P!Go, Server!Answer, P!Answer,
         Server!Idle, P!Idle
<1>10. Server!List(r) => P!List(r)
  BY DEF Server!List, P!List, Server!At, P!At, Server!Go, P!Go, Server!Answer, P!Answer,
         Server!Idle, P!Idle
<1>11. Server!Unlink(r) => P!Unlink(r)
  BY DEF Server!Unlink, P!Unlink, Server!At, P!At, Server!Exists, P!Exists, Server!FamiliesOf,
         P!FamiliesOf, Server!Revoked, P!Revoked, Server!Go, P!Go
<1>12. Server!Delete(r) => P!Delete(r)
  BY DEF Server!Delete, P!Delete, Server!At, P!At, Server!Answer, P!Answer, Server!Idle, P!Idle
<1> QED BY <1>1, <1>2, <1>3, <1>4, <1>5, <1>6, <1>7, <1>8, <1>9, <1>10, <1>11, <1>12
           DEF Server!Serve, P!Serve

LEMMA ServiceNext ==
    ASSUME P!IInv, NEW r \in Requests, P!Serve(r) \/ P!Arrive(r) \/ P!Leave(r)
    PROVE  P!IInv'
BY P!InvNext, ClientAssumption DEF P!Next, P!ServerAssumption

LEMMA ServedKeeps ==
    ASSUME Service, NEW r \in Requests, Server!Serve(r)
    PROVE  Service' /\ P!Served(r)
<1>1. P!Serve(r)
  BY ServeIs
<1>2. P!IInv'
  BY <1>1, ServiceNext DEF Service
<1>3. P!Served(r) /\ P!NoDetach'
  BY <1>1, P!ServeServed, ClientAssumption DEF Service, P!ServerAssumption
<1> QED BY <1>2, <1>3 DEF Service

\* The requests, as the client sees them.
LEMMA RequestsAre ==
    ASSUME Service
    PROVE  /\ request \in [Requests -> P!RequestRecord]
           /\ \A r \in Requests : Refreshes(r) => request[r].s \in issued
           /\ issued \subseteq Sessions
           /\ \A s \in Sessions : session[s].from \in issued \cup {NoSession}
BY P!CallersFacts, ClientAssumption
   DEF Service, P!ServerAssumption, P!IInv, P!TypeOK, Refreshes, P!Refreshing, Server!Refreshing

LEMMA BeginsIs ==
    ASSUME Service, NEW r \in Requests, NEW rec \in P!RequestRecord,
           rec.pc \in {"finding", "verifying", "signing"},
           rec.pc = "verifying" => rec.op = "logout",
           request[r].pc = "idle", request' = [request EXCEPT ![r] = rec],
           UNCHANGED <<session, identity, issued, ended>>
    PROVE  Begun(r, rec.pc, rec.s) /\ P!NoDetach'
<1>1. request'[r] = rec /\ \A q \in Requests \ {r} : request'[q] = request[q]
  BY RequestsAre
<1>2. rec.pc \in {"idle", "signing", "verifying", "loggingOut"} \cup P!Refreshing \cup P!Answers
  BY DEF P!Refreshing
<1>3. P!NoDetach'
  BY <1>1, <1>2 DEF Service, P!NoDetach, P!Refreshing, P!Answers
<1> QED BY <1>1, <1>3 DEF Begun

LEMMA RefreshKeeps ==
    ASSUME Service, NEW r \in Requests, NEW s \in Sessions, Server!Refresh(r, s)
    PROVE  Service' /\ Begun(r, "finding", s)
<1> DEFINE rec == [P!Idle EXCEPT !.pc = "finding", !.s = s]
<1>1. rec \in P!RequestRecord /\ rec.pc = "finding" /\ rec.s = s
  BY DEF P!RequestRecord, P!Idle, P!Pcs, P!Refreshing
<1>2. /\ request[r].pc = "idle" /\ request' = [request EXCEPT ![r] = rec]
      /\ UNCHANGED <<session, identity, issued, ended>>
  BY DEF Server!Refresh, Server!Begin, Server!At, Server!Idle, P!Idle
<1>3. P!Refresh(r, s)
  BY DEF Server!Refresh, Server!Begin, Server!At, Server!Idle,
         P!Refresh, P!Begin, P!At, P!Idle
<1> HIDE DEF rec
<1>4. Begun(r, "finding", s) /\ P!NoDetach'
  BY <1>1, <1>2, BeginsIs
<1> QED BY <1>3, <1>4, ServiceNext DEF Service, P!Arrive

LEMMA LogoutKeeps ==
    ASSUME Service, NEW r \in Requests, NEW s \in Sessions, Server!Logout(r, s)
    PROVE  Service' /\ Begun(r, "verifying", s)
<1> DEFINE rec == [P!Idle EXCEPT !.pc = "verifying", !.op = "logout", !.s = s,
                                 !.via = NoIdentity]
<1>1. rec \in P!RequestRecord /\ rec.pc = "verifying" /\ rec.s = s /\ rec.op = "logout"
  BY DEF P!RequestRecord, P!Idle, P!Pcs, P!Refreshing
<1>2. /\ request[r].pc = "idle" /\ request' = [request EXCEPT ![r] = rec]
      /\ UNCHANGED <<session, identity, issued, ended>>
  BY DEF Server!Logout, Server!Present, Server!Begin, Server!At, Server!Idle, P!Idle
<1>3. P!Logout(r, s)
  BY DEF Server!Logout, Server!Present, Server!Begin, Server!At, Server!Idle,
         P!Logout, P!Present, P!Begin, P!At, P!Idle
<1> HIDE DEF rec
<1>4. Begun(r, "verifying", s) /\ P!NoDetach'
  BY <1>1, <1>2, BeginsIs
<1> QED BY <1>3, <1>4, ServiceNext DEF Service, P!Arrive

LEMMA SignInKeeps ==
    ASSUME Service, NEW r \in Requests, NEW i \in Identities, Server!SignIn(r, i)
    PROVE  Service' /\ Begun(r, "signing", NoSession)
<1> DEFINE rec == [P!Idle EXCEPT !.pc = "signing", !.via = i]
<1>1. rec \in P!RequestRecord /\ rec.pc = "signing" /\ rec.s = NoSession
  BY DEF P!RequestRecord, P!Idle, P!Pcs, P!Refreshing
<1>2. /\ request[r].pc = "idle" /\ request' = [request EXCEPT ![r] = rec]
      /\ UNCHANGED <<session, identity, issued, ended>>
  BY DEF Server!SignIn, Server!Begin, Server!At, Server!Idle, P!Idle
<1>3. P!SignIn(r, i)
  BY DEF Server!SignIn, Server!Begin, Server!At, Server!Idle,
         P!SignIn, P!Begin, P!At, P!Idle
<1> HIDE DEF rec
<1>4. Begun(r, "signing", NoSession) /\ P!NoDetach'
  BY <1>1, <1>2, BeginsIs
<1> QED BY <1>3, <1>4, ServiceNext DEF Service, P!Arrive

LEMMA LeaveKeeps ==
    ASSUME Service, NEW r \in Requests, Server!Leave(r)
    PROVE  Service' /\ Gone(r)
<1>1. P!Leave(r)
  BY DEF Server!Leave, P!Leave, Server!At, P!At, Server!Idle, P!Idle
<1>2. request' = [request EXCEPT ![r] = P!Idle] /\ UNCHANGED <<session, identity, issued>>
  BY <1>1 DEF P!Leave
<1>3. request'[r] = P!Idle /\ \A q \in Requests \ {r} : request'[q] = request[q]
  BY <1>2, RequestsAre
<1>4. P!NoDetach' /\ Gone(r)
  BY <1>2, <1>3 DEF Gone, P!Idle, Service, P!NoDetach, P!Refreshing, P!Answers
<1> QED BY <1>1, <1>4, ServiceNext DEF Service

LEMMA ServiceStays == ASSUME Service, UNCHANGED server PROVE Service'
<1>1. P!IInv'
  BY P!InvNext, ClientAssumption DEF Service, server, P!vars, P!ServerAssumption
<1> QED BY <1>1 DEF Service, server, P!NoDetach

-----------------------------------------------------------------------------
(* The invariant.                                                          *)

Types ==
    /\ stored \in Token /\ access \in Token
    /\ job \in [Callers -> JobRecord]
    /\ \A c \in Callers : At(c, "waiting") => job[c].r \in Requests
    /\ faults \in Nat

\* A session nobody was given is not spent.
Unspent == \A s \in Sessions \ issued : ~session[s].rotated

\* A session is held, by the answer that brings it or by the job that will store it.
JobHolds(c, g)    == job[c].pc \in {"comparing", "writing"} /\ job[c].got = g
AnswerHolds(r, g) == request[r].pc = "ok" /\ request[r].new = g
Held(g) == (\E c \in Callers : JobHolds(c, g)) \/ (\E r \in Requests : AnswerHolds(r, g))

OneHolder(g) ==
    /\ \A c, d \in Callers : JobHolds(c, g) /\ JobHolds(d, g) => c = d
    /\ \A q, r \in Requests : AnswerHolds(q, g) /\ AnswerHolds(r, g) => q = r
    /\ \A c \in Callers, r \in Requests : ~(JobHolds(c, g) /\ AnswerHolds(r, g))

\* A session whose token is the access token, or is about to be.
Out(g) == g = access \/ \E c \in Callers : At(c, "writingAccess") /\ job[c].got = g

\* A session that is held is stored nowhere yet, and nobody has used it.
New(g) ==
    /\ g \in issued /\ g # stored /\ ~Out(g)
    /\ ~session[g].rotated
    /\ \A s \in Sessions : session[s].from # g
    /\ \A r \in Requests : Refreshes(r) => request[r].s # g

Kept == \A g \in Sessions : Held(g) => New(g) /\ OneHolder(g)

\* What is stored was given to the client.
Stocked ==
    /\ stored \in issued \cup {NoSession}
    /\ \A g \in Sessions : Out(g) => g \in issued

Behind == stored # NoSession => \A g \in Sessions : Out(g) => session[g].from # stored

\* One refresh at a time.
OneRefresh ==
    \A c, d \in Callers : job[c].op = "refresh" /\ job[d].op = "refresh" => c = d

\* A job that waits has a request of its own under way.
Expected ==
    /\ \A c, d \in Callers : /\ At(c, "waiting") /\ At(d, "waiting")
                             /\ job[c].r = job[d].r
                             => c = d
    /\ \A c \in Callers : At(c, "waiting") =>
          /\ request[job[c].r].pc # "idle"
          /\ job[c].op = "refresh" =>
                request[job[c].r].pc \in Server!Refreshing \cup {"ok", "refused"}

\* As long as nothing was lost: a refresh of the service is the one a job waits for ...
Followed ==
    \A r \in Requests : Refreshes(r) =>
        \E c \in Callers : /\ At(c, "waiting") /\ job[c].op = "refresh"
                           /\ job[c].r = r /\ job[c].from = request[r].s

\* ... and a stored token that is spent is being replaced or cleared by that job.
Replacing(c) ==
    /\ job[c].op = "refresh"
    /\ \/ job[c].pc \in {"waiting", "comparing"} /\ job[c].from = stored
       \/ job[c].pc \in {"writing", "clearing"}

StoredFresh ==
    stored # NoSession /\ session[stored].rotated => \E c \in Callers : Replacing(c)

CInv ==
    /\ Service
    /\ Types /\ Unspent /\ Kept /\ Stocked /\ Behind /\ OneRefresh /\ Expected
    /\ faults = 0 => Followed /\ StoredFresh /\ PresentedOnce

-----------------------------------------------------------------------------
(* The sessions that are held.                                             *)

\* A request that begins, ends or stays answers nothing new, and refreshes what is stored.
Quiet ==
    /\ UNCHANGED <<session, issued>>
    /\ \A r \in Requests, g \in Sessions : AnswerHolds(r, g)' => AnswerHolds(r, g)
    /\ \A r \in Requests : Refreshes(r)' =>
          \/ Refreshes(r) /\ request'[r].s = request[r].s
          \/ request'[r].s = stored /\ stored' = stored

LEMMA StillQuiet == ASSUME UNCHANGED server PROVE Quiet
BY DEF server, Quiet, AnswerHolds, Refreshes

LEMMA GoneQuiet ==
    ASSUME NEW r \in Requests, Gone(r)
    PROVE  Quiet
<1>1. ASSUME NEW q \in Requests
      PROVE  /\ \A g \in Sessions : AnswerHolds(q, g)' => AnswerHolds(q, g)
             /\ Refreshes(q)' => Refreshes(q) /\ request'[q].s = request[q].s
  <2>1. CASE q = r
    BY <2>1 DEF Gone, AnswerHolds, Refreshes, Server!Refreshing
  <2>2. CASE q # r
    BY <2>2 DEF Gone, AnswerHolds, Refreshes
  <2> QED BY <2>1, <2>2
<1> QED BY <1>1 DEF Quiet, Gone

LEMMA BegunQuiet ==
    ASSUME NEW r \in Requests, NEW pc \in {"finding", "verifying", "signing"}, NEW s,
           Begun(r, pc, s), pc = "finding" => s = stored /\ stored' = stored
    PROVE  Quiet
<1>1. ASSUME NEW q \in Requests
      PROVE  /\ \A g \in Sessions : AnswerHolds(q, g)' => AnswerHolds(q, g)
             /\ Refreshes(q)' => \/ Refreshes(q) /\ request'[q].s = request[q].s
                                 \/ request'[q].s = stored /\ stored' = stored
  <2>1. CASE q = r
    BY <2>1 DEF Begun, AnswerHolds, Refreshes, Server!Refreshing
  <2>2. CASE q # r
    BY <2>2 DEF Begun, AnswerHolds, Refreshes
  <2> QED BY <2>1, <2>2
<1> QED BY <1>1 DEF Quiet, Begun

\* What is held and what is out after a step that leaves the tables alone.
LEMMA HoldingKept ==
    ASSUME Unspent, Kept, Stocked, Behind, UNCHANGED <<session, issued>>,
           \A g \in Sessions : Held(g)' => Held(g) /\ OneHolder(g)',
           \/ stored' \in {stored, NoSession}
           \/ \E h \in Sessions : stored' = h /\ Held(h) /\ ~Held(h)',
           \A g \in Sessions : Out(g)' => Out(g) \/ (Held(g) /\ stored' = g /\ ~Held(g)'),
           \A r \in Requests : Refreshes(r)' =>
              \/ Refreshes(r) /\ request'[r].s = request[r].s
              \/ request'[r].s = stored /\ stored' = stored
    PROVE  Unspent' /\ Kept' /\ Stocked' /\ Behind'
<1>1. Unspent'
  BY DEF Unspent
<1>2. ASSUME NEW g \in Sessions, Held(g)' PROVE New(g)' /\ OneHolder(g)'
  <2>1. New(g) /\ OneHolder(g)'
    BY <1>2 DEF Kept
  <2>2. g # stored' /\ ~Out(g)'
    BY <1>2, <2>1, ClientAssumption DEF New
  <2>3. \A r \in Requests : Refreshes(r)' => request'[r].s # g
    BY <2>1, <2>2 DEF New
  <2> QED BY <2>1, <2>2, <2>3 DEF New
<1>3. Stocked'
  BY DEF Stocked, Kept, New
<1>4. ASSUME stored' # NoSession, NEW g \in Sessions, Out(g)' PROVE session[g].from # stored'
  <2>1. CASE stored' = stored
    <3>1. ~(Held(g) /\ stored' = g)
      BY <2>1 DEF Kept, New
    <3> QED BY <1>4, <2>1, <3>1 DEF Behind
  <2>2. CASE \E h \in Sessions : stored' = h /\ Held(h)
    BY <2>2 DEF Kept, New
  <2> QED BY <1>4, <2>1, <2>2
<1>5. Behind'
  BY <1>4 DEF Behind
<1> QED BY <1>1, <1>2, <1>3, <1>5 DEF Kept

\* No job takes a session over.
LEMMA HoldersKept ==
    ASSUME Kept, Quiet,
           \A d \in Callers, g \in Sessions : JobHolds(d, g)' => JobHolds(d, g)
    PROVE  \A g \in Sessions : Held(g)' => Held(g) /\ OneHolder(g)'
<1> SUFFICES ASSUME NEW g \in Sessions, Held(g)' PROVE Held(g) /\ OneHolder(g)'
  OBVIOUS
<1>1. Held(g)
  BY DEF Held, Quiet
<1>2. OneHolder(g)
  BY <1>1 DEF Kept
<1> QED BY <1>1, <1>2 DEF OneHolder, Quiet

\* A job goes on without taking a session over or bringing one out.
LEMMA PlainKept ==
    ASSUME Unspent, Kept, Stocked, Behind, Quiet,
           stored' \in {stored, NoSession},
           access' \in {access, NoSession} \/ (\E c \in Callers : At(c, "writingAccess")
                                                                  /\ access' = job[c].got),
           \A d \in Callers : \/ job'[d] = job[d]
                              \/ job'[d].pc \notin {"comparing", "writing", "writingAccess"}
                              \/ /\ job[d].pc = "comparing" /\ job'[d].pc = "writing"
                                 /\ job'[d].got = job[d].got
    PROVE  Unspent' /\ Kept' /\ Stocked' /\ Behind'
<1>1. \A d \in Callers, g \in Sessions : JobHolds(d, g)' => JobHolds(d, g)
  BY DEF JobHolds
<1>2. \A g \in Sessions : Held(g)' => Held(g) /\ OneHolder(g)'
  BY <1>1, HoldersKept
<1>3. \A g \in Sessions : Out(g)' => Out(g)
  BY ClientAssumption DEF Out, At
<1>4. /\ UNCHANGED <<session, issued>>
      /\ \A r \in Requests : Refreshes(r)' =>
              \/ Refreshes(r) /\ request'[r].s = request[r].s
              \/ request'[r].s = stored /\ stored' = stored
  BY DEF Quiet
<1> QED BY <1>2, <1>3, <1>4, HoldingKept

\* What each way of changing one job makes of it.
LEMMA JobIs ==
    ASSUME Types, NEW c \in Callers
    PROVE  /\ \A pc : Go(c, pc) =>
                 /\ job'[c].op = job[c].op /\ job'[c].pc = pc /\ job'[c].r = job[c].r
                 /\ job'[c].from = job[c].from /\ job'[c].got = job[c].got
                 /\ \A d \in Callers \ {c} : job'[d] = job[d]
           /\ End(c) => /\ job'[c] = NoJob
                        /\ \A d \in Callers \ {c} : job'[d] = job[d]
           /\ \A j : job' = [job EXCEPT ![c] = j] =>
                 /\ job'[c] = j
                 /\ \A d \in Callers \ {c} : job'[d] = job[d]
<1>1. job \in [Callers -> JobRecord]
  BY DEF Types
<1>2. ASSUME NEW pc, Go(c, pc)
      PROVE  /\ job'[c].op = job[c].op /\ job'[c].pc = pc /\ job'[c].r = job[c].r
             /\ job'[c].from = job[c].from /\ job'[c].got = job[c].got
             /\ \A d \in Callers \ {c} : job'[d] = job[d]
  BY <1>1, <1>2 DEF Go, JobRecord
<1>3. End(c) => /\ job'[c] = NoJob
                /\ \A d \in Callers \ {c} : job'[d] = job[d]
  BY <1>1 DEF End
<1>4. ASSUME NEW j, job' = [job EXCEPT ![c] = j]
      PROVE  job'[c] = j /\ \A d \in Callers \ {c} : job'[d] = job[d]
  BY <1>1, <1>4
<1> QED BY <1>2, <1>3, <1>4

\* A job that is over, or goes on without a session.
LEMMA TakeIs ==
    ASSUME Types, NEW c \in Callers, NEW pc, NEW got, Take(c, pc, got)
    PROVE  /\ \A d \in Callers \ {c} : job'[d] = job[d]
           /\ pc = "idle" => job'[c] = NoJob
           /\ pc # "idle" => /\ job'[c].op = job[c].op /\ job'[c].pc = pc
                             /\ job'[c].from = job[c].from /\ job'[c].got = got
                             /\ job'[c].r = "none"
BY DEF Types, Take, JobRecord

Holding == Unspent /\ Kept /\ Stocked /\ Behind

LEMMA CompareHolding ==
    ASSUME Types, Holding, NEW c \in Callers, Compare(c) PROVE Holding'
<1>1. Quiet
  BY StillQuiet DEF Compare
<1>2. \A d \in Callers \ {c} : job'[d] = job[d]
  BY JobIs DEF Compare
<1>3. job'[c].pc = "idle" \/ (job'[c].pc = "writing" /\ job'[c].got = job[c].got)
  BY JobIs DEF Compare, NoJob
<1> QED BY <1>1, <1>2, <1>3, PlainKept DEF Compare, At, Holding, store

LEMMA WriteAccessHolding ==
    ASSUME Types, Holding, NEW c \in Callers, WriteAccess(c) PROVE Holding'
<1>1. Quiet
  BY StillQuiet DEF WriteAccess
<1>2. job'[c].pc = "idle" /\ \A d \in Callers \ {c} : job'[d] = job[d]
  BY JobIs DEF WriteAccess, NoJob
<1> QED BY <1>1, <1>2, PlainKept DEF WriteAccess, Holding

LEMMA ClearHolding ==
    ASSUME Types, Holding, NEW c \in Callers, Clear(c) \/ ClearAccess(c) PROVE Holding'
<1>1. Quiet
  BY StillQuiet DEF Clear, ClearAccess
<1>2. /\ job'[c].pc \in {"idle", "clearingAccess"}
      /\ \A d \in Callers \ {c} : job'[d] = job[d]
  BY JobIs DEF Clear, ClearAccess, NoJob
<1> QED BY <1>1, <1>2, PlainKept DEF Clear, ClearAccess, Holding

LEMMA EvictHolding == ASSUME Holding, Evict PROVE Holding'
<1>1. Quiet
  BY StillQuiet DEF Evict
<1>2. \A d \in Callers : job'[d].pc = "idle"
  BY DEF Evict, NoJob
<1> QED BY <1>1, <1>2, PlainKept DEF Evict, Holding, store

LEMMA LoseHolding ==
    ASSUME Service, Types, Holding, NEW c \in Callers, Lose(c) PROVE Holding'
<1>1. Quiet
  <2>1. CASE UNCHANGED server
    BY <2>1, StillQuiet
  <2>2. CASE Server!Leave(job[c].r)
    BY <2>2, LeaveKeeps, GoneQuiet DEF Lose, Types
  <2> QED BY <2>1, <2>2 DEF Lose
<1>2. /\ job'[c].pc \in {"idle", "clearing"}
      /\ \A d \in Callers \ {c} : job'[d] = job[d]
  BY TakeIs DEF Lose, NoJob, AfterReply
<1> QED BY <1>1, <1>2, PlainKept DEF Lose, Holding, store

LEMMA WaitingIs ==
    ASSUME NEW op \in {"none", "refresh", "logout", "signIn"}, NEW r \in Requests,
           NEW from \in Token
    PROVE  /\ Waiting(op, r, from) \in JobRecord
           /\ Waiting(op, r, from).op = op /\ Waiting(op, r, from).pc = "waiting"
           /\ Waiting(op, r, from).r = r /\ Waiting(op, r, from).from = from
BY DEF Waiting, NoJob, JobRecord, Token

\* A new job j of c: it clears, or waits for a request it has begun.
StartedAs(c, j) ==
    /\ Free(c) /\ j \in JobRecord /\ job' = [job EXCEPT ![c] = j]
    /\ UNCHANGED <<store, faults>>
    /\ \/ UNCHANGED server /\ j.op = "logout" /\ j.pc = "clearing"
       \/ /\ j.pc = "waiting"
          /\ \E r \in Requests :
                /\ j.r = r
                /\ \/ /\ j.op = "refresh" /\ j.from = stored /\ stored # NoSession /\ ~inFlight
                      /\ Begun(r, "finding", stored)
                   \/ j.op = "logout" /\ Begun(r, "verifying", access)
                   \/ j.op = "signIn" /\ Begun(r, "signing", NoSession)

LEMMA StartIs ==
    ASSUME Service, Types, NEW c \in Callers, Start(c)
    PROVE  Service' /\ \E j : StartedAs(c, j)
<1>1. CASE StartRefresh(c)
  <2>1. PICK r \in Requests : /\ Server!Refresh(r, stored)
                              /\ job' = [job EXCEPT ![c] = Waiting("refresh", r, stored)]
    BY <1>1 DEF StartRefresh
  <2>2. stored \in Sessions /\ stored \in Token
    BY <1>1 DEF StartRefresh, Types, Token
  <2>3. Service' /\ Begun(r, "finding", stored)
    BY <2>1, <2>2, RefreshKeeps
  <2> DEFINE j == Waiting("refresh", r, stored)
  <2>4. /\ j \in JobRecord /\ j.op = "refresh" /\ j.pc = "waiting"
        /\ j.r = r /\ j.from = stored
    BY <2>2, WaitingIs
  <2>5. /\ job' = [job EXCEPT ![c] = j] /\ Free(c) /\ ~inFlight /\ stored # NoSession
        /\ UNCHANGED <<store, faults>>
    BY <1>1, <2>1 DEF StartRefresh
  <2> HIDE DEF j
  <2>6. StartedAs(c, j)
    BY <2>3, <2>4, <2>5 DEF StartedAs
  <2> QED BY <2>3, <2>6
<1>2. CASE StartLogout(c) /\ access = NoSession
  <2> DEFINE j == [NoJob EXCEPT !.op = "logout", !.pc = "clearing"]
  <2>1. j \in JobRecord /\ j.op = "logout" /\ j.pc = "clearing"
    BY DEF NoJob, JobRecord, Token
  <2>2. job' = [job EXCEPT ![c] = j] /\ Free(c) /\ UNCHANGED <<server, store, faults>>
    BY <1>2 DEF StartLogout
  <2> HIDE DEF j
  <2>3. StartedAs(c, j)
    BY <2>1, <2>2 DEF StartedAs
  <2> QED BY <2>2, <2>3, ServiceStays
<1>3. CASE StartLogout(c) /\ access # NoSession
  <2>1. PICK r \in Requests : /\ Server!Logout(r, access)
                              /\ job' = [job EXCEPT ![c] = Waiting("logout", r, access)]
    BY <1>3 DEF StartLogout
  <2>2. access \in Sessions /\ access \in Token
    BY <1>3 DEF Types, Token
  <2>3. Service' /\ Begun(r, "verifying", access)
    BY <2>1, <2>2, LogoutKeeps
  <2>4. StartedAs(c, Waiting("logout", r, access))
    BY <1>3, <2>1, <2>2, <2>3, WaitingIs DEF StartedAs, StartLogout
  <2> QED BY <2>3, <2>4
<1>4. CASE StartSignIn(c)
  <2>1. PICK r \in Requests, i \in Identities :
            /\ Server!SignIn(r, i)
            /\ job' = [job EXCEPT ![c] = Waiting("signIn", r, NoSession)]
    BY <1>4 DEF StartSignIn
  <2>2. Service' /\ Begun(r, "signing", NoSession)
    BY <2>1, SignInKeeps
  <2> DEFINE j == Waiting("signIn", r, NoSession)
  <2>3. j \in JobRecord /\ j.op = "signIn" /\ j.pc = "waiting" /\ j.r = r
    BY WaitingIs DEF Token
  <2>4. /\ job' = [job EXCEPT ![c] = j] /\ Free(c)
        /\ UNCHANGED <<store, faults>>
    BY <1>4, <2>1 DEF StartSignIn
  <2> HIDE DEF j
  <2>5. StartedAs(c, j)
    BY <2>2, <2>3, <2>4 DEF StartedAs
  <2> QED BY <2>2, <2>5
<1> QED BY <1>1, <1>2, <1>3, <1>4 DEF Start

LEMMA StartHolding ==
    ASSUME Types, Holding, NEW c \in Callers, NEW j, StartedAs(c, j) PROVE Holding'
<1>1. Quiet
  BY StillQuiet, BegunQuiet DEF StartedAs, store
<1>2. /\ job'[c].pc \in {"waiting", "clearing"}
      /\ \A d \in Callers \ {c} : job'[d] = job[d]
  BY JobIs DEF StartedAs
<1> QED BY <1>1, <1>2, PlainKept DEF StartedAs, Holding, store

\* A session is stored by the job that holds it, and held no more.
LEMMA WriteHolding ==
    ASSUME Types, Holding, NEW c \in Callers, Write(c) PROVE Holding'
<1> SUFFICES ASSUME NEW h, h = job[c].got PROVE Holding'
  OBVIOUS
<1>1. Quiet
  BY StillQuiet DEF Write
<1>2. /\ job'[c].pc = "writingAccess" /\ job'[c].got = h
      /\ \A d \in Callers \ {c} : job'[d] = job[d]
  BY JobIs DEF Write
<1>3. \A d \in Callers, g \in Sessions : JobHolds(d, g)' => JobHolds(d, g)
  BY <1>2 DEF JobHolds
<1>4. \A g \in Sessions : Held(g)' => Held(g) /\ OneHolder(g)'
  BY <1>1, <1>3, HoldersKept DEF Holding
<1>5. h \in Token /\ JobHolds(c, h) /\ ~JobHolds(c, h)'
  BY <1>2 DEF Types, JobRecord, JobHolds, Write, At
<1>6. ASSUME h \in Sessions PROVE Held(h) /\ ~Held(h)'
  <2>1. Held(h) /\ OneHolder(h)
    BY <1>5, <1>6 DEF Held, Holding, Kept
  <2>2. \A d \in Callers : ~JobHolds(d, h)'
    BY <1>2, <1>3, <1>5, <1>6, <2>1 DEF OneHolder
  <2>3. \A r \in Requests : ~AnswerHolds(r, h)'
    BY <1>1, <1>5, <1>6, <2>1 DEF OneHolder, Quiet
  <2> QED BY <2>1, <2>2, <2>3 DEF Held
<1>7. stored' = h /\ UNCHANGED access
  BY DEF Write
<1>8. \/ stored' \in {stored, NoSession}
      \/ \E g \in Sessions : stored' = g /\ Held(g) /\ ~Held(g)'
  BY <1>5, <1>6, <1>7 DEF Token
<1>9. \A g \in Sessions : Out(g)' => Out(g) \/ (Held(g) /\ stored' = g /\ ~Held(g)')
  BY <1>2, <1>6, <1>7 DEF Out, At
<1>10. /\ UNCHANGED <<session, issued>>
       /\ \A r \in Requests : Refreshes(r)' =>
              \/ Refreshes(r) /\ request'[r].s = request[r].s
              \/ request'[r].s = stored /\ stored' = stored
  BY <1>1 DEF Quiet
<1> QED BY <1>4, <1>8, <1>9, <1>10, HoldingKept DEF Holding

\* A session passes from the answer to the job that waited for it.
LEMMA ReceiveHolding ==
    ASSUME Service, Types, Holding, NEW c \in Callers, Receive(c) PROVE Holding'
<1> DEFINE r == job[c].r
           reply == request[r]
           pc == AfterReply(job[c].op, reply.pc)
<1>1. /\ At(c, "waiting") /\ r \in Requests /\ reply.pc \in Server!Answers
      /\ Take(c, pc, reply.new) /\ Server!Leave(r) /\ UNCHANGED <<store, faults>>
  BY DEF Receive, Types
<1>2. Gone(r)
  BY <1>1, LeaveKeeps
<1>3. Quiet
  BY <1>1, <1>2, GoneQuiet
<1>4. \A d \in Callers \ {c} : job'[d] = job[d]
  BY <1>1, TakeIs
<1>5. /\ pc \in {"clearing", "comparing", "writing", "idle"}
      /\ pc \in {"comparing", "writing"} => reply.pc = "ok"
  BY DEF AfterReply
<1>6. /\ job'[c].pc \in {"comparing", "writing"} => reply.pc = "ok" /\ job'[c].got = reply.new
      /\ job'[c].pc # "writingAccess"
  BY <1>1, <1>5, TakeIs DEF NoJob
<1> HIDE DEF pc, reply
<1>7. \A g \in Sessions : JobHolds(c, g)' => AnswerHolds(r, g)
  BY <1>6 DEF JobHolds, AnswerHolds, reply
<1>8. \A d \in Callers \ {c}, g \in Sessions : JobHolds(d, g)' => JobHolds(d, g)
  BY <1>4 DEF JobHolds
<1>9. \A q \in Requests, g \in Sessions : AnswerHolds(q, g)' => AnswerHolds(q, g) /\ q # r
  BY <1>2, <1>3 DEF Quiet, Gone, AnswerHolds
<1>10. ASSUME NEW g \in Sessions, Held(g)' PROVE Held(g) /\ OneHolder(g)'
  <2>1. Held(g)
    BY <1>1, <1>7, <1>8, <1>9, <1>10 DEF Held
  <2>2. OneHolder(g)
    BY <2>1 DEF Holding, Kept
  <2>3. \A d, e \in Callers : JobHolds(d, g)' /\ JobHolds(e, g)' => d = e
    BY <1>1, <1>7, <1>8, <2>2 DEF OneHolder
  <2>4. \A q, p \in Requests : AnswerHolds(q, g)' /\ AnswerHolds(p, g)' => q = p
    BY <1>9, <2>2 DEF OneHolder
  <2>5. \A d \in Callers, q \in Requests : ~(JobHolds(d, g)' /\ AnswerHolds(q, g)')
    BY <1>1, <1>7, <1>8, <1>9, <2>2 DEF OneHolder
  <2> QED BY <2>1, <2>3, <2>4, <2>5 DEF OneHolder
<1>11. \A g \in Sessions : Out(g)' => Out(g)
  BY <1>1, <1>4, <1>6 DEF Out, At, store
<1>12. /\ UNCHANGED <<session, issued>>
       /\ \A q \in Requests : Refreshes(q)' =>
              \/ Refreshes(q) /\ request'[q].s = request[q].s
              \/ request'[q].s = stored /\ stored' = stored
  BY <1>3 DEF Quiet
<1>13. stored' = stored
  BY <1>1 DEF store
<1> QED BY <1>10, <1>11, <1>12, <1>13, HoldingKept DEF Holding

\* A step of the service brings at most one session, which is new to everybody.
LEMMA ServedHolding ==
    ASSUME Service, Types, Holding, NEW r \in Requests, P!Served(r), UNCHANGED <<store, job>>
    PROVE  Holding'
<1>1. /\ \A q \in Requests \ {r} : request'[q] = request[q]
      /\ ~(request[r].pc = "ok")
      /\ Refreshes(r)' => Refreshes(r) /\ request'[r].s = request[r].s
      /\ \A s \in Sessions :
           /\ session'[s].rotated => session[s].rotated \/ (Refreshes(r) /\ request[r].s = s)
           /\ \/ session'[s].from = session[s].from
              \/ /\ s \notin issued
                 /\ session'[s].from = NoSession
                    \/ (Refreshes(r) /\ session'[s].from = request[r].s)
      /\ issued \subseteq issued'
      /\ request'[r].pc = "ok" => request'[r].new = NoSession
                                  \/ request'[r].new \in issued' \ issued
  BY DEF P!Served, Refreshes, P!Refreshing, Server!Refreshing, P!Answers
<1>2. /\ \A q \in Requests : Refreshes(q) => request[q].s \in issued
      /\ \A s \in Sessions : session[s].from \in issued \cup {NoSession}
  BY RequestsAre
<1>3. Unspent'
  BY <1>1, <1>2 DEF Unspent, Holding
<1>4. /\ stored' = stored /\ access' = access /\ job' = job
      /\ \A g \in Sessions : Out(g)' <=> Out(g)
  BY DEF store, Out, At
<1>5. \A d \in Callers, g \in Sessions : JobHolds(d, g)' <=> JobHolds(d, g)
  BY <1>4 DEF JobHolds
<1>6. \A q \in Requests, g \in Sessions : AnswerHolds(q, g)' =>
          AnswerHolds(q, g) \/ (q = r /\ g \notin issued /\ g \in issued')
  BY <1>1, ClientAssumption DEF AnswerHolds
<1>7. \A q \in Requests : Refreshes(q)' => Refreshes(q) /\ request'[q].s = request[q].s
  BY <1>1 DEF Refreshes
<1>8. ASSUME NEW g \in Sessions, Held(g)', g \in issued PROVE New(g)' /\ OneHolder(g)'
  <2>1. Held(g) /\ New(g) /\ OneHolder(g)
    BY <1>5, <1>6, <1>8 DEF Held, Holding, Kept
  <2>2. ~session'[g].rotated /\ \A s \in Sessions : session'[s].from # g
    BY <1>1, <2>1, ClientAssumption DEF New
  <2>3. New(g)'
    BY <1>1, <1>4, <1>7, <2>1, <2>2 DEF New
  <2>4. OneHolder(g)'
    BY <1>5, <1>6, <1>8, <2>1 DEF OneHolder
  <2> QED BY <2>3, <2>4
<1>9. ASSUME NEW g \in Sessions, Held(g)', g \notin issued PROVE New(g)' /\ OneHolder(g)'
  <2>1. ~Held(g) /\ g # stored /\ ~Out(g) /\ ~session[g].rotated
    BY <1>9, ClientAssumption DEF Holding, Kept, New, Stocked, Unspent
  <2>2. AnswerHolds(r, g)' /\ g \in issued'
    BY <1>5, <1>6, <1>9, <2>1 DEF Held
  <2>3. ~session'[g].rotated /\ \A s \in Sessions : session'[s].from # g
    BY <1>1, <1>2, <1>9, <2>1, ClientAssumption
  <2>4. \A q \in Requests : Refreshes(q)' => request'[q].s # g
    BY <1>2, <1>7, <1>9
  <2>5. New(g)'
    BY <1>4, <2>1, <2>2, <2>3, <2>4 DEF New
  <2>6. OneHolder(g)'
    BY <1>5, <1>6, <1>9, <2>1 DEF OneHolder, Held
  <2> QED BY <2>5, <2>6
<1>10. Kept'
  BY <1>8, <1>9 DEF Kept
<1>11. Stocked'
  BY <1>1, <1>4 DEF Stocked, Holding
<1>12. Behind'
  BY <1>1, <1>4 DEF Behind, Stocked, Holding
<1> QED BY <1>3, <1>10, <1>11, <1>12 DEF Holding

\* What a request of nobody leaves behind.
LEMMA ServeHolding ==
    ASSUME Service, Types, Holding, NEW r \in Requests, Serve(r) PROVE Holding'
<1>1. CASE Server!Serve(r)
  <2>1. P!Served(r)
    BY <1>1, ServedKeeps
  <2> QED BY <2>1, ServedHolding DEF Serve
<1>2. CASE Server!Leave(r)
  <2>1. Quiet
    BY <1>2, LeaveKeeps, GoneQuiet
  <2> QED BY <2>1, PlainKept DEF Serve, Holding, store
<1> QED BY <1>1, <1>2 DEF Serve

-----------------------------------------------------------------------------
(* The jobs.                                                               *)

\* Request r goes on, if not unchanged.
Refreshed  == Server!Refreshing \cup {"ok", "refused"}
GoesOn(r) ==
    /\ request'[r].pc # "idle"
    /\ request[r].pc \in Refreshed => request'[r].pc \in Refreshed

LEMMA ExpectedKept ==
    ASSUME Types, Expected,
           \A d \in Callers : At(d, "waiting")' =>
               /\ At(d, "waiting") /\ job'[d].r = job[d].r /\ job'[d].op = job[d].op
               /\ request'[job[d].r].pc = request[job[d].r].pc \/ GoesOn(job[d].r)
    PROVE  Expected'
<1>1. \A c, d \in Callers : At(c, "waiting")' /\ At(d, "waiting")' /\ job'[c].r = job'[d].r
                               => c = d
  BY DEF Expected
<1>2. ASSUME NEW d \in Callers, At(d, "waiting")'
      PROVE  /\ request'[job'[d].r].pc # "idle"
             /\ job'[d].op = "refresh" => request'[job'[d].r].pc \in Refreshed
  BY <1>2 DEF Expected, GoesOn, Refreshed
<1> QED BY <1>1, <1>2 DEF Expected, Refreshed

LEMMA ExpectedStart ==
    ASSUME Types, Expected, NEW c \in Callers, NEW r \in Requests, NEW pc, NEW s,
           pc # "idle", Begun(r, pc, s), job'[c].r = r,
           job'[c].op = "refresh" => pc = "finding",
           \A d \in Callers \ {c} : job'[d] = job[d]
    PROVE  Expected'
<1>1. ASSUME NEW d \in Callers \ {c}, At(d, "waiting")'
      PROVE  /\ At(d, "waiting") /\ job'[d].r = job[d].r /\ job'[d].op = job[d].op
             /\ job'[d].r # r /\ job[d].r \in Requests
             /\ request'[job[d].r] = request[job[d].r]
  <2>1. At(d, "waiting") /\ job'[d] = job[d]
    BY <1>1 DEF At
  <2>2. job[d].r \in Requests /\ request[job[d].r].pc # "idle"
    BY <2>1 DEF Types, Expected
  <2> QED BY <2>1, <2>2 DEF Begun
<1>2. request'[r].pc = pc /\ (job'[c].op = "refresh" => pc \in Server!Refreshing)
  BY DEF Begun, Server!Refreshing
<1>3. \A d, e \in Callers : At(d, "waiting")' /\ At(e, "waiting")' /\ job'[d].r = job'[e].r
                               => d = e
  BY <1>1 DEF Expected
<1>4. ASSUME NEW d \in Callers, At(d, "waiting")'
      PROVE  /\ request'[job'[d].r].pc # "idle"
             /\ job'[d].op = "refresh" =>
                  request'[job'[d].r].pc \in Server!Refreshing \cup {"ok", "refused"}
  <2>1. CASE d = c
    BY <1>2, <2>1
  <2>2. CASE d # c
    BY <1>1, <1>4, <2>2 DEF Expected
  <2> QED BY <2>1, <2>2
<1> QED BY <1>3, <1>4 DEF Expected

\* Nobody else waits for the request of c.
LEMMA ExpectedEnd ==
    ASSUME Types, Expected, NEW c \in Callers, At(c, "waiting"), ~At(c, "waiting")',
           Gone(job[c].r) \/ UNCHANGED server,
           \A d \in Callers \ {c} : job'[d] = job[d]
    PROVE  Expected'
<1>1. ASSUME NEW d \in Callers, At(d, "waiting")'
      PROVE  /\ At(d, "waiting") /\ job'[d].r = job[d].r /\ job'[d].op = job[d].op
             /\ request'[job[d].r].pc = request[job[d].r].pc
  <2>1. d # c /\ job'[d] = job[d] /\ At(d, "waiting")
    BY <1>1 DEF At
  <2>2. job[d].r \in Requests /\ job[d].r # job[c].r
    BY <2>1 DEF Types, Expected
  <2> QED BY <2>1, <2>2 DEF Gone, server
<1> QED BY <1>1, ExpectedKept

LEMMA OneRefreshKept ==
    ASSUME OneRefresh,
           \A d \in Callers : job'[d].op = "refresh" => job[d].op = "refresh"
    PROVE  OneRefresh'
BY DEF OneRefresh

Jobs == Types /\ OneRefresh /\ Expected

\* A new job of c, and the old ones.
LEMMA JobsStarted ==
    ASSUME Jobs, NEW c \in Callers, NEW j \in JobRecord, job' = [job EXCEPT ![c] = j],
           UNCHANGED <<store, faults>>,
           j.op = "refresh" => ~inFlight,
           \/ UNCHANGED server /\ j.pc # "waiting"
           \/ \E r \in Requests, pc \in {"finding", "verifying", "signing"} : \E s :
                 /\ Begun(r, pc, s) /\ j.r = r
                 /\ j.op = "refresh" => pc = "finding"
    PROVE  Jobs'
<1>1. job'[c] = j /\ \A d \in Callers \ {c} : job'[d] = job[d]
  BY JobIs DEF Jobs
<1>2. Types'
  <2>1. job' \in [Callers -> JobRecord]
    BY DEF Jobs, Types
  <2>2. j.pc = "waiting" => j.r \in Requests
    OBVIOUS
  <2> QED BY <1>1, <2>1, <2>2 DEF Jobs, Types, At, store
<1>3. OneRefresh'
  BY <1>1 DEF Jobs, OneRefresh, inFlight
<1>4. CASE UNCHANGED server /\ j.pc # "waiting"
  <2>1. Expected'
    BY <1>1, <1>4, ExpectedKept DEF Jobs, At, server
  <2> QED BY <1>2, <1>3, <2>1 DEF Jobs
<1>5. ASSUME NEW r \in Requests, NEW pc \in {"finding", "verifying", "signing"}, NEW s,
             Begun(r, pc, s), j.r = r, j.op = "refresh" => pc = "finding"
      PROVE  Jobs'
  <2>1. Expected'
    BY <1>1, <1>5, ExpectedStart DEF Jobs
  <2> QED BY <1>2, <1>3, <2>1 DEF Jobs
<1> QED BY <1>4, <1>5

\* Job c goes on, its request untouched or at an end.
LEMMA JobsGoOn ==
    ASSUME Jobs, NEW c \in Callers, job' \in [Callers -> JobRecord],
           stored' \in Token, access' \in Token, faults' \in Nat,
           \A d \in Callers \ {c} : job'[d] = job[d],
           job'[c].pc # "waiting", job'[c].op = "refresh" => job[c].op = "refresh",
           UNCHANGED server \/ (At(c, "waiting") /\ Gone(job[c].r))
    PROVE  Jobs'
<1>1. Types'
  BY DEF Jobs, Types, At
<1>2. OneRefresh'
  BY OneRefreshKept DEF Jobs
<1>3. CASE UNCHANGED server
  <2>1. Expected'
    BY <1>3, ExpectedKept DEF Jobs, At, server
  <2> QED BY <1>1, <1>2, <2>1 DEF Jobs
<1>4. CASE At(c, "waiting") /\ Gone(job[c].r)
  <2>1. Expected'
    BY <1>4, ExpectedEnd DEF Jobs, At
  <2> QED BY <1>1, <1>2, <2>1 DEF Jobs
<1> QED BY <1>3, <1>4

LEMMA StartJobs ==
    ASSUME Jobs, NEW c \in Callers, NEW j, StartedAs(c, j) PROVE Jobs'
<1>1. CASE UNCHANGED server /\ j.op = "logout" /\ j.pc = "clearing"
  BY <1>1, JobsStarted DEF StartedAs
<1>2. ASSUME NEW r \in Requests, j.r = r,
             \/ /\ j.op = "refresh" /\ j.from = stored /\ stored # NoSession /\ ~inFlight
                /\ Begun(r, "finding", stored)
             \/ j.op = "logout" /\ Begun(r, "verifying", access)
             \/ j.op = "signIn" /\ Begun(r, "signing", NoSession)
      PROVE  Jobs'
  <2>1. \E pc \in {"finding", "verifying", "signing"} : \E s :
            Begun(r, pc, s) /\ (j.op = "refresh" => pc = "finding")
    BY <1>2
  <2>2. j.op = "refresh" => ~inFlight
    BY <1>2
  <2> QED BY <1>2, <2>1, <2>2, JobsStarted DEF StartedAs
<1> QED BY <1>1, <1>2 DEF StartedAs

\* The answer a job takes, or that there is none.
LEMMA TakeJobs ==
    ASSUME Jobs, NEW c \in Callers, At(c, "waiting"),
           NEW pc \in {"idle", "clearing", "comparing", "writing"}, NEW got \in Token,
           Take(c, pc, got), UNCHANGED store, faults' \in Nat,
           UNCHANGED server \/ Gone(job[c].r)
    PROVE  Jobs'
<1>1. \A d \in Callers \ {c} : job'[d] = job[d]
  BY TakeIs DEF Jobs
<1>2. job'[c].pc # "waiting" /\ (job'[c].op = "refresh" => job[c].op = "refresh")
  BY TakeIs DEF Jobs, NoJob
<1>3. job' \in [Callers -> JobRecord]
  <2>1. NoJob \in JobRecord
    BY DEF NoJob, JobRecord, Token
  <2>2. [job[c] EXCEPT !.pc = pc, !.r = "none", !.got = got] \in JobRecord
    BY DEF Jobs, Types, JobRecord
  <2> QED BY <2>1, <2>2 DEF Take, Jobs, Types
<1>4. stored' \in Token /\ access' \in Token
  BY DEF Jobs, Types, store
<1> QED BY <1>1, <1>2, <1>3, <1>4, JobsGoOn

LEMMA ReceiveJobs ==
    ASSUME Service, Jobs, NEW c \in Callers, Receive(c) PROVE Service' /\ Jobs'
<1> DEFINE reply == request[job[c].r]
           pc == AfterReply(job[c].op, reply.pc)
<1>1. /\ At(c, "waiting") /\ job[c].r \in Requests /\ Take(c, pc, reply.new)
      /\ Server!Leave(job[c].r) /\ UNCHANGED <<store, faults>>
  BY DEF Receive, Jobs, Types
<1>2. Service' /\ Gone(job[c].r)
  BY <1>1, LeaveKeeps
<1>3. pc \in {"idle", "clearing", "comparing", "writing"}
  BY DEF AfterReply
<1>4. reply.new \in Token
  BY <1>1, RequestsAre DEF P!RequestRecord, Token
<1>5. faults' \in Nat
  BY <1>1 DEF Jobs, Types
<1> HIDE DEF pc, reply
<1> QED BY <1>1, <1>2, <1>3, <1>4, <1>5, TakeJobs

LEMMA LoseJobs ==
    ASSUME Service, Jobs, NEW c \in Callers, Lose(c) PROVE Service' /\ Jobs'
<1>1. /\ At(c, "waiting") /\ job[c].r \in Requests
      /\ Take(c, AfterReply(job[c].op, "failed"), NoSession)
      /\ UNCHANGED store /\ faults' \in Nat
  BY DEF Lose, Jobs, Types
<1>2. Service' /\ (UNCHANGED server \/ Gone(job[c].r))
  BY <1>1, LeaveKeeps, ServiceStays DEF Lose
<1>3. AfterReply(job[c].op, "failed") \in {"idle", "clearing", "comparing", "writing"}
  BY DEF AfterReply
<1>4. NoSession \in Token
  BY DEF Token
<1> QED BY <1>1, <1>2, <1>3, <1>4, TakeJobs

\* Writing down what was received.
Writes(c) == Compare(c) \/ Write(c) \/ WriteAccess(c) \/ Clear(c) \/ ClearAccess(c)

LEMMA WritesIs ==
    ASSUME Types, NEW c \in Callers, Writes(c)
    PROVE  /\ UNCHANGED server /\ faults' = faults
           /\ stored' \in Token /\ access' \in Token
           /\ job' \in [Callers -> JobRecord]
           /\ \A d \in Callers \ {c} : job'[d] = job[d]
           /\ job[c].pc # "waiting" /\ job'[c].pc # "waiting"
           /\ job'[c].op = "refresh" => job[c].op = "refresh"
<1>1. /\ UNCHANGED server /\ faults' = faults /\ job[c].pc # "waiting"
      /\ (\E pc \in {"writing", "writingAccess", "clearingAccess"} : Go(c, pc)) \/ End(c)
  BY DEF Writes, Compare, Write, WriteAccess, Clear, ClearAccess, At
<1>2. stored' \in Token /\ access' \in Token
  BY DEF Writes, Compare, Write, WriteAccess, Clear, ClearAccess, Types, Token, JobRecord, store
<1>3. ASSUME NEW pc \in {"writing", "writingAccess", "clearingAccess"}, Go(c, pc)
      PROVE  /\ job' \in [Callers -> JobRecord]
             /\ \A d \in Callers \ {c} : job'[d] = job[d]
             /\ job'[c].pc # "waiting" /\ job'[c].op = job[c].op
  <2>1. [job[c] EXCEPT !.pc = pc] \in JobRecord
    BY DEF Types, JobRecord
  <2> QED BY <1>3, <2>1, JobIs DEF Go, Types
<1>4. CASE End(c)
  <2>1. NoJob \in JobRecord /\ NoJob.pc = "idle" /\ NoJob.op = "none"
    BY DEF NoJob, JobRecord, Token
  <2> QED BY <1>1, <1>2, <1>4, <2>1, JobIs DEF End, Types
<1> QED BY <1>1, <1>2, <1>3, <1>4

LEMMA WritesJobs ==
    ASSUME Service, Jobs, NEW c \in Callers, Writes(c) PROVE Service' /\ Jobs'
<1>1. faults' \in Nat
  BY WritesIs DEF Jobs, Types
<1> QED BY <1>1, WritesIs, ServiceStays, JobsGoOn DEF Jobs

LEMMA EvictJobs == ASSUME Service, Jobs, Evict PROVE Service' /\ Jobs'
<1>1. /\ UNCHANGED <<server, store>> /\ faults' \in Nat
      /\ job' = [c \in Callers |-> NoJob]
  BY DEF Evict, Jobs, Types
<1>2. NoJob \in JobRecord /\ NoJob.pc = "idle" /\ NoJob.op = "none"
  BY DEF NoJob, JobRecord, Token
<1>3. Types'
  BY <1>1, <1>2 DEF Jobs, Types, At, store
<1>4. OneRefresh' /\ Expected'
  BY <1>1, <1>2 DEF OneRefresh, Expected, At
<1> QED BY <1>1, <1>3, <1>4, ServiceStays DEF Jobs

LEMMA ServeJobs ==
    ASSUME Service, Jobs, NEW r \in Requests, Serve(r) PROVE Service' /\ Jobs'
<1>1. UNCHANGED <<store, job, faults>>
  BY DEF Serve
<1>2. Types' /\ OneRefresh'
  BY <1>1 DEF Jobs, Types, OneRefresh, At, store
<1>3. CASE Server!Serve(r)
  <2>1. Service' /\ P!Served(r)
    BY <1>3, ServedKeeps
  <2>2. GoesOn(r) /\ \A q \in Requests \ {r} : request'[q] = request[q]
    BY <2>1 DEF P!Served, GoesOn, Refreshed, P!Refreshing, Server!Refreshing, P!Answers
  <2>3. Expected'
    BY <1>1, <2>2, ExpectedKept DEF Jobs, Types, At
  <2> QED BY <1>2, <2>1, <2>3 DEF Jobs
<1>4. CASE Server!Leave(r) /\ ~Awaited(r)
  <2>1. Service' /\ \A q \in Requests \ {r} : request'[q] = request[q]
    BY <1>4, LeaveKeeps DEF Gone
  <2>2. \A d \in Callers : At(d, "waiting") => job[d].r # r
    BY <1>4 DEF Awaited
  <2>3. Expected'
    BY <1>1, <2>1, <2>2, ExpectedKept DEF Jobs, Types, At
  <2> QED BY <1>2, <2>1, <2>3 DEF Jobs
<1> QED BY <1>3, <1>4 DEF Serve

-----------------------------------------------------------------------------
(* As long as nothing was lost.                                            *)

FollowedBy(c, r) ==
    /\ At(c, "waiting") /\ job[c].op = "refresh"
    /\ job[c].r = r /\ job[c].from = request[r].s

Once == \A r \in Requests : request[r].pc = "finding" => ~session[request[r].s].rotated

Calm == Followed /\ StoredFresh /\ Once

LEMMA FollowedIs == Followed <=> \A r \in Requests : Refreshes(r) => \E c \in Callers : FollowedBy(c, r)
BY DEF Followed, FollowedBy

\* The new refresh presents what is stored, which nobody is replacing.
LEMMA StartCalm ==
    ASSUME Jobs, Calm, NEW c \in Callers, NEW j, StartedAs(c, j) PROVE Calm'
<1>1. /\ job'[c] = j /\ \A d \in Callers \ {c} : job'[d] = job[d]
      /\ job[c].pc = "idle" /\ UNCHANGED <<stored, faults>>
  <2>1. job' = [job EXCEPT ![c] = j] /\ Free(c) /\ UNCHANGED <<stored, faults>>
    BY DEF StartedAs, store
  <2>2. Types
    BY DEF Jobs
  <2> QED BY <2>1, <2>2, JobIs DEF Free
<1>2. UNCHANGED session
  BY DEF StartedAs, Begun, server
<1>3. ASSUME NEW d \in Callers, Replacing(d) PROVE Replacing(d)'
  BY <1>1, <1>3 DEF Replacing
<1>4. StoredFresh'
  BY <1>1, <1>2, <1>3 DEF Calm, StoredFresh
<1>5. ASSUME NEW q \in Requests, request'[q] = request[q], Refreshes(q)'
      PROVE  \E d \in Callers : FollowedBy(d, q)'
  <2>1. PICK d \in Callers : FollowedBy(d, q)
    BY <1>5, FollowedIs DEF Calm, Refreshes
  <2>2. FollowedBy(d, q)'
    BY <1>1, <1>5, <2>1 DEF FollowedBy, At
  <2> QED BY <2>2
<1>6. CASE UNCHANGED server
  <2>1. Followed'
    BY <1>5, <1>6 DEF server, Followed, FollowedBy
  <2>2. Once'
    BY <1>6 DEF Once, Calm, server
  <2> QED BY <1>4, <2>1, <2>2 DEF Calm
<1>7. ASSUME NEW r \in Requests, j.r = r, j.pc = "waiting",
             j.op = "refresh" /\ j.from = stored /\ stored # NoSession /\ ~inFlight,
             Begun(r, "finding", stored)
      PROVE  Calm'
  <2>1. FollowedBy(c, r)'
    BY <1>1, <1>7 DEF FollowedBy, At, Begun
  <2>2. Followed'
    BY <1>5, <1>7, <2>1 DEF Begun, Followed, FollowedBy
  <2>3. ~session[stored].rotated
    BY <1>7 DEF Calm, StoredFresh, Replacing, inFlight
  <2>4. Once'
    BY <1>2, <1>7, <2>3 DEF Once, Calm, Begun
  <2> QED BY <1>4, <2>2, <2>4 DEF Calm
<1>8. ASSUME NEW r \in Requests, NEW pc \in {"verifying", "signing"}, NEW s, Begun(r, pc, s)
      PROVE  Calm'
  <2>1. Followed'
    BY <1>5, <1>8 DEF Begun, Followed, FollowedBy, Refreshes, Server!Refreshing
  <2>2. Once'
    BY <1>2, <1>8 DEF Once, Calm, Begun
  <2> QED BY <1>4, <2>1, <2>2 DEF Calm
<1> QED BY <1>6, <1>7, <1>8 DEF StartedAs

\* A refresh that was answered goes on to replace what is stored, or to clear it.
LEMMA ReceiveCalm ==
    ASSUME Service, Jobs, Calm, NEW c \in Callers, Receive(c) PROVE Calm'
<1> DEFINE r == job[c].r
           reply == request[r]
           pc == AfterReply(job[c].op, reply.pc)
<1>1. /\ At(c, "waiting") /\ r \in Requests /\ reply.pc \in Server!Answers
      /\ Take(c, pc, reply.new) /\ UNCHANGED <<store, faults>>
  BY DEF Receive, Jobs, Types
<1>2. Gone(r)
  BY <1>1, LeaveKeeps DEF Receive
<1>3. \A d \in Callers \ {c} : job'[d] = job[d]
  BY <1>1, TakeIs DEF Jobs
<1>4. Replacing(c) => Replacing(c)'
  <2> SUFFICES ASSUME Replacing(c) PROVE Replacing(c)'
    OBVIOUS
  <2>1. job[c].op = "refresh" /\ job[c].from = stored
    BY <1>1 DEF Replacing, At
  <2>2. reply.pc \in {"ok", "refused"}
    BY <1>1, <2>1 DEF Jobs, Expected, Server!Answers, Server!Refreshing
  <2>3. pc \in {"comparing", "clearing"}
    BY <2>1, <2>2 DEF AfterReply
  <2>4. job'[c].op = "refresh" /\ job'[c].pc = pc /\ job'[c].from = stored
    BY <1>1, <2>1, <2>3, TakeIs DEF Jobs
  <2> QED BY <1>1, <2>3, <2>4 DEF Replacing, store
<1> HIDE DEF pc, reply
<1>5. \A d \in Callers : Replacing(d) => Replacing(d)'
  BY <1>1, <1>3, <1>4 DEF Replacing, store
<1>6. StoredFresh'
  BY <1>1, <1>2, <1>5 DEF Calm, StoredFresh, Gone, store
<1>7. ASSUME NEW q \in Requests, Refreshes(q)' PROVE \E d \in Callers : FollowedBy(d, q)'
  <2>1. q # r /\ request'[q] = request[q]
    BY <1>2, <1>7 DEF Gone, Refreshes, Server!Refreshing
  <2>2. PICK d \in Callers : FollowedBy(d, q)
    BY <1>7, <2>1, FollowedIs DEF Calm, Refreshes
  <2>3. d # c
    BY <2>1, <2>2 DEF FollowedBy
  <2>4. FollowedBy(d, q)'
    BY <1>3, <2>1, <2>2, <2>3 DEF FollowedBy, At
  <2> QED BY <2>4
<1>8. Followed'
  BY <1>7 DEF Followed, FollowedBy
<1>9. Once'
  BY <1>2 DEF Once, Calm, Gone
<1> QED BY <1>6, <1>8, <1>9 DEF Calm

\* What is stored stays, is cleared, or is a session that was held.
LEMMA WritesFresh ==
    ASSUME Types, Holding, Calm, NEW c \in Callers, Writes(c) PROVE StoredFresh'
<1>1. /\ UNCHANGED <<server, faults>> /\ \A d \in Callers \ {c} : job'[d] = job[d]
  BY WritesIs
<1>2. CASE Write(c)
  <2>1. stored' = job[c].got /\ (stored' \in Sessions => Held(stored'))
    BY <1>2 DEF Write, Held, JobHolds, At
  <2>2. stored' \in Sessions => ~session[stored'].rotated
    BY <2>1 DEF Holding, Kept, New
  <2>3. stored' \in Sessions \cup {NoSession}
    BY <2>1 DEF Types, JobRecord, Token
  <2> QED BY <1>1, <2>2, <2>3 DEF StoredFresh, server
<1>3. CASE Clear(c)
  BY <1>3 DEF Clear, StoredFresh
<1>4. CASE Compare(c) \/ WriteAccess(c) \/ ClearAccess(c)
  <2>1. UNCHANGED stored
    BY <1>4 DEF Compare, WriteAccess, ClearAccess, store
  <2>2. Replacing(c) => Replacing(c)'
    <3> SUFFICES ASSUME Replacing(c) PROVE Replacing(c)'
      OBVIOUS
    <3>1. Compare(c) /\ stored = job[c].from
      BY <1>4 DEF Compare, WriteAccess, ClearAccess, Replacing, At
    <3>2. job'[c].pc = "writing" /\ job'[c].op = job[c].op
      BY <3>1, JobIs DEF Compare
    <3> QED BY <3>2 DEF Replacing
  <2>3. \A d \in Callers : Replacing(d) => Replacing(d)'
    BY <1>1, <2>1, <2>2 DEF Replacing
  <2> QED BY <1>1, <2>1, <2>3 DEF Calm, StoredFresh, server
<1> QED BY <1>2, <1>3, <1>4 DEF Writes

LEMMA WritesCalm ==
    ASSUME Types, Holding, Calm, NEW c \in Callers, Writes(c) PROVE Calm'
<1>1. /\ UNCHANGED server /\ job[c].pc # "waiting"
      /\ \A d \in Callers \ {c} : job'[d] = job[d]
  BY WritesIs
<1>2. ASSUME NEW q \in Requests, Refreshes(q)' PROVE \E d \in Callers : FollowedBy(d, q)'
  <2>1. PICK d \in Callers : FollowedBy(d, q)
    BY <1>1, <1>2, FollowedIs DEF Calm, Refreshes, server
  <2>2. FollowedBy(d, q)'
    BY <1>1, <2>1 DEF FollowedBy, At, server
  <2> QED BY <2>2
<1>3. Followed'
  BY <1>2 DEF Followed, FollowedBy
<1>4. Once'
  BY <1>1 DEF Once, Calm, server
<1> QED BY <1>3, <1>4, WritesFresh DEF Calm

\* Only the refresh a job waits for spends a token.
LEMMA ServeCalm ==
    ASSUME Service, Jobs, Calm, NEW r \in Requests, Serve(r) PROVE Calm'
<1>1. UNCHANGED <<stored, job>>
  BY DEF Serve, store
<1>2. CASE Server!Serve(r)
  <2>1. /\ \A q \in Requests \ {r} : request'[q] = request[q]
        /\ Refreshes(r)' => /\ Refreshes(r) /\ request'[r].pc # "finding"
                            /\ request'[r].s = request[r].s
        /\ \A s \in Sessions :
             session'[s].rotated => session[s].rotated \/ (Refreshes(r) /\ request[r].s = s)
    BY <1>2, ServedKeeps DEF P!Served, Refreshes, P!Refreshing, Server!Refreshing
  <2>2. \A q \in Requests : Refreshes(q)' => Refreshes(q) /\ request'[q].s = request[q].s
    BY <2>1 DEF Refreshes
  <2>3. ASSUME NEW q \in Requests, Refreshes(q)' PROVE \E d \in Callers : FollowedBy(d, q)'
    <3>1. PICK d \in Callers : FollowedBy(d, q)
      BY <2>2, <2>3, FollowedIs DEF Calm
    <3> QED BY <1>1, <2>2, <2>3, <3>1 DEF FollowedBy, At
  <2>4. Followed'
    BY <2>3 DEF Followed, FollowedBy
  <2>5. StoredFresh'
    <3> SUFFICES ASSUME stored' # NoSession, session'[stored'].rotated
                 PROVE  \E c \in Callers : Replacing(c)'
      BY DEF StoredFresh
    <3>1. stored' = stored /\ stored \in Sessions
      BY <1>1 DEF Jobs, Types, Token
    <3>2. CASE session[stored].rotated
      BY <1>1, <3>1, <3>2 DEF Calm, StoredFresh, Replacing
    <3>3. CASE Refreshes(r) /\ request[r].s = stored
      <4>1. PICK d \in Callers : FollowedBy(d, r)
        BY <3>3, FollowedIs DEF Calm
      <4> QED BY <1>1, <3>3, <4>1 DEF FollowedBy, Replacing, At
    <3> QED BY <2>1, <3>1, <3>2, <3>3
  <2>6. ASSUME NEW q \in Requests, request'[q].pc = "finding"
        PROVE  ~session'[request'[q].s].rotated
    <3>1. Refreshes(q)' /\ q # r
      BY <2>1, <2>6 DEF Refreshes, Server!Refreshing
    <3>2. request'[q] = request[q] /\ Refreshes(q) /\ request[q].s \in Sessions
      BY <2>1, <3>1, RequestsAre DEF Refreshes
    <3>3. ~session[request[q].s].rotated
      BY <2>6, <3>2 DEF Calm, Once
    <3>4. ~(Refreshes(r) /\ request[r].s = request[q].s)
      <4> SUFFICES ASSUME Refreshes(r) PROVE FALSE
        OBVIOUS
      <4>1. PICK d \in Callers : FollowedBy(d, r)
        BY FollowedIs DEF Calm
      <4>2. PICK e \in Callers : FollowedBy(e, q)
        BY <3>2, FollowedIs DEF Calm
      <4> QED BY <3>1, <4>1, <4>2 DEF FollowedBy, Jobs, OneRefresh
    <3> QED BY <2>1, <3>2, <3>3, <3>4
  <2> QED BY <2>4, <2>5, <2>6 DEF Calm, Once
<1>3. CASE request[r].pc \in Server!Answers /\ Server!Leave(r)
  <2>1. Gone(r)
    BY <1>3, LeaveKeeps
  <2>2. ASSUME NEW q \in Requests, Refreshes(q)' PROVE \E d \in Callers : FollowedBy(d, q)'
    <3>1. request'[q] = request[q]
      BY <2>1, <2>2 DEF Gone, Refreshes, Server!Refreshing
    <3>2. PICK d \in Callers : FollowedBy(d, q)
      BY <2>2, <3>1, FollowedIs DEF Calm, Refreshes
    <3> QED BY <1>1, <3>1, <3>2 DEF FollowedBy, At
  <2>3. Followed'
    BY <2>2 DEF Followed, FollowedBy
  <2>4. StoredFresh' /\ Once'
    BY <1>1, <2>1 DEF Calm, StoredFresh, Once, Gone, Replacing
  <2> QED BY <2>3, <2>4 DEF Calm
<1> QED BY <1>2, <1>3 DEF Serve

-----------------------------------------------------------------------------
(* Every step.                                                             *)

LEMMA CInvIs == CInv <=> Service /\ Jobs /\ Holding /\ (faults = 0 => Calm)
BY DEF CInv, Jobs, Holding, Calm, Once, PresentedOnce

\* A fault ends the calm.
LEMMA FaultIs == ASSUME Jobs, faults' = faults + 1 PROVE faults' # 0
BY DEF Jobs, Types

LEMMA InitHolds == ASSUME Init PROVE CInv
<1>1. P!Init
  BY DEF Init, Server!Init, P!Init, Server!NoRow, P!NoRow, Server!Idle, P!Idle
<1>2. /\ \A s \in Sessions : session[s].rotated = FALSE
      /\ \A r \in Requests : request[r].pc = "idle"
      /\ identity = Identities /\ issued = {}
  BY <1>1 DEF P!Init, P!NoRow, P!Idle
<1>3. Service
  BY <1>1, <1>2, P!InvInit, ClientAssumption DEF Service, P!NoDetach, P!ServerAssumption
<1>4. \A c \in Callers : job[c] = NoJob
  BY DEF Init
<1>5. NoJob \in JobRecord /\ NoJob.pc = "idle" /\ NoJob.op = "none"
  BY DEF NoJob, JobRecord, Token
<1>6. Types
  BY <1>4, <1>5, ClientAssumption DEF Init, Types, Token, At
<1>7. OneRefresh /\ Expected
  BY <1>4, <1>5 DEF OneRefresh, Expected, At
<1>8. \A g \in Sessions : ~Held(g) /\ ~Out(g)
  BY <1>2, <1>4, <1>5, ClientAssumption DEF Held, JobHolds, AnswerHolds, Out, At, Init
<1>9. Unspent /\ Kept /\ Stocked /\ Behind
  BY <1>2, <1>8 DEF Unspent, Kept, Stocked, Behind, Init
<1>10. Followed /\ StoredFresh /\ PresentedOnce
  BY <1>2 DEF Followed, StoredFresh, PresentedOnce, Refreshes, Server!Refreshing, Init
<1> QED BY <1>3, <1>6, <1>7, <1>9, <1>10 DEF CInv

LEMMA CInvNext == ASSUME CInv, [Next]_vars PROVE CInv'
<1>0. Service /\ Jobs /\ Types /\ Holding /\ (faults = 0 => Calm)
  BY CInvIs DEF Jobs
<1> SUFFICES Service' /\ Jobs' /\ Holding' /\ (faults' = 0 => Calm')
  BY DEF CInv, Jobs, Holding, Calm, Once, PresentedOnce
<1>1. ASSUME NEW c \in Callers, Start(c)
      PROVE  Service' /\ Jobs' /\ Holding' /\ (faults' = 0 => Calm')
  <2>1. PICK j : StartedAs(c, j)
    BY <1>0, <1>1, StartIs
  <2>2. faults' = faults
    BY <2>1 DEF StartedAs
  <2> QED BY <1>0, <1>1, <2>1, <2>2, StartIs, StartJobs, StartHolding, StartCalm
<1>2. ASSUME NEW c \in Callers, Receive(c)
      PROVE  Service' /\ Jobs' /\ Holding' /\ (faults' = 0 => Calm')
  <2>1. faults' = faults
    BY <1>2 DEF Receive
  <2> QED BY <1>0, <1>2, <2>1, ReceiveJobs, ReceiveHolding, ReceiveCalm
<1>3. ASSUME NEW c \in Callers, Writes(c)
      PROVE  Service' /\ Jobs' /\ Holding' /\ (faults' = 0 => Calm')
  <2>1. Holding'
    BY <1>0, <1>3, CompareHolding, WriteHolding, WriteAccessHolding, ClearHolding DEF Writes
  <2>2. faults' = faults
    BY <1>0, <1>3, WritesIs
  <2> QED BY <1>0, <1>3, <2>1, <2>2, WritesJobs, WritesCalm
<1>4. ASSUME NEW c \in Callers, Lose(c)
      PROVE  Service' /\ Jobs' /\ Holding' /\ (faults' = 0 => Calm')
  BY <1>0, <1>4, LoseJobs, LoseHolding, FaultIs DEF Lose
<1>5. CASE Evict
  BY <1>0, <1>5, EvictJobs, EvictHolding, FaultIs DEF Evict
<1>6. ASSUME NEW r \in Requests, Serve(r)
      PROVE  Service' /\ Jobs' /\ Holding' /\ (faults' = 0 => Calm')
  <2>1. faults' = faults
    BY <1>6 DEF Serve
  <2> QED BY <1>0, <1>6, <2>1, ServeJobs, ServeHolding, ServeCalm
<1>7. CASE UNCHANGED vars
  <2>1. UNCHANGED <<session, identity, request, issued, ended, stored, access, job, faults>>
    BY <1>7 DEF vars, server, store
  <2>2. Service'
    BY <1>0, <2>1, ServiceStays DEF server
  <2>3. Jobs'
    BY <1>0, <2>1 DEF Jobs, Types, OneRefresh, Expected, At
  <2>4. Holding'
    BY <1>0, <2>1 DEF Holding, Unspent, Kept, Stocked, Behind, Held, New, OneHolder, Out,
                      JobHolds, AnswerHolds, Refreshes, At
  <2>5. Calm => Calm'
    BY <2>1 DEF Calm, Followed, StoredFresh, Once, Replacing, Refreshes, At
  <2> QED BY <1>0, <2>1, <2>2, <2>3, <2>4, <2>5
<1> QED BY <1>1, <1>2, <1>3, <1>4, <1>5, <1>6, <1>7 DEF Next, Continue, Writes

-----------------------------------------------------------------------------
(* The theorems.                                                           *)

\* session-client.ts, runRefresh and the writers of SessionStore: a session is held by one
\* answer or job until it is stored, and a refresh is one job's.
THEOREM InvariantHolds == Spec => []CInv
<1>1. Init => CInv
  BY InitHolds
<1>2. CInv /\ [Next]_vars => CInv'
  BY CInvNext
<1> QED BY <1>1, <1>2, PTL DEF Spec

\* session-client.ts, refresh: until an answer is lost or the worker is evicted, the client
\* never presents a token that was spent.
THEOREM PresentedOnceHolds == Spec => []PresentedOnce
<1>1. CInv => PresentedOnce
  BY DEF CInv, PresentedOnce
<1> QED BY <1>1, InvariantHolds, PTL

\* session-client.ts, runRefresh: an interruption between the two writes never leaves the
\* access token of a session beside the refresh token it replaced.
THEOREM AccessNotAheadHolds == Spec => []AccessNotAhead
<1>1. CInv => AccessNotAhead
  <2> SUFFICES ASSUME CInv, access # NoSession, stored # NoSession
               PROVE  session[access].from # stored
    BY DEF AccessNotAhead
  <2>1. access \in Sessions /\ Out(access)
    BY DEF CInv, Types, Token, Out
  <2> QED BY <2>1 DEF CInv, Behind
<1> QED BY <1>1, InvariantHolds, PTL
=============================================================================
