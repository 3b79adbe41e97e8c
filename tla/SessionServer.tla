--------------------------- MODULE SessionServer ---------------------------
(***************************************************************************)
(* The sessions of one account on the account service: signing in,         *)
(* refreshing, signing out and removing a way to sign in.  Any number of   *)
(* requests are under way at once.  An action is what one of them does     *)
(* from one await to the next: a call of the store, and the decision taken *)
(* on its result.                                                          *)
(***************************************************************************)
EXTENDS FiniteSets

CONSTANTS
    Sessions,      \* session ids; a session's refresh and access tokens go by its id
    NoSession,
    Requests,      \* the requests that may be under way at once
    Identities,    \* the ways to sign in to the account
    NoIdentity     \* a null auth_identity_id

ASSUME ServerAssumption ==
    /\ NoSession \notin Sessions /\ NoIdentity \notin Identities

VARIABLES
    session,   \* the session table
    identity,  \* the identity table: the verified identities of the account
    request,   \* what each request is doing
    issued,    \* history: the sessions whose tokens were returned to a caller
    ended      \* history: the families revoked for a reuse or a removed identity

vars == <<session, identity, request, issued, ended>>

-----------------------------------------------------------------------------
(* Records. *)

SessionRow == [family   : Sessions \cup {NoSession},     \* NoSession: no such row
               from     : Sessions \cup {NoSession},     \* history: the session it replaced
               via      : Identities \cup {NoIdentity},  \* auth_identity_id
               rotated  : BOOLEAN,                       \* rotated_at # null
               revoked  : BOOLEAN]                       \* revoked_at # null

NoRow == [family |-> NoSession, from |-> NoSession, via |-> NoIdentity,
          rotated |-> FALSE, revoked |-> FALSE]

Row(family, from, via) == [NoRow EXCEPT !.family = family, !.from = from, !.via = via]

Exists(s) == session[s].family # NoSession

Refreshing == {"finding", "reusing", "claiming", "minting", "rereading"}
Answers    == {"ok", "refused", "failed"}

Pcs == {"idle", "signing", "verifying", "loggingOut", "looking", "listing", "unlinking",
        "deleting"} \cup Refreshing \cup Answers

RequestRecord == [pc   : Pcs,
                  op   : {"none", "logout", "detach"},   \* what follows authenticate()
                  s    : Sessions \cup {NoSession},      \* the session presented
                  via  : Identities \cup {NoIdentity},   \* the identity it is about
                  new  : Sessions \cup {NoSession}]      \* the session it created

Idle == [pc |-> "idle", op |-> "none", s |-> NoSession, via |-> NoIdentity, new |-> NoSession]

Init ==
    /\ session = [s \in Sessions |-> NoRow]
    /\ identity = Identities
    /\ request = [r \in Requests |-> Idle]
    /\ issued = {} /\ ended = {}

At(r, pc)     == request[r].pc = pc
Go(r, pc)     == request' = [request EXCEPT ![r].pc = pc]
Begin(r, new) == At(r, "idle") /\ request' = [request EXCEPT ![r] = new]
Answer(r, a)  == request' = [request EXCEPT ![r] = [Idle EXCEPT !.pc = a]]
Return(r, s)  == /\ request' = [request EXCEPT ![r] = [Idle EXCEPT !.pc = "ok", !.new = s]]
                 /\ issued' = issued \cup {s}

\* revokeWhere: the sessions of a set that are not revoked yet are.
Revoked(S) == [s \in Sessions |-> IF s \in S THEN [session[s] EXCEPT !.revoked = TRUE]
                                  ELSE session[s]]

FamiliesOf(S) == {session[s].family : s \in S}

-----------------------------------------------------------------------------
(* SessionService.rotateSession. *)

\* POST refresh, with a token that was handed out.
Refresh(r, s) ==
    /\ s \in issued
    /\ Begin(r, [Idle EXCEPT !.pc = "finding", !.s = s])
    /\ UNCHANGED <<session, identity, issued, ended>>

\* findSessionByDigest, and the refusals decided on the row it returned.  A session's age
\* is not kept: one that is alive may have expired.
Find(r) ==
    /\ At(r, "finding")
    /\ LET row == session[request[r].s] IN
       \/ row.rotated /\ Go(r, "reusing")
       \/ ~row.rotated /\ Answer(r, "refused")
       \/ /\ ~row.rotated /\ ~row.revoked
          /\ request' = [request EXCEPT ![r].pc = "claiming", ![r].via = row.via]
    /\ UNCHANGED <<session, identity, issued, ended>>

\* Mutation: the reuse revokes only the session that was presented.
ReuseRevokesOne(r) ==
    /\ At(r, "reusing")
    /\ session' = Revoked({request[r].s})
    /\ ended' = ended \cup {session[request[r].s].family}
    /\ Answer(r, "refused")
    /\ UNCHANGED <<identity, issued>>

\* revokeFamily: a reuse, wherever it was noticed, ends the family.
Reuse(r) ==
    /\ At(r, "reusing")
    /\ LET f == session[request[r].s].family IN
       /\ session' = Revoked({s \in Sessions : session[s].family = f})
       /\ ended' = ended \cup {f}
    /\ Answer(r, "refused")
    /\ UNCHANGED <<identity, issued>>

\* Mutation: the claim trusts the check made on the snapshot.
ClaimUnchecked(r) ==
    /\ At(r, "claiming")
    /\ session' = [session EXCEPT ![request[r].s].rotated = TRUE]
    /\ Go(r, "minting")
    /\ UNCHANGED <<identity, issued, ended>>

\* claimSessionRotation: the write that decides a race.
Claim(r) ==
    /\ At(r, "claiming")
    /\ IF session[request[r].s].rotated
       THEN Go(r, "reusing") /\ UNCHANGED session
       ELSE /\ session' = [session EXCEPT ![request[r].s].rotated = TRUE]
            /\ Go(r, "minting")
    /\ UNCHANGED <<identity, issued, ended>>

\* Mutation: the successor's predecessor and identity change places.
MintSwapped(r) ==
    /\ At(r, "minting")
    /\ \E n \in Sessions :
         /\ ~Exists(n)
         /\ session' = [session EXCEPT ![n] =
                Row(session[request[r].s].family, request[r].via, request[r].s)]
         /\ request' = [request EXCEPT ![r].pc = "rereading", ![r].new = n]
    /\ UNCHANGED <<identity, issued, ended>>

\* insertSession of the successor; its identity must still be in the table.
Mint(r) ==
    /\ At(r, "minting")
    /\ IF request[r].via \in identity \cup {NoIdentity}
       THEN \E n \in Sessions :
              /\ ~Exists(n)
              /\ session' = [session EXCEPT ![n] =
                     Row(session[request[r].s].family, request[r].s, request[r].via)]
              /\ request' = [request EXCEPT ![r].pc = "rereading", ![r].new = n]
       ELSE Answer(r, "failed") /\ UNCHANGED session
    /\ UNCHANGED <<identity, issued, ended>>

\* Mutation: the successor is returned without reading the claimed row again.
RereadSkipped(r) ==
    /\ At(r, "rereading")
    /\ Return(r, request[r].new)
    /\ UNCHANGED <<session, identity, ended>>

\* getSession of the row that was claimed: a revocation meanwhile was aimed at the family.
Reread(r) ==
    /\ At(r, "rereading")
    /\ IF session[request[r].s].revoked
       THEN Go(r, "reusing") /\ UNCHANGED issued
       ELSE Return(r, request[r].new)
    /\ UNCHANGED <<session, identity, ended>>

-----------------------------------------------------------------------------
(* SessionService.createSession, at the end of a sign-in. *)

\* getIdentity: the identity that was authenticated is in the table.
SignIn(r, i) ==
    /\ i \in identity
    /\ Begin(r, [Idle EXCEPT !.pc = "signing", !.via = i])
    /\ UNCHANGED <<session, identity, issued, ended>>

\* insertSession, after the digest.
Create(r) ==
    /\ At(r, "signing")
    /\ IF request[r].via \in identity
       THEN \E n \in Sessions :
              /\ ~Exists(n)
              /\ session' = [session EXCEPT ![n] = Row(n, NoSession, request[r].via)]
              /\ Return(r, n)
       ELSE Answer(r, "failed") /\ UNCHANGED <<session, issued>>
    /\ UNCHANGED <<identity, ended>>

-----------------------------------------------------------------------------
(* The authenticated routes: signing out and removing an identity. *)

Present(r, s, op, i) ==
    /\ s \in issued
    /\ Begin(r, [Idle EXCEPT !.pc = "verifying", !.op = op, !.s = s, !.via = i])
    /\ UNCHANGED <<session, identity, issued, ended>>

\* POST logout, and the removal of an identity, with an access token.
Logout(r, s)    == Present(r, s, "logout", NoIdentity)
Detach(r, s, i) == Present(r, s, "detach", i)

\* authenticate: the token may have expired, and verify() reads the session it names.  A
\* rotated one still counts.
Verify(r) ==
    /\ At(r, "verifying")
    /\ \/ Answer(r, "refused")
       \/ /\ ~session[request[r].s].revoked
          /\ Go(r, IF request[r].op = "logout" THEN "loggingOut" ELSE "looking")
    /\ UNCHANGED <<session, identity, issued, ended>>

\* revokeSession: the session the token names, and no other.
Revoke(r) ==
    /\ At(r, "loggingOut")
    /\ session' = Revoked({request[r].s})
    /\ Answer(r, "ok")
    /\ UNCHANGED <<identity, issued, ended>>

\* detachIdentity: getIdentity ...
Look(r) ==
    /\ At(r, "looking")
    /\ IF request[r].via \in identity THEN Go(r, "listing") ELSE Answer(r, "refused")
    /\ UNCHANGED <<session, identity, issued, ended>>

\* ... listIdentities: the last one is not removed ...
List(r) ==
    /\ At(r, "listing")
    /\ IF identity \ {request[r].via} = {} THEN Answer(r, "refused") ELSE Go(r, "unlinking")
    /\ UNCHANGED <<session, identity, issued, ended>>

\* ... revokeForIdentity ...
Unlink(r) ==
    /\ At(r, "unlinking")
    /\ LET gone == {s \in Sessions : Exists(s) /\ session[s].via = request[r].via} IN
       /\ session' = Revoked(gone)
       /\ ended' = ended \cup FamiliesOf(gone)
    /\ Go(r, "deleting")
    /\ UNCHANGED <<identity, issued>>

\* ... deleteIdentity, which clears the column of the sessions that still name it.
Delete(r) ==
    /\ At(r, "deleting")
    /\ identity' = identity \ {request[r].via}
    /\ session' = [s \in Sessions |->
           IF session[s].via = request[r].via THEN [session[s] EXCEPT !.via = NoIdentity]
           ELSE session[s]]
    /\ Answer(r, "ok")
    /\ UNCHANGED <<issued, ended>>

-----------------------------------------------------------------------------
(* The service. *)

\* The caller has its answer, or the isolate that served the request is gone.
Leave(r) ==
    /\ ~At(r, "idle")
    /\ request' = [request EXCEPT ![r] = Idle]
    /\ UNCHANGED <<session, identity, issued, ended>>

Serve(r) ==
    \/ Find(r) \/ Reuse(r) \/ Claim(r) \/ Mint(r) \/ Reread(r)
    \/ Create(r)
    \/ Verify(r) \/ Revoke(r)
    \/ Look(r) \/ List(r) \/ Unlink(r) \/ Delete(r)

Arrive(r) ==
    \/ \E s \in Sessions : Refresh(r, s) \/ Logout(r, s)
    \/ \E i \in Identities : SignIn(r, i)
    \/ \E s \in Sessions, i \in Identities : Detach(r, s, i)

Next == \E r \in Requests : Arrive(r) \/ Serve(r) \/ Leave(r)

Spec == Init /\ [][Next]_vars

-----------------------------------------------------------------------------
(* Properties. *)

\* Every variable keeps its type.
TypeOK ==
    /\ session \in [Sessions -> SessionRow]
    /\ identity \subseteq Identities
    /\ request \in [Requests -> RequestRecord]
    /\ issued \subseteq Sessions
    /\ ended \subseteq Sessions

\* session-service.ts, rotateSession: a refresh token is worth one session.  Two sessions
\* in the table never replace the same one, returned to anybody or not.
SingleUse ==
    \A s, t \in Sessions : session[s].from = session[t].from /\ session[s].from # NoSession
                               => s = t

\* session-service.ts, rotateSession: no session a caller holds outlives the revocation of
\* its family, even one that was being created while the family was revoked.
EndedIsDead == \A s \in issued : session[s].family \in ended => session[s].revoked

\* The service keeps the promise of TokenFamilies.
Promise == INSTANCE TokenFamilies WITH
    family <- [s \in issued |-> session[s].family],
    from   <- [s \in issued |-> session[s].from],
    dead   <- {s \in issued : session[s].revoked}

\* session-service.ts, identity-service.ts: whatever requests interleave, what callers see
\* is a behaviour of TokenFamilies.
PromiseKept == Promise!Spec
=============================================================================
