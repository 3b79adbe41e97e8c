--------------------------- MODULE SessionClient ---------------------------
(***************************************************************************)
(* The extension's side of its session: signing in, refreshing and signing *)
(* out, each a job of the service worker that talks to SessionServer and   *)
(* then writes the refresh token to durable storage and the access token   *)
(* to session storage.  An answer can be lost and the worker can go away;  *)
(* what the server was asked to do goes on without them.                   *)
(***************************************************************************)
EXTENDS Naturals, FiniteSets

CONSTANTS
    Sessions, NoSession, Requests, Identities, NoIdentity,   \* see SessionServer
    Callers,       \* bound: the requests of the panel under way at once
    MaxFaults      \* bound: lost answers and worker evictions

ASSUME ClientAssumption ==
    /\ NoSession \notin Sessions /\ NoIdentity \notin Identities
    /\ MaxFaults \in Nat

VARIABLES
    session, identity, request, issued, ended,   \* see SessionServer
    stored,   \* the refresh token in durable storage
    access,   \* the access token in session storage
    job,      \* the worker's jobs
    faults    \* answers lost and evictions so far

Server == INSTANCE SessionServer

server == <<session, identity, request, issued, ended>>
store  == <<stored, access>>
vars   == <<server, store, job, faults>>

-----------------------------------------------------------------------------
(* Jobs. *)

Token == Sessions \cup {NoSession}

NoJob == [op |-> "none", pc |-> "idle", r |-> "none", from |-> NoSession, got |-> NoSession]

Waiting(op, r, from) == [NoJob EXCEPT !.op = op, !.pc = "waiting", !.r = r, !.from = from]

JobRecord == [op   : {"none", "refresh", "logout", "signIn"},
              pc   : {"idle", "waiting", "comparing", "writing", "writingAccess",
                      "clearing", "clearingAccess"},
              r    : Requests \cup {"none"},   \* the request it waits for
              from : Token,                    \* the token a refresh started from
              got  : Token]                    \* the session it was given

Free(c)    == job[c].pc = "idle"
At(c, pc)  == job[c].pc = pc
Go(c, pc)  == job' = [job EXCEPT ![c].pc = pc]
End(c)     == job' = [job EXCEPT ![c] = NoJob]
Awaited(r) == \E c \in Callers : At(c, "waiting") /\ job[c].r = r

\* SessionClient.inFlight.
inFlight == \E c \in Callers : job[c].op = "refresh"

\* Bound: a session is left for each request that may create one.
Room == Cardinality({s \in Sessions : session[s].family = NoSession})
          > Cardinality({r \in Requests : request[r].pc \in {"finding", "claiming", "minting", "signing"}})

Init ==
    /\ Server!Init
    /\ stored = NoSession /\ access = NoSession
    /\ job = [c \in Callers |-> NoJob]
    /\ faults = 0

-----------------------------------------------------------------------------
(* Starting a job. *)

\* Mutation: every caller sends a refresh of its own.
StartRefreshAnyway(c) ==
    /\ Free(c) /\ Room
    /\ stored # NoSession
    /\ \E r \in Requests :
        /\ Server!Refresh(r, stored)
        /\ job' = [job EXCEPT ![c] = Waiting("refresh", r, stored)]
    /\ UNCHANGED <<store, faults>>

\* A second refresh while one is in flight is the one in flight.
StartRefresh(c) ==
    /\ Free(c) /\ Room /\ ~inFlight
    /\ stored # NoSession
    /\ \E r \in Requests :
        /\ Server!Refresh(r, stored)
        /\ job' = [job EXCEPT ![c] = Waiting("refresh", r, stored)]
    /\ UNCHANGED <<store, faults>>

\* logout(): without an access token there is nobody to tell.
StartLogout(c) ==
    /\ Free(c)
    /\ IF access = NoSession
       THEN /\ job' = [job EXCEPT ![c] = [NoJob EXCEPT !.op = "logout", !.pc = "clearing"]]
            /\ UNCHANGED server
       ELSE \E r \in Requests :
              /\ Server!Logout(r, access)
              /\ job' = [job EXCEPT ![c] = Waiting("logout", r, access)]
    /\ UNCHANGED <<store, faults>>

\* signInWithGoogle, verifyEmail: the last request of a sign-in.
StartSignIn(c) ==
    /\ Free(c) /\ Room
    /\ \E r \in Requests, i \in Identities :
        /\ Server!SignIn(r, i)
        /\ job' = [job EXCEPT ![c] = Waiting("signIn", r, NoSession)]
    /\ UNCHANGED <<store, faults>>

-----------------------------------------------------------------------------
(* Answers. *)

\* What a job does with an answer: logout clears whichever way the server answered, and a
\* refused refresh clears what is stored.
AfterReply(op, answer) ==
    CASE op = "logout"                          -> "clearing"
      [] op = "refresh" /\ answer = "refused"   -> "clearing"
      [] op = "refresh" /\ answer = "ok"        -> "comparing"
      [] op = "signIn" /\ answer = "ok"         -> "writing"
      [] OTHER                                  -> "idle"

Take(c, pc, got) ==
    job' = [job EXCEPT ![c] = IF pc = "idle" THEN NoJob
                              ELSE [@ EXCEPT !.pc = pc, !.r = "none", !.got = got]]

Receive(c) ==
    /\ At(c, "waiting")
    /\ LET reply == request[job[c].r] IN
       /\ reply.pc \in Server!Answers
       /\ Take(c, AfterReply(job[c].op, reply.pc), reply.new)
    /\ Server!Leave(job[c].r)
    /\ UNCHANGED <<store, faults>>

\* Mutation: the promise of a request that threw is never cleared.
LoseUnsettled(c) ==
    /\ At(c, "waiting") /\ faults < MaxFaults
    /\ faults' = faults + 1
    /\ Go(c, "idle")
    /\ UNCHANGED <<server, store>>

\* send() throws: the answer is lost, or the request never arrived or never ended.
Lose(c) ==
    /\ At(c, "waiting") /\ faults < MaxFaults
    /\ faults' = faults + 1
    /\ Take(c, AfterReply(job[c].op, "failed"), NoSession)
    /\ UNCHANGED server \/ Server!Leave(job[c].r)
    /\ UNCHANGED store

-----------------------------------------------------------------------------
(* Writing the result down. *)

\* runRefresh reads what is stored again: it must still be what the refresh started from.
Compare(c) ==
    /\ At(c, "comparing")
    /\ IF stored = job[c].from THEN Go(c, "writing") ELSE End(c)
    /\ UNCHANGED <<server, store, faults>>

\* Mutation: a refresh writes the access token first.
WriteAccessFirst(c) ==
    /\ At(c, "writing")
    /\ LET refresh == job[c].op = "refresh" IN
       /\ stored' = IF refresh THEN stored ELSE job[c].got
       /\ access' = IF refresh THEN job[c].got ELSE access
    /\ Go(c, "writingAccess")
    /\ UNCHANGED <<server, faults>>

\* The refresh token first ...
Write(c) ==
    /\ At(c, "writing")
    /\ stored' = job[c].got
    /\ Go(c, "writingAccess")
    /\ UNCHANGED <<server, access, faults>>

\* ... then the access token.
WriteAccess(c) ==
    /\ At(c, "writingAccess")
    /\ access' = job[c].got
    /\ End(c)
    /\ UNCHANGED <<server, stored, faults>>

\* SessionStore.clear: the durable token, then the other.
Clear(c) ==
    /\ At(c, "clearing")
    /\ stored' = NoSession
    /\ Go(c, "clearingAccess")
    /\ UNCHANGED <<server, access, faults>>

ClearAccess(c) ==
    /\ At(c, "clearingAccess")
    /\ access' = NoSession
    /\ End(c)
    /\ UNCHANGED <<server, stored, faults>>

-----------------------------------------------------------------------------
(* The system. *)

\* The worker is evicted: its jobs are gone, what they wrote is not.
Evict ==
    /\ faults < MaxFaults
    /\ faults' = faults + 1
    /\ job' = [c \in Callers |-> NoJob]
    /\ UNCHANGED <<server, store>>

\* The server's part of a request, awaited or not.
Serve(r) ==
    /\ \/ Server!Serve(r)
       \/ request[r].pc \in Server!Answers /\ ~Awaited(r) /\ Server!Leave(r)
    /\ UNCHANGED <<store, job, faults>>

Start(c)    == StartRefresh(c) \/ StartLogout(c) \/ StartSignIn(c)
Continue(c) == Receive(c) \/ Compare(c) \/ Write(c) \/ WriteAccess(c) \/ Clear(c) \/ ClearAccess(c)

Next ==
    \/ \E c \in Callers : Start(c) \/ Continue(c) \/ Lose(c)
    \/ \E r \in Requests : Serve(r)
    \/ Evict

Spec == Init /\ [][Next]_vars

\* Every await of the worker and of the server ends.
Fairness ==
    /\ \A c \in Callers : WF_vars(Continue(c))
    /\ \A r \in Requests : WF_vars(Serve(r))

FairSpec == Spec /\ Fairness

-----------------------------------------------------------------------------
(* Properties. *)

\* session-client.ts, refresh: the client never attacks itself.  As long as no answer was
\* lost and the worker was not evicted, no refresh presents a token that was already spent,
\* however sign-ins, refreshes and sign-outs of the panel interleave.
PresentedOnce ==
    faults = 0 => \A r \in Requests : request[r].pc = "finding" => ~session[request[r].s].rotated

\* session-client.ts, runRefresh: the successor is stored before the access token, so an
\* interruption never leaves the access token of a session beside the token it replaced.
AccessNotAhead == access # NoSession /\ stored # NoSession => session[access].from # stored

\* session-client.ts, runRefresh: only the session the refresh started from is replaced.
\* The token is read and then written, and a sign-out may clear it in between.
OnlyOverItsOwn ==
    [][\A c \in Callers : job[c].op = "refresh" /\ Write(c) => stored = job[c].from]_vars

\* session-client.ts, refresh: a refresh always settles, so the one in flight never stands
\* in the way of all later ones.
RefreshSettles == inFlight ~> ~inFlight
=============================================================================
