----------------------------- MODULE EmailCodes -----------------------------
(***************************************************************************)
(* One-time codes by mail, composed with SessionServer: signing in with a  *)
(* code, and linking the address to an account.  One address; it belongs   *)
(* to the account of SessionServer, to another account or to none.  A      *)
(* request is under way here (mail) until it has its code accepted and, if *)
(* the account is that of SessionServer, goes on there (request).          *)
(***************************************************************************)
EXTENDS SessionServer, Integers, Sequences

CONSTANTS
    Challenges, NoChallenge,
    MaxAttempts,
    Email,         \* the identities of the account that are the address
    Scenes         \* what a behaviour is about: "tokens", as in SessionServer, or "codes"

ASSUME CodesAssumption ==
    /\ NoChallenge \notin Challenges /\ MaxAttempts \in Nat \ {0}
    /\ Email \subseteq Identities /\ Scenes \subseteq {"tokens", "codes"}

VARIABLES
    scene,
    challenge,   \* the challenge store, in memory: a row per id, once issued
    mail,        \* what each request does about codes
    elsewhere,   \* another account has the address
    linked,      \* the identities that are, or were, in the table: ids are not reused
    gained       \* history: what each code was worth, and to whom

mailVars == <<scene, challenge, mail, elsewhere, linked, gained>>
allVars == <<vars, mailVars>>

Owners == {"none", "us", "them"}    \* no account, ours, another

\* A row: what it is for, the account that started it, and the attempts counted.
Unissued == [open |-> FALSE, purpose |-> "none", owner |-> "none", attempts |-> 0]

NoMail == [pc |-> "idle", does |-> "none", s |-> NoSession, ch |-> NoChallenge]

CodesInit ==
    /\ scene \in Scenes
    /\ session = [s \in Sessions |-> NoRow]
    /\ request = [r \in Requests |-> Idle]
    /\ issued = {} /\ ended = {}
    /\ IF scene = "tokens" THEN identity = Identities \ Email
       ELSE \E i \in Identities \ Email, j \in Email : identity \in {{i}, {i, j}}
    /\ challenge = [ch \in Challenges |-> Unissued]
    /\ mail = [r \in Requests |-> NoMail]
    /\ elsewhere \in BOOLEAN /\ (elsewhere => scene = "codes" /\ identity \cap Email = {})
    /\ linked = identity
    /\ gained = [ch \in Challenges |-> <<>>]

Doing(r, pc)    == mail[r].pc = pc
Free(r)         == At(r, "idle") /\ Doing(r, "idle")
Proceed(r, pc)  == mail' = [mail EXCEPT ![r].pc = pc]
Done(r)         == mail' = [mail EXCEPT ![r] = NoMail]
Gain(ch, x)     == gained' = [gained EXCEPT ![ch] = Append(@, x)]
Ours            == identity \cap Email

-----------------------------------------------------------------------------
(* MemoryOtpChallengeStore. *)

Closed == [ch \in Challenges |-> [challenge[ch] EXCEPT !.open = FALSE]]

\* issue(): a new code replaces those of its address, whether or not there is room for it.
Issue(r, purpose, owner) ==
    \/ challenge' = Closed /\ Done(r)
    \/ \E ch \in Challenges :
          /\ challenge[ch] = Unissued
          /\ challenge' = [Closed EXCEPT ![ch] =
                 [open |-> TRUE, purpose |-> purpose, owner |-> owner, attempts |-> 0]]
          /\ mail' = [mail EXCEPT ![r] = [NoMail EXCEPT !.pc = "delivering", !.ch = ch]]

\* What becomes of an open challenge on an attempt that does not match: counted, or the last.
Counted(row) == IF row.attempts + 1 >= MaxAttempts THEN [row EXCEPT !.open = FALSE]
                ELSE [row EXCEPT !.attempts = @ + 1]

\* Mutation: the challenge is removed only by who redeems it, after an await.
AttemptKeepsIt(ch, right) ==
    challenge' = IF right THEN challenge ELSE [challenge EXCEPT ![ch] = Counted(@)]

\* attempt() on an open challenge that has not expired: a match removes it at once.
Attempt(ch, right) ==
    challenge' = [challenge EXCEPT ![ch] = IF right THEN [@ EXCEPT !.open = FALSE]
                                           ELSE Counted(@)]

\* A code is presented: the challenge is gone, expired, or compared.  A match goes on if
\* the code is for this purpose and was asked for by this account.
Redeem(r, ch, purpose, owner, next) ==
    \/ ~challenge[ch].open /\ Done(r) /\ UNCHANGED challenge
    \/ challenge[ch].open /\ challenge' = [challenge EXCEPT ![ch].open = FALSE] /\ Done(r)
    \/ challenge[ch].open /\ Attempt(ch, FALSE) /\ Done(r)
    \/ /\ challenge[ch].open /\ Attempt(ch, TRUE)
       /\ IF challenge[ch].purpose = purpose /\ challenge[ch].owner = owner
          THEN mail' = [mail EXCEPT ![r] = [pc |-> next, does |-> owner, s |-> NoSession, ch |-> ch]]
          ELSE Done(r)

\* The sweep, or the next issue(), finds it past its life.
Expire(ch) ==
    /\ challenge[ch].open
    /\ challenge' = [challenge EXCEPT ![ch].open = FALSE]
    /\ UNCHANGED <<vars, scene, mail, elsewhere, linked, gained>>

-----------------------------------------------------------------------------
(* EmailAuthService.start. *)

\* For a sign-in, or for a link to another account; the limits let it pass.
Start(r) ==
    /\ Free(r)
    /\ Issue(r, "sign_in", "none") \/ Issue(r, "link", "them")
    /\ UNCHANGED <<vars, scene, elsewhere, linked, gained>>

\* A request with a session of ours: a link is started, or completed.
WithSession(r, s, does, ch) ==
    /\ Free(r) /\ s \in issued
    /\ mail' = [mail EXCEPT ![r] = [pc |-> "authorising", does |-> does, s |-> s, ch |-> ch]]
    /\ UNCHANGED <<vars, scene, challenge, elsewhere, linked, gained>>

StartLink(r, s)        == WithSession(r, s, "start", NoChallenge)
CompleteLink(r, s, ch) == challenge[ch] # Unissued /\ WithSession(r, s, "complete", ch)

\* authenticate(), and what follows it without an await.
Authorise(r) ==
    /\ Doing(r, "authorising")
    /\ \/ Done(r) /\ UNCHANGED challenge
       \/ /\ ~session[mail[r].s].revoked
          /\ IF mail[r].does = "start" THEN Issue(r, "link", "us")
             ELSE Redeem(r, mail[r].ch, "link", "us", "attaching")
    /\ UNCHANGED <<vars, scene, elsewhere, linked, gained>>

\* The mail was sent, or the challenge is discarded.
Deliver(r) ==
    /\ Doing(r, "delivering")
    /\ challenge' \in {challenge, [challenge EXCEPT ![mail[r].ch].open = FALSE]}
    /\ Done(r)
    /\ UNCHANGED <<vars, scene, elsewhere, linked, gained>>

-----------------------------------------------------------------------------
(* EmailAuthService.verify, completeLink and resolveAccount. *)

\* A code is presented to sign in, or by another account to complete its link.
Verifies(r, ch) ==
    /\ Free(r) /\ challenge[ch] # Unissued
    /\ Redeem(r, ch, "sign_in", "none", "resolving") \/ Redeem(r, ch, "link", "them", "attaching")
    /\ UNCHANGED <<vars, scene, elsewhere, linked, gained>>

\* findIdentityByVerifiedEmail: the address is ours, another account's, or new.
Resolve(r) ==
    /\ Doing(r, "resolving")
    /\ IF Ours # {} THEN Proceed(r, "found") /\ UNCHANGED gained
       ELSE IF elsewhere THEN Done(r) /\ Gain(mail[r].ch, <<"session", "none">>)
       ELSE Proceed(r, "attaching") /\ UNCHANGED gained
    /\ UNCHANGED <<vars, scene, challenge, elsewhere, linked>>

\* getUser; createSession is called with the identity that was found.
SignInByCode(r) ==
    /\ Doing(r, "found")
    /\ IF Ours # {} THEN (\E i \in Ours : SignIn(r, i)) /\ Proceed(r, "signing")
       ELSE Done(r) /\ UNCHANGED vars
    /\ UNCHANGED <<scene, challenge, elsewhere, linked, gained>>

CreateByCode(r) ==
    /\ Doing(r, "signing") /\ Create(r)
    /\ IF request'[r].pc = "ok" THEN Gain(mail[r].ch, <<"session", "none">>) ELSE UNCHANGED gained
    /\ Done(r)
    /\ UNCHANGED <<scene, challenge, elsewhere, linked>>

\* attachIdentity, to our account, to another, or to one just created: if an account has the
\* address, that is no news to itself, and a refusal to any other.
LookUp(r) ==
    /\ Doing(r, "attaching")
    /\ \/ Ours = {} /\ ~elsewhere /\ Proceed(r, "inserting") /\ UNCHANGED gained
       \/ /\ (mail[r].does = "us" /\ Ours # {}) \/ (mail[r].does = "them" /\ elsewhere)
          /\ Done(r) /\ Gain(mail[r].ch, <<"identity", mail[r].does>>)
       \/ /\ elsewhere \/ (mail[r].does # "us" /\ Ours # {})
          /\ Done(r) /\ UNCHANGED gained
    /\ UNCHANGED <<vars, scene, challenge, elsewhere, linked>>

\* The identity is written, for us or for another account.
Attach(r) ==
    /\ IF mail[r].does = "us"
       THEN /\ \E i \in Email \ linked :
                  /\ identity' = identity \cup {i}
                  /\ linked' = linked \cup {i}
            /\ UNCHANGED elsewhere
       ELSE elsewhere' = TRUE /\ UNCHANGED <<identity, linked>>
    /\ Gain(mail[r].ch, <<IF mail[r].does = "none" THEN "session" ELSE "identity", mail[r].does>>)

\* Mutation: the table has no unique address.
InsertAnyway(r) ==
    /\ Doing(r, "inserting") /\ Attach(r)
    /\ Done(r)
    /\ UNCHANGED <<session, request, issued, ended, scene, challenge>>

\* insertIdentity: the address is unique in the table.
Insert(r) ==
    /\ Doing(r, "inserting")
    /\ IF Ours = {} /\ ~elsewhere THEN Attach(r)
       ELSE UNCHANGED <<identity, elsewhere, linked, gained>>
    /\ Done(r)
    /\ UNCHANGED <<session, request, issued, ended, scene, challenge>>

-----------------------------------------------------------------------------

\* The caller left, or the isolate that served it is gone.
LeaveMail(r) ==
    /\ ~Doing(r, "idle")
    /\ Done(r) /\ request' = [request EXCEPT ![r] = Idle]
    /\ UNCHANGED <<session, identity, issued, ended, scene, challenge, elsewhere, linked, gained>>

Codes(r) ==
    \/ Start(r) \/ Authorise(r) \/ Deliver(r)
    \/ \E s \in Sessions : StartLink(r, s) \/ \E ch \in Challenges : CompleteLink(r, s, ch)
    \/ \E ch \in Challenges : Verifies(r, ch)
    \/ Resolve(r) \/ SignInByCode(r) \/ CreateByCode(r) \/ LookUp(r) \/ Insert(r) \/ LeaveMail(r)

\* The rest of the service while codes are used: a sign-in without one, to begin with (a
\* bound), and an identity is removed.
Detaching(r) ==
    /\ Doing(r, "idle")
    /\ \/ \E i \in Identities \ Email : SignIn(r, i) /\ \A q \in Requests : Free(q)
                                       /\ \A s \in Sessions : ~Exists(s)
       \/ Create(r)
       \/ \E s \in Sessions, i \in identity : Detach(r, s, i)
       \/ Verify(r) \/ Look(r) \/ List(r) \/ Unlink(r) \/ Delete(r) \/ Leave(r)
    /\ UNCHANGED mailVars

CodesNext ==
    \/ scene = "tokens" /\ Next /\ UNCHANGED mailVars
    \/ /\ scene = "codes"
       /\ \/ \E r \in Requests : Codes(r) \/ Detaching(r)
          \/ \E ch \in Challenges : Expire(ch)

CodesSpec == CodesInit /\ [][CodesNext]_allVars

-----------------------------------------------------------------------------
(* Properties. *)

\* email-auth-service.ts, verify and completeLink: a code is worth one thing - a session or
\* an identity - and only what it was asked for, for the account that asked.
CodeIsWorthOne ==
    \A ch \in Challenges :
        /\ Len(gained[ch]) <= 1
        /\ \A n \in DOMAIN gained[ch] :
              gained[ch][n] = IF challenge[ch].purpose = "sign_in" THEN <<"session", "none">>
                              ELSE <<"identity", challenge[ch].owner>>

\* identity-service.ts, attachIdentity: the address has one owner, and is one identity of
\* it, whatever sign-ins, links and removals interleave.
AddressHasOneOwner == Cardinality(Ours) <= (IF elsewhere THEN 0 ELSE 1)
=============================================================================
