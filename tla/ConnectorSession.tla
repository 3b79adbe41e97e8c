-------------------------- MODULE ConnectorSession --------------------------
(***************************************************************************)
(* The connection to one service: the status the worker keeps in memory    *)
(* and loses with itself, the vault that outlives the worker and not the   *)
(* browser, the tokens a person supplies, which the service is asked about *)
(* before one is stored, and the requests of tools, which look at all of   *)
(* this at one await after another.  Every connector of this build is      *)
(* connected by such a token.  A storage area answers in the order it was  *)
(* asked, so an answer and what its caller does next are one step.         *)
(***************************************************************************)
EXTENDS Naturals, FiniteSets

CONSTANTS
    Tokens,      \* what a person may paste
    CanWrite,    \* those the service says may write; of others it says no, or does not say
    HomeOf,      \* the origin a token is sent to: the site it is bound to, or the descriptor's
    Requests,    \* requests of tools under way
    MaxActs      \* bound: how often the person connects or disconnects

ASSUME SessionAssumption == CanWrite \subseteq Tokens /\ DOMAIN HomeOf = Tokens /\ MaxActs \in Nat

VARIABLES
    session,     \* the session's status; covers: its scopes cover a write
    vault,       \* the stored token
    request,     \* the requests
    asking,      \* connectWithToken calls whose introspection is under way
    confirmed,   \* history: the tokens the service has accepted
    acts         \* how often the person may still connect or disconnect

sessionVars == <<session, vault, request, asking, confirmed, acts>>

\* AUTH_TRANSITIONS, as far as the states that are reached.
Edges == [UNCONFIGURED   |-> {"NEEDS_AUTH", "READY"},
          NEEDS_AUTH     |-> {"AUTHENTICATING", "UNCONFIGURED"},
          AUTHENTICATING |-> {"READY", "NEEDS_AUTH"},
          READY          |-> {"NEEDS_AUTH", "UNCONFIGURED"}]

NewSession == [state |-> "UNCONFIGURED", covers |-> FALSE]

\* transition(): an edge the table lacks is refused, and nothing changes.
To(s, to) == IF to \in Edges[s.state] THEN [s EXCEPT !.state = to] ELSE s

\* ... into READY, with the scopes of the token.
ToReady(s, token) ==
    IF "READY" \in Edges[s.state] THEN [state |-> "READY", covers |-> token \in CanWrite] ELSE s

Token == CHOOSE t \in vault : TRUE
Bound == {HomeOf[t] : t \in vault}

NoRequest == [pc |-> "idle", writes |-> FALSE, to |-> {}, header |-> {}]
Requesting(q, pc) == request[q].pc = pc
Proceed(q, pc) == request' = [request EXCEPT ![q].pc = pc]
GiveUp(q) == request' = [request EXCEPT ![q] = NoRequest]

\* reconcile(): the status is rebuilt from what the vault holds.
Reconciled ==
    CASE vault # {} /\ session.state # "READY" ->
             ToReady(To(To(session, "NEEDS_AUTH"), "AUTHENTICATING"), Token)
      [] vault = {} /\ session.state \in {"READY", "UNCONFIGURED"} -> To(session, "NEEDS_AUTH")
      [] OTHER -> session

\* A new worker, with or without a connection made before.
SessionInit ==
    /\ session = NewSession
    /\ asking = {}
    /\ request = [q \in Requests |-> NoRequest]
    /\ vault \in {{}} \cup {{t} : t \in Tokens}
    /\ confirmed = vault
    /\ acts \in 0..MaxActs

PersonActs == acts > 0 /\ acts' = acts - 1

\* connector.list.
ListConnectors ==
    /\ session' = Reconciled
    /\ UNCHANGED <<vault, request, asking, confirmed, acts>>

\* A replacement steps back through NEEDS_AUTH; a session that is already asking refuses.
SteppedBack ==
    IF session.state \in {"AUTHENTICATING", "NEEDS_AUTH"} THEN session ELSE To(session, "NEEDS_AUTH")

\* Mutation: the token is stored before the service is asked.
ConnectStored(t) ==
    /\ PersonActs
    /\ t \in Tokens \ asking
    /\ "AUTHENTICATING" \in Edges[SteppedBack.state]
    /\ session' = To(SteppedBack, "AUTHENTICATING")
    /\ asking' = asking \cup {t}
    /\ vault' = {t}
    /\ UNCHANGED <<request, confirmed>>

\* connectWithToken, until the service is asked.
Connect(t) ==
    /\ PersonActs
    /\ t \in Tokens \ asking
    /\ "AUTHENTICATING" \in Edges[SteppedBack.state]
    /\ session' = To(SteppedBack, "AUTHENTICATING")
    /\ asking' = asking \cup {t}
    /\ UNCHANGED <<vault, request, confirmed>>

\* The service accepted the token: it is stored, and the session becomes ready.
Accept(t) ==
    /\ t \in asking
    /\ asking' = asking \ {t}
    /\ confirmed' = confirmed \cup {t}
    /\ vault' = {t}
    /\ session' = ToReady(session, t)
    /\ UNCHANGED <<request, acts>>

\* It refused the token, or could not be asked.
Reject(t) ==
    /\ t \in asking
    /\ asking' = asking \ {t}
    /\ session' = To(session, "NEEDS_AUTH")
    /\ UNCHANGED <<vault, request, confirmed, acts>>

\* connectWithToken with a site that cannot be used: nothing is asked or stored.
RefuseSite ==
    /\ PersonActs
    /\ session' = To(session, "NEEDS_AUTH")
    /\ UNCHANGED <<vault, request, asking, confirmed>>

\* connector.disconnect.
Disconnect ==
    /\ PersonActs
    /\ vault' = {}
    /\ session' = To(session, "UNCONFIGURED")
    /\ UNCHANGED <<request, asking, confirmed>>

-----------------------------------------------------------------------------
(* A request of a tool: ConnectorRuntime.call and the transport. *)

\* The adapter's base(): a connector that is bound to a site asks the vault for it.
Address(q) ==
    /\ Requesting(q, "idle") /\ vault # {}
    /\ \E w \in BOOLEAN :
          request' = [request EXCEPT ![q] = [NoRequest EXCEPT !.pc = "addressed", !.writes = w,
                                                              !.to = Bound]]
    /\ UNCHANGED <<session, vault, asking, confirmed, acts>>

\* preflight: the session is ready, and its scopes cover what a write needs.
Preflight(q) ==
    /\ Requesting(q, "addressed")
    /\ session' = Reconciled
    /\ IF session'.state = "READY" /\ (request[q].writes => session'.covers)
       THEN Proceed(q, "ready") ELSE GiveUp(q)
    /\ UNCHANGED <<vault, asking, confirmed, acts>>

\* allowedFor and assertDeclared: the one origin that is bound now.
Permit(q) ==
    /\ Requesting(q, "ready")
    /\ IF request[q].to \subseteq Bound THEN Proceed(q, "permitted") ELSE GiveUp(q)
    /\ UNCHANGED <<session, vault, asking, confirmed, acts>>

\* credentialHeaderValue.
ReadCredential(q) ==
    /\ Requesting(q, "permitted")
    /\ IF vault # {}
       THEN request' = [request EXCEPT ![q].pc = "authorized", ![q].header = vault]
       ELSE GiveUp(q)
    /\ UNCHANGED <<session, vault, asking, confirmed, acts>>

\* guardedSend: the gate refuses, or the request leaves.
Leave(q) ==
    /\ Requesting(q, "authorized")
    /\ Proceed(q, "sent") \/ GiveUp(q)
    /\ UNCHANGED <<session, vault, asking, confirmed, acts>>

\* The answer, or none in time.  A redirect that is followed stays at the origin.
Respond(q) ==
    /\ Requesting(q, "sent")
    /\ GiveUp(q)
    /\ UNCHANGED <<session, vault, asking, confirmed, acts>>

RequestStep(q) ==
    Address(q) \/ Preflight(q) \/ Permit(q) \/ ReadCredential(q) \/ Leave(q) \/ Respond(q)

-----------------------------------------------------------------------------
\* A new worker, perhaps of a new browser session, which starts with an empty vault.
SessionForgets ==
    /\ session' = NewSession
    /\ asking' = {}
    /\ request' = [q \in Requests |-> NoRequest]
    /\ vault' \in {vault, {}}
    /\ UNCHANGED <<confirmed, acts>>

SessionNext ==
    \/ ListConnectors
    \/ \E t \in Tokens : Connect(t) \/ Accept(t) \/ Reject(t)
    \/ RefuseSite \/ Disconnect
    \/ \E q \in Requests : RequestStep(q)

\* The connection by itself.
SessionSpec == SessionInit /\ [][SessionNext \/ SessionForgets]_sessionVars

SessionTypeOK ==
    /\ session \in [state : DOMAIN Edges, covers : BOOLEAN]
    /\ vault \subseteq Tokens /\ Cardinality(vault) <= 1
    /\ asking \subseteq Tokens /\ confirmed \subseteq Tokens
    /\ acts \in 0..MaxActs
    /\ \A q \in Requests :
          /\ request[q].pc \in {"idle", "addressed", "ready", "permitted", "authorized", "sent"}
          /\ request[q].writes \in BOOLEAN /\ request[q].header \subseteq Tokens
          /\ request[q].to \subseteq {HomeOf[t] : t \in Tokens}

\* connector-session.ts ("The order of operations is the control"): a request carries a
\* token, goes to a site and may write only as the service has confirmed of tokens it
\* accepted - whatever the person pasted, replaced or took away meanwhile, and although a
\* new worker takes what it finds in the vault for a confirmed connection.
OnlyConfirmed ==
    \A q \in Requests : request[q].pc \in {"authorized", "sent"} =>
        /\ request[q].header # {} /\ request[q].header \subseteq confirmed
        /\ request[q].to \subseteq {HomeOf[t] : t \in confirmed}
        /\ request[q].writes => confirmed \cap CanWrite # {}
=============================================================================
