-------------------------- MODULE ConnectorWrites --------------------------
(***************************************************************************)
(* The writes that tool calls make to a connected service: claimed in a    *)
(* durable record before they are sent, settled after, and repeated only   *)
(* when the record says that the first one did nothing.  A call may return *)
(* by its time limit while its write is still under way, and a worker may  *)
(* go away at any await, so a claim can outlive whoever made it.           *)
(***************************************************************************)
EXTENDS ToolDispatch, SequencesExt

CONSTANTS
    Writers,      \* performWrite calls under way
    MaxRecords,   \* MAX_RECORDS
    MaxExcuses    \* bound: how often a claim is dropped, or settled by a redirect

ASSUME WritesAssumption ==
    MaxRecords \in Nat \ {0} /\ MaxExcuses \in Nat /\ IsFiniteSet(Writers)

VARIABLES
    claims,    \* durable: the claims, the newest first
    writer,    \* the performWrite calls
    listed,    \* the uncertain writes the panel was told of
    sent,      \* history: for each key, the requests the service did not say it refused
    excused    \* history: for each key, the claims that were dropped without an answer

writeVars == <<claims, writer, listed, sent, excused>>
vars == <<dispatchVars, writeVars>>

\* writeKey: the task and what it asked for.
Keys == Tasks \X {s \in Shapes : s.kind = "connector"}

Outcomes == {"in_flight", "completed", "failed", "uncertain"}
ClaimRecord == [key : Keys, outcome : Outcomes]

Settling == {"completed", "failed", "uncertain"}
NoWrite == [pc |-> "idle", keys |-> {}]
Writing(w, pc) == writer[w].pc = pc
Advance(w, pc) == writer' = [writer EXCEPT ![w].pc = pc]
EndWrite(w) == writer' = [writer EXCEPT ![w] = NoWrite]

\* The writer's key; it has one from its start.
Key(w) == CHOOSE k \in writer[w].keys : TRUE

WritesInit ==
    /\ claims = <<>>
    /\ writer = [w \in Writers |-> NoWrite]
    /\ listed = {}
    /\ sent = [k \in Keys |-> 0]
    /\ excused = [k \in Keys |-> 0]

Init == DispatchInit /\ WritesInit

\* The bound, of any two keys together.
Bounded(f) == \A j, k \in Keys : f[j] <= MaxExcuses /\ (j # k => f[j] + f[k] <= MaxExcuses)

Standing(seq) == {r.key : r \in {r \in ToSet(seq) : r.outcome # "failed"}}

\* The claims become "after"; those that stood and are gone excuse a repetition.
Replace(after) ==
    /\ claims' = after
    /\ excused' = [k \in Keys |-> IF k \in Standing(claims) \ {r.key : r \in ToSet(after)}
                                  THEN excused[k] + 1 ELSE excused[k]]
    /\ Bounded(excused')

UnderWay(k) == \E w \in Writers : k \in writer[w].keys

-----------------------------------------------------------------------------
(* performWrite. *)

Begin(t, w) ==
    /\ At(t, "executing") /\ call[t].shape.kind = "connector"
    /\ Writing(w, "idle")
    /\ Go(t, "acted")
    /\ writer' = [writer EXCEPT ![w] = [pc |-> "claiming", keys |-> {<<t, call[t].shape>>}]]
    /\ UNCHANGED <<asks, mode, page, rules, plan, aborted, removal, granted, moves, evictions>>
    /\ UNCHANGED <<claims, listed, sent, excused>>

\* The claims but those of a key, which has one at most.
Without(seq, k) == RemoveFirstMatch(seq, LAMBDA r : r.key = k)

\* Mutation: the claims are not trimmed.
ClaimedAll(fresh, k) == <<[key |-> k, outcome |-> "in_flight"]>> \o Without(fresh, k)

\* The newest MAX_RECORDS claims, the one just made first.
Claimed(fresh, k) ==
    LET all == <<[key |-> k, outcome |-> "in_flight"]>> \o Without(fresh, k)
    IN  SubSeq(all, 1, IF Len(all) < MaxRecords THEN Len(all) ELSE MaxRecords)

\* Claims past their retention are dropped; no writer is that old.
Fresh(n) == SubSeq(claims, 1, n)
Expired(n) == \A i \in (n + 1)..Len(claims) : ~UnderWay(claims[i].key)

\* Mutation: a claim whose writer has not settled it is taken over.
RefusesSettled(fresh, k) ==
    \E r \in ToSet(fresh) : r.key = k /\ r.outcome \in {"completed", "uncertain"}

\* A claim for the same key stands.
Refuses(fresh, k) == \E r \in ToSet(fresh) : r.key = k /\ r.outcome # "failed"

\* claim(), one update of the record.
Claim(w) ==
    /\ Writing(w, "claiming")
    /\ \E n \in 0..Len(claims) :
          /\ Expired(n)
          /\ IF Refuses(Fresh(n), Key(w))
             THEN Replace(Fresh(n)) /\ EndWrite(w)
             ELSE Replace(Claimed(Fresh(n), Key(w))) /\ Advance(w, "checking")
    /\ UNCHANGED <<dispatchVars, listed, sent>>

\* preflight: the connector is ready, its scopes were granted, the call has a context.
Check(w) ==
    /\ Writing(w, "checking")
    /\ Advance(w, "sending") \/ Advance(w, "failed")
    /\ UNCHANGED <<dispatchVars, claims, listed, sent, excused>>

\* transport.send: without a credential for a declared destination the write failed; the
\* gate's refusal is an error of another class, and leaves it uncertain; or it is sent.
Send(w) ==
    /\ Writing(w, "sending")
    /\ \/ (Advance(w, "failed") \/ Advance(w, "uncertain")) /\ UNCHANGED sent
       \/ Advance(w, "waiting") /\ sent' = [sent EXCEPT ![Key(w)] = @ + 1]
    /\ UNCHANGED <<dispatchVars, claims, listed, excused>>

\* Mutation: no answer is taken for a refusal.
AnswerIsFinal(w) ==
    /\ Writing(w, "waiting")
    /\ (Advance(w, "completed") \/ Advance(w, "failed")) /\ UNCHANGED <<sent, excused>>
    /\ UNCHANGED <<dispatchVars, claims, listed>>

\* The service accepted, refused (4xx), or did not say (5xx, time limit, lost); an opaque
\* redirect is settled as a failure, and an answer that cannot be read not at all.
Answered(w) ==
    /\ Writing(w, "waiting")
    /\ \/ (Advance(w, "completed") \/ Advance(w, "uncertain") \/ EndWrite(w))
             /\ UNCHANGED <<sent, excused>>
       \/ /\ Advance(w, "failed")
          /\ sent' = [sent EXCEPT ![Key(w)] = @ - 1]
          /\ UNCHANGED excused
       \/ /\ Advance(w, "failed")
          /\ excused' = [excused EXCEPT ![Key(w)] = @ + 1] /\ Bounded(excused')
          /\ UNCHANGED sent
    /\ UNCHANGED <<dispatchVars, claims, listed>>

\* settle() and markUncertain(): the outcome, if the claim is still there.
Settle(w) ==
    /\ writer[w].pc \in Settling
    /\ claims' = [i \in DOMAIN claims |->
           IF claims[i].key = Key(w) THEN [claims[i] EXCEPT !.outcome = writer[w].pc]
           ELSE claims[i]]
    /\ EndWrite(w)
    /\ UNCHANGED <<dispatchVars, listed, sent, excused>>

-----------------------------------------------------------------------------
(* The panel and the worker. *)

\* connector.pendingWrites.
ListPending ==
    /\ listed' = {r.key : r \in {r \in ToSet(claims) : r.outcome = "uncertain"}}
    /\ listed' # listed
    /\ UNCHANGED <<dispatchVars, claims, writer, sent, excused>>

\* connector.resolveWrite: the claim is forgotten, whatever became of it since it was listed.
ResolveWrite(k) ==
    /\ k \in listed
    /\ Replace(Without(claims, k))
    /\ claims' # claims
    /\ UNCHANGED <<dispatchVars, writer, listed, sent>>

\* The worker is evicted: its calls and writes end where they are.
EvictAll ==
    /\ Evict
    /\ writer' = [w \in Writers |-> NoWrite]
    /\ UNCHANGED <<claims, listed, sent, excused>>

WriteStep(w) == Claim(w) \/ Check(w) \/ Send(w) \/ Answered(w) \/ Settle(w)

ToolsNext ==
    \/ Dispatch /\ UNCHANGED writeVars
    \/ \E t \in Tasks, w \in Writers : Begin(t, w)
    \/ \E w \in Writers : WriteStep(w)
    \/ ListPending \/ \E k \in Keys : ResolveWrite(k)

Next == ToolsNext \/ EvictAll

Spec == Init /\ [][Next]_vars

\* The worker's own steps: a timer fires, a storage call returns, a tool has a time limit.
Fairness == \A t \in Tasks : WF_vars(Step(t) /\ UNCHANGED writeVars)

FairSpec == Spec /\ Fairness

-----------------------------------------------------------------------------
(* Properties. *)

TypeOK ==
    /\ DispatchTypeOK
    /\ ToSet(claims) \subseteq ClaimRecord /\ Len(claims) <= MaxRecords
    /\ \A w \in Writers :
          \/ writer[w] = NoWrite
          \/ /\ writer[w].pc \in {"claiming", "checking", "sending", "waiting"} \cup Settling
             /\ \E k \in Keys : writer[w].keys = {k}
    /\ listed \subseteq Keys
    /\ sent \in [Keys -> Nat] /\ excused \in [Keys -> 0..MaxExcuses]

\* write-guard.ts: a write is sent again only after the service refused it, or after its
\* claim was dropped - by a person who looked, by age, by number - or settled by a redirect.
\* In particular not because its call timed out, its worker was evicted or its answer lost:
\* a claim stands from before a write is sent, whatever happens to its writer.
RepeatIsExplained ==
    \A k \in Keys :
        /\ sent[k] <= 1 + excused[k]
        /\ sent[k] > 0 /\ excused[k] = 0 => k \in Standing(claims)
=============================================================================
