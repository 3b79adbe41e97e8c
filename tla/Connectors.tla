----------------------------- MODULE Connectors -----------------------------
(***************************************************************************)
(* The tool calls and the writes they make, and the connection requests    *)
(* go out on.  A write's look at the connection is a choice of             *)
(* ConnectorWrites, so the connection is followed where no task asks for   *)
(* anything; the worker and its evictions are theirs together.             *)
(***************************************************************************)
EXTENDS ConnectorWrites, ConnectorSession

connectorsVars == <<vars, sessionVars>>

Quiet == \A t \in Tasks : asks[t] = {}

ConnectorsInit ==
    /\ Init /\ SessionInit
    /\ ~Quiet => acts = 0 /\ vault = {}

ConnectorsNext ==
    \/ ToolsNext /\ UNCHANGED sessionVars
    \/ Quiet /\ SessionNext /\ UNCHANGED vars
    \/ EvictAll /\ SessionForgets

ConnectorsSpec == ConnectorsInit /\ [][ConnectorsNext]_connectorsVars /\ Fairness

ConnectorsTypeOK == TypeOK /\ SessionTypeOK
=============================================================================
