----------------------------- MODULE MCServers -----------------------------
(***************************************************************************)
(* The connection pool of AgentCenter and the endpoints of                 *)
(* ServiceDiscovery, for TLC: a behaviour is one of the pool or one of the *)
(* endpoints.  The other is in a state in which no fair action is enabled. *)
(***************************************************************************)
EXTENDS GRPCPool, Endpoint, TLC

VARIABLE part    \* what this behaviour is about

\* No interval passes while a heartbeat is due.
EndpointOff ==
    /\ reg = [e \in Endpoints |-> Empty] /\ snap = reg /\ got = reg
    /\ sendChan = [e \in Endpoints |-> <<>>] /\ trans = sendChan /\ recvChan = sendChan
    /\ due = [e \in Endpoints |-> FALSE] /\ changes = 0
    /\ server = [s \in Servers |-> "down"] /\ timer = [s \in Servers |-> 2]

ServersInit ==
    \/ part = "pool" /\ Init /\ EndpointOff
    \/ part = "endpoints" /\ Init /\ EndpointInit

ServersNext ==
    \/ part = "pool" /\ Next /\ UNCHANGED <<part, endpointVars>>
    \/ part = "endpoints" /\ EndpointNext /\ UNCHANGED <<part, vars>>

ServersSpec ==
    /\ ServersInit /\ [][ServersNext]_<<part, vars, endpointVars>>
    /\ Fairness /\ EndpointFairness
=============================================================================
