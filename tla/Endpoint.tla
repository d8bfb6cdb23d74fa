------------------------------ MODULE Endpoint ------------------------------
(***************************************************************************)
(* Service discovery (server/service_discovery): endpoints keep a registry *)
(* of servers in memory, age it every 15 seconds, evict what has not       *)
(* renewed, and pass registrations and evictions on to each other without  *)
(* acknowledgement.  Servers (agent_center/svr_registry) register, renew   *)
(* every 30 seconds at any endpoint, and evict themselves when they stop.  *)
(*                                                                         *)
(* Time is counted in refresh intervals of 15 seconds.  A registry holds   *)
(* the age of its UpdateAt.  All that is not waiting for a timer is done   *)
(* within an interval: requests to an endpoint time out after 2 seconds    *)
(* and syncSend flushes every 2 seconds.                                   *)
(***************************************************************************)
EXTENDS Integers, Sequences, SequencesExt

CONSTANTS
    Endpoints,
    Servers,     \* name, ip and port of a server
    None,        \* no registry
    SyncLen,     \* capacity of sendChan and recvChan
    MaxChanges   \* bound: starts, stops and restarts in one interval

ASSUME EndpointAssumption ==
    /\ SyncLen \in Nat \ {0}
    /\ MaxChanges \in Nat
    /\ Endpoints # {}

VARIABLES
    reg,      \* endpoint -> registryMap: server -> registry or None
    due,      \* endpoint -> registryRefresh's ticker has fired
    snap,     \* endpoint -> what registryRefresh has read and not yet handled
    got,      \* endpoint -> Registers between HGet and HSet: server -> r
    sendChan, \* endpoint -> SyncInfos to send
    trans,    \* endpoint -> TransInfos on their way to it
    recvChan, \* endpoint -> TransInfos to apply
    server,   \* server -> "up", "silent" (up, but does not renew) or "down"
    timer,    \* server -> intervals since its last renewal
    changes   \* starts, stops and restarts in this interval

endpointVars == <<reg, due, snap, got, sendChan, trans, recvChan, server, timer, changes>>

StatusGreen == 0
StatusRed == 4
Oldest == 10 \* an age beyond every limit

\* Fault: every limit is one interval later.
StatusOfLate(age) ==
    LET d == age - 1
    IN  IF d <= 4 THEN StatusGreen ELSE d - 4

\* Status by age: 45, 60, 75, 90 and 105 seconds before nowAt, which was read
\* one interval before the ticker fired.
StatusOf(age) ==
    LET d == age - 1
    IN  IF d <= 3 THEN StatusGreen ELSE d - 3

NewRegistry == [age |-> 0, status |-> StatusGreen]
Registry == [age : 0..Oldest, status : StatusGreen..StatusRed]

ASSUME NoneAssumption == None \notin Registry

Empty == [s \in Servers |-> None]
Register(s, r) == [action |-> "REGISTER", server |-> s, registry |-> r]
EvictInfo(s) == [action |-> "EVICT", server |-> s, registry |-> None]

EndpointInit ==
    /\ reg = [e \in Endpoints |-> Empty]
    /\ due = [e \in Endpoints |-> FALSE]
    /\ snap = [e \in Endpoints |-> Empty]
    /\ got = [e \in Endpoints |-> Empty]
    /\ sendChan = [e \in Endpoints |-> <<>>]
    /\ trans = [e \in Endpoints |-> <<>>]
    /\ recvChan = [e \in Endpoints |-> <<>>]
    /\ server = [s \in Servers |-> "down"]
    /\ timer = [s \in Servers |-> 0]
    /\ changes = 0

\* A push to sendChan that does not block.
Push(e, info) ==
    sendChan' = IF Len(sendChan[e]) < SyncLen
                THEN [sendChan EXCEPT ![e] = Append(@, info)] ELSE sendChan

-----------------------------------------------------------------------------
(* registryRefresh.                                                        *)

\* registryMap.Get: a copy of the registries.
RefreshRead(e) ==
    /\ due[e]
    /\ due' = [due EXCEPT ![e] = FALSE]
    /\ snap' = [snap EXCEPT ![e] = reg[e]]
    /\ UNCHANGED <<reg, got, sendChan, trans, recvChan, server, timer, changes>>

\* Fault: a registry past its limit stays as it is.
RefreshOneKeeps(e, s) ==
    /\ snap[e][s] # None
    /\ snap' = [snap EXCEPT ![e][s] = None]
    /\ LET st == StatusOf(snap[e][s].age)
       IN  reg' = IF st <= StatusRed
                  THEN [reg EXCEPT ![e][s] = [snap[e][s] EXCEPT !.status = st]]
                  ELSE reg
    /\ UNCHANGED <<sendChan, due, got, trans, recvChan, server, timer, changes>>

\* One registry of the copy: written back with its status, or evicted.
RefreshOne(e, s) ==
    /\ snap[e][s] # None
    /\ snap' = [snap EXCEPT ![e][s] = None]
    /\ LET st == StatusOf(snap[e][s].age)
       IN  IF st <= StatusRed
           THEN /\ reg' = [reg EXCEPT ![e][s] = [snap[e][s] EXCEPT !.status = st]]
                /\ UNCHANGED sendChan
           ELSE /\ reg' = [reg EXCEPT ![e][s] = None]
                /\ Push(e, EvictInfo(s))
    /\ UNCHANGED <<due, got, trans, recvChan, server, timer, changes>>

-----------------------------------------------------------------------------
(* Register and Evict, as a server's request reaches endpoint e.           *)

\* HGet.
RegisterGet(e, s) ==
    /\ got[e][s] = None
    /\ got' = [got EXCEPT ![e][s] = IF reg[e][s] = None THEN NewRegistry ELSE reg[e][s]]

\* HSet with the time of the request and the status that was read; then
\* tell the others.
RegisterSet(e, s) ==
    /\ got[e][s] # None
    /\ LET r == [got[e][s] EXCEPT !.age = 0]
       IN  reg' = [reg EXCEPT ![e][s] = r] /\ Push(e, Register(s, r))
    /\ got' = [got EXCEPT ![e][s] = None]
    /\ UNCHANGED <<due, snap, trans, recvChan, server, timer, changes>>

Evict(e, s) ==
    /\ reg' = [reg EXCEPT ![e][s] = None]
    /\ Push(e, EvictInfo(s))

-----------------------------------------------------------------------------
(* syncSend, Recv and syncRecv.                                            *)

\* The batch goes to the others that answer; nothing is sent again.
syncSend(e) ==
    /\ sendChan[e] # <<>>
    /\ \E to \in SUBSET (Endpoints \ {e}) :
         trans' = [d \in Endpoints |->
                    IF d \in to THEN Append(trans[d], sendChan[e]) ELSE trans[d]]
    /\ sendChan' = [sendChan EXCEPT ![e] = <<>>]
    /\ UNCHANGED <<reg, due, snap, got, recvChan, server, timer, changes>>

\* Requests on the way arrive in any order; a full recvChan refuses one.
Recv(e) ==
    /\ \E i \in DOMAIN trans[e] :
         /\ trans' = [trans EXCEPT ![e] = RemoveAt(@, i)]
         /\ recvChan' = IF Len(recvChan[e]) < SyncLen
                        THEN [recvChan EXCEPT ![e] = Append(@, trans[e][i])] ELSE recvChan
    /\ UNCHANGED <<reg, due, snap, got, sendChan, server, timer, changes>>

\* The first SyncInfo of the first batch.
syncRecv(e) ==
    /\ recvChan[e] # <<>>
    /\ LET info == Head(Head(recvChan[e]))
           rest == Tail(Head(recvChan[e]))
       IN  /\ reg' = [reg EXCEPT ![e][info.server] = info.registry]
           /\ recvChan' = [recvChan EXCEPT ![e] =
                IF rest = <<>> THEN Tail(@) ELSE <<rest>> \o Tail(@)]
    /\ UNCHANGED <<due, snap, got, sendChan, trans, server, timer, changes>>

-----------------------------------------------------------------------------
(* The servers: ServerRegistry.                                            *)

Change == changes < MaxChanges /\ changes' = changes + 1

\* NewRegistry at some endpoint; renewRegistry runs only if that succeeds.
Start(s) ==
    /\ server[s] = "down"
    /\ \/ /\ \E e \in Endpoints : RegisterGet(e, s)
          /\ server' = [server EXCEPT ![s] = "up"]
       \/ /\ server' = [server EXCEPT ![s] = "silent"]
          /\ UNCHANGED got
    /\ timer' = [timer EXCEPT ![s] = 0]
    /\ Change
    /\ UNCHANGED <<reg, due, snap, sendChan, trans, recvChan>>

\* Every 30 seconds at any endpoint; a failed request is not repeated.
renewRegistry(s) ==
    /\ server[s] = "up" /\ timer[s] = 2
    /\ timer' = [timer EXCEPT ![s] = 0]
    /\ (\E e \in Endpoints : RegisterGet(e, s)) \/ UNCHANGED got
    /\ UNCHANGED <<reg, due, snap, sendChan, trans, recvChan, server, changes>>

\* Stop evicts the server at some endpoint, if the request succeeds.
Stop(s) ==
    /\ server[s] \in {"up", "silent"}
    /\ server' = [server EXCEPT ![s] = "down"]
    /\ (\E e \in Endpoints : Evict(e, s)) \/ UNCHANGED <<reg, sendChan>>
    /\ timer' = [timer EXCEPT ![s] = 0]
    /\ Change
    /\ UNCHANGED <<due, snap, got, trans, recvChan>>

\* An endpoint restarts: all it knew is gone.
Restart(e) ==
    /\ reg' = [reg EXCEPT ![e] = Empty]
    /\ due' = [due EXCEPT ![e] = FALSE]
    /\ snap' = [snap EXCEPT ![e] = Empty]
    /\ got' = [got EXCEPT ![e] = Empty]
    /\ sendChan' = [sendChan EXCEPT ![e] = <<>>]
    /\ recvChan' = [recvChan EXCEPT ![e] = <<>>]
    /\ Change
    /\ UNCHANGED <<trans, server, timer>>

-----------------------------------------------------------------------------
\* Nothing is under way.
Quiet ==
    /\ \A e \in Endpoints :
         /\ ~due[e] /\ snap[e] = Empty
         /\ got[e] = Empty
         /\ sendChan[e] = <<>> /\ trans[e] = <<>> /\ recvChan[e] = <<>>
    /\ \A s \in Servers : timer[s] < 2

Older(r) == IF r = None \/ r.age = Oldest THEN r ELSE [r EXCEPT !.age = @ + 1]

\* 15 seconds pass; the tickers fire.
Tick ==
    /\ Quiet
    /\ reg' = [e \in Endpoints |-> [s \in Servers |-> Older(reg[e][s])]]
    /\ due' = [e \in Endpoints |-> TRUE]
    /\ timer' = [s \in Servers |-> IF server[s] = "up" THEN timer[s] + 1 ELSE timer[s]]
    /\ changes' = 0
    /\ UNCHANGED <<snap, got, sendChan, trans, recvChan, server>>

EndpointSteps(e) ==
    \/ RefreshRead(e) \/ syncSend(e) \/ Recv(e) \/ syncRecv(e)
    \/ \E s \in Servers : RefreshOne(e, s) \/ RegisterSet(e, s)

EndpointNext ==
    \/ \E e \in Endpoints : EndpointSteps(e) \/ Restart(e)
    \/ \E s \in Servers : Start(s) \/ renewRegistry(s) \/ Stop(s)
    \/ Tick

EndpointSpec == EndpointInit /\ [][EndpointNext]_endpointVars

\* The endpoints' goroutines and the servers' timers run, and time passes.
EndpointFairness ==
    /\ \A e \in Endpoints : WF_endpointVars(EndpointSteps(e))
    /\ \A s \in Servers : WF_endpointVars(renewRegistry(s))
    /\ WF_endpointVars(Tick)

EndpointFairSpec == EndpointSpec /\ EndpointFairness

-----------------------------------------------------------------------------
Infos == [action : {"REGISTER", "EVICT"}, server : Servers, registry : Registry \cup {None}]

\* Every variable stays in its type and the channels within their capacity.
EndpointTypeOK ==
    /\ reg \in [Endpoints -> [Servers -> Registry \cup {None}]]
    /\ due \in [Endpoints -> BOOLEAN]
    /\ snap \in [Endpoints -> [Servers -> Registry \cup {None}]]
    /\ got \in [Endpoints -> [Servers -> Registry \cup {None}]]
    /\ sendChan \in [Endpoints -> Seq(Infos)]
    /\ trans \in [Endpoints -> Seq(Seq(Infos))]
    /\ recvChan \in [Endpoints -> Seq(Seq(Infos))]
    /\ \A e \in Endpoints : Len(sendChan[e]) <= SyncLen /\ Len(recvChan[e]) <= SyncLen
    /\ server \in [Servers -> {"up", "silent", "down"}]
    /\ timer \in [Servers -> 0..2]
    /\ changes \in 0..MaxChanges

\* The status of a listed registry bounds its age: green for at most 75
\* seconds after the last heartbeat and 15 more for every step down to red.  So
\* nothing is listed for longer than 135 seconds after its last heartbeat,
\* whatever refresh, Register, Evict and syncRecv overwrite of each other.
StatusBoundsAge ==
    \A e \in Endpoints, s \in Servers :
        reg[e][s] # None => reg[e][s].age <= 5 + reg[e][s].status

\* A server that has stopped for good disappears from every endpoint for good,
\* even if every eviction message is lost or overtaken by a registration.
StoppedDisappears ==
    \A s \in Servers :
        <>[](server[s] # "up") => <>[](\A e \in Endpoints : reg[e][s] = None)
=============================================================================
