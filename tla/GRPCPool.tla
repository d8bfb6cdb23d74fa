------------------------------ MODULE GRPCPool ------------------------------
(***************************************************************************)
(* AgentCenter's connection pool (server/agent_center/grpctrans/pool) and  *)
(* the gRPC Transfer handler that uses it.  Every agent holds one stream;  *)
(* its handler takes a token, registers the connection under the agent's   *)
(* ID, starts one goroutine per direction and waits for the connection's   *)
(* context.  HTTP handlers and the checkConfig worker post commands to the *)
(* connection through an unbuffered channel with timeouts.                 *)
(*                                                                         *)
(* A stream and its Connection are one element of Streams.  An element is  *)
(* used again for a later stream once nothing refers to the old Connection *)
(* any more, so a stale pointer is never confused with a new connection.   *)
(***************************************************************************)
EXTENDS Integers, FiniteSets, Sequences

CONSTANTS
    Streams,      \* Transfer calls, each with its *Connection
    AgentIDs,     \* keys of connPool
    Callers,      \* HTTP requests that run PostCommand or Close
    checkConfig,  \* the configuration worker, which also runs PostCommand
    NoConn,       \* the nil *Connection
    PoolLength,   \* Config.PoolLength: number of tokens
    ChanLen       \* Config.ChanLen: capacity of confChan

ASSUME PoolAssumption ==
    /\ IsFiniteSet(Streams)
    /\ NoConn \notin Streams
    /\ checkConfig \notin Callers
    /\ "nobody" \notin Callers \cup {checkConfig}
    /\ PoolLength \in Nat
    /\ ChanLen \in Nat

VARIABLES
    tokenChan,  \* number of tokens in the channel
    connPool,   \* AgentID -> registered connection or NoConn
    confChan,   \* AgentIDs whose configuration is to be posted
    pc,         \* Transfer handler of each stream
    agentID,    \* AgentID of the first packet of each stream
    ctxDone,    \* connection.Ctx is cancelled
    recvPc,     \* recvData goroutine
    sendPc,     \* sendData goroutine
    sending,    \* the poster that waits for the command sendData holds
    post,       \* PostCommand, Close and checkConfig calls
    wire        \* history: stream.Send succeeded for the poster's command

handlerVars == <<tokenChan, pc, agentID>>
goroutineVars == <<ctxDone, recvPc, sendPc, sending>>
postVars == <<post, wire>>
vars == <<tokenChan, connPool, confChan, pc, agentID, ctxDone,
          recvPc, sendPc, sending, post, wire>>

Posters == Callers \cup {checkConfig}

NoAgent == "no agent"
Nobody == "nobody"         \* sendData holds no command, or one nobody waits for

NoPost == [pc |-> "idle", kind |-> "none", id |-> NoAgent, conn |-> NoConn,
           Ready |-> FALSE, Error |-> FALSE, result |-> "none"]

\* What is left of a call of p that has returned r.
Returned(p, r) == [NoPost EXCEPT !.kind = post[p].kind, !.result = r]

\* Nothing reaches the Connection of an earlier use of s.
Unreferenced(s) ==
    /\ recvPc[s] # "recv"
    /\ sendPc[s] \notin {"select", "send"}
    /\ \A p \in Posters : post[p].conn # s

-----------------------------------------------------------------------------
(* The Transfer handler.                                                   *)

\* LoadToken succeeds; a call that finds no token returns at once.
LoadToken(s) ==
    /\ pc[s] = "none" /\ Unreferenced(s)
    /\ tokenChan > 0
    /\ tokenChan' = tokenChan - 1
    /\ pc' = [pc EXCEPT ![s] = "recv"]
    /\ ctxDone' = [ctxDone EXCEPT ![s] = FALSE]
    /\ recvPc' = [recvPc EXCEPT ![s] = "off"]
    /\ sendPc' = [sendPc EXCEPT ![s] = "off"]
    /\ UNCHANGED <<connPool, confChan, agentID, sending, postVars>>

\* The first Recv fails: return, running the deferred ReleaseToken.
RecvFirstError(s) ==
    /\ pc[s] = "recv"
    /\ pc' = [pc EXCEPT ![s] = "release"]
    /\ UNCHANGED <<tokenChan, connPool, confChan, agentID, goroutineVars, postVars>>

RecvFirst(s, a) ==
    /\ pc[s] = "recv"
    /\ agentID' = [agentID EXCEPT ![s] = a]
    /\ pc' = [pc EXCEPT ![s] = "get"]
    /\ UNCHANGED <<tokenChan, connPool, confChan, goroutineVars, postVars>>

\* Fault: the conflict path returns without the deferred ReleaseToken.
AddGetKeepsToken(s) ==
    /\ pc[s] = "get"
    /\ pc' = [pc EXCEPT ![s] = IF connPool[agentID[s]] = NoConn
                               THEN "set" ELSE "none"]
    /\ UNCHANGED <<tokenChan, connPool, confChan, agentID, goroutineVars, postVars>>

\* Add, first half: connPool.Get.
AddGet(s) ==
    /\ pc[s] = "get"
    /\ pc' = [pc EXCEPT ![s] = IF connPool[agentID[s]] = NoConn
                               THEN "set" ELSE "release"]
    /\ UNCHANGED <<tokenChan, connPool, confChan, agentID, goroutineVars, postVars>>

\* Add, second half: connPool.Set, whatever the pool holds by now.
AddSet(s) ==
    /\ pc[s] = "set"
    /\ connPool' = [connPool EXCEPT ![agentID[s]] = s]
    /\ pc' = [pc EXCEPT ![s] = "start"]
    /\ UNCHANGED <<tokenChan, confChan, agentID, goroutineVars, postVars>>

StartGoroutines(s) ==
    /\ pc[s] = "start"
    /\ pc' = [pc EXCEPT ![s] = "config"]
    /\ recvPc' = [recvPc EXCEPT ![s] = "recv"]
    /\ sendPc' = [sendPc EXCEPT ![s] = "select"]
    /\ UNCHANGED <<tokenChan, connPool, confChan, agentID, ctxDone, sending, postVars>>

\* A full confChan drops the request; the error is only logged.
PostLatestConfig(s) ==
    /\ pc[s] = "config"
    /\ confChan' = IF Len(confChan) < ChanLen
                   THEN Append(confChan, agentID[s]) ELSE confChan
    /\ pc' = [pc EXCEPT ![s] = "wait"]
    /\ UNCHANGED <<tokenChan, connPool, agentID, goroutineVars, postVars>>

\* Fault: Transfer returns without the deferred Delete.
ContextDoneNoDelete(s) ==
    /\ pc[s] = "wait" /\ ctxDone[s]
    /\ pc' = [pc EXCEPT ![s] = "release"]
    /\ UNCHANGED <<tokenChan, connPool, confChan, agentID, goroutineVars, postVars>>

ContextDone(s) ==
    /\ pc[s] = "wait" /\ ctxDone[s]
    /\ pc' = [pc EXCEPT ![s] = "delete"]
    /\ UNCHANGED <<tokenChan, connPool, confChan, agentID, goroutineVars, postVars>>

\* Deferred Delete: by key, whichever connection is registered under it.
Delete(s) ==
    /\ pc[s] = "delete"
    /\ connPool' = [connPool EXCEPT ![agentID[s]] = NoConn]
    /\ pc' = [pc EXCEPT ![s] = "release"]
    /\ UNCHANGED <<tokenChan, confChan, agentID, goroutineVars, postVars>>

ReleaseToken(s) ==
    /\ pc[s] = "release"
    /\ tokenChan < PoolLength       \* the send blocks while tokenChan is full
    /\ tokenChan' = tokenChan + 1
    /\ pc' = [pc EXCEPT ![s] = "none"]
    /\ agentID' = [agentID EXCEPT ![s] = NoAgent]
    /\ UNCHANGED <<connPool, confChan, goroutineVars, postVars>>

-----------------------------------------------------------------------------
(* The goroutines of a connection.  Both cancel the context when they end. *)

\* Fault: recvData ends without cancelling the context.
RecvDataNoCancel(s) ==
    /\ recvPc[s] = "recv"
    /\ recvPc' = [recvPc EXCEPT ![s] = "exit"]
    /\ UNCHANGED <<handlerVars, connPool, confChan, ctxDone, sendPc, sending, postVars>>

\* recvData ends: stream.Recv fails, or the loop sees the cancelled context.
RecvData(s) ==
    /\ recvPc[s] = "recv"
    /\ recvPc' = [recvPc EXCEPT ![s] = "exit"]
    /\ ctxDone' = [ctxDone EXCEPT ![s] = TRUE]
    /\ UNCHANGED <<handlerVars, connPool, confChan, sendPc, sending, postVars>>

\* sendData selects the cancelled context.
SendDataDone(s) ==
    /\ sendPc[s] = "select" /\ ctxDone[s]
    /\ sendPc' = [sendPc EXCEPT ![s] = "exit"]
    /\ UNCHANGED <<handlerVars, connPool, confChan, ctxDone, recvPc, sending, postVars>>

\* sendData receives from CommandChan what poster p offers.  The select may
\* choose the command although the context is cancelled too.
SendDataTake(s, p) ==
    /\ sendPc[s] = "select"
    /\ post[p].pc = "offer" /\ post[p].conn = s
    /\ IF post[p].kind = "close"
       THEN /\ sendPc' = [sendPc EXCEPT ![s] = "exit"]
            /\ ctxDone' = [ctxDone EXCEPT ![s] = TRUE]
            /\ post' = [post EXCEPT ![p] = Returned(p, "ok")]
            /\ UNCHANGED sending
       ELSE /\ sendPc' = [sendPc EXCEPT ![s] = "send"]
            /\ sending' = [sending EXCEPT ![s] = p]
            /\ post' = [post EXCEPT ![p].pc = "ready"]
            /\ UNCHANGED ctxDone
    /\ UNCHANGED <<handlerVars, connPool, confChan, recvPc, wire>>

\* Set cmd.Error and close cmd.Ready of the command that sendData holds.
CloseReady(s, err) ==
    post' = [p \in Posters |-> IF p = sending[s]
                               THEN [post[p] EXCEPT !.Error = err, !.Ready = TRUE]
                               ELSE post[p]]

\* stream.Send succeeds: clear Error and close Ready.  gRPC accepts no message
\* on a stream whose handler has returned.
SendDataOk(s) ==
    /\ sendPc[s] = "send" /\ pc[s] # "none"
    /\ sendPc' = [sendPc EXCEPT ![s] = "select"]
    /\ CloseReady(s, FALSE)
    /\ wire' = [p \in Posters |-> wire[p] \/ p = sending[s]]
    /\ sending' = [sending EXCEPT ![s] = Nobody]
    /\ UNCHANGED <<handlerVars, connPool, confChan, ctxDone, recvPc>>

\* Fault: Ready is closed without recording the error.
SendDataErrorLost(s) ==
    /\ sendPc[s] = "send"
    /\ sendPc' = [sendPc EXCEPT ![s] = "exit"]
    /\ ctxDone' = [ctxDone EXCEPT ![s] = TRUE]
    /\ CloseReady(s, FALSE)
    /\ sending' = [sending EXCEPT ![s] = Nobody]
    /\ UNCHANGED <<handlerVars, connPool, confChan, recvPc, wire>>

\* stream.Send fails: record the error, close Ready and end.
SendDataError(s) ==
    /\ sendPc[s] = "send"
    /\ sendPc' = [sendPc EXCEPT ![s] = "exit"]
    /\ ctxDone' = [ctxDone EXCEPT ![s] = TRUE]
    /\ CloseReady(s, TRUE)
    /\ sending' = [sending EXCEPT ![s] = Nobody]
    /\ UNCHANGED <<handlerVars, connPool, confChan, recvPc, wire>>

-----------------------------------------------------------------------------
(* Posting commands.                                                       *)

\* PostCommand or Close, up to GetByID: the connection found, or an error.
GetByID(p, kind, a) ==
    /\ post' = [post EXCEPT ![p] =
                 IF connPool[a] = NoConn
                 THEN [NoPost EXCEPT !.kind = kind, !.result = "not found"]
                 ELSE [NoPost EXCEPT !.kind = kind, !.pc = "offer",
                                     !.conn = connPool[a]]]
    /\ wire' = [wire EXCEPT ![p] = FALSE]

Call(p, kind, a) ==
    /\ post[p].pc = "idle"
    /\ GetByID(p, kind, a)
    /\ UNCHANGED <<handlerVars, goroutineVars, connPool, confChan>>

\* CommSendTimeOut elapses before sendData takes the command.
SendTimeOut(p) ==
    /\ post[p].pc = "offer"
    /\ post' = [post EXCEPT ![p] = Returned(p, "full")]
    /\ UNCHANGED <<handlerVars, goroutineVars, connPool, confChan, wire>>

\* Ready is closed: return cmdToSend.Error.
Result(p) ==
    /\ post[p].pc = "ready" /\ post[p].Ready
    /\ post' = [post EXCEPT ![p] = Returned(p, IF post[p].Error THEN "error" ELSE "ok")]
    /\ UNCHANGED <<handlerVars, goroutineVars, connPool, confChan, wire>>

\* CommResultTimeOut elapses first: the Command is left to sendData alone.
ResultTimeOut(p) ==
    /\ post[p].pc = "ready"
    /\ post' = [post EXCEPT ![p] = Returned(p, "timed out")]
    /\ sending' = [s \in Streams |-> IF sending[s] = p THEN Nobody ELSE sending[s]]
    /\ UNCHANGED <<handlerVars, connPool, confChan, ctxDone, recvPc, sendPc, wire>>

\* The worker takes an AgentID from confChan and asks the manager for its
\* configuration.
CheckConfigTake ==
    /\ post[checkConfig].pc = "idle"
    /\ confChan # <<>>
    /\ post' = [post EXCEPT ![checkConfig] =
                 [NoPost EXCEPT !.pc = "fetch", !.id = Head(confChan)]]
    /\ confChan' = Tail(confChan)
    /\ UNCHANGED <<handlerVars, goroutineVars, connPool, wire>>

\* GetConfigFromRemote fails: the request is dropped.
CheckConfigError ==
    /\ post[checkConfig].pc = "fetch"
    /\ post' = [post EXCEPT ![checkConfig] = NoPost]
    /\ UNCHANGED <<handlerVars, goroutineVars, connPool, confChan, wire>>

CheckConfigPost ==
    /\ post[checkConfig].pc = "fetch"
    /\ GetByID(checkConfig, "command", post[checkConfig].id)
    /\ UNCHANGED <<handlerVars, goroutineVars, connPool, confChan>>

-----------------------------------------------------------------------------
Init ==
    /\ tokenChan = PoolLength
    /\ connPool = [a \in AgentIDs |-> NoConn]
    /\ confChan = <<>>
    /\ pc = [s \in Streams |-> "none"]
    /\ agentID = [s \in Streams |-> NoAgent]
    /\ ctxDone = [s \in Streams |-> FALSE]
    /\ recvPc = [s \in Streams |-> "off"]
    /\ sendPc = [s \in Streams |-> "off"]
    /\ sending = [s \in Streams |-> Nobody]
    /\ post = [p \in Posters |-> NoPost]
    /\ wire = [p \in Posters |-> FALSE]

Handler(s) ==
    \/ RecvFirstError(s)
    \/ \E a \in AgentIDs : RecvFirst(s, a)
    \/ AddGet(s) \/ AddSet(s)
    \/ StartGoroutines(s) \/ PostLatestConfig(s)
    \/ ContextDone(s) \/ Delete(s) \/ ReleaseToken(s)

SendData(s) ==
    \/ SendDataDone(s)
    \/ \E p \in Posters : SendDataTake(s, p)
    \/ SendDataOk(s)
    \/ SendDataError(s)

Poster(p) == SendTimeOut(p) \/ Result(p) \/ ResultTimeOut(p)

Worker == CheckConfigTake \/ CheckConfigError \/ CheckConfigPost

Next ==
    \/ \E s \in Streams : LoadToken(s) \/ Handler(s) \/ RecvData(s) \/ SendData(s)
    \/ \E p \in Callers, kind \in {"command", "close"}, a \in AgentIDs : Call(p, kind, a)
    \/ \E p \in Posters : Poster(p)
    \/ Worker

Spec == Init /\ [][Next]_vars

\* What the Go runtime and gRPC guarantee: a handler goes on once it has its
\* first packet, timeouts fire, the worker runs, and a stream whose handler has
\* returned fails its pending Recv and Send.  A client may stay silent, and
\* stream.Send may block, for ever.
Fairness ==
    /\ \A s \in Streams :
         /\ WF_vars(Handler(s) /\ pc[s] # "recv")
         /\ WF_vars(RecvData(s) /\ pc[s] = "none")
         /\ WF_vars(SendDataDone(s))
         /\ WF_vars(SendDataError(s) /\ pc[s] = "none")
    /\ \A p \in Posters : WF_vars(Poster(p))
    /\ WF_vars(Worker)

FairSpec == Spec /\ Fairness

-----------------------------------------------------------------------------
HandlerStates == {"none", "recv", "get", "set", "start", "config", "wait", "delete", "release"}

PostType ==
    [pc : {"idle", "fetch", "offer", "ready"},
     kind : {"none", "command", "close"},
     id : AgentIDs \cup {NoAgent},
     conn : Streams \cup {NoConn},
     Ready : BOOLEAN, Error : BOOLEAN,
     result : {"none", "not found", "full", "ok", "error", "timed out"}]

\* Every variable stays in its type; tokenChan and confChan within capacity.
TypeOK ==
    /\ tokenChan \in 0..PoolLength
    /\ connPool \in [AgentIDs -> Streams \cup {NoConn}]
    /\ confChan \in Seq(AgentIDs) /\ Len(confChan) <= ChanLen
    /\ pc \in [Streams -> HandlerStates]
    /\ agentID \in [Streams -> AgentIDs \cup {NoAgent}]
    /\ ctxDone \in [Streams -> BOOLEAN]
    /\ recvPc \in [Streams -> {"off", "recv", "exit"}]
    /\ sendPc \in [Streams -> {"off", "select", "send", "exit"}]
    /\ sending \in [Streams -> Posters \cup {Nobody}]
    /\ post \in [Posters -> PostType]
    /\ wire \in [Posters -> BOOLEAN]

\* Streams whose handler is between LoadToken and the end of ReleaseToken.
Holding == {s \in Streams : pc[s] # "none"}

\* Streams registered by Add whose deferred Delete has not run.
Registered == {s \in Streams : pc[s] \in {"start", "config", "wait", "delete"}}

\* Tokens are neither lost nor forged: on every return path of Transfer, the
\* conflict and first-packet errors included, the token taken by LoadToken goes
\* back, so ReleaseToken never blocks and at most PoolLength handlers run.
TokensConserved == tokenChan + Cardinality(Holding) = PoolLength

\* connPool never keeps a dead connection: the connection GetByID returns is
\* registered under that ID by a handler that has not yet run its Delete, even
\* when handlers of the same agent overlap and delete each other's entry.
PooledConnIsLive ==
    \A a \in AgentIDs : connPool[a] # NoConn =>
        connPool[a] \in Registered /\ agentID[connPool[a]] = a

\* What PostCommand returns is what happened: nil means stream.Send took the
\* command, and "agentID not found" or "sendPool is full" that it did not and
\* never will, whenever the connection closes and whichever timeout fires.
ResultIsTruthful ==
    \A p \in Posters : post[p].pc = "idle" /\ post[p].kind = "command" =>
        /\ post[p].result = "ok" => wire[p]
        /\ post[p].result \in {"not found", "full", "error"} => ~wire[p]

\* "the key is agentID ... must be unique" and "return error if AgentID
\* conflict": no two registered handlers serve the same agent.
AgentIDUnique ==
    \A s, t \in Registered : agentID[s] = agentID[t] => s = t

\* When either direction of a connection ends, its handler returns and gives
\* the token back.
HandlerEnds ==
    \A s \in Streams : (recvPc[s] = "exit" \/ sendPc[s] = "exit") ~> pc[s] = "none"
=============================================================================
