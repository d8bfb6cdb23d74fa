--------------------------- MODULE ServersProofs ----------------------------
(***************************************************************************)
(* Proofs about the servers.  GRPCPool, for any number of streams, agents, *)
(* callers and tokens.  Endpoint, for any set of endpoints and servers,    *)
(* any channel capacity and any number of starts and stops: EndpointTypeOK *)
(* and StatusBoundsAge.                                                    *)
(***************************************************************************)
EXTENDS GRPCPool, Endpoint, FiniteSetTheorems, TLAPS

\* Most leaves are first-order steps over named definitions and go to Zenon; one
\* that needs arithmetic, records or sequences asks for SMT.
USE ZenonT(30)

-----------------------------------------------------------------------------
(* GRPCPool.                                                               *)

\* A handler past its first packet knows its AgentID.
AgentKnown ==
    \A s \in Streams : pc[s] \notin {"none", "recv", "release"} => agentID[s] \in AgentIDs

\* So does checkConfig while it asks for the configuration.
FetchKnown ==
    \A p \in Posters : post[p].pc = "fetch" => post[p].id \in AgentIDs

TypeInv == TypeOK /\ AgentKnown /\ FetchKnown

\* Every update that the actions make to a post keeps it a post.
LEMMA PostUpdates ==
  /\ NoPost \in PostType
  /\ \A q \in PostType : [q EXCEPT !.pc = "ready"] \in PostType
  /\ \A q \in PostType, err \in BOOLEAN :
        [q EXCEPT !.Error = err, !.Ready = TRUE] \in PostType
  /\ \A k \in {"none", "command", "close"},
        r \in {"not found", "full", "ok", "error", "timed out"} :
        [NoPost EXCEPT !.kind = k, !.result = r] \in PostType
  /\ \A k \in {"none", "command", "close"}, c \in Streams :
        [NoPost EXCEPT !.kind = k, !.pc = "offer", !.conn = c] \in PostType
  /\ \A a \in AgentIDs : [NoPost EXCEPT !.pc = "fetch", !.id = a] \in PostType
  <1>1. NoPost \in PostType
    BY DEF NoPost, PostType
  <1>2. ASSUME NEW q \in PostType
        PROVE  [q EXCEPT !.pc = "ready"] \in PostType
    BY DEF PostType
  <1>3. ASSUME NEW q \in PostType, NEW err \in BOOLEAN
        PROVE  [q EXCEPT !.Error = err, !.Ready = TRUE] \in PostType
    BY DEF PostType
  <1>4. ASSUME NEW k \in {"none", "command", "close"},
               NEW r \in {"not found", "full", "ok", "error", "timed out"}
        PROVE  [NoPost EXCEPT !.kind = k, !.result = r] \in PostType
    BY DEF NoPost, PostType
  <1>5. ASSUME NEW k \in {"none", "command", "close"}, NEW c \in Streams
        PROVE  [NoPost EXCEPT !.kind = k, !.pc = "offer", !.conn = c] \in PostType
    BY DEF NoPost, PostType
  <1>6. ASSUME NEW a \in AgentIDs
        PROVE  [NoPost EXCEPT !.pc = "fetch", !.id = a] \in PostType
    BY DEF NoPost, PostType
  <1> QED BY <1>1, <1>2, <1>3, <1>4, <1>5, <1>6

LEMMA ReturnedTyped ==
  ASSUME TypeOK, NEW p \in Posters, NEW r \in {"not found", "full", "ok", "error", "timed out"}
  PROVE  Returned(p, r) \in PostType
  <1> post[p].kind \in {"none", "command", "close"}
    BY DEF TypeOK, PostType
  <1> QED BY PostUpdates DEF Returned

\* Replacing one post by a well-typed one.
LEMMA PostStep ==
  ASSUME post \in [Posters -> PostType], FetchKnown, NEW p \in Posters, NEW q \in PostType,
         q.pc = "fetch" => q.id \in AgentIDs,
         post' = [post EXCEPT ![p] = q]
  PROVE  post' \in [Posters -> PostType] /\ FetchKnown'
  BY DEF FetchKnown

\* A poster looks up the connection of an agent.
LEMMA GetByIDStep ==
  ASSUME post \in [Posters -> PostType], connPool \in [AgentIDs -> Streams \cup {NoConn}],
         FetchKnown, NEW p \in Posters, NEW kind \in {"command", "close"},
         NEW a \in AgentIDs, GetByID(p, kind, a)
  PROVE  post' \in [Posters -> PostType] /\ FetchKnown'
  <1> DEFINE c == connPool[a]
             missing == [NoPost EXCEPT !.kind = kind, !.result = "not found"]
             offer == [NoPost EXCEPT !.kind = kind, !.pc = "offer", !.conn = c]
  <1>1. CASE c = NoConn
    <2>1. missing \in PostType /\ missing.pc = "idle"
      BY PostUpdates DEF NoPost
    <2>2. post' = [post EXCEPT ![p] = missing]
      BY <1>1 DEF GetByID
    <2> HIDE DEF missing
    <2> QED BY <2>1, <2>2, PostStep
  <1>2. CASE c # NoConn
    <2>1. offer \in PostType /\ offer.pc = "offer"
      BY <1>2, PostUpdates DEF NoPost
    <2>2. post' = [post EXCEPT ![p] = offer]
      BY <1>2 DEF GetByID
    <2> HIDE DEF offer
    <2> QED BY <2>1, <2>2, PostStep
  <1> QED BY <1>1, <1>2

\* Closing Ready, with or without an error.
LEMMA CloseReadyStep ==
  ASSUME post \in [Posters -> PostType], FetchKnown, NEW s \in Streams, NEW err \in BOOLEAN,
         CloseReady(s, err)
  PROVE  post' \in [Posters -> PostType] /\ FetchKnown'
  <1>1. \A q \in PostType : /\ [q EXCEPT !.Error = err, !.Ready = TRUE].pc = q.pc
                            /\ [q EXCEPT !.Error = err, !.Ready = TRUE].id = q.id
    BY DEF PostType
  <1> QED BY <1>1, PostUpdates DEF CloseReady, FetchKnown

LEMMA TypeInit == Init => TypeInv
  BY SMT, PoolAssumption DEF Init, TypeInv, TypeOK, AgentKnown, FetchKnown, HandlerStates, PostType, NoPost,
     Posters, Nobody

LEMMA TypeNext == TypeInv /\ [Next]_vars => TypeInv'
  <1> SUFFICES ASSUME TypeOK, AgentKnown, FetchKnown, [Next]_vars
               PROVE  TypeInv'
    BY DEF TypeInv
  <1> USE PoolAssumption DEF TypeInv, TypeOK, AgentKnown, FetchKnown, HandlerStates, Posters
  <1>1. ASSUME NEW s \in Streams, LoadToken(s)
        PROVE  TypeInv'
    BY SMT, <1>1 DEF LoadToken, postVars
  <1>2. ASSUME NEW s \in Streams, Handler(s)
        PROVE  TypeInv'
    <2>1. CASE RecvFirstError(s)
      BY <2>1 DEF RecvFirstError, goroutineVars, postVars
    <2>2. CASE \E a \in AgentIDs : RecvFirst(s, a)
      BY SMT, <2>2 DEF RecvFirst, goroutineVars, postVars
    <2>3. CASE AddGet(s)
      BY <2>3 DEF AddGet, goroutineVars, postVars
    <2>4. CASE AddSet(s)
      BY <2>4 DEF AddSet, goroutineVars, postVars
    <2>5. CASE StartGoroutines(s)
      BY <2>5 DEF StartGoroutines, postVars
    <2>6. CASE PostLatestConfig(s)
      BY SMT, <2>6 DEF PostLatestConfig, goroutineVars, postVars
    <2>7. CASE ContextDone(s)
      BY <2>7 DEF ContextDone, goroutineVars, postVars
    <2>8. CASE Delete(s)
      BY <2>8 DEF Delete, goroutineVars, postVars
    <2>9. CASE ReleaseToken(s)
      BY SMT, <2>9 DEF ReleaseToken, goroutineVars, postVars
    <2> QED BY <1>2, <2>1, <2>2, <2>3, <2>4, <2>5, <2>6, <2>7, <2>8, <2>9 DEF Handler
  <1>3. ASSUME NEW s \in Streams, RecvData(s)
        PROVE  TypeInv'
    BY <1>3 DEF RecvData, handlerVars, postVars
  <1>4. ASSUME NEW s \in Streams, SendData(s)
        PROVE  TypeInv'
    <2>1. CASE SendDataDone(s)
      BY <2>1 DEF SendDataDone, handlerVars, postVars
    <2>2. CASE \E p \in Posters : SendDataTake(s, p)
      <3> PICK p \in Posters : SendDataTake(s, p)
        BY <2>2
      <3> Returned(p, "ok") \in PostType /\ [post[p] EXCEPT !.pc = "ready"] \in PostType
        BY PostUpdates, ReturnedTyped
      <3> post' \in [Posters -> PostType] /\ FetchKnown'
        <4>1. CASE post[p].kind = "close"
          <5> Returned(p, "ok").pc = "idle"
            BY DEF Returned, NoPost
          <5> QED BY SMT, <4>1, PostStep DEF SendDataTake
        <4>2. CASE post[p].kind # "close"
          <5> DEFINE q == [post[p] EXCEPT !.pc = "ready"]
          <5>1. q \in PostType
            BY PostUpdates
          <5>3. q.pc = "ready"
            BY DEF PostType
          <5>2. post' = [post EXCEPT ![p] = q]
            BY <4>2 DEF SendDataTake
          <5> QED BY <5>1, <5>2, <5>3, PostStep
        <4> QED BY <4>1, <4>2
      <3>1. sendPc' \in [Streams -> {"off", "select", "send", "exit"}]
            /\ ctxDone' \in [Streams -> BOOLEAN]
            /\ sending' \in [Streams -> Posters \cup {Nobody}]
        <4>1. CASE post[p].kind = "close"
          <5>1. /\ sendPc' = [sendPc EXCEPT ![s] = "exit"]
                /\ ctxDone' = [ctxDone EXCEPT ![s] = TRUE] /\ sending' = sending
            BY <4>1 DEF SendDataTake
          <5> QED BY <5>1
        <4>2. CASE post[p].kind # "close"
          <5>1. /\ sendPc' = [sendPc EXCEPT ![s] = "send"]
                /\ sending' = [sending EXCEPT ![s] = p] /\ ctxDone' = ctxDone
            BY <4>2 DEF SendDataTake
          <5> QED BY <5>1
        <4> QED BY <4>1, <4>2
      <3> QED BY <3>1 DEF SendDataTake, handlerVars
    <2>3. CASE SendDataOk(s)
      <3> post' \in [Posters -> PostType] /\ FetchKnown'
        BY <2>3, CloseReadyStep DEF SendDataOk
      <3> QED BY <2>3 DEF SendDataOk, handlerVars, Nobody
    <2>4. CASE SendDataError(s)
      <3> post' \in [Posters -> PostType] /\ FetchKnown'
        BY <2>4, CloseReadyStep DEF SendDataError
      <3> QED BY <2>4 DEF SendDataError, handlerVars, Nobody
    <2> QED BY <1>4, <2>1, <2>2, <2>3, <2>4 DEF SendData
  <1>5. ASSUME NEW p \in Callers, NEW kind \in {"command", "close"}, NEW a \in AgentIDs,
               Call(p, kind, a)
        PROVE  TypeInv'
    <2>1. p \in Posters /\ GetByID(p, kind, a)
      BY <1>5 DEF Call, Posters
    <2>2. post' \in [Posters -> PostType] /\ FetchKnown'
      BY <2>1, GetByIDStep
    <2>3. wire' \in [Posters -> BOOLEAN]
      BY <2>1 DEF GetByID
    <2> QED BY <1>5, <2>2, <2>3 DEF Call, handlerVars, goroutineVars
  <1>6. ASSUME NEW p \in Posters, Poster(p)
        PROVE  TypeInv'
    <2>1. \A r \in {"full", "ok", "error", "timed out"} :
            Returned(p, r) \in PostType /\ Returned(p, r).pc = "idle"
      BY ReturnedTyped DEF Returned, NoPost
    <2>2. CASE SendTimeOut(p)
      BY <2>1, <2>2 DEF SendTimeOut, handlerVars, goroutineVars
    <2>3. CASE Result(p)
      <3>1. PICK r \in {"error", "ok"} : post' = [post EXCEPT ![p] = Returned(p, r)]
        BY <2>3 DEF Result
      <3>2. post' \in [Posters -> PostType] /\ FetchKnown'
        BY <2>1, <3>1, PostStep
      <3> QED BY <2>3, <3>2 DEF Result, handlerVars, goroutineVars
    <2>4. CASE ResultTimeOut(p)
      BY <2>1, <2>4 DEF ResultTimeOut, handlerVars
    <2> QED BY <1>6, <2>2, <2>3, <2>4 DEF Poster
  <1>7. CASE Worker
    <2>1. CASE CheckConfigTake
      <3>1. Head(confChan) \in AgentIDs /\ Tail(confChan) \in Seq(AgentIDs)
            /\ Len(Tail(confChan)) <= ChanLen
        BY SMT, <2>1 DEF CheckConfigTake
      <3>2. post' \in [Posters -> PostType]
        BY <2>1, <3>1, PostUpdates DEF CheckConfigTake
      <3>3. FetchKnown'
        BY <2>1, <3>1 DEF CheckConfigTake, NoPost, PostType
      <3> QED BY <2>1, <3>1, <3>2, <3>3 DEF CheckConfigTake, handlerVars, goroutineVars
    <2>2. CASE CheckConfigError
      BY <2>2, PostUpdates DEF CheckConfigError, NoPost, handlerVars, goroutineVars
    <2>3. CASE CheckConfigPost
      <3>1. post[checkConfig].id \in AgentIDs
        BY <2>3 DEF CheckConfigPost
      <3>2. post' \in [Posters -> PostType] /\ FetchKnown'
        BY <2>3, <3>1, GetByIDStep DEF CheckConfigPost
      <3> QED BY <2>3, <3>2 DEF CheckConfigPost, GetByID, handlerVars, goroutineVars
    <2> QED BY <1>7, <2>1, <2>2, <2>3 DEF Worker
  <1>8. CASE UNCHANGED vars
    BY <1>8 DEF vars
  <1> QED BY <1>1, <1>2, <1>3, <1>4, <1>5, <1>6, <1>7, <1>8 DEF Next

\* Every state the pool reaches is well typed; in particular the capacities of
\* tokenChan and confChan are respected.
THEOREM TypeCorrect == Spec => []TypeOK
  <1>1. TypeInv => TypeOK
    BY DEF TypeInv
  <1> QED BY TypeInit, TypeNext, <1>1, PTL DEF Spec

-----------------------------------------------------------------------------
(* Tokens.                                                                 *)

\* A step in which no handler starts or ends leaves Holding alone.
LEMMA HoldingSame ==
  ASSUME TypeInv, [Next]_vars,
         \A s \in Streams : ~LoadToken(s) /\ ~ReleaseToken(s)
  PROVE  tokenChan' = tokenChan /\ Holding' = Holding
  <1> USE DEF TypeInv, TypeOK, HandlerStates
  <1>1. ASSUME NEW s \in Streams, Handler(s)
        PROVE  tokenChan' = tokenChan /\ Holding' = Holding
    BY <1>1 DEF Handler, RecvFirstError, RecvFirst, AddGet, AddSet, StartGoroutines,
                PostLatestConfig, ContextDone, Delete, Holding
  <1>2. ASSUME UNCHANGED <<tokenChan, pc>>
        PROVE  tokenChan' = tokenChan /\ Holding' = Holding
    BY <1>2 DEF Holding
  <1> QED BY <1>1, <1>2 DEF Next, vars, handlerVars, RecvData, SendData, SendDataDone,
             SendDataTake, SendDataOk, SendDataError, Call, Poster, SendTimeOut, Result,
             ResultTimeOut, Worker, CheckConfigTake, CheckConfigError, CheckConfigPost

\* No token is lost or forged, for any number of streams and tokens: each
\* return path of Transfer puts back the token its LoadToken took.
THEOREM TokensAreConserved == Spec => []TokensConserved
  <1>1. Init => TokensConserved
    <2> SUFFICES ASSUME Init PROVE TokensConserved
      OBVIOUS
    <2>1. Holding = {}
      BY DEF Init, Holding
    <2> QED BY SMT, <2>1, FS_EmptySet, PoolAssumption DEF Init, TokensConserved
  <1>2. TypeInv /\ TokensConserved /\ [Next]_vars => TokensConserved'
    <2> SUFFICES ASSUME TypeInv, TokensConserved, [Next]_vars
                 PROVE  TokensConserved'
      OBVIOUS
    <2> USE PoolAssumption
    <2>0. IsFiniteSet(Holding) /\ Cardinality(Holding) \in Nat /\ tokenChan \in Nat
      BY SMT, FS_Subset, FS_CardinalityType DEF Holding, TypeInv, TypeOK
    <2>1. ASSUME NEW s \in Streams, LoadToken(s)
          PROVE  TokensConserved'
      <3>1. s \notin Holding /\ Holding' = Holding \cup {s}
        BY <2>1 DEF LoadToken, Holding, TypeInv, TypeOK
      <3>2. Cardinality(Holding') = Cardinality(Holding) + 1
        BY <2>0, <3>1, FS_AddElement
      <3> QED BY SMT, <2>0, <2>1, <3>2 DEF LoadToken, TokensConserved
    <2>2. ASSUME NEW s \in Streams, ReleaseToken(s)
          PROVE  TokensConserved'
      <3>1. s \in Holding /\ Holding' = Holding \ {s}
        BY <2>2 DEF ReleaseToken, Holding, TypeInv, TypeOK
      <3>2. Cardinality(Holding') = Cardinality(Holding) - 1
        BY <2>0, <3>1, FS_RemoveElement
      <3> QED BY SMT, <2>0, <2>2, <3>2 DEF ReleaseToken, TokensConserved
    <2>3. CASE \A s \in Streams : ~LoadToken(s) /\ ~ReleaseToken(s)
      BY <2>3, HoldingSame DEF TokensConserved
    <2> QED BY <2>1, <2>2, <2>3
  <1> QED BY <1>1, <1>2, TypeInit, TypeNext, PTL DEF Spec

-----------------------------------------------------------------------------
(* The pool.                                                               *)

\* GetByID never returns the connection of a handler that has returned, for
\* any number of overlapping handlers of the same agent.
THEOREM PooledIsLive == Spec => []PooledConnIsLive
  <1>1. Init => PooledConnIsLive
    BY SMT DEF Init, PooledConnIsLive
  <1>2. TypeInv /\ PooledConnIsLive /\ [Next]_vars => PooledConnIsLive'
    <2> SUFFICES ASSUME TypeInv, PooledConnIsLive, [Next]_vars
                 PROVE  PooledConnIsLive'
      OBVIOUS
    <2> USE PoolAssumption DEF PooledConnIsLive, Registered, TypeInv, TypeOK, AgentKnown,
                HandlerStates
    <2>1. ASSUME NEW s \in Streams, LoadToken(s)
          PROVE  PooledConnIsLive'
      BY <2>1 DEF LoadToken
    <2>2. ASSUME NEW s \in Streams, Handler(s)
          PROVE  PooledConnIsLive'
      <3>1. CASE RecvFirstError(s) \/ AddGet(s)
        BY SMT, <3>1 DEF RecvFirstError, AddGet
      <3>2. CASE \E a \in AgentIDs : RecvFirst(s, a)
        BY SMT, <3>2 DEF RecvFirst
      <3>3. CASE AddSet(s)
        BY SMT, <3>3 DEF AddSet
      <3>4. CASE StartGoroutines(s) \/ PostLatestConfig(s) \/ ContextDone(s)
        <4>1. pc[s] \in {"start", "config", "wait"} /\ connPool' = connPool /\ agentID' = agentID
          BY <3>4 DEF StartGoroutines, PostLatestConfig, ContextDone
        <4>2. \E l \in {"config", "wait", "delete"} : pc' = [pc EXCEPT ![s] = l]
          BY <3>4 DEF StartGoroutines, PostLatestConfig, ContextDone
        <4> QED BY SMT, <4>1, <4>2
      <3>5. CASE Delete(s)
        <4>1. /\ connPool' = [connPool EXCEPT ![agentID[s]] = NoConn]
              /\ agentID' = agentID /\ agentID[s] \in AgentIDs
              /\ pc' = [pc EXCEPT ![s] = "release"]
          BY <3>5 DEF Delete
        <4>2. ASSUME NEW a \in AgentIDs, connPool'[a] # NoConn
              PROVE  connPool[a] = connPool'[a] /\ connPool[a] # s
          BY <4>1, <4>2
        <4> QED BY SMT, <4>1, <4>2
      <3>6. CASE ReleaseToken(s)
        BY <3>6 DEF ReleaseToken
      <3> QED BY <2>2, <3>1, <3>2, <3>3, <3>4, <3>5, <3>6 DEF Handler
    <2>3. CASE UNCHANGED <<connPool, pc, agentID>>
      BY <2>3
    <2> QED BY <2>1, <2>2, <2>3 DEF Next, vars, handlerVars, RecvData, SendData, SendDataDone,
             SendDataTake, SendDataOk, SendDataError, Call, Poster, SendTimeOut, Result,
             ResultTimeOut, Worker, CheckConfigTake, CheckConfigError, CheckConfigPost
  <1> QED BY <1>1, <1>2, TypeInit, TypeNext, PTL DEF Spec

-----------------------------------------------------------------------------
(* Results.                                                                *)

\* What a post q whose command is on the wire, or is not, may say: while its
\* poster waits the command is offered, held and not yet sent, or sent with
\* Error saying how that ended; once it has returned, its result is the truth.
Truthful(q, w) ==
    /\ q.pc = "offer" => ~w /\ ~q.Ready
    /\ q.pc = "ready" /\ ~q.Ready => ~w
    /\ q.pc = "ready" /\ q.Ready /\ q.Error => ~w
    /\ q.pc = "ready" /\ q.Ready /\ ~q.Error => w
    /\ q.pc = "idle" /\ q.kind = "command" /\ q.result = "ok" => w
    /\ q.pc = "idle" /\ q.kind = "command"
         /\ q.result \in {"not found", "full", "error"} => ~w

\* A command that sendData holds is awaited, unanswered, and held only once.
HeldOnce ==
    /\ \A s \in Streams : sending[s] \in Posters =>
         post[sending[s]].pc = "ready" /\ ~post[sending[s]].Ready
    /\ \A s, t \in Streams : sending[s] \in Posters /\ sending[s] = sending[t] => s = t

CommandInv == (\A p \in Posters : Truthful(post[p], wire[p])) /\ HeldOnce

LEMMA CommandInvImplies == CommandInv => ResultIsTruthful
  BY DEF CommandInv, Truthful, ResultIsTruthful

\* Only poster p is touched, and no sendData holds its command.
LEMMA OnePostChanges ==
  ASSUME TypeOK, CommandInv, NEW p \in Posters, NEW q, NEW w \in BOOLEAN,
         post' = [post EXCEPT ![p] = q], wire' = [wire EXCEPT ![p] = w],
         Truthful(q, w),
         UNCHANGED sending, \A s \in Streams : sending[s] # p
  PROVE  CommandInv'
  <1>1. \A r \in Posters : Truthful(post'[r], wire'[r])
    <2> TAKE r \in Posters
    <2>1. CASE r = p
      BY <2>1 DEF TypeOK
    <2>2. CASE r # p
      BY <2>2 DEF TypeOK, CommandInv
    <2> QED BY <2>1, <2>2
  <1>2. HeldOnce'
    BY DEF TypeOK, CommandInv, HeldOnce
  <1> QED BY <1>1, <1>2 DEF CommandInv

\* sendData answers the command it holds.
LEMMA CloseReadyChanges ==
  ASSUME TypeOK, CommandInv, NEW s \in Streams, NEW err \in BOOLEAN,
         CloseReady(s, err), wire' = [p \in Posters |-> wire[p] \/ (p = sending[s] /\ ~err)],
         sending' = [sending EXCEPT ![s] = Nobody]
  PROVE  CommandInv'
  <1> USE PoolAssumption DEF TypeOK
  <1>1. \A r \in Posters : Truthful(post'[r], wire'[r])
    <2> TAKE r \in Posters
    <2>1. CASE r = sending[s]
      <3>1. post'[r] = [post[r] EXCEPT !.Error = err, !.Ready = TRUE]
        BY <2>1 DEF CloseReady
      <3>2. post'[r].pc = "ready" /\ post'[r].Ready = TRUE /\ post'[r].Error = err
        <4>1. post[r].pc = "ready"
          BY <2>1 DEF CommandInv, HeldOnce
        <4>2. post[r] \in PostType
          OBVIOUS
        <4> QED BY <3>1, <4>1, <4>2 DEF PostType
      <3>3. ~wire[r]
        BY <2>1 DEF CommandInv, HeldOnce, Truthful
      <3>4. wire'[r] = ~err
        BY <2>1, <3>3
      <3> QED BY <3>2, <3>4 DEF Truthful
    <2>2. CASE r # sending[s]
      <3>1. post'[r] = post[r] /\ wire'[r] = wire[r]
        BY <2>2 DEF CloseReady
      <3> QED BY <3>1 DEF CommandInv
    <2> QED BY <2>1, <2>2
  <1>2. ASSUME NEW t \in Streams, sending'[t] \in Posters
        PROVE  t # s /\ sending'[t] = sending[t] /\ post'[sending[t]] = post[sending[t]]
    <2>1. t # s /\ sending'[t] = sending[t]
      BY <1>2 DEF Nobody, Posters
    <2>2. sending[t] # sending[s]
      BY <1>2, <2>1 DEF CommandInv, HeldOnce
    <2> QED BY <1>2, <2>1, <2>2 DEF CloseReady
  <1>3. HeldOnce'
    BY <1>2 DEF CommandInv, HeldOnce
  <1> QED BY <1>1, <1>3 DEF CommandInv

\* A call that returns keeps its kind.
LEMMA ReturnedFields ==
  ASSUME NEW p \in Posters, NEW r
  PROVE  /\ Returned(p, r).pc = "idle"
         /\ Returned(p, r).kind = post[p].kind
         /\ Returned(p, r).result = r
  BY DEF Returned, NoPost

\* A caller whose CommResultTimeOut has elapsed claims nothing.
LEMMA TimedOutTruthful ==
  ASSUME NEW p \in Posters, NEW w \in BOOLEAN
  PROVE  Truthful(Returned(p, "timed out"), w)
  <1> DEFINE q == Returned(p, "timed out")
  <1>1. q.pc = "idle" /\ q.result = "timed out"
    BY ReturnedFields
  <1> HIDE DEF q
  <1>2. Truthful(q, w)
    BY <1>1 DEF Truthful
  <1> QED BY <1>2 DEF q

\* Commands stay truthful in every step.
LEMMA CommandNext == TypeInv /\ CommandInv /\ [Next]_vars => CommandInv'
  <1> SUFFICES ASSUME TypeInv, CommandInv, [Next]_vars
               PROVE  CommandInv'
    OBVIOUS
  <1> TypeOK
    BY DEF TypeInv
  <1>0. /\ post \in [Posters -> PostType]
        /\ wire \in [Posters -> BOOLEAN]
        /\ sending \in [Streams -> Posters \cup {Nobody}]
        /\ Nobody \notin Posters
    BY PoolAssumption DEF TypeOK, Nobody, Posters
  <1>1. CASE UNCHANGED <<post, wire, sending>>
    BY <1>1 DEF CommandInv, HeldOnce
  <1>2. ASSUME NEW p \in Posters, post[p].pc # "ready"
        PROVE  \A s \in Streams : sending[s] # p
    BY <1>2 DEF CommandInv, HeldOnce
  <1>3. ASSUME NEW s \in Streams, NEW p \in Posters, SendDataTake(s, p)
        PROVE  CommandInv'
    <2>1. post[p].pc = "offer" /\ ~wire[p] /\ wire' = [wire EXCEPT ![p] = FALSE]
      <3>1. post[p].pc = "offer" /\ wire' = wire
        BY <1>3 DEF SendDataTake
      <3>2. ~wire[p]
        BY <3>1 DEF CommandInv, Truthful
      <3>3. wire = [wire EXCEPT ![p] = FALSE]
        BY <1>0, <3>2
      <3> QED BY <3>1, <3>2, <3>3
    <2>2. CASE post[p].kind = "close"
      <3>1. Truthful(Returned(p, "ok"), FALSE)
        BY <2>2, ReturnedFields DEF Truthful
      <3>2. post' = [post EXCEPT ![p] = Returned(p, "ok")] /\ UNCHANGED sending
        BY <1>3, <2>2 DEF SendDataTake
      <3> QED BY <1>2, <2>1, <3>1, <3>2, OnePostChanges
    <2>3. CASE post[p].kind # "close"
      <3> DEFINE q == [post[p] EXCEPT !.pc = "ready"]
      <3>1. post' = [post EXCEPT ![p] = q] /\ sending' = [sending EXCEPT ![s] = p]
        BY <1>3, <2>3 DEF SendDataTake
      <3>2. q.pc = "ready" /\ ~q.Ready
        BY <1>0, <2>1 DEF PostType, CommandInv, Truthful
      <3>3. \A r \in Posters : Truthful(post'[r], wire'[r])
        <4> TAKE r \in Posters
        <4>1. CASE r = p
          <5> post'[r] = q /\ wire'[r] = FALSE
            BY <1>0, <2>1, <3>1, <4>1
          <5> QED BY <3>2 DEF Truthful
        <4>2. CASE r # p
          <5> post'[r] = post[r] /\ wire'[r] = wire[r]
            BY <1>0, <2>1, <3>1, <4>2
          <5> QED BY DEF CommandInv
        <4> QED BY <4>1, <4>2
      <3>4. HeldOnce'
        <4>1. \A t \in Streams : sending[t] # p
          BY <1>2, <2>1
        <4>2. ASSUME NEW t \in Streams, sending'[t] \in Posters
              PROVE  post'[sending'[t]].pc = "ready" /\ ~post'[sending'[t]].Ready
          <5>1. CASE t = s
            BY <1>0, <3>1, <3>2, <5>1
          <5>2. CASE t # s
            <6> sending'[t] = sending[t] /\ post'[sending[t]] = post[sending[t]]
              BY <1>0, <3>1, <4>1, <4>2, <5>2
            <6> QED BY <4>2 DEF CommandInv, HeldOnce
          <5> QED BY <5>1, <5>2
        <4>3. \A t, u \in Streams : sending'[t] \in Posters /\ sending'[t] = sending'[u] => t = u
          BY <1>0, <3>1, <4>1 DEF CommandInv, HeldOnce
        <4> QED BY <4>2, <4>3 DEF HeldOnce
      <3> QED BY <3>3, <3>4 DEF CommandInv
    <2> QED BY <2>2, <2>3
  <1>4. ASSUME NEW s \in Streams, SendDataOk(s)
        PROVE  CommandInv'
    BY <1>4, CloseReadyChanges DEF SendDataOk
  <1>5. ASSUME NEW s \in Streams, SendDataError(s)
        PROVE  CommandInv'
    <2>1. wire' = [p \in Posters |-> wire[p] \/ (p = sending[s] /\ ~TRUE)]
      BY <1>0, <1>5 DEF SendDataError
    <2> QED BY <1>5, <2>1, CloseReadyChanges DEF SendDataError
  <1>6. ASSUME NEW p \in Posters, NEW kind, NEW a,
               GetByID(p, kind, a), post[p].pc # "ready", UNCHANGED sending
        PROVE  CommandInv'
    <2>1. PICK q : post' = [post EXCEPT ![p] = q] /\ Truthful(q, FALSE)
      <3>1. /\ Truthful([NoPost EXCEPT !.kind = kind, !.result = "not found"], FALSE)
            /\ Truthful([NoPost EXCEPT !.kind = kind, !.pc = "offer", !.conn = connPool[a]], FALSE)
        BY DEF NoPost, Truthful
      <3> QED BY <1>6, <3>1 DEF GetByID
    <2> QED BY <1>2, <1>6, <2>1, OnePostChanges DEF GetByID
  <1>7. ASSUME NEW p \in Posters, SendTimeOut(p)
        PROVE  CommandInv'
    <2>1. post[p].pc = "offer" /\ ~wire[p] /\ wire' = [wire EXCEPT ![p] = FALSE]
      BY <1>0, <1>7 DEF SendTimeOut, CommandInv, Truthful
    <2>2. Truthful(Returned(p, "full"), FALSE)
      BY ReturnedFields DEF Truthful
    <2> QED BY <1>2, <1>7, <2>1, <2>2, OnePostChanges DEF SendTimeOut, goroutineVars
  <1>8. ASSUME NEW p \in Posters, Result(p)
        PROVE  CommandInv'
    <2>1. post[p].pc = "ready" /\ post[p].Ready /\ wire' = [wire EXCEPT ![p] = wire[p]]
      BY <1>0, <1>8 DEF Result
    <2>2. \A s \in Streams : sending[s] # p
      BY <2>1 DEF CommandInv, HeldOnce
    <2>3. Truthful(Returned(p, IF post[p].Error THEN "error" ELSE "ok"), wire[p])
      <3>1. CASE post[p].Error
        BY <2>1, <3>1, ReturnedFields DEF CommandInv, Truthful
      <3>2. CASE ~post[p].Error
        BY <2>1, <3>2, ReturnedFields DEF CommandInv, Truthful
      <3> QED BY <3>1, <3>2
    <2>4. wire[p] \in BOOLEAN
      BY <1>0
    <2> QED BY <1>8, <2>1, <2>2, <2>3, <2>4, OnePostChanges DEF Result, goroutineVars
  <1>9. ASSUME NEW p \in Posters, ResultTimeOut(p)
        PROVE  CommandInv'
    <2>1. \A r \in Posters : Truthful(post'[r], wire'[r])
      <3> TAKE r \in Posters
      <3>1. CASE r = p
        <4> post'[r] = Returned(p, "timed out") /\ wire'[r] = wire[r]
          BY <1>0, <1>9, <3>1 DEF ResultTimeOut
        <4> Truthful(Returned(p, "timed out"), wire[r])
          BY <1>0, TimedOutTruthful
        <4> QED OBVIOUS
      <3>2. CASE r # p
        <4> post'[r] = post[r] /\ wire'[r] = wire[r]
          BY <1>0, <1>9, <3>2 DEF ResultTimeOut
        <4> QED BY DEF CommandInv
      <3> QED BY <3>1, <3>2
    <2>2. ASSUME NEW t \in Streams, sending'[t] \in Posters
          PROVE  sending'[t] = sending[t] /\ post'[sending[t]] = post[sending[t]]
      BY <1>0, <1>9, <2>2 DEF ResultTimeOut
    <2>3. HeldOnce'
      BY <2>2 DEF CommandInv, HeldOnce
    <2> QED BY <2>1, <2>3 DEF CommandInv
  <1>10. ASSUME CheckConfigTake \/ CheckConfigError
         PROVE  CommandInv'
    <2>1. checkConfig \in Posters /\ post[checkConfig].pc # "ready" /\ UNCHANGED sending
      BY <1>10 DEF CheckConfigTake, CheckConfigError, Posters, goroutineVars
    <2>2. wire' = [wire EXCEPT ![checkConfig] = wire[checkConfig]]
      BY <1>0, <1>10 DEF CheckConfigTake, CheckConfigError
    <2>3. wire[checkConfig] \in BOOLEAN
      BY <1>0, <2>1
    <2>4. PICK q : post' = [post EXCEPT ![checkConfig] = q] /\ Truthful(q, wire[checkConfig])
      <3>1. /\ Truthful(NoPost, wire[checkConfig])
            /\ Truthful([NoPost EXCEPT !.pc = "fetch", !.id = Head(confChan)],
                        wire[checkConfig])
        BY DEF NoPost, Truthful
      <3> QED BY <1>10, <3>1 DEF CheckConfigTake, CheckConfigError
    <2>5. \A s \in Streams : sending[s] # checkConfig
      BY <1>2, <2>1
    <2> QED BY <2>1, <2>2, <2>3, <2>4, <2>5, OnePostChanges
  <1>11. ASSUME NEW s \in Streams,
                LoadToken(s) \/ Handler(s) \/ RecvData(s) \/ SendDataDone(s)
         PROVE  UNCHANGED <<post, wire, sending>>
    BY <1>11 DEF LoadToken, Handler, RecvFirstError, RecvFirst, AddGet, AddSet,
                 StartGoroutines, PostLatestConfig, ContextDone, Delete, ReleaseToken,
                 RecvData, SendDataDone, postVars, goroutineVars
  <1>12. ASSUME NEW p \in Callers, NEW kind, NEW a, Call(p, kind, a)
         PROVE  CommandInv'
    BY <1>6, <1>12 DEF Call, goroutineVars, Posters
  <1>13. ASSUME CheckConfigPost
         PROVE  CommandInv'
    BY <1>6, <1>13 DEF CheckConfigPost, goroutineVars, Posters
  <1>14. CASE UNCHANGED vars
    BY <1>1, <1>14 DEF vars
  <1> QED BY <1>1, <1>3, <1>4, <1>5, <1>7, <1>8, <1>9, <1>10, <1>11, <1>12, <1>13, <1>14
          DEF Next, SendData, Poster, Worker

\* Whatever connection closes and whichever timeout fires, PostCommand returns
\* nil only for a command stream.Send took, and "not found", "full" or the
\* send error only for one it did not take.
THEOREM ResultsAreTruthful == Spec => []ResultIsTruthful
  <1>1. Init => CommandInv
    <2> SUFFICES ASSUME Init PROVE CommandInv
      OBVIOUS
    <2>1. Truthful(NoPost, FALSE)
      BY DEF Truthful, NoPost
    <2>2. HeldOnce
      BY PoolAssumption DEF Init, HeldOnce, Nobody, Posters
    <2> QED BY <2>1, <2>2 DEF Init, CommandInv
  <1> QED BY <1>1, CommandInvImplies, CommandNext, TypeInit, TypeNext, PTL DEF Spec

-----------------------------------------------------------------------------
(* Endpoint.                                                               *)

\* What endpoints tell each other: a registration carries the time it was
\* made, and it is applied within the same interval.
NewInfos == {i \in Infos : i.registry = None \/ i.registry.age = 0}
Batches == Seq(NewInfos) \ {<<>>}

Listing == Registry \cup {None}

\* A registry that has been refreshed is at most 60 seconds old when green.
Within(r, limit) == r = None \/ r.age <= limit + r.status

\* The inductive invariant. Between the ticker and the refresh of a registry
\* its age is one interval ahead of its status; all messages are new.
IInv ==
    /\ EndpointTypeOK
    /\ sendChan \in [Endpoints -> Seq(NewInfos)]
    /\ trans \in [Endpoints -> Seq(Batches)]
    /\ recvChan \in [Endpoints -> Seq(Batches)]
    /\ \A e \in Endpoints, s \in Servers :
         /\ Within(reg[e][s], 5)
         /\ ~due[e] /\ snap[e][s] = None => Within(reg[e][s], 4)

-----------------------------------------------------------------------------
\* The status that registryRefresh gives to a registry of some age.
LEMMA StatusType ==
    ASSUME NEW age \in 0..Oldest, StatusOf(age) <= StatusRed
    PROVE  /\ StatusOf(age) \in StatusGreen..StatusRed
           /\ age <= 4 + StatusOf(age)
BY SMT DEF StatusOf, StatusGreen, StatusRed, Oldest

\* One interval later.
LEMMA OlderType ==
    ASSUME NEW r \in Listing, Within(r, 4)
    PROVE  Older(r) \in Listing /\ Within(Older(r), 5)
<1>1. CASE r = None \/ r.age = Oldest
  BY SMT, <1>1, NoneAssumption DEF Older, Listing, Registry, Within, Oldest, StatusGreen, StatusRed
<1>2. CASE r # None /\ r.age # Oldest
  BY SMT, <1>2, NoneAssumption DEF Older, Listing, Registry, Within, Oldest, StatusGreen, StatusRed
<1> QED BY <1>1, <1>2

\* A push keeps the channel typed and within its capacity.
LEMMA PushType ==
    ASSUME IInv, NEW e \in Endpoints, NEW info \in NewInfos, Push(e, info)
    PROVE  /\ sendChan' \in [Endpoints -> Seq(NewInfos)]
           /\ sendChan' \in [Endpoints -> Seq(Infos)]
           /\ \A d \in Endpoints : Len(sendChan'[d]) <= SyncLen
<1>1. info \in Infos
  BY DEF NewInfos
<1>2. CASE Len(sendChan[e]) < SyncLen
  <2>1. sendChan' = [sendChan EXCEPT ![e] = Append(sendChan[e], info)]
    BY <1>2 DEF Push
  <2>2. /\ Append(sendChan[e], info) \in Seq(NewInfos)
        /\ Append(sendChan[e], info) \in Seq(Infos)
        /\ Len(Append(sendChan[e], info)) <= SyncLen
    BY SMT, <1>1, <1>2, EndpointAssumption DEF IInv, EndpointTypeOK
  <2> HIDE DEF Push
  <2> QED BY <2>1, <2>2 DEF IInv, EndpointTypeOK
<1>3. CASE ~(Len(sendChan[e]) < SyncLen)
  BY <1>3 DEF Push, IInv, EndpointTypeOK
<1> QED BY <1>2, <1>3

\* Removing an element of a sequence.
LEMMA RemoveType ==
    ASSUME NEW S, NEW q \in Seq(S), NEW i \in DOMAIN q
    PROVE  RemoveAt(q, i) \in Seq(S)
BY SMT DEF RemoveAt
\* The registry part of the invariant, and the part about the channels.
RegInv ==
    /\ reg \in [Endpoints -> [Servers -> Listing]]
    /\ due \in [Endpoints -> BOOLEAN]
    /\ snap \in [Endpoints -> [Servers -> Listing]]
    /\ got \in [Endpoints -> [Servers -> Listing]]
    /\ \A e \in Endpoints, s \in Servers :
         /\ Within(reg[e][s], 5)
         /\ ~due[e] /\ snap[e][s] = None => Within(reg[e][s], 4)

SendInv ==
    /\ sendChan \in [Endpoints -> Seq(NewInfos)]
    /\ sendChan \in [Endpoints -> Seq(Infos)]
    /\ \A e \in Endpoints : Len(sendChan[e]) <= SyncLen

ChanInv ==
    /\ trans \in [Endpoints -> Seq(Batches)]
    /\ trans \in [Endpoints -> Seq(Seq(Infos))]
    /\ recvChan \in [Endpoints -> Seq(Batches)]
    /\ recvChan \in [Endpoints -> Seq(Seq(Infos))]
    /\ \A e \in Endpoints : Len(recvChan[e]) <= SyncLen

ServerInv ==
    /\ server \in [Servers -> {"up", "silent", "down"}]
    /\ timer \in [Servers -> 0..2]
    /\ changes \in 0..MaxChanges

\* The parts make up the invariant.
LEMMA IInvParts == IInv <=> RegInv /\ SendInv /\ ChanInv /\ ServerInv
BY DEF IInv, EndpointTypeOK, RegInv, SendInv, ChanInv, ServerInv, Listing

\* The same after a step.
LEMMA IInvPartsNext == RegInv' /\ SendInv' /\ ChanInv' /\ ServerInv' => IInv'
BY DEF IInv, EndpointTypeOK, RegInv, SendInv, ChanInv, ServerInv, Listing

\* Whatever an endpoint writes into its registryMap between two ticks is
\* Within 4.
LEMMA WriteReg ==
    ASSUME RegInv, NEW e \in Endpoints, NEW s \in Servers, NEW r \in Listing, Within(r, 4),
           reg' = [reg EXCEPT ![e][s] = r],
           due' = due,
           \A d \in Endpoints, q \in Servers :
              snap'[d][q] = snap[d][q] \/ (d = e /\ q = s),
           snap' \in [Endpoints -> [Servers -> Listing]],
           got' \in [Endpoints -> [Servers -> Listing]]
    PROVE  RegInv'
<1>1. Within(r, 5)
  BY SMT, NoneAssumption DEF Within, Listing, Registry, StatusGreen, StatusRed
<1>2. reg' \in [Endpoints -> [Servers -> Listing]]
  BY DEF RegInv
<1>3. ASSUME NEW d \in Endpoints, NEW q \in Servers
      PROVE  /\ Within(reg'[d][q], 5)
             /\ ~due'[d] /\ snap'[d][q] = None => Within(reg'[d][q], 4)
  <2>1. CASE d = e /\ q = s
    <3>1. reg'[d][q] = r BY <2>1 DEF RegInv
    <3> QED BY <3>1, <1>1
  <2>2. CASE ~(d = e /\ q = s)
    <3>1. reg'[d][q] = reg[d][q] BY <2>2 DEF RegInv
    <3> QED BY <3>1, <2>2 DEF RegInv
  <2> QED BY <2>1, <2>2
<1>4. RegInv' <=> /\ reg' \in [Endpoints -> [Servers -> Listing]]
                  /\ due' \in [Endpoints -> BOOLEAN]
                  /\ snap' \in [Endpoints -> [Servers -> Listing]]
                  /\ got' \in [Endpoints -> [Servers -> Listing]]
                  /\ \A d \in Endpoints, q \in Servers :
                       /\ Within(reg'[d][q], 5)
                       /\ ~due'[d] /\ snap'[d][q] = None => Within(reg'[d][q], 4)
  BY DEF RegInv, Within
<1>5. due' \in [Endpoints -> BOOLEAN]
  BY DEF RegInv
<1> QED BY <1>2, <1>3, <1>4, <1>5

\* The initial state: nothing is listed or under way.
LEMMA InitIInv == EndpointInit => IInv
<1> SUFFICES ASSUME EndpointInit PROVE RegInv /\ SendInv /\ ChanInv /\ ServerInv
  BY IInvParts
<1>1. RegInv
  BY DEF EndpointInit, RegInv, Empty, Listing, Within
<1>2. SendInv /\ ChanInv
  BY SMT, EndpointAssumption DEF EndpointInit, SendInv, ChanInv
<1>3. ServerInv
  BY SMT, EndpointAssumption DEF EndpointInit, ServerInv
<1> QED BY <1>1, <1>2, <1>3
-----------------------------------------------------------------------------
\* registryRefresh copies the registryMap.
LEMMA RefreshReadInv ==
    ASSUME RegInv, NEW e \in Endpoints, RefreshRead(e)
    PROVE  RegInv'
<1>1. /\ due' = [due EXCEPT ![e] = FALSE] /\ snap' = [snap EXCEPT ![e] = reg[e]]
      /\ reg' = reg /\ got' = got
  BY DEF RefreshRead
<1>2. /\ due' \in [Endpoints -> BOOLEAN]
      /\ snap' \in [Endpoints -> [Servers -> Listing]]
  BY <1>1 DEF RegInv
<1>3. ASSUME NEW d \in Endpoints, NEW s \in Servers, ~due'[d], snap'[d][s] = None
      PROVE  Within(reg[d][s], 4)
  <2>1. CASE d = e
    BY <1>1, <1>3, <2>1 DEF RegInv, Within
  <2>2. CASE d # e
    BY <1>1, <1>3, <2>2 DEF RegInv
  <2> QED BY <2>1, <2>2
<1> QED BY <1>1, <1>2, <1>3 DEF RegInv, Within

\* registryRefresh writes a registry back with its new status, or evicts it.
LEMMA RefreshOneInv ==
    ASSUME IInv, NEW e \in Endpoints, NEW s \in Servers, RefreshOne(e, s)
    PROVE  RegInv' /\ SendInv'
<1> DEFINE r == snap[e][s]
           st == StatusOf(r.age)
<1>0. RegInv /\ SendInv
  BY IInvParts
<1>1. r \in Registry /\ r.age \in 0..Oldest
  BY SMT, <1>0 DEF RefreshOne, RegInv, Listing, Registry
<1>2. /\ snap' \in [Endpoints -> [Servers -> Listing]]
      /\ \A d \in Endpoints, q \in Servers : snap'[d][q] = snap[d][q] \/ (d = e /\ q = s)
      /\ got' \in [Endpoints -> [Servers -> Listing]]
      /\ due' = due
  BY <1>0 DEF RefreshOne, RegInv, Listing
<1>3. CASE st <= StatusRed
  <2> DEFINE w == [r EXCEPT !.status = st]
  <2>1. reg' = [reg EXCEPT ![e][s] = w] /\ sendChan' = sendChan
    BY <1>3 DEF RefreshOne
  <2>2. st \in StatusGreen..StatusRed /\ r.age <= 4 + st
    BY <1>1, <1>3, StatusType
  <2> HIDE DEF st
  <2>3. w \in Listing /\ Within(w, 4)
    BY <1>1, <2>2 DEF Registry, Listing, Within
  <2> HIDE DEF w
  <2> QED BY <1>0, <1>2, <2>1, <2>3, WriteReg DEF SendInv
<1>4. CASE ~(st <= StatusRed)
  <2>1. reg' = [reg EXCEPT ![e][s] = None] /\ Push(e, EvictInfo(s))
    BY <1>4 DEF RefreshOne
  <2>2. EvictInfo(s) \in NewInfos
    BY DEF EvictInfo, NewInfos, Infos
  <2>3. None \in Listing /\ Within(None, 4)
    BY DEF Listing, Within
  <2>4. RegInv'
    BY <1>0, <1>2, <2>1, <2>3, WriteReg
  <2>5. SendInv'
    BY <2>1, <2>2, PushType DEF SendInv
  <2> QED BY <2>4, <2>5
<1> QED BY <1>3, <1>4

\* Register reads the registry of the server.
LEMMA RegisterGetInv ==
    ASSUME RegInv, NEW e \in Endpoints, NEW s \in Servers, RegisterGet(e, s)
    PROVE  got' \in [Endpoints -> [Servers -> Listing]]
<1> DEFINE r == IF reg[e][s] = None THEN NewRegistry ELSE reg[e][s]
<1>1. r \in Listing
  BY SMT DEF RegInv, NewRegistry, Listing, Registry, Oldest, StatusGreen, StatusRed
<1>2. got' = [got EXCEPT ![e][s] = r]
  BY DEF RegisterGet
<1> HIDE DEF r
<1> QED BY <1>1, <1>2 DEF RegInv

\* Register writes the time of the request and the status it has read.
LEMMA RegisterSetInv ==
    ASSUME IInv, NEW e \in Endpoints, NEW s \in Servers, RegisterSet(e, s)
    PROVE  RegInv' /\ SendInv'
<1> DEFINE r == [got[e][s] EXCEPT !.age = 0]
<1>0. RegInv
  BY IInvParts
<1>1. reg' = [reg EXCEPT ![e][s] = r] /\ Push(e, Register(s, r))
  BY DEF RegisterSet
<1>2. r \in Registry /\ r.age = 0 /\ r.status \in Nat
  <2>1. got[e][s] \in Registry
    BY <1>0 DEF RegisterSet, RegInv, Listing
  <2> QED BY SMT, <2>1 DEF Registry, Oldest, StatusGreen, StatusRed
<1>3. /\ snap' = snap /\ due' = due
      /\ got' \in [Endpoints -> [Servers -> Listing]]
  BY <1>0 DEF RegisterSet, RegInv, Listing
<1> HIDE DEF r
<1>4. Register(s, r) \in NewInfos
  BY <1>2 DEF Register, NewInfos, Infos
<1>5. r \in Listing /\ Within(r, 4)
  BY SMT, <1>2 DEF Listing, Within
<1>6. RegInv'
  <2>1. snap' \in [Endpoints -> [Servers -> Listing]]
    BY <1>0, <1>3 DEF RegInv
  <2> QED BY <1>0, <1>1, <1>3, <1>5, <2>1, WriteReg
<1>7. SendInv'
  BY <1>1, <1>4, PushType DEF SendInv
<1> QED BY <1>6, <1>7

\* Evict, for a server that stops.
LEMMA EvictInv ==
    ASSUME IInv, NEW e \in Endpoints, NEW s \in Servers, Evict(e, s), UNCHANGED <<due, snap, got>>
    PROVE  RegInv' /\ SendInv'
<1>1. RegInv
  BY IInvParts
<1>2. EvictInfo(s) \in NewInfos
  BY DEF EvictInfo, NewInfos, Infos
<1>3. None \in Listing /\ Within(None, 4)
  BY DEF Listing, Within
<1>4. reg' = [reg EXCEPT ![e][s] = None] /\ Push(e, EvictInfo(s))
  BY DEF Evict
<1>5. RegInv'
  <2>1. /\ snap' \in [Endpoints -> [Servers -> Listing]]
        /\ got' \in [Endpoints -> [Servers -> Listing]]
    BY <1>1 DEF RegInv
  <2> QED BY <1>1, <1>3, <1>4, <2>1, WriteReg
<1>6. SendInv'
  BY <1>2, <1>4, PushType DEF SendInv
<1> QED BY <1>5, <1>6

\* syncSend, Recv and syncRecv.
LEMMA SyncInv ==
    ASSUME IInv, NEW e \in Endpoints, syncSend(e) \/ Recv(e) \/ syncRecv(e)
    PROVE  RegInv' /\ SendInv' /\ ChanInv'
<1>0. RegInv /\ SendInv /\ ChanInv
  BY IInvParts
<1>1. CASE syncSend(e)
  <2>1. sendChan[e] \in Batches /\ sendChan[e] \in Seq(Infos)
    BY <1>0, <1>1 DEF syncSend, SendInv, Batches
  <2>2. PICK to \in SUBSET (Endpoints \ {e}) :
           trans' = [d \in Endpoints |->
                      IF d \in to THEN Append(trans[d], sendChan[e]) ELSE trans[d]]
    BY <1>1 DEF syncSend
  <2>3. ASSUME NEW d \in Endpoints
        PROVE  /\ Append(trans[d], sendChan[e]) \in Seq(Batches)
               /\ Append(trans[d], sendChan[e]) \in Seq(Seq(Infos))
    BY SMT, <1>0, <2>1 DEF ChanInv
  <2>4. ChanInv'
    BY <1>0, <1>1, <2>2, <2>3 DEF ChanInv, syncSend
  <2>5. SendInv'
    <3>1. sendChan' = [sendChan EXCEPT ![e] = <<>>]
      BY <1>1 DEF syncSend
    <3> QED BY SMT, <1>0, <3>1, EndpointAssumption DEF SendInv
  <2>6. RegInv'
    BY <1>0, <1>1 DEF RegInv, syncSend, Within
  <2> QED BY <2>4, <2>5, <2>6
<1>2. CASE Recv(e)
  <2>1. PICK i \in DOMAIN trans[e] :
           /\ trans' = [trans EXCEPT ![e] = RemoveAt(trans[e], i)]
           /\ recvChan' = IF Len(recvChan[e]) < SyncLen
                          THEN [recvChan EXCEPT ![e] = Append(recvChan[e], trans[e][i])] ELSE recvChan
    BY <1>2 DEF Recv
  <2>2. /\ trans[e] \in Seq(Batches) /\ trans[e] \in Seq(Seq(Infos))
        /\ recvChan[e] \in Seq(Batches) /\ recvChan[e] \in Seq(Seq(Infos))
    BY <1>0 DEF ChanInv
  <2>3. RemoveAt(trans[e], i) \in Seq(Batches) /\ RemoveAt(trans[e], i) \in Seq(Seq(Infos))
    BY <2>2, RemoveType
  <2>4. trans[e][i] \in Batches /\ trans[e][i] \in Seq(Infos)
    BY SMT, <2>2
  <2>5. CASE Len(recvChan[e]) < SyncLen
    <3>1. /\ Append(recvChan[e], trans[e][i]) \in Seq(Batches)
          /\ Append(recvChan[e], trans[e][i]) \in Seq(Seq(Infos))
          /\ Len(Append(recvChan[e], trans[e][i])) <= SyncLen
      BY SMT, <2>2, <2>4, <2>5, EndpointAssumption
    <3>2. recvChan' = [recvChan EXCEPT ![e] = Append(recvChan[e], trans[e][i])]
      BY <2>1, <2>5
    <3>3. trans' = [trans EXCEPT ![e] = RemoveAt(trans[e], i)]
      BY <2>1
    <3> QED BY <1>0, <1>2, <2>3, <3>1, <3>2, <3>3 DEF ChanInv, SendInv, RegInv, Recv, Within
  <2>6. CASE ~(Len(recvChan[e]) < SyncLen)
    <3>1. trans' = [trans EXCEPT ![e] = RemoveAt(trans[e], i)] /\ recvChan' = recvChan
      BY <2>1, <2>6
    <3> QED BY <1>0, <1>2, <2>3, <3>1 DEF ChanInv, SendInv, RegInv, Recv, Within
  <2> QED BY <2>5, <2>6
<1>3. CASE syncRecv(e)
  <2> DEFINE batch == Head(recvChan[e])
             info == Head(batch)
             rest == Tail(batch)
             left == IF rest = <<>> THEN Tail(recvChan[e]) ELSE <<rest>> \o Tail(recvChan[e])
  <2>1. /\ recvChan[e] \in Seq(Batches) /\ recvChan[e] \in Seq(Seq(Infos))
        /\ recvChan[e] # <<>>
    BY <1>0, <1>3 DEF ChanInv, syncRecv
  <2>2. batch \in Batches /\ batch \in Seq(Infos)
    BY SMT, <2>1
  <2>3. info \in NewInfos /\ rest \in Seq(NewInfos) /\ rest \in Seq(Infos)
    BY SMT, <2>2 DEF Batches
  <2>4. rest # <<>> => rest \in Batches
    BY <2>3 DEF Batches
  <2>5. /\ reg' = [reg EXCEPT ![e][info.server] = info.registry]
        /\ recvChan' = [recvChan EXCEPT ![e] = left]
    BY <1>3 DEF syncRecv
  <2> HIDE DEF info, rest, batch
  <2>6. /\ left \in Seq(Batches) /\ left \in Seq(Seq(Infos))
        /\ Len(left) <= Len(recvChan[e])
    BY SMT, <2>1, <2>3, <2>4
  <2> HIDE DEF left
  <2>7. ChanInv'
    <3>1. Len(left) <= SyncLen
      BY SMT, <1>0, <2>1, <2>6, EndpointAssumption DEF ChanInv
    <3>2. trans' = trans
      BY <1>3 DEF syncRecv
    <3>3. /\ recvChan' \in [Endpoints -> Seq(Batches)]
          /\ recvChan' \in [Endpoints -> Seq(Seq(Infos))]
      BY <1>0, <2>5, <2>6 DEF ChanInv
    <3>4. ASSUME NEW d \in Endpoints PROVE Len(recvChan'[d]) <= SyncLen
      BY <1>0, <2>5, <3>1 DEF ChanInv
    <3> QED BY <1>0, <3>2, <3>3, <3>4 DEF ChanInv
  <2>8. info.server \in Servers /\ info.registry \in Listing /\ Within(info.registry, 4)
    BY SMT, <2>3, NoneAssumption DEF NewInfos, Infos, Listing, Within, Registry, StatusGreen, StatusRed
  <2>9. RegInv'
    <3>1. /\ snap' = snap /\ due' = due
          /\ snap' \in [Endpoints -> [Servers -> Listing]]
          /\ got' \in [Endpoints -> [Servers -> Listing]]
      BY <1>0, <1>3 DEF RegInv, syncRecv
    <3> QED BY <1>0, <2>5, <2>8, <3>1, WriteReg
  <2>10. SendInv'
    BY <1>0, <1>3 DEF SendInv, syncRecv
  <2> QED BY <2>7, <2>9, <2>10
<1> QED BY <1>1, <1>2, <1>3

\* 15 seconds pass: only when every registry has been refreshed.
LEMMA TickInv ==
    ASSUME RegInv, Tick
    PROVE  RegInv'
<1>1. ASSUME NEW e \in Endpoints, NEW s \in Servers
      PROVE  Older(reg[e][s]) \in Listing /\ Within(Older(reg[e][s]), 5)
  <2>1. ~due[e] /\ snap[e][s] = None
    BY DEF Tick, Quiet, Empty
  <2>2. reg[e][s] \in Listing /\ Within(reg[e][s], 4)
    BY <2>1 DEF RegInv
  <2> QED BY <2>2, OlderType
<1>2. /\ reg' = [e \in Endpoints |-> [s \in Servers |-> Older(reg[e][s])]]
      /\ due' = [e \in Endpoints |-> TRUE]
      /\ snap' = snap /\ got' = got
  BY DEF Tick
<1> QED BY <1>1, <1>2 DEF RegInv, Within

\* An endpoint restarts.
LEMMA RestartInv ==
    ASSUME IInv, NEW e \in Endpoints, Restart(e)
    PROVE  IInv'
<1>0. RegInv /\ SendInv /\ ChanInv /\ ServerInv
  BY IInvParts
<1>1. RegInv'
  <2>1. Empty \in [Servers -> Listing] /\ \A s \in Servers : Empty[s] = None
    BY DEF Empty, Listing
  <2>2. /\ reg' = [reg EXCEPT ![e] = Empty]
        /\ due' = [due EXCEPT ![e] = FALSE]
        /\ snap' = [snap EXCEPT ![e] = Empty]
        /\ got' = [got EXCEPT ![e] = Empty]
    BY DEF Restart
  <2>3. /\ reg' \in [Endpoints -> [Servers -> Listing]]
        /\ due' \in [Endpoints -> BOOLEAN]
        /\ snap' \in [Endpoints -> [Servers -> Listing]]
        /\ got' \in [Endpoints -> [Servers -> Listing]]
    BY <1>0, <2>1, <2>2 DEF RegInv
  <2>4. ASSUME NEW d \in Endpoints, NEW s \in Servers
        PROVE  /\ Within(reg'[d][s], 5)
               /\ ~due'[d] /\ snap'[d][s] = None => Within(reg'[d][s], 4)
    <3>1. CASE d = e
      BY <1>0, <2>1, <2>2, <3>1 DEF RegInv, Within
    <3>2. CASE d # e
      BY <1>0, <2>2, <3>2 DEF RegInv
    <3> QED BY <3>1, <3>2
  <2> QED BY <2>3, <2>4 DEF RegInv, Within
<1>2. SendInv' /\ ChanInv'
  <2>1. sendChan' = [sendChan EXCEPT ![e] = <<>>] /\ recvChan' = [recvChan EXCEPT ![e] = <<>>]
        /\ trans' = trans
    BY DEF Restart
  <2> QED BY SMT, <1>0, <2>1, EndpointAssumption DEF SendInv, ChanInv
<1>3. ServerInv'
  BY SMT, <1>0, EndpointAssumption DEF Restart, Change, ServerInv
<1> QED BY <1>1, <1>2, <1>3, IInvPartsNext

-----------------------------------------------------------------------------
\* Every step keeps the invariant.
LEMMA NextIInv == IInv /\ [EndpointNext]_endpointVars => IInv'
<1> SUFFICES ASSUME IInv, [EndpointNext]_endpointVars PROVE IInv'
  OBVIOUS
<1>0. RegInv /\ SendInv /\ ChanInv /\ ServerInv
  BY IInvParts
<1>1. CASE UNCHANGED endpointVars
  <2>1. RegInv' /\ SendInv' /\ ChanInv' /\ ServerInv'
    BY <1>0, <1>1 DEF endpointVars, RegInv, Within, SendInv, ChanInv, ServerInv
  <2> QED BY <2>1, IInvPartsNext
<1>2. ASSUME NEW e \in Endpoints, EndpointSteps(e) PROVE IInv'
  <2>1. ServerInv'
    BY <1>0, <1>2 DEF ServerInv, EndpointSteps, RefreshRead, syncSend, Recv, syncRecv,
                      RefreshOne, RegisterSet
  <2>2. CASE RefreshRead(e)
    <3>1. RegInv'
      BY <1>0, <2>2, RefreshReadInv
    <3>2. SendInv' /\ ChanInv'
      BY <1>0, <2>2 DEF RefreshRead, SendInv, ChanInv
    <3> QED BY <2>1, <3>1, <3>2, IInvPartsNext
  <2>3. CASE syncSend(e) \/ Recv(e) \/ syncRecv(e)
    BY <2>1, <2>3, SyncInv, IInvPartsNext
  <2>4. ASSUME NEW s \in Servers, RefreshOne(e, s) \/ RegisterSet(e, s) PROVE IInv'
    <3>1. RegInv' /\ SendInv'
      BY <2>4, RefreshOneInv, RegisterSetInv
    <3>2. ChanInv'
      BY <1>0, <2>4 DEF RefreshOne, RegisterSet, ChanInv
    <3> QED BY <2>1, <3>1, <3>2, IInvPartsNext
  <2> QED BY <1>2, <2>2, <2>3, <2>4 DEF EndpointSteps
<1>3. ASSUME NEW e \in Endpoints, Restart(e) PROVE IInv'
  BY <1>3, RestartInv
<1>4. ASSUME NEW s \in Servers, Start(s) \/ renewRegistry(s) PROVE IInv'
  <2>1. reg' = reg /\ due' = due /\ snap' = snap
    BY <1>4 DEF Start, renewRegistry
  <2>2. (\E e \in Endpoints : RegisterGet(e, s)) \/ got' = got
    BY <1>4 DEF Start, renewRegistry
  <2>3. got' \in [Endpoints -> [Servers -> Listing]]
    <3>1. CASE got' = got
      BY <1>0, <3>1 DEF RegInv
    <3> QED BY <1>0, <2>2, <3>1, RegisterGetInv
  <2>4. RegInv'
    BY <1>0, <2>1, <2>3 DEF RegInv, Within
  <2>5. SendInv' /\ ChanInv'
    BY <1>0, <1>4 DEF Start, renewRegistry, SendInv, ChanInv
  <2>6. ServerInv'
    BY SMT, <1>0, <1>4, EndpointAssumption DEF Start, renewRegistry, Change, ServerInv
  <2> QED BY <2>4, <2>5, <2>6, IInvPartsNext
<1>5. ASSUME NEW s \in Servers, Stop(s) PROVE IInv'
  <2>1. UNCHANGED <<due, snap, got>>
    BY <1>5 DEF Stop
  <2>2. (\E e \in Endpoints : Evict(e, s)) \/ (reg' = reg /\ sendChan' = sendChan)
    BY <1>5 DEF Stop
  <2>3. RegInv' /\ SendInv'
    <3>1. CASE reg' = reg /\ sendChan' = sendChan
      BY <1>0, <2>1, <3>1 DEF RegInv, Within, SendInv
    <3>2. CASE \E e \in Endpoints : Evict(e, s)
      BY <2>1, <3>2, EvictInv
    <3> QED BY <2>2, <3>1, <3>2
  <2>4. ChanInv'
    BY <1>0, <1>5 DEF Stop, ChanInv
  <2>5. ServerInv'
    BY SMT, <1>0, <1>5, EndpointAssumption DEF Stop, Change, ServerInv
  <2> QED BY <2>3, <2>4, <2>5, IInvPartsNext
<1>6. CASE Tick
  <2>1. RegInv'
    BY <1>0, <1>6, TickInv
  <2>2. SendInv' /\ ChanInv'
    BY <1>0, <1>6 DEF Tick, SendInv, ChanInv
  <2>3. ServerInv'
    BY SMT, <1>0, <1>6, EndpointAssumption DEF Tick, Quiet, ServerInv
  <2> QED BY <2>1, <2>2, <2>3, IInvPartsNext
<1> QED BY <1>1, <1>2, <1>3, <1>4, <1>5, <1>6 DEF EndpointNext

-----------------------------------------------------------------------------
\* Every variable stays in its type and the channels within their capacity.
THEOREM EndpointTypeCorrect == EndpointSpec => []EndpointTypeOK
<1>1. IInv => EndpointTypeOK BY DEF IInv
<1> QED BY <1>1, InitIInv, NextIInv, PTL DEF EndpointSpec

\* The status that an endpoint lists with a registry bounds the time since the
\* last heartbeat: whatever endpoints lose, reorder or overwrite, nothing is
\* listed for more than 135 seconds after its last heartbeat.
THEOREM AgeIsBounded == EndpointSpec => []StatusBoundsAge
<1>1. IInv => StatusBoundsAge BY DEF IInv, Within, StatusBoundsAge
<1> QED BY <1>1, InitIInv, NextIInv, PTL DEF EndpointSpec
=============================================================================
