--------------------------- MODULE AgentTransfer ---------------------------
(***************************************************************************)
(* The agent's transport: startTransfer keeps one Transfer stream to a     *)
(* server alive with its two handlers, startFileExt uploads files over the *)
(* same cached connection, both through GetConnection, and main ends the   *)
(* process when all of it has returned (agent/transport, agent/main.go).   *)
(*                                                                         *)
(* Records, tasks of plugins and configurations are in AgentBuffer and     *)
(* AgentPlugin; here they are steps that change nothing.  A ClientConn     *)
(* that nobody refers to is forgotten, so its name may be used again.      *)
(***************************************************************************)
EXTENDS Integers, FiniteSets

CONSTANTS
    Conns,       \* names for *grpc.ClientConn objects
    Nil,         \* the nil *grpc.ClientConn
    Streams,     \* names for Transfer streams
    Regions,     \* region names a task may carry
    Default,     \* the region of the build
    SdHosts,     \* regions in serviceDiscoveryHost
    PrivateHosts,\* regions in privateHost
    PublicHosts, \* regions in publicHost
    MaxUses,     \* uses of one connection, 5 in the code
    MaxRetries   \* retries of startTransfer, 5 in the code

ASSUME TransferAssumption ==
    /\ Nil \notin Conns
    /\ Default \in Regions
    /\ Default \in SdHosts \cup PrivateHosts \cup PublicHosts
    /\ SdHosts \cup PrivateHosts \cup PublicHosts \subseteq Regions
    /\ {MaxUses, MaxRetries} \subseteq Nat

VARIABLES
    conn,     \* connection.conn
    cstate,   \* GetState: "usable" (Ready, Idle), "broken" (Connecting,
              \* TransientFailure) or "shutdown"
    uses,     \* connection.retries
    region,   \* connection.Region
    pc,       \* the two callers of GetConnection: "transfer" and "fileExt"
    c,        \* their local connection
    reg,      \* their local region
    retries,  \* startTransfer's retries
    stream,   \* the stream startTransfer waits for
    send,     \* stream -> its handleSend
    recv,     \* stream -> its handleReceive
    subDone,  \* stream -> its subCtx is cancelled
    subCtx,   \* Startup's subCtx is cancelled
    ctx,      \* agent.Context is cancelled
    main      \* transport.Startup and then main: "run", "returned", "exited"

connVars == <<conn, cstate, uses>>
handlers == <<send, recv, subDone>>
vars == <<conn, cstate, uses, region, pc, c, reg, retries, stream,
          send, recv, subDone, subCtx, ctx, main>>

Callers == {"transfer", "fileExt"}
Done == ctx \/ subCtx

Start ==
    /\ conn = Nil
    /\ cstate = [x \in Conns |-> "shutdown"]
    /\ uses = 0
    /\ region = Default
    /\ pc = [p \in Callers |-> IF p = "transfer" THEN "get" ELSE "select"]
    /\ c = [p \in Callers |-> Nil]
    /\ reg = [p \in Callers |-> Default]
    /\ retries = 0
    /\ stream \in Streams
    /\ send = [s \in Streams |-> "end"]
    /\ recv = [s \in Streams |-> "end"]
    /\ subDone = [s \in Streams |-> TRUE]
    /\ subCtx = FALSE /\ ctx = FALSE
Init == Start /\ main = "run"

-----------------------------------------------------------------------------
(* GetConnection, called by p.                                             *)

Goto(p, l) == pc' = [pc EXCEPT ![p] = l]

\* conn.Load(), and Region.Load() when there is no connection yet.
LoadConn(p) ==
    /\ pc[p] = "get"
    /\ c' = [c EXCEPT ![p] = conn]
    /\ Goto(p, IF conn = Nil THEN "region" ELSE "state")
    /\ UNCHANGED <<connVars, region, reg, retries, stream, handlers, subCtx, ctx, main>>

\* The switch on c.GetState().
GetState(p) ==
    /\ pc[p] = "state"
    /\ IF cstate[c[p]] = "usable"
       THEN Goto(p, "count") /\ UNCHANGED cstate
       ELSE Goto(p, "region") /\ cstate' = [cstate EXCEPT ![c[p]] = "shutdown"]
    /\ UNCHANGED <<conn, uses, region, c, reg, retries, stream, handlers, subCtx, ctx, main>>

\* A usable connection is handed out MaxUses times, then closed.
CountUse(p) ==
    /\ pc[p] = "count"
    /\ uses' = uses + 1
    /\ IF uses' > MaxUses
       THEN Goto(p, "region") /\ cstate' = [cstate EXCEPT ![c[p]] = "shutdown"]
       ELSE Goto(p, "got") /\ UNCHANGED cstate
    /\ UNCHANGED <<conn, region, c, reg, retries, stream, handlers, subCtx, ctx, main>>

LoadRegion(p) ==
    /\ pc[p] = "region"
    /\ reg' = [reg EXCEPT ![p] = region]
    /\ c' = [c EXCEPT ![p] = Nil]
    /\ Goto(p, "sd")
    /\ UNCHANGED <<connVars, region, retries, stream, handlers, subCtx, ctx, main>>

\* DialContext succeeds with a connection nobody refers to.
Dialed(p, hosts, x) ==
    /\ reg[p] \in hosts
    /\ x \in Conns \ ({conn} \cup {c[q] : q \in Callers})
    /\ cstate' = [cstate EXCEPT ![x] = "usable"]
    /\ c' = [c EXCEPT ![p] = x]
    /\ Goto(p, "store")
    /\ UNCHANGED <<conn, uses, region, reg, retries, stream, handlers, subCtx, ctx, main>>

\* http.Get of the service discovery, which has no time limit.
Resolve(p) ==
    /\ pc[p] = "sd" /\ reg[p] \in SdHosts
    /\ \E l \in {"sd dial", "private"} : Goto(p, l)
    /\ UNCHANGED <<connVars, region, c, reg, retries, stream, handlers, subCtx, ctx, main>>

NoSdHost(p) ==
    /\ pc[p] = "sd" /\ reg[p] \notin SdHosts
    /\ Goto(p, "private")
    /\ UNCHANGED <<connVars, region, c, reg, retries, stream, handlers, subCtx, ctx, main>>

DialSd(p) == pc[p] = "sd dial" /\ \E x \in Conns : Dialed(p, SdHosts, x)
DialPrivate(p) == pc[p] = "private" /\ \E x \in Conns : Dialed(p, PrivateHosts, x)
DialPublic(p) == pc[p] = "public" /\ \E x \in Conns : Dialed(p, PublicHosts, x)

\* The addresses of one kind are exhausted, or there is none.
NotDialed(p) ==
    /\ \/ pc[p] = "sd dial" /\ Goto(p, "private")
       \/ pc[p] = "private" /\ Goto(p, "public")
       \/ pc[p] = "public" /\ Goto(p, "nil")
    /\ UNCHANGED <<connVars, region, c, reg, retries, stream, handlers, subCtx, ctx, main>>

StoreConn(p) ==
    /\ pc[p] = "store"
    /\ conn' = c[p]
    /\ Goto(p, "reset")
    /\ UNCHANGED <<cstate, uses, region, c, reg, retries, stream, handlers, subCtx, ctx, main>>

\* NetMode.Store and atomic.StoreInt32(&retries, 0).
ResetUses(p) ==
    /\ pc[p] = "reset"
    /\ uses' = 0
    /\ Goto(p, "got")
    /\ UNCHANGED <<conn, cstate, region, c, reg, retries, stream, handlers, subCtx, ctx, main>>

\* return nil, err: err is set by the last failure, and is nil when the region
\* has no host at all.
ReturnNil(p) ==
    /\ pc[p] = "nil"
    /\ Goto(p, IF reg[p] \in SdHosts \cup PrivateHosts \cup PublicHosts
               THEN "error" ELSE "got")
    /\ UNCHANGED <<connVars, region, c, reg, retries, stream, handlers, subCtx, ctx, main>>

-----------------------------------------------------------------------------
(* startTransfer.                                                          *)

\* GetConnection failed: give up when the retries are exhausted.
TransferError ==
    /\ pc["transfer"] = "error"
    /\ Goto("transfer", IF retries > MaxRetries THEN "end" ELSE "wait")
    /\ UNCHANGED <<connVars, region, c, reg, retries, stream, handlers, subCtx, ctx, main>>

\* Five seconds between two attempts to get a connection.
WaitRetry ==
    /\ pc["transfer"] = "wait" /\ ~Done
    /\ retries' = retries + 1
    /\ Goto("transfer", "get")
    /\ UNCHANGED <<connVars, region, c, reg, stream, handlers, subCtx, ctx, main>>

\* Transfer(subCtx) succeeds; the two handlers start.
OpenTransfer(s) ==
    /\ pc["transfer"] = "got" /\ recv[s] = "end" /\ send[s] = "end"
    /\ retries' = 0
    /\ Goto("transfer", "run")
    /\ stream' = s
    /\ send' = [send EXCEPT ![s] = "run"]
    /\ recv' = [recv EXCEPT ![s] = "recv"]
    /\ subDone' = [subDone EXCEPT ![s] = FALSE]
    /\ UNCHANGED <<connVars, region, c, reg, subCtx, ctx, main>>

OpenError ==
    /\ pc["transfer"] = "got"
    /\ retries' = 0
    /\ Goto("transfer", "sleep")
    /\ UNCHANGED <<connVars, region, c, reg, stream, handlers, subCtx, ctx, main>>

\* Fault: no subWg.Wait().
HandlersEndedEarly ==
    /\ pc["transfer"] = "run"
    /\ subDone' = [subDone EXCEPT ![stream] = TRUE]
    /\ Goto("transfer", "sleep")
    /\ UNCHANGED <<connVars, region, c, reg, retries, stream, send, recv, subCtx, ctx, main>>

\* subWg.Wait() returns; cancel().
HandlersEnded ==
    /\ pc["transfer"] = "run"
    /\ send[stream] = "end" /\ recv[stream] \in {"returned", "end"}
    /\ subDone' = [subDone EXCEPT ![stream] = TRUE]
    /\ Goto("transfer", "sleep")
    /\ UNCHANGED <<connVars, region, c, reg, retries, stream, send, recv, subCtx, ctx, main>>

\* Five seconds before the next stream.
Sleep ==
    /\ pc["transfer"] = "sleep" /\ ~Done
    /\ Goto("transfer", "get")
    /\ UNCHANGED <<connVars, region, c, reg, retries, stream, handlers, subCtx, ctx, main>>

\* ctx.Done() in either of the two waits.
TransferDone ==
    /\ pc["transfer"] \in {"wait", "sleep"} /\ Done
    /\ Goto("transfer", "end")
    /\ UNCHANGED <<connVars, region, c, reg, retries, stream, handlers, subCtx, ctx, main>>

\* cancel() of transport.Startup, once startTransfer has returned.
CancelTransport ==
    /\ pc["transfer"] = "end" /\ ~subCtx
    /\ subCtx' = TRUE
    /\ UNCHANGED <<connVars, region, pc, c, reg, retries, stream, handlers, ctx, main>>

\* handleSend sees its context cancelled.
SendDone(s) ==
    /\ send[s] = "run" /\ (Done \/ subDone[s])
    /\ send' = [send EXCEPT ![s] = "end"]
    /\ UNCHANGED <<connVars, region, pc, c, reg, retries, stream, recv, subDone, subCtx, ctx, main>>

-----------------------------------------------------------------------------
(* handleReceive.                                                          *)

Receives(s, l) == recv[s] = "recv" /\ recv' = [recv EXCEPT ![s] = l]

\* The stream fails: its context is cancelled, its connection is closed or
\* broken, or the server ends it.
RecvError(s) ==
    /\ Receives(s, "returned")
    /\ UNCHANGED <<connVars, region, pc, c, reg, retries, stream, send, subDone, subCtx, ctx, main>>

\* Task 1050: handed to startFileExt if it waits for one.
RecvUpload(s) ==
    /\ Receives(s, "recv") /\ pc["fileExt"] = "select" /\ ~Done
    /\ Goto("fileExt", "open")
    /\ UNCHANGED <<connVars, region, c, reg, retries, stream, send, subDone, subCtx, ctx, main>>

\* Fault: the region is stored without LookupRegion.
RecvRegionUnchecked(s, r) ==
    /\ Receives(s, "recv")
    /\ region' = r
    /\ UNCHANGED <<connVars, pc, c, reg, retries, stream, send, subDone, subCtx, ctx, main>>

\* Task 1051 with a region some host serves.
RecvRegion(s, r) ==
    /\ Receives(s, "recv")
    /\ r \in SdHosts \cup PrivateHosts \cup PublicHosts
    /\ region' = r
    /\ UNCHANGED <<connVars, pc, c, reg, retries, stream, send, subDone, subCtx, ctx, main>>

\* Task 1060: agent.Cancel().
RecvShutdown(s) ==
    /\ Receives(s, "returned")
    /\ ctx' = TRUE
    /\ UNCHANGED <<connVars, region, pc, c, reg, retries, stream, send, subDone, subCtx, main>>

\* A configuration with another version of the agent.
RecvUpdate(s) ==
    /\ Receives(s, "update")
    /\ UNCHANGED <<connVars, region, pc, c, reg, retries, stream, send, subDone, subCtx, ctx, main>>

\* agent.Update returns; the process ends when it succeeded.
Updated(s) ==
    /\ recv[s] = "update"
    /\ \/ recv' = [recv EXCEPT ![s] = "returned"] /\ ctx' = TRUE
       \/ recv' = [recv EXCEPT ![s] = "recv"] /\ UNCHANGED ctx
    /\ UNCHANGED <<connVars, region, pc, c, reg, retries, stream, send, subDone, subCtx, main>>

\* Fault: no cancel().
CancelStreamLost(s) ==
    /\ recv[s] = "returned"
    /\ recv' = [recv EXCEPT ![s] = "end"]
    /\ UNCHANGED <<connVars, region, pc, c, reg, retries, stream, send, subDone, subCtx, ctx, main>>

\* cancel() after handleReceive has returned.
CancelStream(s) ==
    /\ recv[s] = "returned"
    /\ subDone' = [subDone EXCEPT ![s] = TRUE]
    /\ recv' = [recv EXCEPT ![s] = "end"]
    /\ UNCHANGED <<connVars, region, pc, c, reg, retries, stream, send, subCtx, ctx, main>>

-----------------------------------------------------------------------------
(* startFileExt and handleUpload.                                          *)

OpenFile ==
    /\ pc["fileExt"] = "open"
    /\ \E l \in {"get", "select"} : Goto("fileExt", l)
    /\ UNCHANGED <<connVars, region, c, reg, retries, stream, handlers, subCtx, ctx, main>>

\* The upload ends: no connection, an error, the last block or ctx.Done().
UploadEnds ==
    /\ pc["fileExt"] \in {"error", "got"}
    /\ c' = [c EXCEPT !["fileExt"] = Nil]
    /\ Goto("fileExt", "select")
    /\ UNCHANGED <<connVars, region, reg, retries, stream, handlers, subCtx, ctx, main>>

\* Fault: startFileExt does not watch its context.
FileExtStays ==
    /\ FALSE
    /\ UNCHANGED vars

FileExtDone ==
    /\ pc["fileExt"] = "select" /\ Done
    /\ Goto("fileExt", "end")
    /\ UNCHANGED <<connVars, region, c, reg, retries, stream, handlers, subCtx, ctx, main>>

-----------------------------------------------------------------------------
(* The network, the signal and the end of the process.                     *)

\* The connectivity of an open connection in use changes.
Network(x, st) ==
    /\ x \in {conn} \cup {c[p] : p \in Callers}
    /\ x # Nil /\ cstate[x] # "shutdown" /\ cstate[x] # st
    /\ cstate' = [cstate EXCEPT ![x] = st]
    /\ UNCHANGED <<conn, uses, region, pc, c, reg, retries, stream, handlers, subCtx, ctx, main>>

\* SIGTERM.
Signal ==
    /\ ~ctx /\ main # "exited"
    /\ ctx' = TRUE
    /\ UNCHANGED <<connVars, region, pc, c, reg, retries, stream, handlers, subCtx, main>>

\* transport.Startup returns when both goroutines have; agent.Cancel().
StartupReturns ==
    /\ main = "run" /\ pc["transfer"] = "end" /\ pc["fileExt"] = "end"
    /\ main' = "returned"
    /\ ctx' = TRUE
    /\ UNCHANGED <<connVars, region, pc, c, reg, retries, stream, handlers, subCtx>>

\* main's wg.Wait() returns; the heartbeat and the plugin daemon end with ctx.
MainExits ==
    /\ main = "returned" /\ ctx
    /\ main' = "exited"
    /\ UNCHANGED <<connVars, region, pc, c, reg, retries, stream, handlers, subCtx, ctx>>

-----------------------------------------------------------------------------
GetConnection(p) ==
    \/ LoadConn(p) \/ GetState(p) \/ CountUse(p) \/ LoadRegion(p)
    \/ NoSdHost(p) \/ DialSd(p) \/ DialPrivate(p) \/ DialPublic(p)
    \/ NotDialed(p) \/ StoreConn(p) \/ ResetUses(p) \/ ReturnNil(p)

startTransfer ==
    \/ TransferError \/ WaitRetry \/ OpenError \/ HandlersEnded \/ Sleep
    \/ TransferDone \/ CancelTransport
    \/ \E s \in Streams : OpenTransfer(s)

handleReceive(s) ==
    \/ RecvError(s) \/ RecvUpload(s) \/ RecvShutdown(s)
    \/ \E r \in Regions : RecvRegion(s, r)
    \/ RecvUpdate(s) \/ Updated(s) \/ CancelStream(s)

startFileExt == OpenFile \/ UploadEnds \/ FileExtDone

Running ==
    \/ \E p \in Callers : GetConnection(p) \/ Resolve(p)
    \/ startTransfer \/ startFileExt
    \/ \E s \in Streams : SendDone(s) \/ handleReceive(s)
    \/ \E x \in Conns, st \in {"usable", "broken"} : Network(x, st)
    \/ Signal \/ StartupReturns \/ MainExits

Next == main # "exited" /\ Running

Spec == Init /\ [][Next]_vars

\* Every goroutine runs; dialling and the waits have time limits; a cancelled
\* context ends Recv after what the stream has buffered.  Nothing bounds Resolve and agent.Update.
FairSpec ==
    /\ Spec
    /\ \A p \in Callers : WF_vars(GetConnection(p))
    /\ WF_vars(startTransfer) /\ WF_vars(startFileExt)
    /\ \A s \in Streams :
         /\ WF_vars(SendDone(s)) /\ WF_vars(CancelStream(s))
         /\ SF_vars((Done \/ subDone[s]) /\ RecvError(s))
    /\ WF_vars(StartupReturns) /\ WF_vars(MainExits)

-----------------------------------------------------------------------------
Labels == {"get", "state", "count", "region", "sd", "sd dial", "private", "public",
           "store", "reset", "nil", "error", "got", "end"}

\* Every variable stays in its type.  The count of uses passes its limit by at
\* most four: each of the two callers counts the old connection, and again a
\* new one that the other has stored and whose count it has not reset yet.
TypeOK ==
    /\ conn \in Conns \cup {Nil}
    /\ cstate \in [Conns -> {"usable", "broken", "shutdown"}]
    /\ uses \in 0..(MaxUses + 4)
    /\ region \in Regions
    /\ pc["transfer"] \in Labels \cup {"wait", "run", "sleep"}
    /\ pc["fileExt"] \in Labels \cup {"select", "open"}
    /\ c \in [Callers -> Conns \cup {Nil}]
    /\ reg \in [Callers -> Regions]
    /\ retries \in 0..(MaxRetries + 1)
    /\ stream \in Streams
    /\ send \in [Streams -> {"run", "end"}]
    /\ recv \in [Streams -> {"recv", "update", "returned", "end"}]
    /\ subDone \in [Streams -> BOOLEAN]
    /\ {subCtx, ctx} \subseteq BOOLEAN
    /\ main \in {"run", "returned", "exited"}

\* GetConnection never returns a nil connection without an error, which its
\* callers would dereference: every region a task can set has a host.
NoNilConnection == \A p \in Callers : pc[p] = "got" => c[p] # Nil

\* An update of the agent is not interrupted: the process does not exit while
\* handleReceive is in agent.Update, even after a signal.
UpdateUninterrupted == main = "exited" => \A s \in Streams : recv[s] # "update"

\* No request to the service discovery and no update takes forever.
NoHang ==
    /\ \A p \in Callers : []<>(pc[p] # "sd")
    /\ \A s \in Streams : []<>(recv[s] # "update")

\* Cancelled, by a signal, a task or the end of the transfer, the agent exits.
CancelExits == NoHang => (ctx ~> main = "exited")

\* A stream whose handleReceive has returned is replaced: the transfer looks
\* for a connection again, unless the agent is shutting down.
StreamReplaced ==
    NoHang => \A s \in Streams :
        (stream = s /\ pc["transfer"] = "run" /\ recv[s] = "returned")
            ~> (pc["transfer"] \in {"get", "end"} \/ main = "exited")
=============================================================================
