----------------------------- MODULE RaspServer -----------------------------
(***************************************************************************)
(* The server that the RASP probes connect to, rasp_server/src/comm.rs.    *)
(* A table holds, for each pid, the pair of its connection: a channel for  *)
(* messages to the probe and a flag, ctrl.  The accept loop enters a pair, *)
(* the dispatcher puts the agent's messages into its channel, a task per   *)
(* connection takes them out, and a cleaner removes the pairs of           *)
(* connections that have ended.  The table's lock is held by the           *)
(* dispatcher while it sends and by the cleaner while it sleeps.           *)
(*                                                                         *)
(* Records from a probe pass through to the internal channel and change    *)
(* nothing here.  A connection's name is used again when nothing refers to *)
(* it any more.                                                            *)
(***************************************************************************)
EXTENDS Naturals, Sequences

CONSTANTS
    Peers,       \* pids of processes with a probe
    Conns,       \* bound: connections at one time
    BoxCap,      \* channel(5) of a pair
    InboxCap     \* bounded(50): messages from the plugin

ASSUME ServerAssumption ==
    "none" \notin Conns \cup Peers /\ BoxCap \in Nat /\ InboxCap \in Nat

VARIABLES
    serving,     \* the plugin's Control
    pairs,       \* [Peers -> connection or "none"]
    conn,        \* [Conns -> "none", "wait", "live", "sending" or "ended"]
    owner,       \* [Conns -> pid]
    ctrlOff,     \* connections whose ctrl has been stopped
    box,         \* [Conns -> messages in the pair's channel]
    hung,        \* connections whose probe does not read
    pLock,       \* who holds the table's lock: "free", "clean" or "dispatch"
    cleanAt, doomed,     \* the cleaner and the pids it is to remove
    fresh,       \* pids entered since the cleaner chose (history)
    dispAt, message,     \* the dispatcher and the pid its message is for
    inbox        \* messages from the plugin: their pids

connVars == <<conn, owner, ctrlOff, box, hung>>
cleanVars == <<cleanAt, doomed, fresh>>
dispVars == <<dispAt, message, inbox>>
serverVars == <<serving, pairs, connVars, pLock, cleanVars, dispVars>>

-----------------------------------------------------------------------------
(* Probes and their connections.                                           *)

\* accept: one stream after the other.
Accept(c, p) ==
    /\ \A d \in Conns : conn[d] # "wait"
    /\ conn[c] \in {"none", "ended"} /\ pairs[owner[c]] # c
    /\ conn' = [conn EXCEPT ![c] = "wait"]
    /\ owner' = [owner EXCEPT ![c] = p]
    /\ ctrlOff' = ctrlOff \ {c} /\ hung' = hung \ {c} /\ box' = [box EXCEPT ![c] = 0]
    /\ UNCHANGED <<serving, pairs, pLock, cleanVars, dispVars>>

\* new_pair: a pair of the same pid is replaced and its channel closed.
NewPair(c) ==
    /\ conn[c] = "wait" /\ pLock = "free"
    /\ pairs' = [pairs EXCEPT ![owner[c]] = c]
    /\ fresh' = fresh \cup {owner[c]}
    /\ conn' = [conn EXCEPT ![c] = "live"]
    /\ UNCHANGED <<serving, owner, ctrlOff, box, hung, pLock, cleanAt, doomed, dispVars>>

\* looping: a message is taken from the channel and sent to the probe.
TakeMessage(c) ==
    /\ conn[c] = "live" /\ box[c] > 0
    /\ box' = [box EXCEPT ![c] = @ - 1]
    /\ conn' = [conn EXCEPT ![c] = "sending"]
    /\ UNCHANGED <<serving, pairs, owner, ctrlOff, hung, pLock, cleanVars, dispVars>>

MessageSent(c) ==
    /\ conn[c] = "sending" /\ c \notin hung
    /\ conn' = [conn EXCEPT ![c] = "live"]
    /\ UNCHANGED <<serving, pairs, owner, ctrlOff, box, hung, pLock, cleanVars, dispVars>>

ProbeHangs(c) ==
    /\ conn[c] \in {"live", "sending"} /\ c \notin hung
    /\ hung' = hung \cup {c}
    /\ UNCHANGED <<serving, pairs, conn, owner, ctrlOff, box, pLock, cleanVars, dispVars>>

\* Fault: the task ends without stopping the pair's ctrl.
EndsSilently(c) ==
    /\ conn' = [conn EXCEPT ![c] = "ended"]
    /\ UNCHANGED <<serving, pairs, owner, ctrlOff, box, hung, pLock, cleanVars, dispVars>>

\* The end of looping: every return is followed by a stop of the ctrl.
Ends(c) ==
    /\ conn' = [conn EXCEPT ![c] = "ended"]
    /\ ctrlOff' = ctrlOff \cup {c}
    /\ UNCHANGED <<serving, pairs, owner, box, hung, pLock, cleanVars, dispVars>>

\* The stream ends or fails, for reading or for writing.
ProbeLeaves(c) == conn[c] \in {"live", "sending"} /\ Ends(c)

\* The channel is closed, the pair being no longer in the table, and empty.
Replaced(c) == conn[c] = "live" /\ box[c] = 0 /\ pairs[owner[c]] # c /\ Ends(c)

-----------------------------------------------------------------------------
(* The dispatcher.                                                         *)

AgentMessage(p) ==
    /\ Len(inbox) < InboxCap
    /\ inbox' = Append(inbox, p)
    /\ UNCHANGED <<serving, pairs, connVars, pLock, cleanVars, dispAt, message>>

DispatchReceive ==
    /\ dispAt = "loop" /\ serving /\ inbox # <<>>
    /\ message' = Head(inbox) /\ inbox' = Tail(inbox)
    /\ dispAt' = "lock"
    /\ UNCHANGED <<serving, pairs, connVars, pLock, cleanVars>>

\* A message for a pid that is not in the table is dropped.
DispatchLock ==
    /\ dispAt = "lock" /\ pLock = "free"
    /\ IF pairs[message] = "none"
       THEN dispAt' = "loop" /\ message' = "none" /\ UNCHANGED pLock
       ELSE dispAt' = "send" /\ pLock' = "dispatch" /\ UNCHANGED message
    /\ UNCHANGED <<serving, pairs, connVars, cleanVars, inbox>>

\* Fault: the dispatcher sends once more than the channel holds.
DispatchSendOver ==
    /\ dispAt = "send"
    /\ \/ conn[pairs[message]] # "ended" /\ box[pairs[message]] <= BoxCap
          /\ box' = [box EXCEPT ![pairs[message]] = @ + 1]
       \/ conn[pairs[message]] = "ended" /\ UNCHANGED box
    /\ dispAt' = "loop" /\ message' = "none" /\ pLock' = "free"
    /\ UNCHANGED <<serving, pairs, conn, owner, ctrlOff, hung, cleanVars, inbox>>

\* The send waits, with the table locked, while the channel is full, and fails
\* when the task has ended.
DispatchSend ==
    /\ dispAt = "send"
    /\ \/ conn[pairs[message]] # "ended" /\ box[pairs[message]] < BoxCap
          /\ box' = [box EXCEPT ![pairs[message]] = @ + 1]
       \/ conn[pairs[message]] = "ended" /\ UNCHANGED box
    /\ dispAt' = "loop" /\ message' = "none" /\ pLock' = "free"
    /\ UNCHANGED <<serving, pairs, conn, owner, ctrlOff, hung, cleanVars, inbox>>

-----------------------------------------------------------------------------
(* The cleaner, and the end.                                               *)

CleanScan ==
    /\ cleanAt = "scan" /\ serving /\ pLock = "free"
    /\ doomed' = {p \in Peers : pairs[p] \in ctrlOff}
    /\ fresh' = {}
    /\ cleanAt' = "remove"
    /\ UNCHANGED <<serving, pairs, connVars, pLock, dispVars>>

\* The lock was given up in between; the pids may have other pairs by now.
CleanRemove ==
    /\ cleanAt = "remove" /\ pLock = "free"
    /\ pairs' = [p \in Peers |-> IF p \in doomed THEN "none" ELSE pairs[p]]
    /\ pLock' = "clean"
    /\ cleanAt' = "sleep" /\ doomed' = {}
    /\ UNCHANGED <<serving, connVars, fresh, dispVars>>

CleanWakes ==
    /\ cleanAt = "sleep"
    /\ cleanAt' = "scan" /\ pLock' = "free" /\ fresh' = {}
    /\ UNCHANGED <<serving, pairs, connVars, doomed, dispVars>>

CleanStops ==
    /\ cleanAt = "scan" /\ ~serving /\ pLock = "free"
    /\ ctrlOff' = ctrlOff \cup {c \in Conns : pairs[owner[c]] = c}
    /\ cleanAt' = "ended"
    /\ UNCHANGED <<serving, pairs, conn, owner, box, hung, pLock, doomed, fresh, dispVars>>

\* The plugin's Control goes off: by one of its threads, by the loss of the
\* channel, or by the task that watches the socket's file.
ServerStops ==
    /\ serving
    /\ serving' = FALSE
    /\ UNCHANGED <<pairs, connVars, pLock, cleanVars, dispVars>>

-----------------------------------------------------------------------------
ServerStart ==
    /\ pairs = [p \in Peers |-> "none"]
    /\ conn = [c \in Conns |-> "none"] /\ owner \in [Conns -> Peers]
    /\ ctrlOff = {} /\ box = [c \in Conns |-> 0] /\ hung = {}
    /\ pLock = "free" /\ doomed = {} /\ fresh = {}
    /\ dispAt = "loop" /\ message = "none" /\ inbox = <<>>
ServerInit == ServerStart /\ serving = TRUE /\ cleanAt = "scan"

EnterPair == \E c \in Conns : NewPair(c)
Task(c) == TakeMessage(c) \/ MessageSent(c) \/ Replaced(c)
Dispatcher == DispatchReceive \/ DispatchLock \/ DispatchSend
Cleaner == CleanScan \/ CleanRemove \/ CleanWakes \/ CleanStops

ServerNext ==
    \/ \E c \in Conns, p \in Peers : Accept(c, p)
    \/ EnterPair
    \/ \E c \in Conns : Task(c) \/ ProbeHangs(c) \/ ProbeLeaves(c)
    \/ \E p \in Peers : AgentMessage(p)
    \/ Dispatcher \/ Cleaner \/ ServerStops

ServerSpec == ServerInit /\ [][ServerNext]_serverVars

\* The runtime runs every task; its lock serves those who wait in turn.
ServerFairness ==
    /\ \A c \in Conns : WF_serverVars(Task(c))
    /\ SF_serverVars(EnterPair)
    /\ SF_serverVars(Dispatcher)
    /\ SF_serverVars(Cleaner)

ServerFairSpec == ServerSpec /\ ServerFairness

-----------------------------------------------------------------------------
(* Properties.                                                             *)

\* The types; the channels of the pairs and of the plugin stay within their
\* capacities.
ServerTypeOK ==
    /\ serving \in BOOLEAN
    /\ pairs \in [Peers -> Conns \cup {"none"}]
    /\ conn \in [Conns -> {"none", "wait", "live", "sending", "ended"}]
    /\ owner \in [Conns -> Peers] /\ ctrlOff \subseteq Conns /\ hung \subseteq Conns
    /\ box \in [Conns -> 0..BoxCap]
    /\ pLock \in {"free", "clean", "dispatch"}
    /\ cleanAt \in {"scan", "remove", "sleep", "ended"} /\ doomed \subseteq Peers
    /\ fresh \subseteq Peers
    /\ dispAt \in {"loop", "lock", "send"} /\ message \in Peers \cup {"none"}
    /\ inbox \in Seq(Peers) /\ Len(inbox) <= InboxCap

\* The cleaner takes a live connection's pair away only if the pid connected
\* again between its two looks at the table.
LiveKept ==
    cleanAt = "remove" =>
        \A p \in doomed \ fresh : conn[pairs[p]] = "ended"

\* A probe that does not read, a full channel, and the dispatcher waiting on it
\* with the table locked: nobody gets at the table until that probe leaves.
Jammed ==
    /\ dispAt = "send"
    /\ LET c == pairs[message] IN c \in hung /\ conn[c] = "sending" /\ box[c] = BoxCap

\* The pair of a connection that has ended does not stay in the table.
EndedForgotten ==
    \A p \in Peers : (pairs[p] # "none" /\ conn[pairs[p]] = "ended")
                        ~> (pairs[p] = "none" \/ conn[pairs[p]] # "ended" \/ Jammed \/ ~serving)
=============================================================================
