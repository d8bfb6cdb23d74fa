---------------------------- MODULE RaspManager ----------------------------
(***************************************************************************)
(* Attaching and forgetting processes (rasp/plugin/src/operation.rs) with  *)
(* the manager of the RASP library (librasp/src/manager.rs, comm.rs) and   *)
(* the handle of a server process (rasp_server/src/process_mode.rs).       *)
(*                                                                         *)
(* In thread mode one server runs in the plugin.  In server mode there is  *)
(* a server process per mount namespace; the tracer records for which      *)
(* processes, and the last of them to go has it killed.  Only the          *)
(* operation thread calls the manager, one operation after the other.      *)
(***************************************************************************)
EXTENDS Naturals

CONSTANTS
    Procs,       \* processes that may be attached
    Namespaces,  \* mount namespaces
    QueueCap     \* bounded(50): messages for the probes of a namespace

ASSUME ManagerAssumption == QueueCap \in Nat /\ Namespaces # {}

VARIABLES
    mode,        \* "thread" or "server"
    mntNs,       \* [Procs -> Namespaces]
    alive,       \* the plugin's process group has not been killed
    tracer,      \* [Namespaces -> set of processes]; none recorded: no entry
    servers,     \* [Namespaces -> "none", "up" or "down"]: mnt_namesapce_server_map
    mails,       \* [Namespaces -> messages in the channel to the server]
    attached     \* processes that operation holds for attached

managerVars == <<mode, mntNs, alive, tracer, servers, mails, attached>>

-----------------------------------------------------------------------------
(* The tracer.                                                             *)

\* add, then server_state_on.
Add(n, p) == tracer' = [tracer EXCEPT ![n] = @ \cup {p}]

\* server_state_off answers whether the server is to be killed: only if there
\* was an entry and no process is left in it.
StateOff(n, p) == tracer[n] # {} /\ tracer[n] \subseteq {p}

-----------------------------------------------------------------------------
(* start_comm and stop_comm.                                               *)

\* Fault: the process is recorded before its server has been spawned.
StartCommEarly(p) ==
    LET n == mntNs[p] IN
    \/ mode = "thread" /\ Add(n, p) /\ UNCHANGED <<servers, mails>>
    \/ mode = "server" /\ tracer[n] # {} /\ UNCHANGED <<tracer, servers, mails>>
    \/ /\ mode = "server" /\ tracer[n] = {} /\ Add(n, p)
       /\ \E s \in {"none", "up"} : servers' = [servers EXCEPT ![n] = s]
       /\ mails' = [mails EXCEPT ![n] = 0]

\* In server mode a process that finds a server recorded uses it and is not
\* recorded itself.
StartComm(p) ==
    LET n == mntNs[p] IN
    \/ mode = "thread" /\ Add(n, p) /\ UNCHANGED <<servers, mails>>
    \/ mode = "server" /\ tracer[n] # {} /\ UNCHANGED <<tracer, servers, mails>>
    \/ /\ mode = "server" /\ tracer[n] = {} /\ Add(n, p)
       /\ servers' = [servers EXCEPT ![n] = "up"]
       /\ mails' = [mails EXCEPT ![n] = 0]

\* kill is called with child_id, which new sets to 0 and spawn leaves so: the
\* signal goes to the plugin's own process group.
StopComm(p) ==
    LET n == mntNs[p] IN
    /\ tracer' = [tracer EXCEPT ![n] = @ \ {p}]
    /\ IF mode = "server" /\ StateOff(n, p)
       THEN servers' = [servers EXCEPT ![n] = "none"] /\ alive' = FALSE
       ELSE UNCHANGED <<servers, alive>>
    /\ UNCHANGED mails

-----------------------------------------------------------------------------
(* The operations.                                                         *)

\* attach_process: a comm that cannot be started leaves everything as it was.
AttachProcess(p) ==
    /\ alive /\ p \notin attached
    /\ StartComm(p)
    /\ attached' = attached \cup {p}
    /\ UNCHANGED <<mode, mntNs, alive>>

\* The process has no runtime, or the attach succeeds and the message that goes
\* with it fails: operation does not take the process for attached, and the comm
\* is not stopped.
AttachUnsent(p) ==
    /\ alive /\ p \notin attached
    /\ StartComm(p)
    /\ UNCHANGED <<mode, mntNs, alive, attached>>

\* The attach fails after the comm has been started: the comm is stopped.
\* A process that used another's server was not recorded.
AttachFails(p) ==
    /\ alive /\ p \notin attached
    /\ IF mode = "server" /\ tracer[mntNs[p]] = {}
       THEN /\ alive' = FALSE /\ mails' = [mails EXCEPT ![mntNs[p]] = 0]
            /\ UNCHANGED <<tracer, servers>>
       ELSE StopComm(p)
    /\ UNCHANGED <<mode, mntNs, attached>>

HandleMissing(p) ==
    /\ alive
    /\ StopComm(p)
    /\ attached' = attached \ {p}
    /\ UNCHANGED <<mode, mntNs>>

\* send_message_to_probe, to a process attached before or in this operation:
\* operation waits while the channel is full.
SendProbeMessage(p) ==
    /\ alive /\ mode = "server" /\ tracer[mntNs[p]] # {}
    /\ mails[mntNs[p]] < QueueCap
    /\ mails' = [mails EXCEPT ![mntNs[p]] = @ + 1]
    /\ UNCHANGED <<mode, mntNs, alive, tracer, servers, attached>>

\* The comm_recv thread of a server writes a message to the server's stdin.
CommRecv(n) ==
    /\ alive /\ servers[n] = "up" /\ mails[n] > 0
    /\ mails' = [mails EXCEPT ![n] = @ - 1]
    /\ UNCHANGED <<mode, mntNs, alive, tracer, servers, attached>>

\* A server process ends by itself: its threads end, its entry stays.
ServerExits(n) ==
    /\ alive /\ servers[n] = "up"
    /\ servers' = [servers EXCEPT ![n] = "down"]
    /\ UNCHANGED <<mode, mntNs, alive, tracer, mails, attached>>

-----------------------------------------------------------------------------
ManagerStart ==
    /\ tracer = [n \in Namespaces |-> {}]
    /\ servers = [n \in Namespaces |-> "none"]
    /\ mails = [n \in Namespaces |-> 0]
    /\ attached = {}
ManagerInit ==
    /\ ManagerStart
    /\ mode \in {"thread", "server"} /\ mntNs \in [Procs -> Namespaces]
    /\ alive = TRUE

ManagerNext ==
    \/ \E p \in Procs : \/ AttachProcess(p) \/ AttachUnsent(p) \/ AttachFails(p)
                        \/ HandleMissing(p) \/ SendProbeMessage(p)
    \/ \E n \in Namespaces : CommRecv(n) \/ ServerExits(n)

ManagerSpec == ManagerInit /\ [][ManagerNext]_managerVars

-----------------------------------------------------------------------------
(* Properties.                                                             *)

\* The types; a server's channel stays within its capacity.
ManagerTypeOK ==
    /\ mode \in {"thread", "server"} /\ mntNs \in [Procs -> Namespaces] /\ alive \in BOOLEAN
    /\ tracer \in [Namespaces -> SUBSET Procs]
    /\ servers \in [Namespaces -> {"none", "up", "down"}]
    /\ mails \in [Namespaces -> 0..QueueCap]
    /\ attached \subseteq Procs

\* The tracer and what it traces agree: in thread mode it names every attached
\* process; in server mode a namespace has an entry exactly if it has a server, and
\* as long as the plugin lives an attached process has one, though only the first
\* process of a namespace is recorded: when that one goes the plugin goes with it.
TracerAgrees ==
    IF mode = "thread"
    THEN \A p \in attached : p \in tracer[mntNs[p]]
    ELSE /\ \A n \in Namespaces : tracer[n] # {} <=> servers[n] # "none"
         /\ alive => \A p \in attached : servers[mntNs[p]] # "none"
=============================================================================
