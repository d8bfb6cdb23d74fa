------------------------------- MODULE MCRasp -------------------------------
(***************************************************************************)
(* The RASP plugin for TLC: a behaviour is one of the plugin's threads, of *)
(* the server of the probes or of the manager of the servers.  The other   *)
(* two are in a state in which no fair action of theirs is enabled.        *)
(***************************************************************************)
EXTENDS RaspMonitor, RaspServer, RaspManager, TLC

VARIABLE part    \* what this behaviour is about

raspVars == <<part, monitorVars, serverVars, managerVars>>

MonitorOff == MonitorStart /\ agentUp = FALSE /\ running = FALSE /\ failed = TRUE
ServerOff == ServerStart /\ serving = FALSE /\ cleanAt = "ended"
ManagerOff ==
    /\ ManagerStart /\ alive = FALSE
    /\ mode = "thread" /\ mntNs = [p \in Procs |-> CHOOSE n \in Namespaces : TRUE]

RaspInit ==
    \/ part = "monitor" /\ MonitorInit /\ ServerOff /\ ManagerOff
    \/ part = "server" /\ MonitorOff /\ ServerInit /\ ManagerOff
    \/ part = "manager" /\ MonitorOff /\ ServerOff /\ ManagerInit

RaspNext ==
    \/ part = "monitor" /\ MonitorNext /\ UNCHANGED <<part, serverVars, managerVars>>
    \/ part = "server" /\ ServerNext /\ UNCHANGED <<part, monitorVars, managerVars>>
    \/ part = "manager" /\ ManagerNext /\ UNCHANGED <<part, monitorVars, serverVars>>

bothVars == <<monitorVars, serverVars>>
Either(A, B) == (A /\ UNCHANGED serverVars) \/ (B /\ UNCHANGED monitorVars)

\* MonitorFairness and ServerFairness: of two fair actions of
\* different parts one is never enabled, so fairness of their disjunction is
\* fairness of each.
RaspFairness ==
    /\ WF_monitorVars(~MonitorJoined /\ Collect)
    /\ WF_monitorVars(~MonitorJoined /\ ~agentUp /\ ExternalEnds)
    /\ WF_monitorVars(PidRecv)
    /\ SF_bothVars(Either(Inspect, EnterPair))
    /\ SF_bothVars(Either(CleanThread, Cleaner))
    /\ SF_bothVars(Either(Operation, Dispatcher))
    /\ SF_monitorVars(Reporter)
    /\ \A c \in Conns : WF_serverVars(Task(c))

RaspSpec == RaspInit /\ [][RaspNext]_raspVars /\ RaspFairness

\* The types; every channel stays within its capacity.
RaspTypeOK == MonitorTypeOK /\ ServerTypeOK /\ ManagerTypeOK
=============================================================================
