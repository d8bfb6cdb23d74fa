---------------------------- MODULE RaspMonitor ----------------------------
(***************************************************************************)
(* The RASP plugin (rasp/plugin/src/monitor.rs).  pid_recv finds processes *)
(* and hands them to inspect, which enters those with a known runtime into *)
(* a table and may ask for a probe to be attached; cleaner asks for those  *)
(* that are gone to be forgotten; operation carries the requests out,      *)
(* which come also from the agent through external.  All report through    *)
(* one bounded channel that the collect threads empty into the plugin      *)
(* client.  A flag, Control, tells every thread to stop.                   *)
(*                                                                         *)
(* Of the records only the number in the channel matters.  A pid may be    *)
(* given to another process once its process is gone.  Every thread looks  *)
(* at Control at the top of its loop and ends there when Control is off: a *)
(* thread that is at "loop" then does nothing more.                        *)
(***************************************************************************)
EXTENDS Naturals, Sequences, FiniteSets

CONSTANTS
    Pids,        \* pids
    PidCap,      \* pid_queue_length, 1000
    ExtCap,      \* external_message_capability, 50
    IntCap       \* internal_message_capability, 1000

ASSUME MonitorAssumption == IsFiniteSet(Pids) /\ {PidCap, ExtCap, IntCap} \subseteq Nat

VARIABLES
    agentUp,     \* the agent reads and writes the plugin's pipes
    running,     \* Control
    exists,      \* pids in use
    tracking,    \* pid_recv: pids of the last poll
    found,       \* pid_recv: pids to hand over
    pids,        \* channel from pid_recv to inspect
    table,       \* [Pids -> tracing state]: tracing_process
    tLock,       \* inspect holds the table's lock for writing
    subject,     \* pid that inspect is working on, or none
    ext,         \* channel of commands
    missing,     \* cleaner: pids to report as missing
    beats,       \* reporter: heartbeats left to send
    job,         \* operation: the command and the clone of the entry
    ints,        \* number of records in the internal channel
    failed,      \* there is no operation thread: the operator could not be made
    at           \* [thread -> where it is]

worldVars == <<agentUp, exists, failed>>
pidVars == <<tracking, found, pids>>
handVars == <<missing, beats, job>>
tableVars == <<table, tLock, subject>>
monitorVars == <<worldVars, running, pidVars, tableVars, ext, handVars, ints, at>>

Threads == {"pid_recv", "inspect", "reporter", "cleaner", "operation"}
NoJob == <<"none", "none">>
Go(t, pc) == at' = [at EXCEPT ![t] = pc]

\* Sender::send of a record: it blocks while the channel is full, also when the
\* collect threads have ended, since rasp_monitor_start keeps a receiver.
SendReport == ints < IntCap /\ ints' = ints + 1

\* The operation thread is gone, and with it the receiver of the commands.
OperationEnded == failed \/ (~running /\ at["operation"] = "loop")

\* Sender::send of a command: it fails at once when the receiver is gone.
SendCommand(c) ==
    \/ ~OperationEnded /\ Len(ext) < ExtCap /\ ext' = Append(ext, c)
    \/ OperationEnded /\ UNCHANGED ext

-----------------------------------------------------------------------------
(* Processes and the agent.                                                *)

ProcessStarts(p) ==
    /\ p \notin exists
    /\ exists' = exists \cup {p}
    /\ UNCHANGED <<agentUp, failed, running, pidVars, tableVars, ext, handVars, ints, at>>

ProcessExits(p) ==
    /\ p \in exists
    /\ exists' = exists \ {p}
    /\ UNCHANGED <<agentUp, failed, running, pidVars, tableVars, ext, handVars, ints, at>>

AgentLeaves ==
    /\ agentUp
    /\ agentUp' = FALSE
    /\ UNCHANGED <<exists, failed, running, pidVars, tableVars, ext, handVars, ints, at>>

-----------------------------------------------------------------------------
(* collect and external.                                                   *)

\* A collect thread takes all there is and sends it; if it cannot it stops all.
Collect ==
    /\ running /\ ints > 0
    /\ ints' = 0
    /\ running' = agentUp
    /\ UNCHANGED <<worldVars, pidVars, tableVars, ext, handVars, at>>

\* external passes a command of the agent on.  When the channel is full the
\* command is dropped, which changes nothing here; other commands than to
\* attach have no effect in this release.
Command ==
    /\ running /\ agentUp /\ ~failed
    /\ Len(ext) < ExtCap
    /\ \E p \in Pids : ext' = Append(ext, <<"WAIT_ATTACH", p>>)
    /\ UNCHANGED <<worldVars, running, pidVars, tableVars, handVars, ints, at>>

\* Fault: external only looks for the operation thread, not at the agent.
ExternalReturns ==
    /\ running /\ failed
    /\ running' = FALSE
    /\ UNCHANGED <<worldVars, pidVars, tableVars, ext, handVars, ints, at>>

\* external stops all when the agent has gone, or when a command finds no
\* operation thread.
ExternalEnds ==
    /\ running /\ (~agentUp \/ failed)
    /\ running' = FALSE
    /\ UNCHANGED <<worldVars, pidVars, tableVars, ext, handVars, ints, at>>

-----------------------------------------------------------------------------
(* pid_recv and inspect.                                                   *)

\* poll_pid_func: the pids that were not there at the last poll.
PollPid ==
    /\ at["pid_recv"] = "loop" /\ running
    /\ tracking' = exists
    /\ found' = tracking' \ tracking
    /\ Go("pid_recv", IF found' = {} THEN "loop" ELSE "send")
    /\ UNCHANGED <<worldVars, running, pids, tableVars, ext, handVars, ints>>

PidSend ==
    /\ at["pid_recv"] = "send" /\ Len(pids) < PidCap
    /\ \E p \in found : pids' = Append(pids, p) /\ found' = found \ {p}
    /\ Go("pid_recv", IF found' = {} THEN "loop" ELSE "send")
    /\ UNCHANGED <<worldVars, running, tracking, tableVars, ext, handVars, ints>>

\* inspect takes a pid.  The process may be gone, or none to trace; one whose
\* runtime is to be attached automatically needs a command first.  inspect sees
\* Control but goes on until pid_recv has ended and the channel is empty.
InspectPid ==
    /\ at["inspect"] = "loop" /\ pids # <<>>
    /\ pids' = Tail(pids)
    /\ \/ UNCHANGED <<subject, at>>
       \/ /\ Head(pids) \in exists
          /\ subject' = Head(pids)
          /\ \E pc \in {"auto", "lock"} : Go("inspect", pc)
    /\ UNCHANGED <<worldVars, running, tracking, found, table, tLock, ext, handVars, ints>>

\* The command is sent before the process is in the table: operation, if it is
\* quick, does not find the process.
InspectAuto ==
    /\ at["inspect"] = "auto"
    /\ SendCommand(<<"WAIT_ATTACH", subject>>)
    /\ Go("inspect", "lock")
    /\ UNCHANGED <<worldVars, running, pidVars, tableVars, handVars, ints>>

InspectLock ==
    /\ at["inspect"] = "lock" /\ ~tLock
    /\ tLock' = TRUE
    /\ Go("inspect", "report")
    /\ UNCHANGED <<worldVars, running, pidVars, table, subject, ext, handVars, ints>>

\* The report is sent, and the process entered, with the table locked.
InspectReport ==
    /\ at["inspect"] = "report" /\ SendReport
    /\ table' = [table EXCEPT ![subject] = "INSPECTED"]
    /\ subject' = "none"
    /\ tLock' = FALSE
    /\ Go("inspect", "loop")
    /\ UNCHANGED <<worldVars, running, pidVars, ext, handVars>>

-----------------------------------------------------------------------------
(* cleaner and reporter.                                                   *)

\* process_health asks whether the pid is in use, not by which process.
Clean ==
    /\ at["cleaner"] = "loop" /\ running /\ ~tLock
    /\ missing' = {p \in Pids \ exists : table[p] # "NONE"}
    /\ Go("cleaner", IF missing' = {} THEN "loop" ELSE "send")
    /\ UNCHANGED <<worldVars, running, pidVars, tableVars, ext, beats, job, ints>>

CleanSend ==
    /\ at["cleaner"] = "send"
    /\ \E p \in missing : SendCommand(<<"MISSING", p>>) /\ missing' = missing \ {p}
    /\ Go("cleaner", IF missing' = {} THEN "loop" ELSE "send")
    /\ UNCHANGED <<worldVars, running, pidVars, tableVars, beats, job, ints>>

\* A heartbeat for each process of the table.
Heartbeats ==
    /\ at["reporter"] = "loop" /\ running /\ ~tLock
    /\ beats' = Cardinality({p \in Pids : table[p] # "NONE"})
    /\ Go("reporter", IF beats' = 0 THEN "loop" ELSE "send")
    /\ UNCHANGED <<worldVars, running, pidVars, tableVars, ext, missing, job, ints>>

HeartbeatSend ==
    /\ at["reporter"] = "send" /\ SendReport
    /\ beats' = beats - 1
    /\ Go("reporter", IF beats' = 0 THEN "loop" ELSE "send")
    /\ UNCHANGED <<worldVars, running, pidVars, tableVars, ext, missing, job>>

-----------------------------------------------------------------------------
(* operation.                                                              *)

\* A command for a process that is not in the table is dropped.  The entry is
\* cloned and the lock given back before the operation.
Operate ==
    /\ at["operation"] = "loop" /\ running /\ ~failed /\ ext # <<>> /\ ~tLock
    /\ ext' = Tail(ext)
    /\ IF table[Head(ext)[2]] = "NONE"
       THEN UNCHANGED <<job, at>>
       ELSE job' = Head(ext) /\ Go("operation", "report")
    /\ UNCHANGED <<worldVars, running, pidVars, tableVars, missing, beats, ints>>

\* The outcome is reported.  An attach, or the message that goes with it, may
\* have failed; forgetting a process does not fail.
OperateReport ==
    /\ at["operation"] = "report" /\ SendReport
    /\ \/ Go("operation", "update") /\ UNCHANGED job
       \/ job[1] = "WAIT_ATTACH" /\ Go("operation", "loop") /\ job' = NoJob
    /\ UNCHANGED <<worldVars, running, pidVars, tableVars, ext, missing, beats>>

\* Fault: a process that is gone stays in the table.
OperateKeeping ==
    /\ at["operation"] = "update" /\ ~tLock
    /\ table' = IF job[1] = "WAIT_ATTACH"
                THEN [table EXCEPT ![job[2]] = "ATTACHED"] ELSE table
    /\ job' = NoJob
    /\ Go("operation", "loop")
    /\ UNCHANGED <<worldVars, running, pidVars, tLock, subject, ext, missing, beats, ints>>

\* The clone goes back into the table, over what inspect may have put there
\* since; MISSING removes whatever is there.
OperateUpdate ==
    /\ at["operation"] = "update" /\ ~tLock
    /\ table' = [table EXCEPT ![job[2]] = IF job[1] = "MISSING" THEN "NONE" ELSE "ATTACHED"]
    /\ job' = NoJob
    /\ Go("operation", "loop")
    /\ UNCHANGED <<worldVars, running, pidVars, tLock, subject, ext, missing, beats, ints>>

-----------------------------------------------------------------------------
(* The whole.                                                              *)

\* rasp_monitor_start returns, and the process ends, when all its threads have
\* ended.  If the operator cannot be made internal_main returns an error and
\* leaves its other threads to themselves.
MonitorJoined ==
    /\ ~running
    /\ failed \/ (pids = <<>> /\ \A t \in Threads : at[t] = "loop")

MonitorStart ==
    /\ exists = {}
    /\ tracking = {} /\ found = {} /\ pids = <<>>
    /\ table = [p \in Pids |-> "NONE"] /\ tLock = FALSE
    /\ subject = "none"
    /\ ext = <<>> /\ missing = {} /\ beats = 0 /\ job = NoJob /\ ints = 0
    /\ at = [t \in Threads |-> "loop"]
MonitorInit == MonitorStart /\ agentUp = TRUE /\ running = TRUE /\ failed \in BOOLEAN

External == Command \/ ExternalEnds
PidRecv == ~MonitorJoined /\ (PollPid \/ PidSend)
Inspect == ~MonitorJoined /\ (InspectPid \/ InspectAuto \/ InspectLock \/ InspectReport)
CleanThread == ~MonitorJoined /\ (Clean \/ CleanSend)
Reporter == ~MonitorJoined /\ (Heartbeats \/ HeartbeatSend)
Operation == ~MonitorJoined /\ (Operate \/ OperateReport \/ OperateUpdate)

MonitorNext ==
    /\ ~MonitorJoined
    /\ \/ \E p \in Pids : ProcessStarts(p) \/ ProcessExits(p)
       \/ AgentLeaves
       \/ Collect \/ External
       \/ PidRecv \/ Inspect \/ CleanThread \/ Reporter \/ Operation

MonitorSpec == MonitorInit /\ [][MonitorNext]_monitorVars

\* Nobody empties the internal channel any more and it is full.
Wedged == ~running /\ ints = IntCap

\* Every thread runs; locks and channels wake those who wait, so a thread is not
\* passed over for ever.
MonitorFairness ==
    /\ WF_monitorVars(~MonitorJoined /\ Collect)
    /\ WF_monitorVars(~MonitorJoined /\ ~agentUp /\ ExternalEnds)
    /\ WF_monitorVars(PidRecv)
    /\ SF_monitorVars(Inspect)
    /\ SF_monitorVars(CleanThread)
    /\ SF_monitorVars(Reporter)
    /\ SF_monitorVars(Operation)

MonitorFairSpec == MonitorSpec /\ MonitorFairness

-----------------------------------------------------------------------------
(* Properties.                                                             *)

Commands == {"WAIT_ATTACH", "MISSING"} \X Pids
Places == {"loop", "send", "auto", "lock", "report", "update"}

\* The types; the three channels stay within their capacities, the table is locked
\* exactly while inspect reports, and a thread at the top of its loop has nothing
\* left to send or to do.
MonitorTypeOK ==
    /\ agentUp \in BOOLEAN /\ running \in BOOLEAN /\ failed \in BOOLEAN /\ tLock \in BOOLEAN
    /\ exists \subseteq Pids /\ subject \in Pids \cup {"none"}
    /\ tracking \subseteq Pids /\ found \subseteq Pids /\ missing \subseteq Pids
    /\ pids \in Seq(Pids) /\ Len(pids) <= PidCap
    /\ ext \in Seq(Commands) /\ Len(ext) <= ExtCap
    /\ ints \in 0..IntCap
    /\ table \in [Pids -> {"NONE", "INSPECTED", "ATTACHED"}]
    /\ beats \in 0..Cardinality(Pids)
    /\ at \in [Threads -> Places]
    /\ tLock <=> at["inspect"] = "report"
    /\ at["inspect"] = "loop" \/ subject \in Pids
    /\ job \in IF at["operation"] = "loop" THEN {NoJob} ELSE Commands
    /\ at["reporter"] = "loop" <=> beats = 0
    /\ at["pid_recv"] = "loop" <=> found = {}
    /\ at["cleaner"] = "loop" <=> missing = {}

\* The plugin ends once its agent has gone, whatever its threads were doing,
\* unless the internal channel fills up after the last collect thread has
\* ended: then a thread waits to send for ever and is never joined.
RaspStops == ~agentUp ~> (MonitorJoined \/ Wedged)

\* A process that is gone is taken out of the table as long as operation runs
\* and no other process has got its pid.
DeadForgotten ==
    \A p \in Pids : (table[p] # "NONE" /\ p \notin exists)
                        ~> (table[p] = "NONE" \/ p \in exists \/ ~running \/ failed)
=============================================================================
