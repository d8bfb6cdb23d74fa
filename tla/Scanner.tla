------------------------------ MODULE Scanner ------------------------------
(***************************************************************************)
(* The scanner plugin (plugins/scanner/src): recv_worker takes tasks from  *)
(* the agent, two cron threads and the monitor of the honeypots put scan   *)
(* tasks into one bounded channel, and work takes them out, keeps the scan *)
(* engine loaded and reports to the agent.  An update of the database goes *)
(* from recv_worker to work through a rendezvous.  A thread that has to    *)
(* end the plugin sends on s_locker, on which main waits in order to       *)
(* return: the step in which it does so is the end of the process.         *)
(*                                                                         *)
(* A task in the channel is known by its kind: "cron" for 6051 and 6052,   *)
(* "one" for 6053, "mode" for 6055 and 6056, "full" for 6057; a "cron" is  *)
(* also the 6054 of a honeypot.  Of 6053 there is one at a time.  The one  *)
(* second's sleep after a scan that supper_mode leaves out is only time.   *)
(***************************************************************************)
EXTENDS Naturals, Sequences

CONSTANTS
    Versions,    \* versions of the database, with the hash they come with
    Started,     \* the one the plugin is started with
    QueueCap,    \* capacity of the channel, 256
    HighWater,   \* length from which a 6053 is dropped, 250
    Crons,       \* cron threads: job_dir and job_proc
    CronWater,   \* [Crons -> Nat]: length above which each waits, 2 and 8
    MonWater,    \* length above which the monitor waits, 8
    Monitors     \* bound: threads of FileMonitor that are not lost in a read

ASSUME ScannerAssumption ==
    /\ Started \in Versions /\ QueueCap \in Nat
    /\ {"none", "alien", "wrong", "gone"} \cap Versions = {}

VARIABLES
    sLink,       \* the agent's pipes: "up" or "gone"
    offer,       \* version that recv_worker offers to work, or "none"
    workAt,      \* work: at its "select" or in a "full" scan
    queue,       \* the task channel
    engine,      \* Option<Scanner>: "none" or the version loaded
    version,     \* DBManager.version
    zip,         \* archive in TMP_PATH: a version, "alien", "wrong" or "gone"
    told,        \* version in the last RegReport
    cgroup,      \* memory limit: "small" or "big"
    honeypot,    \* Option<HoneyPot> of recv_worker is Some
    monAt,       \* thread of each FileMonitor
    monFd,       \* its descriptor is open
    cronAt,      \* each cron thread: "wait" or "send"
    asked,       \* history: a 6053 is in the channel
    ended        \* main has returned

scannerVars == <<sLink, offer, workAt, queue, engine, version, zip,
                 told, cgroup, honeypot, monAt, monFd, cronAt, asked, ended>>
dbVars == <<engine, version, zip, told>>
potVars == <<honeypot, monAt, monFd>>

-----------------------------------------------------------------------------
(* The database.                                                           *)

\* DBManager::update, for a request with version v.  The archives of before
\* are removed first.  The download may fail; what comes may be stored under
\* another name than dbname or be locked with another password than the one
\* the manager has ("alien"), or it opens but is not what the request says, or
\* not with the password it brings ("wrong").
Update(v) ==
    /\ IF v = version
       THEN zip' = zip
       ELSE zip' \in {v, "alien", "wrong", "gone"}
    /\ version' = IF zip' \in {v, "wrong"} THEN v ELSE version

\* DBManager::load and Scanner::new succeed only with an archive that holds
\* what the manager says; they may also fail for reasons of their own.
Loadable == zip = version

-----------------------------------------------------------------------------
(* recv_worker.                                                            *)

\* try_send
Push(kind) == Len(queue) < QueueCap /\ queue' = Append(queue, kind)
PushFails == Len(queue) = QueueCap /\ UNCHANGED queue

\* Fault: the error of receive is passed over.
ReceiveFailsLogged ==
    /\ offer = "none" /\ sLink = "gone"
    /\ UNCHANGED scannerVars

ReceiveFails ==
    /\ offer = "none" /\ sLink = "gone"
    /\ ended' = TRUE
    /\ UNCHANGED <<sLink, offer, workAt, queue, dbVars, cgroup, potVars, cronAt, asked>>

\* 6053; a task that cannot be decoded or names no full path is ignored.
ReceiveScan ==
    /\ offer = "none" /\ sLink = "up"
    /\ ~asked
    /\ IF Len(queue) >= HighWater
       THEN UNCHANGED <<queue, asked>>
       ELSE Push("one") /\ asked' = TRUE
    /\ UNCHANGED <<sLink, offer, workAt, dbVars, cgroup, potVars, cronAt,
                   ended>>

\* 6050: s.send of the rendezvous begins.
ReceiveUpdate ==
    /\ offer = "none" /\ sLink = "up"
    /\ offer' \in Versions
    /\ UNCHANGED <<sLink, workAt, queue, dbVars, cgroup, potVars, cronAt, asked, ended>>

\* 6055, 6056 and 6057.  recv_worker itself lowers the limits for a 6056 that
\* it has queued, whatever work does at the time.
ReceiveMode ==
    /\ offer = "none" /\ sLink = "up"
    /\ \/ Push("mode") /\ cgroup' \in {cgroup, "small"}
       \/ Push("full") /\ UNCHANGED cgroup
       \/ PushFails /\ UNCHANGED cgroup
    /\ UNCHANGED <<sLink, offer, workAt, dbVars, potVars, cronAt, asked, ended>>

\* 6051: HoneyPot::new starts a monitor, or fails before it does so.  If it
\* fails after that, the descriptor is closed again: the thread waits in its
\* read for ever, or it has not come to it and the plugin ends.
HoneypotOn ==
    /\ offer = "none" /\ sLink = "up" /\ ~honeypot
    /\ \/ \E m \in Monitors :
            /\ monAt[m] = "none"
            /\ honeypot' = TRUE /\ monFd' = [monFd EXCEPT ![m] = TRUE]
            /\ monAt' = [monAt EXCEPT ![m] = "read"] /\ UNCHANGED ended
       \/ ended' = TRUE /\ UNCHANGED potVars
    /\ UNCHANGED <<sLink, offer, workAt, queue, dbVars, cgroup, cronAt, asked>>

\* 6052: the HoneyPot is dropped, its marks are flushed and its descriptor is
\* closed.  Its thread is told nothing: if it is in the read it stays there.
HoneypotOff ==
    /\ offer = "none" /\ sLink = "up" /\ honeypot
    /\ honeypot' = FALSE
    /\ monFd' = [m \in Monitors |-> FALSE]
    /\ monAt' = [m \in Monitors |-> IF monAt[m] = "read" THEN "none" ELSE monAt[m]]
    /\ UNCHANGED <<sLink, offer, workAt, queue, dbVars, cgroup, cronAt, asked, ended>>

-----------------------------------------------------------------------------
(* The thread of a FileMonitor.                                            *)

\* read returns an event that is to be scanned; others are passed over.
MonitorReads(m) ==
    /\ monAt[m] = "read"
    /\ monAt' = [monAt EXCEPT ![m] = "wait"]
    /\ UNCHANGED <<sLink, offer, workAt, queue, dbVars, cgroup, honeypot, monFd,
                   cronAt, asked, ended>>

MonitorWaits(m) ==
    /\ monAt[m] = "wait" /\ Len(queue) <= MonWater
    /\ monAt' = [monAt EXCEPT ![m] = "send"]
    /\ UNCHANGED <<sLink, offer, workAt, queue, dbVars, cgroup, honeypot, monFd,
                   cronAt, asked, ended>>

\* Back to the call of read.  On a descriptor that was closed it fails and the
\* plugin ends, unless the number is the next monitor's by now: then both
\* threads read from it.
ReadAgain(m) ==
    \/ /\ monFd[m] \/ \E k \in Monitors : monFd[k]
       /\ monFd' = [monFd EXCEPT ![m] = TRUE]
       /\ monAt' = [monAt EXCEPT ![m] = "read"] /\ UNCHANGED ended
    \/ ~monFd[m] /\ ended' = TRUE /\ UNCHANGED <<monAt, monFd>>

\* try_send of a 6054; a full channel ends the plugin.  Then the next event of
\* the same read, or the next read.
MonitorSends(m) ==
    /\ monAt[m] = "send"
    /\ \/ Push("cron") /\ ReadAgain(m)
       \/ Push("cron") /\ monAt' = [monAt EXCEPT ![m] = "wait"] /\ UNCHANGED <<monFd, ended>>
       \/ PushFails /\ ended' = TRUE /\ UNCHANGED <<monAt, monFd>>
    /\ UNCHANGED <<sLink, offer, workAt, dbVars, cgroup, honeypot, cronAt, asked>>

-----------------------------------------------------------------------------
(* The cron threads: a file or a process to scan, when the channel is low;  *)
(* send blocks while it is full.                                            *)

CronWaits(c) ==
    /\ cronAt[c] = "wait" /\ Len(queue) <= CronWater[c]
    /\ cronAt' = [cronAt EXCEPT ![c] = "send"]
    /\ UNCHANGED <<sLink, offer, workAt, queue, dbVars, cgroup, potVars, asked,
                   ended>>

CronSends(c) ==
    /\ cronAt[c] = "send" /\ Push("cron")
    /\ cronAt' = [cronAt EXCEPT ![c] = "wait"]
    /\ UNCHANGED <<sLink, offer, workAt, dbVars, cgroup, potVars, asked, ended>>

-----------------------------------------------------------------------------
(* work.                                                                    *)

\* send_record: with a broken pipe it fails as soon as the buffer is full,
\* and the plugin has to end.
Report == ended' \in IF sLink = "up" THEN {FALSE} ELSE BOOLEAN

\* The rendezvous: work takes the offer.  A request that cannot be decoded is
\* passed over.  Otherwise the manager is updated, the version asked for is
\* reported even if that failed, and the engine is renewed.
TakeUpdate ==
    /\ workAt = "select" /\ offer # "none"
    /\ offer' = "none"
    /\ \/ UNCHANGED <<dbVars, ended>>
       \/ Update(offer) /\ Report /\ ended' /\ UNCHANGED <<engine, told>>
       \/ /\ Update(offer) /\ told' = offer
          /\ \/ Loadable' /\ engine' = version' /\ UNCHANGED ended
             \/ engine' = "none" /\ ended' = TRUE
    /\ UNCHANGED <<sLink, workAt, queue, cgroup, potVars, cronAt, asked>>

\* What is done with a task once there is an engine.  A 6053 is answered if
\* its file is missing and if it is scanned, not if the scan fails; the
\* others are reported if something is found.
Perform(kind) ==
    /\ IF kind \in {"cron", "one"} THEN Report ELSE UNCHANGED ended
    /\ asked' = (asked /\ kind # "one")
    /\ IF kind = "full" THEN workAt' = "full" /\ cgroup' = "big"
                        ELSE UNCHANGED <<workAt, cgroup>>

\* Fault: the newest task first.
TakeTaskNewest ==
    /\ workAt = "select" /\ queue # <<>>
    /\ queue' = SubSeq(queue, 1, Len(queue) - 1)
    /\ \/ engine = "none" /\ ended' = TRUE /\ UNCHANGED <<workAt, engine, cgroup, asked>>
       \/ /\ engine # "none" \/ Loadable
          /\ engine' = IF engine = "none" THEN version ELSE engine
          /\ Perform(queue[Len(queue)])
    /\ UNCHANGED <<sLink, offer, version, zip, told, potVars, cronAt>>

\* A task: the engine is loaded if there is none.
TakeTask ==
    /\ workAt = "select" /\ queue # <<>>
    /\ queue' = Tail(queue)
    /\ \/ engine = "none" /\ ended' = TRUE /\ UNCHANGED <<workAt, engine, cgroup, asked>>
       \/ /\ engine # "none" \/ Loadable
          /\ engine' = IF engine = "none" THEN version ELSE engine
          /\ Perform(Head(queue))
    /\ UNCHANGED <<sLink, offer, version, zip, told, potVars, cronAt>>

\* The full scan has joined its threads.  The engine is dropped, the end is
\* reported and the limits are set back.
FullScanEnds ==
    /\ workAt = "full"
    /\ workAt' = "select" /\ engine' = "none" /\ cgroup' = "small"
    /\ UNCHANGED <<sLink, offer, queue, version, zip, told, potVars, cronAt, asked,
                   ended>>

\* Nothing for 300 seconds.
WorkTimeout ==
    /\ workAt = "select" /\ queue = <<>> /\ offer = "none" /\ engine # "none"
    /\ engine' = "none"
    /\ UNCHANGED <<sLink, offer, workAt, queue, version, zip, told, cgroup, potVars,
                   cronAt, asked, ended>>

-----------------------------------------------------------------------------
AgentGone ==
    /\ sLink = "up"
    /\ sLink' = "gone"
    /\ UNCHANGED <<offer, workAt, queue, dbVars, cgroup, potVars, cronAt, asked,
                   ended>>

\* main, once DBManager::get has succeeded: it found an archive that loads, or
\* extracted a new one without comparing it.
ScannerStart ==
    /\ version = Started
    /\ zip \in {version, "wrong"}
    /\ sLink = "up" /\ offer = "none"
    /\ workAt = "select" /\ queue = <<>> /\ engine = "none"
    /\ told = "none" /\ cgroup = "small" /\ honeypot = FALSE
    /\ monAt = [m \in Monitors |-> "none"] /\ monFd = [m \in Monitors |-> FALSE]
    /\ cronAt = [c \in Crons |-> "wait"]
    /\ asked = FALSE
ScannerInit == ScannerStart /\ ended = FALSE

RecvWorker == ReceiveFails \/ ReceiveScan \/ ReceiveUpdate \/ ReceiveMode
              \/ HoneypotOn \/ HoneypotOff
ScannerNext ==
    /\ ~ended
    /\ \/ RecvWorker \/ TakeUpdate \/ TakeTask \/ FullScanEnds \/ WorkTimeout
       \/ \E m \in Monitors : MonitorReads(m) \/ MonitorWaits(m) \/ MonitorSends(m)
       \/ \E c \in Crons : CronWaits(c) \/ CronSends(c)
       \/ AgentGone

ScannerSpec == ScannerInit /\ [][ScannerNext]_scannerVars

\* Threads are scheduled and a full scan ends (module FullScan).  select!
\* chooses at random among the channels that are ready.
ScannerFairness ==
    /\ WF_scannerVars(~ended /\ ReceiveFails)
    /\ WF_scannerVars(~ended /\ FullScanEnds)
    /\ SF_scannerVars(~ended /\ TakeUpdate) /\ SF_scannerVars(~ended /\ TakeTask)
ScannerFairSpec == ScannerSpec /\ ScannerFairness

-----------------------------------------------------------------------------
(* Properties.                                                             *)

\* Type correctness of the plugin's state; the channel never holds more than
\* its capacity, whatever the threads checked before they sent.
ScannerTypeOK ==
    /\ sLink \in {"up", "gone"}
    /\ offer \in Versions \cup {"none"} /\ workAt \in {"select", "full"}
    /\ queue \in Seq({"cron", "one", "mode", "full"})
    /\ Len(queue) <= QueueCap
    /\ engine \in Versions \cup {"none"} /\ version \in Versions
    /\ zip \in Versions \cup {"alien", "wrong", "gone"}
    /\ told \in Versions \cup {"none"} /\ cgroup \in {"small", "big"}
    /\ honeypot \in BOOLEAN /\ monFd \in [Monitors -> BOOLEAN]
    /\ monAt \in [Monitors -> {"none", "read", "wait", "send"}]
    /\ cronAt \in [Crons -> {"wait", "send"}]
    /\ asked \in BOOLEAN /\ ended \in BOOLEAN

\* While work goes on, the version it last reported is the one the manager
\* holds, and so is the engine's, if one is loaded: although the report of an
\* update that failed names the version asked for, such an update leaves no
\* archive that loads, and the plugin ends.
ReportedIsLoaded ==
    ~ended => /\ told \in {"none", version}
              /\ engine \in {"none", version}

\* The larger limits of a full scan are in force only while one runs, however
\* the tasks that change them are mixed.
LimitsRestored == cgroup = "big" => workAt = "full"

\* A 6053 that got into the channel is answered, unless its scan fails or the
\* plugin ends: neither a flood of other tasks nor updates and full scans
\* before it keep it waiting for ever.
Answered == asked ~> ~asked \/ ended

\* When the agent has gone the plugin ends, even if recv_worker is waiting for
\* work to take an update at that moment.
ScannerExits == sLink = "gone" ~> ended
=============================================================================
