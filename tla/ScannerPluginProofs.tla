------------------------ MODULE ScannerPluginProofs -------------------------
(***************************************************************************)
(* Proofs about the scanner plugin.  FullScan, for any helpers, files and  *)
(* capacity of the channel: FullScanTypeOK and FoundAreScanned.  Scanner,  *)
(* for any versions, threads and capacities: ReportedIsLoaded and          *)
(* LimitsRestored.                                                         *)
(***************************************************************************)
EXTENDS FullScan, Scanner, TLAPS

\* Most leaves are first-order steps over named definitions and go to Zenon; one
\* that needs arithmetic, records or sequences asks for SMT.
USE ZenonT(30)

-----------------------------------------------------------------------------
(* FullScan.                                                               *)

\* Every file is still to be found, in the channel, scanned or lost.
Accounted == toFind + chan + scanned + skipped = Files

\* As long as the agent can be reached helpers leave out of impatience only,
\* until the channel is closed; a task is lost only if all of them did.
Patience ==
    fLink => /\ Disconnected \/ alive + idled = spawned
             /\ skipped > 0 => idled = Helpers

\* The inductive invariant: with it, where FullScan and work have got to.
FullInv ==
    /\ FullScanTypeOK /\ Accounted /\ Patience
    /\ returned => spawned = Helpers
    /\ ~Receivers => chan = 0
    /\ joined => returned /\ ~walking /\ alive = 0

LEMMA FullInvInit == FullScanInit => FullInv
<1> SUFFICES ASSUME FullScanInit PROVE FullInv
  OBVIOUS
<1> USE FullScanAssumption DEF FullScanInit
<1>1. FullScanTypeOK
  <2>1. refs = (IF joined THEN 0 ELSE 1) + 2 * alive
    BY SMT, joined = FALSE, alive = 0, refs = 1
  <2>2. /\ fLink \in BOOLEAN /\ walking \in BOOLEAN
        /\ returned \in BOOLEAN /\ joined \in BOOLEAN
    BY Zenon
  <2>3. /\ toFind \in 0..Files /\ chan \in 0..ChanCap /\ scanned \in 0..Files
        /\ skipped \in 0..Files /\ spawned \in 0..Helpers
        /\ alive \in 0..spawned /\ idled \in 0..(spawned - alive)
    BY SMT
  <2> QED BY <2>1, <2>2, <2>3 DEF FullScanTypeOK
<1>2. Accounted /\ Patience
  BY SMT DEF Accounted, Patience
<1> QED BY <1>1, <1>2 DEF FullInv, Receivers

\* The job thread.
LEMMA WalkKeeps == ASSUME FullInv, WalkSends \/ WalkEnds PROVE FullInv'
<1> USE FullScanAssumption
    DEF FullInv, FullScanTypeOK, Accounted, Patience, Disconnected, Receivers
<1>1. CASE WalkSends /\ Receivers
  BY SMT, <1>1 DEF WalkSends
<1>2. CASE WalkSends /\ ~Receivers
  BY SMT, <1>2 DEF WalkSends
<1>3. CASE WalkEnds
  BY <1>3 DEF WalkEnds
<1> QED BY <1>1, <1>2, <1>3

\* FullScan and work.
LEMMA WorkKeeps ==
    ASSUME FullInv, Spawn \/ FullScanReturns \/ Joined PROVE FullInv'
<1> USE FullScanAssumption
    DEF FullInv, FullScanTypeOK, Accounted, Patience, Disconnected, Receivers
<1>1. CASE Spawn
  BY SMT, <1>1 DEF Spawn
<1>2. CASE FullScanReturns /\ alive > 0
  BY <1>2 DEF FullScanReturns, Discard
<1>3. CASE FullScanReturns /\ ~(alive > 0)
  BY SMT, <1>3 DEF FullScanReturns, Discard
<1>4. CASE Joined
  BY SMT, <1>4 DEF Joined
<1> QED BY <1>1, <1>2, <1>3, <1>4

\* The helpers.
LEMMA HelperKeeps ==
    ASSUME FullInv, HelperScans \/ HelperEnds \/ HelperIdles PROVE FullInv'
<1> USE FullScanAssumption
    DEF FullInv, FullScanTypeOK, Accounted, Patience, Disconnected, Receivers
<1>1. CASE HelperScans /\ alive' = alive
  BY SMT, <1>1 DEF HelperScans, Leave
<1>2. CASE HelperScans /\ alive' # alive
  <2>1. /\ ~fLink /\ Leave /\ alive > 0 /\ chan > 0
        /\ scanned' = scanned + 1 /\ UNCHANGED idled
        /\ IF returned /\ alive = 1
           THEN chan' = 0 /\ skipped' = skipped + chan - 1
           ELSE chan' = chan - 1 /\ UNCHANGED skipped
    BY <1>2 DEF HelperScans
  <2>2. CASE returned /\ alive = 1
    BY SMT, <2>1, <2>2 DEF Leave
  <2>3. CASE ~(returned /\ alive = 1)
    BY SMT, <2>1, <2>3 DEF Leave
  <2> QED BY <2>2, <2>3
<1>3. CASE HelperEnds
  BY SMT, <1>3 DEF HelperEnds, Leave
<1>4. CASE HelperIdles
  BY SMT, <1>4 DEF HelperIdles, Leave
<1> QED BY <1>1, <1>2, <1>3, <1>4

LEMMA FullInvNext == FullInv /\ [FullScanNext]_fullVars => FullInv'
<1> SUFFICES ASSUME FullInv, [FullScanNext]_fullVars PROVE FullInv'
  OBVIOUS
<1>1. CASE FullLinkBreaks
  BY <1>1 DEF FullLinkBreaks, FullInv, FullScanTypeOK, Accounted, Patience, Disconnected, Receivers
<1>2. CASE UNCHANGED fullVars
  BY <1>2 DEF fullVars, FullInv, FullScanTypeOK, Accounted, Patience, Disconnected, Receivers
<1> QED BY <1>1, <1>2, WalkKeeps, WorkKeeps, HelperKeeps DEF FullScanNext

LEMMA FullInvAlways == FullScanSpec => []FullInv
BY FullInvInit, FullInvNext, PTL DEF FullScanSpec

\* The engine is freed once, after the last scan (Clamav::clone and drop), and
\* the channel stays within its capacity, however many helpers scan.
THEOREM EngineCounted == FullScanSpec => []FullScanTypeOK
<1>1. FullInv => FullScanTypeOK
  BY DEF FullInv
<1> QED BY <1>1, FullInvAlways, PTL

\* Every file that the walk found has been scanned when work reports the end of
\* a full scan, unless every helper ran out of patience or the agent has gone.
THEOREM AllScanned == FullScanSpec => []FoundAreScanned
<1>1. FullInv => FoundAreScanned
  BY SMT, FullScanAssumption
  DEF FullInv, FoundAreScanned, FullScanTypeOK, Accounted, Patience, Disconnected, Receivers
<1> QED BY <1>1, FullInvAlways, PTL

-----------------------------------------------------------------------------
(* Scanner.                                                                *)

\* The inductive invariant; the types matter, since no version is called like one
\* of the marks of an archive that does not load.
ScannerInv == ScannerTypeOK /\ ReportedIsLoaded /\ LimitsRestored

Kinds == {"cron", "one", "mode", "full"}

LEMMA PushTyped ==
  ASSUME queue \in Seq(Kinds), Len(queue) <= QueueCap, NEW k \in Kinds, Push(k)
  PROVE  queue' \in Seq(Kinds) /\ Len(queue') <= QueueCap
  BY SMT, ScannerAssumption DEF Push

LEMMA ScannerInvInit == ScannerInit => ScannerInv
<1> SUFFICES ASSUME ScannerInit PROVE ScannerInv
  OBVIOUS
<1> USE ScannerAssumption DEF ScannerInit, ScannerStart
<1>1. honeypot \in BOOLEAN /\ asked \in BOOLEAN /\ ended \in BOOLEAN
  BY Zenon
<1>2. queue \in Seq({"cron", "one", "mode", "full"}) /\ Len(queue) <= QueueCap
  BY SMT
<1>3. monFd \in [Monitors -> BOOLEAN]
  BY Zenon
<1> QED BY <1>1, <1>2, <1>3 DEF ScannerInv, ScannerTypeOK, ReportedIsLoaded, LimitsRestored

\* recv_worker changes neither the database nor raises a limit.
LEMMA RecvWorkerKeeps == ASSUME ScannerInv, ~ended, RecvWorker PROVE ScannerInv'
<1> USE ScannerAssumption
    DEF ScannerInv, ScannerTypeOK, ReportedIsLoaded, LimitsRestored, dbVars, potVars
<1>0. queue \in Seq(Kinds)
  BY DEF Kinds
<1>1. CASE ReceiveFails
  <2>1. ended' \in BOOLEAN
    BY <1>1, Zenon DEF ReceiveFails
  <2> QED BY <1>1, <2>1 DEF ReceiveFails
<1>2. CASE ReceiveScan
  <2>1. queue' = queue \/ Push("one")
    BY <1>2 DEF ReceiveScan
  <2>2. queue' \in Seq(Kinds) /\ Len(queue') <= QueueCap
    BY <1>0, <2>1, PushTyped, "one" \in Kinds DEF Kinds
  <2>3. asked' \in BOOLEAN
    BY <1>2, Zenon DEF ReceiveScan
  <2> QED BY <1>2, <2>2, <2>3 DEF ReceiveScan, Kinds
<1>3. CASE ReceiveUpdate
  BY <1>3 DEF ReceiveUpdate
<1>4. CASE ReceiveMode
  <2>1. queue' = queue \/ Push("mode") \/ Push("full")
    BY <1>4 DEF ReceiveMode, PushFails
  <2>2. queue' \in Seq(Kinds) /\ Len(queue') <= QueueCap
    BY <1>0, <2>1, PushTyped DEF Kinds
  <2> QED BY <1>4, <2>2 DEF ReceiveMode, Kinds
<1>5. CASE HoneypotOn
  <2>1. honeypot' \in BOOLEAN /\ ended' \in BOOLEAN /\ monFd' \in [Monitors -> BOOLEAN]
    BY <1>5 DEF HoneypotOn
  <2> QED BY <1>5, <2>1 DEF HoneypotOn
<1>6. CASE HoneypotOff
  <2>1. honeypot' \in BOOLEAN /\ monFd' \in [Monitors -> BOOLEAN]
    BY <1>6, Zenon DEF HoneypotOff
  <2> QED BY <1>6, <2>1 DEF HoneypotOff
<1> QED BY <1>1, <1>2, <1>3, <1>4, <1>5, <1>6 DEF RecvWorker

LEMMA ThreadsKeep ==
  ASSUME ScannerInv, ~ended,
         \/ \E m \in Monitors : MonitorReads(m) \/ MonitorWaits(m) \/ MonitorSends(m)
         \/ \E c \in Crons : CronWaits(c) \/ CronSends(c)
         \/ AgentGone
  PROVE  ScannerInv'
<1> USE ScannerAssumption
    DEF ScannerInv, ScannerTypeOK, ReportedIsLoaded, LimitsRestored, dbVars, potVars
<1>0. queue \in Seq(Kinds) /\ "cron" \in Kinds
  BY DEF Kinds
<1>1. ASSUME NEW m \in Monitors, MonitorReads(m) \/ MonitorWaits(m) PROVE ScannerInv'
  BY <1>1 DEF MonitorReads, MonitorWaits
<1>2. ASSUME NEW m \in Monitors, MonitorSends(m) PROVE ScannerInv'
  <2>1. queue' = queue \/ Push("cron")
    BY <1>2 DEF MonitorSends, PushFails
  <2>2. queue' \in Seq(Kinds) /\ Len(queue') <= QueueCap
    BY <1>0, <2>1, PushTyped
  <2>3. ended' \in BOOLEAN /\ monFd' \in [Monitors -> BOOLEAN]
    BY <1>2 DEF MonitorSends, ReadAgain
  <2>4. monAt' \in [Monitors -> {"none", "read", "wait", "send"}]
    BY <1>2 DEF MonitorSends, ReadAgain
  <2> QED BY <1>2, <2>2, <2>3, <2>4 DEF MonitorSends, Kinds
<1>3. ASSUME NEW c \in Crons, CronWaits(c) PROVE ScannerInv'
  BY <1>3 DEF CronWaits
<1>4. ASSUME NEW c \in Crons, CronSends(c) PROVE ScannerInv'
  <2>1. queue' \in Seq(Kinds) /\ Len(queue') <= QueueCap
    BY <1>0, <1>4, PushTyped DEF CronSends
  <2> QED BY <1>4, <2>1 DEF CronSends, Kinds
<1>5. CASE AgentGone
  BY <1>5 DEF AgentGone
<1> QED BY <1>1, <1>2, <1>3, <1>4, <1>5

\* work: an update that reports a version the manager does not have leaves no
\* archive that loads, and ends the plugin.
LEMMA WorkKeepsVersion ==
  ASSUME ScannerInv, ~ended, TakeUpdate \/ TakeTask \/ FullScanEnds \/ WorkTimeout
  PROVE  ScannerInv'
<1> USE ScannerAssumption
    DEF ScannerInv, ScannerTypeOK, ReportedIsLoaded, LimitsRestored, dbVars, potVars
<1>1. CASE TakeUpdate
  <2>1. offer \in Versions
    BY <1>1 DEF TakeUpdate
  <2>2. CASE UNCHANGED <<engine, version, zip, told, ended>>
    BY <1>1, <2>2 DEF TakeUpdate
  <2>3. CASE Update(offer) /\ Report /\ ended' /\ UNCHANGED <<engine, told>>
    <3>1. ended' \in BOOLEAN
      BY <2>3, Zenon DEF Report
    <3>2. version' \in Versions /\ zip' \in Versions \cup {"alien", "wrong", "gone"}
      BY <2>1, <2>3 DEF Update
    <3> QED BY <1>1, <2>3, <3>1, <3>2 DEF TakeUpdate
  <2>4. CASE /\ Update(offer) /\ told' = offer
             /\ Loadable' /\ engine' = version' /\ UNCHANGED ended
    <3>1. version' = offer /\ zip' = offer
      BY <2>1, <2>4 DEF Update, Loadable
    <3> QED BY <1>1, <2>1, <2>4, <3>1 DEF TakeUpdate
  <2>5. CASE /\ Update(offer) /\ told' = offer
             /\ engine' = "none" /\ ended' = TRUE
    <3>1. version' \in Versions /\ zip' \in Versions \cup {"alien", "wrong", "gone"}
      BY <2>1, <2>5 DEF Update
    <3> QED BY <1>1, <2>1, <2>5, <3>1 DEF TakeUpdate
  <2> QED BY <1>1, <2>2, <2>3, <2>4, <2>5 DEF TakeUpdate
<1>2. CASE TakeTask
  <2>1. /\ queue' \in Seq({"cron", "one", "mode", "full"}) /\ Len(queue') <= QueueCap
        /\ Head(queue) \in {"cron", "one", "mode", "full"}
    BY SMT, <1>2 DEF TakeTask
  <2>2. ended' \in BOOLEAN /\ asked' \in BOOLEAN
    BY <1>2 DEF TakeTask, Perform, Report
  <2>3. /\ workAt' \in {"select", "full"} /\ cgroup' \in {"small", "big"}
        /\ cgroup' = "big" => workAt' = "full"
    BY <1>2 DEF TakeTask, Perform
  <2>4. ended' \/ engine' \in {"none", version}
    BY <1>2 DEF TakeTask
  <2>5. engine' \in Versions \cup {"none"}
    BY <1>2 DEF TakeTask
  <2> QED BY <1>2, <2>1, <2>2, <2>3, <2>4, <2>5 DEF TakeTask
<1>3. CASE FullScanEnds
  BY <1>3 DEF FullScanEnds
<1>4. CASE WorkTimeout
  BY <1>4 DEF WorkTimeout
<1> QED BY <1>1, <1>2, <1>3, <1>4

LEMMA ScannerInvNext == ScannerInv /\ [ScannerNext]_scannerVars => ScannerInv'
<1> SUFFICES ASSUME ScannerInv, [ScannerNext]_scannerVars PROVE ScannerInv'
  OBVIOUS
<1>1. CASE UNCHANGED scannerVars
  BY SMT, <1>1 DEF scannerVars, ScannerInv, ScannerTypeOK, ReportedIsLoaded, LimitsRestored
<1> QED BY <1>1, RecvWorkerKeeps, ThreadsKeep, WorkKeepsVersion DEF ScannerNext

LEMMA ScannerInvAlways == ScannerSpec => []ScannerInv
  BY ScannerInvInit, ScannerInvNext, PTL DEF ScannerSpec

\* As long as the plugin runs, the version of the database it has reported is the one
\* it holds and scans with, although a failed update is reported like one that worked.
THEOREM ReportsAreTrue == ScannerSpec => []ReportedIsLoaded
<1>1. ScannerInv => ReportedIsLoaded
  BY DEF ScannerInv
<1> QED BY <1>1, ScannerInvAlways, PTL

\* The larger limits of a full scan end with it, however recv_worker and work change them.
THEOREM LimitsAreRestored == ScannerSpec => []LimitsRestored
<1>1. ScannerInv => LimitsRestored
  BY DEF ScannerInv
<1> QED BY <1>1, ScannerInvAlways, PTL

\* The task channel stays within its capacity, whichever thread looked at its length
\* before it sent.
THEOREM ScannerTypeCorrect == ScannerSpec => []ScannerTypeOK
<1>1. ScannerInv => ScannerTypeOK
  BY DEF ScannerInv
<1> QED BY <1>1, ScannerInvAlways, PTL
=============================================================================
