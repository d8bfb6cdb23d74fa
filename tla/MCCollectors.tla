---------------------------- MODULE MCCollectors ----------------------------
(***************************************************************************)
(* The two plugins that collect events, the order in which records reach   *)
(* the driver plugin and the way of one record to the agent, for TLC.  A   *)
(* behaviour is one of the driver plugin's threads, of the journal         *)
(* watcher, of the record's process or of the record's bytes; the others   *)
(* have ended or have not started.                                         *)
(***************************************************************************)
EXTENDS Driver, JournalWatcher, RecordCodec, TraceReader

\* The behaviour is one of the record's process.
VARIABLE traced

\* No action of the driver plugin is enabled.
DriverOff ==
    kmod = "none" /\ allowlist = {} /\ ring = <<>> /\ starts = MaxStarts /\ NoProcess

\* No action of the journal watcher is enabled.
JournalOff ==
    /\ link = "gone" /\ recvPc = "ended" /\ sendPc = "ended" /\ jLock = "free"
    /\ slot = "none" /\ child = "none" /\ source = "journal"

\* A frame has been written to a pipe whose reader is gone.
CodecOff ==
    /\ record = [type |-> 700, time |-> 1, first |-> 1, last |-> 1] /\ turn = 2
    /\ dst = Empty /\ wire = <<>> /\ rest = <<>> /\ got = NoneGot

CollectorsInit ==
    /\ traced \in BOOLEAN
    /\ TraceInit
    /\ \/ ~traced /\ DriverInit /\ JournalOff /\ CodecOff
       \/ ~traced /\ JournalInit /\ DriverOff /\ CodecOff
       \/ ~traced /\ CodecInit /\ DriverOff /\ JournalOff
       \/ traced /\ CodecOff /\ DriverOff /\ JournalOff

CollectorsNext ==
    /\ UNCHANGED traced
    /\ \/ DriverNext /\ UNCHANGED <<journalVars, codecVars, traceVars>>
       \/ JournalNext /\ UNCHANGED <<driverVars, codecVars, traceVars>>
       \/ CodecNext /\ UNCHANGED <<driverVars, journalVars, traceVars>>
       \/ traced /\ TraceNext /\ UNCHANGED <<driverVars, journalVars, codecVars>>

CollectorsSpec ==
    /\ CollectorsInit
    /\ [][CollectorsNext]_<<traced, driverVars, journalVars, codecVars, traceVars>>
    /\ DriverFairness /\ JournalFairness

\* The types; table, rings and reads stay within their limits, and the lock of
\* the journal watcher is held exactly while send_record sleeps.
CollectorsTypeOK == DriverTypeOK /\ JournalTypeOK /\ TraceTypeOK
=============================================================================
