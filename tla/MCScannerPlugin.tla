-------------------------- MODULE MCScannerPlugin --------------------------
(***************************************************************************)
(* The scanner plugin for TLC, with the library under it: a behaviour is   *)
(* one of the client, of the logger, of the detector or of a full scan,    *)
(* while the other three are over.                                         *)
(***************************************************************************)
EXTENDS PluginClient, PluginLogger, Scanner, FullScan, TLC

CONSTANTS job_dir, job_proc

\* job_dir waits for a lower channel than job_proc.
WaterOfCrons == (job_dir :> 0) @@ (job_proc :> 1)

pluginVars == <<clientVars, loggerVars, scannerVars, fullVars>>

-----------------------------------------------------------------------------
(* States in which a part has no action left.                              *)

ClientOff ==
    /\ lock = Free /\ pc = [t \in Threads |-> "ended"]
    /\ nr = [s \in Senders |-> 0] /\ left = [t \in Threads |-> 0]
    /\ half = [t \in Threads |-> FALSE]
    /\ fill = 0 /\ log = <<>> /\ out = 0 /\ got = 0
    /\ fds = "reused" /\ agent = FALSE

LoggerOff == LoggerStart /\ file = FALSE /\ kills = MaxKills

ScannerOff == ScannerStart /\ zip = version /\ ended = TRUE

FullScanOff ==
    /\ fLink = FALSE /\ toFind = 0 /\ walking = FALSE /\ chan = 0
    /\ spawned = Helpers /\ returned = TRUE /\ alive = 0
    /\ idled = 0 /\ scanned = Files /\ skipped = 0
    /\ refs = 0 /\ joined = TRUE

-----------------------------------------------------------------------------
PluginInit ==
    \/ ClientInit /\ LoggerOff /\ ScannerOff /\ FullScanOff
    \/ ClientOff /\ LoggerInit /\ ScannerOff /\ FullScanOff
    \/ ClientOff /\ LoggerOff /\ ScannerInit /\ FullScanOff
    \/ ClientOff /\ LoggerOff /\ ScannerOff /\ FullScanInit

PluginNext ==
    \/ ClientNext /\ UNCHANGED <<loggerVars, scannerVars, fullVars>>
    \/ LoggerNext /\ UNCHANGED <<clientVars, scannerVars, fullVars>>
    \/ ScannerNext /\ UNCHANGED <<clientVars, loggerVars, fullVars>>
    \/ FullScanNext /\ UNCHANGED <<clientVars, loggerVars, scannerVars>>

PluginSpec ==
    /\ PluginInit /\ [][PluginNext]_pluginVars
    /\ ClientFairness /\ ScannerFairness /\ FullScanFairness
=============================================================================
