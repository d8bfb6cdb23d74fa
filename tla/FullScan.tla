------------------------------ MODULE FullScan ------------------------------
(***************************************************************************)
(* A full scan of the scanner plugin (fulldiskscan.rs, and the arm 6057 of *)
(* Detector::work, which waits for it).  A job thread walks /proc and the  *)
(* disk and sends what it finds into a bounded channel; helpers, started   *)
(* one after the other, scan with clones of one engine.  The ends of the   *)
(* channel that FullScan itself holds are dropped when it returns.         *)
(***************************************************************************)
EXTENDS Naturals

CONSTANTS
    Helpers,    \* worker_count
    ChanCap,    \* capacity of the channel, 64
    Files       \* bound: files the walk finds

ASSUME FullScanAssumption ==
    Helpers \in Nat \ {0} /\ ChanCap \in Nat \ {0} /\ Files \in Nat

VARIABLES
    fLink,      \* the pipe to the agent is not broken
    toFind,     \* files the walk has still to find
    walking,    \* the job thread has not ended
    chan,       \* tasks in the channel
    spawned,    \* helpers started
    returned,   \* FullScan has returned to work
    alive,      \* helpers that run
    idled,      \* history: helpers that left after 30 idle seconds
    scanned,    \* history: tasks that were scanned
    skipped,    \* history: tasks that no helper will scan
    refs,       \* references to the engine
    joined      \* work has joined all threads and dropped the engine

fullVars == <<fLink, toFind, walking, chan, spawned, returned, alive, idled, scanned,
              skipped, refs, joined>>

\* A channel is closed for one side when the other side's ends are dropped.
Receivers == ~returned \/ alive > 0
Disconnected == ~walking /\ returned

-----------------------------------------------------------------------------
(* The job thread.                                                         *)

\* send blocks while the channel is full and fails, which is only logged, when
\* there is no receiver.
WalkSends ==
    /\ walking /\ toFind > 0
    /\ \/ Receivers /\ chan < ChanCap /\ chan' = chan + 1 /\ UNCHANGED skipped
       \/ ~Receivers /\ skipped' = skipped + 1 /\ UNCHANGED chan
    /\ toFind' = toFind - 1
    /\ UNCHANGED <<fLink, walking, spawned, returned, alive, idled, scanned, refs, joined>>

\* The walk is over, or it breaks off at a directory it cannot read.
WalkEnds ==
    /\ walking
    /\ walking' = FALSE
    /\ UNCHANGED <<fLink, toFind, chan, spawned, returned, alive, idled, scanned, skipped,
                   refs, joined>>

-----------------------------------------------------------------------------
(* FullScan and work.                                                      *)

\* A helper is started: the engine is cloned for it, and again in it.
Spawn ==
    /\ spawned < Helpers
    /\ spawned' = spawned + 1 /\ alive' = alive + 1 /\ refs' = refs + 2
    /\ UNCHANGED <<fLink, toFind, walking, chan, returned, idled, scanned, skipped, joined>>

\* When the last receiver is dropped, so is what is in the channel.
Discard(receivers) ==
    IF receivers THEN UNCHANGED <<chan, skipped>>
                 ELSE chan' = 0 /\ skipped' = skipped + chan

\* Fault: the receiver is kept by work, to be dropped after the join.
ReturnKeeping ==
    /\ spawned = Helpers /\ ~returned /\ ~walking /\ alive = 0
    /\ returned' = TRUE
    /\ Discard(FALSE)
    /\ UNCHANGED <<fLink, toFind, walking, spawned, alive, idled, scanned, refs, joined>>

FullScanReturns ==
    /\ spawned = Helpers /\ ~returned
    /\ returned' = TRUE
    /\ Discard(alive > 0)
    /\ UNCHANGED <<fLink, toFind, walking, spawned, alive, idled, scanned, refs, joined>>

\* work joins the job thread and the helpers and drops its Scanner.
Joined ==
    /\ returned /\ ~walking /\ alive = 0 /\ ~joined
    /\ joined' = TRUE /\ refs' = refs - 1
    /\ UNCHANGED <<fLink, toFind, walking, chan, spawned, returned, alive, idled, scanned,
                   skipped>>

-----------------------------------------------------------------------------
(* SuperDetector::work, in each helper.                                    *)

\* A helper that leaves drops its receiver and both its clones.
Leave ==
    /\ alive' = alive - 1 /\ refs' = refs - 2
    /\ UNCHANGED <<fLink, toFind, walking, spawned, returned, joined>>

\* A task.  A detection that cannot be sent ends the helper.
HelperScans ==
    /\ alive > 0 /\ chan > 0
    /\ scanned' = scanned + 1
    /\ \/ chan' = chan - 1
          /\ UNCHANGED <<fLink, toFind, walking, spawned, returned, joined, alive, refs,
                         skipped>>
       \/ /\ ~fLink /\ Leave
          /\ IF returned /\ alive = 1
             THEN chan' = 0 /\ skipped' = skipped + chan - 1
             ELSE chan' = chan - 1 /\ UNCHANGED skipped
    /\ UNCHANGED idled

\* Fault: a helper leaves as soon as the job thread has ended.
HelperEndsEarly ==
    /\ alive > 0 /\ Disconnected
    /\ Leave /\ Discard(alive > 1)
    /\ UNCHANGED <<idled, scanned>>

\* The channel is empty and closed.
HelperEnds ==
    /\ alive > 0 /\ chan = 0 /\ Disconnected
    /\ Leave
    /\ UNCHANGED <<chan, idled, scanned, skipped>>

\* The channel has been empty for 30 seconds.
HelperIdles ==
    /\ alive > 0 /\ chan = 0 /\ ~Disconnected
    /\ Leave /\ idled' = idled + 1
    /\ UNCHANGED <<chan, scanned, skipped>>

FullLinkBreaks ==
    /\ fLink
    /\ fLink' = FALSE
    /\ UNCHANGED <<toFind, walking, chan, spawned, returned, alive, idled, scanned, skipped,
                   refs, joined>>

-----------------------------------------------------------------------------
FullScanInit ==
    /\ fLink = TRUE /\ toFind = Files /\ walking = TRUE /\ chan = 0
    /\ spawned = 0 /\ returned = FALSE /\ alive = 0
    /\ idled = 0 /\ scanned = 0 /\ skipped = 0
    /\ refs = 1 /\ joined = FALSE

FullScanNext ==
    \/ WalkSends \/ WalkEnds \/ Spawn \/ FullScanReturns \/ Joined
    \/ HelperScans \/ HelperEnds \/ HelperIdles \/ FullLinkBreaks

FullScanSpec == FullScanInit /\ [][FullScanNext]_fullVars

\* The threads are scheduled; the walk is finite.
FullScanFairness ==
    /\ WF_fullVars(WalkSends \/ WalkEnds)
    /\ WF_fullVars(Spawn \/ FullScanReturns \/ Joined)
    /\ WF_fullVars(HelperScans \/ HelperEnds)

-----------------------------------------------------------------------------
(* Properties.                                                             *)

\* Type correctness; the reference count of the engine is 1 for work's Scanner
\* and 2 for every helper, so that it is freed once, after the last scan.
FullScanTypeOK ==
    /\ fLink \in BOOLEAN /\ walking \in BOOLEAN /\ returned \in BOOLEAN /\ joined \in BOOLEAN
    /\ toFind \in 0..Files /\ chan \in 0..ChanCap /\ scanned \in 0..Files
    /\ skipped \in 0..Files /\ spawned \in 0..Helpers
    /\ alive \in 0..spawned /\ idled \in 0..(spawned - alive)
    /\ refs = (IF joined THEN 0 ELSE 1) + 2 * alive

\* Every file the walk found is scanned when work reports the end of the full
\* scan, as long as the agent can be reached and one helper did not run out
\* of patience: one that meets the closed channel empties it first.
FoundAreScanned ==
    joined /\ fLink /\ idled < Helpers => scanned = Files - toFind

\* work, which takes no other task meanwhile, gets the full scan joined, also
\* if every helper leaves while the job thread waits for a place in the
\* channel.
FullScanJoins == <>joined
=============================================================================
