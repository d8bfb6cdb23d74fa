---------------------------- MODULE PluginLogger ----------------------------
(***************************************************************************)
(* The logger of the plugin library (plugins/lib/rust/src/logger.rs): a    *)
(* log file that is renamed when a line would make it too long, and a      *)
(* thread, the mill, that removes the oldest backups and compresses the    *)
(* others.  The mill is woken through a channel with one place.            *)
(*                                                                         *)
(* A line has size 1, so that a rotation, which only a file that has grown *)
(* needs, finds the file open.  Backups are numbered in the order of the   *)
(* time in their names.  The plugin may be killed and started again at any *)
(* step of the mill; what is on disk stays.                                *)
(***************************************************************************)
EXTENDS Naturals, FiniteSets

CONSTANTS
    MaxSize,     \* Config.max_size
    MaxBackups,  \* Config.max_backups; compress is set by every plugin
    MaxRotates,  \* bound: rotations
    MaxKills     \* bound: restarts of the plugin

ASSUME LoggerAssumption == MaxBackups \in Nat

VARIABLES
    length,      \* disk: lines in the log file
    plain,       \* disk: backups that exist uncompressed
    gz,          \* disk: backups with a .gz file -> it is "whole" or "cut"
    file,        \* the log file is open
    size,        \* Logger.size
    signal,      \* a message is in the channel to the mill
    millPc,      \* what the mill does
    doomed,      \* files of the listing that are to be removed
    tozip,       \* backups of the listing that are to be compressed
    rotated,     \* number of rotations; the next backup has number rotated + 1
    made,        \* history: backups made
    kills,       \* number of restarts
    idleSince,   \* history: rotations before the last restart
    interrupted  \* history: backups whose compression a kill interrupted

diskVars == <<length, plain, gz>>
millVars == <<millPc, doomed, tozip>>
historyVars == <<kills, idleSince, interrupted>>
loggerVars == <<length, plain, gz, file, size, signal, millPc, doomed, tozip,
                rotated, made, kills, idleSince, interrupted>>

\* Files the mill recognises: the time stamp with or without .gz.
Listing == [nr : plain, gz : {FALSE}] \cup [nr : DOMAIN gz, gz : {TRUE}]

\* mill(): try_send, which leaves a message that is there.
Signal == signal' = TRUE

\* rotate(), under the locks of file and size.  If the rename or the open
\* fails, the file is None from then on.
Rotate ==
    /\ rotated < MaxRotates
    /\ rotated' = rotated + 1
    /\ \/ file' = FALSE /\ UNCHANGED plain
       \/ plain' = plain \cup {rotated + 1} /\ file' \in BOOLEAN
    /\ made' = made \cup plain'
    /\ Signal

\* log(), for a line of a level the file takes.  The file is empty after a
\* rotation that opened it; without a file nothing is written.
Log ==
    /\ IF size + 1 > MaxSize
       THEN /\ Rotate
            /\ length' = IF file' THEN 1 ELSE IF plain' # plain THEN 0 ELSE length
            /\ size' = IF file' THEN 1 ELSE 0
       ELSE /\ file
            /\ length' = length + 1 /\ size' = size + 1
            /\ UNCHANGED <<plain, file, signal, rotated, made>>
    /\ UNCHANGED <<gz, millVars, historyVars>>

-----------------------------------------------------------------------------
(* The mill.                                                               *)

MillRecv ==
    /\ millPc = "recv" /\ signal
    /\ signal' = FALSE
    /\ millPc' = "list"
    /\ UNCHANGED <<diskVars, file, size, doomed, tozip, rotated, made, historyVars>>

\* Fault: the listing is sorted the other way round.
Newest(d) ==
    /\ Cardinality(d) = IF Cardinality(Listing) > MaxBackups
                        THEN Cardinality(Listing) - MaxBackups ELSE 0
    /\ \A f \in d, g \in Listing \ d : f.nr >= g.nr

\* d is what is before the last MaxBackups files of the sorted listing: the
\* sort leaves files of the same time in the order of the directory.
Oldest(d) ==
    /\ Cardinality(d) = IF Cardinality(Listing) > MaxBackups
                        THEN Cardinality(Listing) - MaxBackups ELSE 0
    /\ \A f \in d, g \in Listing \ d : f.nr <= g.nr

\* read_dir and sort.
MillList ==
    /\ millPc = "list"
    /\ \E d \in SUBSET Listing : Oldest(d) /\ doomed' = d
    /\ tozip' = plain
    /\ millPc' = "remove"
    /\ UNCHANGED <<diskVars, file, size, signal, rotated, made, historyVars>>

\* remove_file of the next file, oldest first; then the compression begins.
MillRemove ==
    /\ millPc = "remove"
    /\ IF doomed = {}
       THEN millPc' = "zip" /\ UNCHANGED <<plain, gz, doomed>>
       ELSE \E f \in doomed :
              /\ \A g \in doomed : f.nr <= g.nr
              /\ doomed' = doomed \ {f}
              /\ plain' = IF f.gz THEN plain ELSE plain \ {f.nr}
              /\ gz' = IF f.gz THEN [n \in DOMAIN gz \ {f.nr} |-> gz[n]] ELSE gz
              /\ UNCHANGED millPc
    /\ UNCHANGED <<length, file, size, signal, tozip, rotated, made, historyVars>>

\* The next backup is opened and read and its .gz file created, empty; a
\* backup that was removed is passed over.
MillZip ==
    /\ millPc = "zip"
    /\ IF tozip = {}
       THEN millPc' = "recv" /\ UNCHANGED <<gz, tozip>>
       ELSE LET n == CHOOSE n \in tozip : \A m \in tozip : n <= m IN
            IF n \in plain
            THEN /\ gz' = [m \in DOMAIN gz \cup {n} |->
                              IF m = n THEN "cut" ELSE gz[m]]
                 /\ millPc' = "write"
                 /\ UNCHANGED tozip
            ELSE tozip' = tozip \ {n} /\ UNCHANGED <<gz, millPc>>
    /\ UNCHANGED <<length, plain, file, size, signal, doomed, rotated, made, historyVars>>

\* The compressed content is written, then the backup is removed.
MillWrite ==
    /\ millPc = "write"
    /\ LET n == CHOOSE n \in tozip : \A m \in tozip : n <= m IN
         IF gz[n] = "cut"
         THEN gz' = [gz EXCEPT ![n] = "whole"] /\ UNCHANGED <<plain, tozip, millPc>>
         ELSE /\ plain' = plain \ {n} /\ tozip' = tozip \ {n}
              /\ millPc' = "zip" /\ UNCHANGED gz
    /\ UNCHANGED <<length, file, size, signal, doomed, rotated, made, historyVars>>

-----------------------------------------------------------------------------
\* The plugin is killed and started again: Logger::new opens the file to
\* append and takes its size from the disk.
Restart ==
    /\ kills < MaxKills
    /\ kills' = kills + 1
    /\ file' \in BOOLEAN
    /\ size' = IF file' THEN length ELSE 0
    /\ signal' = FALSE
    /\ millPc' = "recv" /\ doomed' = {} /\ tozip' = {}
    /\ idleSince' = rotated
    /\ interrupted' = interrupted \cup {n \in DOMAIN gz : gz[n] = "cut"}
    /\ UNCHANGED <<diskVars, rotated, made>>

LoggerStart ==
    /\ length = 0 /\ plain = {} /\ gz = << >>
    /\ size = 0
    /\ signal = FALSE
    /\ millPc = "recv" /\ doomed = {} /\ tozip = {}
    /\ rotated = 0 /\ made = {} /\ idleSince = 0 /\ interrupted = {}
LoggerInit == LoggerStart /\ file \in BOOLEAN /\ kills = 0

LoggerNext ==
    \/ Log
    \/ MillRecv \/ MillList \/ MillRemove \/ MillZip \/ MillWrite
    \/ Restart

LoggerSpec == LoggerInit /\ [][LoggerNext]_loggerVars

-----------------------------------------------------------------------------
(* Properties.                                                             *)

Kept == plain \cup DOMAIN gz

\* What is kept of the log.  Backups go in the order of their age: none is removed
\* while an older one is kept.  When the mill waits and its channel is empty, no more
\* than max_backups files are left, unless the plugin was restarted and has not
\* rotated its file since.  A backup that is kept is whole, compressed or not,
\* unless a kill interrupted its compression: then the next pass may remove the
\* original and leave the .gz file that was cut.
BackupsKept ==
    /\ \A n \in Kept, m \in made \ Kept : m < n
    /\ millPc = "recv" /\ ~signal /\ rotated > idleSince => Cardinality(Listing) <= MaxBackups
    /\ \A n \in Kept \ interrupted : n \in plain \/ gz[n] = "whole"
=============================================================================
