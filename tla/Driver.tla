------------------------------- MODULE Driver -------------------------------
(***************************************************************************)
(* The driver plugin (plugins/driver/src): the kernel module it loads, the *)
(* record_send thread that reads the module's ring and counts records per  *)
(* executable, the list of executables it asks the module to leave out for *)
(* ten minutes, and the ttl_filters and heartbeat threads that share that  *)
(* list.  control() writes to the module behind one Mutex, the list is     *)
(* behind another.                                                         *)
(*                                                                         *)
(* The table of filtered argv is left out: transform() looks a command     *)
(* line up in argv_filter but inserts it into exe_filter, so argv_filter   *)
(* stays empty and add_filtered_argv is never called.  What is left of it  *)
(* is that a command line that is just the path of its executable replaces *)
(* the counter of the executable.  The fixed whitelists are empty in       *)
(* config.rs.                                                              *)
(***************************************************************************)
EXTENDS Naturals, Sequences, FiniteSets

CONSTANTS
    Exes,       \* executables outside /bin, /sbin, /usr/bin and /usr/sbin
    Uncounted,  \* a record that no quota applies to
    Limit,      \* 128: of the table, and ALLOWLIST_LIMIT in the kernel module
    Quota,      \* EXE_FILTER_QUOTA
    RingCap,    \* records the ring holds
    MaxStarts   \* bound: starts of the plugin

ASSUME DriverAssumption ==
    /\ "none" \notin Exes /\ Uncounted \notin Exes
    /\ Limit \in Nat /\ Quota \in Nat \ {0} /\ RingCap \in Nat \ {0}

VARIABLES
    kmod,       \* the loaded kernel module: "none", "old" or "latest"
    allowlist,  \* its execve_exe_allowlist
    ring,       \* its records that are not read yet
    starts,     \* how often the plugin was started
    up,         \* the process runs
    pipe,       \* the pipes to the agent work
    control,    \* AtomicBool: receive failed
    controler,  \* Kmod.controler is Some
    cLock,      \* thread that holds the Mutex of controler
    eLock,      \* thread that holds the Mutex of filtered_exe_entries
    entries,    \* filtered_exe_entries
    exeFilter,  \* Transformer.exe_filter: a count, 0 where there is no entry
    recordPc,   \* record_send
    adding,     \* argument of its call of add_filtered_exe
    ttlPc,      \* ttl_filters
    popped,     \* the entry ttl_filters has popped
    beats       \* heartbeat runs

kernelVars == <<kmod, allowlist, ring>>
lockVars == <<controler, cLock, eLock>>
sendVars == <<exeFilter, recordPc, adding>>
ttlVars == <<ttlPc, popped>>
driverVars == <<kmod, allowlist, ring, starts, up, pipe, control, controler,
                cLock, eLock, entries, exeFilter, recordPc, adding, ttlPc,
                popped, beats>>

None == "none"
Records == Exes \cup {Uncounted}

-----------------------------------------------------------------------------
(* The kernel module.                                                      *)

\* A hook writes a record, unless its executable is on the allowlist; in a full
\* ring it overwrites the oldest one.
Hook(r) ==
    /\ kmod = "latest"
    /\ r \notin allowlist
    /\ ring' = Append(IF Len(ring) < RingCap THEN ring ELSE Tail(ring), r)
    /\ UNCHANGED <<kmod, allowlist, starts, up, pipe, control, lockVars,
                   entries, sendVars, ttlVars, beats>>

\* device_write with ADD_EXECVE_EXE_ALLOWLIST: refused above the limit.
AddExecveExe(list, e) ==
    IF Cardinality(list) > Limit THEN list ELSE list \cup {e}

-----------------------------------------------------------------------------
(* Start and end of the plugin.                                            *)

\* Fault: install() leaves the lists of the latest module as they are.
StartUncleared ==
    /\ ~up /\ starts < MaxStarts
    /\ starts' = starts + 1
    /\ up' = TRUE /\ pipe' = TRUE /\ control' = FALSE
    /\ kmod' = "latest"
    /\ allowlist' = IF kmod = "latest" THEN allowlist ELSE {}
    /\ ring' = IF kmod = "latest" THEN ring ELSE <<>>
    /\ controler' = TRUE /\ cLock' = None /\ eLock' = None
    /\ entries' = <<>>
    /\ exeFilter' = [e \in Exes |-> 0]
    /\ recordPc' = "read" /\ adding' = None
    /\ ttlPc' = "sleep" /\ popped' = None
    /\ beats' = TRUE

\* Kmod::new succeeds.  install() empties the lists of a module that is the
\* latest; it unloads an older one and loads the latest.
Start ==
    /\ ~up /\ starts < MaxStarts
    /\ starts' = starts + 1
    /\ up' = TRUE /\ pipe' = TRUE /\ control' = FALSE
    /\ kmod' = "latest" /\ allowlist' = {}
    /\ ring' = IF kmod = "latest" THEN ring ELSE <<>>
    /\ controler' = TRUE /\ cLock' = None /\ eLock' = None
    /\ entries' = <<>>
    /\ exeFilter' = [e \in Exes |-> 0]
    /\ recordPc' = "read" /\ adding' = None
    /\ ttlPc' = "sleep" /\ popped' = None
    /\ beats' = TRUE

\* Kmod::new fails and main returns: a recent crash dump, a module that
\* cannot be unloaded or loaded, or a control file that cannot be opened,
\* after which the module that install() loaded is unloaded again.
StartFails ==
    /\ ~up /\ starts < MaxStarts
    /\ starts' = starts + 1
    /\ \/ UNCHANGED kernelVars
       \/ kmod' = "none" /\ allowlist' = {} /\ ring' = <<>>
    /\ UNCHANGED <<up, pipe, control, lockVars, entries, sendVars, ttlVars, beats>>

\* The process is gone, with its threads and its locks.
Gone ==
    /\ up' = FALSE /\ control' = FALSE
    /\ controler' = FALSE /\ cLock' = None /\ eLock' = None
    /\ entries' = <<>> /\ exeFilter' = [e \in Exes |-> 0]
    /\ recordPc' = "ended" /\ adding' = None
    /\ ttlPc' = "sleep" /\ popped' = None
    /\ beats' = FALSE

\* The agent kills the plugin: no destructor runs.
Kill ==
    /\ up /\ ~pipe
    /\ Gone
    /\ UNCHANGED <<kernelVars, starts, pipe>>

\* Drop of Kmod when record_send ends.  If delete_module and rmmod fail the
\* module stays loaded.
DropKmod ==
    /\ recordPc = "drop" /\ cLock = None
    /\ controler' = FALSE
    /\ \/ kmod' = "none" /\ allowlist' = {} /\ ring' = <<>>
       \/ UNCHANGED kernelVars
    /\ recordPc' = "ended"
    /\ UNCHANGED <<starts, up, pipe, control, cLock, eLock, entries, exeFilter,
                   adding, ttlVars, beats>>

\* main returns once it has joined record_send.
Exit ==
    /\ up /\ recordPc = "ended"
    /\ Gone
    /\ UNCHANGED <<kernelVars, starts, pipe>>

\* The agent closes its ends, or SIGTERM makes the client close the plugin's.
PipeBreaks ==
    /\ up /\ pipe
    /\ pipe' = FALSE
    /\ UNCHANGED <<kernelVars, starts, up, control, lockVars, entries,
                   sendVars, ttlVars, beats>>

\* task_receive: receive fails, the thread sets the flag and returns.
TaskReceive ==
    /\ up /\ ~pipe /\ ~control
    /\ control' = TRUE
    /\ UNCHANGED <<kernelVars, starts, up, pipe, lockVars, entries, sendVars,
                   ttlVars, beats>>

-----------------------------------------------------------------------------
(* record_send.                                                            *)

\* transform() for a record of executable e, as far as exe_filter is
\* concerned.  An execve whose command line is just the path finds no entry
\* in argv_filter, and inserts one into exe_filter: the counter starts anew.
Transform(e) ==
    LET n == exeFilter[e]
        counted == IF n > Quota THEN 2 ELSE n + 1
    IN /\ \E m \in {counted, 1} : exeFilter' = [exeFilter EXCEPT ![e] = m]
       /\ IF n > Quota
          THEN recordPc' = "lockControler" /\ adding' = e
          ELSE recordPc' = "write" /\ UNCHANGED adding

\* The next record.  The flag is looked at only here and after a write: an
\* empty ring keeps the thread waiting.
ReadRecord ==
    /\ up /\ recordPc = "read" /\ ring # <<>>
    /\ ring' = Tail(ring)
    /\ CASE control -> recordPc' = "drop" /\ UNCHANGED <<exeFilter, adding>>
         [] ~control /\ Head(ring) = Uncounted ->
                recordPc' = "write" /\ UNCHANGED <<exeFilter, adding>>
         [] OTHER -> Transform(Head(ring))
    /\ UNCHANGED <<kmod, allowlist, starts, up, pipe, control, lockVars,
                   entries, ttlVars, beats>>

\* add_filtered_exe takes the lock of controler first ...
AddLockControler ==
    /\ recordPc = "lockControler" /\ cLock = None
    /\ cLock' = "record_send"
    /\ recordPc' = "lockEntries"
    /\ UNCHANGED <<kernelVars, starts, up, pipe, control, controler, eLock,
                   entries, exeFilter, adding, ttlVars, beats>>

\* Fault: the executable is added before the oldest one goes.
AddFilteredExeFirst ==
    /\ recordPc = "lockEntries" /\ eLock = None
    /\ LET full == Len(entries) > Limit
           kept == IF full THEN Tail(entries) ELSE entries
           list == AddExecveExe(allowlist, adding)
       IN /\ allowlist' = IF full THEN list \ {Head(entries).exe} ELSE list
          /\ entries' = Append(kept, [exe |-> adding, old |-> FALSE])
    /\ cLock' = None
    /\ recordPc' = "write" /\ adding' = None
    /\ UNCHANGED <<kmod, ring, starts, up, pipe, control, controler, eLock,
                   exeFilter, ttlVars, beats>>

\* ... then the lock of the table, makes room in both, and adds to both.
AddFilteredExe ==
    /\ recordPc = "lockEntries" /\ eLock = None
    /\ LET full == Len(entries) > Limit
           kept == IF full THEN Tail(entries) ELSE entries
           list == IF full THEN allowlist \ {Head(entries).exe} ELSE allowlist
       IN /\ allowlist' = AddExecveExe(list, adding)
          /\ entries' = Append(kept, [exe |-> adding, old |-> FALSE])
    /\ cLock' = None
    /\ recordPc' = "write" /\ adding' = None
    /\ UNCHANGED <<kmod, ring, starts, up, pipe, control, controler, eLock,
                   exeFilter, ttlVars, beats>>

\* The ring cannot be read: the thread returns.
ReadFails ==
    /\ up /\ recordPc = "read"
    /\ recordPc' = "drop"
    /\ UNCHANGED <<kernelVars, starts, up, pipe, control, lockVars, entries,
                   exeFilter, adding, ttlVars, beats>>

\* raw_write_all: on a broken pipe it fails as soon as the buffer is full.  A
\* record that could not be transformed is passed over, and the flag with it.
WriteRecord ==
    /\ recordPc = "write"
    /\ recordPc' \in IF pipe /\ ~control THEN {"read"} ELSE {"read", "drop"}
    /\ UNCHANGED <<kernelVars, starts, up, pipe, control, lockVars, entries,
                   exeFilter, adding, ttlVars, beats>>

\* A minute after its first record a counter is gone (an hour after, where
\* a command line has inserted it), or it makes room for a newer one when the
\* cache is full.
MinutePasses(e) ==
    /\ up /\ exeFilter[e] > 0
    /\ exeFilter' = [exeFilter EXCEPT ![e] = 0]
    /\ UNCHANGED <<kernelVars, starts, up, pipe, control, lockVars, entries,
                   recordPc, adding, ttlVars, beats>>

-----------------------------------------------------------------------------
(* ttl_filters and heartbeat.                                              *)

\* Ten minutes after it was added, an entry is old.
Age ==
    /\ \E i \in 1..Len(entries) :
         /\ ~entries[i].old
         /\ \A j \in 1..(i - 1) : entries[j].old
         /\ entries' = [entries EXCEPT ![i].old = TRUE]
    /\ UNCHANGED <<kernelVars, starts, up, pipe, control, lockVars, sendVars,
                   ttlVars, beats>>

\* Every five seconds ttl_filters takes the lock of the table ...
TtlLock ==
    /\ up /\ ttlPc = "sleep" /\ eLock = None
    /\ eLock' = "ttl_filters"
    /\ ttlPc' = "scan"
    /\ UNCHANGED <<kernelVars, starts, up, pipe, control, controler, cLock,
                   entries, sendVars, popped, beats>>

\* ... pops the entries that are old, and stops at the first that is not.
TtlScan ==
    /\ ttlPc = "scan"
    /\ IF entries # <<>> /\ Head(entries).old
       THEN /\ popped' = Head(entries).exe
            /\ entries' = Tail(entries)
            /\ ttlPc' = "lockControler"
            /\ UNCHANGED eLock
       ELSE /\ ttlPc' = "sleep" /\ eLock' = None
            /\ UNCHANGED <<entries, popped>>
    /\ UNCHANGED <<kernelVars, starts, up, pipe, control, controler, cLock,
                   sendVars, beats>>

\* Fault: the old entry is dropped, the module keeps it.
TtlRemoveForgotten ==
    /\ ttlPc = "lockControler" /\ cLock = None
    /\ popped' = None
    /\ ttlPc' = IF controler THEN "scan" ELSE "sleep"
    /\ eLock' = IF controler THEN eLock ELSE None
    /\ UNCHANGED <<kernelVars, starts, up, pipe, control, controler, cLock,
                   entries, sendVars, beats>>

\* With the table locked it takes the lock of controler, to remove the entry
\* from the module.  Without a controler the pass ends.
TtlRemove ==
    /\ ttlPc = "lockControler" /\ cLock = None
    /\ allowlist' = IF controler THEN allowlist \ {popped} ELSE allowlist
    /\ popped' = None
    /\ ttlPc' = IF controler THEN "scan" ELSE "sleep"
    /\ eLock' = IF controler THEN eLock ELSE None
    /\ UNCHANGED <<kmod, ring, starts, up, pipe, control, controler, cLock,
                   entries, sendVars, beats>>

\* Every thirty seconds heartbeat locks the table, makes a record of it and
\* unlocks it again, which changes nothing; the thread ends when the record
\* cannot be sent.
Heartbeat ==
    /\ up /\ beats /\ eLock = None /\ ~pipe
    /\ beats' = FALSE
    /\ UNCHANGED <<kernelVars, starts, up, pipe, control, lockVars, entries,
                   sendVars, ttlVars>>

-----------------------------------------------------------------------------
\* No process of the plugin.
NoProcess ==
    /\ up = FALSE /\ pipe = FALSE /\ control = FALSE
    /\ controler = FALSE /\ cLock = None /\ eLock = None
    /\ entries = <<>>
    /\ exeFilter = [e \in Exes |-> 0]
    /\ recordPc = "ended" /\ adding = None
    /\ ttlPc = "sleep" /\ popped = None
    /\ beats = FALSE

\* A module may be loaded, with whatever it was told.
DriverInit ==
    /\ kmod \in {"none", "old", "latest"}
    /\ allowlist \in IF kmod = "none" THEN {{}} ELSE SUBSET Exes
    /\ Cardinality(allowlist) <= Limit + 1
    /\ ring = <<>>
    /\ starts = 0
    /\ NoProcess

RecordSend ==
    ReadRecord \/ AddLockControler \/ AddFilteredExe \/ WriteRecord \/ DropKmod
TtlFilters == TtlLock \/ TtlScan \/ TtlRemove

DriverNext ==
    \/ \E r \in Records : Hook(r)
    \/ Start \/ StartFails \/ Kill \/ Exit \/ PipeBreaks
    \/ TaskReceive
    \/ RecordSend \/ ReadFails
    \/ \E e \in Exes : MinutePasses(e)
    \/ Age \/ TtlFilters
    \/ Heartbeat

DriverSpec == DriverInit /\ [][DriverNext]_driverVars

\* The threads are scheduled and time passes.
DriverFairness ==
    /\ SF_driverVars(RecordSend)
    /\ WF_driverVars(Age)
    /\ SF_driverVars(TtlFilters)

DriverFairSpec == DriverSpec /\ DriverFairness

-----------------------------------------------------------------------------
(* Properties.                                                             *)

\* The types; the table stays within its limit, whatever ages or is removed
\* while an entry is added, and only record_send holds the lock of controler
\* across a step.
DriverTypeOK ==
    /\ kmod \in {"none", "old", "latest"}
    /\ allowlist \subseteq Exes
    /\ ring \in Seq(Records) /\ Len(ring) <= RingCap
    /\ up \in BOOLEAN /\ pipe \in BOOLEAN /\ control \in BOOLEAN
    /\ controler \in BOOLEAN /\ beats \in BOOLEAN
    /\ cLock \in {None, "record_send"}
    /\ eLock \in {None, "ttl_filters"}
    /\ entries \in Seq([exe : Exes, old : BOOLEAN]) /\ Len(entries) <= Limit + 1
    /\ exeFilter \in [Exes -> 0..(Quota + 1)]
    /\ recordPc \in {"read", "lockControler", "lockEntries", "write", "drop", "ended"}
    /\ adding \in Exes \cup {None}
    /\ ttlPc \in {"sleep", "scan", "lockControler"}
    /\ popped \in Exes \cup {None}

\* No executable is left out for longer than it should be: whatever the
\* module filters is in the table, or is being removed, also after a killed
\* plugin has left its module loaded.
NothingForgotten ==
    up /\ controler =>
        allowlist \subseteq {entries[i].exe : i \in 1..Len(entries)} \cup {popped}

\* The limits of table and module agree: add_filtered_exe makes room in the
\* module, which then does not refuse the executable.
AddTakesEffect ==
    [][recordPc = "lockEntries" /\ recordPc' = "write" => adding \in allowlist']_driverVars

\* record_send waits for the table, which ttl_filters holds while it waits
\* for the controler, which record_send holds.
Deadlocked == recordPc = "lockEntries" /\ ttlPc = "lockControler"

\* Unless the two threads block each other, a filtered executable is let
\* through again.
FilterExpires ==
    \A e \in Exes :
        up /\ e \in allowlist ~> e \notin allowlist \/ ~up \/ ~controler \/ Deadlocked
=============================================================================
