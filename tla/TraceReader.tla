---------------------------- MODULE TraceReader ----------------------------
(***************************************************************************)
(* How a record of the driver gets its process: hooks write to the ring of *)
(* the cpu they run on (driver/LKM/src/trace_buffer.c, overwriting), the   *)
(* reader of /proc/elkeid-endpoint goes from cpu to cpu                    *)
(* (driver/LKM/src/trace.c), and transform() adds what it remembers of the *)
(* process: the command line, from the record of its execve or from /proc, *)
(* and the process tree, from the record of its execve only                *)
(* (plugins/driver/src/transformer.rs, transformer/cache.rs).              *)
(*                                                                         *)
(* The module follows one process id.  Records of others matter by what    *)
(* they do to its entries in the two LRU caches, which is a step of its    *)
(* own.  A limiter and a quota per command line may leave a value or a     *)
(* record out at any time.  An execution is told apart by its command      *)
(* line, which also stands for the process tree.                           *)
(***************************************************************************)
EXTENDS Naturals, Sequences

CONSTANTS
    Argvs,     \* command lines
    Unknown,   \* no command line
    NCpu,      \* number of cpus
    RingSize,  \* records a cpu's ring holds
    Batch      \* records that fill the buffer of a read

ASSUME TraceAssumption ==
    /\ Unknown \notin Argvs
    /\ {NCpu, RingSize, Batch} \subseteq Nat \ {0}

VARIABLES
    argv,     \* the process's command line; Unknown: there is no process
    told,     \* history: its last execve went to a ring, and no other execve of
              \* its id can be read after that one
    rings,    \* [Cpus -> sequence of records]
    start,    \* the cpu __find_next_entry began with
    next,     \* the cpu it looks at
    taken,    \* records of this read
    cached,   \* argv_cache: the entry and where it is from
    tree      \* pid_tree_cache: the entry

traceVars == <<argv, told, rings, start, next, taken, cached, tree>>

Cpus == 0..(NCpu - 1)
NotCached == [argv |-> Unknown, from |-> "none"]
CpuAfter(c) == (c + 1) % NCpu

-----------------------------------------------------------------------------
(* The hooks.                                                              *)

\* truth is history: the command line of the process at the time of the hook,
\* or Unknown where its records may be read in another order than written.
ExecveRecord(a) == [hook |-> "execve", argv |-> a, truth |-> Unknown]
FileRecord(a) == [hook |-> "file", argv |-> Unknown, truth |-> a]

HasExecve(s) == \E i \in DOMAIN s : s[i].hook = "execve"
ExecveElsewhere(c) == \E d \in Cpus \ {c} : HasExecve(rings[d])

\* The oldest record makes room; if it is an execve, the records up to the next
\* one lose it.
Overwritten(s) ==
    LET t == Tail(s) IN
    IF Len(s) < RingSize THEN s
    ELSE IF Head(s).hook # "execve" THEN t
    ELSE [i \in DOMAIN t |-> IF HasExecve(SubSeq(t, 1, i)) THEN t[i] ELSE FileRecord(Unknown)]

\* An execve on one cpu may be read before what was written on another.
Overtaken(s) == [i \in DOMAIN s |-> IF s[i].hook = "file" THEN FileRecord(Unknown) ELSE s[i]]

Write(c, r) ==
    rings' = [d \in Cpus |->
                IF d = c THEN Append(Overwritten(rings[d]), r)
                ELSE IF r.hook = "execve" THEN Overtaken(rings[d]) ELSE rings[d]]

\* The execve that told is about is not overwritten.
Kept(c) == Len(rings[c]) = RingSize /\ Head(rings[c]).hook = "execve" => HasExecve(Tail(rings[c]))

ExecveReturns(c, a) ==
    /\ argv # Unknown /\ argv' = a
    /\ Write(c, ExecveRecord(a))
    /\ told' = ~(ExecveElsewhere(c))
    /\ UNCHANGED <<start, next, taken, cached, tree>>

\* Any error but ENOENT is reported like a success.
ExecveFails(c, a) ==
    /\ argv # Unknown
    /\ Write(c, ExecveRecord(a))
    /\ told' = FALSE
    /\ UNCHANGED <<argv, start, next, taken, cached, tree>>

\* The executable is on the allowlist, or there is no memory for the record.
ExecveUnreported(a) ==
    /\ argv # Unknown /\ argv' = a
    /\ told' = FALSE
    /\ UNCHANGED <<rings, start, next, taken, cached, tree>>

\* security_inode_create, as all hooks but execve.
FileHook(c) ==
    /\ argv # Unknown
    /\ LET sure == told /\ ~ExecveElsewhere(c) /\ Kept(c)
       IN Write(c, FileRecord(IF sure THEN argv ELSE Unknown))
    /\ told' = (told /\ Kept(c))
    /\ UNCHANGED <<argv, start, next, taken, cached, tree>>

\* A fork takes the free process id; the child has its parent's command line.
Fork(a) ==
    /\ argv = Unknown /\ argv' = a
    /\ told' = FALSE
    /\ UNCHANGED <<rings, start, next, taken, cached, tree>>

ProcessExits ==
    /\ argv # Unknown /\ argv' = Unknown
    /\ told' = FALSE
    /\ UNCHANGED <<rings, start, next, taken, cached, tree>>

-----------------------------------------------------------------------------
(* trace_read_pipe() and __find_next_entry().                              *)

LookFrom(c) == start' = c /\ next' = c

\* trace_read_pipe zeroes iter->cpu, so a read begins with the cpu after 0.
BeginRead == LookFrom(CpuAfter(0)) /\ taken' = 0

\* The ring of this cpu is empty.  A scan that has come round ends the read; a
\* read that has just begun waits for a record.
Scan ==
    /\ \/ \E c \in Cpus : rings[c] # <<>>
       \/ taken > 0 \/ next # start
    /\ rings[next] = <<>>
    /\ IF CpuAfter(next) = start THEN BeginRead
       ELSE next' = CpuAfter(next) /\ UNCHANGED <<start, taken>>
    /\ UNCHANGED <<argv, told, rings, cached, tree>>

\* ArgvCache::get for an id that is not cached: /proc is read, if there is such
\* a process and the limiter lets it.
ReadProc ==
    \/ UNCHANGED cached
    \/ cached.from = "none" /\ argv # Unknown /\ cached' = [argv |-> argv, from |-> "proc"]

\* Fault: an execve does not replace what is remembered.
RememberOnce(r) ==
    IF r.hook = "execve"
    THEN /\ cached' = IF cached.from = "none" THEN [argv |-> r.argv, from |-> "execve"] ELSE cached
         /\ tree' = IF tree = Unknown THEN r.argv ELSE tree
    ELSE ReadProc /\ UNCHANGED tree

\* transform().  execve records are put whatever the call returned.
Remember(r) ==
    IF r.hook = "execve"
    THEN cached' = [argv |-> r.argv, from |-> "execve"] /\ tree' = r.argv
    ELSE ReadProc /\ UNCHANGED tree

\* An entry is printed and consumed, and in its turn transformed.
Consume ==
    /\ rings[next] # <<>>
    /\ rings' = [rings EXCEPT ![next] = Tail(@)]
    /\ Remember(Head(rings[next]))
    /\ IF taken + 1 = Batch THEN BeginRead ELSE LookFrom(CpuAfter(next)) /\ taken' = taken + 1
    /\ UNCHANGED <<argv, told>>

\* Records of other processes: they look this one up, as parent, group leader
\* or owner of a socket, or their entries replace its own.
OthersTransformed ==
    /\ \/ ReadProc /\ UNCHANGED tree
       \/ cached' = NotCached /\ UNCHANGED tree
       \/ tree' = Unknown /\ UNCHANGED cached
    /\ UNCHANGED <<argv, told, rings, start, next, taken>>

\* The plugin is started again; the kernel module keeps its rings.
PluginRestarts ==
    /\ cached' = NotCached /\ tree' = Unknown /\ BeginRead
    /\ UNCHANGED <<argv, told, rings>>

-----------------------------------------------------------------------------
TraceInit ==
    /\ argv = Unknown /\ told = FALSE
    /\ rings = [c \in Cpus |-> <<>>]
    /\ start = CpuAfter(0) /\ next = start /\ taken = 0
    /\ cached = NotCached /\ tree = Unknown

Host ==
    \/ \E c \in Cpus, a \in Argvs : ExecveReturns(c, a) \/ ExecveFails(c, a)
    \/ \E a \in Argvs : ExecveUnreported(a) \/ Fork(a)
    \/ \E c \in Cpus : FileHook(c)
    \/ ProcessExits
Reader == Scan \/ Consume
TraceNext == Host \/ Reader \/ OthersTransformed \/ PluginRestarts

TraceSpec == TraceInit /\ [][TraceNext]_traceVars

\* record_send reads as long as the plugin runs.
TraceFairSpec ==
    TraceInit /\ [][Host \/ Reader]_traceVars /\ WF_traceVars(Reader)

-----------------------------------------------------------------------------
(* Properties.                                                             *)

Texts == Argvs \cup {Unknown}
RingRecord == [hook : {"execve", "file"}, argv : Texts, truth : Texts]

\* The types; a ring holds no more than fits, a read takes no more than a buffer.
TraceTypeOK ==
    /\ argv \in Texts /\ told \in BOOLEAN
    /\ rings \in [Cpus -> Seq(RingRecord)]
    /\ \A c \in Cpus : Len(rings[c]) <= RingSize
    /\ start \in Cpus /\ next \in Cpus /\ taken \in 0..(Batch - 1)
    /\ cached \in [argv : Texts, from : {"none", "execve", "proc"}] /\ tree \in Texts

\* A record gets the right process.  If the process's last execve succeeded, was
\* reported and neither lost nor on another cpu's ring at the same time, then its
\* process tree is that of this execve or left out, and so is its command line
\* unless that was read from /proc.  Whichever cpu is read next, and although the
\* id may have belonged to another process or the entries may have been dropped.
RightProcess ==
    \A c \in Cpus : rings[c] # <<>> =>
        LET r == Head(rings[c]) IN
        r.truth # Unknown => /\ tree \in {r.truth, Unknown}
                             /\ cached.from = "execve" => cached.argv = r.truth

\* "always loop from next of last-read cpu ... to avoid possible starving on other
\* cores": every cpu that has records is read.
NoCpuStarves == \A c \in Cpus : rings[c] # <<>> ~> (next = c \/ rings[c] = <<>>)
=============================================================================
