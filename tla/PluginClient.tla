---------------------------- MODULE PluginClient ----------------------------
(***************************************************************************)
(* The client of the plugin library (plugins/lib/rust/src/lib.rs).  The    *)
(* threads of a plugin share one BufWriter on the record pipe behind a     *)
(* Mutex; a thread flushes it on a ticker; on SIGTERM another thread       *)
(* closes the two descriptors under the others.                            *)
(*                                                                         *)
(* A record is two units, its length and its body.  BufWriter and pipe are *)
(* FIFO, so both are kept as positions in log, the units in the order in   *)
(* which the BufWriter took them while the pipe could still deliver them:  *)
(* log[1..got] has been read by the agent, log[got+1..out] is in the pipe  *)
(* and the rest is in the BufWriter.                                       *)
(***************************************************************************)
EXTENDS Naturals, Sequences, FiniteSets

CONSTANTS
    Senders,     \* threads of the plugin that send records
    RawSenders,  \* those of them that call raw_write_all with whole frames
    flusher,     \* the flushing thread of Client::new
    Free,        \* the writer Mutex is not locked
    Cap,         \* capacity of the BufWriter, in units
    PipeCap,     \* capacity of the pipe, in units
    MaxRecords   \* bound: records a sender sends

ASSUME ClientAssumption ==
    /\ RawSenders \subseteq Senders
    /\ flusher \notin Senders
    /\ Free \notin Senders \cup {flusher}
    /\ Cap \in Nat /\ Cap >= 2
    /\ PipeCap \in Nat \ {0}
    /\ MaxRecords \in Nat

VARIABLES
    lock,    \* thread that holds the writer Mutex, or Free
    pc,      \* what each thread does
    nr,      \* number of the record a sender sends, or sent last
    left,    \* records of the call still to write, the current one included
    half,    \* the length of the current record is written, its body is not
    fill,    \* units in the BufWriter
    log,     \* units taken by the BufWriter, see above
    out,     \* units of log written to the pipe
    got,     \* units of log read by the agent
    fds,     \* descriptors 3 and 4: "open", "closed", or "reused" by a file
    agent    \* the agent holds its ends of the pipes

writerVars == <<lock, pc, nr, left, half, fill, log, out>>
clientVars == <<lock, pc, nr, left, half, fill, log, out, got, fds,
                agent>>

Threads == Senders \cup {flusher}
Numbers == 1..MaxRecords
Units == [from : Senders, nr : Numbers, part : {"length", "body"}]
Unit(s, part) == [from |-> s, nr |-> nr[s], part |-> part]

\* A unit written now can still reach the agent.
Up == fds = "open" /\ agent
PipeFull == out - got >= PipeCap

-----------------------------------------------------------------------------
(* Calls that write.                                                       *)

\* send_record (n = 1), send_records and raw_write_all begin.
Call(s, n) ==
    /\ pc[s] = "idle"
    /\ nr[s] + n <= MaxRecords
    /\ s \in RawSenders => n = 1
    /\ pc' = [pc EXCEPT ![s] = "lock"]
    /\ nr' = [nr EXCEPT ![s] = @ + 1]
    /\ left' = [left EXCEPT ![s] = n]
    /\ UNCHANGED <<lock, half, fill, log, out, got, fds, agent>>

\* Fault: the ticker only flushes a buffer that is full.
CallFlushFull(t) ==
    /\ pc[t] = "idle" /\ fill = Cap
    /\ pc' = [pc EXCEPT ![t] = "lock"]
    /\ UNCHANGED <<lock, nr, left, half, fill, log, out, got, fds, agent>>

\* The ticker of the flushing thread, and raw_flush, which a sender calls when
\* it drops its client after its last record.
CallFlush(t) ==
    /\ pc[t] = "idle"
    /\ t \in Senders => nr[t] = MaxRecords
    /\ pc' = [pc EXCEPT ![t] = "lock"]
    /\ UNCHANGED <<lock, nr, left, half, fill, log, out, got, fds, agent>>

\* A flush begins or the first record is written.
Lock(t) ==
    /\ pc[t] = "lock"
    /\ lock = Free
    /\ lock' = t
    /\ pc' = [pc EXCEPT ![t] = IF t \in Senders /\ left[t] > 0 THEN "put"
                               ELSE "flush"]
    /\ UNCHANGED <<nr, left, half, fill, log, out, got, fds, agent>>

\* The call of t returns and its guard is dropped.  The loop of the flushing
\* thread ends on an error.
Return(t, ok) ==
    /\ lock' = Free
    /\ pc' = [pc EXCEPT ![t] = IF t = flusher /\ ~ok THEN "ended" ELSE "idle"]
    /\ left' = [left EXCEPT ![t] = 0]
    /\ half' = [half EXCEPT ![t] = FALSE]

\* The units write_all is called with.
Chunk(s) ==
    CASE s \in RawSenders -> <<Unit(s, "length"), Unit(s, "body")>>
      [] s \notin RawSenders /\ ~half[s] -> <<Unit(s, "length")>>
      [] OTHER -> <<Unit(s, "body")>>

\* The body of a record is written: the call goes on to the next, or returns.
RecordDone(s) ==
    IF left[s] > 1
    THEN /\ left' = [left EXCEPT ![s] = @ - 1]
         /\ nr' = [nr EXCEPT ![s] = @ + 1]
         /\ half' = [half EXCEPT ![s] = FALSE]
         /\ UNCHANGED <<lock, pc>>
    ELSE Return(s, TRUE) /\ UNCHANGED nr

\* Fault: length and body are written under two lock guards.
PutUnlocking(s) ==
    /\ pc[s] = "put"
    /\ fill + Len(Chunk(s)) <= Cap
    /\ fill' = fill + Len(Chunk(s))
    /\ log' = IF Up THEN log \o Chunk(s) ELSE log
    /\ IF s \in RawSenders \/ half[s] THEN RecordDone(s)
       ELSE /\ half' = [half EXCEPT ![s] = TRUE]
            /\ lock' = Free
            /\ pc' = [pc EXCEPT ![s] = "lock"]
            /\ UNCHANGED <<left, nr>>
    /\ UNCHANGED <<out, got, fds, agent>>

\* BufWriter::write_all when the chunk fits: it is copied into the buffer.
Put(s) ==
    /\ pc[s] = "put"
    /\ fill + Len(Chunk(s)) <= Cap
    /\ fill' = fill + Len(Chunk(s))
    /\ log' = IF Up THEN log \o Chunk(s) ELSE log
    /\ IF s \in RawSenders \/ half[s] THEN RecordDone(s)
       ELSE half' = [half EXCEPT ![s] = TRUE] /\ UNCHANGED <<lock, pc, left, nr>>
    /\ UNCHANGED <<out, got, fds, agent>>

\* BufWriter::write_all when the chunk does not fit: flush_buf first.
PutFull(s) ==
    /\ pc[s] = "put"
    /\ fill + Len(Chunk(s)) > Cap
    /\ pc' = [pc EXCEPT ![s] = "flush"]
    /\ UNCHANGED <<lock, nr, left, half, fill, log, out, got, fds, agent>>

\* The buffer is empty: the flush is over.
FlushDone(t) ==
    /\ pc[t] = "flush" /\ fill = 0
    /\ IF left[t] > 0
       THEN pc' = [pc EXCEPT ![t] = "put"] /\ UNCHANGED <<lock, left, half>>
       ELSE Return(t, TRUE)
    /\ UNCHANGED <<nr, fill, log, out, got, fds, agent>>

\* write(2) takes one more unit of the buffer.  On a pipe that is full the
\* thread waits in the kernel, where close does not wake it; on a descriptor
\* that a file has taken over, the unit goes to that file.
FlushWrite(t) ==
    /\ \/ /\ pc[t] = "flush" /\ fill > 0 /\ fds = "open" /\ agent
          /\ IF PipeFull
             THEN /\ pc' = [pc EXCEPT ![t] = "blocked"]
                  /\ UNCHANGED <<fill, out>>
             ELSE /\ fill' = fill - 1
                  /\ out' = out + 1
                  /\ UNCHANGED pc
       \/ /\ pc[t] = "blocked" /\ agent /\ ~PipeFull
          /\ fill' = fill - 1
          /\ out' = out + 1
          /\ pc' = [pc EXCEPT ![t] = "flush"]
       \/ /\ pc[t] = "flush" /\ fill > 0 /\ fds = "reused"
          /\ fill' = fill - 1
          /\ UNCHANGED <<out, pc>>
    /\ UNCHANGED <<lock, nr, left, half, log, got, fds, agent>>

\* write(2) fails: EBADF on a closed descriptor, EPIPE without a reader.  The
\* buffer keeps what was not written and the call returns the error.
FlushFails(t) ==
    /\ \/ pc[t] = "flush" /\ fill > 0 /\ (fds = "closed" \/ (fds = "open" /\ ~agent))
       \/ pc[t] = "blocked" /\ ~agent
    /\ Return(t, FALSE)
    /\ UNCHANGED <<nr, fill, log, out, got, fds, agent>>

-----------------------------------------------------------------------------
(* The agent and SIGTERM.                                                  *)

\* The agent reads the next unit of records.
AgentReads ==
    /\ agent /\ got < out
    /\ got' = got + 1
    /\ UNCHANGED <<writerVars, fds, agent>>

\* The agent closes its ends or dies.
AgentLeaves ==
    /\ agent
    /\ agent' = FALSE
    /\ UNCHANGED <<writerVars, got, fds>>

\* The signal thread closes both descriptors, three seconds after SIGTERM.
CloseOnTerm ==
    /\ fds = "open"
    /\ fds' = "closed"
    /\ UNCHANGED <<writerVars, got, agent>>

\* A file the plugin opens later gets the number of the closed descriptor.
Reuse ==
    /\ fds = "closed"
    /\ fds' = "reused"
    /\ UNCHANGED <<writerVars, got, agent>>

-----------------------------------------------------------------------------
ClientInit ==
    /\ lock = Free
    /\ pc = [t \in Threads |-> "idle"]
    /\ nr = [s \in Senders |-> 0]
    /\ left = [t \in Threads |-> 0]
    /\ half = [t \in Threads |-> FALSE]
    /\ fill = 0
    /\ log = <<>>
    /\ out = 0
    /\ got = 0
    /\ fds = "open"
    /\ agent = TRUE

\* Steps inside a call of t.
Step(t) ==
    \/ Lock(t)
    \/ t \in Senders /\ (Put(t) \/ PutFull(t))
    \/ FlushDone(t)
    \/ FlushWrite(t)
    \/ FlushFails(t)

ClientNext ==
    \/ \E s \in Senders, n \in 1..2 : Call(s, n)
    \/ \E t \in Threads : CallFlush(t) \/ Step(t)
    \/ AgentReads \/ AgentLeaves
    \/ CloseOnTerm \/ Reuse

ClientSpec == ClientInit /\ [][ClientNext]_clientVars

\* Threads in a call are scheduled, the ticker ticks, and a living agent reads.
ClientFairness ==
    /\ \A t \in Threads : WF_clientVars(Step(t))
    /\ WF_clientVars(CallFlush(flusher))
    /\ WF_clientVars(AgentReads)

ClientFairSpec == ClientSpec /\ ClientFairness

-----------------------------------------------------------------------------
(* Properties.                                                             *)

\* The types; the BufWriter stays within its capacity and the positions in the
\* stream in their order.
ClientTypeOK ==
    /\ lock \in Threads \cup {Free}
    /\ pc \in [Threads -> {"idle", "lock", "put", "flush", "blocked", "ended"}]
    /\ nr \in [Senders -> 0..MaxRecords]
    /\ left \in [Threads -> 0..2]
    /\ half \in [Threads -> BOOLEAN]
    /\ fill \in 0..Cap
    /\ log \in Seq(Units)
    /\ out \in Nat /\ got \in Nat
    /\ got <= out /\ out <= Len(log)
    /\ fds \in {"open", "closed", "reused"}
    /\ agent \in BOOLEAN

\* The record a reader of the frames decodes at position k.  Two units that
\* do not belong together decode to something no thread sent.
Decoded(k) ==
    IF /\ log[2 * k - 1].part = "length" /\ log[2 * k].part = "body"
       /\ log[2 * k - 1].from = log[2 * k].from
       /\ log[2 * k - 1].nr = log[2 * k].nr
    THEN [from |-> log[2 * k].from, nr |-> log[2 * k].nr]
    ELSE [from |-> Free, nr |-> 0]

Accepted == [k \in 1..(Len(log) \div 2) |-> Decoded(k)]
Delivered == got \div 2

Stream == INSTANCE RecordStream WITH accepted <- Accepted, delivered <- Delivered

\* However calls, flushes, a slow agent, SIGTERM and the end of the agent
\* interleave, the agent decodes whole records, in the order the client took
\* them, each sender's in the order sent and none twice.
ImplementsStream == Stream!Spec

\* What the client has taken reaches the agent, by the flushing thread if by
\* no other call, unless one of the two ends goes away first.  (The bound on
\* the records stands for a pause of the senders.)
Flushed == got < Len(log) ~> got = Len(log) \/ ~Up
=============================================================================
