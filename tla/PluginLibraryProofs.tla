------------------------ MODULE PluginLibraryProofs -------------------------
(***************************************************************************)
(* Proofs about the library of the plugins.  Its client, PluginClient,     *)
(* implements RecordStream, for any threads, records and capacities of     *)
(* buffer and pipe.  Its logger, PluginLogger, keeps its backups, for any  *)
(* number of them and of kills: BackupsKept.                               *)
(***************************************************************************)
EXTENDS PluginClient, PluginLogger, FiniteSetTheorems, TLAPS

\* Most leaves are first-order steps over named definitions and go to Zenon; one
\* that needs arithmetic, records or sequences asks for SMT.
USE ZenonT(30)

-----------------------------------------------------------------------------
(* PluginClient.                                                           *)

\* The Mutex: exactly its holder is inside a write or a flush.
Held ==
    \A t \in Threads : pc[t] \in {"put", "flush", "blocked"} <=> lock = t

\* What a thread's place in its call says about its record.
Calls ==
    \A t \in Threads :
        /\ pc[t] \in {"idle", "ended"} => left[t] = 0
        /\ pc[t] = "put" => left[t] > 0
        /\ pc[t] = "blocked" => fill > 0
        /\ left[t] > 0 => t \in Senders /\ nr[t] >= 1 /\ nr[t] + left[t] - 1 <= MaxRecords
        /\ half[t] => left[t] > 0 /\ t \notin RawSenders /\ lock = t

\* What the client took is in the BufWriter or was written, as long as the
\* pipe works; a thread that waits in write(2) keeps it so by its Mutex.
Balance ==
    Up \/ (\E t \in Threads : pc[t] = "blocked") => fill + out = Len(log)

\* As long as the pipe works the stream stands within a record exactly if the
\* holder of the Mutex does, and that is its current record; all else that a
\* sender in a call has in the stream is of earlier records.
Frames ==
    Up => /\ Len(log) % 2 = 1 => \E s \in Senders : half[s]
          /\ \A s \in Senders : half[s] => /\ Len(log) % 2 = 1
                                           /\ log[Len(log)] = Unit(s, "length")
          /\ \A s \in Senders, i \in 1..Len(log) :
                log[i].from = s =>
                    /\ log[i].nr <= nr[s]
                    /\ left[s] > 0 => log[i].nr < nr[s] \/ (half[s] /\ i = Len(log))

ClientInv == ClientTypeOK /\ Held /\ Calls /\ Balance /\ Frames

\* What a concatenation and an Append hold, by index.
LEMMA ConcatAt ==
    ASSUME NEW S, NEW a \in Seq(S), NEW b \in Seq(S)
    PROVE  /\ a \o b \in Seq(S) /\ Len(a \o b) = Len(a) + Len(b)
           /\ \A i \in 1..Len(a) + Len(b) : (a \o b)[i] = IF i <= Len(a) THEN a[i] ELSE b[i - Len(a)]
  BY SMT

LEMMA SeqEqual ==
    ASSUME NEW S, NEW a \in Seq(S), NEW b \in Seq(S), Len(a) = Len(b),
           \A i \in 1..Len(a) : a[i] = b[i]
    PROVE  a = b
  BY SMT

LEMMA AppendAt ==
    ASSUME NEW S, NEW a \in Seq(S), NEW e \in S
    PROVE  /\ Append(a, e) \in Seq(S) /\ Len(Append(a, e)) = Len(a) + 1
           /\ \A i \in 1..Len(a) : Append(a, e)[i] = a[i]
           /\ Append(a, e)[Len(a) + 1] = e
  BY SMT

-----------------------------------------------------------------------------
LEMMA ClientInvInit == ClientInit => ClientInv
<1> SUFFICES ASSUME ClientInit PROVE ClientInv
  OBVIOUS
<1> USE ClientAssumption DEF ClientInit, Threads
<1>1. ClientTypeOK
  BY SMT DEF ClientTypeOK, Units
<1>2. Held /\ Calls
  BY SMT DEF Held, Calls
<1>3. Balance /\ Frames
  BY SMT DEF Balance, Frames
<1> QED BY <1>1, <1>2, <1>3 DEF ClientInv

\* The units of the stream.
LEMMA LogUnits ==
    ASSUME ClientTypeOK
    PROVE  /\ Len(log) \in Nat
           /\ \A i \in 1..Len(log) : /\ log[i] \in Units
                                     /\ log[i].from \in Senders /\ log[i].nr \in Nat
<1>1. log \in Seq(Units)
  BY DEF ClientTypeOK
<1>2. Len(log) \in Nat /\ \A i \in 1..Len(log) : log[i] \in Units
  BY SMT, <1>1
<1>3. \A u \in Units : u.from \in Senders /\ u.nr \in Nat
  BY SMT, ClientAssumption DEF Units, Numbers
<1> QED BY <1>2, <1>3

\* Calls that begin, and the Mutex.
LEMMA CallKeeps ==
    ASSUME ClientInv, NEW s \in Senders, NEW n \in 1..2, Call(s, n) PROVE ClientInv'
<1> USE ClientAssumption DEF ClientInv, Threads
<1>1. ClientTypeOK'
  BY SMT DEF Call, ClientTypeOK
<1>2. Held' /\ Calls'
  BY SMT DEF Call, ClientTypeOK, Held, Calls
<1>3. Balance'
  BY DEF Call, ClientTypeOK, Balance, Up
<1>4. Frames'
  <2>1. ~half[s] /\ pc[s] = "idle" /\ left[s] = 0
    BY SMT DEF Call, Calls
  <2>2. /\ nr' = [nr EXCEPT ![s] = nr[s] + 1]
        /\ left' = [left EXCEPT ![s] = n]
        /\ UNCHANGED <<half, log, fds, agent>>
    BY DEF Call
  <2>3. /\ nr \in [Senders -> 0..MaxRecords] /\ left \in [Threads -> 0..2]
        /\ \A i \in 1..Len(log) : log[i].nr \in Nat
    BY LogUnits DEF ClientTypeOK
  <2>4. ASSUME Up, NEW x \in Senders, half[x]
        PROVE  Len(log) % 2 = 1 /\ log[Len(log)] = Unit(x, "length")'
    BY <2>1, <2>2, <2>3, <2>4 DEF Frames, Unit
  <2>5. ASSUME Up, NEW x \in Senders, NEW i \in 1..Len(log), log[i].from = x
        PROVE  /\ log[i].nr <= nr'[x]
               /\ left'[x] > 0 => log[i].nr < nr'[x] \/ (half[x] /\ i = Len(log))
    BY SMT, <2>1, <2>2, <2>3, <2>5 DEF Frames
  <2>6. Up' = Up
    BY <2>2 DEF Up
  <2>7. Up => (Len(log) % 2 = 1 => \E x \in Senders : half[x])
    BY DEF Frames
  <2> QED BY <2>2, <2>4, <2>5, <2>6, <2>7 DEF Frames
<1> QED BY <1>1, <1>2, <1>3, <1>4

LEMMA CallFlushKeeps ==
    ASSUME ClientInv, NEW t \in Threads, CallFlush(t) PROVE ClientInv'
<1> USE ClientAssumption DEF ClientInv, Threads
<1>1. ClientTypeOK'
  BY DEF CallFlush, ClientTypeOK
<1>2. Held' /\ Calls'
  BY DEF CallFlush, ClientTypeOK, Held, Calls
<1>3. Balance'
  BY DEF CallFlush, ClientTypeOK, Balance, Up
<1>4. Frames'
  BY DEF CallFlush, Frames, Up, Unit
<1> QED BY <1>1, <1>2, <1>3, <1>4

LEMMA LockKeeps ==
    ASSUME ClientInv, NEW t \in Threads, Lock(t) PROVE ClientInv'
<1> USE ClientAssumption DEF ClientInv, Threads
<1>1. ClientTypeOK'
  BY DEF Lock, ClientTypeOK
<1>2. Held' /\ Calls'
  BY DEF Lock, ClientTypeOK, Held, Calls
<1>3. Balance'
  BY DEF Lock, ClientTypeOK, Balance, Up
<1>4. Frames'
  BY DEF Lock, Frames, Up, Unit
<1> QED BY <1>1, <1>2, <1>3, <1>4

-----------------------------------------------------------------------------
\* A flush, of its own or for room in the BufWriter.
LEMMA PutFullKeeps ==
    ASSUME ClientInv, NEW s \in Senders, PutFull(s) PROVE ClientInv'
<1> USE ClientAssumption DEF ClientInv, Threads
<1>1. ClientTypeOK'
  BY DEF PutFull, ClientTypeOK
<1>2. Held' /\ Calls'
  BY DEF PutFull, ClientTypeOK, Held, Calls
<1>3. Balance'
  BY DEF PutFull, ClientTypeOK, Balance, Up
<1>4. Frames'
  BY DEF PutFull, Frames, Up, Unit
<1> QED BY <1>1, <1>2, <1>3, <1>4

LEMMA FlushDoneKeeps ==
    ASSUME ClientInv, NEW t \in Threads, FlushDone(t) PROVE ClientInv'
<1> USE ClientAssumption DEF ClientInv, Threads
<1>1. CASE left[t] > 0
  <2>1. ClientTypeOK'
    BY <1>1 DEF FlushDone, ClientTypeOK
  <2>2. /\ pc[t] = "flush" /\ pc' = [pc EXCEPT ![t] = "put"]
        /\ UNCHANGED <<lock, nr, left, half, fill>>
    BY <1>1 DEF FlushDone
  <2>3. Held'
    BY <2>2 DEF ClientTypeOK, Held
  <2>4. Calls'
    BY <1>1, <2>2 DEF ClientTypeOK, Calls
  <2>5. Balance'
    BY <1>1 DEF FlushDone, ClientTypeOK, Balance, Up
  <2>6. Frames'
    BY <1>1 DEF FlushDone, Frames, Up, Unit
  <2> QED BY <2>1, <2>5, <2>6, <2>3, <2>4
<1>2. CASE ~(left[t] > 0)
  <2>1. /\ pc[t] = "flush" /\ lock' = Free
        /\ pc' = [pc EXCEPT ![t] = "idle"]
        /\ left' = [left EXCEPT ![t] = 0] /\ half' = [half EXCEPT ![t] = FALSE]
        /\ UNCHANGED <<nr, fill, log, out, got, fds, agent>>
    BY <1>2 DEF FlushDone, Return
  <2>2. ClientTypeOK'
    BY SMT, <2>1 DEF ClientTypeOK
  <2>3. Held' /\ Calls'
    BY SMT, <1>2, <2>1 DEF ClientTypeOK, Held, Calls
  <2>4. Balance'
    BY <2>1 DEF ClientTypeOK, Balance, Up
  <2>5. \A s \in Senders : left'[s] = left[s] /\ (half'[s] <=> half[s])
    BY SMT, <1>2, <2>1 DEF ClientTypeOK, Calls
  <2>6. Frames'
    BY <2>1, <2>5 DEF Frames, Up, Unit
  <2> QED BY <2>2, <2>3, <2>4, <2>6
<1> QED BY <1>1, <1>2

LEMMA FlushWriteKeeps ==
    ASSUME ClientInv, NEW t \in Threads, FlushWrite(t) PROVE ClientInv'
<1> USE ClientAssumption DEF ClientInv, Threads
<1>1. fill \in Nat /\ out \in Nat /\ Len(log) \in Nat
  BY SMT, LogUnits DEF ClientTypeOK
<1>2. ClientTypeOK'
  <2>1. /\ UNCHANGED <<lock, nr, left, half, log, got, fds, agent>>
        /\ pc' \in [Threads -> {"idle", "lock", "put", "flush", "blocked", "ended"}]
    BY DEF FlushWrite, ClientTypeOK
  <2>2. \/ fill' = fill /\ out' = out
        \/ fill > 0 /\ fill' = fill - 1 /\ out' = out
        \/ fill > 0 /\ fill' = fill - 1 /\ out' = out + 1 /\ fill + out = Len(log)
    BY DEF FlushWrite, Balance, Calls, Up
  <2>3. fill' \in 0..Cap /\ out' \in Nat /\ got <= out' /\ out' <= Len(log)
    BY SMT, <1>1, <2>2 DEF ClientTypeOK
  <2> QED BY <2>1, <2>3 DEF ClientTypeOK
<1>3. Held'
  BY DEF FlushWrite, ClientTypeOK, Held
<1>4. Calls'
  BY <1>1 DEF FlushWrite, ClientTypeOK, Held, Calls
<1>5. Balance'
  BY SMT, <1>1 DEF FlushWrite, ClientTypeOK, Held, Balance, Up
<1>6. Frames'
  BY DEF FlushWrite, Frames, Up, Unit
<1> QED BY <1>2, <1>3, <1>4, <1>5, <1>6

LEMMA FlushFailsKeeps ==
    ASSUME ClientInv, NEW t \in Threads, FlushFails(t) PROVE ClientInv'
<1> USE ClientAssumption DEF ClientInv, Threads
<1>1. ~Up' /\ pc[t] \in {"flush", "blocked"}
  BY DEF FlushFails, Up
<1>2. ClientTypeOK'
  BY SMT DEF FlushFails, Return, ClientTypeOK
<1>3. Held' /\ Calls'
  BY SMT DEF FlushFails, Return, ClientTypeOK, Held, Calls
<1>4. Balance'
  BY <1>1 DEF FlushFails, Return, ClientTypeOK, Held, Balance
<1>5. Frames'
  BY <1>1 DEF Frames
<1> QED BY <1>2, <1>3, <1>4, <1>5

\* The agent, SIGTERM, and steps that change nothing.
LEMMA OutsideKeeps ==
    ASSUME ClientInv, AgentReads \/ AgentLeaves \/ CloseOnTerm \/ Reuse \/ UNCHANGED clientVars
    PROVE  ClientInv'
<1> USE ClientAssumption DEF ClientInv, Threads, AgentReads, AgentLeaves, CloseOnTerm, Reuse,
        clientVars, writerVars
<1>1. ClientTypeOK'
  <2>1. CASE AgentReads
    BY SMT, <2>1 DEF ClientTypeOK
  <2>2. CASE AgentLeaves
    BY <2>2 DEF ClientTypeOK
  <2>3. CASE CloseOnTerm \/ Reuse \/ UNCHANGED clientVars
    BY <2>3 DEF ClientTypeOK
  <2> QED BY <2>1, <2>2, <2>3
<1>2. Held' /\ Calls'
  BY DEF Held, Calls
<1>3. Balance'
  BY DEF Balance, Up
<1>4. Frames'
  BY DEF Frames, Up, Unit
<1> QED BY <1>1, <1>2, <1>3, <1>4

-----------------------------------------------------------------------------
\* Writing into the BufWriter.  Only the holder of the Mutex is in a record,
\* and nobody waits in write(2).
LEMMA PutAlone ==
    ASSUME ClientInv, NEW s \in Senders, pc[s] = "put"
    PROVE  /\ lock = s /\ left[s] \in 1..2 /\ nr[s] \in Numbers
           /\ nr[s] + left[s] - 1 <= MaxRecords
           /\ \A t \in Threads : pc[t] # "blocked" /\ (half[t] => t = s)
           /\ half[s] => s \notin RawSenders
BY SMT, ClientAssumption DEF ClientInv, ClientTypeOK, Held, Calls, Threads, Numbers

\* The chunk is one or two units of the current record.
LEMMA ChunkUnits ==
    ASSUME ClientInv, NEW s \in Senders, pc[s] = "put"
    PROVE  /\ Chunk(s) \in Seq(Units)
           /\ s \in RawSenders => /\ Len(Chunk(s)) = 2
                                  /\ Chunk(s)[1] = Unit(s, "length")
                                  /\ Chunk(s)[2] = Unit(s, "body")
           /\ s \notin RawSenders =>
                 /\ Len(Chunk(s)) = 1
                 /\ Chunk(s)[1] = IF half[s] THEN Unit(s, "body") ELSE Unit(s, "length")
<1>1. Unit(s, "length") \in Units /\ Unit(s, "body") \in Units
  BY PutAlone DEF Unit, Units
<1>2. \A u, v \in Units : /\ <<u, v>> \in Seq(Units) /\ Len(<<u, v>>) = 2
                          /\ <<u, v>>[1] = u /\ <<u, v>>[2] = v
                          /\ <<u>> \in Seq(Units) /\ Len(<<u>>) = 1 /\ <<u>>[1] = u
  BY SMT
<1>3. CASE s \in RawSenders
  <2>1. Chunk(s) = <<Unit(s, "length"), Unit(s, "body")>>
    BY <1>3 DEF Chunk
  <2> HIDE DEF Unit, Units
  <2>2. Chunk(s) \in Seq(Units) /\ Len(Chunk(s)) = 2
    BY SMT, <1>1, <2>1
  <2>3. Chunk(s)[1] = Unit(s, "length") /\ Chunk(s)[2] = Unit(s, "body")
    BY SMT, <2>1
  <2> QED BY <1>3, <2>2, <2>3
<1>4. CASE s \notin RawSenders /\ half[s]
  <2>1. Chunk(s) = <<Unit(s, "body")>>
    BY <1>4 DEF Chunk
  <2> QED BY <1>1, <1>2, <1>4, <2>1, Zenon
<1>5. CASE s \notin RawSenders /\ ~half[s]
  <2>1. Chunk(s) = <<Unit(s, "length")>>
    BY <1>5 DEF Chunk
  <2> QED BY <1>1, <1>2, <1>5, <2>1, Zenon
<1> QED BY <1>3, <1>4, <1>5

\* The three ways a write goes on: to the body, to the next record, or back.
ToBody(s) ==
    /\ s \notin RawSenders /\ ~half[s]
    /\ half' = [half EXCEPT ![s] = TRUE] /\ UNCHANGED <<lock, pc, left, nr>>
ToNext(s) ==
    /\ s \in RawSenders \/ half[s]
    /\ left[s] > 1
    /\ left' = [left EXCEPT ![s] = left[s] - 1] /\ nr' = [nr EXCEPT ![s] = nr[s] + 1]
    /\ half' = [half EXCEPT ![s] = FALSE] /\ UNCHANGED <<lock, pc>>
ToIdle(s) ==
    /\ s \in RawSenders \/ half[s]
    /\ lock' = Free /\ pc' = [pc EXCEPT ![s] = "idle"]
    /\ left' = [left EXCEPT ![s] = 0] /\ half' = [half EXCEPT ![s] = FALSE]
    /\ UNCHANGED nr

LEMMA PutGoesOn ==
    ASSUME NEW s \in Senders, Put(s) PROVE ToBody(s) \/ ToNext(s) \/ ToIdle(s)
<1>1. CASE s \in RawSenders \/ half[s]
  <2>1. RecordDone(s)
    BY <1>1 DEF Put
  <2> QED BY <1>1, <2>1 DEF RecordDone, Return, ToNext, ToIdle
<1>2. CASE ~(s \in RawSenders \/ half[s])
  BY <1>2 DEF Put, ToBody
<1> QED BY <1>1, <1>2

LEMMA PutControl ==
    ASSUME ClientInv, NEW s \in Senders, Put(s)
    PROVE  /\ lock' \in Threads \cup {Free} /\ left' \in [Threads -> 0..2]
           /\ pc' \in [Threads -> {"idle", "lock", "put", "flush", "blocked", "ended"}]
           /\ nr' \in [Senders -> 0..MaxRecords] /\ half' \in [Threads -> BOOLEAN]
           /\ Held' /\ Calls'
           /\ \A t \in Threads : pc'[t] # "blocked"
<1>1. pc[s] = "put"
  BY DEF Put
<1> USE ClientAssumption, PutAlone, <1>1 DEF ClientInv, Threads
<1>2. CASE ToBody(s)
  BY <1>2 DEF ToBody, ClientTypeOK, Held, Calls
<1>3. CASE ToNext(s)
  BY SMT, <1>3 DEF ToNext, ClientTypeOK, Held, Calls
<1>4. CASE ToIdle(s)
  BY SMT, <1>4 DEF ToIdle, ClientTypeOK, Held, Calls
<1> QED BY <1>2, <1>3, <1>4, PutGoesOn

\* What Put does to the stream while the pipe works.
LEMMA PutLog ==
    ASSUME ClientInv, NEW s \in Senders, Put(s), Up
    PROVE  /\ Len(log') = Len(log) + Len(Chunk(s))
           /\ \A i \in 1..Len(log) : log'[i] = log[i]
           /\ Len(Chunk(s)) >= 1 => log'[Len(log) + 1] = Chunk(s)[1]
           /\ Len(Chunk(s)) >= 2 => log'[Len(log) + 2] = Chunk(s)[2]
           /\ log' \in Seq(Units) /\ Len(log) \in Nat
<1>1. log \in Seq(Units) /\ Chunk(s) \in Seq(Units) /\ log' = log \o Chunk(s)
  BY ChunkUnits DEF Put, ClientInv, ClientTypeOK
<1>2. Len(log) \in Nat /\ Len(Chunk(s)) \in Nat
  BY SMT, <1>1
<1>3. /\ log' \in Seq(Units) /\ Len(log') = Len(log) + Len(Chunk(s))
      /\ \A i \in 1..Len(log) + Len(Chunk(s)) :
            log'[i] = IF i <= Len(log) THEN log[i] ELSE Chunk(s)[i - Len(log)]
  BY <1>1, ConcatAt
<1> QED BY SMTT(20), <1>2, <1>3

LEMMA PutFrames ==
    ASSUME ClientInv, NEW s \in Senders, Put(s) PROVE Frames'
<1>1. pc[s] = "put" /\ Up' = Up
  BY DEF Put, Up
<1>2. CASE ~Up
  BY <1>1, <1>2 DEF Frames
<1>3. CASE Up
  <2> DEFINE L == Len(log)
  <2>1. /\ L \in Nat
        /\ \A i \in 1..L : log'[i] = log[i] /\ log[i].nr \in Nat
        /\ \A x \in Senders : nr[x] \in Nat
    BY SMT, <1>3, PutLog, LogUnits DEF ClientInv, ClientTypeOK
  <2>2. /\ L % 2 = 1 => half[s]
        /\ half[s] => L % 2 = 1 /\ log[L] = Unit(s, "length")
    BY <1>1, <1>3, PutAlone DEF ClientInv, Frames, Threads
  <2>3. \A x \in Senders, i \in 1..L :
            log[i].from = x =>
                /\ log[i].nr <= nr[x]
                /\ left[x] > 0 => log[i].nr < nr[x] \/ (half[x] /\ i = L)
    BY <1>3 DEF ClientInv, Frames
  <2>4. /\ Len(log') = L + Len(Chunk(s))
        /\ Len(Chunk(s)) >= 1 => log'[L + 1] = Chunk(s)[1]
        /\ Len(Chunk(s)) >= 2 => log'[L + 2] = Chunk(s)[2]
    BY <1>3, PutLog
  <2>5. \A x \in Senders \ {s} : nr'[x] = nr[x] /\ left'[x] = left[x] /\ ~half'[x] /\ ~half[x]
    BY SMTT(20), <1>1, PutAlone, PutGoesOn
    DEF ToBody, ToNext, ToIdle, ClientInv, ClientTypeOK, Threads
  <2>6. CASE ToBody(s)
    <3>1. Len(log') = L + 1 /\ log'[L + 1] = Unit(s, "length")
      <4>1. Len(Chunk(s)) = 1 /\ Chunk(s)[1] = Unit(s, "length")
        BY <1>1, <2>6, ChunkUnits DEF ToBody
      <4> QED BY SMT, <2>4, <4>1
    <3>2. nr' = nr /\ left' = left /\ half'[s]
      BY <2>6, PutAlone DEF ToBody, ClientInv, ClientTypeOK, Threads
    <3>3. L % 2 = 0 /\ ~half[s]
      BY SMT, <2>1, <2>2, <2>6 DEF ToBody
    <3>4. Len(log') % 2 = 1 /\ log'[Len(log')] = Unit(s, "length")'
      <4>1. (L + 1) % 2 = 1
        BY SMT, <2>1, <3>3
      <4>2. Unit(s, "length")' = Unit(s, "length")
        BY <3>2 DEF Unit
      <4> QED BY <3>1, <4>1, <4>2
    <3>5. ASSUME NEW x \in Senders, NEW i \in 1..Len(log'), log'[i].from = x
          PROVE  /\ log'[i].nr <= nr'[x]
                 /\ left'[x] > 0 => log'[i].nr < nr'[x] \/ (half'[x] /\ i = Len(log'))
      <4>1. CASE i = L + 1
        BY SMT, <2>1, <3>1, <3>2, <3>5, <4>1 DEF Unit
      <4>2. CASE i # L + 1
        <5>1. i \in 1..L /\ log'[i] = log[i]
          BY SMT, <2>1, <3>1, <4>2
        <5>2. log[i].nr <= nr[x] /\ (left[x] > 0 => log[i].nr < nr[x] \/ (half[x] /\ i = L))
          BY <2>3, <3>5, <5>1
        <5> QED BY <2>5, <3>2, <3>3, <5>1, <5>2
      <4> QED BY <4>1, <4>2
    <3> QED BY <2>5, <3>2, <3>4, <3>5 DEF Frames
  <2>7. CASE ToNext(s) \/ ToIdle(s)
    <3>1. /\ Len(log') % 2 = 0 /\ Len(log') \in Nat
          /\ \A i \in (L + 1)..Len(log') : log'[i].from = s /\ log'[i].nr = nr[s]
      <4>1. CASE s \in RawSenders
        <5>1. L % 2 = 0
          BY SMT, <1>1, <2>1, <2>2, <4>1, PutAlone
        <5>2. /\ Len(log') = L + 2
              /\ log'[L + 1] = Unit(s, "length") /\ log'[L + 2] = Unit(s, "body")
          <6>1. /\ Len(Chunk(s)) = 2
                /\ Chunk(s)[1] = Unit(s, "length") /\ Chunk(s)[2] = Unit(s, "body")
            BY <1>1, <4>1, ChunkUnits
          <6> QED BY SMT, <2>4, <6>1
        <5>3. \A i \in (L + 1)..Len(log') : i = L + 1 \/ i = L + 2
          BY SMT, <2>1, <5>2
        <5> QED BY SMT, <2>1, <5>1, <5>2, <5>3 DEF Unit
      <4>2. CASE s \notin RawSenders
        <5>1. half[s] /\ L % 2 = 1
          BY <2>2, <2>7, <4>2 DEF ToNext, ToIdle
        <5>2. Len(log') = L + 1 /\ log'[L + 1] = Unit(s, "body")
          <6>1. Len(Chunk(s)) = 1 /\ Chunk(s)[1] = Unit(s, "body")
            BY <1>1, <4>2, <5>1, ChunkUnits
          <6> QED BY SMT, <2>4, <6>1
        <5>3. \A i \in (L + 1)..Len(log') : i = L + 1
          BY SMT, <2>1, <5>2
        <5> QED BY SMTT(20), <2>1, <5>1, <5>2, <5>3 DEF Unit
      <4> QED BY <4>1, <4>2
    <3>2. /\ ~half'[s]
          /\ nr'[s] = nr[s] + 1 \/ (nr'[s] = nr[s] /\ left'[s] = 0)
      BY <1>1, <2>7, PutAlone DEF ToNext, ToIdle, ClientInv, ClientTypeOK, Threads
    <3>3. ASSUME NEW x \in Senders, NEW i \in 1..Len(log'), log'[i].from = x
          PROVE  /\ log'[i].nr <= nr'[x]
                 /\ left'[x] > 0 => log'[i].nr < nr'[x]
      <4>1. CASE i > L
        BY SMTT(20), <2>1, <3>1, <3>2, <3>3, <4>1
      <4>2. CASE i <= L /\ x = s
        BY SMT, <2>1, <2>3, <3>2, <3>3, <4>2
      <4>3. CASE i <= L /\ x # s
        BY SMT, <2>1, <2>5, <2>3, <3>3, <4>3
      <4> QED BY SMT, <2>1, <3>1, <4>1, <4>2, <4>3
    <3> QED BY SMT, <2>5, <3>1, <3>2, <3>3 DEF Frames
  <2> QED BY <1>1, <2>6, <2>7, PutGoesOn
<1> QED BY <1>2, <1>3

LEMMA PutKeeps ==
    ASSUME ClientInv, NEW s \in Senders, Put(s) PROVE ClientInv'
<1>1. /\ pc[s] = "put" /\ fill' = fill + Len(Chunk(s)) /\ fill' <= Cap
      /\ UNCHANGED <<out, got, fds, agent>>
      /\ ~Up => log' = log
  BY DEF Put
<1>2. Chunk(s) \in Seq(Units) /\ Len(Chunk(s)) \in Nat
  BY SMT, <1>1, ChunkUnits
<1>3. fill' \in 0..Cap /\ fill \in Nat /\ out \in Nat
  BY SMT, <1>1, <1>2, ClientAssumption DEF ClientInv, ClientTypeOK
<1>4. log' \in Seq(Units) /\ Len(log) \in Nat /\ Len(log') \in Nat /\ Len(log) <= Len(log')
  <2>1. CASE Up
    BY SMT, <1>2, <2>1, PutLog
  <2>2. CASE ~Up
    BY SMT, <1>1, <2>2, LogUnits DEF ClientInv, ClientTypeOK
  <2> QED BY <2>1, <2>2
<1>5. ClientTypeOK'
  BY SMT, <1>1, <1>3, <1>4, PutControl DEF ClientInv, ClientTypeOK
<1>6. Balance'
  <2>1. \A t \in Threads : pc'[t] # "blocked"
    BY PutControl
  <2>2. Up' = Up
    BY <1>1 DEF Up
  <2>3. CASE Up
    BY SMTT(20), <1>1, <1>2, <1>3, <1>4, <2>1, <2>3, PutLog DEF ClientInv, Balance
  <2>4. CASE ~Up
    BY <2>1, <2>2, <2>4 DEF Balance
  <2> QED BY <2>3, <2>4
<1> QED BY <1>5, <1>6, PutControl, PutFrames DEF ClientInv

-----------------------------------------------------------------------------
LEMMA ClientInvNext == ClientInv /\ [ClientNext]_clientVars => ClientInv'
<1> SUFFICES ASSUME ClientInv, [ClientNext]_clientVars PROVE ClientInv'
  OBVIOUS
<1>1. ASSUME NEW s \in Senders, NEW n \in 1..2, Call(s, n) PROVE ClientInv'
  BY <1>1, CallKeeps
<1>2. ASSUME NEW t \in Threads, CallFlush(t) \/ Step(t) PROVE ClientInv'
  BY <1>2, CallFlushKeeps, LockKeeps, PutKeeps, PutFullKeeps, FlushDoneKeeps,
     FlushWriteKeeps, FlushFailsKeeps DEF Step
<1> QED BY <1>1, <1>2, OutsideKeeps DEF ClientNext

LEMMA ClientInvAlways == ClientSpec => []ClientInv
BY ClientInvInit, ClientInvNext, PTL DEF ClientSpec

\* The BufWriter never takes more than it holds and never writes what it has
\* not taken (raw_write_all, send_records and the flushing thread on one
\* Mutex), also when a write(2) that waits is overtaken by close(2).
THEOREM ClientTypeCorrect == ClientSpec => []ClientTypeOK
<1>1. ClientInv => ClientTypeOK
  BY DEF ClientInv
<1> QED BY <1>1, ClientInvAlways, PTL
-----------------------------------------------------------------------------
(* Refinement.                                                             *)

LEMMA Halves ==
    ASSUME NEW n \in Nat
    PROVE  /\ n \div 2 \in Nat
           /\ n % 2 = 0 => n = 2 * (n \div 2) /\ (n + 1) \div 2 = n \div 2
           /\ n % 2 = 1 => n = 2 * (n \div 2) + 1 /\ (n + 1) \div 2 = n \div 2 + 1
           /\ (n + 2) \div 2 = n \div 2 + 1
           /\ n % 2 = 0 \/ n % 2 = 1
BY SMT

\* A function on 1..n is a sequence, and one more value is appended to it.
LEMMA FunctionSeq ==
    ASSUME NEW n \in Nat, NEW S, NEW f \in [1..n -> S]
    PROVE  f \in Seq(S) /\ Len(f) = n
BY SMT

LEMMA FunctionAppend ==
    ASSUME NEW n \in Nat, NEW S, NEW f \in [1..n -> S], NEW g \in [1..(n + 1) -> S],
           \A k \in 1..n : g[k] = f[k]
    PROVE  g = Append(f, g[n + 1])
<1>1. f \in Seq(S) /\ Len(f) = n /\ g \in Seq(S) /\ Len(g) = n + 1
  BY SMT, FunctionSeq
<1>2. g[n + 1] \in S
  BY SMT
<1>3. /\ Append(f, g[n + 1]) \in Seq(S) /\ Len(Append(f, g[n + 1])) = n + 1
      /\ \A k \in 1..n : Append(f, g[n + 1])[k] = f[k]
      /\ Append(f, g[n + 1])[n + 1] = g[n + 1]
  BY SMT, <1>1, <1>2, AppendAt
<1>4. \A k \in 1..(n + 1) : g[k] = Append(f, g[n + 1])[k]
  BY SMT, <1>3
<1> QED BY <1>1, <1>3, <1>4, SeqEqual
\* What the agent may decode: a record, or rubbish.
Decodings == [from : Senders \cup {Free}, nr : Nat]

LEMMA AcceptedType ==
    ASSUME ClientTypeOK
    PROVE  /\ Len(log) \in Nat /\ Len(log) \div 2 \in Nat
           /\ Accepted \in [1..(Len(log) \div 2) -> Decodings]
           /\ Len(Accepted) = Len(log) \div 2
<1>1. Len(log) \in Nat /\ Len(log) \div 2 \in Nat
  BY LogUnits, Halves
<1>2. ASSUME NEW k \in 1..(Len(log) \div 2) PROVE Decoded(k) \in Decodings
  <2>1. 2 * k \in 1..Len(log)
    BY SMT, <1>1, Halves
  <2>2. log[2 * k].from \in Senders /\ log[2 * k].nr \in Nat
    BY <2>1, LogUnits
  <2> QED BY <2>2 DEF Decoded, Decodings
<1>3. Accepted \in [1..(Len(log) \div 2) -> Decodings]
  BY <1>2 DEF Accepted
<1>4. Len(Accepted) = Len(log) \div 2
  BY <1>1, <1>3, FunctionSeq
<1> QED BY <1>1, <1>3, <1>4

\* The records that have been decoded do not change when the stream grows.
LEMMA DecodedKept ==
    ASSUME ClientInv, NEW s \in Senders, Put(s), Up, NEW k \in 1..(Len(log) \div 2)
    PROVE  Decoded(k)' = Decoded(k)
<1>1. 2 * k \in 1..Len(log) /\ 2 * k - 1 \in 1..Len(log)
  <2>1. Len(log) \in Nat
    BY PutLog
  <2> QED BY SMT, <2>1, Halves
<1>2. log'[2 * k] = log[2 * k] /\ log'[2 * k - 1] = log[2 * k - 1]
  BY <1>1, PutLog
<1> QED BY <1>2 DEF Decoded

\* A write that completes a record is Accept of that record.
LEMMA PutAccepts ==
    ASSUME ClientInv, NEW s \in Senders, Put(s), Up, ToNext(s) \/ ToIdle(s)
    PROVE  Stream!Accept(s, nr[s])
<1>1. Len(log) \in Nat /\ Len(log) \div 2 \in Nat
  BY PutLog, Halves
<1>2. PICK m \in Nat, L \in Nat : L = Len(log) /\ m = L \div 2
  BY <1>1
<1>3. pc[s] = "put" /\ left[s] \in 1..2 /\ nr[s] \in Nat
  BY SMTT(20), PutAlone DEF Put, Numbers
<1>4. /\ Len(log') = L + Len(Chunk(s))
      /\ Len(Chunk(s)) >= 1 => log'[L + 1] = Chunk(s)[1]
      /\ Len(Chunk(s)) >= 2 => log'[L + 2] = Chunk(s)[2]
      /\ \A i \in 1..L : log'[i] = log[i]
  BY <1>2, PutLog
<1>5. /\ L % 2 = 1 => half[s]
      /\ half[s] => L % 2 = 1 /\ log[L] = Unit(s, "length")
  BY <1>2, <1>3, PutAlone DEF ClientInv, Frames, Threads
<1>6. /\ Len(log') \div 2 = m + 1
      /\ log'[2 * m + 1] = Unit(s, "length")
      /\ log'[2 * m + 2] = Unit(s, "body")
  <2>1. CASE s \in RawSenders
    <3>1. /\ Len(Chunk(s)) = 2
          /\ Chunk(s)[1] = Unit(s, "length") /\ Chunk(s)[2] = Unit(s, "body")
      BY <1>3, <2>1, ChunkUnits
    <3>2. L = 2 * m /\ Len(log') \div 2 = m + 1
      BY SMTT(20), <1>2, <1>3, <1>4, <1>5, <2>1, <3>1, PutAlone, Halves
    <3> QED BY SMTT(20), <1>4, <3>1, <3>2
  <2>2. CASE s \notin RawSenders
    <3>1. half[s] /\ L % 2 = 1
      BY <1>5, <2>2 DEF ToNext, ToIdle
    <3>2. Len(Chunk(s)) = 1 /\ Chunk(s)[1] = Unit(s, "body")
      BY <1>3, <2>2, <3>1, ChunkUnits
    <3>3. L = 2 * m + 1 /\ Len(log') \div 2 = m + 1
      BY SMTT(20), <1>2, <1>4, <3>1, <3>2, Halves
    <3> QED BY SMTT(20), <1>4, <1>5, <3>1, <3>2, <3>3
  <2> QED BY <2>1, <2>2
<1>7. Decoded(m + 1)' = [from |-> s, nr |-> nr[s]]
  <2>1. 2 * (m + 1) - 1 = 2 * m + 1 /\ 2 * (m + 1) = 2 * m + 2
    BY SMT
  <2> QED BY SMT, <1>6, <2>1 DEF Decoded, Unit
<1>8. Accepted' = Append(Accepted, [from |-> s, nr |-> nr[s]])
  <2>1. /\ Accepted = [k \in 1..m |-> Decoded(k)]
        /\ Accepted' = [k \in 1..(m + 1) |-> Decoded(k)']
    BY <1>2, <1>6 DEF Accepted
  <2>2. Accepted \in [1..m -> Decodings]
    BY <1>2, AcceptedType DEF ClientInv
  <2>3. \A k \in 1..m : Decoded(k)' = Decoded(k)
    BY <1>2, DecodedKept
  <2>4. \A k \in 1..m : Decoded(k) \in Decodings /\ Decoded(k) = Accepted[k]
    BY <2>1, <2>2
  <2>5. [from |-> s, nr |-> nr[s]] \in Decodings
    BY <1>3 DEF Decodings
  <2>6. ASSUME NEW k \in 1..(m + 1) PROVE Decoded(k)' \in Decodings
    <3>1. CASE k \in 1..m
      BY <2>3, <2>4, <3>1, Zenon
    <3>2. CASE k = m + 1
      BY <1>7, <2>5, <3>2
    <3> QED BY SMT, <3>1, <3>2
  <2>7. Accepted' \in [1..(m + 1) -> Decodings]
    BY <2>1, <2>6
  <2>8. /\ \A k \in 1..m : Accepted'[k] = Accepted[k]
        /\ Accepted'[m + 1] = [from |-> s, nr |-> nr[s]]
    BY SMT, <1>7, <2>1, <2>3
  <2> QED BY SMT, <2>2, <2>7, <2>8, FunctionAppend
<1>9. ASSUME NEW i \in 1..Len(Accepted), Accepted[i].from = s
      PROVE  Accepted[i].nr < nr[s]
  <2>1. i \in 1..m /\ Accepted[i] = Decoded(i) /\ 2 * i \in 1..L
    BY SMT, <1>2, AcceptedType, Halves DEF ClientInv, Accepted
  <2>2. Accepted[i].from = log[2 * i].from /\ Accepted[i].nr = log[2 * i].nr
    BY SMTT(20), <1>9, <2>1, ClientAssumption DEF Decoded
  <2>3. ~(half[s] /\ 2 * i = L)
    BY SMT, <1>5, <2>1
  <2>4. \A j \in 1..Len(log) : log[j].from = s /\ left[s] > 0
            => log[j].nr < nr[s] \/ (half[s] /\ j = Len(log))
    BY DEF ClientInv, Frames
  <2>5. PICK j \in 1..L : j = 2 * i
    BY <2>1
  <2>6. log[j].from = s /\ log[j].nr = Accepted[i].nr
    BY <1>9, <2>2, <2>5
  <2>7. j \in 1..Len(log) /\ left[s] > 0 /\ ~(half[s] /\ j = Len(log))
    BY SMTT(20), <1>2, <1>3, <2>3, <2>5
  <2>8. log[j].nr < nr[s]
    BY <2>4, <2>6, <2>7, Zenon
  <2> QED BY <2>6, <2>8, Zenon
<1>10. Delivered' = Delivered
  BY DEF Put, Delivered
<1> QED BY <1>8, <1>9, <1>10 DEF Stream!Accept
\* A write of a length changes nothing that the agent can decode.
LEMMA PutStutters ==
    ASSUME ClientInv, NEW s \in Senders, Put(s), Up, ToBody(s)
    PROVE  Accepted' = Accepted /\ Delivered' = Delivered
<1>1. Len(log) \in Nat /\ Len(log) \div 2 \in Nat
  BY PutLog, Halves
<1>2. pc[s] = "put"
  BY DEF Put
<1>3. Len(log) % 2 = 0
  BY <1>1, <1>2, PutAlone, Halves DEF ToBody, ClientInv, Frames, Threads
<1>4. Len(log') = Len(log) + 1
  BY <1>2, PutLog, ChunkUnits DEF ToBody
<1>5. Len(log') \div 2 = Len(log) \div 2
  BY <1>1, <1>3, <1>4, Halves
<1>6. Accepted' = Accepted
  BY <1>5, DecodedKept DEF Accepted
<1> QED BY <1>6 DEF Put, Delivered

\* The agent reads a length, or the body that completes a record.
LEMMA ReadDelivers ==
    ASSUME ClientInv, AgentReads
    PROVE  Stream!Deliver \/ (Accepted' = Accepted /\ Delivered' = Delivered)
<1>1. /\ got \in Nat /\ Len(log) \in Nat /\ got < Len(log) /\ got' = got + 1 /\ log' = log
      /\ Len(Accepted) = Len(log) \div 2
  BY SMT, AcceptedType DEF AgentReads, writerVars, ClientInv, ClientTypeOK
<1>2. Accepted' = Accepted
  BY <1>1 DEF Accepted, Decoded
<1>3. CASE got % 2 = 0
  BY <1>1, <1>2, <1>3, Halves DEF Delivered
<1>4. CASE got % 2 = 1
  <2>1. got = 2 * (got \div 2) + 1 /\ (got + 1) \div 2 = got \div 2 + 1
    BY <1>1, <1>4, Halves
  <2>2. got \div 2 < Len(log) \div 2
    BY SMT, <1>1, <2>1, Halves
  <2> QED BY <1>1, <1>2, <2>1, <2>2 DEF Stream!Deliver, Delivered
<1> QED BY <1>1, <1>3, <1>4, Halves

LEMMA StreamStep ==
    ClientInv /\ [ClientNext]_clientVars => [Stream!Next]_<<Accepted, Delivered>>
<1> SUFFICES ASSUME ClientInv, [ClientNext]_clientVars
             PROVE  Stream!Next \/ (Accepted' = Accepted /\ Delivered' = Delivered)
  OBVIOUS
<1>1. CASE log' = log /\ got' = got
  BY <1>1 DEF Accepted, Decoded, Delivered
<1>2. CASE AgentReads
  BY <1>2, ReadDelivers DEF Stream!Next
<1>3. ASSUME NEW s \in Senders, Put(s)
      PROVE  Stream!Next \/ (Accepted' = Accepted /\ Delivered' = Delivered)
  <2>1. CASE ~Up
    BY <1>1, <1>3, <2>1 DEF Put
  <2>2. CASE Up /\ ToBody(s)
    BY <1>3, <2>2, PutStutters
  <2>3. CASE Up /\ (ToNext(s) \/ ToIdle(s))
    <3>1. nr[s] \in Numbers
      BY <1>3, PutAlone DEF Put
    <3> QED BY <1>3, <2>3, <3>1, PutAccepts DEF Stream!Next
  <2> QED BY <1>3, <2>1, <2>2, <2>3, PutGoesOn
<1>4. \/ log' = log /\ got' = got
      \/ AgentReads
      \/ \E s \in Senders : Put(s)
  BY DEF ClientNext, Step, Call, CallFlush, Lock, PutFull, FlushDone, FlushWrite, FlushFails,
         AgentLeaves, CloseOnTerm, Reuse, clientVars, writerVars
<1> QED BY <1>1, <1>2, <1>3, <1>4

\* The client implements RecordStream: whatever threads call send_record,
\* send_records, raw_write_all and raw_flush, and whenever an end of the pipe
\* goes away, the agent decodes whole records in the order they were taken.
THEOREM StreamImplemented == ClientSpec => ImplementsStream
<1>1. ClientInit => Stream!Init
  BY SMT DEF ClientInit, Stream!Init, Accepted, Delivered
<1> QED BY <1>1, StreamStep, ClientInvAlways, PTL
        DEF ClientSpec, ImplementsStream, Stream!Spec

-----------------------------------------------------------------------------
(* PluginLogger.                                                           *)

NextZip == CHOOSE n \in tozip : \A m \in tozip : n <= m
Original(n) == [nr |-> n, gz |-> FALSE]
Zipped(n) == [nr |-> n, gz |-> TRUE]

\* The .gz files are whole but for those of S.
WholeBut(g, S) == \A n \in DOMAIN g : g[n] = "whole" \/ (g[n] = "cut" /\ n \in S)

\* The files that are left when the mill has done what it is at.
Remaining ==
    IF millPc = "remove" THEN Listing \ doomed
    ELSE IF millPc = "write" THEN Listing \ {Original(NextZip)}
    ELSE Listing

\* The inductive invariant.  doomed are the oldest files also while new backups are
\* made; a .gz file that is cut is the one being written, next to its original, or
\* was interrupted; and a pass leaves no more than max_backups files if nothing has
\* signalled since it listed them.
LoggerInv ==
    /\ rotated \in Nat /\ \A m \in made : m \in Nat /\ m <= rotated
    /\ Kept \subseteq made
    /\ IsFiniteSet(Listing)
    /\ doomed \subseteq Listing /\ (millPc # "remove" => doomed = {})
    /\ \A f \in doomed, g \in Listing \ doomed : f.nr <= g.nr
    /\ \A n \in Kept, m \in made \ Kept : m < n
    /\ millPc = "write" => NextZip \in plain /\ NextZip \in DOMAIN gz
    /\ WholeBut(gz, IF millPc = "write" THEN interrupted \cup {NextZip} ELSE interrupted)
    /\ ~signal /\ rotated > idleSince /\ millPc # "list" => Cardinality(Remaining) <= MaxBackups

-----------------------------------------------------------------------------
\* The files of a directory with the backups p and the .gz files g.
Files(p, g) == [nr : p, gz : {FALSE}] \cup [nr : g, gz : {TRUE}]

LEMMA FileNames ==
    /\ \A n : Original(n).nr = n /\ Zipped(n).nr = n
    /\ \A n : Original(n).gz = FALSE /\ Zipped(n).gz = TRUE
    /\ \A n, m : Original(n) # Zipped(m)
    /\ \A n, m : Original(n) = Original(m) \/ Zipped(n) = Zipped(m) => n = m
<1>1. \A n : Original(n).nr = n /\ Zipped(n).nr = n
  BY DEF Original, Zipped
<1>2. \A n : Original(n).gz = FALSE /\ Zipped(n).gz = TRUE
  BY DEF Original, Zipped
<1>. QED
  BY <1>1, <1>2

LEMMA NamesAre ==
    ASSUME NEW p, NEW b, NEW f
    PROVE  f \in [nr : p, gz : {b}] <=> \E n \in p : f = [nr |-> n, gz |-> b]
<1>1. ASSUME f \in [nr : p, gz : {b}] PROVE f.nr \in p /\ f = [nr |-> f.nr, gz |-> b]
  BY SMT, <1>1
<1>2. ASSUME NEW n \in p, f = [nr |-> n, gz |-> b] PROVE f \in [nr : p, gz : {b}]
  BY SMT, <1>2
<1>. QED
  BY <1>1, <1>2

LEMMA FilesAre ==
    ASSUME NEW p, NEW g, NEW f
    PROVE  f \in Files(p, g) <=> (\E n \in p : f = Original(n)) \/ (\E n \in g : f = Zipped(n))
  BY NamesAre DEF Files, Original, Zipped

\* What is in the listing before and after a step.
LEMMA ListingIs ==
    ASSUME NEW f
    PROVE  /\ f \in Listing <=> (\E n \in plain : f = Original(n)) \/ (\E n \in DOMAIN gz : f = Zipped(n))
           /\ f \in Listing' <=> (\E n \in plain' : f = Original(n)) \/ (\E n \in DOMAIN gz' : f = Zipped(n))
<1>1. Listing = Files(plain, DOMAIN gz) /\ Listing' = Files(plain', DOMAIN gz')
  BY DEF Listing, Files
<1>2. f \in Files(plain, DOMAIN gz) <=> (\E n \in plain : f = Original(n)) \/ (\E n \in DOMAIN gz : f = Zipped(n))
  BY SMT, FilesAre
<1>3. f \in Files(plain', DOMAIN gz') <=> (\E n \in plain' : f = Original(n)) \/ (\E n \in DOMAIN gz' : f = Zipped(n))
  BY SMT, FilesAre
<1>. QED
  BY <1>1, <1>2, <1>3

\* A file more or less.
LEMMA OriginalAdded ==
    ASSUME NEW n, plain' = plain \cup {n}, gz' = gz
    PROVE  Listing' = Listing \cup {Original(n)}
<1>1. ASSUME NEW f PROVE f \in Listing' <=> f \in Listing \cup {Original(n)}
  <2>1. f \in Listing <=> (\E k \in plain : f = Original(k)) \/ (\E k \in DOMAIN gz : f = Zipped(k))
    BY ListingIs
  <2>2. f \in Listing' <=> (\E k \in plain' : f = Original(k)) \/ (\E k \in DOMAIN gz' : f = Zipped(k))
    BY ListingIs
  <2>. QED
    BY <2>1, <2>2
<1>. QED
  BY <1>1

LEMMA ZippedAdded ==
    ASSUME NEW n, plain' = plain, DOMAIN gz' = DOMAIN gz \cup {n}
    PROVE  Listing' = Listing \cup {Zipped(n)}
<1>1. ASSUME NEW f PROVE f \in Listing' <=> f \in Listing \cup {Zipped(n)}
  <2>1. f \in Listing <=> (\E k \in plain : f = Original(k)) \/ (\E k \in DOMAIN gz : f = Zipped(k))
    BY ListingIs
  <2>2. f \in Listing' <=> (\E k \in plain' : f = Original(k)) \/ (\E k \in DOMAIN gz' : f = Zipped(k))
    BY ListingIs
  <2>. QED
    BY <2>1, <2>2
<1>. QED
  BY <1>1

LEMMA OriginalRemoved ==
    ASSUME NEW n, plain' = plain \ {n}, gz' = gz
    PROVE  Listing' = Listing \ {Original(n)}
<1>1. ASSUME NEW f PROVE f \in Listing' <=> f \in Listing \ {Original(n)}
  <2>1. f \in Listing <=> (\E k \in plain : f = Original(k)) \/ (\E k \in DOMAIN gz : f = Zipped(k))
    BY ListingIs
  <2>2. f \in Listing' <=> (\E k \in plain' : f = Original(k)) \/ (\E k \in DOMAIN gz' : f = Zipped(k))
    BY ListingIs
  <2>. QED
    BY <2>1, <2>2, FileNames
<1>. QED
  BY <1>1

LEMMA ZippedRemoved ==
    ASSUME NEW n, plain' = plain, DOMAIN gz' = DOMAIN gz \ {n}
    PROVE  Listing' = Listing \ {Zipped(n)}
<1>1. ASSUME NEW f PROVE f \in Listing' <=> f \in Listing \ {Zipped(n)}
  <2>1. f \in Listing <=> (\E k \in plain : f = Original(k)) \/ (\E k \in DOMAIN gz : f = Zipped(k))
    BY ListingIs
  <2>2. f \in Listing' <=> (\E k \in plain' : f = Original(k)) \/ (\E k \in DOMAIN gz' : f = Zipped(k))
    BY ListingIs
  <2>. QED
    BY <2>1, <2>2, FileNames
<1>. QED
  BY <1>1

\* Adding an element, and putting one in the place of another.
LEMMA Smaller ==
    ASSUME NEW S, IsFiniteSet(S), NEW T, T \subseteq S, Cardinality(S) <= MaxBackups
    PROVE  Cardinality(T) <= MaxBackups
<1>1. Cardinality(S) \in Nat /\ Cardinality(T) \in Nat /\ Cardinality(T) <= Cardinality(S)
  BY FS_Subset, FS_CardinalityType
<1>. QED
  BY SMT, <1>1, LoggerAssumption

LEMMA Exchanged ==
    ASSUME NEW S, IsFiniteSet(S), NEW x \in S, NEW y, Cardinality(S) <= MaxBackups
    PROVE  Cardinality((S \cup {y}) \ {x}) <= MaxBackups
<1>. DEFINE R == S \ {x}
<1>1. IsFiniteSet(R) /\ Cardinality(R) = Cardinality(S) - 1 /\ Cardinality(S) \in Nat
  BY FS_RemoveElement, FS_CardinalityType
<1>2. /\ IsFiniteSet(R \cup {y}) /\ Cardinality(R \cup {y}) \in Nat
      /\ Cardinality(R \cup {y}) = Cardinality(R) \/ Cardinality(R \cup {y}) = Cardinality(R) + 1
  BY <1>1, FS_AddElement, FS_CardinalityType
<1>3. Cardinality(R \cup {y}) <= MaxBackups
  BY SMT, <1>1, <1>2, LoggerAssumption
<1>4. (S \cup {y}) \ {x} \subseteq R \cup {y}
  OBVIOUS
<1>. QED
  BY <1>2, <1>3, <1>4, Smaller

\* The files and the backups they are of.
LEMMA FilesOfKept ==
    /\ \A f \in Listing : \/ f = Original(f.nr) /\ f.gz = FALSE /\ f.nr \in plain
                          \/ f = Zipped(f.nr) /\ f.gz = TRUE /\ f.nr \in DOMAIN gz
    /\ \A f \in Listing : f.nr \in Kept
    /\ \A n \in Kept : \E f \in Listing : f.nr = n
<1>1. ASSUME NEW f PROVE f \in Listing <=> (\E n \in plain : f = Original(n)) \/ (\E n \in DOMAIN gz : f = Zipped(n))
  BY ListingIs
<1>2. ASSUME NEW f \in Listing PROVE \/ f = Original(f.nr) /\ f.gz = FALSE /\ f.nr \in plain
                                     \/ f = Zipped(f.nr) /\ f.gz = TRUE /\ f.nr \in DOMAIN gz
  <2>1. CASE \E n \in plain : f = Original(n)
    BY <2>1, FileNames
  <2>2. CASE \E n \in DOMAIN gz : f = Zipped(n)
    BY <2>2, FileNames
  <2>. QED
    BY <1>1, <2>1, <2>2
<1>3. ASSUME NEW n \in Kept PROVE \E f \in Listing : f.nr = n
  <2>1. CASE n \in plain
    <3>1. Original(n) \in Listing
      BY <1>1, <2>1
    <3>. QED
      BY <3>1, FileNames
  <2>2. CASE n \in DOMAIN gz
    <3>1. Zipped(n) \in Listing
      BY <1>1, <2>2
    <3>. QED
      BY <3>1, FileNames
  <2>. QED
    BY <2>1, <2>2 DEF Kept
<1>. QED
  BY <1>2, <1>3 DEF Kept

\* A step that leaves the invariant's variables alone.
LEMMA LoggerSame ==
    ASSUME LoggerInv,
           UNCHANGED <<plain, gz, signal, millPc, doomed, tozip, rotated, made, idleSince, interrupted>>
    PROVE  LoggerInv'
<1>1. Listing' = Listing /\ Kept' = Kept /\ NextZip' = NextZip
  BY DEF Listing, Kept, NextZip
<1>2. Remaining' = Remaining
  BY <1>1 DEF Remaining
<1>. QED
  BY <1>1, <1>2 DEF LoggerInv

\* A rotation adds a backup that is newer than all others, or none.
LEMMA RotateKeeps ==
    ASSUME LoggerInv, Rotate, UNCHANGED <<gz, millPc, doomed, tozip, idleSince, interrupted>>
    PROVE  LoggerInv'
<1>. DEFINE x == rotated + 1
<1>1. /\ rotated' = x /\ signal' = TRUE /\ made' = made \cup plain'
      /\ plain' = plain \/ plain' = plain \cup {x}
  BY DEF Rotate, Signal
<1>2. /\ rotated' \in Nat /\ \A m \in made : m \in Nat /\ m <= x /\ m < x
  BY SMT DEF LoggerInv, Rotate
<1>3. x \in Nat /\ x <= x
  BY SMT DEF LoggerInv
<1>. HIDE DEF x
<1>4. plain \subseteq made /\ DOMAIN gz \subseteq made /\ Kept = plain \cup DOMAIN gz
  BY DEF LoggerInv, Kept
<1>5. NextZip' = NextZip
  BY DEF NextZip
<1>6. CASE plain' = plain
  <2>1. made' = made /\ Listing' = Listing /\ Kept' = Kept
    BY <1>1, <1>4, <1>6 DEF Listing, Kept
  <2>. QED
    BY <1>1, <1>2, <1>5, <1>6, <2>1 DEF LoggerInv
<1>7. CASE plain' = plain \cup {x}
  <2>1. made' = made \cup {x} /\ Kept' = Kept \cup {x}
    BY <1>1, <1>4, <1>7 DEF Kept
  <2>2. Listing' = Listing \cup {Original(x)}
    BY <1>7, OriginalAdded
  <2>3. IsFiniteSet(Listing')
    BY <2>2, FS_AddElement DEF LoggerInv
  <2>4. \A f \in doomed, g \in Listing' \ doomed : f.nr <= g.nr
    <3>1. ASSUME NEW f \in doomed PROVE f.nr <= Original(x).nr
      BY <1>2, FilesOfKept, FileNames DEF LoggerInv
    <3>. QED
      BY <2>2, <3>1 DEF LoggerInv
  <2>5. \A n \in Kept', m \in made' \ Kept' : m < n
    BY <1>2, <1>4, <2>1 DEF LoggerInv
  <2>6. \A m \in made' : m \in Nat /\ m <= rotated'
    BY <1>1, <1>2, <1>3, <2>1
  <2>7. Kept' \subseteq made'
    BY <2>1 DEF LoggerInv
  <2>8. doomed' \subseteq Listing' /\ (millPc' # "remove" => doomed' = {})
    BY <2>2 DEF LoggerInv
  <2>9. WholeBut(gz', IF millPc' = "write" THEN interrupted' \cup {NextZip'} ELSE interrupted')
    BY <1>5 DEF LoggerInv
  <2>10. millPc' = "write" => NextZip' \in plain' /\ NextZip' \in DOMAIN gz'
    BY <1>5, <1>7 DEF LoggerInv
  <2>. QED
    BY <1>1, <1>2, <2>3, <2>4, <2>5, <2>6, <2>7, <2>8, <2>9, <2>10 DEF LoggerInv
<1>. QED
  BY <1>1, <1>6, <1>7

\* log().
LEMMA LogKeeps == ASSUME LoggerInv, Log PROVE LoggerInv'
<1>1. CASE Rotate
  BY <1>1, RotateKeeps DEF Log, millVars, historyVars
<1>2. CASE ~Rotate
  BY <1>2, LoggerSame DEF Log, millVars, historyVars
<1>. QED
  BY <1>1, <1>2

\* The mill is woken.
LEMMA RecvKeeps == ASSUME LoggerInv, MillRecv PROVE LoggerInv'
<1>1. /\ millPc = "recv" /\ millPc' = "list"
      /\ UNCHANGED <<plain, gz, doomed, tozip, rotated, made, idleSince, interrupted>>
  BY DEF MillRecv, diskVars, historyVars
<1>2. Listing' = Listing /\ Kept' = Kept /\ NextZip' = NextZip
  BY <1>1 DEF Listing, Kept, NextZip
<1>. QED
  BY <1>1, <1>2 DEF LoggerInv

\* The oldest files are doomed.
LEMMA ListKeeps == ASSUME LoggerInv, MillList PROVE LoggerInv'
<1>1. /\ millPc = "list" /\ millPc' = "remove"
      /\ UNCHANGED <<plain, gz, signal, rotated, made, idleSince, interrupted>>
  BY DEF MillList, diskVars, historyVars
<1>2. Listing' = Listing /\ Kept' = Kept
  BY <1>1 DEF Listing, Kept
<1>3. doomed' \subseteq Listing /\ Oldest(doomed')
  BY DEF MillList
<1>4. Cardinality(Listing \ doomed') <= MaxBackups
  <2>1. IsFiniteSet(Listing) /\ Cardinality(Listing) \in Nat
    BY FS_CardinalityType DEF LoggerInv
  <2>2. Cardinality(Listing \ doomed') = Cardinality(Listing) - Cardinality(Listing \cap doomed')
    BY <2>1, FS_Difference
  <2>3. Listing \cap doomed' = doomed'
    BY <1>3
  <2>4. Cardinality(doomed') = IF Cardinality(Listing) > MaxBackups
                               THEN Cardinality(Listing) - MaxBackups ELSE 0
    BY <1>3 DEF Oldest
  <2>5. Cardinality(Listing \ doomed') = Cardinality(Listing) - Cardinality(doomed')
    BY <2>2, <2>3
  <2>6. \A a \in Nat, b \in Nat : a - (IF a > b THEN a - b ELSE 0) <= b
    BY SMT
  <2>. QED
    BY <2>1, <2>4, <2>5, <2>6, LoggerAssumption
<1>5. Remaining' = Listing \ doomed'
  BY <1>1, <1>2 DEF Remaining
<1>6. \A f \in doomed', g \in Listing \ doomed' : f.nr <= g.nr
  BY <1>3 DEF Oldest
<1>. QED
  BY <1>1, <1>2, <1>3, <1>4, <1>5, <1>6 DEF LoggerInv

\* The oldest of the doomed files is removed: there is none older.
LEMMA RemoveFileKeeps ==
    ASSUME LoggerInv, MillRemove, doomed # {}
    PROVE  LoggerInv'
<1>1. PICK f \in doomed : /\ \A g \in doomed : f.nr <= g.nr
                          /\ doomed' = doomed \ {f}
                          /\ plain' = IF f.gz THEN plain ELSE plain \ {f.nr}
                          /\ gz' = IF f.gz THEN [n \in DOMAIN gz \ {f.nr} |-> gz[n]] ELSE gz
                          /\ UNCHANGED millPc
  BY DEF MillRemove
<1>2. /\ millPc = "remove" /\ millPc' = "remove"
      /\ UNCHANGED <<signal, tozip, rotated, made, idleSince, interrupted>>
  BY <1>1 DEF MillRemove, historyVars
<1>3. f \in Listing /\ IsFiniteSet(Listing) /\ doomed \subseteq Listing
  BY DEF LoggerInv
<1>4. /\ Listing' = Listing \ {f} /\ Kept' \subseteq Kept /\ Kept \subseteq Kept' \cup {f.nr}
      /\ DOMAIN gz' \subseteq DOMAIN gz /\ \A n \in DOMAIN gz' : gz'[n] = gz[n]
  <2>1. CASE f.gz = FALSE
    <3>1. f = Original(f.nr) /\ plain' = plain \ {f.nr} /\ gz' = gz
      BY <1>1, <1>3, <2>1, FilesOfKept
    <3>2. Listing' = Listing \ {Original(f.nr)}
      BY <3>1, OriginalRemoved
    <3>. QED
      BY <3>1, <3>2 DEF Kept
  <2>2. CASE f.gz = TRUE
    <3>1. f = Zipped(f.nr) /\ plain' = plain /\ gz' = [n \in DOMAIN gz \ {f.nr} |-> gz[n]]
      BY <1>1, <1>3, <2>2, FilesOfKept
    <3>2. DOMAIN gz' = DOMAIN gz \ {f.nr} /\ \A n \in DOMAIN gz' : gz'[n] = gz[n]
      BY <3>1
    <3>3. Listing' = Listing \ {Zipped(f.nr)}
      BY <3>1, <3>2, ZippedRemoved
    <3>. QED
      BY <3>1, <3>2, <3>3 DEF Kept
  <2>. QED
    BY <1>3, <2>1, <2>2, FilesOfKept
<1>5. IsFiniteSet(Listing')
  BY <1>3, <1>4, FS_RemoveElement
<1>6. doomed' \subseteq Listing' /\ Listing' \ doomed' = Listing \ doomed
  BY <1>1, <1>3, <1>4
<1>7. \A d \in doomed', g \in Listing' \ doomed' : d.nr <= g.nr
  BY <1>1, <1>6 DEF LoggerInv
<1>8. ASSUME NEW n \in Kept', NEW m \in made' \ Kept' PROVE m < n
  <2>1. n \in Kept /\ m \in made /\ n \in Nat /\ m \in Nat
    BY <1>2, <1>4 DEF LoggerInv
  <2>2. CASE m \notin Kept
    BY <2>1, <2>2 DEF LoggerInv
  <2>3. CASE m \in Kept
    <3>1. m = f.nr /\ m # n
      BY <1>4, <1>8, <2>3
    <3>2. PICK g \in Listing : g.nr = n
      BY <2>1, FilesOfKept
    <3>3. f.nr <= g.nr
      BY <1>1, <3>2 DEF LoggerInv
    <3>4. m <= n
      BY <3>1, <3>2, <3>3
    <3>. QED
      BY SMT, <2>1, <3>1, <3>4
  <2>. QED
    BY <2>2, <2>3
<1>9. Remaining' = Remaining
  BY <1>2, <1>6 DEF Remaining
<1>10. Kept' \subseteq made'
  BY <1>2, <1>4 DEF LoggerInv
<1>11. WholeBut(gz', interrupted')
  BY <1>2, <1>4 DEF LoggerInv, WholeBut
<1>12. ~signal' /\ rotated' > idleSince' => Cardinality(Remaining') <= MaxBackups
  BY <1>2, <1>9 DEF LoggerInv
<1>. QED
  BY <1>2, <1>5, <1>6, <1>7, <1>8, <1>10, <1>11, <1>12 DEF LoggerInv

LEMMA RemoveKeeps == ASSUME LoggerInv, MillRemove PROVE LoggerInv'
<1>1. CASE doomed = {}
  <2>1. /\ millPc = "remove" /\ millPc' = "zip" /\ doomed' = {}
        /\ UNCHANGED <<plain, gz, signal, tozip, rotated, made, idleSince, interrupted>>
    BY <1>1 DEF MillRemove, historyVars
  <2>2. Listing' = Listing /\ Kept' = Kept
    BY <2>1 DEF Listing, Kept
  <2>3. Remaining' = Remaining
    BY <1>1, <2>1, <2>2 DEF Remaining
  <2>4. WholeBut(gz', interrupted')
    BY <2>1 DEF LoggerInv
  <2>. QED
    BY <2>1, <2>2, <2>3, <2>4 DEF LoggerInv
<1>. QED
  BY <1>1, RemoveFileKeeps

\* A .gz file is created next to its original.
LEMMA ZipKeeps == ASSUME LoggerInv, MillZip PROVE LoggerInv'
<1>1. /\ millPc = "zip"
      /\ UNCHANGED <<plain, signal, doomed, rotated, made, idleSince, interrupted>>
  BY DEF MillZip, historyVars
<1>2. Remaining = Listing /\ doomed = {} /\ WholeBut(gz, interrupted)
  BY <1>1 DEF Remaining, LoggerInv
<1>3. CASE gz' = gz /\ millPc' \in {"zip", "recv"}
  <2>1. Listing' = Listing /\ Kept' = Kept
    BY <1>1, <1>3 DEF Listing, Kept
  <2>2. Remaining' = Listing
    BY <1>3, <2>1 DEF Remaining
  <2>. QED
    BY <1>1, <1>2, <1>3, <2>1, <2>2 DEF LoggerInv
<1>4. CASE /\ NextZip \in plain /\ millPc' = "write" /\ tozip' = tozip
           /\ gz' = [m \in DOMAIN gz \cup {NextZip} |-> IF m = NextZip THEN "cut" ELSE gz[m]]
  <2>. DEFINE x == NextZip
  <2>1. x \in plain /\ NextZip' = x
    BY <1>4 DEF NextZip
  <2>2. DOMAIN gz' = DOMAIN gz \cup {x} /\ gz'[x] = "cut" /\ \A m \in DOMAIN gz : m # x => gz'[m] = gz[m]
    BY <1>4
  <2>. HIDE DEF x
  <2>3. Kept' = Kept
    BY <1>1, <2>1, <2>2 DEF Kept
  <2>4. Listing' = Listing \cup {Zipped(x)}
    BY <1>1, <2>2, ZippedAdded
  <2>5. IsFiniteSet(Listing) /\ IsFiniteSet(Listing')
    BY <2>4, FS_AddElement DEF LoggerInv
  <2>6. Original(x) \in Listing
    BY <2>1, ListingIs
  <2>7. Remaining' = (Listing \cup {Zipped(x)}) \ {Original(x)}
    BY <1>4, <2>1, <2>4 DEF Remaining
  <2>8. Cardinality(Listing) <= MaxBackups => Cardinality(Remaining') <= MaxBackups
    BY <2>5, <2>6, <2>7, Exchanged
  <2>9. WholeBut(gz', interrupted' \cup {NextZip'})
    BY <1>1, <1>2, <2>1, <2>2 DEF WholeBut
  <2>10. ~signal' /\ rotated' > idleSince' => Cardinality(Remaining') <= MaxBackups
    BY <1>1, <1>2, <2>8 DEF LoggerInv
  <2>. QED
    BY <1>1, <1>2, <1>4, <2>1, <2>2, <2>3, <2>5, <2>9, <2>10 DEF LoggerInv
<1>. QED
  BY <1>3, <1>4 DEF MillZip, NextZip

\* The content is written, then the original removed.
LEMMA WriteKeeps == ASSUME LoggerInv, MillWrite PROVE LoggerInv'
<1>. DEFINE x == NextZip
<1>1. /\ millPc = "write" /\ doomed = {}
      /\ UNCHANGED <<signal, doomed, rotated, made, idleSince, interrupted>>
      /\ x \in plain /\ x \in DOMAIN gz
  BY DEF MillWrite, historyVars, LoggerInv
<1>2. /\ Remaining = Listing \ {Original(x)}
      /\ WholeBut(gz, interrupted \cup {x})
  BY <1>1 DEF Remaining, LoggerInv
<1>3. CASE gz' = [gz EXCEPT ![x] = "whole"] /\ UNCHANGED <<plain, tozip, millPc>>
  <2>1. /\ DOMAIN gz' = DOMAIN gz /\ NextZip' = x
        /\ \A n \in DOMAIN gz : gz'[n] = IF n = x THEN "whole" ELSE gz[n]
    BY <1>3 DEF NextZip
  <2>2. Listing' = Listing /\ Kept' = Kept
    BY <1>3, <2>1 DEF Listing, Kept
  <2>3. Remaining' = Remaining
    <3>1. Remaining' = Listing' \ {Original(NextZip')}
      BY <1>1, <1>3 DEF Remaining
    <3>. QED
      BY <1>2, <2>1, <2>2, <3>1
  <2>4. WholeBut(gz', interrupted' \cup {NextZip'})
    BY <1>1, <1>2, <2>1 DEF WholeBut
  <2>. QED
    BY <1>1, <1>3, <2>1, <2>2, <2>3, <2>4 DEF LoggerInv
<1>4. CASE gz[x] # "cut" /\ plain' = plain \ {x} /\ millPc' = "zip" /\ gz' = gz
  <2>. HIDE DEF x
  <2>1. Kept' = Kept
    BY <1>1, <1>4 DEF Kept
  <2>2. Listing' = Listing \ {Original(x)}
    BY <1>4, OriginalRemoved
  <2>3. IsFiniteSet(Listing')
    BY <2>2, FS_RemoveElement DEF LoggerInv
  <2>4. Remaining' = Remaining
    BY <1>2, <1>4, <2>2 DEF Remaining
  <2>5. WholeBut(gz', interrupted')
    BY <1>1, <1>2, <1>4 DEF WholeBut
  <2>. QED
    BY <1>1, <1>4, <2>1, <2>3, <2>4, <2>5 DEF LoggerInv
<1>. QED
  BY <1>3, <1>4 DEF MillWrite, NextZip

\* The plugin is killed at any step and started again.
LEMMA RestartKeeps == ASSUME LoggerInv, Restart PROVE LoggerInv'
<1>1. /\ millPc' = "recv" /\ doomed' = {} /\ idleSince' = rotated
      /\ interrupted' = interrupted \cup {n \in DOMAIN gz : gz[n] = "cut"}
      /\ UNCHANGED <<plain, gz, rotated, made>>
  BY DEF Restart, diskVars
<1>2. Listing' = Listing /\ Kept' = Kept
  BY <1>1 DEF Listing, Kept
<1>3. WholeBut(gz', interrupted')
  BY <1>1 DEF LoggerInv, WholeBut
<1>4. ~(rotated' > idleSince')
  BY SMT, <1>1 DEF LoggerInv
<1>. QED
  BY <1>1, <1>2, <1>3, <1>4 DEF LoggerInv

\* There are no backups at the start.
LEMMA LoggerStarts == LoggerInit => LoggerInv
<1>. SUFFICES ASSUME LoggerInit PROVE LoggerInv
  OBVIOUS
<1>1. /\ plain = {} /\ gz = << >> /\ millPc = "recv" /\ doomed = {} /\ rotated = 0 /\ made = {}
      /\ idleSince = 0
  BY DEF LoggerInit, LoggerStart
<1>2. DOMAIN gz = {}
  BY SMT, <1>1
<1>3. Listing = {} /\ Kept = {}
  BY <1>1, <1>2, ListingIs DEF Kept
<1>4. IsFiniteSet(Listing)
  BY <1>3, FS_EmptySet
<1>5. WholeBut(gz, interrupted)
  BY <1>2 DEF WholeBut
<1>6. rotated \in Nat /\ ~(rotated > idleSince)
  BY SMT, <1>1
<1>. QED
  BY <1>1, <1>3, <1>4, <1>5, <1>6 DEF LoggerInv

\* For any sizes and any number of rotations and restarts, backups go oldest first,
\* the mill leaves no more than max_backups files, and a backup it keeps is whole
\* unless a kill interrupted its compression (rotate, mill).
THEOREM BackupsAreKept == LoggerSpec => []BackupsKept
<1>1. LoggerInv /\ [LoggerNext]_loggerVars => LoggerInv'
  <2>. SUFFICES ASSUME LoggerInv, [LoggerNext]_loggerVars PROVE LoggerInv'
    OBVIOUS
  <2>1. CASE UNCHANGED loggerVars
    BY <2>1, LoggerSame DEF loggerVars
  <2>. QED
    BY <2>1, LogKeeps, RecvKeeps, ListKeeps, RemoveKeeps, ZipKeeps, WriteKeeps, RestartKeeps
    DEF LoggerNext
<1>2. LoggerInv => BackupsKept
  <2>. SUFFICES ASSUME LoggerInv PROVE BackupsKept
    OBVIOUS
  <2>1. \A n \in Kept, m \in made \ Kept : m < n
    BY DEF LoggerInv
  <2>2. millPc = "recv" /\ ~signal /\ rotated > idleSince => Cardinality(Listing) <= MaxBackups
    BY DEF LoggerInv, Remaining
  <2>3. ASSUME NEW n \in Kept \ interrupted PROVE n \in plain \/ gz[n] = "whole"
    <3>1. CASE millPc = "write"
      BY <2>3, <3>1 DEF LoggerInv, WholeBut, Kept
    <3>2. CASE millPc # "write"
      BY <2>3, <3>2 DEF LoggerInv, WholeBut, Kept
    <3>. QED
      BY <3>1, <3>2
  <2>. QED
    BY <2>1, <2>2, <2>3 DEF BackupsKept
<1>. QED
  BY <1>1, <1>2, LoggerStarts, PTL DEF LoggerSpec
=============================================================================
