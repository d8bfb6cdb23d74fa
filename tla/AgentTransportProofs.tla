------------------------ MODULE AgentTransportProofs ------------------------
(***************************************************************************)
(* Proofs about the agent's way to the server.  AgentBuffer, for any       *)
(* number of sources, objects and records and any capacity of the buffer:  *)
(* BufferTypeOK, NoAliasing, PluginOrder, NewestKept and CrashCause.       *)
(* AgentTransfer, for any connections, hosts and streams and any number of *)
(* uses and retries: the types, that nobody uses a connection that does not*)
(* exist (NoNilConnection), and that an update is not interrupted          *)
(* (UpdateUninterrupted).  TransportTypeOK of the two together.            *)
(***************************************************************************)
EXTENDS MCAgentTransport, TLAPS

\* Most leaves are first-order steps over named definitions and go to Zenon; one
\* that needs arithmetic, records or sequences asks for SMT.
USE ZenonT(30)

-----------------------------------------------------------------------------
(* AgentBuffer: the owners of an EncodedRecord.                            *)

\* No two records of a are the same object; a nil one may come twice.
Distinct(a) ==
    \A i, j \in DOMAIN a : a[i] # NilRecord /\ a[i].obj = a[j].obj => i = j

\* No record of a is an object of b.
Apart(a, b) ==
    \A i \in DOMAIN a, j \in DOMAIN b : a[i] # NilRecord => a[i].obj # b[j].obj

\* NoAliasing without the concatenation, and what PutEncodedRecords needs: after a
\* Send that did not panic there is no nil record to put back.
Owned ==
    /\ Distinct(buf) /\ Distinct(sending) /\ Apart(buf, sending)
    /\ \A s \in Sources : hold[s] # NilRecord =>
         /\ \A i \in DOMAIN buf : buf[i].obj # hold[s].obj
         /\ \A i \in DOMAIN sending : sending[i].obj # hold[s].obj
         /\ \A t \in Sources \ {s} : hold[t].obj # hold[s].obj
    /\ \A i \in DOMAIN buf : buf[i].obj \notin pool
    /\ \A i \in DOMAIN sending : sending[i].obj \notin pool
    /\ \A s \in Sources : hold[s].obj \notin pool
    /\ sendPc = "select" => sending = <<>>
    /\ sendPc = "put" /\ ~crashed => \A i \in DOMAIN sending : sending[i] # NilRecord

\* A nil record comes from a pipe cut in the length of a frame.
NilCause ==
    \/ \E p \in Plugins : feed[p] = "cut in length"
    \/ /\ ~crashed
       /\ \A i \in DOMAIN buf : buf[i] # NilRecord
       /\ \A i \in DOMAIN sending : sending[i] # NilRecord

Newest == newest # NilRecord => \E i \in DOMAIN buf : buf[i] = newest

\* The inductive invariant of ownership.
OwnInv == BufferTypeOK /\ Owned /\ NilCause /\ Newest

LEMMA RecordTyped ==
  ASSUME NEW x \in EncodedRecord
  PROVE  /\ x # NilRecord => x.obj \in Records /\ x.src \in Sources /\ x.num \in 1..MaxRecords
         /\ x = NilRecord <=> x.obj = NoObject
  BY SMT, BufferAssumption DEF EncodedRecord, NilRecord

LEMMA NilTyped ==
  /\ NilRecord \in EncodedRecord /\ NilRecord.obj = NoObject /\ NilRecord.src = NoObject
  /\ NoObject \notin Records /\ NoObject \notin Plugins
  BY BufferAssumption DEF EncodedRecord, NilRecord

LEMMA OwnInvInit == BufferInit => OwnInv
<1> SUFFICES ASSUME BufferInit PROVE OwnInv
  OBVIOUS
<1> USE BufferAssumption, NilTyped DEF BufferInit
<1>1. crashed \in BOOLEAN
  BY Zenon
<1>2. BufferTypeOK
  BY SMT, <1>1 DEF BufferTypeOK
<1>3. Owned
  BY SMT DEF Owned, Distinct, Apart
<1>4. NilCause /\ Newest
  BY SMT DEF NilCause, Newest
<1> QED BY <1>2, <1>3, <1>4 DEF OwnInv

\* What pool.Get hands out is nobody's.
LEMMA FilledIsFree ==
  ASSUME OwnInv, NEW s \in Sources, NEW r \in Records, Fill(s, r)
  PROVE  /\ \A i \in DOMAIN buf : buf[i].obj # r
         /\ \A i \in DOMAIN sending : sending[i].obj # r
         /\ \A t \in Sources : hold[t].obj # r
         /\ r \notin pool' /\ pool' \subseteq pool
<1> DEFINE fresh == Records \ (Referenced \cup pool)
<1>1. r \in pool \/ r \in fresh
  BY DEF Fill, GetEncodedRecord
<1>2. pool' = pool \ {r}
  BY DEF Fill, GetEncodedRecord
<1>3. CASE r \in pool
  BY <1>2, <1>3 DEF OwnInv, Owned
<1>4. CASE r \in fresh
  BY <1>2, <1>4 DEF Referenced, Objects
<1> QED BY <1>1, <1>3, <1>4

LEMMA NextNumber ==
  ASSUME NEW k \in 0..MaxRecords, k < MaxRecords
  PROVE  k + 1 \in 1..MaxRecords /\ k + 1 \in 0..MaxRecords
  BY SMT, BufferAssumption

LEMMA NewRecord ==
  ASSUME NEW s \in Sources, NEW r \in Records, NEW k \in 1..MaxRecords
  PROVE  LET new == [obj |-> r, src |-> s, num |-> k] IN
         new \in EncodedRecord /\ new.obj = r /\ new # NilRecord
  BY SMT, NilTyped DEF EncodedRecord

LEMMA FillKeeps ==
  ASSUME OwnInv, NEW s \in Sources, NEW r \in Records, Fill(s, r),
         UNCHANGED <<buf, sending, sendPc, newest, crashed>>,
         feed' \in [Plugins -> {"open", "end", "cut in payload", "cut in length"}],
         \A p \in Plugins : feed[p] = "cut in length" => feed'[p] = "cut in length"
  PROVE  OwnInv'
<1> DEFINE new == [obj |-> r, src |-> s, num |-> made[s] + 1]
<1>0. made \in [Sources -> 0..MaxRecords] /\ made[s] < MaxRecords /\ MaxRecords \in Nat
  BY BufferAssumption DEF OwnInv, BufferTypeOK, Fill
<1>1. made[s] + 1 \in 1..MaxRecords /\ made[s] + 1 \in 0..MaxRecords
  BY <1>0, NextNumber
<1>2. new \in EncodedRecord /\ new.obj = r /\ new # NilRecord
  BY <1>1, NewRecord
<1>3. hold' = [hold EXCEPT ![s] = new] /\ made' = [made EXCEPT ![s] = @ + 1]
  BY DEF Fill
<1> HIDE DEF new
<1>4. BufferTypeOK'
  <2>1. pool' \in SUBSET Records
    BY FilledIsFree DEF OwnInv, BufferTypeOK
  <2>2. hold' \in [Sources -> EncodedRecord]
    BY <1>2, <1>3 DEF OwnInv, BufferTypeOK
  <2>3. made' \in [Sources -> 0..MaxRecords]
    BY <1>0, <1>1, <1>3
  <2> QED BY <2>1, <2>2, <2>3 DEF OwnInv, BufferTypeOK
<1>5. \A t \in Sources : hold'[t] = IF t = s THEN new ELSE hold[t]
  BY <1>3 DEF OwnInv, BufferTypeOK
<1>6. Owned'
  <2>1. /\ \A i \in DOMAIN buf : buf[i].obj # r
        /\ \A i \in DOMAIN sending : sending[i].obj # r
        /\ \A t \in Sources : hold[t].obj # r
        /\ r \notin pool' /\ pool' \subseteq pool
    BY FilledIsFree
  <2>2. \A t \in Sources : hold'[t].obj = IF t = s THEN r ELSE hold[t].obj
    BY <1>2, <1>5
  <2>3. \A t \in Sources : t # s => hold'[t] = hold[t]
    BY <1>5
  <2>4. ASSUME NEW t \in Sources, hold'[t] # NilRecord
        PROVE  /\ \A i \in DOMAIN buf : buf[i].obj # hold'[t].obj
               /\ \A i \in DOMAIN sending : sending[i].obj # hold'[t].obj
               /\ \A u \in Sources \ {t} : hold'[u].obj # hold'[t].obj
    <3>1. CASE t = s
      BY <2>1, <2>2, <3>1
    <3>2. CASE t # s
      <4>1. hold'[t] = hold[t] /\ hold[t] # NilRecord
        BY <2>3, <2>4, <3>2
      <4>2. /\ \A i \in DOMAIN buf : buf[i].obj # hold[t].obj
            /\ \A i \in DOMAIN sending : sending[i].obj # hold[t].obj
            /\ \A u \in Sources \ {t} : hold[u].obj # hold[t].obj
        BY <4>1 DEF OwnInv, Owned
      <4> QED BY <2>1, <2>2, <4>1, <4>2
    <3> QED BY <3>1, <3>2
  <2>5. \A t \in Sources : hold'[t].obj \notin pool'
    BY <2>1, <2>2 DEF OwnInv, Owned
  <2> QED BY <2>1, <2>4, <2>5 DEF OwnInv, Owned, Distinct, Apart
<1>7. NilCause' /\ Newest'
  BY DEF OwnInv, NilCause, Newest
<1> QED BY <1>4, <1>6, <1>7 DEF OwnInv

\* The buffer with one more record at its end, or with one overwritten.
LEMMA AppendTyped ==
  ASSUME NEW a \in Seq(EncodedRecord), NEW x \in EncodedRecord
  PROVE  /\ Append(a, x) \in Seq(EncodedRecord)
         /\ Len(Append(a, x)) = Len(a) + 1
         /\ DOMAIN Append(a, x) = DOMAIN a \cup {Len(a) + 1}
         /\ \A i \in DOMAIN a : Append(a, x)[i] = a[i]
         /\ Append(a, x)[Len(a) + 1] = x
         /\ Len(a) + 1 \notin DOMAIN a
  BY SMT

\* Source s hands its record to the buffer, at place k and nowhere else.
LEMMA StoredIsOwned ==
  ASSUME OwnInv, NEW s \in Sources, hold[s] # NilRecord,
         NEW k, k \in DOMAIN buf', buf'[k] = hold[s],
         \A i \in DOMAIN buf' : i # k => i \in DOMAIN buf /\ buf'[i] = buf[i],
         hold' = [hold EXCEPT ![s] = NilRecord],
         UNCHANGED <<pool, sending, sendPc, crashed>>
  PROVE  Owned'
<1>1. /\ \A i \in DOMAIN buf : buf[i].obj # hold[s].obj
      /\ \A i \in DOMAIN sending : sending[i].obj # hold[s].obj
      /\ \A t \in Sources \ {s} : hold[t].obj # hold[s].obj
      /\ hold[s].obj \notin pool
  BY DEF OwnInv, Owned
<1>2. \A t \in Sources : hold'[t] = IF t = s THEN NilRecord ELSE hold[t]
  BY DEF OwnInv, BufferTypeOK
<1>3. Distinct(buf')
  BY <1>1 DEF OwnInv, Owned, Distinct
<1>4. Apart(buf', sending')
  BY SMT, <1>1 DEF OwnInv, Owned, Apart
<1>5. ASSUME NEW t \in Sources, hold'[t] # NilRecord
      PROVE  /\ \A i \in DOMAIN buf' : buf'[i].obj # hold'[t].obj
             /\ \A i \in DOMAIN sending' : sending'[i].obj # hold'[t].obj
             /\ \A u \in Sources \ {t} : hold'[u].obj # hold'[t].obj
  <2>1. t # s /\ hold'[t] = hold[t] /\ hold[t] # NilRecord
    BY <1>2, <1>5
  <2>2. /\ \A i \in DOMAIN buf : buf[i].obj # hold[t].obj
        /\ \A i \in DOMAIN sending : sending[i].obj # hold[t].obj
        /\ \A u \in Sources \ {t} : hold[u].obj # hold[t].obj
    BY <2>1 DEF OwnInv, Owned
  <2>3. hold[t].obj # NilRecord.obj
    BY <2>1, RecordTyped, NilTyped DEF OwnInv, BufferTypeOK
  <2> QED BY SMT, <1>1, <1>2, <2>1, <2>2, <2>3
<1>6. /\ \A i \in DOMAIN buf' : buf'[i].obj \notin pool'
      /\ \A i \in DOMAIN sending' : sending'[i].obj \notin pool'
  BY <1>1 DEF OwnInv, Owned
<1>7. \A t \in Sources : hold'[t].obj \notin pool'
  BY <1>2, NilTyped DEF OwnInv, Owned, BufferTypeOK
<1>8. /\ sendPc' = "select" => sending' = <<>>
      /\ sendPc' = "put" /\ ~crashed' => \A i \in DOMAIN sending' : sending'[i] # NilRecord
  BY DEF OwnInv, Owned
<1>9. Distinct(sending')
  BY DEF OwnInv, Owned, Distinct
<1> QED BY <1>3, <1>4, <1>5, <1>6, <1>7, <1>8, <1>9 DEF Owned

\* A record that the full buffer drops is nobody's any more.
LEMMA DroppedIsOwned ==
  ASSUME OwnInv, NEW s \in Sources, hold' = [hold EXCEPT ![s] = NilRecord],
         UNCHANGED <<pool, buf, sending, sendPc, crashed>>
  PROVE  Owned'
<1>1. \A t \in Sources : hold'[t] = IF t = s THEN NilRecord ELSE hold[t]
  BY DEF OwnInv, BufferTypeOK
<1>2. ASSUME NEW t \in Sources, hold'[t] # NilRecord
      PROVE  /\ \A i \in DOMAIN buf : buf[i].obj # hold'[t].obj
             /\ \A i \in DOMAIN sending : sending[i].obj # hold'[t].obj
             /\ \A u \in Sources \ {t} : hold'[u].obj # hold'[t].obj
  <2>1. hold'[t] = hold[t] /\ hold[t] # NilRecord
    BY <1>1, <1>2
  <2>2. /\ \A i \in DOMAIN buf : buf[i].obj # hold[t].obj
        /\ \A i \in DOMAIN sending : sending[i].obj # hold[t].obj
        /\ \A u \in Sources \ {t} : hold[u].obj # hold[t].obj
    BY <2>1 DEF OwnInv, Owned
  <2>3. hold[t].obj # NilRecord.obj
    BY <2>1, RecordTyped, NilTyped DEF OwnInv, BufferTypeOK
  <2> QED BY <1>1, <2>1, <2>2, <2>3
<1>3. \A t \in Sources : hold'[t].obj \notin pool
  BY <1>1, NilTyped DEF OwnInv, Owned, BufferTypeOK
<1> QED BY SMT, <1>2, <1>3 DEF OwnInv, Owned, Distinct, Apart

LEMMA WriteEncodedKeeps ==
  ASSUME OwnInv, NEW p \in Plugins, WriteEncodedRecord(p) PROVE OwnInv'
<1>0. p \in Sources /\ hold[p] \in EncodedRecord /\ hold[p] # NilRecord
      /\ hold' = [hold EXCEPT ![p] = NilRecord]
  BY DEF WriteEncodedRecord, Sources, OwnInv, BufferTypeOK
<1>1. hold' \in [Sources -> EncodedRecord]
  BY <1>0, NilTyped DEF OwnInv, BufferTypeOK
<1>2. CASE Len(buf) < Cap
  <2>1. buf' = Append(buf, hold[p]) /\ buf \in Seq(EncodedRecord)
    BY <1>2 DEF WriteEncodedRecord, OwnInv, BufferTypeOK
  <2>2. /\ buf' \in Seq(EncodedRecord) /\ Len(buf') = Len(buf) + 1
        /\ DOMAIN buf' = DOMAIN buf \cup {Len(buf) + 1}
        /\ \A i \in DOMAIN buf : buf'[i] = buf[i]
        /\ buf'[Len(buf) + 1] = hold[p]
    BY SMT, <1>0, <2>1, AppendTyped
  <2>3. Len(buf') <= Cap
    BY SMT, <1>2, <2>1, <2>2, BufferAssumption
  <2>4. BufferTypeOK'
    BY <1>1, <2>2, <2>3 DEF WriteEncodedRecord, OwnInv, BufferTypeOK
  <2>5. Owned'
    BY <1>0, <2>2, StoredIsOwned DEF WriteEncodedRecord
  <2>6. NilCause' /\ Newest'
    BY <1>0, <2>2 DEF WriteEncodedRecord, OwnInv, NilCause, Newest
  <2> QED BY <2>4, <2>5, <2>6 DEF OwnInv
<1>3. CASE ~(Len(buf) < Cap)
  <2>1. UNCHANGED <<pool, buf, made, feed, sending, sendPc, newest, crashed>>
    BY <1>3 DEF WriteEncodedRecord
  <2>2. BufferTypeOK'
    BY <1>1, <2>1 DEF OwnInv, BufferTypeOK
  <2>3. Owned'
    BY <1>0, <2>1, DroppedIsOwned
  <2>4. NilCause' /\ Newest'
    BY <2>1 DEF OwnInv, NilCause, Newest
  <2> QED BY <2>2, <2>3, <2>4 DEF OwnInv
<1> QED BY <1>2, <1>3

LEMMA WriteRecordKeeps ==
  ASSUME OwnInv, NEW w \in Writers, WriteRecord(w) PROVE OwnInv'
<1>0. w \in Sources /\ hold[w] \in EncodedRecord /\ hold[w] # NilRecord
      /\ hold' = [hold EXCEPT ![w] = NilRecord]
  BY DEF WriteRecord, Sources, OwnInv, BufferTypeOK
<1>1. hold' \in [Sources -> EncodedRecord]
  BY <1>0, NilTyped DEF OwnInv, BufferTypeOK
<1>2. PICK k : /\ buf' \in Seq(EncodedRecord) /\ Len(buf') <= Cap
               /\ k \in DOMAIN buf' /\ buf'[k] = hold[w]
               /\ \A i \in DOMAIN buf' : i # k => i \in DOMAIN buf /\ buf'[i] = buf[i]
  <2>1. CASE Len(buf) < Cap
    <3>1. buf' = Append(buf, hold[w]) /\ buf \in Seq(EncodedRecord)
      BY <2>1 DEF WriteRecord, OwnInv, BufferTypeOK
    <3>2. /\ buf' \in Seq(EncodedRecord) /\ Len(buf') = Len(buf) + 1
          /\ DOMAIN buf' = DOMAIN buf \cup {Len(buf) + 1}
          /\ \A i \in DOMAIN buf : buf'[i] = buf[i]
          /\ buf'[Len(buf) + 1] = hold[w]
      BY SMT, <1>0, <3>1, AppendTyped
    <3>3. Len(buf') <= Cap
      BY SMT, <2>1, <3>1, <3>2, BufferAssumption
    <3> QED BY <3>2, <3>3
  <2>2. CASE ~(Len(buf) < Cap)
    <3>1. buf' = [buf EXCEPT ![1] = hold[w]] /\ buf \in Seq(EncodedRecord) /\ Len(buf) <= Cap
      BY <2>2 DEF WriteRecord, OwnInv, BufferTypeOK
    <3>2. 1 \in DOMAIN buf
      BY SMT, <2>2, <3>1, BufferAssumption
    <3>3. /\ buf' \in Seq(EncodedRecord) /\ Len(buf') = Len(buf) /\ DOMAIN buf' = DOMAIN buf
          /\ buf'[1] = hold[w] /\ \A i \in DOMAIN buf' : i # 1 => buf'[i] = buf[i]
      BY SMT, <1>0, <3>1, <3>2
    <3> QED BY <3>1, <3>2, <3>3
  <2> QED BY <2>1, <2>2
<1>3. UNCHANGED <<pool, made, feed, sending, sendPc, crashed>> /\ newest' = hold[w]
  BY DEF WriteRecord
<1>4. BufferTypeOK'
  BY <1>0, <1>1, <1>2, <1>3 DEF OwnInv, BufferTypeOK
<1>5. Owned'
  BY <1>0, <1>2, <1>3, StoredIsOwned
<1>6. NilCause'
  BY <1>0, <1>2, <1>3 DEF OwnInv, NilCause
<1>7. Newest'
  BY <1>2, <1>3 DEF Newest
<1> QED BY <1>4, <1>5, <1>6, <1>7 DEF OwnInv

\* A nil record is no object, so it does not matter how many there are.
LEMMA CutLengthKeeps ==
  ASSUME OwnInv, NEW p \in Plugins, ReceiveCutLength(p) PROVE OwnInv'
<1>0. /\ UNCHANGED <<pool, hold, made, sending, sendPc, newest, crashed>>
      /\ feed' = [feed EXCEPT ![p] = "cut in length"]
  BY DEF ReceiveCutLength
<1>a. buf \in Seq(EncodedRecord) /\ Len(buf) <= Cap
  BY DEF OwnInv, BufferTypeOK
<1>1. /\ feed' \in [Plugins -> {"open", "end", "cut in payload", "cut in length"}]
      /\ feed'[p] = "cut in length"
  BY <1>0 DEF OwnInv, BufferTypeOK
<1>2. NilCause'
  BY <1>1 DEF NilCause
<1>3. CASE buf' = buf
  BY <1>0, <1>1, <1>2, <1>3 DEF OwnInv, BufferTypeOK, Owned, Distinct, Apart, Newest
<1>4. CASE buf' # buf
  <2>1. Len(buf) < Cap /\ buf' = Append(buf, NilRecord)
    BY <1>4 DEF ReceiveCutLength
  <2>2. /\ buf' \in Seq(EncodedRecord) /\ Len(buf') = Len(buf) + 1
        /\ DOMAIN buf' = DOMAIN buf \cup {Len(buf) + 1}
        /\ \A i \in DOMAIN buf : buf'[i] = buf[i]
        /\ buf'[Len(buf) + 1] = NilRecord
    BY SMT, <1>a, <2>1, AppendTyped, NilTyped
  <2>3. Len(buf') <= Cap
    BY SMT, <1>a, <2>1, <2>2, BufferAssumption
  <2>4. BufferTypeOK'
    BY <1>0, <1>1, <2>2, <2>3 DEF OwnInv, BufferTypeOK
  <2>5. \A x \in EncodedRecord : x # NilRecord => x.obj # NilRecord.obj
    BY RecordTyped, NilTyped
  <2>6. \A i \in DOMAIN buf : buf[i] \in EncodedRecord
    BY SMT, <1>a
  <2>7. Distinct(buf')
    BY <2>2, <2>5, <2>6 DEF OwnInv, Owned, Distinct
  <2>8. Apart(buf', sending')
    BY <1>0, <2>2 DEF OwnInv, Owned, Apart
  <2>9. \A s \in Sources : hold[s] # NilRecord => \A i \in DOMAIN buf' : buf'[i].obj # hold[s].obj
    BY <2>2, <2>5 DEF OwnInv, Owned, BufferTypeOK
  <2>10. \A i \in DOMAIN buf' : buf'[i].obj \notin pool
    BY <2>2, NilTyped DEF OwnInv, Owned, BufferTypeOK
  <2>11. Owned'
    BY <1>0, <2>7, <2>8, <2>9, <2>10 DEF OwnInv, Owned, Distinct
  <2>12. Newest'
    BY <1>0, <2>2 DEF OwnInv, Newest
  <2> QED BY <1>2, <2>4, <2>11, <2>12 DEF OwnInv
<1> QED BY <1>3, <1>4

LEMMA EndsKeeps ==
  ASSUME OwnInv, NEW p \in Plugins, ReceiveEnds(p) PROVE OwnInv'
<1>1. /\ feed' \in [Plugins -> {"open", "end", "cut in payload", "cut in length"}]
      /\ \A q \in Plugins : feed[q] = "cut in length" => feed'[q] = "cut in length"
  BY DEF ReceiveEnds, OwnInv, BufferTypeOK
<1>2. BufferTypeOK' /\ NilCause'
  BY <1>1 DEF ReceiveEnds, OwnInv, BufferTypeOK, NilCause
<1>3. Owned' /\ Newest'
  BY DEF ReceiveEnds, OwnInv, Owned, Distinct, Apart, Newest
<1> QED BY <1>2, <1>3 DEF OwnInv

LEMMA ReadKeeps == ASSUME OwnInv, ReadEncodedRecords PROVE OwnInv'
<1>0. /\ sending' = buf /\ buf' = <<>> /\ sendPc' = "send" /\ newest' = NilRecord
      /\ UNCHANGED <<pool, hold, made, feed, crashed>>
  BY DEF ReadEncodedRecords
<1>a. <<>> \in Seq(EncodedRecord) /\ Len(<<>>) <= Cap
  BY SMT, BufferAssumption
<1>1. BufferTypeOK'
  BY <1>0, <1>a, NilTyped DEF OwnInv, BufferTypeOK
<1>2. Owned'
  BY SMT, <1>0 DEF OwnInv, Owned, Distinct, Apart
<1>3. NilCause'
  <2>1. CASE \E p \in Plugins : feed[p] = "cut in length"
    BY <1>0, <2>1 DEF NilCause
  <2>2. CASE ~\E p \in Plugins : feed[p] = "cut in length"
    <3>1. ~crashed' /\ \A i \in DOMAIN sending' : sending'[i] # NilRecord
      BY <1>0, <2>2 DEF OwnInv, NilCause
    <3>2. \A i \in DOMAIN buf' : buf'[i] # NilRecord
      BY SMT, <1>0
    <3> QED BY <3>1, <3>2 DEF NilCause
  <2> QED BY <2>1, <2>2
<1>4. Newest'
  BY <1>0 DEF Newest
<1> QED BY <1>1, <1>2, <1>3, <1>4 DEF OwnInv

LEMMA SendKeeps == ASSUME OwnInv, Send \/ SendError PROVE OwnInv'
<1>0. /\ ~crashed /\ sendPc' = "put" /\ sendPc = "send"
      /\ crashed' = (NilRecord \in Range(sending))
      /\ UNCHANGED <<pool, buf, hold, made, feed, sending, newest>>
  BY DEF Send, SendError
<1>1. crashed' \in BOOLEAN
  <2>1. crashed' = (NilRecord \in Range(sending))
    BY DEF Send, SendError
  <2>2. (NilRecord \in Range(sending)) \in BOOLEAN
    BY SMT
  <2> QED BY <2>1, <2>2, Zenon
<1>2. crashed' <=> \E i \in DOMAIN sending : sending[i] = NilRecord
  BY <1>0 DEF Range
<1>3. BufferTypeOK'
  BY <1>0, <1>1 DEF OwnInv, BufferTypeOK
<1>4. Owned'
  BY <1>0, <1>2 DEF OwnInv, Owned, Distinct, Apart
<1>5. NilCause' /\ Newest'
  BY <1>0, <1>2 DEF OwnInv, NilCause, Newest
<1> QED BY <1>3, <1>4, <1>5 DEF OwnInv

\* The objects of the records sent go back to the pool; nobody else has them.
LEMMA PutKeeps == ASSUME OwnInv, PutEncodedRecords PROVE OwnInv'
<1>0. /\ ~crashed /\ sendPc = "put"
      /\ pool' = pool \cup Objects(sending) /\ sending' = <<>> /\ sendPc' = "select"
      /\ UNCHANGED <<buf, hold, made, feed, newest, crashed>>
  BY DEF PutEncodedRecords
<1>a. \A i \in DOMAIN sending : sending[i] \in EncodedRecord
  <2>1. sending \in Seq(EncodedRecord)
    BY DEF OwnInv, BufferTypeOK
  <2> QED BY SMT, <2>1
<1>1. \A i \in DOMAIN sending : sending[i] # NilRecord /\ sending[i] \in EncodedRecord
  BY <1>0, <1>a DEF OwnInv, Owned
<1>2. Objects(sending) \subseteq Records
  BY <1>1, RecordTyped DEF Objects
<1>b. <<>> \in Seq(EncodedRecord)
  BY SMT
<1>3. BufferTypeOK'
  BY <1>0, <1>b, <1>2 DEF OwnInv, BufferTypeOK
<1>4. \A i \in DOMAIN buf : buf[i].obj \notin pool'
  <2> SUFFICES ASSUME NEW i \in DOMAIN buf, NEW j \in DOMAIN sending
               PROVE  buf[i].obj # sending[j].obj
    BY <1>0 DEF Objects, OwnInv, Owned
  <2>1. CASE buf[i] = NilRecord
    BY <1>1, <2>1, RecordTyped, NilTyped
  <2>2. CASE buf[i] # NilRecord
    BY <2>2 DEF OwnInv, Owned, Apart
  <2> QED BY <2>1, <2>2
<1>5. \A s \in Sources : hold[s].obj \notin pool'
  <2> SUFFICES ASSUME NEW s \in Sources, NEW j \in DOMAIN sending
               PROVE  hold[s].obj # sending[j].obj
    BY <1>0 DEF Objects, OwnInv, Owned
  <2>1. CASE hold[s] = NilRecord
    BY <1>1, <2>1, RecordTyped, NilTyped
  <2>2. CASE hold[s] # NilRecord
    BY <2>2 DEF OwnInv, Owned
  <2> QED BY <2>1, <2>2
<1>6. Owned'
  BY SMT, <1>0, <1>4, <1>5 DEF OwnInv, Owned, Distinct, Apart
<1>7. NilCause'
  <2>1. \A i \in DOMAIN sending' : sending'[i] # NilRecord
    BY SMT, <1>0
  <2> QED BY <1>0, <2>1 DEF OwnInv, NilCause
<1>8. Newest'
  BY <1>0 DEF OwnInv, Newest
<1> QED BY <1>3, <1>6, <1>7, <1>8 DEF OwnInv

LEMMA OwnInvNext == OwnInv /\ [BufferNext]_bufferVars => OwnInv'
<1> SUFFICES ASSUME OwnInv, [BufferNext]_bufferVars PROVE OwnInv'
  OBVIOUS
<1>1. ASSUME NEW p \in Plugins, NEW r \in Records, ReceiveData(p, r) \/ ReceiveCutPayload(p, r)
      PROVE  OwnInv'
  <2>1. /\ feed' \in [Plugins -> {"open", "end", "cut in payload", "cut in length"}]
        /\ \A q \in Plugins : feed[q] = "cut in length" => feed'[q] = "cut in length"
    BY <1>1 DEF ReceiveData, ReceiveCutPayload, OwnInv, BufferTypeOK
  <2>2. Fill(p, r) /\ p \in Sources /\ UNCHANGED <<buf, sending, sendPc, newest, crashed>>
    BY <1>1 DEF ReceiveData, ReceiveCutPayload, Sources
  <2> QED BY <2>1, <2>2, FillKeeps
<1>2. ASSUME NEW w \in Writers, NEW r \in Records, EncodeRecord(w, r) PROVE OwnInv'
  <2>1. /\ feed' \in [Plugins -> {"open", "end", "cut in payload", "cut in length"}]
        /\ feed' = feed
    BY <1>2 DEF EncodeRecord, OwnInv, BufferTypeOK
  <2>2. Fill(w, r) /\ w \in Sources /\ UNCHANGED <<buf, sending, sendPc, newest, crashed>>
    BY <1>2 DEF EncodeRecord, Sources
  <2> QED BY <2>1, <2>2, FillKeeps
<1>3. CASE UNCHANGED bufferVars
  BY <1>3 DEF bufferVars, OwnInv, BufferTypeOK, Owned, Distinct, Apart, NilCause, Newest
<1> QED BY <1>1, <1>2, <1>3, CutLengthKeeps, EndsKeeps, WriteEncodedKeeps, WriteRecordKeeps,
           ReadKeeps, SendKeeps, PutKeeps DEF BufferNext

LEMMA OwnInvAlways == BufferSpec => []OwnInv
  BY OwnInvInit, OwnInvNext, PTL DEF BufferSpec

-----------------------------------------------------------------------------
(* The order of a plugin's records.                                        *)

\* Of the records of one plugin, a has the lower numbers first.
Sorted(a) ==
    \A i, j \in DOMAIN a :
        i < j /\ a[i].src = a[j].src /\ a[i].src \in Plugins => a[i].num < a[j].num

\* Those of a come before those of b.
Before(a, b) ==
    \A i \in DOMAIN a, j \in DOMAIN b :
        a[i].src = b[j].src /\ a[i].src \in Plugins => a[i].num < b[j].num

\* Those of a are made, and are not the one their plugin holds.
Made(a) ==
    \A i \in DOMAIN a : a[i].src \in Plugins =>
        /\ a[i].num <= made[a[i].src]
        /\ hold[a[i].src] # NilRecord => a[i].num < made[a[i].src]

SentRecord == [src : Sources \cup {NoObject}, num : Nat]

\* On its way from the plugin to the server no record overtakes another: what is sent
\* comes before what is being sent, that before the buffer, that before what is held.
Chain ==
    /\ sent \in Seq(SentRecord)
    /\ \A s \in Sources : hold[s] # NilRecord => hold[s].src = s /\ hold[s].num = made[s]
    /\ Sorted(sent) /\ Sorted(sending) /\ Sorted(buf)
    /\ Before(sent, buf) /\ Before(sending, buf)
    /\ sendPc = "send" => Before(sent, sending)
    /\ Made(sent) /\ Made(sending) /\ Made(buf)

OrderInv == OwnInv /\ Chain

LEMMA ChainInit == BufferInit => Chain
<1> SUFFICES ASSUME BufferInit PROVE Chain
  OBVIOUS
<1>1. sent = <<>> /\ sending = <<>> /\ buf = <<>> /\ \A s \in Sources : hold[s] = NilRecord
  BY DEF BufferInit
<1>2. sent \in Seq(SentRecord) /\ DOMAIN sent = {} /\ DOMAIN sending = {} /\ DOMAIN buf = {}
  BY SMT, <1>1
<1>3. /\ Sorted(sent) /\ Sorted(sending) /\ Sorted(buf)
      /\ Before(sent, buf) /\ Before(sending, buf) /\ Before(sent, sending)
  BY <1>2 DEF Sorted, Before
<1>4. Made(sent) /\ Made(sending) /\ Made(buf)
  BY <1>2 DEF Made
<1> QED BY <1>1, <1>2, <1>3, <1>4 DEF Chain

\* A step that leaves the sequences and the sources alone keeps the order.
LEMMA ChainSame ==
  ASSUME Chain, UNCHANGED <<buf, hold, made, sending, sent>>, sendPc' = "send" => sendPc = "send"
  PROVE  Chain'
<1>1. Made(sent)' /\ Made(sending)' /\ Made(buf)'
  BY DEF Chain, Made
<1>2. Sorted(sent)' /\ Sorted(sending)' /\ Sorted(buf)'
  BY DEF Chain, Sorted
<1>3. Before(sent, buf)' /\ Before(sending, buf)' /\ (sendPc' = "send" => Before(sent, sending)')
  BY DEF Chain, Before
<1>4. /\ sent' \in Seq(SentRecord)
      /\ \A s \in Sources : hold'[s] # NilRecord => hold'[s].src = s /\ hold'[s].num = made'[s]
  BY DEF Chain
<1> QED BY <1>1, <1>2, <1>3, <1>4 DEF Chain

LEMMA SourceTypes ==
  ASSUME OwnInv, NEW p \in Plugins
  PROVE  made[p] \in Nat /\ p \in Sources
<1>1. p \in Sources
  BY DEF Sources
<1>2. made[p] \in 0..MaxRecords
  BY <1>1 DEF OwnInv, BufferTypeOK
<1> QED BY SMT, <1>1, <1>2, BufferAssumption

LEMMA NumTyped ==
  ASSUME NEW a \in Seq(EncodedRecord), NEW i \in DOMAIN a
  PROVE  a[i] \in EncodedRecord /\ a[i].num \in Nat
<1>1. a[i] \in EncodedRecord
  BY SMT
<1>2. NilRecord.num \in Nat
  BY DEF NilRecord
<1>3. CASE a[i] = NilRecord
  BY <1>1, <1>2, <1>3
<1>4. CASE a[i] # NilRecord
  BY SMT, <1>1, <1>4, RecordTyped, BufferAssumption
<1> QED BY <1>1, <1>3, <1>4

LEMMA SentTyped ==
  ASSUME NEW a \in Seq(SentRecord), NEW i \in DOMAIN a
  PROVE  a[i].num \in Nat
<1>1. a[i] \in SentRecord
  BY SMT
<1> QED BY <1>1 DEF SentRecord

\* A new record of a source is the latest.
LEMMA FillChain ==
  ASSUME OrderInv, NEW s \in Sources, NEW r \in Records, Fill(s, r),
         UNCHANGED <<buf, sending, sendPc, sent>>
  PROVE  Chain'
<1>1. hold[s] = NilRecord /\ made' = [made EXCEPT ![s] = @ + 1]
  BY DEF Fill
<1>2. \A t \in Sources : made'[t] = IF t = s THEN made[s] + 1 ELSE made[t]
  BY <1>1 DEF OrderInv, OwnInv, BufferTypeOK
<1>3. \A t \in Sources : hold'[t] = IF t = s THEN [obj |-> r, src |-> s, num |-> made[s] + 1]
                                   ELSE hold[t]
  BY DEF Fill, OrderInv, OwnInv, BufferTypeOK
<1>4. \A t \in Sources : hold'[t] # NilRecord => hold'[t].src = t /\ hold'[t].num = made'[t]
  BY SMT, <1>2, <1>3 DEF OrderInv, Chain
<1>5. ASSUME NEW a, Made(a), \A i \in DOMAIN a : a[i].num \in Nat
      PROVE  \A i \in DOMAIN a : a[i].src \in Plugins =>
                /\ a[i].num <= made'[a[i].src]
                /\ hold'[a[i].src] # NilRecord => a[i].num < made'[a[i].src]
  <2> SUFFICES ASSUME NEW i \in DOMAIN a, a[i].src \in Plugins
               PROVE  /\ a[i].num <= made'[a[i].src]
                      /\ hold'[a[i].src] # NilRecord => a[i].num < made'[a[i].src]
    OBVIOUS
  <2>1. a[i].src \in Sources /\ made[a[i].src] \in Nat /\ a[i].num \in Nat
    BY <1>5, SourceTypes DEF OrderInv
  <2>2. a[i].num <= made[a[i].src]
        /\ (hold[a[i].src] # NilRecord => a[i].num < made[a[i].src])
    BY <1>5 DEF Made
  <2>3. CASE a[i].src = s
    BY SMT, <1>2, <2>1, <2>2, <2>3
  <2>4. CASE a[i].src # s
    BY <1>2, <1>3, <2>1, <2>2, <2>4
  <2> QED BY <2>3, <2>4
<1>6. /\ \A i \in DOMAIN buf : buf[i].num \in Nat
      /\ \A i \in DOMAIN sending : sending[i].num \in Nat
  BY NumTyped DEF OrderInv, OwnInv, BufferTypeOK
<1>7. \A i \in DOMAIN sent : sent[i].num \in Nat
  <2>1. sent \in Seq(SentRecord)
    BY DEF OrderInv, Chain
  <2> QED BY <2>1, SentTyped
<1>8. Made(buf)' /\ Made(sending)' /\ Made(sent)'
  BY <1>5, <1>6, <1>7 DEF OrderInv, Chain, Made
<1> QED BY <1>4, <1>8 DEF OrderInv, Chain, Sorted, Before

\* Made(a) when source s has given its record away.
LEMMA ReleasedMade ==
  ASSUME OrderInv, NEW s \in Sources, NEW a, Made(a),
         hold' = [hold EXCEPT ![s] = NilRecord], UNCHANGED made
  PROVE  \A i \in DOMAIN a : a[i].src \in Plugins =>
            /\ a[i].num <= made'[a[i].src]
            /\ hold'[a[i].src] # NilRecord => a[i].num < made'[a[i].src]
<1>1. \A t \in Plugins : t \in Sources
  BY DEF Sources
<1>2. \A t \in Sources : hold'[t] # NilRecord => hold[t] # NilRecord
  BY DEF OrderInv, OwnInv, BufferTypeOK
<1> QED BY <1>1, <1>2 DEF Made

\* The record that plugin p held is stored at the end of the buffer, or dropped.
LEMMA WriteEncodedChain ==
  ASSUME OrderInv, NEW p \in Plugins, WriteEncodedRecord(p) PROVE Chain'
<1>0. /\ hold[p] # NilRecord /\ hold' = [hold EXCEPT ![p] = NilRecord]
      /\ UNCHANGED <<made, sending, sendPc, sent>>
  BY DEF WriteEncodedRecord
<1>1. /\ p \in Sources /\ hold[p].src = p /\ hold[p].num = made[p] /\ made[p] \in Nat
      /\ hold[p] \in EncodedRecord
  BY <1>0, SourceTypes DEF OrderInv, Chain, OwnInv, BufferTypeOK
<1>2. \A t \in Sources : hold'[t] = IF t = p THEN NilRecord ELSE hold[t]
  BY <1>0 DEF OrderInv, OwnInv, BufferTypeOK
<1>3. \A t \in Sources : hold'[t] # NilRecord => hold'[t].src = t /\ hold'[t].num = made'[t]
  BY SMT, <1>0, <1>2 DEF OrderInv, Chain
<1>a. Made(sent) /\ Made(sending) /\ Made(buf)
  BY DEF OrderInv, Chain
<1>4. Made(sent)' /\ Made(sending)'
  <2>1. \A i \in DOMAIN sent : sent[i].src \in Plugins =>
           /\ sent[i].num <= made'[sent[i].src]
           /\ hold'[sent[i].src] # NilRecord => sent[i].num < made'[sent[i].src]
    BY <1>0, <1>1, <1>a, ReleasedMade
  <2>2. \A i \in DOMAIN sending : sending[i].src \in Plugins =>
           /\ sending[i].num <= made'[sending[i].src]
           /\ hold'[sending[i].src] # NilRecord => sending[i].num < made'[sending[i].src]
    BY <1>0, <1>1, <1>a, ReleasedMade
  <2> QED BY <1>0, <2>1, <2>2 DEF Made
<1>5. CASE Len(buf) < Cap
  <2>1. buf' = Append(buf, hold[p]) /\ buf \in Seq(EncodedRecord)
    BY <1>5 DEF WriteEncodedRecord, OrderInv, OwnInv, BufferTypeOK
  <2>2. /\ DOMAIN buf' = DOMAIN buf \cup {Len(buf) + 1}
        /\ \A i \in DOMAIN buf : buf'[i] = buf[i]
        /\ buf'[Len(buf) + 1] = hold[p]
    BY <1>1, <2>1, AppendTyped
  <2>3. \A i \in DOMAIN buf : buf[i].src = p => buf[i].num < made[p]
    BY <1>0 DEF OrderInv, Chain, Made
  <2>4. \A i \in DOMAIN sending : sending[i].src = p => sending[i].num < made[p]
    BY <1>0 DEF OrderInv, Chain, Made
  <2>5. \A i \in DOMAIN sent : sent[i].src = p => sent[i].num < made[p]
    BY <1>0 DEF OrderInv, Chain, Made
  <2>6. \A i \in DOMAIN buf : i \in Nat /\ i < Len(buf) + 1
    BY SMT, <2>1
  <2>7. Len(buf) \in Nat
    BY SMT, <2>1
  <2>8. Sorted(buf')
    <3> SUFFICES ASSUME NEW i \in DOMAIN buf', NEW j \in DOMAIN buf', i < j,
                        buf'[i].src = buf'[j].src, buf'[i].src \in Plugins
                 PROVE  buf'[i].num < buf'[j].num
      BY DEF Sorted
    <3>1. i \in DOMAIN buf
      BY SMT, <2>2, <2>6, <2>7
    <3>2. CASE j \in DOMAIN buf
      BY <2>2, <3>1, <3>2 DEF OrderInv, Chain, Sorted
    <3>3. CASE j = Len(buf) + 1
      BY <1>1, <2>2, <2>3, <3>1, <3>3
    <3> QED BY <2>2, <3>2, <3>3
  <2>9. Before(sent, buf')
    BY SMT, <1>1, <2>2, <2>5 DEF OrderInv, Chain, Before
  <2>10. Before(sending, buf')
    BY SMT, <1>1, <2>2, <2>4 DEF OrderInv, Chain, Before
  <2>11. Made(buf)'
    <3>1. \A i \in DOMAIN buf : buf[i].src \in Plugins =>
             /\ buf[i].num <= made'[buf[i].src]
             /\ hold'[buf[i].src] # NilRecord => buf[i].num < made'[buf[i].src]
      BY <1>0, <1>1, <1>a, ReleasedMade
    <3>2. /\ hold[p].num <= made'[hold[p].src]
          /\ hold'[hold[p].src] = NilRecord
      BY SMT, <1>0, <1>1, <1>2
    <3> QED BY <2>2, <3>1, <3>2 DEF Made
  <2>12. Sorted(sent)' /\ Sorted(sending)' /\ (sendPc' = "send" => Before(sent, sending)')
    BY <1>0 DEF OrderInv, Chain, Sorted, Before
  <2> QED BY <1>0, <1>3, <1>4, <2>8, <2>9, <2>10, <2>11, <2>12 DEF OrderInv, Chain
<1>6. CASE ~(Len(buf) < Cap)
  <2>1. buf' = buf
    BY <1>6 DEF WriteEncodedRecord
  <2>2. \A i \in DOMAIN buf : buf[i].src \in Plugins =>
           /\ buf[i].num <= made'[buf[i].src]
           /\ hold'[buf[i].src] # NilRecord => buf[i].num < made'[buf[i].src]
    BY <1>0, <1>1, <1>a, ReleasedMade
  <2>3. Made(buf)'
    BY <2>1, <2>2 DEF Made
  <2>4. Sorted(sent)' /\ Sorted(sending)' /\ Sorted(buf)'
    BY <1>0, <2>1 DEF OrderInv, Chain, Sorted
  <2>5. Before(sent, buf)' /\ Before(sending, buf)' /\ (sendPc' = "send" => Before(sent, sending)')
    BY <1>0, <2>1 DEF OrderInv, Chain, Before
  <2> QED BY <1>0, <1>3, <1>4, <2>3, <2>4, <2>5 DEF OrderInv, Chain
<1> QED BY <1>5, <1>6

\* A record of a writer is no plugin's: it disturbs the order nowhere.
LEMMA WriteRecordChain ==
  ASSUME OrderInv, NEW w \in Writers, WriteRecord(w) PROVE Chain'
<1>0. /\ hold[w] # NilRecord /\ hold' = [hold EXCEPT ![w] = NilRecord]
      /\ UNCHANGED <<made, sending, sendPc, sent>>
  BY DEF WriteRecord
<1>1. /\ w \in Sources /\ hold[w].src = w /\ w \notin Plugins /\ hold[w] \in EncodedRecord
  BY <1>0, BufferAssumption DEF OrderInv, Chain, OwnInv, BufferTypeOK, Sources
<1>2. \A t \in Sources : hold'[t] = IF t = w THEN NilRecord ELSE hold[t]
  BY <1>0 DEF OrderInv, OwnInv, BufferTypeOK
<1>3. \A t \in Sources : hold'[t] # NilRecord => hold'[t].src = t /\ hold'[t].num = made'[t]
  BY SMT, <1>0, <1>2 DEF OrderInv, Chain
<1>a. Made(sent) /\ Made(sending) /\ Made(buf)
  BY DEF OrderInv, Chain
<1>4. Made(sent)' /\ Made(sending)'
  <2>1. \A i \in DOMAIN sent : sent[i].src \in Plugins =>
           /\ sent[i].num <= made'[sent[i].src]
           /\ hold'[sent[i].src] # NilRecord => sent[i].num < made'[sent[i].src]
    BY <1>0, <1>1, <1>a, ReleasedMade
  <2>2. \A i \in DOMAIN sending : sending[i].src \in Plugins =>
           /\ sending[i].num <= made'[sending[i].src]
           /\ hold'[sending[i].src] # NilRecord => sending[i].num < made'[sending[i].src]
    BY <1>0, <1>1, <1>a, ReleasedMade
  <2> QED BY <1>0, <2>1, <2>2 DEF Made
<1>5. PICK k : \A i \in DOMAIN buf' :
          IF i = k THEN buf'[i] = hold[w] ELSE i \in DOMAIN buf /\ buf'[i] = buf[i]
  <2>0. buf \in Seq(EncodedRecord)
    BY DEF OrderInv, OwnInv, BufferTypeOK
  <2>1. CASE Len(buf) < Cap
    <3>1. buf' = Append(buf, hold[w])
      BY <2>1 DEF WriteRecord
    <3>2. /\ DOMAIN buf' = DOMAIN buf \cup {Len(buf) + 1}
          /\ \A i \in DOMAIN buf : buf'[i] = buf[i]
          /\ buf'[Len(buf) + 1] = hold[w]
      BY SMT, <1>1, <2>0, <3>1, AppendTyped
    <3> QED BY <3>2
  <2>2. CASE ~(Len(buf) < Cap)
    <3>1. buf' = [buf EXCEPT ![1] = hold[w]]
      BY <2>2 DEF WriteRecord
    <3> QED BY <2>0, <3>1
  <2> QED BY <2>1, <2>2
<1>6. \A i \in DOMAIN buf' : buf'[i].src \in Plugins => i \in DOMAIN buf /\ buf'[i] = buf[i]
  BY <1>1, <1>5
<1>7. Sorted(buf') /\ Before(sent, buf') /\ Before(sending, buf')
  BY <1>6 DEF OrderInv, Chain, Sorted, Before
<1>8. Made(buf)'
  <2>1. \A i \in DOMAIN buf : buf[i].src \in Plugins =>
           /\ buf[i].num <= made'[buf[i].src]
           /\ hold'[buf[i].src] # NilRecord => buf[i].num < made'[buf[i].src]
    BY <1>0, <1>1, <1>a, ReleasedMade
  <2> QED BY <1>6, <2>1 DEF Made
<1>9. Sorted(sent)' /\ Sorted(sending)' /\ (sendPc' = "send" => Before(sent, sending)')
  BY <1>0 DEF OrderInv, Chain, Sorted, Before
<1> QED BY <1>0, <1>3, <1>4, <1>7, <1>8, <1>9 DEF OrderInv, Chain

LEMMA Concatenation ==
  ASSUME NEW S, NEW a \in Seq(S), NEW d \in Seq(S), NEW w, w = a \o d
  PROVE  /\ w \in Seq(S) /\ DOMAIN w = 1..(Len(a) + Len(d))
         /\ \A i \in DOMAIN a : i \in DOMAIN w /\ w[i] = a[i]
         /\ \A i \in DOMAIN w : i \notin DOMAIN a =>
              i - Len(a) \in DOMAIN d /\ w[i] = d[i - Len(a)]
<1>1. /\ w \in Seq(S) /\ Len(w) = Len(a) + Len(d)
      /\ \A i \in 1..(Len(a) + Len(d)) : w[i] = IF i <= Len(a) THEN a[i] ELSE d[i - Len(a)]
  BY SMT
<1>2. /\ DOMAIN a = 1..Len(a) /\ DOMAIN d = 1..Len(d) /\ DOMAIN w = 1..Len(w)
      /\ Len(a) \in Nat /\ Len(d) \in Nat
  BY SMT, <1>1
<1> QED BY SMT, <1>1, <1>2

\* What the server receives of the records of b.
Received(b) == [i \in DOMAIN b |-> [src |-> b[i].src, num |-> b[i].num]]

LEMMA ReceivedTyped ==
  ASSUME NEW b \in Seq(EncodedRecord)
  PROVE  /\ Received(b) \in Seq(SentRecord) /\ DOMAIN Received(b) = DOMAIN b
         /\ \A i \in DOMAIN b : /\ Received(b)[i].src = b[i].src
                                /\ Received(b)[i].num = b[i].num
<1>1. DOMAIN b = 1..Len(b) /\ Len(b) \in Nat
  BY SMT
<1>2. \A i \in DOMAIN b : [src |-> b[i].src, num |-> b[i].num] \in SentRecord
  <2> SUFFICES ASSUME NEW i \in DOMAIN b
               PROVE  [src |-> b[i].src, num |-> b[i].num] \in SentRecord
    OBVIOUS
  <2>1. b[i] \in EncodedRecord /\ b[i].num \in Nat
    BY NumTyped
  <2>2. b[i].src \in Sources \cup {NoObject}
    BY <2>1, RecordTyped, NilTyped
  <2> QED BY <2>1, <2>2 DEF SentRecord
<1>3. Received(b) \in Seq(SentRecord)
  BY SMT, <1>1, <1>2 DEF Received
<1> QED BY <1>3 DEF Received

LEMMA SendChain ==
  ASSUME OrderInv, Send PROVE Chain'
<1>0. UNCHANGED <<buf, hold, made, sending>> /\ sendPc = "send" /\ sendPc' = "put"
  BY DEF Send
<1>1. CASE sent' = sent
  BY <1>0, <1>1, ChainSame DEF OrderInv
<1>2. CASE sent' # sent
  <2>1. sent' = sent \o Received(sending)
    BY <1>2 DEF Send, Received
  <2>2. sending \in Seq(EncodedRecord) /\ sent \in Seq(SentRecord)
    BY DEF OrderInv, OwnInv, BufferTypeOK, Chain
  <2>3. /\ Received(sending) \in Seq(SentRecord)
        /\ DOMAIN Received(sending) = DOMAIN sending
        /\ \A i \in DOMAIN sending : /\ Received(sending)[i].src = sending[i].src
                                     /\ Received(sending)[i].num = sending[i].num
    BY <2>2, ReceivedTyped
  <2>4. /\ sent' \in Seq(SentRecord)
        /\ DOMAIN sent' = 1..(Len(sent) + Len(Received(sending)))
        /\ \A i \in DOMAIN sent : sent'[i] = sent[i]
        /\ \A i \in DOMAIN sent' : i \notin DOMAIN sent =>
             /\ i - Len(sent) \in DOMAIN sending
             /\ sent'[i].src = sending[i - Len(sent)].src
             /\ sent'[i].num = sending[i - Len(sent)].num
    <3>1. /\ sent' \in Seq(SentRecord)
          /\ DOMAIN sent' = 1..(Len(sent) + Len(Received(sending)))
          /\ \A i \in DOMAIN sent : i \in DOMAIN sent' /\ sent'[i] = sent[i]
          /\ \A i \in DOMAIN sent' : i \notin DOMAIN sent =>
               /\ i - Len(sent) \in DOMAIN Received(sending)
               /\ sent'[i] = Received(sending)[i - Len(sent)]
      BY SMT, <2>1, <2>2, <2>3, Concatenation
    <3> QED BY <2>3, <3>1
  <2>5. DOMAIN sent = 1..Len(sent) /\ Len(sent) \in Nat /\ Len(Received(sending)) \in Nat
    BY SMT, <2>2, <2>3
  <2>6. Before(sent, sending) /\ Sorted(sent) /\ Sorted(sending)
        /\ Before(sent, buf) /\ Before(sending, buf) /\ Made(sent) /\ Made(sending)
    BY <1>0 DEF OrderInv, Chain
  <2>7. Sorted(sent')
    <3> SUFFICES ASSUME NEW i \in DOMAIN sent', NEW j \in DOMAIN sent', i < j,
                        sent'[i].src = sent'[j].src, sent'[i].src \in Plugins
                 PROVE  sent'[i].num < sent'[j].num
      BY DEF Sorted
    <3>1. CASE j \in DOMAIN sent
      <4>1. i \in DOMAIN sent
        BY SMT, <2>4, <2>5, <3>1
      <4> QED BY <2>4, <2>6, <3>1, <4>1 DEF Sorted
    <3>2. CASE i \in DOMAIN sent /\ j \notin DOMAIN sent
      BY <2>4, <2>6, <3>2 DEF Before
    <3>3. CASE i \notin DOMAIN sent /\ j \notin DOMAIN sent
      <4>1. i - Len(sent) < j - Len(sent)
        BY SMT, <2>4, <2>5
      <4> QED BY <2>4, <2>6, <3>3, <4>1 DEF Sorted
    <3> QED BY <3>1, <3>2, <3>3
  <2>8. Before(sent', buf)
    BY <2>4, <2>6 DEF Before
  <2>9. Made(sent)'
    BY <1>0, <2>4, <2>6 DEF Made
  <2> QED BY <1>0, <2>4, <2>7, <2>8, <2>9 DEF OrderInv, Chain, Sorted, Before, Made
<1> QED BY <1>1, <1>2

LEMMA ChainNext == OrderInv /\ [BufferNext]_bufferVars => Chain'
<1> SUFFICES ASSUME OrderInv, [BufferNext]_bufferVars PROVE Chain'
  OBVIOUS
<1> USE DEF OrderInv
<1>1. ASSUME NEW p \in Plugins, NEW r \in Records, ReceiveData(p, r) \/ ReceiveCutPayload(p, r)
      PROVE  Chain'
  BY <1>1, FillChain DEF ReceiveData, ReceiveCutPayload, Sources
<1>2. ASSUME NEW w \in Writers, NEW r \in Records, EncodeRecord(w, r) PROVE Chain'
  BY <1>2, FillChain DEF EncodeRecord, Sources
<1>3. ASSUME NEW p \in Plugins, ReceiveCutLength(p) PROVE Chain'
  <2>0. UNCHANGED <<hold, made, sending, sendPc, sent>>
    BY <1>3 DEF ReceiveCutLength
  <2>1. \A i \in DOMAIN buf' : buf'[i].src \in Plugins => i \in DOMAIN buf /\ buf'[i] = buf[i]
    <3>0. buf \in Seq(EncodedRecord)
      BY DEF OwnInv, BufferTypeOK
    <3>1. CASE buf' = buf
      BY <3>1
    <3>2. CASE buf' = Append(buf, NilRecord)
      <4>1. /\ DOMAIN buf' = DOMAIN buf \cup {Len(buf) + 1}
            /\ \A i \in DOMAIN buf : buf'[i] = buf[i]
            /\ buf'[Len(buf) + 1] = NilRecord
        BY SMT, <3>0, <3>2, AppendTyped, NilTyped
      <4> QED BY <4>1, NilTyped
    <3> QED BY <1>3, <3>1, <3>2 DEF ReceiveCutLength
  <2>2. Made(sent)' /\ Made(sending)' /\ Made(buf)'
    BY <2>0, <2>1 DEF Chain, Made
  <2>3. Sorted(sent)' /\ Sorted(sending)' /\ Sorted(buf)'
    BY <2>0, <2>1 DEF Chain, Sorted
  <2>4. Before(sent, buf)' /\ Before(sending, buf)' /\ (sendPc' = "send" => Before(sent, sending)')
    BY SMT, <2>0, <2>1 DEF Chain, Before
  <2> QED BY <2>0, <2>2, <2>3, <2>4 DEF Chain
<1>4. ASSUME NEW p \in Plugins, ReceiveEnds(p) PROVE Chain'
  BY <1>4, ChainSame DEF ReceiveEnds
<1>5. CASE ReadEncodedRecords
  <2>1. /\ sending' = buf /\ buf' = <<>> /\ DOMAIN buf' = {}
        /\ UNCHANGED <<hold, made, sent>>
    BY SMT, <1>5 DEF ReadEncodedRecords
  <2>2. Made(sent)' /\ Made(sending)' /\ Made(buf)'
    BY <2>1 DEF Chain, Made
  <2>3. Sorted(sent)' /\ Sorted(sending)' /\ Sorted(buf)'
    BY <2>1 DEF Chain, Sorted
  <2>4. Before(sent, buf)' /\ Before(sending, buf)' /\ Before(sent, sending)'
    BY <2>1 DEF Chain, Before
  <2> QED BY <2>1, <2>2, <2>3, <2>4 DEF Chain
<1>6. CASE SendError
  BY <1>6, ChainSame DEF SendError
<1>7. CASE PutEncodedRecords
  <2>1. /\ sending' = <<>> /\ DOMAIN sending' = {} /\ sendPc' = "select"
        /\ UNCHANGED <<buf, hold, made, sent>>
    BY SMT, <1>7 DEF PutEncodedRecords
  <2>2. Made(sent)' /\ Made(sending)' /\ Made(buf)'
    BY <2>1 DEF Chain, Made
  <2>3. Sorted(sent)' /\ Sorted(sending)' /\ Sorted(buf)'
    BY <2>1 DEF Chain, Sorted
  <2>4. Before(sent, buf)' /\ Before(sending, buf)'
    BY <2>1 DEF Chain, Before
  <2> QED BY <2>1, <2>2, <2>3, <2>4 DEF Chain
<1>8. CASE UNCHANGED bufferVars
  BY <1>8, ChainSame DEF bufferVars
<1> QED BY <1>1, <1>2, <1>3, <1>4, <1>5, <1>6, <1>7, <1>8,
           WriteEncodedChain, WriteRecordChain, SendChain DEF BufferNext

LEMMA OrderInvAlways == BufferSpec => []OrderInv
<1>1. BufferInit => OrderInv
  BY OwnInvInit, ChainInit DEF OrderInv
<1>2. OrderInv /\ [BufferNext]_bufferVars => OrderInv'
  BY OwnInvNext, ChainNext DEF OrderInv
<1> QED BY <1>1, <1>2, PTL DEF BufferSpec

-----------------------------------------------------------------------------
(* The theorems.                                                           *)

LEMMA OwnedNoAliasing == ASSUME OwnInv PROVE NoAliasing
<1> DEFINE queued == buf \o sending
<1>0. buf \in Seq(EncodedRecord) /\ sending \in Seq(EncodedRecord)
  BY DEF OwnInv, BufferTypeOK
<1>1. /\ queued \in Seq(EncodedRecord) /\ DOMAIN queued = 1..(Len(buf) + Len(sending))
      /\ \A i \in DOMAIN buf : i \in DOMAIN queued /\ queued[i] = buf[i]
      /\ \A i \in DOMAIN queued : i \notin DOMAIN buf =>
           i - Len(buf) \in DOMAIN sending /\ queued[i] = sending[i - Len(buf)]
  BY SMT, <1>0, Concatenation
<1>2. Len(buf) \in Nat /\ Len(sending) \in Nat
  BY SMT, <1>0
<1> HIDE DEF queued
<1>3. Distinct(buf) /\ Distinct(sending) /\ Apart(buf, sending)
  BY DEF OwnInv, Owned
<1>4. \A i, j \in DOMAIN queued :
        queued[i].obj = queued[j].obj /\ queued[i] # NilRecord => i = j
  <2> SUFFICES ASSUME NEW i \in DOMAIN queued, NEW j \in DOMAIN queued,
                      queued[i].obj = queued[j].obj, queued[i] # NilRecord
               PROVE  i = j
    OBVIOUS
  <2>0. queued[j] # NilRecord
    <3>1. queued[i] \in EncodedRecord /\ queued[j] \in EncodedRecord
      BY SMT, <1>1
    <3> QED BY <3>1, RecordTyped
  <2>1. CASE i \in DOMAIN buf /\ j \in DOMAIN buf
    BY <1>1, <1>3, <2>1 DEF Distinct
  <2>2. CASE i \in DOMAIN buf /\ j \notin DOMAIN buf
    BY <1>1, <1>3, <2>2 DEF Apart
  <2>3. CASE i \notin DOMAIN buf /\ j \in DOMAIN buf
    BY <1>1, <1>3, <2>0, <2>3 DEF Apart
  <2>4. CASE i \notin DOMAIN buf /\ j \notin DOMAIN buf
    <3>1. i - Len(buf) = j - Len(buf)
      BY <1>1, <1>3, <2>4 DEF Distinct
    <3> QED BY SMT, <1>1, <1>2, <3>1
  <2> QED BY <2>1, <2>2, <2>3, <2>4
<1>5. \A s \in Sources : hold[s] # NilRecord =>
        /\ hold[s].obj \notin Objects(queued)
        /\ \A t \in Sources \ {s} : hold[t].obj # hold[s].obj
  <2> SUFFICES ASSUME NEW s \in Sources, hold[s] # NilRecord
               PROVE  /\ \A i \in DOMAIN queued : queued[i].obj # hold[s].obj
                      /\ \A t \in Sources \ {s} : hold[t].obj # hold[s].obj
    BY DEF Objects
  <2>1. /\ \A i \in DOMAIN buf : buf[i].obj # hold[s].obj
        /\ \A i \in DOMAIN sending : sending[i].obj # hold[s].obj
        /\ \A t \in Sources \ {s} : hold[t].obj # hold[s].obj
    BY DEF OwnInv, Owned
  <2> QED BY <1>1, <2>1
<1>6. pool \cap Referenced = {}
  BY DEF OwnInv, Owned, Referenced, Objects
<1> QED BY <1>4, <1>5, <1>6 DEF NoAliasing, queued

\* No EncodedRecord ever has two owners, for any number of plugins and writers, any
\* capacity of the buffer and any order of Get, Write, Send and Put.
THEOREM NoRecordAliased == BufferSpec => []NoAliasing
  BY OwnInvAlways, OwnedNoAliasing, PTL

\* The server receives each plugin's records in order and none twice, whatever the
\* buffer drops, overwrites or loses.
THEOREM PluginsInOrder == BufferSpec => []PluginOrder
<1>1. OrderInv => PluginOrder
  BY DEF OrderInv, Chain, Sorted, PluginOrder
<1> QED BY <1>1, OrderInvAlways, PTL

\* A panic of the sender can only come from a pipe cut in the length of a frame.
THEOREM CrashIsCaused == BufferSpec => []CrashCause
<1>1. OwnInv => CrashCause
  BY DEF OwnInv, NilCause, CrashCause
<1> QED BY <1>1, OwnInvAlways, PTL

\* The newest heartbeat or log record stays in the buffer until it is read.
THEOREM NewestIsKept == BufferSpec => []NewestKept
<1>1. OwnInv => NewestKept
  BY DEF OwnInv, Newest, NewestKept, Range
<1> QED BY <1>1, OwnInvAlways, PTL

\* Every variable keeps its type, and the buffer its capacity.
THEOREM BufferTypeCorrect == BufferSpec => []BufferTypeOK
<1>1. OwnInv => BufferTypeOK
  BY DEF OwnInv
<1> QED BY <1>1, OwnInvAlways, PTL

-----------------------------------------------------------------------------
(* AgentTransfer.                                                          *)

Hosts == SdHosts \cup PrivateHosts \cup PublicHosts
AllLabels == Labels \cup {"wait", "run", "sleep", "select", "open"}

\* Every region that is looked up has a host.
Dialling ==
    /\ conn \in Conns \cup {Nil}
    /\ cstate \in [Conns -> {"usable", "broken", "shutdown"}]
    /\ uses \in Nat
    /\ region \in Hosts
    /\ reg \in [Callers -> Hosts]
    /\ c \in [Callers -> Conns \cup {Nil}]

Places ==
    /\ pc \in [Callers -> AllLabels]
    /\ pc["transfer"] \in Labels \cup {"wait", "run", "sleep"}
    /\ pc["fileExt"] \in Labels \cup {"select", "open"}

\* A connection wherever one is used.
Connected ==
    \A p \in Callers : pc[p] \in {"state", "count", "store", "reset", "got"} => c[p] # Nil

\* startTransfer and its handlers: one stream at a time is received from, and
\* Startup has returned only after startTransfer has.
Handling ==
    /\ retries \in 0..(MaxRetries + 1)
    /\ pc["transfer"] = "wait" => retries <= MaxRetries
    /\ stream \in Streams
    /\ send \in [Streams -> {"run", "end"}]
    /\ recv \in [Streams -> {"recv", "update", "returned", "end"}]
    /\ main \in {"run", "returned", "exited"}
    /\ \A s \in Streams : recv[s] \in {"recv", "update"} => s = stream /\ pc["transfer"] = "run"
    /\ main # "run" => pc["transfer"] = "end"

Flags ==
    /\ subDone \in [Streams -> BOOLEAN]
    /\ subCtx \in BOOLEAN
    /\ ctx \in BOOLEAN

Open(x) == x # Nil /\ cstate[x] # "shutdown"

\* p is about to count a use of the connection it has loaded.
Counting(p) == pc[p] = "count" \/ (pc[p] = "state" /\ Open(c[p]))

\* p has not loaded the stored connection, so it may count a use of that too.
MayLoad(p) == Open(conn) /\ ~(pc[p] \in {"state", "count"} /\ c[p] = conn)

\* The uses p can still count before a new connection is stored.
Debt(p) ==
    IF pc[p] = "reset" THEN 0
    ELSE (IF Counting(p) THEN 1 ELSE 0) + (IF MayLoad(p) THEN 1 ELSE 0)

\* Nobody is between storing a connection and resetting the count: one that is
\* stored next may be used once before the reset.
Unstored == IF \E p \in Callers : pc[p] = "reset" THEN 0 ELSE 1

UsesBounded == uses + Debt("transfer") + Debt("fileExt") + Unstored <= MaxUses + 4

TransferInv == Dialling /\ Places /\ Connected /\ Handling /\ Flags /\ UsesBounded

-----------------------------------------------------------------------------
\* At the start there is no connection, the default region, and nobody in a handler.
LEMMA TransferInit == Init => TransferInv
<1>. SUFFICES ASSUME Init PROVE TransferInv
  OBVIOUS
<1>. USE TransferAssumption DEF Init, Start
<1>1. Dialling
  BY DEF Dialling, Hosts
<1>5. Places
  BY DEF Places, Callers, AllLabels, Labels
<1>6. Connected
  BY DEF Connected, Callers
<1>2. Handling
  BY SMT DEF Handling
<1>3. Flags
  BY DEF Flags
<1>4. UsesBounded
  BY SMT DEF UsesBounded, Debt, Unstored, Counting, MayLoad, Open, Callers
<1>. QED
  BY <1>1, <1>2, <1>3, <1>4, <1>5, <1>6 DEF TransferInv

\* What the invariant says of the types.
LEMMA TransferTypes == TransferInv => TypeOK
<1>. SUFFICES ASSUME TransferInv PROVE TypeOK
  OBVIOUS
<1>1. uses \in 0..(MaxUses + 4)
  BY SMT, TransferAssumption DEF TransferInv, Dialling, UsesBounded, Debt, Unstored
<1>2. region \in Regions /\ reg \in [Callers -> Regions]
  BY TransferAssumption DEF TransferInv, Dialling, Hosts
<1>3. {subCtx, ctx} \subseteq BOOLEAN
  BY Zenon DEF TransferInv, Flags
<1>. QED
  BY <1>1, <1>2, <1>3 DEF TransferInv, Dialling, Places, Handling, Flags, TypeOK

-----------------------------------------------------------------------------
\* Only booleans are assigned to the flags.
LEMMA FlagsNext == Flags /\ [Next]_vars => Flags'
<1>. SUFFICES ASSUME Flags, [Next]_vars PROVE Flags'
  OBVIOUS
<1>. USE DEF Flags
<1>1. CASE UNCHANGED <<subDone, subCtx, ctx>>
  BY <1>1
<1>2. CASE UNCHANGED <<subDone, subCtx>> /\ ctx' = TRUE
  BY <1>2
<1>3. CASE UNCHANGED <<subDone, ctx>> /\ subCtx' = TRUE
  BY <1>3
<1>4. CASE /\ UNCHANGED <<subCtx, ctx>>
           /\ \E s \in Streams, b \in BOOLEAN : subDone' = [subDone EXCEPT ![s] = b]
  BY <1>4
<1>5. CASE /\ UNCHANGED <<subCtx, ctx>>
           /\ subDone' = [subDone EXCEPT ![stream] = TRUE]
  BY <1>5
<1>. QED
  <2>. USE DEF handlers
  <2>1. CASE UNCHANGED vars
    BY <2>1, <1>1 DEF vars
  <2>2. CASE \E p \in Callers : GetConnection(p) \/ Resolve(p)
    BY <2>2, <1>1 DEF GetConnection, LoadConn, GetState, CountUse, LoadRegion, NoSdHost, DialSd,
       DialPrivate, DialPublic, Dialed, NotDialed, StoreConn, ResetUses, ReturnNil, Resolve
  <2>3. CASE startTransfer
    BY <2>3, <1>1, <1>3, <1>4, <1>5 DEF startTransfer, TransferError, WaitRetry, OpenError,
       HandlersEnded, Sleep, TransferDone, CancelTransport, OpenTransfer
  <2>4. CASE startFileExt
    BY <2>4, <1>1 DEF startFileExt, OpenFile, UploadEnds, FileExtDone
  <2>5. CASE \E s \in Streams : SendDone(s) \/ handleReceive(s)
    BY <2>5, <1>1, <1>2, <1>4 DEF SendDone, handleReceive, RecvError, RecvUpload, RecvShutdown,
       RecvRegion, RecvUpdate, Updated, CancelStream
  <2>6. CASE \E x \in Conns, st \in {"usable", "broken"} : Network(x, st)
    BY <2>6, <1>1 DEF Network
  <2>7. CASE Signal \/ StartupReturns \/ MainExits
    BY <2>7, <1>1, <1>2 DEF Signal, StartupReturns, MainExits
  <2>. QED
    BY <2>1, <2>2, <2>3, <2>4, <2>5, <2>6, <2>7 DEF Next, Running

\* What GetConnection works on keeps its type and its hosts.
LEMMA DiallingNext == TransferInv /\ [Next]_vars => Dialling'
<1>. SUFFICES ASSUME TransferInv, [Next]_vars PROVE Dialling'
  OBVIOUS
<1>. USE DEF TransferInv, Dialling, connVars
<1>1. CASE UNCHANGED vars
  BY <1>1 DEF vars
<1>2. ASSUME NEW p \in Callers, GetConnection(p) \/ Resolve(p) PROVE Dialling'
  <2>0. pc[p] \in {"state", "count", "store"} => c[p] \in Conns
    BY DEF Connected
  <2>1. CASE LoadConn(p) \/ LoadRegion(p)
    BY <2>1 DEF LoadConn, LoadRegion
  <2>2. CASE GetState(p) \/ CountUse(p)
    BY SMT, <2>0, <2>2 DEF GetState, CountUse
  <2>3. CASE NoSdHost(p) \/ NotDialed(p) \/ Resolve(p) \/ ReturnNil(p)
    BY <2>3 DEF NoSdHost, NotDialed, Resolve, ReturnNil
  <2>4. ASSUME NEW hosts, NEW x \in Conns, Dialed(p, hosts, x) PROVE Dialling'
    BY <2>4 DEF Dialed
  <2>5. CASE StoreConn(p) \/ ResetUses(p)
    BY SMT, <2>0, <2>5 DEF StoreConn, ResetUses
  <2>. QED
    BY <1>2, <2>1, <2>2, <2>3, <2>4, <2>5 DEF GetConnection, DialSd, DialPrivate, DialPublic
<1>3. CASE startTransfer
  BY <1>3 DEF startTransfer, TransferError, WaitRetry, OpenError,
     HandlersEnded, Sleep, TransferDone, CancelTransport, OpenTransfer
<1>4. CASE startFileExt
  BY <1>4 DEF startFileExt, OpenFile, UploadEnds, FileExtDone
<1>5. CASE \E s \in Streams : SendDone(s) \/ handleReceive(s)
  BY <1>5 DEF SendDone, handleReceive, RecvError, RecvUpload, RecvShutdown,
     RecvRegion, RecvUpdate, Updated, CancelStream, Hosts
<1>6. CASE \E x \in Conns, st \in {"usable", "broken"} : Network(x, st)
  BY <1>6 DEF Network
<1>7. CASE Signal \/ StartupReturns \/ MainExits
  BY <1>7 DEF Signal, StartupReturns, MainExits
<1>. QED
  BY <1>1, <1>2, <1>3, <1>4, <1>5, <1>6, <1>7 DEF Next, Running

\* Every caller stays at one of its labels.
LEMMA PlacesNext == TransferInv /\ [Next]_vars => Places'
<1>. SUFFICES ASSUME TransferInv, [Next]_vars PROVE Places'
  OBVIOUS
<1>. USE DEF TransferInv, Places, Goto
<1>1. CASE UNCHANGED pc
  BY <1>1
<1>2. CASE \E p \in Callers, l \in Labels : pc' = [pc EXCEPT ![p] = l]
  BY <1>2 DEF AllLabels, Callers
<1>3. CASE \E l \in {"wait", "run", "sleep"} : pc' = [pc EXCEPT !["transfer"] = l]
  BY <1>3 DEF AllLabels, Callers
<1>4. CASE \E l \in {"select", "open"} : pc' = [pc EXCEPT !["fileExt"] = l]
  BY <1>4 DEF AllLabels, Callers
<1>. USE DEF Labels, Callers
<1>5. CASE UNCHANGED vars
  BY <1>1, <1>5 DEF vars
<1>6. ASSUME NEW p \in Callers, GetConnection(p) \/ Resolve(p) PROVE Places'
  <2>1. \E l \in Labels : Goto(p, l)
    <3>1. CASE LoadConn(p) \/ GetState(p) \/ CountUse(p) \/ LoadRegion(p)
      BY <3>1 DEF LoadConn, GetState, CountUse, LoadRegion
    <3>2. CASE DialSd(p) \/ DialPrivate(p) \/ DialPublic(p)
      BY <3>2 DEF DialSd, DialPrivate, DialPublic, Dialed
    <3>3. CASE NoSdHost(p) \/ NotDialed(p) \/ Resolve(p)
      BY <3>3 DEF NoSdHost, NotDialed, Resolve
    <3>4. CASE StoreConn(p) \/ ResetUses(p) \/ ReturnNil(p)
      BY <3>4 DEF StoreConn, ResetUses, ReturnNil
    <3>. QED
      BY <1>6, <3>1, <3>2, <3>3, <3>4 DEF GetConnection
  <2>. QED
    BY <1>2, <2>1
<1>7. CASE startTransfer
  BY <1>1, <1>2, <1>3, <1>7 DEF startTransfer, TransferError, WaitRetry, OpenError,
     HandlersEnded, Sleep, TransferDone, CancelTransport, OpenTransfer
<1>8. CASE startFileExt
  BY <1>2, <1>4, <1>8 DEF startFileExt, OpenFile, UploadEnds, FileExtDone
<1>9. CASE \E s \in Streams : SendDone(s) \/ handleReceive(s)
  BY <1>1, <1>4, <1>9 DEF SendDone, handleReceive, RecvError, RecvUpload, RecvShutdown,
     RecvRegion, RecvUpdate, Updated, CancelStream
<1>10. CASE \/ \E x \in Conns, st \in {"usable", "broken"} : Network(x, st)
            \/ Signal \/ StartupReturns \/ MainExits
  BY <1>1, <1>10 DEF Network, Signal, StartupReturns, MainExits
<1>. QED
  BY <1>5, <1>6, <1>7, <1>8, <1>9, <1>10 DEF Next, Running

\* GetConnection returns nil only with an error, for the region has a host.
LEMMA ConnectedNext == TransferInv /\ [Next]_vars => Connected'
<1>. SUFFICES ASSUME TransferInv, [Next]_vars PROVE Connected'
  OBVIOUS
<1>. USE DEF TransferInv, Connected, Dialling, Places, Goto, connVars
<1>1. CASE UNCHANGED <<pc, c>>
  BY <1>1
<1>2. CASE /\ UNCHANGED c
           /\ \E p \in Callers, l \in AllLabels \ {"state", "count", "store", "reset", "got"} :
                pc' = [pc EXCEPT ![p] = l]
  BY <1>2
<1>3. ASSUME NEW p \in Callers, GetConnection(p) \/ Resolve(p) PROVE Connected'
  <2>1. CASE LoadConn(p)
    BY <2>1 DEF LoadConn
  <2>2. CASE GetState(p)
    BY <2>2 DEF GetState
  <2>3. CASE CountUse(p)
    BY <2>3 DEF CountUse
  <2>4. CASE LoadRegion(p)
    BY <2>4 DEF LoadRegion
  <2>5. CASE NoSdHost(p) \/ NotDialed(p) \/ Resolve(p)
    BY <2>5 DEF NoSdHost, NotDialed, Resolve
  <2>6. ASSUME NEW hosts, NEW x \in Conns, Dialed(p, hosts, x) PROVE Connected'
    BY <2>6, TransferAssumption DEF Dialed
  <2>7. CASE StoreConn(p) \/ ResetUses(p)
    BY <2>7 DEF StoreConn, ResetUses
  <2>8. CASE ReturnNil(p)
    BY <2>8 DEF ReturnNil, Hosts
  <2>. QED
    BY <1>3, <2>1, <2>2, <2>3, <2>4, <2>5, <2>6, <2>7, <2>8
       DEF GetConnection, DialSd, DialPrivate, DialPublic
<1>4. CASE startTransfer
  BY SMT, <1>4 DEF startTransfer, TransferError, WaitRetry, OpenError,
     HandlersEnded, Sleep, TransferDone, CancelTransport, OpenTransfer
<1>5. CASE startFileExt
  BY <1>5 DEF startFileExt, OpenFile, UploadEnds, FileExtDone, Callers
<1>6. CASE \E s \in Streams : SendDone(s) \/ handleReceive(s)
  BY <1>6 DEF SendDone, handleReceive, RecvError, RecvUpload, RecvShutdown,
     RecvRegion, RecvUpdate, Updated, CancelStream
<1>7. CASE \/ \E x \in Conns, st \in {"usable", "broken"} : Network(x, st)
           \/ Signal \/ StartupReturns \/ MainExits \/ UNCHANGED vars
  BY <1>1, <1>7 DEF Network, Signal, StartupReturns, MainExits, vars
<1>. QED
  BY <1>3, <1>4, <1>5, <1>6, <1>7 DEF Next, Running

\* The stream, its handlers, and the end of the process.
LEMMA HandlingNext == TransferInv /\ [Next]_vars => Handling'
<1>. SUFFICES ASSUME TransferInv, [Next]_vars PROVE Handling'
  OBVIOUS
<1>. USE TransferAssumption DEF TransferInv, Handling, Places, Goto, Callers, handlers
<1>1. CASE /\ UNCHANGED <<retries, stream, send, recv, main>>
           /\ pc'["transfer"] = pc["transfer"]
  BY <1>1
<1>2. ASSUME NEW p \in Callers, GetConnection(p) \/ Resolve(p) PROVE Handling'
  <2>1. UNCHANGED <<retries, stream, send, recv, main>>
    BY <1>2 DEF GetConnection, LoadConn, GetState, CountUse, LoadRegion, NoSdHost, DialSd,
       DialPrivate, DialPublic, Dialed, NotDialed, StoreConn, ResetUses, ReturnNil, Resolve
  <2>2. /\ pc[p] \notin {"wait", "run", "end"}
        /\ \E l \in AllLabels \ {"wait", "run", "end"} : pc' = [pc EXCEPT ![p] = l]
    <3>. USE DEF Labels, AllLabels
    <3>1. CASE LoadConn(p) \/ GetState(p) \/ CountUse(p) \/ LoadRegion(p)
      BY <3>1 DEF LoadConn, GetState, CountUse, LoadRegion
    <3>2. CASE DialSd(p) \/ DialPrivate(p) \/ DialPublic(p)
      BY <3>2 DEF DialSd, DialPrivate, DialPublic, Dialed
    <3>3. CASE NoSdHost(p) \/ NotDialed(p) \/ Resolve(p)
      BY <3>3 DEF NoSdHost, NotDialed, Resolve
    <3>4. CASE StoreConn(p) \/ ResetUses(p) \/ ReturnNil(p)
      BY <3>4 DEF StoreConn, ResetUses, ReturnNil
    <3>. QED
      BY <1>2, <3>1, <3>2, <3>3, <3>4 DEF GetConnection
  <2>. QED
    BY <2>1, <2>2
<1>3. CASE startTransfer
  <2>1. CASE TransferError \/ WaitRetry
    BY SMT, <2>1 DEF TransferError, WaitRetry
  <2>2. CASE OpenError \/ Sleep \/ TransferDone \/ CancelTransport
    BY SMT, <2>2 DEF OpenError, Sleep, TransferDone, CancelTransport
  <2>3. CASE HandlersEnded
    BY <2>3 DEF HandlersEnded
  <2>4. CASE \E s \in Streams : OpenTransfer(s)
    BY SMT, <2>4 DEF OpenTransfer
  <2>. QED
    BY <1>3, <2>1, <2>2, <2>3, <2>4 DEF startTransfer
<1>4. CASE startFileExt
  BY <1>1, <1>4 DEF startFileExt, OpenFile, UploadEnds, FileExtDone
<1>5. ASSUME NEW s \in Streams, SendDone(s) \/ handleReceive(s) PROVE Handling'
  <2>1. CASE SendDone(s)
    BY <2>1 DEF SendDone
  <2>2. CASE RecvError(s) \/ RecvShutdown(s) \/ RecvUpdate(s) \/ \E r \in Regions : RecvRegion(s, r)
    BY <2>2 DEF RecvError, RecvShutdown, RecvUpdate, RecvRegion, Receives
  <2>3. CASE RecvUpload(s)
    BY <2>3 DEF RecvUpload, Receives
  <2>4. CASE Updated(s) \/ CancelStream(s)
    BY <2>4 DEF Updated, CancelStream
  <2>. QED
    BY <1>5, <2>1, <2>2, <2>3, <2>4 DEF handleReceive
<1>6. CASE \/ \E x \in Conns, st \in {"usable", "broken"} : Network(x, st)
           \/ Signal \/ UNCHANGED vars
  BY <1>1, <1>6 DEF Network, Signal, vars
<1>7. CASE StartupReturns \/ MainExits
  BY <1>7 DEF StartupReturns, MainExits
<1>. QED
  BY <1>2, <1>3, <1>4, <1>5, <1>6, <1>7 DEF Next, Running

-----------------------------------------------------------------------------
(* The count of uses.                                                      *)

LEMMA DebtType == Unstored \in Int /\ \A q \in Callers : Debt(q) \in Int
<1>1. Unstored \in Int
  BY SMT DEF Unstored
<1>2. \A q \in Callers : Debt(q) \in Int
  BY SMT DEF Debt
<1>. QED
  BY <1>1, <1>2

\* The bound is kept when the count is, nobody's debt grows and nobody leaves
\* the reset of the count.
LEMMA UsesKept ==
    ASSUME UsesBounded, uses \in Nat, uses' = uses, MaxUses \in Nat, Unstored' <= Unstored,
           \A p \in Callers : Debt(p)' <= Debt(p)
    PROVE  UsesBounded'
<1>1. /\ Debt("transfer")' <= Debt("transfer") /\ Debt("fileExt")' <= Debt("fileExt")
      /\ Debt("transfer") \in Int /\ Debt("transfer")' \in Int
      /\ Debt("fileExt") \in Int /\ Debt("fileExt")' \in Int
      /\ Unstored \in Int /\ Unstored' \in Int
  BY SMT DEF Callers, Debt, Unstored
<1>. QED
  BY SMT, <1>1 DEF UsesBounded

LEMMA UsesSame ==
    ASSUME UsesBounded, uses \in Nat, uses' = uses, MaxUses \in Nat, Unstored' = Unstored,
           \A p \in Callers : Debt(p)' = Debt(p)
    PROVE  UsesBounded'
<1>1. Unstored' <= Unstored /\ \A p \in Callers : Debt(p)' <= Debt(p)
  BY SMT, DebtType
<1>. QED
  BY <1>1, UsesKept

\* Steps outside the use of a connection change no debt.
LEMMA DebtKept ==
    ASSUME TransferInv, UNCHANGED connVars,
           \A p \in Callers :
               \/ pc'[p] = pc[p] /\ c'[p] = c[p]
               \/ pc[p] \notin {"state", "count", "reset"} /\ pc'[p] \notin {"state", "count", "reset"}
    PROVE  UsesBounded'
<1>1. \A p \in Callers : (pc'[p] = "reset") <=> (pc[p] = "reset")
  OBVIOUS
<1>2. Unstored' = Unstored
  BY <1>1 DEF Unstored
<1>3. \A p \in Callers : (Counting(p)' <=> Counting(p)) /\ (MayLoad(p)' <=> MayLoad(p))
  BY DEF Counting, MayLoad, Open, connVars
<1>4. \A p \in Callers : Debt(p)' = Debt(p)
  BY <1>1, <1>3 DEF Debt
<1>. QED
  BY <1>2, <1>4, UsesSame, TransferAssumption DEF connVars, TransferInv, Dialling

\* A caller that loads the connection now counts the one it could have loaded.
LEMMA LoadUses ==
    ASSUME TransferInv, NEW p \in Callers, LoadConn(p)
    PROVE  UsesBounded'
<1>. USE DEF TransferInv, Dialling, Places
<1>1. /\ pc[p] = "get" /\ pc'[p] \in {"region", "state"} /\ c'[p] = conn
      /\ pc'[p] = "state" <=> conn # Nil
      /\ \A q \in Callers \ {p} : pc'[q] = pc[q] /\ c'[q] = c[q]
      /\ UNCHANGED <<conn, cstate, uses>>
  BY DEF LoadConn, Goto, connVars
<1>2. Unstored' = Unstored
  BY <1>1 DEF Unstored
<1>3. \A q \in Callers \ {p} : Debt(q)' = Debt(q)
  BY <1>1 DEF Debt, Counting, MayLoad, Open
<1>4. Debt(p) = IF Open(conn) THEN 1 ELSE 0
  BY SMT, <1>1 DEF Debt, Counting, MayLoad
<1>5. Debt(p)' = IF Open(conn) THEN 1 ELSE 0
  BY SMT, <1>1 DEF Debt, Counting, MayLoad, Open
<1>6. \A q \in Callers : Debt(q) \in Int /\ Unstored \in Int
  BY SMT DEF Debt, Unstored
<1>. QED
  BY SMT, <1>1, <1>2, <1>3, <1>4, <1>5, <1>6, UsesKept, TransferAssumption

\* A connection that is not usable is closed.
LEMMA StateUses ==
    ASSUME TransferInv, NEW p \in Callers, GetState(p)
    PROVE  UsesBounded'
<1>. USE DEF TransferInv, Dialling, Places
<1>0. c[p] \in Conns /\ pc[p] = "state"
  BY DEF GetState, Connected
<1>1. CASE cstate[c[p]] = "usable"
  <2>1. /\ pc'[p] = "count" /\ \A q \in Callers \ {p} : pc'[q] = pc[q]
        /\ UNCHANGED <<conn, cstate, uses, c>>
    BY <1>1 DEF GetState, Goto
  <2>2. Unstored' = Unstored
    BY <1>0, <2>1 DEF Unstored
  <2>3. \A q \in Callers \ {p} : Debt(q)' = Debt(q)
    BY <2>1 DEF Debt, Counting, MayLoad, Open
  <2>4. Counting(p) /\ Counting(p)' /\ (MayLoad(p)' <=> MayLoad(p))
    BY <1>0, <1>1, <2>1, TransferAssumption DEF Counting, MayLoad, Open
  <2>5. Debt(p)' = Debt(p)
    BY <1>0, <2>1, <2>4 DEF Debt
  <2>6. \A q \in Callers : Debt(q) \in Int /\ Unstored \in Int
    BY SMT DEF Debt, Unstored
  <2>. QED
    BY SMT, <2>1, <2>2, <2>3, <2>5, <2>6, UsesKept, TransferAssumption
<1>2. CASE cstate[c[p]] # "usable"
  <2>1. /\ pc'[p] = "region" /\ \A q \in Callers \ {p} : pc'[q] = pc[q]
        /\ cstate' = [cstate EXCEPT ![c[p]] = "shutdown"]
        /\ UNCHANGED <<conn, uses, c>>
    BY <1>2 DEF GetState, Goto
  <2>2. Unstored' = Unstored
    BY <1>0, <2>1 DEF Unstored
  <2>3. \A x \in Conns \cup {Nil} : Open(x)' => Open(x)
    BY <1>0, <2>1 DEF Open
  <2>4. \A q \in Callers : (Counting(q)' => Counting(q)) /\ (MayLoad(q)' => MayLoad(q))
    <3>1. \A q \in Callers \ {p} : (Counting(q)' => Counting(q)) /\ (MayLoad(q)' => MayLoad(q))
      BY <2>1, <2>3 DEF Counting, MayLoad
    <3>2. ~Counting(p)'
      BY <2>1 DEF Counting
    <3>3. MayLoad(p)' => MayLoad(p)
      BY <1>0, <2>1, <2>3 DEF MayLoad, Open
    <3>. QED
      BY <3>1, <3>2, <3>3
  <2>5. \A q \in Callers : Debt(q)' <= Debt(q) /\ Debt(q) \in Int /\ Unstored \in Int
    BY SMT, <1>0, <2>1, <2>4 DEF Debt, Unstored
  <2>. QED
    BY SMT, <2>1, <2>2, <2>5, UsesKept, TransferAssumption
<1>. QED
  BY <1>1, <1>2

\* The use that is counted was owed; one too many closes the connection.
LEMMA CountUses ==
    ASSUME TransferInv, NEW p \in Callers, CountUse(p)
    PROVE  UsesBounded'
<1>. USE DEF TransferInv, Dialling, Places
<1>0. /\ c[p] \in Conns /\ pc[p] = "count" /\ uses' = uses + 1
      /\ UNCHANGED <<conn, c>> /\ uses \in Nat /\ MaxUses \in Nat
      /\ \A q \in Callers \ {p} : pc'[q] = pc[q]
  BY TransferAssumption DEF CountUse, Connected, Goto
<1>1. CASE uses' > MaxUses
  <2>1. pc'[p] = "region" /\ cstate' = [cstate EXCEPT ![c[p]] = "shutdown"]
    BY <1>1 DEF CountUse, Goto
  <2>2. Unstored' = Unstored
    BY <1>0, <2>1 DEF Unstored
  <2>3. \A x \in Conns \cup {Nil} : Open(x)' => Open(x)
    BY <1>0, <2>1 DEF Open
  <2>4. \A q \in Callers \ {p} : (Counting(q)' => Counting(q)) /\ (MayLoad(q)' => MayLoad(q))
    BY <1>0, <2>3 DEF Counting, MayLoad
  <2>5. Counting(p) /\ ~Counting(p)'
    BY <1>0, <2>1 DEF Counting
  <2>6. MayLoad(p)' => MayLoad(p)
    BY <1>0, <2>1, <2>3 DEF MayLoad, Open
  <2>7. \A q \in Callers \ {p} : Debt(q)' <= Debt(q)
    BY SMT, <1>0, <2>4 DEF Debt
  <2>8. Debt(p)' + 1 <= Debt(p)
    BY SMT, <1>0, <2>1, <2>5, <2>6 DEF Debt
  <2>9. /\ \A q \in Callers : Debt(q) \in Int /\ Debt(q)' \in Int
        /\ Unstored \in Int /\ Unstored' \in Int
    BY SMT DEF Debt, Unstored
  <2>10. Debt("transfer")' + Debt("fileExt")' + 1 <= Debt("transfer") + Debt("fileExt")
    BY SMT, <2>7, <2>8, <2>9 DEF Callers
  <2>11. /\ Debt("transfer") \in Int /\ Debt("transfer")' \in Int
         /\ Debt("fileExt") \in Int /\ Debt("fileExt")' \in Int
    BY <2>9 DEF Callers
  <2>. QED
    BY SMT, <1>0, <2>2, <2>9, <2>10, <2>11 DEF UsesBounded
<1>2. CASE ~(uses' > MaxUses)
  <2>1. pc'[p] = "got"
    BY <1>2 DEF CountUse, Goto
  <2>2. Debt(p)' \in 0..1 /\ \A q \in Callers : Debt(q)' \in 0..2
    BY SMT, <2>1 DEF Debt, Counting
  <2>3. Debt("transfer")' + Debt("fileExt")' \in 0..3 /\ Unstored' \in 0..1
    BY SMT, <2>2 DEF Callers, Unstored
  <2>4. Debt("transfer")' \in Int /\ Debt("fileExt")' \in Int
    BY SMT, <2>2 DEF Callers
  <2>. QED
    BY SMT, <1>0, <1>2, <2>3, <2>4 DEF UsesBounded
<1>. QED
  BY <1>1, <1>2

\* A new connection is nobody's yet.
LEMMA DialUses ==
    ASSUME TransferInv, NEW p \in Callers, NEW hosts, NEW x \in Conns, Dialed(p, hosts, x),
           pc[p] \in {"sd dial", "private", "public"}
    PROVE  UsesBounded'
<1>1. /\ pc'[p] = "store" /\ \A q \in Callers \ {p} : pc'[q] = pc[q] /\ c'[q] = c[q] /\ c[q] # x
      /\ cstate' = [cstate EXCEPT ![x] = "usable"] /\ conn # x
      /\ UNCHANGED <<conn, uses>>
  BY DEF TransferInv, Dialling, Places, Dialed, Goto
<1>2. Unstored' = Unstored
  BY <1>1 DEF Unstored
<1>3. Open(conn)' <=> Open(conn)
  BY <1>1 DEF Open, TransferInv, Dialling
<1>4. \A q \in Callers \ {p} : (Counting(q)' <=> Counting(q)) /\ (MayLoad(q)' <=> MayLoad(q))
  BY <1>1, <1>3 DEF Counting, MayLoad, Open, TransferInv, Dialling
<1>5. \A q \in Callers \ {p} : Debt(q)' = Debt(q)
  BY <1>1, <1>4 DEF Debt
<1>6. Debt(p)' = Debt(p)
  BY <1>1, <1>3 DEF Debt, Counting, MayLoad
<1>. QED
  BY <1>1, <1>2, <1>5, <1>6, UsesSame, TransferAssumption DEF TransferInv, Dialling

\* The other caller may use the stored connection before the count is reset:
\* the one use that Unstored has kept.
LEMMA StoreUses ==
    ASSUME TransferInv, NEW p \in Callers, StoreConn(p)
    PROVE  UsesBounded'
<1>. USE DEF TransferInv, Dialling, Places
<1>1. /\ pc[p] = "store" /\ pc'[p] = "reset" /\ \A q \in Callers \ {p} : pc'[q] = pc[q]
      /\ UNCHANGED <<cstate, uses, c>>
  BY DEF StoreConn, Goto
<1>2. Unstored' = 0 /\ Debt(p)' = 0 /\ Debt(p) \in Nat /\ Unstored \in 0..1
  BY SMT, <1>1 DEF Unstored, Debt
<1>3. ASSUME NEW q \in Callers \ {p} PROVE Debt(q)' <= Debt(q) + Unstored
  <2>1. CASE pc[q] = "reset"
    BY SMT, <1>1, <2>1 DEF Debt, Unstored
  <2>2. CASE pc[q] # "reset"
    <3>1. Unstored = 1
      BY <1>1, <2>2 DEF Unstored, Callers
    <3>2. Counting(q)' <=> Counting(q)
      BY <1>1 DEF Counting, Open
    <3>. QED
      BY SMT, <1>1, <2>2, <3>1, <3>2 DEF Debt
  <2>. QED
    BY <2>1, <2>2
<1>4. \A q \in Callers : Debt(q) \in Int /\ Debt(q)' \in Int
  BY SMT DEF Debt
<1>5. /\ Debt("transfer") \in Int /\ Debt("transfer")' \in Int
      /\ Debt("fileExt") \in Int /\ Debt("fileExt")' \in Int
  BY <1>4 DEF Callers
<1>6. Debt("transfer")' + Debt("fileExt")' <= Debt("transfer") + Debt("fileExt") + Unstored
  BY SMT, <1>2, <1>3, <1>5 DEF Callers
<1>. QED
  BY SMT, <1>1, <1>2, <1>5, <1>6, TransferAssumption DEF UsesBounded

\* The count begins anew.
LEMMA ResetUse ==
    ASSUME TransferInv, NEW p \in Callers, ResetUses(p)
    PROVE  UsesBounded'
<1>1. pc'[p] = "got" /\ uses' = 0
  BY DEF ResetUses, Goto, TransferInv, Places
<1>2. Debt(p)' \in 0..1 /\ \A q \in Callers : Debt(q)' \in 0..2
  BY SMT, <1>1 DEF Debt, Counting
<1>3. Debt("transfer")' + Debt("fileExt")' \in 0..3 /\ Unstored' \in 0..1
  BY SMT, <1>2 DEF Callers, Unstored
<1>4. Debt("transfer")' \in Int /\ Debt("fileExt")' \in Int
  BY SMT, <1>2 DEF Callers
<1>. QED
  BY SMT, <1>1, <1>3, <1>4, TransferAssumption DEF UsesBounded

\* Nobody uses a connection MaxUses + 4 times or more: every step keeps the
\* bound.
LEMMA UsesNext == TransferInv /\ [Next]_vars => UsesBounded'
<1>. SUFFICES ASSUME TransferInv, [Next]_vars PROVE UsesBounded'
  OBVIOUS
<1>. USE DEF Goto
<1>0. pc \in [Callers -> AllLabels] /\ c \in [Callers -> Conns \cup {Nil}]
  BY DEF TransferInv, Places, Dialling
<1>1. CASE UNCHANGED <<conn, cstate, uses, pc, c>>
  BY <1>1, DebtKept DEF connVars
<1>2. ASSUME NEW p \in Callers, GetConnection(p) \/ Resolve(p) PROVE UsesBounded'
  <2>1. CASE DialSd(p) \/ DialPrivate(p) \/ DialPublic(p)
    BY <2>1, DialUses DEF DialSd, DialPrivate, DialPublic
  <2>2. CASE LoadRegion(p)
    BY <1>0, <2>2, DebtKept DEF LoadRegion
  <2>3. CASE NoSdHost(p) \/ NotDialed(p) \/ Resolve(p) \/ ReturnNil(p)
    BY <1>0, <2>3, DebtKept DEF NoSdHost, NotDialed, Resolve, ReturnNil
  <2>. QED
    BY <1>2, <2>1, <2>2, <2>3, LoadUses, StateUses, CountUses, StoreUses, ResetUse
       DEF GetConnection
<1>3. CASE startTransfer
  BY <1>0, <1>3, DebtKept DEF startTransfer, TransferError, WaitRetry, OpenError,
     HandlersEnded, Sleep, TransferDone, CancelTransport, OpenTransfer
<1>4. CASE startFileExt
  BY <1>0, <1>4, DebtKept DEF startFileExt, OpenFile, UploadEnds, FileExtDone
<1>5. CASE \E s \in Streams : SendDone(s) \/ handleReceive(s)
  BY <1>0, <1>5, DebtKept DEF SendDone, handleReceive, RecvError, RecvUpload, RecvShutdown,
     RecvRegion, RecvUpdate, Updated, CancelStream
<1>6. ASSUME NEW x \in Conns, NEW st \in {"usable", "broken"}, Network(x, st) PROVE UsesBounded'
  <2>1. /\ cstate[x] # "shutdown" /\ cstate' = [cstate EXCEPT ![x] = st]
        /\ UNCHANGED <<conn, uses, pc, c>>
    BY <1>6 DEF Network
  <2>2. \A y \in Conns \cup {Nil} : Open(y)' <=> Open(y)
    BY <2>1 DEF Open, TransferInv, Dialling
  <2>3. \A q \in Callers : (Counting(q)' <=> Counting(q)) /\ (MayLoad(q)' <=> MayLoad(q))
    BY <1>0, <2>1, <2>2 DEF Counting, MayLoad, TransferInv, Dialling
  <2>4. \A q \in Callers : Debt(q)' = Debt(q)
    BY <2>1, <2>3 DEF Debt
  <2>5. Unstored' = Unstored
    BY <2>1 DEF Unstored
  <2>. QED
    BY <2>1, <2>4, <2>5, UsesSame, TransferAssumption DEF TransferInv, Dialling
<1>7. CASE Signal \/ StartupReturns \/ MainExits \/ UNCHANGED vars
  BY <1>1, <1>7 DEF Signal, StartupReturns, MainExits, connVars, vars
<1>. QED
  BY <1>2, <1>3, <1>4, <1>5, <1>6, <1>7 DEF Next, Running

-----------------------------------------------------------------------------
\* The invariant holds in every reachable state.
LEMMA TransferNext == TransferInv /\ [Next]_vars => TransferInv'
  BY DiallingNext, PlacesNext, ConnectedNext, HandlingNext, FlagsNext, UsesNext DEF TransferInv

LEMMA TransferInvariant == Spec => []TransferInv
  BY TransferInit, TransferNext, PTL DEF Spec

\* Every variable of the transport stays in its type, and the count of uses
\* passes its limit by at most four, for any number of connections and streams
\* and any limits.
THEOREM TransferTypeCorrect == Spec => []TypeOK
<1>. QED
  BY TransferInvariant, TransferTypes, PTL

\* GetConnection never returns a nil connection without an error.
THEOREM ConnectionsExist == Spec => []NoNilConnection
<1>1. TransferInv => NoNilConnection
  BY DEF TransferInv, Connected, NoNilConnection
<1>. QED
  BY <1>1, TransferInvariant, PTL

\* The process does not exit while handleReceive is in agent.Update.
THEOREM UpdatesComplete == Spec => []UpdateUninterrupted
<1>1. TransferInv => UpdateUninterrupted
  BY DEF TransferInv, Handling, UpdateUninterrupted
<1>. QED
  BY <1>1, TransferInvariant, PTL

-----------------------------------------------------------------------------
(* The two together, as MCAgentTransport has them.                         *)

\* A part that is off stays as it is: the buffer's record is nil and its process
\* has panicked, or the transport's process has exited.
TransportInv == (OwnInv \/ BufferOff) /\ (TransferInv \/ TransferOff)

LEMMA BufferOffTyped == BufferOff => BufferTypeOK
<1>. SUFFICES ASSUME BufferOff PROVE BufferTypeOK
  OBVIOUS
<1>1. crashed \in BOOLEAN
  BY DEF BufferOff
<1>2. /\ <<>> \in Seq(EncodedRecord) /\ <<NilRecord>> \in Seq(EncodedRecord)
      /\ Len(<<>>) <= Cap /\ 0 \in 0..MaxRecords
  BY SMT, BufferAssumption, NilTyped
<1>. QED
  BY <1>1, <1>2, NilTyped DEF BufferOff, BufferTypeOK

LEMMA BufferOffStays == BufferOff /\ [BufferNext]_bufferVars => BufferOff'
<1>. SUFFICES ASSUME BufferOff, [BufferNext]_bufferVars PROVE BufferOff'
  OBVIOUS
<1>1. ~BufferNext
  BY DEF BufferOff, BufferNext, ReceiveData, ReceiveCutPayload, ReceiveCutLength, ReceiveEnds,
         WriteEncodedRecord, EncodeRecord, WriteRecord, ReadEncodedRecords, Send, SendError,
         PutEncodedRecords
<1>. QED
  BY <1>1 DEF bufferVars, BufferOff

LEMMA TransferOffTyped == TransferOff => TypeOK
<1>. SUFFICES ASSUME TransferOff PROVE TypeOK
  OBVIOUS
<1>. USE TransferAssumption DEF TransferOff, Start
<1>1. /\ {subCtx, ctx} \subseteq BOOLEAN /\ subDone \in [Streams -> BOOLEAN]
      /\ cstate \in [Conns -> {"usable", "broken", "shutdown"}]
  OBVIOUS
<1>2. uses \in 0..(MaxUses + 4) /\ retries \in 0..(MaxRetries + 1)
  BY SMT
<1>3. /\ pc["transfer"] \in Labels \cup {"wait", "run", "sleep"}
      /\ pc["fileExt"] \in Labels \cup {"select", "open"}
  BY DEF Callers, Labels
<1>. QED
  BY <1>1, <1>2, <1>3 DEF TypeOK

LEMMA TransferOffStays == TransferOff /\ [Next]_vars => TransferOff'
<1>. SUFFICES ASSUME TransferOff, [Next]_vars PROVE TransferOff'
  OBVIOUS
<1>1. UNCHANGED vars
  BY DEF TransferOff, Next
<1>. QED
  BY <1>1 DEF vars, connVars, handlers, TransferOff, Start

LEMMA TransportSteps == TransportInv /\ [TransportNext]_<<bufferVars, vars>> => TransportInv'
<1>. SUFFICES ASSUME TransportInv, [TransportNext]_<<bufferVars, vars>> PROVE TransportInv'
  OBVIOUS
<1>1. [BufferNext]_bufferVars /\ [Next]_vars
  BY DEF TransportNext
<1>2. OwnInv' \/ BufferOff'
  BY <1>1, OwnInvNext, BufferOffStays DEF TransportInv
<1>3. TransferInv' \/ TransferOff'
  BY <1>1, TransferNext, TransferOffStays DEF TransportInv
<1>. QED
  BY <1>2, <1>3 DEF TransportInv

\* Whether the buffer or the transport runs, the variables of both keep their types,
\* the buffer its capacity and the connection the limit on its uses.
THEOREM TransportTypeCorrect == TransportSpec => []TransportTypeOK
<1>1. TransportInit => TransportInv
  BY OwnInvInit, TransferInit DEF TransportInit, TransportInv
<1>2. TransportInv => TransportTypeOK
  BY BufferOffTyped, TransferOffTyped, TransferTypes DEF TransportInv, OwnInv, TransportTypeOK
<1>. QED
  BY <1>1, <1>2, TransportSteps, PTL DEF TransportSpec
=============================================================================
