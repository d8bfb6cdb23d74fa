---------------------------- MODULE AgentBuffer ----------------------------
(***************************************************************************)
(* The way of a record through the agent: a plugin's receiving goroutine   *)
(* takes an EncodedRecord from the pool, fills it from the pipe and writes *)
(* it to the ring (agent/buffer); heartbeats and logs write there too;     *)
(* handleSend drains the buffer every 100 ms, sends the records and puts   *)
(* them back into the pool.                                                *)
(*                                                                         *)
(* An EncodedRecord is an object of Records together with what it says,    *)
(* the source and number of the record in it.  An object nobody refers to  *)
(* any more may be allocated again by the pool's New.                      *)
(***************************************************************************)
EXTENDS Integers, Sequences, Functions

CONSTANTS
    Plugins,   \* sources that use WriteEncodedRecord
    Writers,   \* heartbeat and log goroutines, which use WriteRecord
    Records,   \* *EncodedRecord objects
    NoObject,  \* the nil *EncodedRecord
    Cap,       \* len(buf)
    MaxRecords \* bound: records each source makes

ASSUME BufferAssumption ==
    /\ Plugins \cap Writers = {}
    /\ NoObject \notin Records \cup Plugins
    /\ Cap \in Nat \ {0}
    /\ MaxRecords \in Nat

VARIABLES
    pool,    \* EncodedRecords in the sync.Pool
    buf,     \* buf[:offset]
    hold,    \* source -> the record it has obtained and not yet written
    made,    \* source -> number of records it has made
    feed,    \* plugin -> its pipe: open, ended, or cut inside a frame
    sending, \* records handleSend holds
    sendPc,  \* handleSend
    sent,    \* history: what the server received, in order
    newest,  \* history: last record of WriteRecord since the buffer was read
    crashed  \* the agent process has panicked

bufferVars == <<pool, buf, hold, made, feed, sending, sendPc, sent, newest, crashed>>

Sources == Plugins \cup Writers
NilRecord == [obj |-> NoObject, src |-> NoObject, num |-> 0]

Objects(recs) == {recs[i].obj : i \in DOMAIN recs}
Referenced == Objects(buf) \cup Objects(sending) \cup {hold[s].obj : s \in Sources}

BufferInit ==
    /\ pool = {}
    /\ buf = <<>>
    /\ hold = [s \in Sources |-> NilRecord]
    /\ made = [s \in Sources |-> 0]
    /\ feed = [p \in Plugins |-> "open"]
    /\ sending = <<>>
    /\ sendPc = "select"
    /\ sent = <<>>
    /\ newest = NilRecord
    /\ crashed = FALSE

-----------------------------------------------------------------------------
\* pool.Get: an object of the pool, or a new one; new ones are all alike.
GetEncodedRecord(r) ==
    LET fresh == Records \ (Referenced \cup pool) IN
    /\ r \in pool \/ (fresh # {} /\ r = CHOOSE x \in fresh : TRUE)
    /\ pool' = pool \ {r}

\* Source s obtains r and fills it with its next record.
Fill(s, r) ==
    /\ hold[s] = NilRecord /\ made[s] < MaxRecords
    /\ GetEncodedRecord(r)
    /\ hold' = [hold EXCEPT ![s] = [obj |-> r, src |-> s, num |-> made[s] + 1]]
    /\ made' = [made EXCEPT ![s] = @ + 1]

\* ReceiveData returns a whole record.
ReceiveData(p, r) ==
    /\ ~crashed /\ feed[p] = "open"
    /\ Fill(p, r)
    /\ UNCHANGED <<buf, feed, sending, sendPc, sent, newest, crashed>>

\* The stream ends inside the payload of a frame: ReceiveData returns the
\* record it has begun with io.ErrUnexpectedEOF, which is not EOF, so the
\* record is written all the same.
ReceiveCutPayload(p, r) ==
    /\ ~crashed /\ feed[p] = "open"
    /\ Fill(p, r)
    /\ feed' = [feed EXCEPT ![p] = "cut in payload"]
    /\ UNCHANGED <<buf, sending, sendPc, sent, newest, crashed>>

\* The stream ends inside the length of a frame: io.ErrUnexpectedEOF and a nil
\* record, which WriteEncodedRecord stores.
ReceiveCutLength(p) ==
    /\ ~crashed /\ feed[p] = "open" /\ hold[p] = NilRecord
    /\ feed' = [feed EXCEPT ![p] = "cut in length"]
    /\ buf' = IF Len(buf) < Cap THEN Append(buf, NilRecord) ELSE buf
    /\ UNCHANGED <<pool, hold, made, sending, sendPc, sent, newest, crashed>>

\* Fault: EOF falls through to WriteEncodedRecord as well.
ReceiveEndsNoBreak(p) ==
    /\ ~crashed /\ feed[p] = "open" /\ hold[p] = NilRecord
    /\ feed' = [feed EXCEPT ![p] = "end"]
    /\ buf' = IF Len(buf) < Cap THEN Append(buf, NilRecord) ELSE buf
    /\ UNCHANGED <<pool, hold, made, sending, sendPc, sent, newest, crashed>>

\* EOF or a closed pipe at any other place: the goroutine ends.
ReceiveEnds(p) ==
    /\ ~crashed /\ feed[p] = "open" /\ hold[p] = NilRecord
    /\ feed' = [feed EXCEPT ![p] = "end"]
    /\ UNCHANGED <<pool, buf, hold, made, sending, sendPc, sent, newest, crashed>>

\* Fault: the buffer takes one record too many.
WriteEncodedRecordOver(p) ==
    /\ ~crashed /\ hold[p] # NilRecord
    /\ buf' = IF Len(buf) <= Cap THEN Append(buf, hold[p]) ELSE buf
    /\ hold' = [hold EXCEPT ![p] = NilRecord]
    /\ UNCHANGED <<pool, made, feed, sending, sendPc, sent, newest, crashed>>

\* A full buffer drops the record.
WriteEncodedRecord(p) ==
    /\ ~crashed /\ hold[p] # NilRecord
    /\ buf' = IF Len(buf) < Cap THEN Append(buf, hold[p]) ELSE buf
    /\ hold' = [hold EXCEPT ![p] = NilRecord]
    /\ UNCHANGED <<pool, made, feed, sending, sendPc, sent, newest, crashed>>

\* WriteRecord, up to the lock: encode the record into an object of the pool.
EncodeRecord(w, r) ==
    /\ ~crashed
    /\ Fill(w, r)
    /\ UNCHANGED <<buf, feed, sending, sendPc, sent, newest, crashed>>

\* "steal it": a full buffer loses its first record instead.
WriteRecord(w) ==
    /\ ~crashed /\ hold[w] # NilRecord
    /\ buf' = IF Len(buf) < Cap THEN Append(buf, hold[w]) ELSE [buf EXCEPT ![1] = hold[w]]
    /\ hold' = [hold EXCEPT ![w] = NilRecord]
    /\ newest' = hold[w]
    /\ UNCHANGED <<pool, made, feed, sending, sendPc, sent, crashed>>

-----------------------------------------------------------------------------
(* handleSend.                                                             *)

\* Fault: offset is not reset.
ReadKeepsOffset ==
    /\ ~crashed /\ sendPc = "select" /\ buf # <<>>
    /\ sending' = buf
    /\ sendPc' = "send"
    /\ newest' = NilRecord
    /\ UNCHANGED <<pool, buf, hold, made, feed, sent, crashed>>

ReadEncodedRecords ==
    /\ ~crashed /\ sendPc = "select" /\ buf # <<>>
    /\ sending' = buf
    /\ buf' = <<>>
    /\ sendPc' = "send"
    /\ newest' = NilRecord
    /\ UNCHANGED <<pool, hold, made, feed, sent, crashed>>

\* client.Send marshals the records; a nil one is dereferenced.
Send ==
    /\ ~crashed /\ sendPc = "send"
    /\ crashed' = (NilRecord \in Range(sending))
    /\ sent' = IF crashed' THEN sent
               ELSE sent \o [i \in DOMAIN sending |-> [src |-> sending[i].src, num |-> sending[i].num]]
    /\ sendPc' = "put"
    /\ UNCHANGED <<pool, buf, hold, made, feed, sending, newest>>

\* client.Send fails, after marshalling: the error is logged, the records are
\* not kept.
SendError ==
    /\ ~crashed /\ sendPc = "send"
    /\ crashed' = (NilRecord \in Range(sending))
    /\ sendPc' = "put"
    /\ UNCHANGED <<pool, buf, hold, made, feed, sending, sent, newest>>

PutEncodedRecords ==
    /\ ~crashed /\ sendPc = "put"
    /\ pool' = pool \cup Objects(sending)
    /\ sending' = <<>>
    /\ sendPc' = "select"
    /\ UNCHANGED <<buf, hold, made, feed, sent, newest, crashed>>

BufferNext ==
    \/ \E p \in Plugins, r \in Records : ReceiveData(p, r) \/ ReceiveCutPayload(p, r)
    \/ \E p \in Plugins : ReceiveCutLength(p) \/ ReceiveEnds(p) \/ WriteEncodedRecord(p)
    \/ \E w \in Writers, r \in Records : EncodeRecord(w, r)
    \/ \E w \in Writers : WriteRecord(w)
    \/ ReadEncodedRecords \/ Send \/ SendError \/ PutEncodedRecords

BufferSpec == BufferInit /\ [][BufferNext]_bufferVars

-----------------------------------------------------------------------------
EncodedRecord ==
    [obj : Records, src : Sources, num : 1..MaxRecords] \cup {NilRecord}

\* Every variable stays in its type and the buffer within its capacity.
BufferTypeOK ==
    /\ pool \in SUBSET Records
    /\ buf \in Seq(EncodedRecord) /\ Len(buf) <= Cap
    /\ hold \in [Sources -> EncodedRecord]
    /\ made \in [Sources -> 0..MaxRecords]
    /\ feed \in [Plugins -> {"open", "end", "cut in payload", "cut in length"}]
    /\ sending \in Seq(EncodedRecord)
    /\ sendPc \in {"select", "send", "put"}
    /\ newest \in EncodedRecord
    /\ crashed \in BOOLEAN

\* An EncodedRecord has one owner: while a goroutine fills or sends it, or it
\* waits in the buffer, nobody else can obtain it from the pool or has it.
NoAliasing ==
    LET queued == buf \o sending
    IN  /\ \A i, j \in DOMAIN queued :
             queued[i].obj = queued[j].obj /\ queued[i] # NilRecord => i = j
        /\ \A s \in Sources : hold[s] # NilRecord =>
             /\ hold[s].obj \notin Objects(queued)
             /\ \A t \in Sources \ {s} : hold[t].obj # hold[s].obj
        /\ pool \cap Referenced = {}

\* The server receives the records of one plugin in the order the plugin made
\* them and none twice, however many the full buffer drops, WriteRecord
\* overwrites or a failing Send loses.
PluginOrder ==
    \A i, j \in DOMAIN sent :
        i < j /\ sent[i].src = sent[j].src /\ sent[i].src \in Plugins =>
            sent[i].num < sent[j].num

\* The newest heartbeat or log record survives a full buffer until the buffer
\* is read: plugins cannot push it out.
NewestKept == newest # NilRecord => newest \in Range(buf)

\* Only a stream that ends inside the length of a frame makes the agent panic;
\* full buffers, failing sends and cut payloads do not.
CrashCause == crashed => \E p \in Plugins : feed[p] = "cut in length"
=============================================================================
