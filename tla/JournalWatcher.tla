--------------------------- MODULE JournalWatcher ---------------------------
(***************************************************************************)
(* The journal watcher plugin (plugins/journal_watcher/src/main.rs).  The  *)
(* send_record thread starts journalctl, or tail where there is none,      *)
(* reads its output and sends a record for every line of sshd it can       *)
(* parse; when the output ends it starts the command again.  The           *)
(* task_receive thread has only to notice that the agent has gone: then it *)
(* kills the command.  The Child is shared behind a Mutex.                 *)
(***************************************************************************)
EXTENDS Naturals

VARIABLES
    link,      \* pipes to the agent: "up", "closed" by SIGTERM, "gone" agent
    recvPc,    \* task_receive
    sendPc,    \* send_record
    jLock,     \* thread that holds the Mutex
    slot,      \* the Option<Child>: "none", "new", or "old", waited for
    child,     \* the command: "none", "runs", "dead" or "reaped"
    source     \* the command reads the "journal" or a "file"

journalVars == <<link, recvPc, sendPc, jLock, slot, child, source>>

-----------------------------------------------------------------------------
(* The agent, SIGTERM and the command.                                     *)

LinkBreaks ==
    /\ \/ link # "gone" /\ link' = "gone"
       \/ link = "up" /\ link' = "closed"
    /\ UNCHANGED <<recvPc, sendPc, jLock, slot, child, source>>

\* journalctl ends by itself.
CommandDies ==
    /\ child = "runs"
    /\ child' = "dead"
    /\ UNCHANGED <<link, recvPc, sendPc, jLock, slot, source>>

\* kill() of what is in the slot.  A child that was waited for is left alone.
KillSlot == child' = IF slot = "new" /\ child = "runs" THEN "dead" ELSE child

-----------------------------------------------------------------------------
(* task_receive.                                                           *)

\* Fault: the error is passed over and receive is called again.
ReceiveRetries ==
    /\ recvPc = "receive" /\ link # "up"
    /\ UNCHANGED journalVars

\* receive fails.  Descriptors closed by SIGTERM do not wake a read that
\* waits; it fails the next time it is called.
ReceiveFails ==
    /\ recvPc = "receive" /\ link # "up"
    /\ recvPc' = "lock"
    /\ UNCHANGED <<link, sendPc, jLock, slot, child, source>>

\* It kills the command, empties the slot and returns.
ReceiveKills ==
    /\ recvPc = "lock" /\ jLock = "free"
    /\ KillSlot
    /\ slot' = "none"
    /\ recvPc' = "ended"
    /\ UNCHANGED <<link, sendPc, jLock, source>>

-----------------------------------------------------------------------------
(* send_record.                                                            *)

\* The command is chosen and spawned; the thread ends if there is no source
\* or if spawn fails.
Spawn ==
    /\ sendPc = "spawn"
    /\ \/ child' = "runs" /\ sendPc' = "store" /\ source' \in {"journal", "file"}
       \/ sendPc' = "ended" /\ UNCHANGED <<child, source>>
    /\ UNCHANGED <<link, recvPc, jLock, slot>>

Store ==
    /\ sendPc = "store" /\ jLock = "free"
    /\ slot' = "new"
    /\ sendPc' = "read"
    /\ UNCHANGED <<link, recvPc, jLock, child, source>>

\* A line: a record to send, or one that is passed over.  The loop ends at
\* the end of the output and at a line that is not text.  The pid is cut from
\* the wrong word of a line of a file, which panics when that word, the name
\* of the host, is shorter than five bytes.
ReadLine ==
    /\ sendPc = "read"
    /\ \/ child = "runs" /\ sendPc' \in {"send", "reap"}
       \/ child = "runs" /\ source = "file" /\ sendPc' = "panicked"
       \/ child # "runs" /\ sendPc' = "reap"
    /\ UNCHANGED <<link, recvPc, jLock, slot, child, source>>

\* send_record: with a broken pipe it fails as soon as the buffer is full.
SendRecord ==
    /\ sendPc = "send"
    /\ sendPc' \in IF link = "up" THEN {"read"} ELSE {"read", "kill"}
    /\ UNCHANGED <<link, recvPc, jLock, slot, child, source>>

\* The record could not be sent: kill the command and return.
SendKills ==
    /\ sendPc = "kill" /\ jLock = "free"
    /\ KillSlot
    /\ slot' = "none"
    /\ sendPc' = "ended"
    /\ UNCHANGED <<link, recvPc, jLock, source>>

\* Fault: the lock is given up before the sleep.
ReapUnlocked ==
    /\ sendPc = "reap" /\ jLock = "free"
    /\ IF slot = "none"
       THEN sendPc' = "ended" /\ UNCHANGED <<slot, child>>
       ELSE child' = "reaped" /\ slot' = "old" /\ sendPc' = "sleep"
    /\ UNCHANGED <<link, recvPc, jLock, source>>

\* The output has ended.  With an empty slot the thread returns; otherwise it
\* kills and waits for the command and sleeps ten seconds, and keeps the lock
\* until the end of the loop's body.
Reap ==
    /\ sendPc = "reap" /\ jLock = "free"
    /\ IF slot = "none"
       THEN sendPc' = "ended" /\ UNCHANGED <<jLock, slot, child>>
       ELSE /\ child' = "reaped" /\ slot' = "old"
            /\ jLock' = "send_record" /\ sendPc' = "sleep"
    /\ UNCHANGED <<link, recvPc, source>>

Wake ==
    /\ sendPc = "sleep"
    /\ jLock' = "free" /\ sendPc' = "spawn"
    /\ UNCHANGED <<link, recvPc, slot, child, source>>

-----------------------------------------------------------------------------
JournalInit ==
    /\ link = "up"
    /\ recvPc = "receive"
    /\ sendPc = "spawn"
    /\ jLock = "free"
    /\ slot = "none"
    /\ child = "none"
    /\ source = "journal"

JournalThread == Spawn \/ Store \/ ReadLine \/ SendRecord \/ SendKills \/ Reap \/ Wake

JournalNext ==
    \/ LinkBreaks \/ CommandDies
    \/ ReceiveFails \/ ReceiveKills
    \/ JournalThread

JournalSpec == JournalInit /\ [][JournalNext]_journalVars

\* A line that is read goes on; whether there is a line is up to the host, so
\* reading is only fair at the end of the output.  The Mutex is not fair, but
\* the thread that waits for it is not passed over forever.
JournalFairness ==
    /\ WF_journalVars(ReceiveFails /\ link = "gone")
    /\ SF_journalVars(ReceiveKills)
    /\ WF_journalVars(Spawn \/ Store \/ SendRecord \/ SendKills \/ Reap \/ Wake)
    /\ WF_journalVars(ReadLine /\ child # "runs")

JournalFairSpec == JournalSpec /\ JournalFairness

-----------------------------------------------------------------------------
(* Properties.                                                             *)

\* The types, and that the lock is held exactly while send_record sleeps.
JournalTypeOK ==
    /\ link \in {"up", "closed", "gone"}
    /\ recvPc \in {"receive", "lock", "ended"}
    /\ sendPc \in {"spawn", "store", "read", "send", "kill", "reap", "sleep",
                  "ended", "panicked"}
    /\ jLock = IF sendPc = "sleep" THEN "send_record" ELSE "free"
    /\ slot \in {"none", "new", "old"}
    /\ child \in {"none", "runs", "dead", "reaped"}
    /\ source \in {"journal", "file"}

\* A command that runs can be killed: it is in the slot, but for the moment between
\* spawn and the store, and send_record does not return and leave it behind.
CommandOwned == child = "runs" => sendPc = "store" \/ (slot = "new" /\ sendPc # "ended")

\* task_receive has met an empty slot, or the old command in it, while the
\* new one was being started: nobody will kill that one before a record
\* cannot be sent.
Missed == recvPc = "ended" /\ slot = "new"

\* When the agent has gone the plugin ends, unless task_receive came between
\* spawn and the store of the Child.
JournalExits == link = "gone" ~> sendPc \in {"ended", "panicked"} \/ Missed
=============================================================================
