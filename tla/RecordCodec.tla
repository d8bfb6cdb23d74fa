---------------------------- MODULE RecordCodec ----------------------------
(***************************************************************************)
(* The way of one record from the kernel module to the agent: a hook       *)
(* prints its columns (driver/LKM/include/kprobe_print.h), transform()     *)
(* splits them and adds columns it looks up, protobuf_encode() writes keys *)
(* and values into a buffer, from its end to its start                     *)
(* (plugins/driver/src/transformer.rs), and ReceiveData of the agent       *)
(* (agent/plugin/plugin.go) takes the record out of the pipe.              *)
(*                                                                         *)
(* What a text says does not matter, only what it is and how long it is: a *)
(* text is <<"raw", c>> for column c of the hook, <<cache, c>> for what a  *)
(* cache gives for column c (or one of the error texts), and <<"key", k>>  *)
(* for key k of the schema.  Byte j of the text <<x, y>> is <<x, y, j>>; a *)
(* byte with the value n is <<"byte", "", n>>.                             *)
(***************************************************************************)
EXTENDS Integers, Sequences, SequencesExt, TLC

CONSTANTS
    Timestamps,  \* seconds since 1970, not 0
    ShortTypes,  \* data types with records of many lengths
    LongTypes,   \* data types with records of short texts only
    Lengths,     \* lengths of the first and of the last value of a record
    KeyLength,   \* of every key, and of the values between
    DstLength    \* 1024 * 1024: the buffer of record_send

VARIABLES
    record,  \* the record under way: type, time, length of first and last value
    turn,    \* turns of the loop of protobuf_encode made for it
    dst,     \* its buffer: filled from index on with out
    wire,    \* the bytes in the pipe
    rest,    \* bytes of EncodedRecord.Data that have not been unmarshalled
    got      \* what ReceiveData returned and its reader has unmarshalled

codecVars == <<record, turn, dst, wire, rest, got>>

NoRecord == [type |-> 0, time |-> 0, first |-> 0, last |-> 0]
Empty == [index |-> 0, out |-> <<>>]
NoneGot == [type |-> 0, time |-> 0, fields |-> <<>>]

-----------------------------------------------------------------------------
(* The columns of the hooks.                                               *)

ProcessColumns == <<"uid", "exe_path", "pid", "ppid", "pgid", "tgid", "sid", "comm",
                    "nodename", "sessionid", "pid_inum", "root_pid_inum">>

\* Where a hook has several formats, for IPv4, IPv6 and no socket, they have
\* the same columns.
FileHooks ==
    602 :> ProcessColumns \o <<"pathstr", "dip", "dport", "sip", "sport", "sa_family",
                               "socket_pid", "s_id">>
 @@ 601 :> ProcessColumns \o <<"query", "sa_family", "dip", "dport", "sip", "sport",
                               "opcode", "rcode">>
ExecveHook ==
    59 :> ProcessColumns \o <<"argv", "pname", "tmp_stdin", "tmp_stdout", "dip", "dport",
                              "sip", "sport", "sa_family", "pid_tree", "tty_name",
                              "socket_pid", "ssh_connection", "ld_preload", "retval">>
SocketHooks ==
    42 :> ProcessColumns \o <<"sa_family", "dip", "dport", "sip", "sport", "retval">>
 @@ 101 :> ProcessColumns \o <<"request", "owner_pid", "addr", "data_res", "pid_tree">>
 @@ 49 :> ProcessColumns \o <<"sa_family", "in_addr", "sport", "retval">>
CredHooks ==
    604 :> ProcessColumns \o <<"pid_tree", "old_uid", "retval">>
 @@ 603 :> ProcessColumns \o <<"mod_name", "pid_tree", "pwd">>
 @@ 82 :> ProcessColumns \o <<"oldname", "newname", "s_id">>
 @@ 86 :> ProcessColumns \o <<"oldname", "newname", "s_id">>
SessionHooks ==
    112 :> ProcessColumns
 @@ 157 :> ProcessColumns \o <<"option", "newname">>
\* privilege_escalation prints "-1" for the executable.
DeviceHooks ==
    608 :> ProcessColumns \o <<"file", "s_id">>
 @@ 609 :> ProcessColumns \o <<"file", "s_id">>
 @@ 165 :> ProcessColumns \o <<"pid_tree", "dev_name", "file_path", "fstype", "flags">>
 @@ 610 :> ProcessColumns \o <<"product", "manufacturer", "serial", "action">>
 @@ 611 :> ProcessColumns \o <<"parent_pid", "pid_tree", "p_cred", "c_cred">>
 @@ 356 :> ProcessColumns \o <<"fdname", "flags">>
HelperHook == 607 :> <<"exe", "argv", "wait">>
RootkitHooks ==
    700 :> <<"name">> @@ 702 :> <<"name">>
 @@ 701 :> <<"name", "syscall_number">> @@ 703 :> <<"name", "interrupt_number">>

Columns == FileHooks @@ ExecveHook @@ SocketHooks @@ CredHooks @@ SessionHooks
           @@ DeviceHooks @@ HelperHook @@ RootkitHooks
-----------------------------------------------------------------------------
(* SCHEMA: the keys of a record.                                           *)

ProcessKeys == <<"uid", "exe", "pid", "ppid", "pgid", "tgid", "sid", "comm",
                 "nodename", "sessionid", "pns", "root_pns">>
UsualKeys == <<"argv", "ppid_argv", "pgid_argv", "username", "pod_name", "exe_hash">>
TreeKeys == UsualKeys \o <<"pid_tree">>

ConnectSchema ==
    42 :> ProcessKeys \o <<"sa_family", "dip", "dport", "sip", "sport", "res">> \o TreeKeys
BindExecveSchema ==
    49 :> ProcessKeys \o <<"sa_family", "sip", "sport", "res">> \o TreeKeys
 @@ 59 :> ProcessKeys \o <<"argv", "run_path", "stdin", "stdout", "dip", "dport", "sip",
                           "sport", "sa_family", "pid_tree", "tty", "socket_pid", "ssh",
                           "ld_preload", "res", "socket_argv">> \o Tail(UsualKeys)
FileSchema ==
    82 :> ProcessKeys \o <<"old_name", "new_name", "sb_id">> \o TreeKeys
 @@ 86 :> ProcessKeys \o <<"old_name", "new_name", "sb_id">> \o TreeKeys
 @@ 101 :> ProcessKeys \o <<"ptrace_request", "target_pid", "addr", "data", "pid_tree">>
                      \o UsualKeys \o <<"target_argv">>
 @@ 112 :> ProcessKeys \o TreeKeys
 @@ 157 :> ProcessKeys \o <<"option", "new_name">> \o TreeKeys
 @@ 165 :> ProcessKeys \o <<"pid_tree", "dev", "file_path", "fstype", "flags">> \o UsualKeys
EventSchema ==
    356 :> ProcessKeys \o <<"fd_name", "flags">> \o TreeKeys
 @@ 601 :> ProcessKeys \o <<"query", "sa_family", "dip", "dport", "sip", "sport",
                            "opcode", "rcode">> \o TreeKeys
 @@ 602 :> ProcessKeys \o <<"file_path", "dip", "dport", "sip", "sport", "sa_family",
                            "socket_pid", "sb_id">> \o TreeKeys \o <<"socket_argv">>
 @@ 603 :> ProcessKeys \o <<"ko_file", "pid_tree", "run_path">> \o UsualKeys
 @@ 604 :> ProcessKeys \o <<"pid_tree", "old_uid", "res">> \o UsualKeys \o <<"old_username">>
OtherSchema ==
    607 :> <<"exe", "argv", "wait">>
 @@ 608 :> ProcessKeys \o <<"file", "sb_id">> \o TreeKeys
 @@ 609 :> ProcessKeys \o <<"file", "sb_id">> \o TreeKeys
 @@ 610 :> ProcessKeys \o <<"product_info", "manufacturer", "serial", "action">> \o TreeKeys
 @@ 611 :> ProcessKeys \o <<"dpid", "pid_tree", "dcred", "cred">> \o TreeKeys \o <<"dpid_argv">>
 @@ 700 :> <<"module_name">> @@ 702 :> <<"module_name">>
 @@ 701 :> <<"module_name", "syscall_number">>
 @@ 703 :> <<"module_name", "interrupt_number">>

SCHEMA == ConnectSchema @@ BindExecveSchema @@ FileSchema @@ EventSchema @@ OtherSchema

-----------------------------------------------------------------------------
(* The arms of transform(): the size of values, and which values are       *)
(* looked up, by cache and column.  Indices count from 0, as in the code.  *)

Usual(b) ==
    b :> <<"argv", 5>> @@ (b + 1) :> <<"argv", 3>> @@ (b + 2) :> <<"argv", 4>>
 @@ (b + 3) :> <<"user", 0>> @@ (b + 4) :> <<"ns", 10>> @@ (b + 5) :> <<"hash", 1>>
UsualAndTree(b) == Usual(b) @@ (b + 6) :> <<"tree", 5>>

Connect == [size |-> 25, looked |-> UsualAndTree(18)]
Bind == [size |-> 23, looked |-> UsualAndTree(16)]
Execve == [size |-> 33,
           looked |-> 27 :> <<"argv", 23>> @@ 28 :> <<"argv", 3>> @@ 29 :> <<"argv", 4>>
                   @@ 30 :> <<"user", 0>> @@ 31 :> <<"ns", 10>> @@ 32 :> <<"hash", 1>>]
RenameLink == [size |-> 22, looked |-> UsualAndTree(15)]
\* Fault: the columns after pid_tree are counted without it.
PtraceShifted == [size |-> 24, looked |-> Usual(16) @@ 23 :> <<"argv", 13>>]
Ptrace == [size |-> 24, looked |-> Usual(17) @@ 23 :> <<"argv", 13>>]
Setsid == [size |-> 19, looked |-> UsualAndTree(12)]
Prctl == [size |-> 21, looked |-> UsualAndTree(14)]
Mount == [size |-> 23, looked |-> Usual(17)]
MemfdCreate == [size |-> 21, looked |-> UsualAndTree(14)]
Dns == [size |-> 27, looked |-> UsualAndTree(20)]
InodeCreate == [size |-> 28, looked |-> UsualAndTree(20) @@ 27 :> <<"argv", 18>>]
InitModule == [size |-> 21, looked |-> Usual(15)]
UpdateCred == [size |-> 22, looked |-> Usual(15) @@ 21 :> <<"user", 13>>]
UsermodeHelper == [size |-> 3, looked |-> <<>>]
FilePermission == [size |-> 22, looked |-> UsualAndTree(14)]
Udev == [size |-> 23, looked |-> UsualAndTree(16)]
PrivilegeEscalation == [size |-> 24, looked |-> UsualAndTree(16) @@ 23 :> <<"argv", 12>>]
ModuleHook == [size |-> 1, looked |-> <<>>]
NumberHook == [size |-> 2, looked |-> <<>>]

Arms ==
    42 :> Connect @@ 49 :> Bind @@ 59 :> Execve @@ 82 :> RenameLink @@ 86 :> RenameLink
 @@ 101 :> Ptrace @@ 112 :> Setsid @@ 157 :> Prctl @@ 165 :> Mount @@ 356 :> MemfdCreate
 @@ 601 :> Dns @@ 602 :> InodeCreate @@ 603 :> InitModule @@ 604 :> UpdateCred
 @@ 607 :> UsermodeHelper @@ 608 :> FilePermission @@ 609 :> FilePermission
 @@ 610 :> Udev @@ 611 :> PrivilegeEscalation
 @@ 700 :> ModuleHook @@ 701 :> NumberHook @@ 702 :> ModuleHook @@ 703 :> NumberHook

\* values: the columns in their order, then what was looked up.
Values(t) ==
    [i \in 1..Arms[t].size |->
        IF i - 1 \in DOMAIN Arms[t].looked
        THEN LET l == Arms[t].looked[i - 1] IN <<l[1], Columns[t][l[2] + 1]>>
        ELSE <<"raw", IF i <= Len(Columns[t]) THEN Columns[t][i] ELSE "">>]

-----------------------------------------------------------------------------
(* protobuf_encode().  It fills dst from index on with out; before that   *)
(* dst holds what an earlier record has left there.                        *)

Byte(n) == <<"byte", "", n>>
Text(x, n) == [j \in 1..n |-> <<x[1], x[2], j>>]
Left(n) == [j \in 1..n |-> <<"left", "", j>>]

\* encoded_varint_len(): bit is the position of the highest bit of n | 1.
EncodedVarintLen(n) ==
    LET bit == IF n = 0 THEN 0 ELSE CHOOSE b \in 0..30 : n \div 2^b = 1
    IN (bit * 9 + 73) \div 64

\* encode_varint().
RECURSIVE EncodeVarint(_)
EncodeVarint(n) ==
    IF n >= 128 THEN <<Byte(128 + (n % 128))>> \o EncodeVarint(n \div 128) ELSE <<Byte(n)>>

\* dst[at..].
From(w, at) ==
    IF at <= w.index THEN Left(w.index - at) \o w.out
                     ELSE SubSeq(w.out, at - w.index + 1, Len(w.out))

\* index -= n, and bytes are written at index, n of them or not.
Back(w, n, b) ==
    [index |-> w.index - n, out |-> b \o From(w, w.index - n + Len(b))]
BackVarint(w, n) == Back(w, EncodedVarintLen(n), EncodeVarint(n))

\* One turn of the loop: value, key, and the length of the two.
BackEntry(w, key, value, n) ==
    LET v == Back(BackVarint(Back(w, n, Text(value, n)), n), 1, <<Byte(18)>>)
        k == Back(BackVarint(Back(v, KeyLength, Text(<<"key", key>>, KeyLength)),
                             KeyLength), 1, <<Byte(10)>>)
    IN Back(BackVarint(k, w.index - k.index), 1, <<Byte(10)>>)

EntryLength(n) ==
    1 + KeyLength + EncodedVarintLen(KeyLength) + 1 + n + EncodedVarintLen(n)

\* ns holds the lengths of the values.
MapLength(ns) ==
    FoldLeft(LAMBDA sum, n : sum + 1 + EntryLength(n) + EncodedVarintLen(EntryLength(n)), 0, ns)

NeededLength(type, time, ns) ==
    3 + EncodedVarintLen(type) + 3 + EncodedVarintLen(time)
      + 1 + MapLength(ns) + EncodedVarintLen(MapLength(ns))

LittleEndian(n) == <<Byte(n % 256), Byte((n \div 256) % 256), Byte(n \div 65536), Byte(0)>>

\* The lengths of the values of a record.
ValueLengths(r) ==
    LET n == Len(SCHEMA[r.type])
    IN [i \in 1..n |-> IF i = 1 THEN r.first ELSE IF i = n THEN r.last ELSE KeyLength]

\* record_send has a record of a hook; one that is too long for dst is dropped.
TransformRecord(r) ==
    /\ record = NoRecord
    /\ LET needed == NeededLength(r.type, r.time, ValueLengths(r)) IN
       IF needed > DstLength
       THEN UNCHANGED codecVars
       ELSE /\ record' = r /\ dst' = [index |-> needed, out |-> <<>>]
            /\ UNCHANGED <<turn, wire, rest, got>>

EncodeEntry ==
    /\ record # NoRecord /\ turn < Len(SCHEMA[record.type])
    /\ dst' = BackEntry(dst, SCHEMA[record.type][turn + 1], Values(record.type)[turn + 1],
                        ValueLengths(record)[turn + 1])
    /\ turn' = turn + 1
    /\ UNCHANGED <<record, wire, rest, got>>

\* The first bytes of the frame that follows.
NextFrame == Left(4)

\* After the loop; record_send writes the frame to the pipe.  A data type and a
\* time are not 0 and there is a key, so the 3 and 3 of needed_length are the
\* length of the frame and the tags of the two numbers.
EncodeHead ==
    /\ record # NoRecord /\ turn = Len(SCHEMA[record.type])
    /\ LET ns == ValueLengths(record)
           needed == NeededLength(record.type, record.time, ns)
           map == Back(BackVarint(dst, MapLength(ns)), 1, <<Byte(26)>>)
           time == Back(BackVarint(map, record.time), 1, <<Byte(16)>>)
           type == BackVarint(time, record.type)
       IN wire' = LittleEndian(needed - 4) \o <<Byte(8)>> \o From(type, 5) \o NextFrame
    /\ turn' = turn + 1 /\ dst' = Empty
    /\ UNCHANGED <<record, rest, got>>

-----------------------------------------------------------------------------
(* The agent.                                                              *)

At(s, i) == IF i \in DOMAIN s /\ s[i][1] = "byte" THEN s[i][3] ELSE 0
Slice(s, m, n) == SubSeq(s, m, IF n > Len(s) THEN Len(s) ELSE n)
After(s, n) == Slice(s, n + 1, Len(s))

\* readVarint(): the number and the bytes it took.
RECURSIVE ReadVarint(_)
ReadVarint(s) ==
    IF At(s, 1) < 128 THEN [n |-> At(s, 1), eaten |-> 1]
    ELSE LET more == ReadVarint(Tail(s))
         IN [n |-> At(s, 1) - 128 + 128 * more.n, eaten |-> more.eaten + 1]

\* ReceiveData: the length, the two numbers with their tags, the tag of data
\* in any case, and then as many bytes as the length leaves.
ReceiveRecord ==
    /\ wire # <<>> /\ got = NoneGot
    /\ LET l == At(wire, 1) + 256 * At(wire, 2) + 65536 * At(wire, 3)
           dt == ReadVarint(After(wire, 5))
           ts == ReadVarint(After(wire, 6 + dt.eaten))
           te == 3 + dt.eaten + ts.eaten
           size == ReadVarint(After(wire, 4 + te))
       IN /\ got' = [type |-> dt.n, time |-> ts.n, fields |-> <<>>]
          /\ rest' = IF te < l THEN Slice(wire, 5 + te + size.eaten, 4 + l) ELSE <<>>
          /\ wire' = After(wire, 4 + IF te < l THEN l ELSE te)
    /\ UNCHANGED <<record, turn, dst>>

\* A text that arrived, whole or not.
Whole(b) ==
    CASE b = <<>> -> [text |-> <<"", "">>, length |-> 0]
      [] b # <<>> /\ b = Text(b[1], Len(b)) ->
             [text |-> <<b[1][1], b[1][2]>>, length |-> Len(b)]
      [] OTHER -> [text |-> <<"broken", "">>, length |-> Len(b)]

\* The next field of a Payload, as a protobuf library reads a map: the last
\* occurrence of a key counts.
UnmarshalField ==
    /\ rest # <<>>
    /\ LET size == ReadVarint(Tail(rest))
           entry == Slice(rest, 2 + size.eaten, 1 + size.eaten + size.n)
           kSize == ReadVarint(After(entry, 1))
           vFrom == 1 + kSize.eaten + kSize.n
           vSize == ReadVarint(After(entry, vFrom + 1))
           key == Whole(Slice(entry, 2 + kSize.eaten, vFrom)).text[2]
           value == Whole(After(entry, vFrom + 1 + vSize.eaten))
       IN /\ got' = [got EXCEPT !.fields = key :> value @@ @]
          /\ rest' = After(rest, 1 + size.eaten + size.n)
    /\ UNCHANGED <<record, turn, dst, wire>>

\* The next record.
RecordDone ==
    /\ got # NoneGot /\ rest = <<>>
    /\ record' = NoRecord /\ turn' = 0 /\ wire' = <<>> /\ got' = NoneGot
    /\ UNCHANGED <<dst, rest>>

-----------------------------------------------------------------------------
KernelRecords ==
    [type : ShortTypes, time : Timestamps, first : Lengths, last : Lengths]
      \cup [type : LongTypes, time : Timestamps, first : {1}, last : {1}]

CodecInit ==
    /\ record = NoRecord /\ turn = 0 /\ dst = Empty
    /\ wire = <<>> /\ rest = <<>> /\ got = NoneGot
CodecNext ==
    \/ \E r \in KernelRecords : TransformRecord(r)
    \/ EncodeEntry \/ EncodeHead \/ ReceiveRecord \/ UnmarshalField \/ RecordDone
CodecSpec == CodecInit /\ [][CodecNext]_codecVars

-----------------------------------------------------------------------------
(* Properties.                                                             *)

\* How the schema calls a column of the hooks, where the two differ.
Called ==
    [exe_path |-> "exe", pid_inum |-> "pns", root_pid_inum |-> "root_pns",
     pathstr |-> "file_path", s_id |-> "sb_id", pname |-> "run_path", pwd |-> "run_path",
     tmp_stdin |-> "stdin", tmp_stdout |-> "stdout", tty_name |-> "tty",
     ssh_connection |-> "ssh", retval |-> "res", request |-> "ptrace_request",
     owner_pid |-> "target_pid", data_res |-> "data", in_addr |-> "sip",
     mod_name |-> "ko_file", oldname |-> "old_name", newname |-> "new_name",
     dev_name |-> "dev", product |-> "product_info", parent_pid |-> "dpid",
     p_cred |-> "dcred", c_cred |-> "cred", fdname |-> "fd_name", name |-> "module_name"]
KeyOf(c) == IF c \in DOMAIN Called THEN Called[c] ELSE c

\* What a key that is no column stands for.
LookedUp ==
    [argv |-> <<"argv", "tgid">>, ppid_argv |-> <<"argv", "ppid">>,
     pgid_argv |-> <<"argv", "pgid">>, socket_argv |-> <<"argv", "socket_pid">>,
     target_argv |-> <<"argv", "owner_pid">>, dpid_argv |-> <<"argv", "parent_pid">>,
     username |-> <<"user", "uid">>, old_username |-> <<"user", "old_uid">>,
     pod_name |-> <<"ns", "pid_inum">>, exe_hash |-> <<"hash", "exe_path">>,
     pid_tree |-> <<"tree", "tgid">>]
Meant(t, k) ==
    LET own == {c \in ToSet(Columns[t]) : KeyOf(c) = k}
    IN IF own # {} THEN <<"raw", CHOOSE c \in own : TRUE>> ELSE LookedUp[k]

\* What the agent takes out of the pipe is the record of the hook: its type and
\* time, every column under its key, whole, and every added value under the key
\* that says what it was looked up for; and the agent takes exactly the frame.
\* Kernel module, schema, transform() and agent each have their own idea of the
\* layout.
RecordArrives ==
    got # NoneGot /\ rest = <<>> =>
        /\ got.type = record.type /\ got.time = record.time
        /\ wire = NextFrame
        /\ \A c \in ToSet(Columns[record.type]) : KeyOf(c) \in DOMAIN got.fields
        /\ \A k \in DOMAIN got.fields :
              LET i == SelectInSeq(SCHEMA[record.type], LAMBDA x : x = k)
              IN /\ i > 0
                 /\ got.fields[k].length = ValueLengths(record)[i]
                 /\ got.fields[k].length > 0 => got.fields[k].text = Meant(record.type, k)
=============================================================================
