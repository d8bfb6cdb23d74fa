-------------------------- MODULE CollectorsProofs --------------------------
(***************************************************************************)
(* Proofs about the plugins that collect events.  Driver, for any          *)
(* executables, limits, quotas, ring and number of starts: DriverTypeOK,   *)
(* NothingForgotten and AddTakesEffect.  TraceReader, for any number of    *)
(* cpus, command lines and sizes of ring and buffer: TraceTypeOK and       *)
(* RightProcess.  JournalWatcher: JournalTypeOK and CommandOwned.          *)
(***************************************************************************)
EXTENDS Driver, TraceReader, JournalWatcher, FiniteSetTheorems, TLAPS

\* Most leaves are first-order steps over named definitions and go to Zenon; one
\* that needs arithmetic, records or sequences asks for SMT.
USE ZenonT(30)

-----------------------------------------------------------------------------
(* Driver.                                                                 *)

Entry == [exe : Exes, old : BOOLEAN]
ExesOf(s) == {s[i].exe : i \in 1..Len(s)}

\* What the place of each thread says about the locks and about what it holds.
Places ==
    /\ cLock = (IF recordPc = "lockEntries" THEN "record_send" ELSE None)
    /\ eLock = (IF ttlPc = "sleep" THEN None ELSE "ttl_filters")
    /\ popped \in (IF ttlPc = "lockControler" THEN Exes ELSE {None})
    /\ recordPc \in {"lockControler", "lockEntries"} => adding \in Exes
    /\ recordPc # "ended" => up = TRUE /\ controler = TRUE

DriverInv == DriverTypeOK /\ Places /\ NothingForgotten

-----------------------------------------------------------------------------
(* The table as a sequence.                                                *)

LEMMA TailExes ==
  ASSUME NEW s \in Seq(Entry), s # <<>>
  PROVE  /\ Tail(s) \in Seq(Entry) /\ Len(Tail(s)) = Len(s) - 1
         /\ Head(s).exe \in Exes
         /\ ExesOf(s) = {Head(s).exe} \cup ExesOf(Tail(s))
<1>1. /\ Tail(s) \in Seq(Entry) /\ Len(Tail(s)) = Len(s) - 1 /\ Head(s) = s[1]
      /\ Len(s) \in Nat /\ Len(s) > 0 /\ s[1] \in Entry
  BY SMT
<1>2. \A i \in 1..(Len(s) - 1) : Tail(s)[i] = s[i + 1]
  BY SMT
<1>3. ExesOf(s) \subseteq {Head(s).exe} \cup ExesOf(Tail(s))
  <2> SUFFICES ASSUME NEW i \in 1..Len(s), i # 1
               PROVE  s[i].exe \in ExesOf(Tail(s))
    BY <1>1 DEF ExesOf
  <2>1. i - 1 \in 1..Len(Tail(s)) /\ Tail(s)[i - 1] = s[i]
    BY SMT, <1>1, <1>2
  <2> QED BY <2>1 DEF ExesOf
<1>4. {Head(s).exe} \cup ExesOf(Tail(s)) \subseteq ExesOf(s)
  <2>1. Head(s).exe \in ExesOf(s)
    <3>1. 1 \in 1..Len(s)
      BY SMT, <1>1
    <3> QED BY <1>1, <3>1 DEF ExesOf
  <2>2. ASSUME NEW i \in 1..Len(Tail(s)) PROVE Tail(s)[i].exe \in ExesOf(s)
    <3>1. i + 1 \in 1..Len(s) /\ Tail(s)[i] = s[i + 1]
      BY SMT, <1>1, <1>2
    <3> QED BY <3>1 DEF ExesOf
  <2> QED BY <2>1, <2>2 DEF ExesOf
<1> QED BY <1>1, <1>3, <1>4 DEF Entry

LEMMA AppendExes ==
  ASSUME NEW s \in Seq(Entry), NEW r \in Entry
  PROVE  /\ Append(s, r) \in Seq(Entry) /\ Len(Append(s, r)) = Len(s) + 1
         /\ ExesOf(Append(s, r)) = ExesOf(s) \cup {r.exe}
<1>1. /\ Append(s, r) \in Seq(Entry) /\ Len(Append(s, r)) = Len(s) + 1 /\ Len(s) \in Nat
      /\ \A i \in 1..Len(s) : Append(s, r)[i] = s[i]
      /\ Append(s, r)[Len(s) + 1] = r
  BY SMT
<1>2. \A i \in 1..(Len(s) + 1) : i \in 1..Len(s) \/ i = Len(s) + 1
  BY SMT, <1>1
<1>3. \A i \in 1..Len(s) : i \in 1..(Len(s) + 1)
  BY SMT, <1>1
<1>4. Len(s) + 1 \in 1..(Len(s) + 1)
  BY SMT, <1>1
<1> QED BY <1>1, <1>2, <1>3, <1>4 DEF ExesOf

LEMMA IntervalSize ==
  ASSUME NEW n \in Nat PROVE IsFiniteSet(1..n) /\ Cardinality(1..n) = n
BY SMT, FS_Interval

\* A set of executables of the table is no larger than the table.
LEMMA ExesBound ==
  ASSUME NEW s \in Seq(Entry), NEW A \in SUBSET ExesOf(s)
  PROVE  IsFiniteSet(A) /\ Cardinality(A) \in Nat /\ Cardinality(A) <= Len(s)
<1> DEFINE f == [i \in 1..Len(s) |-> s[i].exe]
<1>1. Len(s) \in Nat
  BY SMT
<1>2. f \in Surjection(1..Len(s), ExesOf(s))
  BY DEF Surjection, ExesOf
<1>3. IsFiniteSet(1..Len(s)) /\ Cardinality(1..Len(s)) = Len(s)
  BY <1>1, IntervalSize
<1>4. IsFiniteSet(ExesOf(s)) /\ Cardinality(ExesOf(s)) <= Len(s)
  BY SMT, <1>2, <1>3, FS_Surjection
<1>5. IsFiniteSet(A) /\ Cardinality(A) <= Cardinality(ExesOf(s))
  BY <1>4, FS_Subset
<1> QED BY SMT, <1>1, <1>4, <1>5, FS_CardinalityType

-----------------------------------------------------------------------------
(* The inductive step, one lemma for each group of actions.                *)

LEMMA DriverInvInit == DriverInit => DriverInv
<1> SUFFICES ASSUME DriverInit PROVE DriverInv
  OBVIOUS
<1> USE DriverAssumption DEF DriverInit, NoProcess, None
<1>1. DriverTypeOK
  <2>1. /\ up \in BOOLEAN /\ pipe \in BOOLEAN /\ control \in BOOLEAN
        /\ controler \in BOOLEAN /\ beats \in BOOLEAN
    BY Zenon
  <2>2. entries \in Seq([exe : Exes, old : BOOLEAN]) /\ ring \in Seq(Records)
    BY SMT
  <2>3. exeFilter \in [Exes -> 0..(Quota + 1)]
    BY SMT
  <2> QED BY SMT, <2>1, <2>2, <2>3 DEF DriverTypeOK
<1> QED BY <1>1 DEF DriverInv, Places, NothingForgotten

\* The steps of the kernel module, of starts and ends.
LEMMA OutsideKeeps ==
  ASSUME DriverInv,
         (\E r \in Records : Hook(r)) \/ Start \/ StartFails \/ Kill \/ Exit
            \/ PipeBreaks \/ TaskReceive \/ Heartbeat
  PROVE  DriverInv'
<1> USE DriverAssumption
    DEF DriverInv, DriverTypeOK, Places, NothingForgotten, None, lockVars, kernelVars,
        sendVars, ttlVars
<1>1. ASSUME NEW r \in Records, Hook(r) PROVE DriverInv'
  <2>1. ring' \in Seq(Records) /\ Len(ring') <= RingCap
    BY SMT, <1>1 DEF Hook
  <2> QED BY SMT, <1>1, <2>1 DEF Hook
<1>2. CASE Start
  <2>1. DriverTypeOK'
    <3>1. /\ up' \in BOOLEAN /\ pipe' \in BOOLEAN /\ control' \in BOOLEAN
          /\ controler' \in BOOLEAN /\ beats' \in BOOLEAN
      BY <1>2, Zenon DEF Start
    <3>2. /\ ring' \in Seq(Records) /\ Len(ring') <= RingCap
          /\ entries' \in Seq([exe : Exes, old : BOOLEAN]) /\ Len(entries') <= Limit + 1
      BY SMT, <1>2 DEF Start
    <3>3. exeFilter' \in [Exes -> 0..(Quota + 1)]
      BY SMT, <1>2 DEF Start
    <3> QED BY <1>2, <3>1, <3>2, <3>3 DEF Start
  <2>2. Places' /\ NothingForgotten'
    BY <1>2 DEF Start
  <2> QED BY <2>1, <2>2
<1>3. CASE StartFails
  <2>1. DriverTypeOK'
    <3>1. /\ up' \in BOOLEAN /\ pipe' \in BOOLEAN /\ control' \in BOOLEAN
          /\ controler' \in BOOLEAN /\ beats' \in BOOLEAN
      BY <1>3, Zenon DEF StartFails
    <3>2. /\ ring' \in Seq(Records) /\ Len(ring') <= RingCap
          /\ entries' \in Seq([exe : Exes, old : BOOLEAN]) /\ Len(entries') <= Limit + 1
      <4>1. (ring' = ring \/ ring' = <<>>) /\ entries' = entries
        BY <1>3 DEF StartFails
      <4>2. CASE ring' = ring
        BY <4>1, <4>2
      <4>3. CASE ring' = <<>>
        BY SMT, <4>1, <4>3
      <4> QED BY <4>1, <4>2, <4>3
    <3>3. exeFilter' \in [Exes -> 0..(Quota + 1)]
      BY <1>3 DEF StartFails
    <3> QED BY <1>3, <3>1, <3>2, <3>3 DEF StartFails
  <2>2. Places'
    BY <1>3 DEF StartFails
  <2>3. NothingForgotten'
    BY <1>3 DEF StartFails
  <2> QED BY <2>1, <2>2, <2>3
<1>4. CASE Kill
  <2>1. DriverTypeOK'
    <3>1. /\ up' \in BOOLEAN /\ pipe' \in BOOLEAN /\ control' \in BOOLEAN
          /\ controler' \in BOOLEAN /\ beats' \in BOOLEAN
      BY <1>4, Zenon DEF Kill, Gone
    <3>2. /\ ring' \in Seq(Records) /\ Len(ring') <= RingCap
          /\ entries' \in Seq([exe : Exes, old : BOOLEAN]) /\ Len(entries') <= Limit + 1
      BY SMT, <1>4 DEF Kill, Gone
    <3>3. exeFilter' \in [Exes -> 0..(Quota + 1)]
      BY SMT, <1>4 DEF Kill, Gone
    <3> QED BY <1>4, <3>1, <3>2, <3>3 DEF Kill, Gone
  <2>2. Places' /\ NothingForgotten'
    BY <1>4 DEF Kill, Gone
  <2> QED BY <2>1, <2>2
<1>5. CASE Exit
  <2>1. DriverTypeOK'
    <3>1. /\ up' \in BOOLEAN /\ pipe' \in BOOLEAN /\ control' \in BOOLEAN
          /\ controler' \in BOOLEAN /\ beats' \in BOOLEAN
      BY <1>5, Zenon DEF Exit, Gone
    <3>2. /\ ring' \in Seq(Records) /\ Len(ring') <= RingCap
          /\ entries' \in Seq([exe : Exes, old : BOOLEAN]) /\ Len(entries') <= Limit + 1
      BY SMT, <1>5 DEF Exit, Gone
    <3>3. exeFilter' \in [Exes -> 0..(Quota + 1)]
      BY SMT, <1>5 DEF Exit, Gone
    <3> QED BY <1>5, <3>1, <3>2, <3>3 DEF Exit, Gone
  <2>2. Places' /\ NothingForgotten'
    BY <1>5 DEF Exit, Gone
  <2> QED BY <2>1, <2>2
<1>6. CASE PipeBreaks
  <2>1. pipe' \in BOOLEAN
    BY <1>6, Zenon DEF PipeBreaks
  <2> QED BY SMT, <1>6, <2>1 DEF PipeBreaks
<1>7. CASE TaskReceive
  <2>1. control' \in BOOLEAN
    BY <1>7 DEF TaskReceive
  <2>2. UNCHANGED <<kernelVars, up, pipe, lockVars, entries, sendVars, ttlVars, beats>>
    BY <1>7 DEF TaskReceive
  <2>3. DriverTypeOK'
    BY <2>1, <2>2
  <2>4. Places'
    BY <2>2
  <2>5. NothingForgotten'
    BY <2>2
  <2> QED BY <2>3, <2>4, <2>5
<1>8. CASE Heartbeat
  BY <1>8 DEF Heartbeat
<1> QED BY <1>1, <1>2, <1>3, <1>4, <1>5, <1>6, <1>7, <1>8

\* Reading, writing and the end of record_send leave table and lists alone.
LEMMA RecordKeeps ==
  ASSUME DriverInv,
         ReadRecord \/ AddLockControler \/ WriteRecord \/ DropKmod \/ ReadFails
            \/ (\E e \in Exes : MinutePasses(e))
  PROVE  DriverInv'
<1> USE DriverAssumption
    DEF DriverInv, DriverTypeOK, Places, NothingForgotten, None, lockVars, kernelVars,
        sendVars, ttlVars
<1>1. CASE ReadRecord
  <2>1. ring' \in Seq(Records) /\ Len(ring') <= RingCap /\ Head(ring) \in Records
    BY SMT, <1>1 DEF ReadRecord
  <2>2. CASE control \/ Head(ring) = Uncounted
    BY <1>1, <2>1, <2>2 DEF ReadRecord
  <2>3. CASE ~(control \/ Head(ring) = Uncounted)
    <3>1. Head(ring) \in Exes /\ Transform(Head(ring))
      BY <1>1, <2>1, <2>3 DEF ReadRecord, Records
    <3>2. exeFilter' \in [Exes -> 0..(Quota + 1)]
      BY SMT, <3>1 DEF Transform
    <3>3. /\ recordPc' \in {"lockControler", "write"} /\ adding' \in Exes \cup {None}
          /\ recordPc' = "lockControler" => adding' \in Exes
      BY <3>1 DEF Transform
    <3>4. /\ recordPc = "read" /\ recordPc' # "lockEntries"
          /\ UNCHANGED <<kmod, allowlist, starts, up, pipe, control, lockVars, entries, ttlVars,
                         beats>>
      BY <1>1, <3>3 DEF ReadRecord
    <3>5. DriverTypeOK'
      BY <2>1, <3>2, <3>3, <3>4
    <3>6. Places'
      BY <3>3, <3>4
    <3>7. NothingForgotten'
      BY <3>4
    <3> QED BY <3>5, <3>6, <3>7
  <2> QED BY <2>2, <2>3
<1>2. CASE AddLockControler
  BY <1>2 DEF AddLockControler
<1>3. CASE WriteRecord
  BY <1>3 DEF WriteRecord
<1>4. CASE DropKmod
  <2>1. DriverTypeOK'
    <3>1. /\ up' \in BOOLEAN /\ pipe' \in BOOLEAN /\ control' \in BOOLEAN
          /\ controler' \in BOOLEAN /\ beats' \in BOOLEAN
      BY <1>4, Zenon DEF DropKmod
    <3>2. /\ ring' \in Seq(Records) /\ Len(ring') <= RingCap
          /\ entries' \in Seq([exe : Exes, old : BOOLEAN]) /\ Len(entries') <= Limit + 1
      <4>1. (ring' = ring \/ ring' = <<>>) /\ entries' = entries
        BY <1>4 DEF DropKmod
      <4>2. CASE ring' = ring
        BY <4>1, <4>2
      <4>3. CASE ring' = <<>>
        BY SMT, <4>1, <4>3
      <4> QED BY <4>1, <4>2, <4>3
    <3>3. exeFilter' \in [Exes -> 0..(Quota + 1)]
      BY <1>4 DEF DropKmod
    <3> QED BY <1>4, <3>1, <3>2, <3>3 DEF DropKmod
  <2>2. Places'
    BY <1>4 DEF DropKmod
  <2>3. NothingForgotten'
    BY <1>4 DEF DropKmod
  <2> QED BY <2>1, <2>2, <2>3
<1>5. CASE ReadFails
  BY <1>5 DEF ReadFails
<1>6. ASSUME NEW e \in Exes, MinutePasses(e) PROVE DriverInv'
  <2>1. exeFilter' \in [Exes -> 0..(Quota + 1)]
    BY SMT, <1>6 DEF MinutePasses
  <2> QED BY SMT, <1>6, <2>1 DEF MinutePasses
<1> QED BY <1>1, <1>2, <1>3, <1>4, <1>5, <1>6

\* add_filtered_exe: with both locks held nothing has been popped.
LEMMA AddKeeps ==
  ASSUME DriverInv, AddFilteredExe
  PROVE  DriverInv' /\ adding \in allowlist'
<1> USE DriverAssumption DEF None
<1> DEFINE full == Len(entries) > Limit
           kept == IF full THEN Tail(entries) ELSE entries
           list == IF full THEN allowlist \ {Head(entries).exe} ELSE allowlist
           new == [exe |-> adding, old |-> FALSE]
<1>1. /\ entries \in Seq(Entry) /\ Len(entries) \in Nat /\ Len(entries) <= Limit + 1
      /\ adding \in Exes /\ popped = "none" /\ up = TRUE /\ controler = TRUE
      /\ allowlist \subseteq Exes /\ allowlist \subseteq ExesOf(entries)
  <2>1. /\ recordPc = "lockEntries" /\ eLock = None
    BY DEF AddFilteredExe
  <2>2. popped = "none" /\ adding \in Exes /\ up = TRUE /\ controler = TRUE
    BY <2>1 DEF DriverInv, Places
  <2> QED BY SMT, <2>2 DEF DriverInv, DriverTypeOK, NothingForgotten, ExesOf, Entry
<1>2. /\ kept \in Seq(Entry) /\ Len(kept) \in Nat /\ Len(kept) <= Limit
      /\ list \subseteq ExesOf(kept) /\ list \subseteq Exes
  <2>1. CASE full
    <3>1. entries # <<>>
      BY SMT, <1>1, <2>1
    <3> QED BY SMT, <1>1, <2>1, <3>1, TailExes
  <2>2. CASE ~full
    BY SMT, <1>1, <2>2
  <2> QED BY <2>1, <2>2
<1>3. Cardinality(list) \in Nat /\ Cardinality(list) <= Limit
  <2> HIDE DEF kept, list
  <2>1. list \in SUBSET ExesOf(kept)
    BY <1>2
  <2>2. Cardinality(list) \in Nat /\ Cardinality(list) <= Len(kept)
    BY <1>2, <2>1, ExesBound
  <2> QED BY SMT, <1>2, <2>2
<1>4. allowlist' = list \cup {adding} /\ entries' = Append(kept, new)
  BY SMT, <1>3 DEF AddFilteredExe, AddExecveExe
<1>5. new \in Entry /\ new.exe = adding
  BY <1>1 DEF Entry
<1>6. /\ entries' \in Seq(Entry) /\ Len(entries') <= Limit + 1
      /\ ExesOf(entries') = ExesOf(kept) \cup {adding}
  <2> HIDE DEF kept, new
  <2> QED BY SMT, <1>2, <1>4, <1>5, AppendExes
<1>7. DriverTypeOK'
  BY <1>1, <1>2, <1>4, <1>6
  DEF DriverInv, DriverTypeOK, AddFilteredExe, Entry, ttlVars
<1>8. Places'
  BY <1>1 DEF DriverInv, Places, AddFilteredExe, ttlVars
<1>9. NothingForgotten'
  BY <1>2, <1>4, <1>6 DEF NothingForgotten, ExesOf
<1> QED BY <1>4, <1>7, <1>8, <1>9 DEF DriverInv

LEMMA AgeKeeps == ASSUME DriverInv, Age PROVE DriverInv'
<1> PICK i \in 1..Len(entries) : entries' = [entries EXCEPT ![i].old = TRUE]
  BY DEF Age
<1>1. entries \in Seq(Entry) /\ Len(entries) <= Limit + 1
  BY DEF DriverInv, DriverTypeOK, Entry
<1>2. entries[i] \in Entry /\ [entries[i] EXCEPT !.old = TRUE] \in Entry
  <2>1. entries[i] \in Entry
    BY SMT, <1>1
  <2> QED BY <2>1 DEF Entry
<1>3. entries' \in Seq(Entry) /\ Len(entries') = Len(entries)
  BY SMT, <1>1, <1>2
<1>4. \A j \in 1..Len(entries) : entries'[j].exe = entries[j].exe
  BY SMT, <1>1, <1>2 DEF Entry
<1>5. ExesOf(entries') = ExesOf(entries)
  BY <1>3, <1>4 DEF ExesOf
<1>6. DriverTypeOK'
  BY SMT, <1>1, <1>3 DEF DriverInv, DriverTypeOK, Age, Entry, kernelVars, lockVars, sendVars, ttlVars
<1>7. Places'
  BY DEF DriverInv, Places, Age, kernelVars, lockVars, sendVars, ttlVars
<1>8. NothingForgotten'
  BY <1>5 DEF DriverInv, NothingForgotten, ExesOf, Age, kernelVars, lockVars, ttlVars
<1> QED BY <1>6, <1>7, <1>8 DEF DriverInv

\* ttl_filters: an entry leaves the table first and the module's list later;
\* in between it is popped.
LEMMA TtlKeeps == ASSUME DriverInv, TtlFilters PROVE DriverInv'
<1> USE DriverAssumption DEF kernelVars, lockVars, sendVars, None
<1>1. CASE TtlLock
  BY <1>1 DEF DriverInv, DriverTypeOK, Places, NothingForgotten, TtlLock
<1>2. CASE TtlScan
  <2>1. entries \in Seq(Entry) /\ Len(entries) <= Limit + 1
    BY DEF DriverInv, DriverTypeOK, Entry
  <2>2. CASE entries # <<>> /\ Head(entries).old
    <3>1. /\ popped' = Head(entries).exe /\ entries' = Tail(entries)
          /\ ttlPc' = "lockControler" /\ eLock' = eLock
      BY <1>2, <2>2 DEF TtlScan
    <3>2. /\ entries' \in Seq(Entry) /\ Len(entries') <= Limit + 1 /\ popped' \in Exes
          /\ ExesOf(entries) = {popped'} \cup ExesOf(entries')
      BY SMT, <2>1, <2>2, <3>1, TailExes
    <3>3. DriverTypeOK'
      BY SMTT(20), <1>2, <3>1, <3>2 DEF DriverInv, DriverTypeOK, TtlScan, Entry
    <3>4. Places'
      BY <1>2, <3>1, <3>2 DEF DriverInv, Places, TtlScan
    <3>5. NothingForgotten'
      <4>1. popped = "none"
        BY <1>2 DEF DriverInv, Places, TtlScan
      <4>2. up /\ controler => allowlist \subseteq ExesOf(entries)
        <5>1. "none" \notin allowlist
          BY DEF DriverInv, DriverTypeOK
        <5> QED BY <4>1, <5>1 DEF DriverInv, NothingForgotten, ExesOf
      <4> QED BY <1>2, <3>2, <4>2 DEF NothingForgotten, ExesOf, TtlScan
    <3> QED BY <3>3, <3>4, <3>5 DEF DriverInv
  <2>3. CASE ~(entries # <<>> /\ Head(entries).old)
    BY <1>2, <2>3 DEF DriverInv, DriverTypeOK, Places, NothingForgotten, TtlScan
  <2> QED BY <2>2, <2>3
<1>3. CASE TtlRemove
  BY <1>3 DEF DriverInv, DriverTypeOK, Places, NothingForgotten, TtlRemove
<1> QED BY <1>1, <1>2, <1>3 DEF TtlFilters

-----------------------------------------------------------------------------
LEMMA DriverInvNext ==
  ASSUME DriverInv, [DriverNext]_driverVars
  PROVE  DriverInv' /\ (recordPc = "lockEntries" /\ recordPc' = "write" => adding \in allowlist')
<1>1. CASE (\E r \in Records : Hook(r)) \/ Start \/ StartFails \/ Kill \/ Exit
            \/ PipeBreaks \/ TaskReceive \/ Heartbeat
  BY <1>1, OutsideKeeps
     DEF Hook, Start, StartFails, Kill, Exit, Gone, PipeBreaks, TaskReceive, Heartbeat, sendVars
<1>2. CASE ReadRecord \/ AddLockControler \/ WriteRecord \/ DropKmod \/ ReadFails
            \/ (\E e \in Exes : MinutePasses(e))
  BY <1>2, RecordKeeps
     DEF ReadRecord, AddLockControler, WriteRecord, DropKmod, ReadFails, MinutePasses
<1>3. CASE AddFilteredExe
  BY <1>3, AddKeeps
<1>4. CASE Age
  BY <1>4, AgeKeeps DEF Age, sendVars
<1>5. CASE TtlFilters
  BY <1>5, TtlKeeps DEF TtlFilters, TtlLock, TtlScan, TtlRemove, sendVars
<1>6. CASE UNCHANGED driverVars
  BY SMT, <1>6 DEF DriverInv, DriverTypeOK, Places, NothingForgotten, driverVars
<1> QED BY <1>1, <1>2, <1>3, <1>4, <1>5, <1>6 DEF DriverNext, RecordSend

LEMMA DriverInvAlways == DriverSpec => []DriverInv
  BY DriverInvInit, DriverInvNext, PTL DEF DriverSpec

\* The table of filtered executables stays within its limit, the exe counters within
\* the quota, and the locks are held by the threads that should hold them.
THEOREM DriverTypeCorrect == DriverSpec => []DriverTypeOK
<1>1. DriverInv => DriverTypeOK
  BY DEF DriverInv
<1> QED BY <1>1, DriverInvAlways, PTL

\* Whatever the kernel module leaves out is in the table of the plugin or just being
\* removed from both, for any limit and through any kills and restarts.
THEOREM NothingIsForgotten == DriverSpec => []NothingForgotten
<1>1. DriverInv => NothingForgotten
  BY DEF DriverInv
<1> QED BY <1>1, DriverInvAlways, PTL

\* add_filtered_exe is never refused by the module: for any limit, the table makes
\* room soon enough.
THEOREM AddsTakeEffect == DriverSpec => AddTakesEffect
<1>1. DriverInv /\ [DriverNext]_driverVars
        => [recordPc = "lockEntries" /\ recordPc' = "write" => adding \in allowlist']_driverVars
  BY DriverInvNext
<1> QED BY <1>1, DriverInvAlways, PTL DEF DriverSpec, AddTakesEffect

-----------------------------------------------------------------------------
(* TraceReader.                                                            *)

Exec(r) == r.hook = "execve"

\* No execve in s before i, between j and i, or after j.
NoneBefore(s, i) == \A k \in DOMAIN s : k < i => ~Exec(s[k])
NoneBetween(s, j, i) == \A k \in DOMAIN s : j < k /\ k < i => ~Exec(s[k])
NoneAfter(s, j) == \A k \in DOMAIN s : j < k => ~Exec(s[k])

Known(s) == \E i \in DOMAIN s : s[i].truth # Unknown

\* The caches e and t hold nothing of another execve than a.
Remembered(a, e, t) == t \in {a, Unknown} /\ (e.from = "execve" => e.argv = a)

\* The truth of a record is what the last execve before it in its ring says, ...
Linked(s) ==
    /\ \A i \in DOMAIN s : Exec(s[i]) => s[i].truth = Unknown
    /\ \A i, j \in DOMAIN s :
          s[i].truth # Unknown /\ j < i /\ Exec(s[j]) /\ NoneBetween(s, j, i)
              => s[j].argv = s[i].truth

\* ... or, if that has been read, what the caches hold.
Fits(s, e, t) ==
    \A i \in DOMAIN s : s[i].truth # Unknown /\ NoneBefore(s, i) => Remembered(s[i].truth, e, t)

\* The last execve in s is of a.
EndsWith(s, a) == \A j \in DOMAIN s : Exec(s[j]) /\ NoneAfter(s, j) => s[j].argv = a

\* The inductive invariant.  A ring in which a truth is known has all the execves
\* there are, and what told says of the process's last execve.
TraceInv ==
    /\ TraceTypeOK
    /\ \A c \in Cpus : Linked(rings[c]) /\ Fits(rings[c], cached, tree)
    /\ \A c \in Cpus : Known(rings[c]) => ~ExecveElsewhere(c)
    /\ told => /\ \A c \in Cpus : HasExecve(rings[c]) => ~ExecveElsewhere(c)
               /\ \A c \in Cpus : EndsWith(rings[c], argv)
               /\ (\A c \in Cpus : ~HasExecve(rings[c])) => Remembered(argv, cached, tree)

-----------------------------------------------------------------------------
\* Tail and Append by index.
LEMMA TailAt ==
    ASSUME NEW S, NEW s \in Seq(S), s # <<>>
    PROVE  /\ Tail(s) \in Seq(S) /\ Len(s) \in Nat /\ Len(s) >= 1 /\ Len(Tail(s)) = Len(s) - 1
           /\ DOMAIN s = 1..Len(s) /\ DOMAIN Tail(s) = 1..(Len(s) - 1)
           /\ Head(s) = s[1] /\ 1 \in DOMAIN s
           /\ \A i \in DOMAIN Tail(s) : i + 1 \in DOMAIN s /\ Tail(s)[i] = s[i + 1]
  BY SMT

LEMMA AppendAt ==
    ASSUME NEW S, NEW s \in Seq(S), NEW x \in S
    PROVE  /\ Append(s, x) \in Seq(S) /\ Len(s) \in Nat /\ Len(Append(s, x)) = Len(s) + 1
           /\ DOMAIN s = 1..Len(s) /\ DOMAIN Append(s, x) = 1..(Len(s) + 1)
           /\ Append(s, x)[Len(s) + 1] = x
           /\ \A i \in DOMAIN s : Append(s, x)[i] = s[i]
  BY SMT

\* u is s, but that some truths are not known any more.
Blurred(u, s) ==
    /\ DOMAIN u = DOMAIN s
    /\ \A i \in DOMAIN s : /\ Exec(u[i]) <=> Exec(s[i])
                           /\ Exec(s[i]) => u[i].argv = s[i].argv
                           /\ u[i].truth \in {s[i].truth, Unknown}

LEMMA BlurredKeeps ==
    ASSUME NEW u, NEW s, Blurred(u, s)
    PROVE  /\ Linked(s) => Linked(u)
           /\ \A e, t : Fits(s, e, t) => Fits(u, e, t)
           /\ Known(u) => Known(s)
           /\ HasExecve(u) <=> HasExecve(s)
           /\ \A a : EndsWith(s, a) => EndsWith(u, a)
<1>1. Linked(s) => Linked(u)
  BY DEF Blurred, Linked, NoneBetween
<1>2. ASSUME NEW e, NEW t, Fits(s, e, t) PROVE Fits(u, e, t)
  BY <1>2 DEF Blurred, Fits, NoneBefore
<1>3. Known(u) => Known(s)
  BY DEF Blurred, Known
<1>4. HasExecve(u) <=> HasExecve(s)
  BY DEF Blurred, HasExecve, Exec
<1>5. ASSUME NEW a, EndsWith(s, a) PROVE EndsWith(u, a)
  BY <1>5 DEF Blurred, EndsWith, NoneAfter
<1>. QED
  BY <1>1, <1>2, <1>3, <1>4, <1>5

\* What the first record leaves behind.
LEMMA TailKeeps ==
    ASSUME NEW s \in Seq(RingRecord), s # <<>>, Linked(s)
    PROVE  /\ Linked(Tail(s))
           /\ Known(Tail(s)) => Known(s)
           /\ HasExecve(Tail(s)) => HasExecve(s)
           /\ \A a : EndsWith(s, a) => EndsWith(Tail(s), a)
           /\ ~Exec(Head(s)) => /\ HasExecve(s) => HasExecve(Tail(s))
                                /\ \A e, t : Fits(s, e, t) => Fits(Tail(s), e, t)
           /\ Exec(Head(s)) => /\ HasExecve(s)
                               /\ \A i \in DOMAIN Tail(s) :
                                     Tail(s)[i].truth # Unknown /\ NoneBefore(Tail(s), i)
                                         => Tail(s)[i].truth = Head(s).argv
                               /\ \A a : EndsWith(s, a) /\ ~HasExecve(Tail(s)) => Head(s).argv = a
<1>. DEFINE t == Tail(s)
<1>a. Head(s) = s[1] /\ 1 \in DOMAIN s /\ DOMAIN s \subseteq Nat /\ DOMAIN t \subseteq Nat
  BY SMT, TailAt
<1>b. \A i \in DOMAIN t : i + 1 \in DOMAIN s /\ t[i] = s[i + 1]
  BY TailAt
<1>c. \A k \in DOMAIN s : k # 1 => \E i \in DOMAIN t : k = i + 1
  <2>1. ASSUME NEW k \in DOMAIN s, k # 1 PROVE k - 1 \in DOMAIN t /\ k = (k - 1) + 1
    BY SMT, <2>1, TailAt
  <2>. QED
    BY <2>1
<1>d. \A i, j \in Nat : (i + 1 < j + 1) <=> (i < j)
  BY SMT
<1>e. \A i \in DOMAIN t : 1 < i + 1
  BY SMT, TailAt
<1>. HIDE DEF t
<1>2. ASSUME NEW i \in DOMAIN t, NEW j \in DOMAIN t, j < i, NoneBetween(t, j, i)
      PROVE  j + 1 < i + 1 /\ NoneBetween(s, j + 1, i + 1)
  <2>1. j + 1 < i + 1 /\ ~(j + 1 < 1)
    BY SMT, <1>a, <1>2
  <2>2. ASSUME NEW k \in DOMAIN s, j + 1 < k, k < i + 1 PROVE ~Exec(s[k])
    <3>1. PICK m \in DOMAIN t : k = m + 1
      BY <1>c, <2>1, <2>2
    <3>2. j < m /\ m < i
      BY <1>a, <1>d, <2>2, <3>1
    <3>. QED
      BY <1>b, <1>2, <3>1, <3>2 DEF NoneBetween
  <2>. QED
    BY <2>1, <2>2 DEF NoneBetween
<1>3. ASSUME NEW j \in DOMAIN t, NoneAfter(t, j) PROVE NoneAfter(s, j + 1)
  <2>1. ~(j + 1 < 1)
    BY SMT, <1>a
  <2>2. ASSUME NEW k \in DOMAIN s, j + 1 < k PROVE ~Exec(s[k])
    <3>1. PICK m \in DOMAIN t : k = m + 1
      BY <1>c, <2>1, <2>2
    <3>2. j < m
      BY <1>a, <1>d, <2>2, <3>1
    <3>. QED
      BY <1>b, <1>3, <3>1, <3>2 DEF NoneAfter
  <2>. QED
    BY <2>2 DEF NoneAfter
<1>4. Linked(t)
  <2>1. \A i \in DOMAIN t : Exec(t[i]) => t[i].truth = Unknown
    <3>1. \A k \in DOMAIN s : Exec(s[k]) => s[k].truth = Unknown
      BY DEF Linked
    <3>. QED
      BY <1>b, <3>1
  <2>2. ASSUME NEW i \in DOMAIN t, NEW j \in DOMAIN t,
               t[i].truth # Unknown, j < i, Exec(t[j]), NoneBetween(t, j, i)
        PROVE  t[j].argv = t[i].truth
    <3>1. /\ i + 1 \in DOMAIN s /\ j + 1 \in DOMAIN s /\ s[i + 1].truth # Unknown
          /\ j + 1 < i + 1 /\ Exec(s[j + 1]) /\ NoneBetween(s, j + 1, i + 1)
      BY <1>b, <1>2, <2>2
    <3>2. s[j + 1].argv = s[i + 1].truth
      BY <3>1 DEF Linked
    <3>. QED
      BY <1>b, <3>2
  <2>. QED
    BY <2>1, <2>2 DEF Linked
<1>5. (Known(t) => Known(s)) /\ (HasExecve(t) => HasExecve(s))
  BY <1>b DEF Known, HasExecve
<1>6. ASSUME NEW a, EndsWith(s, a) PROVE EndsWith(t, a)
  <2>1. ASSUME NEW j \in DOMAIN t, Exec(t[j]), NoneAfter(t, j) PROVE t[j].argv = a
    <3>1. j + 1 \in DOMAIN s /\ Exec(s[j + 1]) /\ NoneAfter(s, j + 1) /\ t[j] = s[j + 1]
      BY <1>b, <1>3, <2>1
    <3>. QED
      BY <1>6, <3>1 DEF EndsWith
  <2>. QED
    BY <2>1 DEF EndsWith
<1>7. ASSUME ~Exec(Head(s)) PROVE HasExecve(s) => HasExecve(t)
  <2>. SUFFICES ASSUME NEW k \in DOMAIN s, Exec(s[k]) PROVE HasExecve(t)
    BY DEF HasExecve, Exec
  <2>1. k # 1
    BY <1>a, <1>7
  <2>2. PICK i \in DOMAIN t : k = i + 1
    BY <1>c, <2>1
  <2>3. Exec(t[i])
    BY <1>b, <2>2
  <2>. QED
    BY <2>3 DEF HasExecve, Exec
<1>8. ASSUME ~Exec(Head(s)), NEW e, NEW x, Fits(s, e, x) PROVE Fits(t, e, x)
  <2>1. ASSUME NEW i \in DOMAIN t, t[i].truth # Unknown, NoneBefore(t, i) PROVE Remembered(t[i].truth, e, x)
    <3>1. ASSUME NEW k \in DOMAIN s, k < i + 1, k # 1 PROVE ~Exec(s[k])
      <4>1. PICK m \in DOMAIN t : k = m + 1
        BY <1>c, <3>1
      <4>2. m < i
        BY <1>a, <1>d, <3>1, <4>1
      <4>. QED
        BY <1>b, <2>1, <4>1, <4>2 DEF NoneBefore
    <3>2. NoneBefore(s, i + 1)
      BY <1>a, <1>8, <3>1 DEF NoneBefore
    <3>3. i + 1 \in DOMAIN s /\ s[i + 1].truth # Unknown /\ t[i] = s[i + 1]
      BY <1>b, <2>1
    <3>. QED
      BY <1>8, <3>2, <3>3 DEF Fits
  <2>. QED
    BY <2>1 DEF Fits
<1>9. ASSUME Exec(Head(s)) PROVE HasExecve(s)
  BY <1>a, <1>9 DEF HasExecve, Exec
<1>10. ASSUME Exec(Head(s)), NEW i \in DOMAIN t, t[i].truth # Unknown, NoneBefore(t, i)
       PROVE  t[i].truth = Head(s).argv
  <2>1. ASSUME NEW k \in DOMAIN s, 1 < k, k < i + 1 PROVE ~Exec(s[k])
    <3>1. k # 1
      BY SMT, <2>1
    <3>2. PICK m \in DOMAIN t : k = m + 1
      BY <1>c, <3>1
    <3>3. m < i
      BY <1>a, <1>d, <2>1, <3>2
    <3>. QED
      BY <1>b, <1>10, <3>2, <3>3 DEF NoneBefore
  <2>2. NoneBetween(s, 1, i + 1)
    BY <2>1 DEF NoneBetween
  <2>3. i + 1 \in DOMAIN s /\ s[i + 1].truth # Unknown /\ t[i] = s[i + 1] /\ Exec(s[1]) /\ 1 < i + 1
    BY <1>a, <1>b, <1>e, <1>10
  <2>4. s[1].argv = s[i + 1].truth
    BY <1>a, <2>2, <2>3 DEF Linked
  <2>. QED
    BY <1>a, <2>3, <2>4
<1>11. ASSUME Exec(Head(s)), NEW a, EndsWith(s, a), ~HasExecve(t) PROVE Head(s).argv = a
  <2>1. ASSUME NEW k \in DOMAIN s, 1 < k PROVE ~Exec(s[k])
    <3>1. k # 1
      BY SMT, <2>1
    <3>. QED
      BY <1>b, <1>c, <1>11, <3>1 DEF HasExecve, Exec
  <2>2. NoneAfter(s, 1)
    BY <2>1 DEF NoneAfter
  <2>. QED
    BY <1>a, <1>11, <2>2 DEF EndsWith
<1>12. ~Exec(Head(s)) => /\ HasExecve(s) => HasExecve(t)
                         /\ \A e, x : Fits(s, e, x) => Fits(t, e, x)
  BY <1>7, <1>8
<1>13. Exec(Head(s)) => /\ HasExecve(s)
                        /\ \A i \in DOMAIN t : t[i].truth # Unknown /\ NoneBefore(t, i)
                                                 => t[i].truth = Head(s).argv
                        /\ \A a : EndsWith(s, a) /\ ~HasExecve(t) => Head(s).argv = a
  BY <1>9, <1>10, <1>11
<1>14. \A a : EndsWith(s, a) => EndsWith(t, a)
  BY <1>6
<1>. QED
  BY <1>4, <1>5, <1>12, <1>13, <1>14 DEF t

\* What an execve's record does to a ring.
LEMMA AppendExecveKeeps ==
    ASSUME NEW s \in Seq(RingRecord), NEW r \in RingRecord, Exec(r), r.truth = Unknown, Linked(s)
    PROVE  LET u == Append(s, r) IN
           /\ Linked(u) /\ HasExecve(u) /\ EndsWith(u, r.argv)
           /\ Known(u) => Known(s)
           /\ \A e, t : Fits(s, e, t) => Fits(u, e, t)
<1>. DEFINE u == Append(s, r)
            n == Len(s) + 1
<1>1. /\ n \in DOMAIN u /\ u[n] = r /\ DOMAIN s \subseteq DOMAIN u
      /\ \A i \in DOMAIN s : u[i] = s[i]
  BY SMT, AppendAt
<1>2. /\ \A i \in DOMAIN u : i = n \/ (i \in DOMAIN s /\ i < n)
      /\ \A i \in DOMAIN s, j \in DOMAIN u : j < i => j \in DOMAIN s
  BY SMT, AppendAt
<1>. HIDE DEF u, n
<1>3. ASSUME NEW i \in DOMAIN u, u[i].truth # Unknown PROVE i \in DOMAIN s /\ s[i].truth # Unknown /\ u[i] = s[i]
  BY <1>1, <1>2, <1>3
<1>4. Linked(u)
  <2>1. ASSUME NEW i \in DOMAIN u, Exec(u[i]) PROVE u[i].truth = Unknown
    <3>1. CASE i = n
      BY <1>1, <3>1
    <3>2. CASE i \in DOMAIN s
      BY <1>1, <2>1, <3>2 DEF Linked
    <3>. QED
      BY <1>2, <3>1, <3>2
  <2>2. ASSUME NEW i \in DOMAIN u, NEW j \in DOMAIN u,
               u[i].truth # Unknown, j < i, Exec(u[j]), NoneBetween(u, j, i)
        PROVE  u[j].argv = u[i].truth
    <3>1. i \in DOMAIN s /\ s[i].truth # Unknown /\ u[i] = s[i] /\ j \in DOMAIN s /\ u[j] = s[j]
      BY <1>1, <1>2, <1>3, <2>2
    <3>2. NoneBetween(s, j, i)
      BY <1>1, <2>2 DEF NoneBetween
    <3>. QED
      BY <2>2, <3>1, <3>2 DEF Linked
  <2>. QED
    BY <2>1, <2>2 DEF Linked
<1>5. HasExecve(u)
  BY <1>1 DEF HasExecve, Exec
<1>6. EndsWith(u, r.argv)
  BY <1>1, <1>2 DEF EndsWith, NoneAfter
<1>7. Known(u) => Known(s)
  BY <1>3 DEF Known
<1>8. ASSUME NEW e, NEW t, Fits(s, e, t) PROVE Fits(u, e, t)
  <2>1. ASSUME NEW i \in DOMAIN u, u[i].truth # Unknown, NoneBefore(u, i) PROVE Remembered(u[i].truth, e, t)
    <3>1. i \in DOMAIN s /\ s[i].truth # Unknown /\ u[i] = s[i]
      BY <1>3, <2>1
    <3>2. NoneBefore(s, i)
      BY <1>1, <2>1 DEF NoneBefore
    <3>. QED
      BY <1>8, <3>1, <3>2 DEF Fits
  <2>. QED
    BY <2>1 DEF Fits
<1>. QED
  BY <1>4, <1>5, <1>6, <1>7, <1>8 DEF u

\* What the record of another hook does to it.
LEMMA AppendFileKeeps ==
    ASSUME NEW s \in Seq(RingRecord), NEW r \in RingRecord, ~Exec(r), Linked(s),
           r.truth # Unknown => EndsWith(s, r.truth)
    PROVE  LET u == Append(s, r) IN
           /\ Linked(u) /\ (HasExecve(u) <=> HasExecve(s))
           /\ Known(u) => Known(s) \/ r.truth # Unknown
           /\ \A a : EndsWith(s, a) => EndsWith(u, a)
           /\ \A e, t : /\ Fits(s, e, t)
                        /\ r.truth # Unknown /\ ~HasExecve(s) => Remembered(r.truth, e, t)
                        => Fits(u, e, t)
<1>. DEFINE u == Append(s, r)
            n == Len(s) + 1
<1>1. /\ n \in DOMAIN u /\ u[n] = r /\ DOMAIN s \subseteq DOMAIN u
      /\ \A i \in DOMAIN s : u[i] = s[i]
  BY SMT, AppendAt
<1>2. /\ \A i \in DOMAIN u : i = n \/ (i \in DOMAIN s /\ i < n)
      /\ \A i \in DOMAIN s : i < n
  BY SMT, AppendAt
<1>. HIDE DEF u, n
<1>3. ASSUME NEW i \in DOMAIN u, Exec(u[i]) PROVE i \in DOMAIN s /\ u[i] = s[i]
  BY <1>1, <1>2, <1>3
<1>4. Linked(u)
  <2>1. ASSUME NEW i \in DOMAIN u, Exec(u[i]) PROVE u[i].truth = Unknown
    BY <1>3, <2>1 DEF Linked
  <2>2. ASSUME NEW i \in DOMAIN u, NEW j \in DOMAIN u,
               u[i].truth # Unknown, j < i, Exec(u[j]), NoneBetween(u, j, i)
        PROVE  u[j].argv = u[i].truth
    <3>0. j \in DOMAIN s /\ u[j] = s[j] /\ Exec(s[j])
      BY <1>3, <2>2
    <3>1. CASE i = n
      <4>1. NoneAfter(s, j)
        BY <1>1, <1>2, <2>2, <3>1 DEF NoneBetween, NoneAfter
      <4>. QED
        BY <1>1, <2>2, <3>0, <3>1, <4>1 DEF EndsWith
    <3>2. CASE i \in DOMAIN s
      <4>1. NoneBetween(s, j, i)
        BY <1>1, <2>2 DEF NoneBetween
      <4>2. u[i] = s[i]
        BY <1>1, <3>2
      <4>. QED
        BY <2>2, <3>0, <3>2, <4>1, <4>2 DEF Linked
    <3>. QED
      BY <1>2, <3>1, <3>2
  <2>. QED
    BY <2>1, <2>2 DEF Linked
<1>5. HasExecve(u) <=> HasExecve(s)
  BY <1>1, <1>3 DEF HasExecve, Exec
<1>6. ASSUME NEW a, EndsWith(s, a) PROVE EndsWith(u, a)
  <2>1. ASSUME NEW j \in DOMAIN u, Exec(u[j]), NoneAfter(u, j) PROVE u[j].argv = a
    <3>1. j \in DOMAIN s /\ u[j] = s[j]
      BY <1>3, <2>1
    <3>2. NoneAfter(s, j)
      BY <1>1, <2>1 DEF NoneAfter
    <3>. QED
      BY <1>6, <2>1, <3>1, <3>2 DEF EndsWith
  <2>. QED
    BY <2>1 DEF EndsWith
<1>7. Known(u) => Known(s) \/ r.truth # Unknown
  BY <1>1, <1>2 DEF Known
<1>8. ASSUME NEW e, NEW t, Fits(s, e, t),
             r.truth # Unknown /\ ~HasExecve(s) => Remembered(r.truth, e, t)
      PROVE  Fits(u, e, t)
  <2>1. ASSUME NEW i \in DOMAIN u, u[i].truth # Unknown, NoneBefore(u, i) PROVE Remembered(u[i].truth, e, t)
    <3>1. CASE i = n
      <4>1. ~HasExecve(s)
        BY <1>1, <1>2, <2>1, <3>1 DEF HasExecve, NoneBefore, Exec
      <4>. QED
        BY <1>1, <1>8, <2>1, <3>1, <4>1
    <3>2. CASE i \in DOMAIN s
      <4>1. NoneBefore(s, i)
        BY <1>1, <2>1 DEF NoneBefore
      <4>2. u[i] = s[i]
        BY <1>1, <3>2
      <4>. QED
        BY <1>8, <2>1, <3>2, <4>1, <4>2 DEF Fits
    <3>. QED
      BY <1>2, <3>1, <3>2
  <2>. QED
    BY <2>1 DEF Fits
<1>. QED
  BY <1>4, <1>5, <1>6, <1>7, <1>8 DEF u

\* A function on 1..n is a sequence.
LEMMA FunctionIsSeq ==
    ASSUME NEW S, NEW n \in Nat, NEW u \in [1..n -> S]
    PROVE  u \in Seq(S) /\ Len(u) = n /\ DOMAIN u = 1..n
  BY SMT

\* The first i records of t have an execve if one of them is one.
LEMMA PrefixHasExecve ==
    ASSUME NEW t \in Seq(RingRecord), NEW i \in DOMAIN t
    PROVE  HasExecve(SubSeq(t, 1, i)) <=> \E k \in DOMAIN t : (k < i \/ k = i) /\ Exec(t[k])
<1>1. /\ \A k \in DOMAIN SubSeq(t, 1, i) : k \in DOMAIN t /\ (k < i \/ k = i) /\ SubSeq(t, 1, i)[k] = t[k]
      /\ \A k \in DOMAIN t : k < i \/ k = i => k \in DOMAIN SubSeq(t, 1, i) /\ SubSeq(t, 1, i)[k] = t[k]
  BY SMT
<1>. QED
  BY <1>1 DEF HasExecve, Exec

\* Overwriting the oldest record makes room and leaves no wrong truth behind.
LEMMA OverwrittenKeeps ==
    ASSUME NEW s \in Seq(RingRecord), Len(s) <= RingSize, Linked(s)
    PROVE  LET u == Overwritten(s) IN
           /\ u \in Seq(RingRecord) /\ Len(u) + 1 <= RingSize
           /\ Linked(u) /\ (Known(u) => Known(s)) /\ (HasExecve(u) => HasExecve(s))
           /\ \A a : EndsWith(s, a) => EndsWith(u, a)
           /\ \A e, t : Fits(s, e, t) => Fits(u, e, t)
           /\ (Len(s) = RingSize /\ Exec(Head(s)) => HasExecve(Tail(s)))
                  => (HasExecve(s) => HasExecve(u))
<1>. DEFINE t == Tail(s)
            b == [i \in DOMAIN t |-> IF HasExecve(SubSeq(t, 1, i)) THEN t[i] ELSE FileRecord(Unknown)]
            u == Overwritten(s)
<1>1. RingSize \in Nat /\ RingSize >= 1 /\ Len(s) \in Nat
  BY SMT, TraceAssumption
<1>2. CASE Len(s) < RingSize
  <2>1. u = s /\ Len(s) # RingSize
    BY SMT, <1>1, <1>2 DEF Overwritten
  <2>2. Len(s) + 1 <= RingSize
    BY SMT, <1>1, <1>2
  <2>. QED
    BY <2>1, <2>2
<1>3. CASE ~(Len(s) < RingSize)
  <2>1. Len(s) = RingSize /\ s # <<>>
    BY SMT, <1>1, <1>3
  <2>2. t \in Seq(RingRecord) /\ Len(t) + 1 <= RingSize /\ Len(t) \in Nat /\ DOMAIN t = 1..Len(t)
    BY SMT, <1>1, <2>1, TailAt
  <2>3. CASE ~Exec(Head(s))
    <3>1. u = t
      BY <1>3, <2>3 DEF Overwritten, Exec
    <3>. QED
      BY <2>1, <2>2, <2>3, <3>1, TailKeeps
  <2>4. CASE Exec(Head(s))
    <3>1. u = b
      BY <1>3, <2>4 DEF Overwritten, Exec
    <3>2. /\ FileRecord(Unknown) \in RingRecord /\ ~Exec(FileRecord(Unknown))
          /\ FileRecord(Unknown).truth = Unknown
      BY SMT DEF FileRecord, RingRecord, Texts, Exec
    <3>3. \A i \in DOMAIN t : t[i] \in RingRecord
      BY SMT, <2>2
    <3>4. b \in [1..Len(t) -> RingRecord]
      BY <2>2, <3>2, <3>3
    <3>5. \A i \in DOMAIN t : b[i] = IF HasExecve(SubSeq(t, 1, i)) THEN t[i] ELSE FileRecord(Unknown)
      OBVIOUS
    <3>. HIDE DEF b, t, u
    <3>6. b \in Seq(RingRecord) /\ Len(b) = Len(t) /\ DOMAIN b = DOMAIN t
      BY <2>2, <3>4, FunctionIsSeq
    <3>7. ASSUME NEW i \in DOMAIN t PROVE \/ b[i] = t[i] /\ \E k \in DOMAIN t : (k < i \/ k = i) /\ Exec(t[k])
                                          \/ b[i] = FileRecord(Unknown) /\ ~Exec(t[i])
      BY <2>2, <3>5, PrefixHasExecve
    <3>8. Blurred(b, t)
      BY <3>2, <3>6, <3>7 DEF Blurred
    <3>9. Linked(t)
      BY <2>1, TailKeeps DEF t
    <3>10. ASSUME NEW i \in DOMAIN b, b[i].truth # Unknown PROVE ~NoneBefore(b, i)
      <4>1. PICK k \in DOMAIN t : b[i] = t[i] /\ (k < i \/ k = i) /\ Exec(t[k])
        BY <3>2, <3>6, <3>7, <3>10
      <4>2. k # i
        BY <3>9, <3>10, <4>1 DEF Linked
      <4>. QED
        BY <3>8, <4>1, <4>2 DEF NoneBefore, Blurred
    <3>11. \A e, x : Fits(b, e, x)
      BY <3>10 DEF Fits
    <3>12. /\ Linked(b) /\ (Known(b) => Known(t)) /\ (HasExecve(b) <=> HasExecve(t))
           /\ \A a : EndsWith(t, a) => EndsWith(b, a)
      BY <3>8, <3>9, BlurredKeeps
    <3>13. /\ Known(t) => Known(s)
           /\ HasExecve(t) => HasExecve(s)
           /\ \A a : EndsWith(s, a) => EndsWith(t, a)
      BY <2>1, TailKeeps DEF t
    <3>14. Len(b) + 1 <= RingSize
      BY <2>2, <3>6
    <3>15. (Len(s) = RingSize /\ Exec(Head(s)) => HasExecve(t)) => HasExecve(b)
      BY <2>1, <2>4, <3>12
    <3>. QED
      BY <3>1, <3>6, <3>11, <3>12, <3>13, <3>14, <3>15 DEF t, u
  <2>. QED
    BY <2>3, <2>4
<1>. QED
  BY <1>2, <1>3

\* An execve on another cpu leaves no truth known here.
LEMMA OvertakenKeeps ==
    ASSUME NEW s \in Seq(RingRecord), Linked(s)
    PROVE  LET u == Overtaken(s) IN
           /\ u \in Seq(RingRecord) /\ Len(u) = Len(s)
           /\ Linked(u) /\ ~Known(u) /\ (HasExecve(u) <=> HasExecve(s))
           /\ \A e, t : Fits(u, e, t)
<1>. DEFINE u == Overtaken(s)
<1>1. /\ FileRecord(Unknown) \in RingRecord /\ ~Exec(FileRecord(Unknown))
      /\ FileRecord(Unknown).truth = Unknown
  BY SMT DEF FileRecord, RingRecord, Texts, Exec
<1>2. Len(s) \in Nat /\ DOMAIN s = 1..Len(s) /\ \A i \in DOMAIN s : s[i] \in RingRecord
  BY SMT
<1>3. \A i \in DOMAIN s : u[i] = IF s[i].hook = "file" THEN FileRecord(Unknown) ELSE s[i]
  BY DEF Overtaken
<1>4. u \in [1..Len(s) -> RingRecord]
  BY <1>1, <1>2 DEF Overtaken
<1>. HIDE DEF u
<1>5. u \in Seq(RingRecord) /\ Len(u) = Len(s) /\ DOMAIN u = DOMAIN s
  BY <1>2, <1>4, FunctionIsSeq
<1>6. \A r \in RingRecord : (r.hook = "file") <=> ~Exec(r)
  BY SMT DEF RingRecord, Exec
<1>7. Blurred(u, s)
  BY <1>1, <1>2, <1>3, <1>5, <1>6 DEF Blurred
<1>8. ~Known(u)
  BY <1>1, <1>2, <1>3, <1>5, <1>6 DEF Known, Linked
<1>9. \A e, t : Fits(u, e, t)
  BY <1>8 DEF Known, Fits
<1>. QED
  BY <1>5, <1>7, <1>8, <1>9, BlurredKeeps DEF u

\* The cpu after a cpu is one.
LEMMA CpuAfterIsCpu == \A c \in Cpus : CpuAfter(c) \in Cpus
  BY SMT, TraceAssumption DEF CpuAfter, Cpus

\* The records the hooks write.
LEMMA HookRecords ==
    ASSUME NEW a \in Texts
    PROVE  /\ ExecveRecord(a) \in RingRecord /\ Exec(ExecveRecord(a))
           /\ ExecveRecord(a).truth = Unknown /\ ExecveRecord(a).argv = a
           /\ FileRecord(a) \in RingRecord /\ ~Exec(FileRecord(a)) /\ FileRecord(a).truth = a
  BY SMT DEF ExecveRecord, FileRecord, RingRecord, Texts, Exec

\* The rings after a hook has written.
LEMMA Written ==
    ASSUME TraceInv, NEW c \in Cpus, NEW r \in RingRecord, Write(c, r)
    PROVE  /\ rings' \in [Cpus -> Seq(RingRecord)] /\ \A d \in Cpus : Len(rings'[d]) <= RingSize
           /\ rings'[c] = Append(Overwritten(rings[c]), r)
           /\ \A d \in Cpus \ {c} : rings'[d] = IF Exec(r) THEN Overtaken(rings[d]) ELSE rings[d]
<1>1. \A d \in Cpus : rings[d] \in Seq(RingRecord) /\ Len(rings[d]) <= RingSize /\ Linked(rings[d])
  BY DEF TraceInv, TraceTypeOK
<1>2. /\ rings'[c] = Append(Overwritten(rings[c]), r)
      /\ \A d \in Cpus \ {c} : rings'[d] = IF Exec(r) THEN Overtaken(rings[d]) ELSE rings[d]
  BY DEF Write, Exec
<1>3. rings'[c] \in Seq(RingRecord) /\ Len(rings'[c]) <= RingSize
  <2>1. Overwritten(rings[c]) \in Seq(RingRecord) /\ Len(Overwritten(rings[c])) + 1 <= RingSize
    BY <1>1, OverwrittenKeeps
  <2>2. /\ Append(Overwritten(rings[c]), r) \in Seq(RingRecord)
        /\ Len(Append(Overwritten(rings[c]), r)) = Len(Overwritten(rings[c])) + 1
    BY <2>1, AppendAt
  <2>. QED
    BY <1>2, <2>1, <2>2
<1>4. ASSUME NEW d \in Cpus \ {c} PROVE rings'[d] \in Seq(RingRecord) /\ Len(rings'[d]) <= RingSize
  BY <1>1, <1>2, OvertakenKeeps
<1>5. \A d \in Cpus : rings'[d] \in Seq(RingRecord) /\ Len(rings'[d]) <= RingSize
  BY <1>3, <1>4
<1>6. rings' = [d \in Cpus |-> rings'[d]]
  BY DEF Write
<1>7. rings' \in [Cpus -> Seq(RingRecord)]
  BY <1>5, <1>6
<1>. QED
  BY <1>2, <1>5, <1>7

\* An execve, successful or not, is reported.
LEMMA ExecveKeeps ==
    ASSUME TraceInv, NEW c \in Cpus, NEW a \in Argvs, ExecveReturns(c, a) \/ ExecveFails(c, a)
    PROVE  TraceInv'
<1>. DEFINE r == ExecveRecord(a)
            o == Overwritten(rings[c])
<1>0. a \in Texts /\ r \in RingRecord /\ Exec(r) /\ r.truth = Unknown /\ r.argv = a
  BY HookRecords DEF Texts
<1>1. /\ Write(c, r) /\ cached' = cached /\ tree' = tree
      /\ start' = start /\ next' = next /\ taken' = taken
      /\ argv' \in {argv, a} /\ told' \in BOOLEAN
      /\ told' => argv' = a /\ ~ExecveElsewhere(c)
  BY DEF ExecveReturns, ExecveFails
<1>2. \A d \in Cpus : /\ rings[d] \in Seq(RingRecord) /\ Len(rings[d]) <= RingSize
                      /\ Linked(rings[d]) /\ Fits(rings[d], cached, tree)
  BY DEF TraceInv, TraceTypeOK
<1>3. /\ rings' \in [Cpus -> Seq(RingRecord)] /\ \A d \in Cpus : Len(rings'[d]) <= RingSize
      /\ rings'[c] = Append(o, r)
      /\ \A d \in Cpus \ {c} : rings'[d] = Overtaken(rings[d])
  BY <1>0, <1>1, Written
<1>4. /\ o \in Seq(RingRecord) /\ Linked(o) /\ Fits(o, cached, tree) /\ (Known(o) => Known(rings[c]))
  BY <1>2, OverwrittenKeeps
<1>. HIDE DEF r, o
<1>5. /\ Linked(rings'[c]) /\ HasExecve(rings'[c]) /\ EndsWith(rings'[c], a)
      /\ Fits(rings'[c], cached, tree) /\ (Known(rings'[c]) => Known(rings[c]))
  <2>1. /\ Linked(Append(o, r)) /\ HasExecve(Append(o, r)) /\ EndsWith(Append(o, r), r.argv)
        /\ (Known(Append(o, r)) => Known(o))
        /\ \A e, t : Fits(o, e, t) => Fits(Append(o, r), e, t)
    BY <1>0, <1>4, AppendExecveKeeps
  <2>. QED
    BY <1>0, <1>3, <1>4, <2>1
<1>6. ASSUME NEW d \in Cpus \ {c}
      PROVE  /\ Linked(rings'[d]) /\ Fits(rings'[d], cached, tree) /\ ~Known(rings'[d])
             /\ HasExecve(rings'[d]) <=> HasExecve(rings[d])
  <2>1. rings[d] \in Seq(RingRecord) /\ Linked(rings[d])
    BY <1>2
  <2>2. /\ Linked(Overtaken(rings[d])) /\ ~Known(Overtaken(rings[d]))
        /\ HasExecve(Overtaken(rings[d])) <=> HasExecve(rings[d])
        /\ \A e, t : Fits(Overtaken(rings[d]), e, t)
    BY <2>1, OvertakenKeeps
  <2>. QED
    BY <1>3, <2>2
<1>7. ExecveElsewhere(c)' <=> ExecveElsewhere(c)
  BY <1>6 DEF ExecveElsewhere
<1>8. TraceTypeOK'
  BY <1>0, <1>1, <1>3 DEF TraceInv, TraceTypeOK
<1>9. \A d \in Cpus : Linked(rings'[d]) /\ Fits(rings'[d], cached', tree')
  BY <1>1, <1>5, <1>6
<1>10. \A d \in Cpus : Known(rings'[d]) => ~ExecveElsewhere(d)'
  BY <1>5, <1>6, <1>7 DEF TraceInv
<1>11. ASSUME told' PROVE /\ \A d \in Cpus : HasExecve(rings'[d]) => ~ExecveElsewhere(d)'
                          /\ \A d \in Cpus : EndsWith(rings'[d], argv')
  <2>1. \A d \in Cpus \ {c} : ~HasExecve(rings'[d])
    BY <1>1, <1>6, <1>11 DEF ExecveElsewhere
  <2>2. \A d \in Cpus \ {c} : EndsWith(rings'[d], argv')
    BY <2>1 DEF EndsWith, HasExecve, Exec
  <2>3. argv' = a /\ ~ExecveElsewhere(c)'
    BY <1>1, <1>7, <1>11
  <2>4. ASSUME NEW d \in Cpus PROVE EndsWith(rings'[d], argv') /\ (HasExecve(rings'[d]) => ~ExecveElsewhere(d)')
    <3>1. CASE d = c
      BY <1>5, <2>3, <3>1
    <3>2. CASE d # c
      BY <2>1, <2>2, <3>2
    <3>. QED
      BY <3>1, <3>2
  <2>. QED
    BY <2>4
<1>. QED
  BY <1>5, <1>8, <1>9, <1>10, <1>11 DEF TraceInv

\* The record of another hook.
LEMMA FileHookKeeps ==
    ASSUME TraceInv, NEW c \in Cpus, FileHook(c)
    PROVE  TraceInv'
<1>. DEFINE sure == told /\ ~ExecveElsewhere(c) /\ Kept(c)
            a == IF sure THEN argv ELSE Unknown
            r == FileRecord(a)
            o == Overwritten(rings[c])
<1>0. a \in Texts
  BY DEF TraceInv, TraceTypeOK, Texts
<1>1. r \in RingRecord /\ ~Exec(r) /\ r.truth = a
  BY <1>0, HookRecords
<1>2. /\ Write(c, r) /\ cached' = cached /\ tree' = tree /\ argv' = argv
      /\ start' = start /\ next' = next /\ taken' = taken
      /\ told' = (told /\ Kept(c)) /\ told \in BOOLEAN
  BY DEF FileHook, TraceInv, TraceTypeOK
<1>3. \A d \in Cpus : /\ rings[d] \in Seq(RingRecord) /\ Len(rings[d]) <= RingSize
                      /\ Linked(rings[d]) /\ Fits(rings[d], cached, tree)
  BY DEF TraceInv, TraceTypeOK
<1>4. /\ rings' \in [Cpus -> Seq(RingRecord)] /\ \A d \in Cpus : Len(rings'[d]) <= RingSize
      /\ rings'[c] = Append(o, r)
      /\ \A d \in Cpus \ {c} : rings'[d] = rings[d]
  BY <1>1, <1>2, Written
<1>5. /\ o \in Seq(RingRecord) /\ Linked(o) /\ Fits(o, cached, tree)
      /\ (Known(o) => Known(rings[c])) /\ (HasExecve(o) => HasExecve(rings[c]))
      /\ \A x : EndsWith(rings[c], x) => EndsWith(o, x)
      /\ Kept(c) => (HasExecve(rings[c]) => HasExecve(o))
  BY <1>3, OverwrittenKeeps DEF Kept, Exec
<1>6. a # Unknown => sure /\ a = argv
  OBVIOUS
<1>. HIDE DEF r, o, a
<1>7. a # Unknown => EndsWith(o, a)
  BY <1>5, <1>6 DEF TraceInv
<1>8. a # Unknown /\ ~HasExecve(o) => Remembered(a, cached, tree)
  <2>1. ASSUME a # Unknown, ~HasExecve(o) PROVE Remembered(a, cached, tree)
    <3>1. \A d \in Cpus : ~HasExecve(rings[d])
      BY <1>5, <1>6, <2>1 DEF ExecveElsewhere
    <3>. QED
      BY <1>6, <2>1, <3>1 DEF TraceInv
  <2>. QED
    BY <2>1
<1>9. /\ Linked(rings'[c]) /\ Fits(rings'[c], cached, tree)
      /\ Known(rings'[c]) => Known(rings[c]) \/ a # Unknown
      /\ HasExecve(rings'[c]) <=> HasExecve(o)
      /\ \A x : EndsWith(rings[c], x) => EndsWith(rings'[c], x)
  <2>1. r.truth # Unknown => EndsWith(o, r.truth)
    BY <1>1, <1>7
  <2>2. /\ Linked(Append(o, r)) /\ (HasExecve(Append(o, r)) <=> HasExecve(o))
        /\ Known(Append(o, r)) => Known(o) \/ r.truth # Unknown
        /\ \A x : EndsWith(o, x) => EndsWith(Append(o, r), x)
        /\ \A e, t : /\ Fits(o, e, t)
                     /\ r.truth # Unknown /\ ~HasExecve(o) => Remembered(r.truth, e, t)
                     => Fits(Append(o, r), e, t)
    BY <1>1, <1>5, <2>1, AppendFileKeeps
  <2>3. Fits(Append(o, r), cached, tree)
    BY <1>1, <1>5, <1>8, <2>2
  <2>. QED
    BY <1>1, <1>4, <1>5, <2>2, <2>3
<1>10. \A d \in Cpus : HasExecve(rings'[d]) => HasExecve(rings[d])
  BY <1>4, <1>5, <1>9
<1>11. \A d \in Cpus : ExecveElsewhere(d)' => ExecveElsewhere(d)
  BY <1>10 DEF ExecveElsewhere
<1>12. TraceTypeOK'
  BY <1>2, <1>4 DEF TraceInv, TraceTypeOK
<1>13. \A d \in Cpus : Linked(rings'[d]) /\ Fits(rings'[d], cached', tree')
  BY <1>2, <1>3, <1>4, <1>9
<1>14. \A d \in Cpus : Known(rings'[d]) => ~ExecveElsewhere(d)'
  <2>1. ASSUME NEW d \in Cpus, Known(rings'[d]) PROVE Known(rings[d]) \/ ~ExecveElsewhere(d)
    BY <1>4, <1>6, <1>9, <2>1
  <2>. QED
    BY <1>11, <2>1 DEF TraceInv
<1>15. ASSUME told' PROVE /\ \A d \in Cpus : HasExecve(rings'[d]) => ~ExecveElsewhere(d)'
                          /\ \A d \in Cpus : EndsWith(rings'[d], argv')
                          /\ (\A d \in Cpus : ~HasExecve(rings'[d])) => Remembered(argv', cached', tree')
  <2>1. told /\ Kept(c)
    BY <1>2, <1>15
  <2>2. \A d \in Cpus : HasExecve(rings[d]) => HasExecve(rings'[d])
    BY <1>4, <1>5, <1>9, <2>1
  <2>3. \A d \in Cpus : EndsWith(rings'[d], argv)
    BY <1>4, <1>9, <2>1 DEF TraceInv
  <2>4. \A d \in Cpus : HasExecve(rings'[d]) => ~ExecveElsewhere(d)'
    BY <1>10, <1>11, <2>1 DEF TraceInv
  <2>5. (\A d \in Cpus : ~HasExecve(rings'[d])) => Remembered(argv, cached, tree)
    BY <2>1, <2>2 DEF TraceInv
  <2>. QED
    BY <1>2, <2>3, <2>4, <2>5
<1>. QED
  BY <1>12, <1>13, <1>14, <1>15 DEF TraceInv

\* Caches that forget, or take from /proc what they do not hold.
LEMMA CachesKeep ==
    ASSUME TraceInv, NEW e, NEW x, e = cached \/ e.from # "execve", x \in {tree, Unknown}
    PROVE  /\ \A d \in Cpus : Fits(rings[d], e, x)
           /\ \A a : Remembered(a, cached, tree) => Remembered(a, e, x)
<1>1. ASSUME NEW a, Remembered(a, cached, tree) PROVE Remembered(a, e, x)
  BY <1>1 DEF Remembered
<1>. QED
  BY <1>1 DEF TraceInv, Fits

\* A step that touches neither the rings nor what is told.
LEMMA QuietKeeps ==
    ASSUME TraceInv, rings' = rings, TraceTypeOK',
           told' = FALSE \/ (told' = told /\ argv' = argv),
           cached' = cached \/ cached'.from # "execve", tree' \in {tree, Unknown}
    PROVE  TraceInv'
<1>1. /\ \A d \in Cpus : Fits(rings[d], cached', tree')
      /\ \A a : Remembered(a, cached, tree) => Remembered(a, cached', tree')
  BY CachesKeep
<1>2. \A d \in Cpus : ExecveElsewhere(d)' <=> ExecveElsewhere(d)
  BY DEF ExecveElsewhere
<1>3. \A d \in Cpus : Linked(rings'[d]) /\ Fits(rings'[d], cached', tree')
  BY <1>1 DEF TraceInv
<1>4. \A d \in Cpus : Known(rings'[d]) => ~ExecveElsewhere(d)'
  BY <1>2 DEF TraceInv
<1>5. ASSUME told' PROVE /\ \A d \in Cpus : HasExecve(rings'[d]) => ~ExecveElsewhere(d)'
                         /\ \A d \in Cpus : EndsWith(rings'[d], argv')
                         /\ (\A d \in Cpus : ~HasExecve(rings'[d])) => Remembered(argv', cached', tree')
  BY <1>1, <1>2, <1>5 DEF TraceInv
<1>. QED
  BY <1>3, <1>4, <1>5 DEF TraceInv

\* ArgvCache::get.
LEMMA ReadProcKeeps ==
    ASSUME TraceTypeOK, ReadProc
    PROVE  /\ cached' \in [argv : Texts, from : {"none", "execve", "proc"}]
           /\ cached' = cached \/ cached'.from # "execve"
<1>1. CASE UNCHANGED cached
  BY <1>1 DEF TraceTypeOK
<1>2. CASE cached' = [argv |-> argv, from |-> "proc"]
  BY SMT, <1>2 DEF TraceTypeOK
<1>. QED
  BY <1>1, <1>2 DEF ReadProc

\* The oldest record of a ring is read and transformed.
LEMMA ConsumeKeeps == ASSUME TraceInv, Consume PROVE TraceInv'
<1>. DEFINE s == rings[next]
            h == Head(s)
<1>1. /\ next \in Cpus /\ s \in Seq(RingRecord) /\ s # <<>> /\ Len(s) <= RingSize
      /\ \A d \in Cpus : /\ rings[d] \in Seq(RingRecord) /\ Len(rings[d]) <= RingSize
                         /\ Linked(rings[d]) /\ Fits(rings[d], cached, tree)
  BY DEF TraceInv, TraceTypeOK, Consume
<1>2. /\ rings'[next] = Tail(s) /\ \A d \in Cpus \ {next} : rings'[d] = rings[d]
      /\ Remember(h) /\ argv' = argv /\ told' = told
  BY <1>1 DEF Consume, TraceInv, TraceTypeOK
<1>3. /\ Tail(s) \in Seq(RingRecord) /\ Len(Tail(s)) <= RingSize
      /\ h \in RingRecord /\ h.argv \in Texts
  <2>1. Tail(s) \in Seq(RingRecord) /\ h \in RingRecord
    BY SMT, <1>1
  <2>2. Len(Tail(s)) <= RingSize
    BY SMT, <1>1, TailAt, TraceAssumption
  <2>3. h.argv \in Texts
    BY SMT, <2>1 DEF RingRecord
  <2>. QED
    BY <2>1, <2>2, <2>3
<1>4. TraceTypeOK'
  <2>1. rings' \in [Cpus -> Seq(RingRecord)]
    BY <1>1, <1>3 DEF Consume, TraceInv, TraceTypeOK
  <2>2. \A d \in Cpus : Len(rings'[d]) <= RingSize
    BY <1>1, <1>2, <1>3
  <2>3. start' \in Cpus /\ next' \in Cpus
    <3>1. 0 \in Cpus
      BY SMT, TraceAssumption DEF Cpus
    <3>. QED
      BY <1>1, <3>1, CpuAfterIsCpu DEF Consume, BeginRead, LookFrom
  <2>4. taken' \in 0..(Batch - 1)
    BY SMT, TraceAssumption DEF Consume, BeginRead, TraceInv, TraceTypeOK
  <2>5. cached' \in [argv : Texts, from : {"none", "execve", "proc"}] /\ tree' \in Texts
    <3>1. CASE Exec(h)
      <4>1. cached' = [argv |-> h.argv, from |-> "execve"] /\ tree' = h.argv
        BY <1>2, <3>1 DEF Remember, Exec
      <4>. QED
        BY SMT, <1>3, <4>1
    <3>2. CASE ~Exec(h)
      BY <1>2, <3>2, ReadProcKeeps DEF Remember, Exec, TraceInv, TraceTypeOK
    <3>. QED
      BY <3>1, <3>2
  <2>. QED
    BY <1>2, <2>1, <2>2, <2>3, <2>4, <2>5 DEF TraceInv, TraceTypeOK
<1>. HIDE DEF s, h
<1>5. /\ Linked(Tail(s)) /\ (Known(Tail(s)) => Known(s)) /\ (HasExecve(Tail(s)) => HasExecve(s))
      /\ \A a : EndsWith(s, a) => EndsWith(Tail(s), a)
      /\ ~Exec(h) => /\ HasExecve(s) => HasExecve(Tail(s))
                     /\ \A e, t : Fits(s, e, t) => Fits(Tail(s), e, t)
      /\ Exec(h) => /\ HasExecve(s)
                    /\ \A i \in DOMAIN Tail(s) :
                          Tail(s)[i].truth # Unknown /\ NoneBefore(Tail(s), i) => Tail(s)[i].truth = h.argv
                    /\ \A a : EndsWith(s, a) /\ ~HasExecve(Tail(s)) => h.argv = a
  BY <1>1, TailKeeps DEF s, h
<1>6. \A d \in Cpus : Linked(rings'[d]) /\ (Known(rings'[d]) => Known(rings[d])) /\ (HasExecve(rings'[d]) => HasExecve(rings[d]))
  BY <1>1, <1>2, <1>5 DEF s
<1>7. \A d \in Cpus : ExecveElsewhere(d)' => ExecveElsewhere(d)
  BY <1>6 DEF ExecveElsewhere
<1>8. \A d \in Cpus : Known(rings'[d]) => ~ExecveElsewhere(d)'
  BY <1>6, <1>7 DEF TraceInv
<1>9. told' => /\ \A d \in Cpus : HasExecve(rings'[d]) => ~ExecveElsewhere(d)'
               /\ \A d \in Cpus : EndsWith(rings'[d], argv')
  <2>1. told' => \A d \in Cpus : HasExecve(rings'[d]) => ~ExecveElsewhere(d)'
    BY <1>2, <1>6, <1>7 DEF TraceInv
  <2>2. told' => \A d \in Cpus : EndsWith(rings'[d], argv')
    BY <1>1, <1>2, <1>5 DEF TraceInv, s
  <2>. QED
    BY <2>1, <2>2
<1>10. CASE Exec(h)
  <2>1. cached' = [argv |-> h.argv, from |-> "execve"] /\ tree' = h.argv
    BY <1>2, <1>10 DEF Remember, Exec
  <2>2. Remembered(h.argv, cached', tree')
    BY SMT, <2>1 DEF Remembered
  <2>3. Fits(rings'[next], cached', tree')
    BY <1>2, <1>5, <1>10, <2>2 DEF Fits
  <2>4. ASSUME NEW d \in Cpus \ {next} PROVE Fits(rings'[d], cached', tree')
    <3>1. ExecveElsewhere(d)
      BY <1>1, <1>5, <1>10 DEF ExecveElsewhere, s
    <3>2. ~Known(rings[d])
      BY <3>1 DEF TraceInv
    <3>. QED
      BY <1>2, <3>2 DEF Known, Fits
  <2>5. ASSUME told', \A d \in Cpus : ~HasExecve(rings'[d]) PROVE Remembered(argv', cached', tree')
    <3>1. EndsWith(s, argv)
      BY <1>1, <1>2, <2>5 DEF TraceInv, s
    <3>2. h.argv = argv
      BY <1>1, <1>2, <1>5, <1>10, <2>5, <3>1
    <3>. QED
      BY <1>2, <2>2, <3>2
  <2>. QED
    BY <1>1, <1>4, <1>6, <1>8, <1>9, <2>3, <2>4, <2>5 DEF TraceInv
<1>11. CASE ~Exec(h)
  <2>1. ReadProc /\ tree' = tree
    BY <1>2, <1>11 DEF Remember, Exec
  <2>2. cached' = cached \/ cached'.from # "execve"
    BY <2>1, ReadProcKeeps DEF TraceInv
  <2>3. /\ \A d \in Cpus : Fits(rings[d], cached', tree')
        /\ \A a : Remembered(a, cached, tree) => Remembered(a, cached', tree')
    BY <2>1, <2>2, CachesKeep
  <2>4. \A d \in Cpus : Fits(rings'[d], cached', tree')
    BY <1>1, <1>2, <1>5, <1>11, <2>3 DEF s
  <2>5. ASSUME told', \A d \in Cpus : ~HasExecve(rings'[d]) PROVE Remembered(argv', cached', tree')
    <3>1. \A d \in Cpus : ~HasExecve(rings[d])
      BY <1>1, <1>2, <1>5, <1>11, <2>5 DEF s
    <3>. QED
      BY <1>2, <2>3, <2>5, <3>1 DEF TraceInv
  <2>. QED
    BY <1>4, <1>6, <1>8, <1>9, <2>4, <2>5 DEF TraceInv
<1>. QED
  BY <1>10, <1>11

\* The steps that write no record and read none.
LEMMA OtherStepsKeep ==
    ASSUME TraceInv,
           \/ \E a \in Argvs : ExecveUnreported(a) \/ Fork(a)
           \/ ProcessExits \/ Scan \/ OthersTransformed \/ PluginRestarts
    PROVE  TraceInv'
<1>0. TraceTypeOK /\ CpuAfter(0) \in Cpus /\ 0 \in 0..(Batch - 1) /\ Unknown \in Texts /\ Argvs \subseteq Texts
  <2>1. 0 \in Cpus /\ 0 \in 0..(Batch - 1)
    BY SMT, TraceAssumption DEF Cpus
  <2>. QED
    BY <2>1, CpuAfterIsCpu DEF TraceInv, Texts
<1>1. ASSUME NEW a \in Argvs, ExecveUnreported(a) \/ Fork(a) PROVE TraceInv'
  <2>1. TraceTypeOK'
    BY <1>0, <1>1 DEF ExecveUnreported, Fork, TraceTypeOK
  <2>. QED
    BY <1>1, <2>1, QuietKeeps DEF ExecveUnreported, Fork
<1>2. CASE ProcessExits
  <2>1. TraceTypeOK'
    BY <1>0, <1>2 DEF ProcessExits, TraceTypeOK
  <2>. QED
    BY <1>2, <2>1, QuietKeeps DEF ProcessExits
<1>3. CASE Scan
  <2>1. TraceTypeOK'
    BY <1>0, <1>3, CpuAfterIsCpu DEF Scan, BeginRead, LookFrom, TraceTypeOK
  <2>. QED
    BY <1>3, <2>1, QuietKeeps DEF Scan
<1>4. NotCached \in [argv : Texts, from : {"none", "execve", "proc"}] /\ NotCached.from # "execve"
  BY SMT, <1>0 DEF NotCached
<1>5. CASE OthersTransformed
  <2>1. /\ cached' \in [argv : Texts, from : {"none", "execve", "proc"}]
        /\ cached' = cached \/ cached'.from # "execve"
        /\ tree' \in {tree, Unknown}
    BY <1>0, <1>4, <1>5, ReadProcKeeps DEF OthersTransformed, TraceTypeOK
  <2>2. TraceTypeOK'
    BY <1>0, <1>5, <2>1 DEF OthersTransformed, TraceTypeOK
  <2>. QED
    BY <1>5, <2>1, <2>2, QuietKeeps DEF OthersTransformed
<1>6. CASE PluginRestarts
  <2>1. TraceTypeOK'
    BY <1>0, <1>4, <1>6 DEF PluginRestarts, BeginRead, LookFrom, TraceTypeOK
  <2>. QED
    BY <1>4, <1>6, <2>1, QuietKeeps DEF PluginRestarts
<1>. QED
  BY <1>1, <1>2, <1>3, <1>5, <1>6

\* At the start the rings and the caches are empty.
LEMMA TraceStart == TraceInit => TraceInv
<1>. SUFFICES ASSUME TraceInit PROVE TraceInv
  OBVIOUS
<1>1. ~told /\ rings = [c \in Cpus |-> <<>>] /\ \A c \in Cpus : rings[c] = <<>>
  BY DEF TraceInit
<1>2. DOMAIN <<>> = {} /\ <<>> \in Seq(RingRecord) /\ Len(<<>>) <= RingSize
  BY SMT, TraceAssumption
<1>3. 0 \in Cpus /\ 0 \in 0..(Batch - 1)
  BY SMT, TraceAssumption DEF Cpus
<1>4. NotCached \in [argv : Texts, from : {"none", "execve", "proc"}]
  BY SMT DEF NotCached, Texts
<1>5. TraceTypeOK
  BY <1>1, <1>2, <1>3, <1>4, CpuAfterIsCpu DEF TraceInit, TraceTypeOK, Texts
<1>6. \A c \in Cpus : Linked(rings[c]) /\ Fits(rings[c], cached, tree) /\ ~Known(rings[c])
  BY <1>1, <1>2 DEF Linked, Fits, Known
<1>. QED
  BY <1>1, <1>5, <1>6 DEF TraceInv

\* Whatever the hooks, the reader and the plugin do.
LEMMA TraceSteps == TraceInv /\ [TraceNext]_traceVars => TraceInv'
<1>. SUFFICES ASSUME TraceInv, [TraceNext]_traceVars PROVE TraceInv'
  OBVIOUS
<1>1. CASE Host
  BY <1>1, ExecveKeeps, FileHookKeeps, OtherStepsKeep DEF Host
<1>2. CASE Consume
  BY <1>2, ConsumeKeeps
<1>3. CASE Scan \/ OthersTransformed \/ PluginRestarts
  BY <1>3, OtherStepsKeep
<1>4. CASE UNCHANGED traceVars
  <2>1. TraceTypeOK'
    BY <1>4 DEF traceVars, TraceInv, TraceTypeOK
  <2>. QED
    BY <1>4, <2>1, QuietKeeps DEF traceVars
<1>. QED
  BY <1>1, <1>2, <1>3, <1>4 DEF TraceNext, Reader

\* For any number of cpus and any sizes of ring and buffer, a record of a process
\* whose last execve was reported, and neither lost nor overtaken, is transformed
\* with the process tree of this execve, or none, and with its command line unless
\* that is from /proc (transform, ArgvCache, __find_next_entry).
THEOREM RecordsFindProcess == TraceSpec => [](TraceTypeOK /\ RightProcess)
<1>1. TraceInv => TraceTypeOK /\ RightProcess
  <2>. SUFFICES ASSUME TraceInv, NEW c \in Cpus, rings[c] # <<>>, Head(rings[c]).truth # Unknown
                PROVE  Remembered(Head(rings[c]).truth, cached, tree)
    BY DEF TraceInv, RightProcess, Remembered
  <2>1. rings[c] \in Seq(RingRecord)
    BY DEF TraceInv, TraceTypeOK
  <2>2. 1 \in DOMAIN rings[c] /\ Head(rings[c]) = rings[c][1] /\ \A k \in DOMAIN rings[c] : ~(k < 1)
    BY SMT, <2>1, TailAt
  <2>3. NoneBefore(rings[c], 1)
    BY <2>2 DEF NoneBefore
  <2>. QED
    BY <2>2, <2>3 DEF TraceInv, Fits
<1>. QED
  BY <1>1, TraceStart, TraceSteps, PTL DEF TraceSpec

-----------------------------------------------------------------------------
(* JournalWatcher.                                                         *)

\* The Child in the slot is a new one only while send_record reads its output or
\* has panicked doing so: Reap, SendKills and Wake leave an old one, or none.
JournalInv ==
    /\ JournalTypeOK
    /\ CommandOwned
    /\ slot = "new" => sendPc \in {"read", "send", "kill", "reap", "panicked"}

LEMMA JournalStarts == JournalInit => JournalInv
  BY DEF JournalInit, JournalInv, JournalTypeOK, CommandOwned

LEMMA LinkAndCommandKeep == ASSUME JournalInv, LinkBreaks \/ CommandDies PROVE JournalInv'
<1>1. CASE LinkBreaks
  BY <1>1 DEF LinkBreaks, JournalInv, JournalTypeOK, CommandOwned
<1>2. CASE CommandDies
  BY <1>2 DEF CommandDies, JournalInv, JournalTypeOK, CommandOwned
<1>. QED
  BY <1>1, <1>2

\* Whoever empties the slot has killed the command, unless it is not stored yet.
LEMMA TaskReceiveKeeps == ASSUME JournalInv, ReceiveFails \/ ReceiveKills PROVE JournalInv'
<1>1. CASE ReceiveFails
  BY <1>1 DEF ReceiveFails, JournalInv, JournalTypeOK, CommandOwned
<1>2. CASE ReceiveKills
  <2>1. child' \in {"none", "runs", "dead", "reaped"} /\ (child' = "runs" => sendPc = "store")
    BY <1>2 DEF ReceiveKills, KillSlot, JournalInv, JournalTypeOK, CommandOwned
  <2>. QED
    BY <1>2, <2>1 DEF ReceiveKills, JournalInv, JournalTypeOK, CommandOwned
<1>. QED
  BY <1>1, <1>2

LEMMA SendRecordKeeps == ASSUME JournalInv, JournalThread PROVE JournalInv'
<1>1. CASE Spawn
  BY <1>1 DEF Spawn, JournalInv, JournalTypeOK, CommandOwned
<1>2. CASE Store
  BY <1>2 DEF Store, JournalInv, JournalTypeOK, CommandOwned
<1>3. CASE ReadLine
  BY <1>3 DEF ReadLine, JournalInv, JournalTypeOK, CommandOwned
<1>4. CASE SendRecord
  <2>1. sendPc' \in {"read", "kill"}
    BY <1>4 DEF SendRecord
  <2>. QED
    BY <1>4, <2>1 DEF SendRecord, JournalInv, JournalTypeOK, CommandOwned
<1>5. CASE SendKills
  <2>1. child' \in {"none", "runs", "dead", "reaped"} /\ child' # "runs"
    BY <1>5 DEF SendKills, KillSlot, JournalInv, JournalTypeOK, CommandOwned
  <2>. QED
    BY <1>5, <2>1 DEF SendKills, JournalInv, JournalTypeOK, CommandOwned
<1>6. CASE Reap
  BY <1>6 DEF Reap, JournalInv, JournalTypeOK, CommandOwned
<1>7. CASE Wake
  BY <1>7 DEF Wake, JournalInv, JournalTypeOK, CommandOwned
<1>. QED
  BY <1>1, <1>2, <1>3, <1>4, <1>5, <1>6, <1>7 DEF JournalThread

LEMMA JournalSteps == JournalInv /\ [JournalNext]_journalVars => JournalInv'
<1>1. ASSUME JournalInv, UNCHANGED journalVars PROVE JournalInv'
  BY <1>1 DEF journalVars, JournalInv, JournalTypeOK, CommandOwned
<1>. QED
  BY <1>1, LinkAndCommandKeep, TaskReceiveKeeps, SendRecordKeeps DEF JournalNext

\* Of the journal watcher: the Mutex is held exactly while send_record sleeps,
\* and journalctl never runs where neither thread can kill it, but between its
\* spawn and its store in the shared slot (journal_watcher main.rs).
THEOREM CommandIsOwned == JournalSpec => [](JournalTypeOK /\ CommandOwned)
  BY JournalStarts, JournalSteps, PTL DEF JournalSpec, JournalInv
=============================================================================
