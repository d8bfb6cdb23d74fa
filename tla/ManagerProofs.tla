--------------------------- MODULE ManagerProofs ----------------------------
(***************************************************************************)
(* Proofs about the manager.  Tasks for any number of requests and agents: *)
(* NothingForgotten, CountMatchesTodo and CancelFinal of TaskControl.  A   *)
(* distributed job for any managers, items, retries and workers:           *)
(* DistributedIsHandled of JobRun.                                         *)
(***************************************************************************)
EXTENDS TaskControl, JobRun, TLAPS

\* Most leaves are first-order steps over named definitions and go to Zenon; one
\* that needs arithmetic, records or sequences asks for SMT.
USE ZenonT(30)

-----------------------------------------------------------------------------
(* Tasks.                                                                  *)

\* Agent a belongs to a job that has been started.
Started(a) == \E r \in Requests : job[r] # "none" /\ a \in todo[r]

\* What every copy of the task's document satisfies: it only leaves out
\* agents of started jobs, and counts them.
Sound(t) == t.count = t.next /\ \A a \in 1..t.next : Started(a)

\* The inductive invariant. A request that may still start its job has none
\* yet, so NewJob takes no agent out of a started job.
IInv ==
    /\ TypeOK
    /\ Sound(task)
    /\ \A r \in Requests : Sound(dbTask[r])
    /\ \A r \in Requests : pc[r] \in {"lock", "find", "job"} => job[r] = "none"

-----------------------------------------------------------------------------
\* A step that keeps every started job, and its agents, keeps a document sound.
LEMMA SoundKept ==
    ASSUME IInv, NEW t \in Tasks, Sound(t),
           \A r \in Requests : job[r] # "none" => job'[r] # "none" /\ todo'[r] = todo[r]
    PROVE  Sound(t)'
BY DEF Sound, Started

\* The documents that requests and CreateTask make.
LEMMA CreateTaskSound == CreateTask \in Tasks /\ Sound(CreateTask)
BY SMT, TaskAssumption DEF CreateTask, Tasks, Status, Sound

\* A document with other values in its fields.
LEMMA TaskFields ==
    ASSUME NEW t \in Tasks, NEW k \in 0..IDCount, NEW s \in Status
    PROVE  /\ [t EXCEPT !.inner = s] \in Tasks
           /\ [t EXCEPT !.inner = s].next = t.next
           /\ [t EXCEPT !.inner = s].count = t.count
           /\ [t EXCEPT !.inner = s].inner = s
           /\ [t EXCEPT !.status = s] \in Tasks
           /\ [t EXCEPT !.status = s].next = t.next
           /\ [t EXCEPT !.status = s].count = t.count
           /\ [t EXCEPT !.status = s].inner = t.inner
           /\ [t EXCEPT !.inner = s, !.status = s] \in Tasks
           /\ [t EXCEPT !.inner = s, !.status = s].next = t.next
           /\ [t EXCEPT !.inner = s, !.status = s].count = t.count
           /\ [t EXCEPT !.next = k, !.count = k] \in Tasks
           /\ [t EXCEPT !.next = k, !.count = k].next = k
           /\ [t EXCEPT !.next = k, !.count = k].count = k
           /\ [t EXCEPT !.next = k, !.count = k, !.inner = s] \in Tasks
           /\ [t EXCEPT !.next = k, !.count = k, !.inner = s].next = k
           /\ [t EXCEPT !.next = k, !.count = k, !.inner = s].count = k
BY DEF Tasks

\* Cutting the todo_list, whichever of the two handlers does it: the request's
\* document counts the agents of its job in addition to those it left out.
LEMMA CutSound ==
    ASSUME IInv, NEW r \in Requests, pc[r] = "job", NEW n \in 1..IDCount,
           Take(r, n) \/ TakeByNum(r, n)
    PROVE  /\ dbTask' \in [Requests -> Tasks]
           /\ todo' \in [Requests -> SUBSET (1..IDCount)]
           /\ dbTask'[r].count = dbTask'[r].next
           /\ todo'[r] = (dbTask[r].next + 1)..dbTask'[r].next
           /\ \A q \in Requests \ {r} : dbTask'[q] = dbTask[q] /\ todo'[q] = todo[q]
<1> DEFINE t == dbTask[r]
           m == IF n < IDCount - t.next THEN n ELSE IDCount - t.next
           s == IF n < IDCount - t.next THEN "running" ELSE "finished"
           k == t.next + m
<1>1. t \in Tasks /\ t.next \in 0..IDCount /\ t.count = t.next
  BY DEF IInv, TypeOK, Sound, Tasks
<1>2. k \in 0..IDCount /\ s \in Status
  BY SMT, <1>1, TaskAssumption DEF Status
<1>3. PICK u \in Tasks : /\ u.next = k /\ u.count = k
                         /\ dbTask' = [dbTask EXCEPT ![r] = u]
                         /\ todo' = [todo EXCEPT ![r] = (t.next + 1)..dbTask'[r].next]
  <2> HIDE DEF k, s
  <2>1. CASE Take(r, n)
    <3> DEFINE u == [t EXCEPT !.next = k, !.count = k, !.inner = s]
    <3>1. u \in Tasks /\ u.next = k /\ u.count = k
      BY <1>1, <1>2 DEF Tasks
    <3>2. dbTask' = [dbTask EXCEPT ![r] = u]
      BY <2>1, <1>1 DEF Take, k, s
    <3>3. todo' = [todo EXCEPT ![r] = (t.next + 1)..dbTask'[r].next]
      BY <2>1 DEF Take
    <3> QED BY <3>1, <3>2, <3>3
  <2>2. CASE TakeByNum(r, n)
    <3> DEFINE u == [t EXCEPT !.next = k, !.count = k]
    <3>1. u \in Tasks /\ u.next = k /\ u.count = k
      BY <1>1, <1>2 DEF Tasks
    <3>2. dbTask' = [dbTask EXCEPT ![r] = u]
      BY <2>2, <1>1 DEF TakeByNum, k
    <3>3. todo' = [todo EXCEPT ![r] = (t.next + 1)..dbTask'[r].next]
      BY <2>2 DEF TakeByNum
    <3> QED BY <3>1, <3>2, <3>3
  <2> QED BY <2>1, <2>2
<1>4. dbTask'[r] = u
  BY <1>3 DEF IInv, TypeOK
<1>5. (t.next + 1)..u.next \subseteq 1..IDCount
  BY SMT, <1>1, <1>2, <1>3, TaskAssumption
<1> QED BY <1>3, <1>4, <1>5 DEF IInv, TypeOK

-----------------------------------------------------------------------------
\* The invariant holds of the task as CreateTask inserts it.
LEMMA InitIInv == Init => IInv
BY CreateTaskSound, TaskAssumption DEF Init, IInv, TypeOK, Status, CreateTask

\* Every step of every request and query keeps the invariant.
LEMMA NextIInv == IInv /\ [Next]_vars => IInv'
<1> SUFFICES ASSUME IInv, [Next]_vars PROVE IInv'
  OBVIOUS
<1> USE TaskAssumption
\* A step that starts no job and changes the documents to sound ones.
<1>1. ASSUME TypeOK', UNCHANGED todo,
             \A r \in Requests : job[r] # "none" => job'[r] # "none",
             \A r \in Requests : pc'[r] \in {"lock", "find", "job"} => job'[r] = "none",
             Sound(task'),
             \A r \in Requests : Sound(dbTask'[r])
      PROVE  IInv'
  BY <1>1, SoundKept DEF IInv, TypeOK, Sound, Started
<1>2. CASE UNCHANGED vars
  BY <1>2 DEF vars, IInv, TypeOK, Sound, Started
<1>3. CASE Cancel
  <2>1. task' \in Tasks /\ Sound(task')
    <3>1. task \in Tasks /\ Sound(task)
      BY DEF IInv, TypeOK
    <3>2. task' \in Tasks /\ task'.next = task.next /\ task'.count = task.count
      BY <1>3, <3>1 DEF Cancel, Tasks, Status
    <3> QED BY <3>1, <3>2 DEF Sound
  <2> QED BY <1>1, <1>3, <2>1 DEF Cancel, IInv, TypeOK
<1>4. CASE Expire
  BY <1>1, <1>4 DEF Expire, IInv, TypeOK
<1>5. CASE StatRead
  <2>1. stat' \in Status
    BY <1>5 DEF StatRead, IInv, TypeOK, Tasks, Status
  <2> QED BY <1>1, <1>5, <2>1 DEF StatRead, IInv, TypeOK
<1>6. CASE StatWrite
  <2>1. task' \in Tasks /\ Sound(task')
    BY <1>6, TaskFields DEF StatWrite, IInv, TypeOK, Sound, Tasks
  <2> QED BY <1>1, <1>6, <2>1 DEF StatWrite, IInv, TypeOK
<1>7. ASSUME NEW r \in Requests, ControlAgentTask(r) PROVE IInv'
  <2>0. ASSUME Return(r)
        PROVE  /\ dbTask' \in [Requests -> Tasks]
               /\ \A q \in Requests : Sound(dbTask'[q])
               /\ pc' = [pc EXCEPT ![r] = "end"]
    BY <2>0, CreateTaskSound DEF Return, Goto, IInv, TypeOK
  <2>1. CASE DistributedLock(r)
    BY <1>1, <2>1 DEF DistributedLock, Goto, IInv, TypeOK
  <2>2. CASE RunError(r)
    BY <1>1, <2>0, <2>2 DEF RunError, DistributedUnLock, IInv, TypeOK
  <2>3. CASE FindOne(r)
    <3>1. dbTask' \in [Requests -> Tasks] /\ \A q \in Requests : Sound(dbTask'[q])
      BY <2>3 DEF FindOne, IInv, TypeOK
    <3>2. pc' \in [Requests -> {"lock", "find", "refuse", "empty", "job", "update", "end"}]
      BY <2>3 DEF FindOne, Goto, IInv, TypeOK
    <3> QED BY <1>1, <2>3, <3>1, <3>2 DEF FindOne, Goto, IInv, TypeOK
  <2>4. CASE Refuse(r)
    BY <1>1, <2>0, <2>4 DEF Refuse, DistributedUnLock, IInv, TypeOK
  <2>5. CASE Empty(r)
    <3>1. task' \in Tasks /\ Sound(task')
      <4>1. task \in Tasks /\ Sound(task)
        BY DEF IInv, TypeOK
      <4>2. task' \in Tasks /\ task'.next = task.next /\ task'.count = task.count
        BY <2>5, <4>1 DEF Empty, Tasks, Status
      <4> QED BY <4>1, <4>2 DEF Sound
    <3> QED BY <1>1, <2>5, <3>1 DEF Empty, Goto, IInv, TypeOK
  <2>6. ASSUME NEW n \in 1..IDCount, NewJob(r, n) PROVE IInv'
    <3>1. pc[r] = "job" /\ job[r] = "none" /\ (Take(r, n) \/ TakeByNum(r, n))
      BY <2>6 DEF NewJob, IInv
    <3>2. /\ job' = [job EXCEPT ![r] = "distribute"]
          /\ pc' = [pc EXCEPT ![r] = "update"]
          /\ UNCHANGED <<task, lock, stat>>
      BY <2>6 DEF NewJob, Goto
    <3>3. /\ dbTask' \in [Requests -> Tasks]
          /\ todo' \in [Requests -> SUBSET (1..IDCount)]
          /\ dbTask'[r].count = dbTask'[r].next
          /\ todo'[r] = (dbTask[r].next + 1)..dbTask'[r].next
          /\ \A q \in Requests \ {r} : dbTask'[q] = dbTask[q] /\ todo'[q] = todo[q]
      BY <3>1, CutSound
    <3>4. TypeOK'
      BY <3>2, <3>3 DEF IInv, TypeOK
    <3>5. ASSUME NEW a, Started(a) PROVE Started(a)'
      BY <3>1, <3>2, <3>3, <3>5 DEF Started, IInv, TypeOK
    <3>6. Sound(task)'
      BY <3>2, <3>5 DEF IInv, Sound
    <3>7. ASSUME NEW q \in Requests PROVE Sound(dbTask[q])'
      <4>1. CASE q # r
        BY <4>1, <3>3, <3>5 DEF IInv, Sound
      <4>2. CASE q = r
        <5>1. ASSUME NEW a \in 1..dbTask'[r].next PROVE Started(a)'
          <6>1. dbTask[r].next \in Nat /\ dbTask'[r].next \in Nat
            BY SMT, <3>3 DEF IInv, TypeOK, Tasks
          <6>2. CASE a <= dbTask[r].next
            BY SMT, <6>1, <6>2, <3>5 DEF IInv, Sound
          <6>3. CASE a > dbTask[r].next
            <7>1. a \in todo'[r]
              BY SMT, <6>1, <6>3, <3>3
            <7>2. job'[r] # "none"
              BY <3>2 DEF IInv, TypeOK
            <7> QED BY <7>1, <7>2 DEF Started
          <6> QED BY SMT, <6>1, <6>2, <6>3
        <5> QED BY <4>2, <5>1, <3>3 DEF Sound
      <4> QED BY <4>1, <4>2
    <3>8. ASSUME NEW q \in Requests, pc'[q] \in {"lock", "find", "job"} PROVE job'[q] = "none"
      BY <3>2, <3>8 DEF IInv, TypeOK
    <3> QED BY <3>4, <3>6, <3>7, <3>8 DEF IInv
  <2>7. CASE UpdateOne(r)
    <3>1. task' \in Tasks /\ Sound(task')
      <4>1. dbTask[r] \in Tasks /\ Sound(dbTask[r])
        BY DEF IInv, TypeOK
      <4>2. task' \in Tasks /\ task'.next = dbTask[r].next /\ task'.count = dbTask[r].count
        BY <2>7, <4>1 DEF UpdateOne, Tasks, Status
      <4> QED BY <4>1, <4>2 DEF Sound
    <3> QED BY <1>1, <2>0, <2>7, <3>1 DEF UpdateOne, IInv, TypeOK
  <2>8. CASE UpdateError(r)
    BY <1>1, <2>0, <2>8 DEF UpdateError, IInv, TypeOK
  <2>9. CASE DistributeJob(r)
    BY <1>1, <2>9 DEF DistributeJob, IInv, TypeOK
  <2>10. CASE Finish(r)
    BY <1>1, <2>10 DEF Finish, IInv, TypeOK
  <2>11. CASE UnLock(r)
    BY <1>1, <2>11 DEF UnLock, DistributedUnLock, IInv, TypeOK
  <2> QED BY <1>7, <2>1, <2>2, <2>3, <2>4, <2>5, <2>6, <2>7, <2>8, <2>9, <2>10, <2>11
          DEF ControlAgentTask
<1> QED BY <1>2, <1>3, <1>4, <1>5, <1>6, <1>7 DEF Next

-----------------------------------------------------------------------------
\* Every variable stays in its type.
THEOREM TypeCorrect == Spec => []TypeOK
<1>1. IInv => TypeOK BY DEF IInv
<1> QED BY <1>1, InitIInv, NextIInv, PTL DEF Spec

\* However many requests overwrite each other's documents while their locks
\* expire, an agent only leaves the todo_list for a job that was started.
THEOREM NothingIsForgotten == Spec => []NothingForgotten
<1>1. IInv => NothingForgotten BY DEF IInv, Sound, Started, NothingForgotten
<1> QED BY <1>1, InitIInv, NextIInv, PTL DEF Spec

\* distributed_count is the number of agents cut off the todo_list.
THEOREM CountIsRight == Spec => []CountMatchesTodo
<1>1. IInv => CountMatchesTodo BY DEF IInv, Sound, CountMatchesTodo
<1> QED BY <1>1, InitIInv, NextIInv, PTL DEF Spec

\* A settled cancel stays settled.
THEOREM CancelIsFinal == Spec => CancelFinal
<1>1. IInv /\ [Next]_vars => [CancelSettled => CancelSettled']_vars
  <2> SUFFICES ASSUME IInv, Next, CancelSettled PROVE CancelSettled'
    OBVIOUS
  <2>1. CASE Cancel
    BY <2>1 DEF Cancel, CancelSettled, IInv, TypeOK, Tasks
  <2>2. CASE Expire \/ StatRead
    BY <2>2 DEF Expire, StatRead, CancelSettled
  <2>3. CASE StatWrite
    BY <2>3 DEF StatWrite, CancelSettled, IInv, TypeOK, Tasks
  <2>4. ASSUME NEW r \in Requests, ControlAgentTask(r) PROVE CancelSettled'
    <3>1. pc[r] \notin {"empty", "job", "update"}
      BY DEF CancelSettled
    <3>2. CASE DistributedLock(r)
      BY <3>2 DEF DistributedLock, Goto, CancelSettled, IInv, TypeOK
    <3>3. CASE RunError(r) \/ Refuse(r)
      BY <3>3 DEF RunError, Refuse, Return, Goto, CancelSettled, IInv, TypeOK
    <3>4. CASE FindOne(r)
      BY <3>4 DEF FindOne, Goto, CancelSettled, IInv, TypeOK
    <3>5. CASE DistributeJob(r) \/ Finish(r) \/ UnLock(r)
      BY <3>5 DEF DistributeJob, Finish, UnLock, CancelSettled
    <3> QED BY <2>4, <3>1, <3>2, <3>3, <3>4, <3>5
            DEF ControlAgentTask, Empty, NewJob, UpdateOne, UpdateError
  <2> QED BY <2>1, <2>2, <2>3, <2>4 DEF Next
<1> QED BY <1>1, InitIInv, NextIInv, PTL DEF Spec, CancelFinal

-----------------------------------------------------------------------------
(* Jobs.                                                                   *)

Values == 1..Items

Goroutine ==
    [pc : {"new", "listing", "item", "publish", "dead", "finish", "finishing", "end"},
     item : 1..(Items + 1), to : Managers, retries : Nat, hosts : SUBSET Managers]

\* The types of what a job works on.
JobTypeOK ==
    /\ creator \in Goroutine
    /\ run \in [Managers -> {"none", "start", "work", "over"}]
    /\ chan \in [Managers -> Seq(Values \cup {FINISH})]
    /\ worker \in [Managers -> [Workers -> Values \cup {Off, Select, End}]]
    /\ failures \in [Managers -> [Workers -> SUBSET Values]]
    /\ sent \in [Managers -> SUBSET Values]
    /\ cut \in [Managers -> BOOLEAN]

\* A manager learns of the job once.
Once ==
    /\ creator.pc = "new" => sync = {} /\ \A h \in Managers : run[h] = "none"
    /\ creator.pc # "new" => run[Creator] # "none"
    /\ \A h \in Managers : <<"new", h>> \in sync => run[h] = "none"
    /\ creator.pc = "publish" => creator.item \in Values

\* What is sent to h is done, in JobRetry, in a worker's list, at a worker or
\* on its way.
Accounted(h) ==
    \A i \in sent[h] :
        \/ i \in ok \cup retry
        \/ \E w \in Workers : i \in failures[h][w] \/ worker[h][w] = i
        \/ \E k \in DOMAIN chan[h] : chan[h][k] = i

\* No item follows a FINISH, and the creator has published the last item
\* before the first FINISH.
ItemsFirst(h) ==
    \A k \in DOMAIN chan[h] : chan[h][k] = FINISH =>
        /\ creator.pc \in {"finishing", "end"}
        /\ \A l \in DOMAIN chan[h] : k < l => chan[h][l] = FINISH

\* Unless a worker left early, one that has returned has taken a FINISH.
Returned(h) ==
    run[h] = "work" /\ ~cut[h] /\ (\E w \in Workers : worker[h][w] = End) =>
        /\ creator.pc \in {"finishing", "end"}
        /\ \A k \in DOMAIN chan[h] : chan[h][k] = FINISH

\* Where no worker runs nothing is held.
Idle(h) ==
    /\ cut[h] => sent[h] = {}
    /\ run[h] \in {"none", "start"} => sent[h] = {}
    /\ run[h] # "work" => chan[h] = <<>> /\ \A w \in Workers : worker[h][w] \in {Off, End}
    /\ \A w \in Workers : worker[h][w] \in {Off, End} => failures[h][w] = {}

Good(h) == Accounted(h) /\ ItemsFirst(h) /\ Returned(h) /\ Idle(h)

JobInv == JobTypeOK /\ Once /\ \A h \in Managers : Good(h)

-----------------------------------------------------------------------------
(* Channels.                                                               *)

\* What Append, Tail, RemoveAt and a row of FINISH do to a channel, by index.
LEMMA AppendAt ==
    ASSUME NEW S, NEW s \in Seq(S), NEW x \in S
    PROVE  /\ Append(s, x) \in Seq(S)
           /\ DOMAIN Append(s, x) = DOMAIN s \cup {Len(s) + 1}
           /\ Append(s, x)[Len(s) + 1] = x
           /\ \A k \in DOMAIN s : Append(s, x)[k] = s[k]
<1>. QED
  BY SMT

LEMMA TailAt ==
    ASSUME NEW S, NEW s \in Seq(S), s # <<>>
    PROVE  /\ Tail(s) \in Seq(S) /\ Head(s) \in S /\ 1 \in DOMAIN s /\ Head(s) = s[1]
           /\ \A k \in DOMAIN s : k \in Nat /\ k >= 1
           /\ \A k \in DOMAIN Tail(s) : k \in Nat /\ k >= 1 /\ k + 1 \in DOMAIN s /\ Tail(s)[k] = s[k + 1]
           /\ \A k \in DOMAIN s : k > 1 => k - 1 \in DOMAIN Tail(s) /\ Tail(s)[k - 1] = s[k]
<1>. QED
  BY SMT

LEMMA ConcatAt ==
    ASSUME NEW S, NEW a \in Seq(S), NEW b \in Seq(S)
    PROVE  /\ a \o b \in Seq(S) /\ DOMAIN (a \o b) = 1..(Len(a) + Len(b))
           /\ \A k \in 1..(Len(a) + Len(b)) :
                 (a \o b)[k] = IF k <= Len(a) THEN a[k] ELSE b[k - Len(a)]
<1>. QED
  BY SMT

\* What Lose leaves of a channel.
RemoveAt(s, i) == SubSeq(s, 1, i - 1) \o SubSeq(s, i + 1, Len(s))

LEMMA RemoveAtAt ==
    ASSUME NEW S, NEW s \in Seq(S), NEW i \in DOMAIN s
    PROVE  /\ RemoveAt(s, i) \in Seq(S)
           /\ \A k \in DOMAIN RemoveAt(s, i) :
                 /\ k \in DOMAIN s /\ k + 1 \in DOMAIN s
                 /\ RemoveAt(s, i)[k] = IF k < i THEN s[k] ELSE s[k + 1]
<1>. DEFINE a == SubSeq(s, 1, i - 1)
            b == SubSeq(s, i + 1, Len(s))
<1>1. a \in Seq(S) /\ b \in Seq(S)
  BY SMT
<1>2. Len(a) = i - 1 /\ \A k \in 1..(i - 1) : a[k] = s[k]
  BY SMT
<1>3. Len(b) = Len(s) - i /\ \A k \in 1..(Len(s) - i) : b[k] = s[k + i]
  BY SMT
<1>4. RemoveAt(s, i) = a \o b
  BY DEF RemoveAt
<1>5. i \in 1..Len(s) /\ Len(s) \in Nat /\ DOMAIN s = 1..Len(s)
  BY SMT
<1>. HIDE DEF a, b
<1>6. /\ RemoveAt(s, i) \in Seq(S)
      /\ DOMAIN RemoveAt(s, i) = 1..(Len(s) - 1)
      /\ \A k \in 1..(Len(s) - 1) :
            RemoveAt(s, i)[k] = IF k <= Len(a) THEN a[k] ELSE b[k - Len(a)]
  <2>1. Len(a) + Len(b) = Len(s) - 1
    BY SMT, <1>2, <1>3, <1>5
  <2>. QED
    BY SMT, <1>1, <1>4, <2>1, ConcatAt
<1>7. ASSUME NEW k \in 1..(Len(s) - 1)
      PROVE  RemoveAt(s, i)[k] = IF k < i THEN s[k] ELSE s[k + 1]
  <2>1. CASE k < i
    BY SMT, <1>2, <1>5, <1>6, <2>1
  <2>2. CASE ~(k < i)
    <3>1. k - Len(a) \in 1..(Len(s) - i) /\ k - Len(a) + i = k + 1 /\ ~(k <= Len(a))
      BY SMT, <1>2, <1>5, <2>2
    <3>. QED
      BY <1>3, <1>6, <2>2, <3>1
  <2>. QED
    BY <2>1, <2>2
<1>. QED
  BY SMT, <1>5, <1>6, <1>7

LEMMA FinishRow ==
    ASSUME NEW S, FINISH \in S, ConNum \in Nat
    PROVE  LET f == [i \in 1..ConNum |-> FINISH]
           IN  f \in Seq(S) /\ \A k \in DOMAIN f : f[k] = FINISH
  BY SMT

LEMMA FinishesAt ==
    ASSUME NEW S, NEW s \in Seq(S), NEW f \in Seq(S), \A k \in DOMAIN f : f[k] = FINISH
    PROVE  /\ s \o f \in Seq(S)
           /\ \A k \in DOMAIN s : k \in DOMAIN (s \o f) /\ (s \o f)[k] = s[k]
           /\ \A k \in DOMAIN (s \o f) : k \notin DOMAIN s => (s \o f)[k] = FINISH
           /\ \A k \in DOMAIN (s \o f), l \in DOMAIN s : k < l => k \in DOMAIN s
<1>1. Len(s) \in Nat /\ Len(f) \in Nat /\ DOMAIN s = 1..Len(s) /\ DOMAIN f = 1..Len(f)
  BY SMT
<1>2. /\ s \o f \in Seq(S) /\ DOMAIN (s \o f) = 1..(Len(s) + Len(f))
      /\ \A k \in 1..(Len(s) + Len(f)) : (s \o f)[k] = IF k <= Len(s) THEN s[k] ELSE f[k - Len(s)]
  BY ConcatAt
<1>. QED
  BY SMT, <1>1, <1>2

-----------------------------------------------------------------------------
(* One manager.                                                            *)

\* What a step leaves alone at manager h.
Same(h) ==
    /\ run'[h] = run[h] /\ chan'[h] = chan[h] /\ sent'[h] = sent[h] /\ cut'[h] = cut[h]
    /\ worker'[h] = worker[h] /\ failures'[h] = failures[h]

\* Nothing that is done or finished is taken back.
Onward ==
    /\ ok \subseteq ok' /\ retry \subseteq retry'
    /\ creator.pc \in {"finishing", "end"} => creator'.pc \in {"finishing", "end"}

\* Manager h is not touched.
LEMMA SameGood ==
    ASSUME NEW h \in Managers, Good(h), Same(h), Onward
    PROVE  Good(h)'
<1>1. Accounted(h)'
  BY DEF Good, Accounted, Same, Onward
<1>2. ItemsFirst(h)'
  BY DEF Good, ItemsFirst, Same, Onward
<1>3. Returned(h)'
  BY DEF Good, Returned, Same, Onward
<1>4. Idle(h)'
  BY DEF Good, Idle, Same
<1>. QED
  BY <1>1, <1>2, <1>3, <1>4 DEF Good

\* The initial state.
LEMMA JobStart == JobInit => JobInv
<1>. SUFFICES ASSUME JobInit PROVE JobInv
  OBVIOUS
<1>. USE JobAssumption DEF JobInit
<1>1. JobTypeOK
  <2>1. creator \in Goroutine
    BY SMT DEF Goroutine
  <2>2. cut \in [Managers -> BOOLEAN] /\ chan \in [Managers -> Seq(Values \cup {FINISH})]
    BY SMT
  <2>3. /\ run \in [Managers -> {"none", "start", "work", "over"}]
        /\ worker \in [Managers -> [Workers -> Values \cup {Off, Select, End}]]
        /\ failures \in [Managers -> [Workers -> SUBSET Values]]
        /\ sent \in [Managers -> SUBSET Values]
    OBVIOUS
  <2>. QED
    BY <2>1, <2>2, <2>3 DEF JobTypeOK
<1>2. Once
  BY DEF Once
<1>3. ASSUME NEW h \in Managers PROVE Good(h)
  <2>1. /\ sent[h] = {} /\ chan[h] = <<>> /\ DOMAIN chan[h] = {} /\ run[h] = "none"
        /\ \A w \in Workers : worker[h][w] = Off /\ failures[h][w] = {}
    BY SMT
  <2>. QED
    BY <2>1 DEF Good, Accounted, ItemsFirst, Returned, Idle
<1>. QED
  BY <1>1, <1>2, <1>3 DEF JobInv

\* Inform: h, which did not know of the job, starts it.
LEMMA InformGood ==
    ASSUME JobInv, NEW h \in Managers, run[h] = "none", run' = [run EXCEPT ![h] = "start"], Onward,
           UNCHANGED <<chan, worker, failures, sent, cut>>
    PROVE  \A g \in Managers : Good(g)'
<1>1. ASSUME NEW g \in Managers \ {h} PROVE Good(g)'
  <2>1. Same(g)
    BY DEF Same, JobInv, JobTypeOK
  <2>. QED
    BY <2>1, SameGood DEF JobInv
<1>2. Good(h)'
  <2>1. run'[h] = "start" /\ Good(h)
    BY DEF JobInv, JobTypeOK
  <2>2. sent[h] = {} /\ chan[h] = <<>> /\ DOMAIN chan[h] = {}
    BY SMT, <2>1 DEF Good, Idle
  <2>3. Idle(h)'
    BY <2>1, <2>2 DEF Good, Idle
  <2>4. Accounted(h)' /\ ItemsFirst(h)' /\ Returned(h)'
    BY <2>1, <2>2 DEF Accounted, ItemsFirst, Returned
  <2>. QED
    BY <2>3, <2>4 DEF Good
<1>. QED
  BY <1>1, <1>2

\* Steps that touch no manager's channel, workers or sent items.
LEMMA NobodyTouched ==
    ASSUME JobInv, Onward, UNCHANGED <<run, chan, worker, failures, sent, cut>>
    PROVE  \A g \in Managers : Good(g)'
<1>. SUFFICES ASSUME NEW g \in Managers PROVE Good(g)'
  OBVIOUS
<1>1. Same(g)
  BY DEF Same
<1>. QED
  BY <1>1, SameGood DEF JobInv

\* A step that touches manager h alone.
LEMMA OneTouched ==
    ASSUME JobInv, Onward, NEW h \in Managers, Good(h)', \A g \in Managers \ {h} : Same(g)
    PROVE  \A g \in Managers : Good(g)'
<1>1. ASSUME NEW g \in Managers \ {h} PROVE Good(g)'
  BY SameGood DEF JobInv
<1>. QED
  BY <1>1

\* The types at one manager.
LEMMA TypesAt ==
    ASSUME JobTypeOK, NEW h \in Managers
    PROVE  /\ run[h] \in {"none", "start", "work", "over"} /\ chan[h] \in Seq(Values \cup {FINISH})
           /\ worker[h] \in [Workers -> Values \cup {Off, Select, End}]
           /\ failures[h] \in [Workers -> SUBSET Values] /\ sent[h] \subseteq Values
  BY DEF JobTypeOK

\* No number is an item and a mark.
LEMMA Marks ==
    /\ FINISH \notin Values /\ Off \notin Values /\ Select \notin Values /\ End \notin Values
    /\ Select # Off /\ Select # End /\ Off # End
  BY SMT, JobAssumption DEF FINISH, Off, Select, End, Values

\* Publish, whether it is answered or not: an item reaches manager h.
LEMMA ItemArrives ==
    ASSUME JobInv, NEW h \in Managers, run[h] = "work", creator.pc = "publish", NEW i \in Values,
           chan'[h] = Append(chan[h], i),
           sent'[h] = sent[h] \/ (~cut[h] /\ sent'[h] = sent[h] \cup {i}),
           run'[h] = run[h], cut'[h] = cut[h], worker'[h] = worker[h], failures'[h] = failures[h],
           ok' = ok, retry' = retry
    PROVE  Good(h)'
<1>. DEFINE T == Values \cup {FINISH}
<1>1. chan[h] \in Seq(T) /\ Good(h) /\ i \in T /\ i # FINISH
  BY Marks, TypesAt DEF JobInv
<1>2. /\ DOMAIN chan'[h] = DOMAIN chan[h] \cup {Len(chan[h]) + 1}
      /\ chan'[h][Len(chan[h]) + 1] = i
      /\ \A k \in DOMAIN chan[h] : chan'[h][k] = chan[h][k]
  BY SMT, <1>1, AppendAt
<1>3. \A k \in DOMAIN chan[h] : chan[h][k] # FINISH
  BY <1>1 DEF Good, ItemsFirst
<1>4. ~(~cut[h] /\ \E w \in Workers : worker[h][w] = End)
  BY <1>1 DEF Good, Returned
<1>5. Accounted(h)'
  <2>. SUFFICES ASSUME NEW j \in sent'[h]
                PROVE  \/ j \in ok' \cup retry'
                       \/ \E w \in Workers : j \in failures'[h][w] \/ worker'[h][w] = j
                       \/ \E k \in DOMAIN chan'[h] : chan'[h][k] = j
    BY DEF Accounted
  <2>1. CASE j = i
    BY <1>2, <2>1
  <2>2. CASE j \in sent[h]
    BY SMT, <1>1, <1>2, <2>2 DEF Good, Accounted
  <2>. QED
    BY <2>1, <2>2
<1>6. ItemsFirst(h)'
  BY <1>1, <1>2, <1>3 DEF ItemsFirst
<1>7. Returned(h)'
  BY <1>4 DEF Returned
<1>8. Idle(h)'
  BY <1>1 DEF Good, Idle
<1>. QED
  BY <1>5, <1>6, <1>7, <1>8 DEF Good

\* FinishHost: the FINISHes reach manager h.
LEMMA FinishArrives ==
    ASSUME JobInv, NEW h \in Managers, run[h] = "work", creator.pc = "finishing",
           creator'.pc = "finishing",
           chan'[h] = chan[h] \o [i \in 1..ConNum |-> FINISH],
           sent'[h] = sent[h], run'[h] = run[h], cut'[h] = cut[h], worker'[h] = worker[h],
           failures'[h] = failures[h], ok' = ok, retry' = retry
    PROVE  chan'[h] \in Seq(Values \cup {FINISH}) /\ Good(h)'
<1>. DEFINE T == Values \cup {FINISH}
<1>1. chan[h] \in Seq(T) /\ Good(h) /\ FINISH \in T
  BY TypesAt DEF JobInv
<1>2. /\ chan'[h] \in Seq(T)
      /\ \A k \in DOMAIN chan[h] : k \in DOMAIN chan'[h] /\ chan'[h][k] = chan[h][k]
      /\ \A k \in DOMAIN chan'[h] : k \notin DOMAIN chan[h] => chan'[h][k] = FINISH
      /\ \A k \in DOMAIN chan'[h], l \in DOMAIN chan[h] : k < l => k \in DOMAIN chan[h]
  <2>. DEFINE c == chan[h]
              f == [i \in 1..ConNum |-> FINISH]
  <2>1. ConNum \in Nat /\ FINISH \in T /\ c \in Seq(T) /\ chan'[h] = c \o f
    BY <1>1, JobAssumption
  <2>2. f \in Seq(T) /\ \A k \in DOMAIN f : f[k] = FINISH
    <3>. HIDE DEF T, c
    <3>. QED
      BY <2>1, FinishRow
  <2>. HIDE DEF T, c, f
  <2>3. /\ c \o f \in Seq(T)
        /\ \A k \in DOMAIN c : k \in DOMAIN (c \o f) /\ (c \o f)[k] = c[k]
        /\ \A k \in DOMAIN (c \o f) : k \notin DOMAIN c => (c \o f)[k] = FINISH
        /\ \A k \in DOMAIN (c \o f), l \in DOMAIN c : k < l => k \in DOMAIN c
    BY <2>1, <2>2, FinishesAt
  <2>. QED
    BY <2>1, <2>3 DEF c
<1>3. Accounted(h)'
  <2>. SUFFICES ASSUME NEW j \in sent[h],
                       ~(j \in ok \cup retry),
                       ~(\E w \in Workers : j \in failures[h][w] \/ worker[h][w] = j)
                PROVE  \E k \in DOMAIN chan'[h] : chan'[h][k] = j
    BY DEF Accounted
  <2>1. PICK k \in DOMAIN chan[h] : chan[h][k] = j
    BY <1>1 DEF Good, Accounted
  <2>. QED
    BY <1>2, <2>1
<1>4. ItemsFirst(h)'
  BY <1>1, <1>2 DEF Good, ItemsFirst
<1>5. Returned(h)'
  BY <1>1, <1>2 DEF Good, Returned
<1>6. Idle(h)'
  BY <1>1 DEF Good, Idle
<1>. QED
  BY <1>2, <1>3, <1>4, <1>5, <1>6 DEF Good

\* Receive keeps the order of the channel.
LEMMA ReceivedFirst ==
    ASSUME JobInv, NEW h \in Managers, chan[h] # <<>>, chan'[h] = Tail(chan[h]), creator' = creator
    PROVE  ItemsFirst(h)'
<1>. DEFINE T == Values \cup {FINISH}
            c == chan[h]
<1>1. c \in Seq(T) /\ c # <<>> /\ ItemsFirst(h)
  BY TypesAt DEF JobInv, Good
<1>2. \A k \in DOMAIN Tail(c) : k \in Nat /\ k >= 1 /\ k + 1 \in DOMAIN c /\ Tail(c)[k] = c[k + 1]
  <2>. HIDE DEF T, c
  <2>. QED
    BY <1>1, TailAt
<1>. SUFFICES ASSUME NEW k \in DOMAIN Tail(c), Tail(c)[k] = FINISH
              PROVE  /\ creator.pc \in {"finishing", "end"}
                     /\ \A l \in DOMAIN Tail(c) : k < l => Tail(c)[l] = FINISH
  BY DEF ItemsFirst
<1>3. c[k + 1] = FINISH /\ k + 1 \in DOMAIN c
  BY <1>2
<1>4. /\ creator.pc \in {"finishing", "end"}
      /\ \A l \in DOMAIN c : k + 1 < l => c[l] = FINISH
  BY <1>1, <1>3 DEF ItemsFirst
<1>. QED
  BY SMT, <1>2, <1>4

\* TakeItem: worker w takes an item off the channel.
LEMMA ItemTaken ==
    ASSUME JobInv, NEW h \in Managers, NEW w \in Workers, worker[h][w] = Select, chan[h] # <<>>,
           Head(chan[h]) # FINISH, chan'[h] = Tail(chan[h]),
           worker'[h] = [worker[h] EXCEPT ![w] = Head(chan[h])],
           creator' = creator, sent'[h] = sent[h], run'[h] = run[h], cut'[h] = cut[h],
           failures'[h] = failures[h], ok' = ok, retry' = retry
    PROVE  chan'[h] \in Seq(Values \cup {FINISH}) /\ Head(chan[h]) \in Values /\ Good(h)'
<1>. DEFINE T == Values \cup {FINISH}
            c == chan[h]
<1>1. c \in Seq(T) /\ c # <<>> /\ Good(h) /\ worker[h] \in [Workers -> Values \cup {Off, Select, End}]
  BY TypesAt DEF JobInv
<1>2. /\ Tail(c) \in Seq(T) /\ Head(c) \in T /\ 1 \in DOMAIN c /\ Head(c) = c[1]
      /\ \A k \in DOMAIN c : k \in Nat /\ k >= 1
      /\ \A k \in DOMAIN Tail(c) : k \in Nat /\ k >= 1 /\ k + 1 \in DOMAIN c /\ Tail(c)[k] = c[k + 1]
      /\ \A k \in DOMAIN c : k > 1 => k - 1 \in DOMAIN Tail(c) /\ Tail(c)[k - 1] = c[k]
  <2>. HIDE DEF T, c
  <2>. QED
    BY SMT, <1>1, TailAt
<1>3. Head(c) \in Values
  BY <1>2
<1>4. /\ worker'[h][w] = Head(c)
      /\ \A v \in Workers \ {w} : worker'[h][v] = worker[h][v]
  BY <1>1
<1>5. Accounted(h)'
  <2>. SUFFICES ASSUME NEW j \in sent[h]
                PROVE  \/ j \in ok \cup retry
                       \/ \E v \in Workers : j \in failures[h][v] \/ worker'[h][v] = j
                       \/ \E k \in DOMAIN Tail(c) : Tail(c)[k] = j
    BY DEF Accounted
  <2>1. \/ j \in ok \cup retry
        \/ \E v \in Workers : j \in failures[h][v] \/ worker[h][v] = j
        \/ \E k \in DOMAIN c : c[k] = j
    BY <1>1 DEF Good, Accounted
  <2>2. j \in Values
    BY TypesAt DEF JobInv
  <2>3. ASSUME NEW v \in Workers, worker[h][v] = j PROVE worker'[h][v] = j
    BY <1>4, <2>2, <2>3, Marks
  <2>4. ASSUME NEW k \in DOMAIN c, c[k] = j
        PROVE  worker'[h][w] = j \/ \E l \in DOMAIN Tail(c) : Tail(c)[l] = j
    <3>1. CASE k = 1
      BY <1>2, <1>4, <2>4, <3>1
    <3>2. CASE k > 1
      BY <1>2, <2>4, <3>2
    <3>. QED
      BY SMT, <1>2, <3>1, <3>2
  <2>. QED
    BY <2>1, <2>3, <2>4
<1>6. ItemsFirst(h)'
  BY ReceivedFirst
<1>7. Returned(h)'
  BY <1>1, <1>2, <1>3, <1>4, Marks DEF Good, Returned
<1>8. run[h] = "work"
  BY <1>1, Marks DEF Good, Idle
<1>9. Idle(h)'
  BY <1>1, <1>3, <1>4, <1>8, Marks DEF Good, Idle
<1>. QED
  BY <1>2, <1>3, <1>5, <1>6, <1>7, <1>9 DEF Good

\* TakeFinish: worker w takes a FINISH and returns.
LEMMA FinishTaken ==
    ASSUME JobInv, NEW h \in Managers, NEW w \in Workers, worker[h][w] = Select, chan[h] # <<>>,
           Head(chan[h]) = FINISH, chan'[h] = Tail(chan[h]),
           worker'[h] = [worker[h] EXCEPT ![w] = End],
           failures'[h] = [failures[h] EXCEPT ![w] = {}], retry' = retry \cup failures[h][w],
           creator' = creator, sent'[h] = sent[h], run'[h] = run[h], cut'[h] = cut[h], ok' = ok
    PROVE  chan'[h] \in Seq(Values \cup {FINISH}) /\ Good(h)'
<1>. DEFINE T == Values \cup {FINISH}
            c == chan[h]
<1>1. /\ c \in Seq(T) /\ c # <<>> /\ Good(h)
      /\ worker[h] \in [Workers -> Values \cup {Off, Select, End}]
      /\ failures[h] \in [Workers -> SUBSET Values]
  BY TypesAt DEF JobInv
<1>2. /\ Tail(c) \in Seq(T) /\ 1 \in DOMAIN c /\ Head(c) = c[1]
      /\ \A k \in DOMAIN c : k \in Nat /\ k >= 1
      /\ \A k \in DOMAIN Tail(c) : k \in Nat /\ k >= 1 /\ k + 1 \in DOMAIN c /\ Tail(c)[k] = c[k + 1]
      /\ \A k \in DOMAIN c : k > 1 => k - 1 \in DOMAIN Tail(c) /\ Tail(c)[k - 1] = c[k]
  <2>. HIDE DEF T, c
  <2>. QED
    BY SMT, <1>1, TailAt
<1>3. /\ worker'[h][w] = End /\ failures'[h][w] = {}
      /\ \A v \in Workers \ {w} : worker'[h][v] = worker[h][v] /\ failures'[h][v] = failures[h][v]
  BY <1>1
<1>4. /\ creator.pc \in {"finishing", "end"}
      /\ \A k \in DOMAIN c : 1 < k => c[k] = FINISH
  BY <1>1, <1>2 DEF Good, ItemsFirst
<1>5. Accounted(h)'
  <2>. SUFFICES ASSUME NEW j \in sent[h]
                PROVE  \/ j \in ok \cup retry'
                       \/ \E v \in Workers : j \in failures'[h][v] \/ worker'[h][v] = j
                       \/ \E k \in DOMAIN Tail(c) : Tail(c)[k] = j
    BY DEF Accounted
  <2>1. \/ j \in ok \cup retry
        \/ \E v \in Workers : j \in failures[h][v] \/ worker[h][v] = j
        \/ \E k \in DOMAIN c : c[k] = j
    BY <1>1 DEF Good, Accounted
  <2>2. j \in Values
    BY TypesAt DEF JobInv
  <2>3. ASSUME NEW v \in Workers, j \in failures[h][v] \/ worker[h][v] = j
        PROVE  j \in retry' \/ j \in failures'[h][v] \/ worker'[h][v] = j
    BY <1>3, <2>2, <2>3, Marks
  <2>4. ASSUME NEW k \in DOMAIN c PROVE c[k] # j
    BY SMT, <1>2, <1>4, <2>2, Marks
  <2>. QED
    BY <2>1, <2>3, <2>4
<1>6. ItemsFirst(h)'
  BY ReceivedFirst
<1>7. Returned(h)'
  BY SMT, <1>2, <1>4 DEF Returned
<1>8. run[h] = "work"
  BY <1>1, Marks DEF Good, Idle
<1>9. Idle(h)'
  BY <1>1, <1>3, <1>8 DEF Good, Idle
<1>. QED
  BY <1>2, <1>5, <1>6, <1>7, <1>9 DEF Good

\* Do: worker w has done its item, or keeps it in its list.
LEMMA ItemDone ==
    ASSUME JobInv, NEW h \in Managers, NEW w \in Workers, NEW i \in Values, worker[h][w] = i,
           worker'[h] = [worker[h] EXCEPT ![w] = Select],
           \/ ok' = ok \cup {i} /\ failures'[h] = failures[h]
           \/ ok' = ok /\ failures'[h] = [failures[h] EXCEPT ![w] = @ \cup {i}],
           creator' = creator, sent'[h] = sent[h], run'[h] = run[h], cut'[h] = cut[h],
           chan'[h] = chan[h], retry' = retry
    PROVE  Good(h)'
<1>1. /\ Good(h)
      /\ worker[h] \in [Workers -> Values \cup {Off, Select, End}]
      /\ failures[h] \in [Workers -> SUBSET Values]
  BY TypesAt DEF JobInv
<1>2. /\ worker'[h][w] = Select
      /\ \A v \in Workers \ {w} : worker'[h][v] = worker[h][v] /\ failures'[h][v] = failures[h][v]
      /\ failures[h][w] \subseteq failures'[h][w] /\ (i \in ok' \/ i \in failures'[h][w])
      /\ ok \subseteq ok'
  BY SMT, <1>1
<1>3. run[h] = "work"
  BY <1>1, Marks DEF Good, Idle
<1>4. Accounted(h)'
  <2>. SUFFICES ASSUME NEW j \in sent[h]
                PROVE  \/ j \in ok' \cup retry
                       \/ \E v \in Workers : j \in failures'[h][v] \/ worker'[h][v] = j
                       \/ \E k \in DOMAIN chan[h] : chan[h][k] = j
    BY DEF Accounted
  <2>1. \/ j \in ok \cup retry
        \/ \E v \in Workers : j \in failures[h][v] \/ worker[h][v] = j
        \/ \E k \in DOMAIN chan[h] : chan[h][k] = j
    BY <1>1 DEF Good, Accounted
  <2>2. ASSUME NEW v \in Workers, j \in failures[h][v] \/ worker[h][v] = j
        PROVE  j \in ok' \/ j \in failures'[h][v] \/ worker'[h][v] = j
    BY <1>2, <2>2
  <2>. QED
    BY <1>2, <2>1, <2>2
<1>5. ItemsFirst(h)'
  BY <1>1 DEF Good, ItemsFirst
<1>6. Returned(h)'
  BY SMT, <1>1, <1>2, Marks DEF Good, Returned
<1>7. Idle(h)'
  BY <1>1, <1>2, <1>3, Marks DEF Good, Idle
<1>. QED
  BY <1>4, <1>5, <1>6, <1>7 DEF Good

\* TimeOut and SelectDone: worker w returns early.
LEMMA LeftEarly ==
    ASSUME JobInv, NEW h \in Managers, NEW w \in Workers, worker[h][w] = Select,
           worker'[h] = [worker[h] EXCEPT ![w] = End],
           failures'[h] = [failures[h] EXCEPT ![w] = {}],
           creator' = creator, sent'[h] = {}, run'[h] = run[h], cut'[h] = TRUE, chan'[h] = chan[h]
    PROVE  Good(h)'
<1>1. /\ Good(h)
      /\ worker[h] \in [Workers -> Values \cup {Off, Select, End}]
      /\ failures[h] \in [Workers -> SUBSET Values]
  BY TypesAt DEF JobInv
<1>2. /\ failures'[h][w] = {} /\ worker'[h][w] = End
      /\ \A v \in Workers \ {w} : worker'[h][v] = worker[h][v] /\ failures'[h][v] = failures[h][v]
  BY <1>1
<1>3. Accounted(h)' /\ Returned(h)'
  BY DEF Accounted, Returned
<1>4. ItemsFirst(h)'
  BY SMT, <1>1 DEF Good, ItemsFirst
<1>5. Idle(h)'
  BY <1>1, <1>2 DEF Good, Idle
<1>. QED
  BY <1>3, <1>4, <1>5 DEF Good

\* Lose: message i of the channel is lost.
LEMMA MessageLost ==
    ASSUME JobInv, NEW h \in Managers, NEW i \in DOMAIN chan[h], chan'[h] = RemoveAt(chan[h], i),
           worker'[h] = worker[h], failures'[h] = failures[h],
           creator' = creator, sent'[h] = {}, run'[h] = run[h], cut'[h] = TRUE
    PROVE  chan'[h] \in Seq(Values \cup {FINISH}) /\ Good(h)'
<1>. DEFINE T == Values \cup {FINISH}
            c == chan[h]
<1>1. c \in Seq(T) /\ Good(h) /\ i \in DOMAIN c /\ i \in Int /\ \A k \in DOMAIN c : k \in Int
  BY SMT, TypesAt DEF JobInv
<1>2. /\ chan'[h] \in Seq(T)
      /\ \A k \in DOMAIN chan'[h] :
            /\ k \in DOMAIN c /\ k + 1 \in DOMAIN c
            /\ chan'[h][k] = IF k < i THEN c[k] ELSE c[k + 1]
  <2>. HIDE DEF T
  <2>. QED
    BY SMT, <1>1, RemoveAtAt
<1>3. Accounted(h)' /\ Returned(h)'
  BY DEF Accounted, Returned
<1>4. ItemsFirst(h)'
  <2>. SUFFICES ASSUME NEW k \in DOMAIN chan'[h], chan'[h][k] = FINISH
                PROVE  /\ creator.pc \in {"finishing", "end"}
                       /\ \A l \in DOMAIN chan'[h] : k < l => chan'[h][l] = FINISH
    BY DEF ItemsFirst
  <2>1. PICK m \in {k, k + 1} : m \in DOMAIN c /\ c[m] = FINISH /\ m = (IF k < i THEN k ELSE k + 1)
    BY <1>2
  <2>2. /\ creator.pc \in {"finishing", "end"}
        /\ \A l \in DOMAIN c : m < l => c[l] = FINISH
    BY <1>1, <2>1 DEF Good, ItemsFirst
  <2>3. ASSUME NEW l \in DOMAIN chan'[h], k < l PROVE chan'[h][l] = FINISH
    <3>1. PICK n \in {l, l + 1} : n \in DOMAIN c /\ chan'[h][l] = c[n] /\ n = (IF l < i THEN l ELSE l + 1)
      BY <1>2
    <3>2. k \in Int /\ l \in Int /\ i \in Int
      BY <1>1, <1>2
    <3>3. m < n
      BY SMT, <2>1, <2>3, <3>1, <3>2
    <3>. QED
      BY <2>2, <3>1, <3>3
  <2>. QED
    BY <2>2, <2>3
<1>5. run[h] = "work"
  BY SMT, <1>1 DEF Good, Idle
<1>6. Idle(h)'
  BY <1>1, <1>5 DEF Good, Idle
<1>. QED
  BY <1>2, <1>3, <1>4, <1>6 DEF Good

\* Subscribe and SubscribeError.
LEMMA Subscribed ==
    ASSUME JobInv, NEW h \in Managers, run[h] = "start",
           \/ run'[h] = "work" /\ worker'[h] = [w \in Workers |-> Select]
           \/ run'[h] = "over" /\ worker'[h] = worker[h],
           chan'[h] = chan[h], failures'[h] = failures[h], sent'[h] = sent[h], cut'[h] = cut[h]
    PROVE  Good(h)'
<1>1. Good(h)
  BY DEF JobInv
<1>2. /\ sent[h] = {} /\ chan[h] = <<>> /\ DOMAIN chan[h] = {}
      /\ \A w \in Workers : worker[h][w] \in {Off, End} /\ failures[h][w] = {}
  BY SMT, <1>1 DEF Good, Idle
<1>3. Accounted(h)' /\ ItemsFirst(h)'
  BY <1>2 DEF Accounted, ItemsFirst
<1>4. Returned(h)'
  BY <1>2, Marks DEF Returned
<1>5. Idle(h)'
  BY <1>2, Marks DEF Idle
<1>. QED
  BY <1>3, <1>4, <1>5 DEF Good

\* RunOver: the workers, of whom there is at least one, have returned.
LEMMA Over ==
    ASSUME ConNum > 0, JobInv, NEW h \in Managers, run[h] = "work",
           \A w \in Workers : worker[h][w] = End,
           run'[h] = "over", chan'[h] = <<>>, worker'[h] = worker[h], failures'[h] = failures[h],
           sent'[h] = sent[h], cut'[h] = cut[h], ok' = ok, retry' = retry
    PROVE  Good(h)'
<1>1. Good(h) /\ sent[h] \subseteq Values /\ DOMAIN chan'[h] = {}
  BY SMT, TypesAt DEF JobInv
<1>2. 1 \in Workers
  BY SMT, JobAssumption DEF Workers
<1>3. \A w \in Workers : failures[h][w] = {}
  BY <1>1 DEF Good, Idle
<1>4. ASSUME NEW i \in sent[h] PROVE i \in ok \cup retry
  <2>1. ~cut[h]
    BY <1>1, <1>4 DEF Good, Idle
  <2>2. \A k \in DOMAIN chan[h] : chan[h][k] = FINISH
    BY <1>1, <1>2, <2>1 DEF Good, Returned
  <2>. QED
    BY <1>1, <1>3, <1>4, <2>2, Marks DEF Good, Accounted
<1>5. Accounted(h)' /\ ItemsFirst(h)' /\ Returned(h)'
  BY <1>1, <1>4 DEF Accounted, ItemsFirst, Returned
<1>6. Idle(h)'
  BY <1>1, <1>3 DEF Good, Idle
<1>. QED
  BY <1>5, <1>6 DEF Good

\* Panic: the manager is gone, and all that was sent to it.
LEMMA Gone ==
    ASSUME NEW h \in Managers, run'[h] = "over", worker'[h] = [w \in Workers |-> End],
           chan'[h] = <<>>, failures'[h] = [w \in Workers |-> {}], sent'[h] = {}, cut'[h] = TRUE
    PROVE  Good(h)'
<1>1. DOMAIN chan'[h] = {} /\ \A w \in Workers : worker'[h][w] = End /\ failures'[h][w] = {}
  BY SMT
<1>. QED
  BY <1>1 DEF Good, Accounted, ItemsFirst, Returned, Idle

-----------------------------------------------------------------------------
(* One lemma per action that touches a manager.                            *)

LEMMA NewStep == ASSUME JobInv, newJob PROVE JobInv'
<1>. USE JobAssumption DEF newJob, Inform, syncSend
<1>1. JobTypeOK'
  BY DEF JobInv, JobTypeOK, Goroutine
<1>2. Onward
  BY DEF Onward
<1>3. run[Creator] = "none" /\ \A h \in Managers : run[h] = "none"
  BY DEF JobInv, Once
<1>4. Once'
  <2>1. creator'.pc = "listing" /\ run'[Creator] = "start"
    BY SMT DEF JobInv, JobTypeOK
  <2>2. ASSUME NEW h \in Managers, <<"new", h>> \in sync' PROVE run'[h] = "none"
    BY SMT, <1>3, <2>2 DEF JobInv, JobTypeOK, Once
  <2>. QED
    BY <2>1, <2>2 DEF Once
<1>5. \A h \in Managers : Good(h)'
  BY <1>2, <1>3, InformGood
<1>. QED
  BY <1>1, <1>4, <1>5 DEF JobInv

LEMMA RecvNewStep == ASSUME JobInv, NEW h \in Managers, RecvNew(h) PROVE JobInv'
<1>. USE DEF RecvNew, Inform
<1>1. JobTypeOK'
  BY DEF JobInv, JobTypeOK
<1>2. Onward
  BY DEF Onward
<1>3. run[h] = "none" /\ sync # {}
  BY DEF JobInv, Once
<1>4. Once'
  <2>1. creator' = creator /\ creator.pc # "new"
    BY <1>3 DEF JobInv, Once
  <2>2. ASSUME NEW g \in Managers, <<"new", g>> \in sync' PROVE run'[g] = "none"
    BY <2>2 DEF JobInv, JobTypeOK, Once
  <2>3. run'[Creator] # "none"
    BY <2>1, JobAssumption DEF JobInv, JobTypeOK, Once
  <2>. QED
    BY <2>1, <2>2, <2>3 DEF JobInv, Once
<1>5. \A g \in Managers : Good(g)'
  BY <1>2, <1>3, InformGood
<1>. QED
  BY <1>1, <1>4, <1>5 DEF JobInv

\* Once, where what the managers know does not change.
LEMMA OnceSame ==
    ASSUME JobInv, UNCHANGED <<run, sync>>, creator.pc # "new", creator'.pc # "new",
           creator'.pc = "publish" => creator'.item \in Values
    PROVE  Once'
  BY DEF JobInv, Once

LEMMA OnceQuiet ==
    ASSUME JobInv, UNCHANGED <<run, sync, creator>>
    PROVE  Once'
  BY DEF JobInv, Once

\* Once, where a manager goes on with the job.
LEMMA OnceOn ==
    ASSUME JobInv, NEW h \in Managers, run[h] # "none", NEW r \in {"work", "over"},
           run' = [run EXCEPT ![h] = r], UNCHANGED sync, creator.pc # "new" => creator'.pc # "new",
           creator'.pc = "publish" => creator'.item \in Values
    PROVE  Once'
<1>1. creator.pc # "new" /\ creator'.pc # "new"
  BY DEF JobInv, Once
<1>2. run'[h] = r /\ \A g \in Managers \ {h} : run'[g] = run[g]
  BY DEF JobInv, JobTypeOK
<1>3. run'[Creator] # "none"
  BY <1>1, <1>2, JobAssumption DEF JobInv, Once
<1>4. ASSUME NEW g \in Managers, <<"new", g>> \in sync' PROVE run'[g] = "none"
  BY <1>2, <1>4 DEF JobInv, Once
<1>. QED
  BY <1>1, <1>3, <1>4 DEF Once

\* Where the creator goes after an item.
LEMMA NextItemType ==
    ASSUME JobInv, creator.pc = "publish"
    PROVE  /\ NextItem \in Goroutine
           /\ NextItem.pc = "item"
<1>1. creator.item + 1 \in 1..(Items + 1) /\ creator.item \in Values
  BY SMT, JobAssumption DEF JobInv, Once, Values
<1>. QED
  BY <1>1, JobAssumption DEF JobInv, JobTypeOK, NextItem, Goroutine

LEMMA PublishStep == ASSUME JobInv, Publish PROVE JobInv'
<1>0. PICK h \in Managers, i \in Values : h = creator.to /\ i = creator.item
  BY DEF JobInv, JobTypeOK, Once, Publish, Goroutine
<1>1. /\ creator.pc = "publish" /\ run[h] = "work" /\ creator' = NextItem
      /\ chan' = [chan EXCEPT ![h] = Append(@, i)]
      /\ sent' = IF cut[h] THEN sent ELSE [sent EXCEPT ![h] = @ \cup {i}]
      /\ UNCHANGED <<sync, run, worker, failures, retry, cut, ok>>
  BY <1>0 DEF Publish
<1>2. Append(chan[h], i) \in Seq(Values \cup {FINISH})
  BY TypesAt, AppendAt DEF JobInv
<1>3. JobTypeOK'
  <2>1. chan' \in [Managers -> Seq(Values \cup {FINISH})]
    BY <1>1, <1>2 DEF JobInv, JobTypeOK
  <2>2. sent' \in [Managers -> SUBSET Values]
    BY <1>1 DEF JobInv, JobTypeOK
  <2>. QED
    BY <1>1, <2>1, <2>2, NextItemType DEF JobInv, JobTypeOK
<1>4. Onward /\ Once'
  BY <1>1, NextItemType, OnceSame DEF Onward
<1>5. Good(h)'
  <2>1. /\ chan'[h] = Append(chan[h], i)
        /\ sent'[h] = sent[h] \/ (~cut[h] /\ sent'[h] = sent[h] \cup {i})
    BY <1>1 DEF JobInv, JobTypeOK
  <2>. QED
    BY <1>1, <2>1, ItemArrives
<1>6. \A g \in Managers \ {h} : Same(g)
  BY <1>1 DEF JobInv, JobTypeOK, Same
<1>7. \A g \in Managers : Good(g)'
  BY <1>4, <1>5, <1>6, OneTouched
<1>. QED
  BY <1>3, <1>4, <1>7 DEF JobInv

LEMMA PublishErrorStep == ASSUME JobInv, PublishError PROVE JobInv'
<1>0. PICK h \in Managers, i \in Values : h = creator.to /\ i = creator.item
  BY DEF JobInv, JobTypeOK, Once, PublishError, Goroutine
<1>1. /\ creator.pc = "publish"
      /\ UNCHANGED chan \/ (run[h] = "work" /\ chan' = [chan EXCEPT ![h] = Append(@, i)])
      /\ creator' = [creator EXCEPT !.retries = @ + 1] \/ creator' = NextItem
      /\ UNCHANGED <<sync, run, worker, failures, retry, sent, cut, ok>>
  BY <1>0 DEF PublishError
<1>2. Append(chan[h], i) \in Seq(Values \cup {FINISH})
  BY TypesAt, AppendAt DEF JobInv
<1>3. /\ creator' \in Goroutine
      /\ creator'.pc \in {"item", "publish"} /\ (creator'.pc = "publish" => creator'.item \in Values)
  <2>1. CASE creator' = [creator EXCEPT !.retries = @ + 1]
    <3>1. creator.retries + 1 \in Nat
      BY SMT DEF JobInv, JobTypeOK, Goroutine
    <3>2. creator'.pc = "publish" /\ creator'.item = i
      BY SMT, <1>0, <1>1, <2>1 DEF JobInv, JobTypeOK
    <3>. QED
      BY <2>1, <3>1, <3>2 DEF JobInv, JobTypeOK, Goroutine
  <2>2. CASE creator' = NextItem
    BY <1>1, <2>2, NextItemType
  <2>. QED
    BY <1>1, <2>1, <2>2
<1>4. JobTypeOK'
  <2>1. chan' \in [Managers -> Seq(Values \cup {FINISH})]
    BY <1>1, <1>2 DEF JobInv, JobTypeOK
  <2>. QED
    BY <1>1, <1>3, <2>1 DEF JobInv, JobTypeOK
<1>5. Onward /\ Once'
  BY <1>1, <1>3, OnceSame DEF Onward
<1>6. CASE UNCHANGED chan
  <2>1. \A g \in Managers : Good(g)'
    BY <1>1, <1>5, <1>6, NobodyTouched
  <2>. QED
    BY <1>4, <1>5, <2>1 DEF JobInv
<1>7. CASE run[h] = "work" /\ chan' = [chan EXCEPT ![h] = Append(@, i)]
  <2>1. Good(h)'
    <3>1. chan'[h] = Append(chan[h], i) /\ sent'[h] = sent[h]
      BY <1>1, <1>7 DEF JobInv, JobTypeOK
    <3>. QED
      BY <1>1, <1>7, <3>1, ItemArrives
  <2>2. \A g \in Managers \ {h} : Same(g)
    BY <1>1, <1>7 DEF JobInv, JobTypeOK, Same
  <2>3. \A g \in Managers : Good(g)'
    BY <1>5, <2>1, <2>2, OneTouched
  <2>. QED
    BY <1>4, <1>5, <2>3 DEF JobInv
<1>. QED
  BY <1>1, <1>6, <1>7

LEMMA PanicStep == ASSUME JobInv, Panic PROVE JobInv'
<1>. USE JobAssumption
<1>1. /\ creator' = [creator EXCEPT !.pc = "dead", !.item = Items + 1] /\ creator.pc = "item"
      /\ run' = [run EXCEPT ![Creator] = "over"] /\ chan' = [chan EXCEPT ![Creator] = <<>>]
      /\ worker' = [worker EXCEPT ![Creator] = [w \in Workers |-> End]]
      /\ failures' = [failures EXCEPT ![Creator] = [w \in Workers |-> {}]]
      /\ cut' = [cut EXCEPT ![Creator] = TRUE] /\ sent' = [sent EXCEPT ![Creator] = {}]
      /\ UNCHANGED <<sync, retry, ok>>
  BY DEF Panic, Cut
<1>2. creator' \in Goroutine
      /\ creator'.pc = "dead"
  <2>1. Items + 1 \in 1..(Items + 1)
    BY SMT
  <2>. QED
    BY <1>1, <2>1 DEF JobInv, JobTypeOK, Goroutine
<1>3. JobTypeOK'
  <2>1. chan' \in [Managers -> Seq(Values \cup {FINISH})] /\ cut' \in [Managers -> BOOLEAN]
    BY SMT, <1>1 DEF JobInv, JobTypeOK
  <2>2. /\ run' \in [Managers -> {"none", "start", "work", "over"}]
        /\ worker' \in [Managers -> [Workers -> Values \cup {Off, Select, End}]]
        /\ failures' \in [Managers -> [Workers -> SUBSET Values]]
        /\ sent' \in [Managers -> SUBSET Values]
    BY <1>1 DEF JobInv, JobTypeOK
  <2>. QED
    BY <1>2, <2>1, <2>2 DEF JobTypeOK
<1>4. run[Creator] # "none"
  BY <1>1 DEF JobInv, Once
<1>5. Once' /\ Onward
  BY <1>1, <1>2, <1>4, OnceOn DEF Onward
<1>6. Good(Creator)'
  <2>1. /\ run'[Creator] = "over" /\ worker'[Creator] = [w \in Workers |-> End]
        /\ chan'[Creator] = <<>> /\ failures'[Creator] = [w \in Workers |-> {}]
        /\ sent'[Creator] = {} /\ cut'[Creator] = TRUE
    BY <1>1 DEF JobInv, JobTypeOK
  <2>. QED
    BY <2>1, Gone
<1>7. \A g \in Managers \ {Creator} : Same(g)
  BY <1>1 DEF JobInv, JobTypeOK, Same
<1>8. \A g \in Managers : Good(g)'
  BY <1>5, <1>6, <1>7, OneTouched
<1>. QED
  BY <1>3, <1>5, <1>8 DEF JobInv

LEMMA FinishHostStep == ASSUME JobInv, NEW h \in Managers, FinishHost(h) PROVE JobInv'
<1>1. /\ creator.pc = "finishing" /\ creator' = [creator EXCEPT !.hosts = @ \ {h}]
      /\ chan' = IF run[h] = "work"
                 THEN [chan EXCEPT ![h] = @ \o [i \in 1..ConNum |-> FINISH]] ELSE chan
      /\ UNCHANGED <<sync, run, worker, failures, retry, sent, cut, ok>>
  BY DEF FinishHost
<1>2. creator' \in Goroutine
      /\ creator'.pc = "finishing"
  BY <1>1 DEF JobInv, JobTypeOK, Goroutine
<1>3. Once' /\ Onward
  BY <1>1, <1>2, OnceSame DEF Onward
<1>4. CASE run[h] = "work"
  <2>1. chan'[h] = chan[h] \o [i \in 1..ConNum |-> FINISH]
    BY <1>1, <1>4 DEF JobInv, JobTypeOK
  <2>2. chan'[h] \in Seq(Values \cup {FINISH}) /\ Good(h)'
    BY <1>1, <1>2, <1>4, <2>1, FinishArrives
  <2>3. \A g \in Managers \ {h} : Same(g)
    BY <1>1, <1>4 DEF JobInv, JobTypeOK, Same
  <2>4. \A g \in Managers : Good(g)'
    BY <1>3, <2>2, <2>3, OneTouched
  <2>5. chan' \in [Managers -> Seq(Values \cup {FINISH})]
    <3>. DEFINE v == chan[h] \o [i \in 1..ConNum |-> FINISH]
    <3>1. v \in Seq(Values \cup {FINISH}) /\ chan' = [chan EXCEPT ![h] = v]
      BY <1>1, <1>4, <2>1, <2>2
    <3>. HIDE DEF v
    <3>. QED
      BY <3>1 DEF JobInv, JobTypeOK
  <2>. QED
    BY <1>1, <1>2, <1>3, <2>4, <2>5 DEF JobInv, JobTypeOK
<1>5. CASE run[h] # "work"
  <2>1. \A g \in Managers : Good(g)'
    BY <1>1, <1>3, <1>5, NobodyTouched
  <2>. QED
    BY <1>1, <1>2, <1>3, <1>5, <2>1 DEF JobInv, JobTypeOK
<1>. QED
  BY <1>4, <1>5

\* Distribute, PickHost, FinishJob and Finished.
LEMMA CreatorStep ==
    ASSUME JobInv, NEW h \in Managers, Distribute \/ PickHost(h) \/ FinishJob \/ Finished
    PROVE  JobInv'
<1>1. /\ UNCHANGED <<sync, jobVars, retry, sent, cut, ok>> /\ creator.pc # "new"
      /\ creator.pc \notin {"end"} /\ (creator.pc = "finishing" => creator'.pc = "end")
  <2>1. CASE Distribute
    BY <2>1 DEF Distribute
  <2>2. CASE PickHost(h)
    BY <2>2 DEF PickHost
  <2>3. CASE FinishJob
    BY <2>3 DEF FinishJob
  <2>4. CASE Finished
    BY SMT, <2>4 DEF Finished, JobInv, JobTypeOK
  <2>. QED
    BY <2>1, <2>2, <2>3, <2>4
<1>2. creator' \in Goroutine
      /\ creator'.pc # "new" /\ (creator'.pc = "publish" => creator'.item \in Values)
  <2>1. CASE Distribute
    <3>1. PICK l \in {"item", "finish"} : creator' = [creator EXCEPT !.pc = l]
      BY <2>1 DEF Distribute
    <3>2. creator'.pc = l
      BY <3>1 DEF JobInv, JobTypeOK, Goroutine
    <3>. QED
      BY <3>1, <3>2 DEF JobInv, JobTypeOK, Goroutine
  <2>2. CASE PickHost(h)
    <3>1. creator.item \in Values /\ creator' = [creator EXCEPT !.pc = "publish", !.to = h, !.retries = 0]
      BY SMT, <2>2, JobAssumption DEF PickHost, JobInv, JobTypeOK, Values, Goroutine
    <3>. QED
      BY <3>1 DEF JobInv, JobTypeOK, Goroutine
  <2>3. CASE FinishJob
    BY <2>3 DEF FinishJob, JobInv, JobTypeOK, Goroutine
  <2>4. CASE Finished
    BY <2>4 DEF Finished, JobInv, JobTypeOK, Goroutine
  <2>. QED
    BY <2>1, <2>2, <2>3, <2>4
<1>3. Onward /\ Once'
  BY <1>1, <1>2, OnceSame DEF Onward, jobVars
<1>4. \A g \in Managers : Good(g)'
  BY <1>1, <1>3, NobodyTouched DEF jobVars
<1>5. JobTypeOK'
  BY <1>1, <1>2 DEF JobInv, JobTypeOK, jobVars
<1>. QED
  BY <1>3, <1>4, <1>5 DEF JobInv

\* The types, when a worker of manager h takes a step.
LEMMA WorkerTypes ==
    ASSUME JobInv, NEW h \in Managers, NEW w \in Workers, NEW x \in Values \cup {Select, End},
           worker' = [worker EXCEPT ![h][w] = x],
           UNCHANGED <<creator, sync, run>>,
           chan' \in [Managers -> Seq(Values \cup {FINISH})],
           failures' \in [Managers -> [Workers -> SUBSET Values]],
           sent' \in [Managers -> SUBSET Values], cut' \in [Managers -> BOOLEAN]
    PROVE  JobTypeOK' /\ Once'
<1>1. worker' \in [Managers -> [Workers -> Values \cup {Off, Select, End}]]
  BY DEF JobInv, JobTypeOK
<1>2. JobTypeOK'
  BY <1>1 DEF JobInv, JobTypeOK
<1>. QED
  BY <1>2, OnceQuiet

LEMMA TakeItemStep ==
    ASSUME JobInv, NEW h \in Managers, NEW w \in Workers, TakeItem(h, w) PROVE JobInv'
<1>. DEFINE x == Head(chan[h])
            t == Tail(chan[h])
<1>1. /\ worker[h][w] = Select /\ chan[h] # <<>> /\ x # FINISH
      /\ chan' = [chan EXCEPT ![h] = t] /\ worker' = [worker EXCEPT ![h][w] = x]
      /\ UNCHANGED <<creator, sync, run, failures, retry, sent, cut, ok>>
  BY DEF TakeItem, Receive
<1>2. chan'[h] = t /\ worker'[h] = [worker[h] EXCEPT ![w] = x]
  BY <1>1 DEF JobInv, JobTypeOK
<1>3. chan'[h] \in Seq(Values \cup {FINISH}) /\ x \in Values /\ Good(h)'
  BY <1>1, <1>2, ItemTaken
<1>4. t \in Seq(Values \cup {FINISH})
  BY <1>2, <1>3
<1>. HIDE DEF x, t
<1>5. chan' \in [Managers -> Seq(Values \cup {FINISH})]
  BY <1>1, <1>4 DEF JobInv, JobTypeOK
<1>6. JobTypeOK' /\ Once'
  BY <1>1, <1>3, <1>5, WorkerTypes DEF JobInv, JobTypeOK
<1>7. Onward /\ \A g \in Managers \ {h} : Same(g)
  BY <1>1 DEF JobInv, JobTypeOK, Same, Onward
<1>. QED
  BY <1>3, <1>6, <1>7, OneTouched DEF JobInv

LEMMA TakeFinishStep ==
    ASSUME JobInv, NEW h \in Managers, NEW w \in Workers, TakeFinish(h, w) PROVE JobInv'
<1>. DEFINE t == Tail(chan[h])
<1>1. /\ worker[h][w] = Select /\ chan[h] # <<>> /\ Head(chan[h]) = FINISH
      /\ chan' = [chan EXCEPT ![h] = t] /\ worker' = [worker EXCEPT ![h][w] = End]
      /\ retry' = retry \cup failures[h][w] /\ failures' = [failures EXCEPT ![h][w] = {}]
      /\ UNCHANGED <<creator, sync, run, sent, cut, ok>>
  BY DEF TakeFinish, Receive, WorkerReturns
<1>2. /\ chan'[h] = t /\ worker'[h] = [worker[h] EXCEPT ![w] = End]
      /\ failures'[h] = [failures[h] EXCEPT ![w] = {}]
  BY <1>1 DEF JobInv, JobTypeOK
<1>3. chan'[h] \in Seq(Values \cup {FINISH}) /\ Good(h)'
  BY <1>1, <1>2, FinishTaken
<1>4. t \in Seq(Values \cup {FINISH})
  BY <1>2, <1>3
<1>. HIDE DEF t
<1>5. chan' \in [Managers -> Seq(Values \cup {FINISH})]
  BY <1>1, <1>4 DEF JobInv, JobTypeOK
<1>6. failures' \in [Managers -> [Workers -> SUBSET Values]]
  BY <1>1 DEF JobInv, JobTypeOK
<1>7. JobTypeOK' /\ Once'
  BY <1>1, <1>5, <1>6, WorkerTypes DEF JobInv, JobTypeOK
<1>8. Onward /\ \A g \in Managers \ {h} : Same(g)
  BY <1>1 DEF JobInv, JobTypeOK, Same, Onward
<1>. QED
  BY <1>3, <1>7, <1>8, OneTouched DEF JobInv

LEMMA DoStep ==
    ASSUME JobInv, NEW h \in Managers, NEW w \in Workers, Do(h, w) PROVE JobInv'
<1>1. PICK i \in Values : i = worker[h][w]
  BY DEF Do, Values
<1>2. /\ worker' = [worker EXCEPT ![h][w] = Select]
      /\ \/ ok' = ok \cup {i} /\ UNCHANGED failures
         \/ failures' = [failures EXCEPT ![h][w] = @ \cup {i}] /\ UNCHANGED ok
      /\ UNCHANGED <<creator, sync, run, chan, retry, sent, cut>>
  BY <1>1 DEF Do
<1>3. /\ worker'[h] = [worker[h] EXCEPT ![w] = Select]
      /\ \/ ok' = ok \cup {i} /\ failures'[h] = failures[h]
         \/ ok' = ok /\ failures'[h] = [failures[h] EXCEPT ![w] = @ \cup {i}]
  BY <1>2 DEF JobInv, JobTypeOK
<1>4. Good(h)'
  BY <1>1, <1>2, <1>3, ItemDone
<1>5. failures' \in [Managers -> [Workers -> SUBSET Values]]
  <2>1. failures[h][w] \cup {i} \in SUBSET Values
    BY DEF JobInv, JobTypeOK
  <2>2. CASE failures' = [failures EXCEPT ![h][w] = @ \cup {i}]
    <3>. DEFINE l == failures[h][w] \cup {i}
    <3>1. failures' = [failures EXCEPT ![h][w] = l] /\ l \in SUBSET Values
      BY <2>1, <2>2
    <3>. HIDE DEF l
    <3>. QED
      BY <3>1 DEF JobInv, JobTypeOK
  <2>3. CASE UNCHANGED failures
    BY <2>3 DEF JobInv, JobTypeOK
  <2>. QED
    BY <1>2, <2>2, <2>3
<1>6. JobTypeOK' /\ Once'
  BY <1>2, <1>5, WorkerTypes DEF JobInv, JobTypeOK
<1>7. Onward /\ \A g \in Managers \ {h} : Same(g)
  BY <1>2 DEF JobInv, JobTypeOK, Same, Onward
<1>. QED
  BY <1>4, <1>6, <1>7, OneTouched DEF JobInv

LEMMA LeaveStep ==
    ASSUME JobInv, NEW h \in Managers, NEW w \in Workers, TimeOut(h, w) \/ SelectDone(h, w)
    PROVE  JobInv'
<1>1. /\ worker[h][w] = Select /\ worker' = [worker EXCEPT ![h][w] = End]
      /\ retry' = retry \cup failures[h][w] /\ failures' = [failures EXCEPT ![h][w] = {}]
      /\ cut' = [cut EXCEPT ![h] = TRUE] /\ sent' = [sent EXCEPT ![h] = {}]
      /\ UNCHANGED <<creator, sync, run, chan, ok>>
  BY DEF TimeOut, SelectDone, WorkerReturns, Cut
<1>2. /\ worker'[h] = [worker[h] EXCEPT ![w] = End]
      /\ failures'[h] = [failures[h] EXCEPT ![w] = {}] /\ sent'[h] = {} /\ cut'[h] = TRUE
  BY <1>1 DEF JobInv, JobTypeOK
<1>3. Good(h)'
  BY <1>1, <1>2, LeftEarly
<1>4. failures' \in [Managers -> [Workers -> SUBSET Values]] /\ sent' \in [Managers -> SUBSET Values]
  BY <1>1 DEF JobInv, JobTypeOK
<1>5. cut' \in [Managers -> BOOLEAN]
  BY <1>1 DEF JobInv, JobTypeOK
<1>6. JobTypeOK' /\ Once'
  BY <1>1, <1>4, <1>5, WorkerTypes DEF JobInv, JobTypeOK
<1>7. Onward /\ \A g \in Managers \ {h} : Same(g)
  BY <1>1 DEF JobInv, JobTypeOK, Same, Onward
<1>. QED
  BY <1>3, <1>6, <1>7, OneTouched DEF JobInv

LEMMA StartStep ==
    ASSUME JobInv, NEW h \in Managers, Subscribe(h) \/ SubscribeError(h) PROVE JobInv'
<1>1. /\ run[h] = "start"
      /\ \/ run' = [run EXCEPT ![h] = "work"] /\ worker' = [worker EXCEPT ![h] = [w \in Workers |-> Select]]
         \/ run' = [run EXCEPT ![h] = "over"] /\ worker' = worker
      /\ UNCHANGED <<creator, sync, chan, failures, retry, sent, cut, ok>>
  BY DEF Subscribe, SubscribeError
<1>2. \/ run'[h] = "work" /\ worker'[h] = [w \in Workers |-> Select]
      \/ run'[h] = "over" /\ worker'[h] = worker[h]
  BY <1>1 DEF JobInv, JobTypeOK
<1>3. Good(h)'
  BY <1>1, <1>2, Subscribed
<1>4. JobTypeOK'
  <2>1. run' \in [Managers -> {"none", "start", "work", "over"}]
    BY <1>1 DEF JobInv, JobTypeOK
  <2>2. worker' \in [Managers -> [Workers -> Values \cup {Off, Select, End}]]
    BY SMT, <1>1 DEF JobInv, JobTypeOK
  <2>. QED
    BY <1>1, <2>1, <2>2 DEF JobInv, JobTypeOK
<1>5. Once'
  BY <1>1, OnceOn DEF JobInv, Once
<1>6. Onward /\ \A g \in Managers \ {h} : Same(g)
  BY <1>1 DEF JobInv, JobTypeOK, Same, Onward
<1>. QED
  BY <1>3, <1>4, <1>5, <1>6, OneTouched DEF JobInv

LEMMA OverStep ==
    ASSUME ConNum > 0, JobInv, NEW h \in Managers, RunOver(h) PROVE JobInv'
<1>1. /\ run[h] = "work" /\ \A w \in Workers : worker[h][w] = End
      /\ run' = [run EXCEPT ![h] = "over"] /\ chan' = [chan EXCEPT ![h] = <<>>]
      /\ UNCHANGED <<creator, sync, worker, failures, retry, sent, cut, ok>>
  BY DEF RunOver
<1>2. run'[h] = "over" /\ chan'[h] = <<>>
  BY <1>1 DEF JobInv, JobTypeOK
<1>3. Good(h)'
  BY <1>1, <1>2, Over
<1>4. JobTypeOK'
  <2>1. chan' \in [Managers -> Seq(Values \cup {FINISH})]
    BY SMT, <1>1 DEF JobInv, JobTypeOK
  <2>. QED
    BY <1>1, <2>1 DEF JobInv, JobTypeOK
<1>5. Once'
  BY <1>1, OnceOn DEF JobInv, Once
<1>6. Onward /\ \A g \in Managers \ {h} : Same(g)
  BY <1>1 DEF JobInv, JobTypeOK, Same, Onward
<1>. QED
  BY <1>3, <1>4, <1>5, <1>6, OneTouched DEF JobInv

LEMMA LoseStep == ASSUME JobInv, NEW h \in Managers, Lose(h) PROVE JobInv'
<1>1. PICK i \in DOMAIN chan[h] : chan' = [chan EXCEPT ![h] = RemoveAt(@, i)]
  BY DEF Lose, RemoveAt
<1>2. /\ cut' = [cut EXCEPT ![h] = TRUE] /\ sent' = [sent EXCEPT ![h] = {}]
      /\ UNCHANGED <<creator, sync, run, worker, failures, retry, ok>>
  BY DEF Lose, Cut
<1>3. chan'[h] = RemoveAt(chan[h], i) /\ sent'[h] = {} /\ cut'[h] = TRUE
  BY <1>1, <1>2 DEF JobInv, JobTypeOK
<1>4. chan'[h] \in Seq(Values \cup {FINISH}) /\ Good(h)'
  BY <1>2, <1>3, MessageLost
<1>5. chan' \in [Managers -> Seq(Values \cup {FINISH})]
  BY <1>1, <1>3, <1>4 DEF JobInv, JobTypeOK
<1>6. cut' \in [Managers -> BOOLEAN]
  BY <1>2 DEF JobInv, JobTypeOK
<1>7. sent' \in [Managers -> SUBSET Values]
  BY <1>2 DEF JobInv, JobTypeOK
<1>8. JobTypeOK' /\ Once'
  BY <1>2, <1>5, <1>6, <1>7, OnceQuiet DEF JobInv, JobTypeOK
<1>9. Onward /\ \A g \in Managers \ {h} : Same(g)
  BY <1>1, <1>2 DEF JobInv, JobTypeOK, Same, Onward
<1>. QED
  BY <1>4, <1>8, <1>9, OneTouched DEF JobInv

\* Listed, Monitor, StopJob and RecvStop.
LEMMA ManageStep ==
    ASSUME JobInv, NEW h \in Managers, Listed(h) \/ Monitor(h) \/ StopJob(h) \/ RecvStop(h)
    PROVE  JobInv'
<1>1. /\ UNCHANGED <<creator, run, chan, worker, failures, retry, sent, cut, ok>>
      /\ UNCHANGED sync \/ StopJob(h) \/ RecvStop(h)
  BY DEF Listed, Monitor, StopJob, RecvStop
<1>2. JobTypeOK' /\ Onward
  BY <1>1 DEF JobInv, JobTypeOK, Onward
<1>3. Once'
  <2>1. CASE UNCHANGED sync
    BY <1>1, <2>1, OnceQuiet
  <2>2. CASE StopJob(h)
    <3>1. creator.pc # "new" /\ \A g \in Managers : <<"new", g>> \in sync' => <<"new", g>> \in sync
      BY <2>2 DEF StopJob, syncSend
    <3>. QED
      BY <1>1, <3>1 DEF JobInv, Once
  <2>3. CASE RecvStop(h)
    BY <1>1, <2>3 DEF RecvStop, JobInv, Once
  <2>. QED
    BY <1>1, <2>1, <2>2, <2>3
<1>4. \A g \in Managers : Good(g)'
  BY <1>1, <1>2, NobodyTouched
<1>. QED
  BY <1>2, <1>3, <1>4 DEF JobInv

-----------------------------------------------------------------------------
LEMMA JobStep ==
    ASSUME ConNum > 0, JobInv, [JobNext]_jobRunVars
    PROVE  JobInv'
<1>1. CASE UNCHANGED jobRunVars
  <2>1. UNCHANGED <<creator, sync, run, chan, worker, failures, retry, sent, cut, ok>>
    BY <1>1 DEF jobRunVars, jobVars
  <2>2. JobTypeOK' /\ Onward
    BY <2>1 DEF JobInv, JobTypeOK, Onward
  <2>3. Once' /\ \A g \in Managers : Good(g)'
    BY <2>1, <2>2, OnceQuiet, NobodyTouched
  <2>. QED
    BY <2>2, <2>3 DEF JobInv
<1>2. CASE CreatorNext
  <2>1. CASE Distribute \/ FinishJob \/ Finished
    BY <2>1, CreatorStep, JobAssumption
  <2>2. ASSUME NEW h \in Managers, PickHost(h) \/ FinishHost(h) PROVE JobInv'
    BY <2>2, CreatorStep, FinishHostStep
  <2>. QED
    BY <1>2, <2>1, <2>2, NewStep, PublishStep, PublishErrorStep, PanicStep DEF CreatorNext
<1>3. ASSUME NEW h \in Managers, Goroutines(h) PROVE JobInv'
  <2>1. ASSUME NEW w \in Workers, Worker(h, w) PROVE JobInv'
    BY <2>1, TakeItemStep, TakeFinishStep, DoStep, LeaveStep DEF Worker
  <2>. QED
    BY <1>3, <2>1, ManageStep, StartStep, OverStep DEF Goroutines, Run
<1>4. ASSUME NEW h \in Managers, RecvNew(h) \/ RecvStop(h) \/ StopJob(h) \/ Lose(h) PROVE JobInv'
  BY <1>4, RecvNewStep, ManageStep, LoseStep
<1>. QED
  BY <1>1, <1>2, <1>3, <1>4 DEF JobNext

\* With at least one worker per manager no item that Distribute counts as sent
\* is dropped by the end of the job (SimpleJob.Run and Distribute): FINISH
\* comes after the last item, so a manager whose workers all left by a FINISH
\* has taken every item.
THEOREM ItemsAreHandled ==
    ASSUME ConNum > 0
    PROVE  JobSpec => []DistributedIsHandled
<1>1. JobInv => DistributedIsHandled
  <2>. SUFFICES ASSUME JobInv, NEW h \in Managers, run[h] = "over", NEW i \in sent[h]
                PROVE  i \in ok \cup retry
    BY DEF DistributedIsHandled
  <2>1. Good(h) /\ i \in Values
    BY TypesAt DEF JobInv
  <2>2. DOMAIN chan[h] = {} /\ \A w \in Workers : worker[h][w] \in {Off, End} /\ failures[h][w] = {}
    BY SMT, <2>1 DEF Good, Idle
  <2>. QED
    BY <2>1, <2>2, Marks DEF Good, Accounted
<1>2. JobInv /\ [JobNext]_jobRunVars => JobInv'
  BY JobStep
<1>. QED
  BY <1>1, <1>2, JobStart, PTL DEF JobSpec
=============================================================================
