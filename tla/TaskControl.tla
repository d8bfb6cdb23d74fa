---------------------------- MODULE TaskControl ----------------------------
(***************************************************************************)
(* Rolling out one task of the manager                                     *)
(* (server/manager/biz/hander/v1/agent_task.go): every "run" request takes *)
(* the next agents from the task's todo_list and distributes a job to      *)
(* them; requests exclude each other with a Redis key that expires.        *)
(*                                                                         *)
(* The todo_list is always a suffix of the list CreateTask made, so it is  *)
(* represented by next, the number of agents that were cut off its front:  *)
(* it holds the agents next + 1 .. IDCount.                                *)
(***************************************************************************)
EXTENDS Integers, FiniteSets

CONSTANTS
    Requests,  \* requests with action "run", at any manager
    Nobody,    \* the lock is free
    IDCount    \* agents of the task

ASSUME TaskAssumption == IDCount \in Nat /\ Nobody \notin Requests

VARIABLES
    task,    \* the task's document: next, distributed_count and both states
    lock,    \* DistributedLock-<task id>: the request that has set it
    pc,      \* request -> its handler
    dbTask,  \* request -> the document it has read and changed
    todo,    \* request -> its todoList: the agents its job is for
    job,     \* request -> its job and the goroutine that distributes it
    stat     \* ComputeSubTaskStat: task_status to write back, or "none"

vars == <<task, lock, pc, dbTask, todo, job, stat>>

Status == {"created", "running", "finished", "cancelled"}
Tasks == [next : 0..IDCount, count : 0..IDCount, inner : Status, status : Status]

\* The task as CreateTask has inserted it.
CreateTask == [next |-> 0, count |-> 0, inner |-> "created", status |-> "created"]

Init ==
    /\ task = CreateTask
    /\ lock = Nobody
    /\ pc = [r \in Requests |-> "lock"]
    /\ dbTask = [r \in Requests |-> CreateTask]
    /\ todo = [r \in Requests |-> {}]
    /\ job = [r \in Requests |-> "none"]
    /\ stat = "none"

Goto(r, l) == pc' = [pc EXCEPT ![r] = l]

\* The handler returns; its document is gone.
Return(r) == Goto(r, "end") /\ dbTask' = [dbTask EXCEPT ![r] = CreateTask]

-----------------------------------------------------------------------------
(* infra.DistributedLock and DistributedUnLock.                            *)

DistributedLock(r) ==
    /\ pc[r] = "lock"
    /\ IF lock = Nobody
       THEN lock' = r /\ Goto(r, "find")
       ELSE UNCHANGED lock /\ Goto(r, "end")
    /\ UNCHANGED <<task, dbTask, todo, job, stat>>

\* Del, whoever has set the key since.
DistributedUnLock == lock' = Nobody

\* Ten seconds have passed.
Expire ==
    /\ lock # Nobody
    /\ lock' = Nobody
    /\ UNCHANGED <<task, pc, dbTask, todo, job, stat>>

-----------------------------------------------------------------------------
(* ControlAgentTask and ControlAgentTaskByNum.                             *)

\* Action "cancel", without the lock.
Cancel ==
    /\ task' = [task EXCEPT !.inner = "cancelled", !.status = "cancelled"]
    /\ UNCHANGED <<lock, pc, dbTask, todo, job, stat>>

\* FindOne fails, or NewJob does.
RunError(r) ==
    /\ pc[r] \in {"find", "job"}
    /\ DistributedUnLock
    /\ Return(r)
    /\ UNCHANGED <<task, todo, job, stat>>

\* Fault: a cancelled or finished task is run.
FindOneUnchecked(r) ==
    /\ pc[r] = "find"
    /\ dbTask' = [dbTask EXCEPT ![r] = task]
    /\ Goto(r, IF task.next = IDCount THEN "empty" ELSE "job")
    /\ UNCHANGED <<task, lock, todo, job, stat>>

\* FindOne and what it leads to.
FindOne(r) ==
    /\ pc[r] = "find"
    /\ dbTask' = [dbTask EXCEPT ![r] = task]
    /\ Goto(r, IF task.inner \in {"cancelled", "finished"} THEN "refuse"
               ELSE IF task.next = IDCount THEN "empty" ELSE "job")
    /\ UNCHANGED <<task, lock, todo, job, stat>>

Refuse(r) ==
    /\ pc[r] = "refuse"
    /\ DistributedUnLock
    /\ Return(r)
    /\ UNCHANGED <<task, todo, job, stat>>

\* The todo_list is empty: the task is finished. An error of UpdateOne is
\* ignored.
Empty(r) ==
    /\ pc[r] = "empty"
    /\ task' \in {task, [task EXCEPT !.inner = "finished"]}
    /\ Goto(r, "refuse")
    /\ UNCHANGED <<lock, dbTask, todo, job, stat>>

\* Fault: the job leaves out the last agent it has cut off.
TakeOneShort(r, n) ==
    LET t == dbTask[r]
        nCount == IF n < IDCount - t.next THEN n ELSE IDCount - t.next
    IN  /\ dbTask' = [dbTask EXCEPT ![r] =
             [t EXCEPT !.next = t.next + nCount,
                       !.count = t.count + nCount,
                       !.inner = IF n < IDCount - t.next THEN "running" ELSE "finished"]]
        /\ todo' = [todo EXCEPT ![r] = (t.next + 1)..(dbTask'[r].next - 1)]

\* The next n agents, or all that are left.
Take(r, n) ==
    LET t == dbTask[r]
        nCount == IF n < IDCount - t.next THEN n ELSE IDCount - t.next
    IN  /\ dbTask' = [dbTask EXCEPT ![r] =
             [t EXCEPT !.next = t.next + nCount,
                       !.count = t.count + nCount,
                       !.inner = IF n < IDCount - t.next THEN "running" ELSE "finished"]]
        /\ todo' = [todo EXCEPT ![r] = (t.next + 1)..dbTask'[r].next]

\* ControlAgentTaskByNum changes TaskStatus where the other changes
\* InnerStatus, and then stores "running" and the InnerStatus it has read.
TakeByNum(r, n) ==
    LET t == dbTask[r]
        nCount == IF n < IDCount - t.next THEN n ELSE IDCount - t.next
    IN  /\ dbTask' = [dbTask EXCEPT ![r] =
             [t EXCEPT !.next = t.next + nCount, !.count = t.count + nCount]]
        /\ todo' = [todo EXCEPT ![r] = (t.next + 1)..dbTask'[r].next]

\* NewJob; the goroutine that distributes the job is started.
NewJob(r, n) ==
    /\ pc[r] = "job"
    /\ Take(r, n) \/ TakeByNum(r, n)
    /\ job' = [job EXCEPT ![r] = "distribute"]
    /\ Goto(r, "update")
    /\ UNCHANGED <<task, lock, stat>>

\* UpdateOne with everything the request has changed.
UpdateOne(r) ==
    /\ pc[r] = "update"
    /\ task' = [dbTask[r] EXCEPT !.status = "running"]
    /\ Return(r)
    /\ UNCHANGED <<lock, todo, job, stat>>

UpdateError(r) ==
    /\ pc[r] = "update"
    /\ Return(r)
    /\ UNCHANGED <<task, lock, todo, job, stat>>

\* DistributeJob, then Finish, then DistributedUnLock.
DistributeJob(r) ==
    /\ job[r] = "distribute"
    /\ job' = [job EXCEPT ![r] = "finish"]
    /\ UNCHANGED <<task, lock, pc, dbTask, todo, stat>>

Finish(r) ==
    /\ job[r] = "finish"
    /\ job' = [job EXCEPT ![r] = "unlock"]
    /\ UNCHANGED <<task, lock, pc, dbTask, todo, stat>>

UnLock(r) ==
    /\ job[r] = "unlock"
    /\ DistributedUnLock
    /\ job' = [job EXCEPT ![r] = "end"]
    /\ UNCHANGED <<task, pc, dbTask, todo, stat>>

-----------------------------------------------------------------------------
(* ComputeSubTaskStat, called by the queries: task_status is written back  *)
(* as it was read, or "finished" when all distributed agents have answered.*)

StatRead ==
    /\ stat = "none"
    /\ \/ stat' = task.status
       \/ stat' = "finished" /\ task.inner # "cancelled" /\ task.count # 0
    /\ UNCHANGED <<task, lock, pc, dbTask, todo, job>>

StatWrite ==
    /\ stat # "none"
    /\ task' = [task EXCEPT !.status = stat]
    /\ stat' = "none"
    /\ UNCHANGED <<lock, pc, dbTask, todo, job>>

-----------------------------------------------------------------------------
ControlAgentTask(r) ==
    \/ DistributedLock(r) \/ RunError(r) \/ FindOne(r) \/ Refuse(r) \/ Empty(r)
    \/ \E n \in 1..IDCount : NewJob(r, n)
    \/ UpdateOne(r) \/ UpdateError(r)
    \/ DistributeJob(r) \/ Finish(r) \/ UnLock(r)

Next ==
    \/ \E r \in Requests : ControlAgentTask(r)
    \/ Cancel \/ Expire \/ StatRead \/ StatWrite

Spec == Init /\ [][Next]_vars

-----------------------------------------------------------------------------
\* Every variable stays in its type.
TypeOK ==
    /\ task \in Tasks
    /\ lock \in Requests \cup {Nobody}
    /\ pc \in [Requests -> {"lock", "find", "refuse", "empty", "job", "update", "end"}]
    /\ dbTask \in [Requests -> Tasks]
    /\ todo \in [Requests -> SUBSET (1..IDCount)]
    /\ job \in [Requests -> {"none", "distribute", "finish", "unlock", "end"}]
    /\ stat \in Status \cup {"none"}

\* An agent that is no longer in the todo_list belongs to a job that has been
\* started, however the requests and the expiry of their lock interleave.
NothingForgotten ==
    \A a \in 1..task.next : \E r \in Requests : job[r] # "none" /\ a \in todo[r]

\* distributed_count and the length of the todo_list always add up to
\* id_count, although requests overwrite each other's documents.
CountMatchesTodo == task.count = task.next

\* The task is cancelled and no request is between FindOne and UpdateOne.
CancelSettled ==
    task.inner = "cancelled" /\ \A r \in Requests : pc[r] \notin {"empty", "job", "update"}

\* A cancel that no request had overtaken with its FindOne is final: whatever
\* requests and queries follow, no job is started and the task stays cancelled.
CancelFinal == [][ CancelSettled => CancelSettled' ]_vars

\* "Jobs cannot be executed concurrently" (ControlAgentTask): at most one job
\* of the task is being distributed.
NoConcurrentJobs ==
    Cardinality({r \in Requests : job[r] \in {"distribute", "finish"}}) <= 1
=============================================================================
