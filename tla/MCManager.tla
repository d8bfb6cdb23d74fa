----------------------------- MODULE MCManager -----------------------------
(***************************************************************************)
(* The tasks and the jobs of the manager for TLC: a behaviour is one of    *)
(* the requests that control a task or one of a distributed job.           *)
(***************************************************************************)
EXTENDS TaskControl, JobRun, TLC

VARIABLE part    \* what this behaviour is about

ManagerInit == part \in {"task", "job"} /\ Init /\ JobInit

ManagerNext ==
    \/ part = "task" /\ Next /\ UNCHANGED <<part, jobRunVars>>
    \/ part = "job" /\ JobNext /\ UNCHANGED <<part, vars>>

\* JobFairSpec's fairness, where there is a job.
ManagerSpec ==
    /\ ManagerInit /\ [][ManagerNext]_<<part, vars, jobRunVars>>
    /\ \A h \in Managers : WF_jobRunVars(part = "job" /\ Goroutines(h))
=============================================================================
