---------------------------- MODULE AgentPlugin ----------------------------
(***************************************************************************)
(* The agent's plugin daemon (agent/plugin).  The daemon applies the       *)
(* configurations the server pushes: it starts a process per plugin, shuts *)
(* down the ones whose version changed or that are no longer wanted, and   *)
(* shuts all of them down when the agent's context is cancelled.  Every    *)
(* loaded plugin has three goroutines: one waits for the process, one      *)
(* receives its data and one writes tasks to it.                           *)
(*                                                                         *)
(* A *Plugin is an element of Plugins.  An element is used again once its  *)
(* process is reaped, its goroutines have ended and m does not refer to    *)
(* it.  The plugin's directory and the download are not modelled: that     *)
(* they may fail is.                                                       *)
(***************************************************************************)
EXTENDS Integers, FiniteSets, Sequences

CONSTANTS
    Names,      \* plugin names, agent.Product excluded
    Versions,   \* plugin versions
    Plugins,    \* *Plugin objects
    NoPlugin,   \* no entry in m
    NoVersion   \* a configuration does not mention the plugin

ASSUME PluginAssumption ==
    /\ NoPlugin \notin Plugins
    /\ NoVersion \notin Versions

VARIABLES
    m,        \* plugin name -> *Plugin
    version,  \* plugin name -> Config.Version of m[name]
    proc,     \* *Plugin -> process, and the goroutine that waits for it
    pipes,    \* *Plugin -> rx and tx are open
    receiver, \* *Plugin -> goroutine that receives data
    sender,   \* *Plugin -> goroutine that sends tasks
    shut,     \* *Plugin -> Shutdown call
    syncCh,   \* configurations waiting for the daemon, at most one
    daemon,   \* Startup: pc, the configuration being applied, what is left of it
    ctxDone   \* the agent's context is cancelled

pluginVars == <<proc, pipes, receiver, sender>>
vars == <<m, version, pluginVars, shut, syncCh, daemon, ctxDone>>

Cfgs == [Names -> Versions \cup {NoVersion}]
Wanted(c) == {n \in Names : c[n] # NoVersion}

Done(p) == proc[p] = "done"
IsExited(p) == proc[p] \in {"reaped", "done"}
Loaded == {p \in Plugins : \E n \in Names : m[n] = p}
GoroutinesEnded(p) == Done(p) /\ receiver[p] = "end" /\ sender[p] = "end"

Init ==
    /\ m = [n \in Names |-> NoPlugin]
    /\ version = [n \in Names |-> NoVersion]
    /\ proc = [p \in Plugins |-> "done"]
    /\ pipes = [p \in Plugins |-> FALSE]
    /\ receiver = [p \in Plugins |-> "end"]
    /\ sender = [p \in Plugins |-> "end"]
    /\ shut = [p \in Plugins |-> "none"]
    /\ syncCh = <<>>
    /\ daemon = [pc |-> "select", cfgs |-> [n \in Names |-> NoVersion], left |-> {}, cur |-> NoPlugin]
    /\ ctxDone = FALSE

-----------------------------------------------------------------------------
(* What the transport asks for.                                            *)

\* Sync: a configuration that arrives while one is waiting is dropped.
Sync(c) ==
    /\ syncCh = <<>>
    /\ syncCh' = <<c>>
    /\ UNCHANGED <<m, version, pluginVars, shut, daemon, ctxDone>>

\* SendTask: accepted only when the sender is waiting for a task.
SendTask(n) ==
    /\ m[n] # NoPlugin
    /\ sender[m[n]] = "select"
    /\ sender' = [sender EXCEPT ![m[n]] = "write"]
    /\ UNCHANGED <<m, version, proc, pipes, receiver, shut, syncCh, daemon, ctxDone>>

\* agent.Cancel.
Cancel ==
    /\ ~ctxDone
    /\ ctxDone' = TRUE
    /\ UNCHANGED <<m, version, pluginVars, shut, syncCh, daemon>>

-----------------------------------------------------------------------------
(* The process of a plugin and its goroutines.                             *)

\* The process ends: by itself, on the closed pipe, or killed.
ProcessEnds(p) ==
    /\ proc[p] \in {"running", "killed"}
    /\ proc' = [proc EXCEPT ![p] = "dead"]
    /\ UNCHANGED <<m, version, pipes, receiver, sender, shut, syncCh, daemon, ctxDone>>

\* cmd.Wait returns and sets ProcessState.
WaitReturns(p) ==
    /\ proc[p] = "dead"
    /\ proc' = [proc EXCEPT ![p] = "reaped"]
    /\ UNCHANGED <<m, version, pipes, receiver, sender, shut, syncCh, daemon, ctxDone>>

\* Fault: done is not closed.
WaitClosesNotDone(p) ==
    /\ proc[p] = "reaped" /\ pipes[p]
    /\ pipes' = [pipes EXCEPT ![p] = FALSE]
    /\ UNCHANGED <<m, version, proc, receiver, sender, shut, syncCh, daemon, ctxDone>>

\* The waiting goroutine closes rx and tx, then done.
WaitCloses(p) ==
    /\ proc[p] = "reaped"
    /\ pipes' = [pipes EXCEPT ![p] = FALSE]
    /\ proc' = [proc EXCEPT ![p] = "done"]
    /\ UNCHANGED <<m, version, receiver, sender, shut, syncCh, daemon, ctxDone>>

\* ReceiveData fails with EOF or a closed pipe.  A running plugin may close
\* its end as well.
ReceiveEnds(p) ==
    /\ receiver[p] = "receive"
    /\ receiver' = [receiver EXCEPT ![p] = "end"]
    /\ UNCHANGED <<m, version, proc, pipes, sender, shut, syncCh, daemon, ctxDone>>

\* The sender selects done.
SenderDone(p) ==
    /\ sender[p] = "select" /\ Done(p)
    /\ sender' = [sender EXCEPT ![p] = "end"]
    /\ UNCHANGED <<m, version, proc, pipes, receiver, shut, syncCh, daemon, ctxDone>>

\* tx.Write takes the task; a plugin that does not read blocks it.
WriteTask(p) ==
    /\ sender[p] = "write" /\ pipes[p] /\ proc[p] = "running"
    /\ sender' = [sender EXCEPT ![p] = "select"]
    /\ UNCHANGED <<m, version, proc, pipes, receiver, shut, syncCh, daemon, ctxDone>>

\* tx.Write fails: the goroutine returns and the task is lost.
WriteTaskError(p) ==
    /\ sender[p] = "write"
    /\ sender' = [sender EXCEPT ![p] = "end"]
    /\ UNCHANGED <<m, version, proc, pipes, receiver, shut, syncCh, daemon, ctxDone>>

-----------------------------------------------------------------------------
(* Shutdown of one plugin.                                                 *)

ShutdownBegin(p) ==
    /\ shut[p] = "called"
    /\ IF IsExited(p)
       THEN shut' = [shut EXCEPT ![p] = "returned"] /\ UNCHANGED pipes
       ELSE /\ pipes' = [pipes EXCEPT ![p] = FALSE]
            /\ shut' = [shut EXCEPT ![p] = "wait"]
    /\ UNCHANGED <<m, version, proc, receiver, sender, syncCh, daemon, ctxDone>>

\* Fault: Shutdown gives up after the timeout, without waiting for done.
ShutdownGivesUp(p) ==
    /\ shut[p] = "wait"
    /\ shut' = [shut EXCEPT ![p] = "returned"]
    /\ UNCHANGED <<m, version, pluginVars, syncCh, daemon, ctxDone>>

\* 30 seconds are over: kill the process group.
ShutdownKill(p) ==
    /\ shut[p] = "wait"
    /\ shut' = [shut EXCEPT ![p] = "killed"]
    /\ proc' = [proc EXCEPT ![p] = IF @ = "running" THEN "killed" ELSE @]
    /\ UNCHANGED <<m, version, pipes, receiver, sender, syncCh, daemon, ctxDone>>

ShutdownDone(p) ==
    /\ shut[p] \in {"wait", "killed"} /\ Done(p)
    /\ shut' = [shut EXCEPT ![p] = "returned"]
    /\ UNCHANGED <<m, version, pluginVars, syncCh, daemon, ctxDone>>

-----------------------------------------------------------------------------
(* The daemon.                                                             *)

\* Startup selects a configuration, also when the context is cancelled.
StartSync ==
    /\ daemon.pc = "select" /\ syncCh # <<>>
    /\ daemon' = [daemon EXCEPT !.pc = "load", !.cfgs = Head(syncCh),
                                !.left = Wanted(Head(syncCh))]
    /\ syncCh' = Tail(syncCh)
    /\ UNCHANGED <<m, version, pluginVars, shut, ctxDone>>

\* Fault: a running plugin is kept whatever its version.
LoadKeepsVersion(n) ==
    /\ daemon.pc = "load" /\ n \in daemon.left
    /\ LET running == m[n] # NoPlugin /\ ~IsExited(m[n])
       IN  daemon' = [daemon EXCEPT !.left = @ \ {n},
                        !.pc = IF running THEN "load" ELSE "start",
                        !.cur = IF running THEN NoPlugin ELSE n]
    /\ UNCHANGED <<m, version, pluginVars, shut, syncCh, ctxDone>>

\* Load, up to the call of Shutdown.
Load(n) ==
    /\ daemon.pc = "load" /\ n \in daemon.left
    /\ LET p == m[n]
           running == p # NoPlugin /\ ~IsExited(p)
           same == running /\ version[n] = daemon.cfgs[n]
       IN  /\ daemon' = [daemon EXCEPT !.left = @ \ {n},
                           !.pc = IF same THEN "load" ELSE IF running THEN "replace" ELSE "start",
                           !.cur = IF same THEN NoPlugin ELSE n]
           /\ shut' = IF running /\ ~same THEN [shut EXCEPT ![p] = "called"] ELSE shut
    /\ UNCHANGED <<m, version, pluginVars, syncCh, ctxDone>>

\* The previous version has been shut down.
Replaced ==
    /\ daemon.pc = "replace" /\ shut[m[daemon.cur]] = "returned"
    /\ shut' = [shut EXCEPT ![m[daemon.cur]] = "none"]
    /\ daemon' = [daemon EXCEPT !.pc = "start"]
    /\ UNCHANGED <<m, version, pluginVars, syncCh, ctxDone>>

\* The download, a pipe, the stderr file or the start of the process fails;
\* m keeps what it had.
LoadError ==
    /\ daemon.pc = "start"
    /\ daemon' = [daemon EXCEPT !.pc = "load", !.cur = NoPlugin]
    /\ UNCHANGED <<m, version, pluginVars, shut, syncCh, ctxDone>>

\* The process and the goroutines are started and the plugin is stored.
LoadStart(p) ==
    /\ daemon.pc = "start" /\ p \notin Loaded /\ GoroutinesEnded(p)
    /\ m' = [m EXCEPT ![daemon.cur] = p]
    /\ version' = [version EXCEPT ![daemon.cur] = daemon.cfgs[daemon.cur]]
    /\ proc' = [proc EXCEPT ![p] = "running"]
    /\ pipes' = [pipes EXCEPT ![p] = TRUE]
    /\ receiver' = [receiver EXCEPT ![p] = "receive"]
    /\ sender' = [sender EXCEPT ![p] = "select"]
    /\ daemon' = [daemon EXCEPT !.pc = "load", !.cur = NoPlugin]
    /\ UNCHANGED <<shut, syncCh, ctxDone>>

\* All are loaded; GetAll finds the plugins to remove.
LoadedAll ==
    /\ daemon.pc = "load" /\ daemon.left = {}
    /\ daemon' = [daemon EXCEPT !.pc = "remove",
                    !.left = {n \in Names : m[n] # NoPlugin} \ Wanted(daemon.cfgs)]
    /\ UNCHANGED <<m, version, pluginVars, shut, syncCh, ctxDone>>

Remove(n) ==
    /\ daemon.pc = "remove" /\ n \in daemon.left
    /\ shut' = [shut EXCEPT ![m[n]] = "called"]
    /\ daemon' = [daemon EXCEPT !.pc = "removing", !.left = @ \ {n}, !.cur = n]
    /\ UNCHANGED <<m, version, pluginVars, syncCh, ctxDone>>

Removed ==
    /\ daemon.pc = "removing" /\ shut[m[daemon.cur]] = "returned"
    /\ shut' = [shut EXCEPT ![m[daemon.cur]] = "none"]
    /\ m' = [m EXCEPT ![daemon.cur] = NoPlugin]
    /\ version' = [version EXCEPT ![daemon.cur] = NoVersion]
    /\ daemon' = [daemon EXCEPT !.pc = "remove", !.cur = NoPlugin]
    /\ UNCHANGED <<pluginVars, syncCh, ctxDone>>

SyncDone ==
    /\ daemon.pc = "remove" /\ daemon.left = {}
    /\ daemon' = [daemon EXCEPT !.pc = "select"]
    /\ UNCHANGED <<m, version, pluginVars, shut, syncCh, ctxDone>>

\* Startup selects ctx.Done: shut all plugins down at once.
StartExit ==
    /\ daemon.pc = "select" /\ ctxDone
    /\ daemon' = [daemon EXCEPT !.pc = "exiting"]
    /\ shut' = [p \in Plugins |-> IF p \in Loaded THEN "called" ELSE shut[p]]
    /\ UNCHANGED <<m, version, pluginVars, syncCh, ctxDone>>

\* Every Shutdown has returned and every plg.wg is done.
Exit ==
    /\ daemon.pc = "exiting"
    /\ \A p \in Loaded : shut[p] = "returned" /\ GoroutinesEnded(p)
    /\ daemon' = [daemon EXCEPT !.pc = "exited"]
    /\ m' = [n \in Names |-> NoPlugin]
    /\ version' = [n \in Names |-> NoVersion]
    /\ shut' = [p \in Plugins |-> "none"]
    /\ UNCHANGED <<pluginVars, syncCh, ctxDone>>

Daemon ==
    \/ StartSync \/ LoadedAll \/ SyncDone \/ StartExit \/ Exit
    \/ \E n \in Names : Load(n) \/ Remove(n)
    \/ Replaced \/ Removed
    \/ LoadError \/ \E p \in Plugins : LoadStart(p)

Shutdown(p) == ShutdownBegin(p) \/ ShutdownKill(p) \/ ShutdownDone(p)

Goroutines(p) ==
    \/ WaitReturns(p) \/ WaitCloses(p)
    \/ ReceiveEnds(p)
    \/ SenderDone(p) \/ WriteTask(p) \/ WriteTaskError(p)

Next ==
    \/ \E c \in Cfgs : Sync(c)
    \/ \E n \in Names : SendTask(n)
    \/ Cancel
    \/ Daemon
    \/ \E p \in Plugins : ProcessEnds(p) \/ Goroutines(p) \/ Shutdown(p)

Spec == Init /\ [][Next]_vars

\* What the Go runtime and the kernel guarantee: goroutines run, a killed
\* process ends, timers fire, a closed file fails its pending reads and writes,
\* and select does not ignore ctx.Done for ever.  A plugin may run, stay silent
\* or not read its tasks for ever.
Fairness ==
    /\ WF_vars(Daemon)
    /\ SF_vars(StartExit)
    /\ \A p \in Plugins :
         /\ WF_vars(Shutdown(p))
         /\ WF_vars(ProcessEnds(p) /\ proc[p] = "killed")
         /\ WF_vars(WaitReturns(p)) /\ WF_vars(WaitCloses(p)) /\ WF_vars(SenderDone(p))
         /\ WF_vars(ReceiveEnds(p) /\ ~pipes[p])
         /\ WF_vars(WriteTaskError(p) /\ ~pipes[p])

FairSpec == Spec /\ Fairness

-----------------------------------------------------------------------------
Alive(p) == proc[p] \in {"running", "killed"}

\* No process outlives its entry in m: a plugin that was replaced, removed or
\* whose successor failed to load has no live process, so at most one process
\* runs per name and Shutdown can reach all of them.
NoOrphan == \A p \in Plugins : Alive(p) => p \in Loaded

\* Between two configurations the daemon leaves only plugins of the last one,
\* and the ones that run have the version it asks for, whichever plugins
\* crashed or failed to load meanwhile.
ConfigApplied ==
    daemon.pc = "select" =>
        \A n \in Names : m[n] # NoPlugin =>
            /\ n \in Wanted(daemon.cfgs)
            /\ Alive(m[n]) => version[n] = daemon.cfgs[n]

\* Once the context is cancelled the daemon exits.
CancelExits == ctxDone ~> daemon.pc = "exited"
=============================================================================
