------------------------- MODULE AgentPluginProofs -------------------------
(***************************************************************************)
(* Proofs about the agent's plugin daemon, for any plugin names, versions  *)
(* and number of *Plugin objects.  Shutdown and the goroutines of a plugin *)
(* run beside the daemon, so the invariant says for every label of the     *)
(* daemon which plugin may be in Shutdown, what is known of the process of *)
(* the plugin being replaced, and how much of the configuration is already *)
(* true.                                                                   *)
(***************************************************************************)
EXTENDS AgentPlugin, TLAPS

\* Most leaves are first-order steps over named definitions and go to Zenon; one
\* that needs arithmetic, records or sequences asks for SMT.
USE ZenonT(30)

\* The type of what the daemon works on.
PluginTypeOK ==
    /\ m \in [Names -> Plugins \cup {NoPlugin}]
    /\ version \in [Names -> Versions \cup {NoVersion}]
    /\ proc \in [Plugins -> {"running", "killed", "dead", "reaped", "done"}]
    /\ shut \in [Plugins -> {"none", "called", "wait", "killed", "returned"}]
    /\ syncCh \in Seq(Cfgs)
    /\ daemon \in [pc : {"select", "load", "replace", "start", "remove", "removing", "exiting", "exited"},
                   cfgs : Cfgs, left : SUBSET Names, cur : Names \cup {NoPlugin}]

\* A *Plugin is stored under one name.
OneName == \A a, b \in Names : m[a] = m[b] /\ m[a] # NoPlugin => a = b

\* Shutdown runs only for the plugin the daemon waits for, or for all of them
\* when the agent exits, and returns only once the process has been reaped.
Shutting ==
    \A p \in Plugins :
        /\ shut[p] # "none" =>
              \/ daemon.pc \in {"replace", "removing"} /\ p = m[daemon.cur]
              \/ daemon.pc = "exiting" /\ p \in Loaded
        /\ shut[p] = "returned" => IsExited(p)

\* What the daemon knows of the plugin it is working on.
Current ==
    /\ daemon.pc \in {"replace", "start", "removing"} => daemon.cur \in Names
    /\ daemon.pc \in {"replace", "removing"} => m[daemon.cur] # NoPlugin
    /\ daemon.pc = "start" => m[daemon.cur] = NoPlugin \/ IsExited(m[daemon.cur])
    /\ daemon.pc = "removing" => daemon.cur \notin daemon.left
    /\ daemon.pc \in {"remove", "removing"} => \A n \in daemon.left : m[n] # NoPlugin

Right(n) == m[n] # NoPlugin /\ Alive(m[n]) => version[n] = daemon.cfgs[n]

\* The part of the configuration that is already true.
Progress ==
    /\ daemon.pc \in {"load", "replace", "start"} =>
          \A n \in Wanted(daemon.cfgs) \ daemon.left :
              Right(n) \/ (daemon.pc = "replace" /\ n = daemon.cur)
    /\ daemon.pc \in {"remove", "removing", "select"} => \A n \in Wanted(daemon.cfgs) : Right(n)
    /\ daemon.pc \in {"remove", "removing", "select"} =>
          \A n \in Names : m[n] # NoPlugin =>
              \/ n \in Wanted(daemon.cfgs)
              \/ daemon.pc # "select" /\ n \in daemon.left
              \/ daemon.pc = "removing" /\ n = daemon.cur

PluginInv == PluginTypeOK /\ OneName /\ Shutting /\ Current /\ Progress /\ NoOrphan

-----------------------------------------------------------------------------
\* What Init says of the daemon is what the invariant asks for.
LEMMA PluginInit == Init => PluginInv
<1>. SUFFICES ASSUME Init PROVE PluginInv
  OBVIOUS
<1>1. PluginTypeOK
  BY SMT DEF Init, PluginTypeOK, Cfgs
<1>2. OneName /\ Shutting /\ Current /\ NoOrphan
  BY DEF Init, OneName, Shutting, Current, NoOrphan, Alive
<1>3. Progress
  BY DEF Init, Progress, Right
<1>. QED
  BY <1>1, <1>2, <1>3 DEF PluginInv

\* A step that changes neither the daemon nor a Shutdown, revives no process
\* and forgets of none that it was reaped, keeps the invariant.
LEMMA Beside ==
    ASSUME PluginInv, UNCHANGED <<m, version, shut, daemon>>, syncCh' \in Seq(Cfgs),
           proc' \in [Plugins -> {"running", "killed", "dead", "reaped", "done"}],
           \A p \in Plugins : (Alive(p)' => Alive(p)) /\ (IsExited(p) => IsExited(p)')
    PROVE  PluginInv'
<1>1. PluginTypeOK' /\ OneName'
  BY DEF PluginInv, PluginTypeOK, OneName
<1>2. Loaded' = Loaded
  BY DEF Loaded
<1>3. Shutting'
  BY <1>2 DEF PluginInv, Shutting
<1>4. NoOrphan'
  BY <1>2 DEF PluginInv, NoOrphan
<1>5. Current'
  BY DEF PluginInv, PluginTypeOK, Current
<1>6. \A n \in Names : Right(n) => Right(n)'
  BY DEF PluginInv, PluginTypeOK, Right
<1>7. Progress'
  BY <1>6 DEF PluginInv, Progress, Wanted
<1>. QED
  BY <1>1, <1>3, <1>4, <1>5, <1>7 DEF PluginInv

\* The callers of the daemon and the goroutines of a plugin.
LEMMA GoroutineKeeps ==
    ASSUME PluginInv,
           \/ \E c \in Cfgs : Sync(c)
           \/ \E n \in Names : SendTask(n)
           \/ Cancel
           \/ \E p \in Plugins : ProcessEnds(p) \/ Goroutines(p)
    PROVE  PluginInv'
<1>. USE DEF PluginInv, PluginTypeOK, pluginVars
<1>1. CASE \E c \in Cfgs : Sync(c)
  <2>1. syncCh' \in Seq(Cfgs)
    BY SMT, <1>1 DEF Sync
  <2>. QED
    BY <1>1, <2>1, Beside DEF Sync, Alive, IsExited
<1>2. CASE \E n \in Names : SendTask(n)
  BY <1>2, Beside DEF SendTask, Alive, IsExited
<1>3. CASE Cancel
  BY <1>3, Beside DEF Cancel, Alive, IsExited
<1>4. CASE \E p \in Plugins : ProcessEnds(p)
  BY <1>4, Beside DEF ProcessEnds, Alive, IsExited
<1>5. CASE \E p \in Plugins : WaitReturns(p)
  BY <1>5, Beside DEF WaitReturns, Alive, IsExited
<1>6. CASE \E p \in Plugins : WaitCloses(p)
  BY <1>6, Beside DEF WaitCloses, Alive, IsExited
<1>7. CASE \E p \in Plugins : ReceiveEnds(p) \/ SenderDone(p) \/ WriteTask(p) \/ WriteTaskError(p)
  BY <1>7, Beside DEF ReceiveEnds, SenderDone, WriteTask, WriteTaskError, Alive, IsExited
<1>. QED
  BY <1>1, <1>2, <1>3, <1>4, <1>5, <1>6, <1>7 DEF Goroutines

\* Shutdown returns only once the process has been reaped.
LEMMA ShutdownKeeps ==
    ASSUME PluginInv, NEW p \in Plugins, Shutdown(p)
    PROVE  PluginInv'
<1>. USE DEF PluginInv, PluginTypeOK, pluginVars
<1>1. /\ UNCHANGED <<m, version, daemon, syncCh>>
      /\ shut[p] # "none"
      /\ \E s \in {"wait", "killed", "returned"} : shut' = [shut EXCEPT ![p] = s]
      /\ shut'[p] = "returned" => IsExited(p)
  BY DEF Shutdown, ShutdownBegin, ShutdownKill, ShutdownDone, Done, IsExited
<1>2. /\ proc' \in [Plugins -> {"running", "killed", "dead", "reaped", "done"}]
      /\ \A q \in Plugins : (Alive(q)' <=> Alive(q)) /\ (IsExited(q)' <=> IsExited(q))
  BY DEF Shutdown, ShutdownBegin, ShutdownKill, ShutdownDone, Alive, IsExited
<1>3. PluginTypeOK' /\ OneName'
  BY <1>1, <1>2 DEF OneName
<1>4. Loaded' = Loaded
  BY <1>1 DEF Loaded
<1>5. Shutting'
  BY <1>1, <1>2, <1>4 DEF Shutting
<1>6. NoOrphan'
  BY <1>2, <1>4 DEF NoOrphan
<1>7. Current'
  BY <1>1, <1>2 DEF Current
<1>8. \A n \in Names : Right(n) => Right(n)'
  BY <1>1, <1>2 DEF Right
<1>9. Progress'
  BY <1>1, <1>8 DEF Progress, Wanted
<1>. QED
  BY <1>3, <1>5, <1>6, <1>7, <1>9

-----------------------------------------------------------------------------
(* The daemon.                                                             *)

\* Startup takes a configuration, or the context ends.
LEMMA SelectKeeps ==
    ASSUME PluginInv, StartSync \/ StartExit \/ Exit
    PROVE  PluginInv'
<1>. USE DEF PluginInv, PluginTypeOK, pluginVars
<1>1. CASE StartSync
  <2>1. Head(syncCh) \in Cfgs /\ Tail(syncCh) \in Seq(Cfgs)
    BY SMT, <1>1 DEF StartSync
  <2>2. PluginTypeOK' /\ OneName'
    BY <1>1, <2>1 DEF StartSync, OneName, Wanted
  <2>3. Shutting' /\ NoOrphan'
    BY <1>1 DEF StartSync, Shutting, NoOrphan, Alive, IsExited, Loaded
  <2>4. Current' /\ Progress'
    BY <1>1 DEF StartSync, Current, Progress, Wanted
  <2>. QED
    BY <2>2, <2>3, <2>4
<1>2. CASE StartExit
  <2>1. PluginTypeOK' /\ OneName'
    BY <1>2 DEF StartExit, OneName
  <2>2. Shutting' /\ NoOrphan'
    BY <1>2 DEF StartExit, Shutting, NoOrphan, Alive, IsExited, Loaded
  <2>3. Current' /\ Progress'
    BY <1>2 DEF StartExit, Current, Progress
  <2>. QED
    BY <2>1, <2>2, <2>3
<1>3. CASE Exit
  <2>1. PluginTypeOK' /\ OneName'
    BY <1>3 DEF Exit, OneName
  <2>2. Shutting' /\ NoOrphan'
    BY <1>3 DEF Exit, Shutting, NoOrphan, Alive, IsExited, GoroutinesEnded, Done
  <2>3. Current' /\ Progress'
    BY <1>3 DEF Exit, Current, Progress
  <2>. QED
    BY <2>1, <2>2, <2>3
<1>. QED
  BY <1>1, <1>2, <1>3

\* Load begins with a name of the configuration: the plugin is kept, shut down
\* or, when it has exited, started.
LEMMA LoadKeeps ==
    ASSUME PluginInv, NEW n \in Names, Load(n)
    PROVE  PluginInv'
<1>. USE DEF PluginInv, PluginTypeOK, pluginVars
<1>. DEFINE running == m[n] # NoPlugin /\ ~IsExited(m[n])
            same == running /\ version[n] = daemon.cfgs[n]
<1>0. /\ daemon.pc = "load" /\ n \in daemon.left
      /\ UNCHANGED <<m, version, proc, syncCh>>
      /\ daemon' = [daemon EXCEPT !.left = @ \ {n},
                      !.pc = IF same THEN "load" ELSE IF running THEN "replace" ELSE "start",
                      !.cur = IF same THEN NoPlugin ELSE n]
      /\ shut' = IF running /\ ~same THEN [shut EXCEPT ![m[n]] = "called"] ELSE shut
  BY DEF Load
<1>1. PluginTypeOK' /\ OneName'
  BY <1>0 DEF OneName
<1>2. Shutting'
  BY <1>0 DEF Shutting, Loaded, IsExited
<1>3. NoOrphan'
  BY <1>0 DEF NoOrphan, Alive, Loaded
<1>4. Current'
  BY <1>0 DEF Current, IsExited
<1>5. \A k \in Names : Right(k)' <=> Right(k)
  BY <1>0 DEF Right, Alive
<1>6. same => Right(n)
  BY DEF Right
<1>7. ~same /\ ~running => Right(n)
  BY DEF Right, Alive, IsExited
<1>8. Progress'
  BY <1>0, <1>5, <1>6, <1>7 DEF Progress, Wanted
<1>. QED
  BY <1>1, <1>2, <1>3, <1>4, <1>8

\* The previous version is gone, or its successor cannot be started.
LEMMA ReplaceKeeps ==
    ASSUME PluginInv, Replaced \/ LoadError
    PROVE  PluginInv'
<1>. USE DEF PluginInv, PluginTypeOK, pluginVars
<1>0. UNCHANGED <<m, version, proc, syncCh>> /\ daemon'.cfgs = daemon.cfgs
  BY DEF Replaced, LoadError
<1>1. PluginTypeOK' /\ OneName'
  BY DEF Replaced, LoadError, OneName
<1>2. Shutting'
  BY DEF Replaced, LoadError, Shutting, Loaded, IsExited, Current
<1>3. NoOrphan'
  BY <1>0 DEF NoOrphan, Alive, Loaded
<1>4. Current'
  BY DEF Replaced, LoadError, Current, Shutting, IsExited
<1>5. \A k \in Names : Right(k)' <=> Right(k)
  BY <1>0 DEF Right, Alive
<1>6. Replaced => Right(daemon.cur)
  BY DEF Replaced, Shutting, Current, Right, Alive, IsExited
<1>7. Progress'
  <2>1. \A k \in Wanted(daemon.cfgs) \ daemon.left : Right(k)
    BY <1>6 DEF Progress, Replaced, LoadError
  <2>2. daemon'.pc \in {"start", "load"} /\ daemon'.left = daemon.left
    BY DEF Replaced, LoadError
  <2>. QED
    BY <1>0, <1>5, <2>1, <2>2 DEF Progress, Wanted
<1>. QED
  BY <1>1, <1>2, <1>3, <1>4, <1>7

\* The new process is started under a name whose old process is gone.
LEMMA StartKeeps ==
    ASSUME PluginInv, NEW p \in Plugins, LoadStart(p)
    PROVE  PluginInv'
<1>. USE DEF PluginInv, PluginTypeOK, pluginVars
<1>. USE PluginAssumption
<1>0. /\ daemon.pc = "start" /\ daemon.cur \in Names
      /\ \A k \in Names : m[k] # p
      /\ m' = [m EXCEPT ![daemon.cur] = p]
      /\ version' = [version EXCEPT ![daemon.cur] = daemon.cfgs[daemon.cur]]
      /\ proc' = [proc EXCEPT ![p] = "running"]
      /\ daemon' = [daemon EXCEPT !.pc = "load", !.cur = NoPlugin]
      /\ UNCHANGED <<shut, syncCh>>
  BY DEF LoadStart, Current, Loaded
<1>1. PluginTypeOK'
  BY <1>0 DEF Cfgs
<1>2. OneName'
  BY <1>0 DEF OneName
<1>3. Shutting'
  BY <1>0 DEF Shutting
<1>4. NoOrphan'
  <2>. SUFFICES ASSUME NEW q \in Plugins, Alive(q)' PROVE \E k \in Names : m'[k] = q
    BY DEF NoOrphan, Loaded
  <2>1. CASE q = p
    BY <1>0, <2>1
  <2>2. CASE q # p
    <3>1. PICK k \in Names : m[k] = q
      BY <1>0, <2>2 DEF NoOrphan, Alive, Loaded
    <3>2. k # daemon.cur
      BY <1>0, <2>2, <3>1 DEF Current, Alive, IsExited
    <3>. QED
      BY <1>0, <3>1, <3>2
  <2>. QED
    BY <2>1, <2>2
<1>5. Current'
  BY <1>0 DEF Current
<1>6. \A k \in Names : (k = daemon.cur \/ Right(k)) => Right(k)'
  BY <1>0 DEF Right, Alive
<1>7. Progress'
  BY <1>0, <1>6 DEF Progress, Wanted
<1>. QED
  BY <1>1, <1>2, <1>3, <1>4, <1>5, <1>7

\* The plugins the configuration does not mention are shut down and forgotten.
LEMMA RemoveKeeps ==
    ASSUME PluginInv,
           LoadedAll \/ SyncDone \/ Removed \/ \E n \in Names : Remove(n)
    PROVE  PluginInv'
<1>. USE DEF PluginInv, PluginTypeOK, pluginVars
<1>1. CASE LoadedAll \/ SyncDone
  <2>0. UNCHANGED <<m, version, proc, shut, syncCh>> /\ daemon'.cfgs = daemon.cfgs
    BY <1>1 DEF LoadedAll, SyncDone
  <2>1. PluginTypeOK' /\ OneName'
    <3>1. CASE LoadedAll
      BY <3>1 DEF LoadedAll, OneName
    <3>2. CASE SyncDone
      BY <3>2 DEF SyncDone, OneName
    <3>. QED
      BY <1>1, <3>1, <3>2
  <2>2. Shutting' /\ NoOrphan'
    BY SMT, <1>1 DEF LoadedAll, SyncDone, Shutting, NoOrphan, Alive, IsExited, Loaded
  <2>3. Current'
    <3>1. CASE LoadedAll
      <4>1. daemon'.pc = "remove" /\ \A n \in daemon'.left : m[n] # NoPlugin
        BY <3>1 DEF LoadedAll
      <4>. QED
        BY <2>0, <4>1 DEF Current
    <3>2. CASE SyncDone
      BY <3>2 DEF SyncDone, Current
    <3>. QED
      BY <1>1, <3>1, <3>2
  <2>4. \A k \in Names : Right(k)' <=> Right(k)
    BY <2>0 DEF Right, Alive
  <2>5. Progress'
    BY <1>1, <2>4 DEF LoadedAll, SyncDone, Progress, Wanted
  <2>. QED
    BY <2>1, <2>2, <2>3, <2>5
<1>2. ASSUME NEW n \in Names, Remove(n) PROVE PluginInv'
  <2>0. UNCHANGED <<m, version, proc, syncCh>> /\ daemon'.cfgs = daemon.cfgs
    BY <1>2 DEF Remove
  <2>1. PluginTypeOK' /\ OneName'
    BY <1>2 DEF Remove, OneName
  <2>2. Shutting'
    <3>1. /\ daemon.pc = "remove" /\ n \in daemon.left
          /\ daemon'.pc = "removing" /\ daemon'.cur = n
          /\ shut' = [shut EXCEPT ![m[n]] = "called"]
      BY <1>2 DEF Remove
    <3>2. \A p \in Plugins : shut[p] = "none"
      BY <3>1 DEF Shutting
    <3>3. m[n] \in Plugins
      BY <3>1 DEF Current
    <3>. QED
      BY <2>0, <3>1, <3>2, <3>3 DEF Shutting
  <2>6. NoOrphan'
    BY <2>0 DEF NoOrphan, Alive, Loaded
  <2>3. Current'
    BY <1>2 DEF Remove, Current
  <2>4. \A k \in Names : Right(k)' <=> Right(k)
    BY <2>0 DEF Right, Alive
  <2>5. Progress'
    BY <1>2, <2>4 DEF Remove, Progress, Wanted
  <2>. QED
    BY <2>1, <2>2, <2>3, <2>5, <2>6
<1>3. CASE Removed
  <2>0. /\ daemon.pc = "removing" /\ daemon.cur \in Names /\ m[daemon.cur] \in Plugins
        /\ IsExited(m[daemon.cur])
        /\ shut' = [shut EXCEPT ![m[daemon.cur]] = "none"]
        /\ m' = [m EXCEPT ![daemon.cur] = NoPlugin]
        /\ version' = [version EXCEPT ![daemon.cur] = NoVersion]
        /\ daemon' = [daemon EXCEPT !.pc = "remove", !.cur = NoPlugin]
        /\ UNCHANGED <<proc, syncCh>>
    BY <1>3 DEF Removed, Current, Shutting
  <2>1. PluginTypeOK' /\ OneName'
    BY <2>0 DEF OneName
  <2>2. Shutting'
    BY <2>0 DEF Shutting, IsExited
  <2>3. NoOrphan'
    BY <2>0 DEF NoOrphan, Alive, IsExited, Loaded
  <2>4. Current'
    BY <2>0 DEF Current
  <2>5. \A k \in Names : Right(k) => Right(k)'
    BY <2>0 DEF Right, Alive
  <2>6. Progress'
    BY <2>0, <2>5 DEF Progress, Wanted
  <2>. QED
    BY <2>1, <2>2, <2>3, <2>4, <2>6
<1>. QED
  BY <1>1, <1>2, <1>3

-----------------------------------------------------------------------------
\* Every step keeps the invariant.
LEMMA PluginNext == PluginInv /\ [Next]_vars => PluginInv'
<1>. SUFFICES ASSUME PluginInv, [Next]_vars PROVE PluginInv'
  OBVIOUS
<1>1. CASE UNCHANGED vars
  BY <1>1, Beside DEF vars, pluginVars, PluginInv, PluginTypeOK, Alive, IsExited
<1>2. CASE Next
  BY <1>2, GoroutineKeeps, ShutdownKeeps, SelectKeeps, LoadKeeps, ReplaceKeeps, StartKeeps,
     RemoveKeeps
     DEF Next, Daemon
<1>. QED
  BY <1>1, <1>2

\* The invariant holds in every reachable state.
LEMMA PluginInvariant == Spec => []PluginInv
<1>. QED
  BY PluginInit, PluginNext, PTL DEF Spec

\* No process outlives its entry in m, for any number of plugins and versions
\* and however Shutdown, the kill after 30 seconds, crashes and failed loads
\* interleave.
THEOREM NoPluginOrphaned == Spec => []NoOrphan
<1>1. PluginInv => NoOrphan
  BY DEF PluginInv
<1>. QED
  BY <1>1, PluginInvariant, PTL

\* Between two configurations only plugins of the last one are left, and what
\* runs has the version it asks for.
THEOREM ConfigsApplied == Spec => []ConfigApplied
<1>1. PluginInv => ConfigApplied
  BY DEF PluginInv, Progress, Right, ConfigApplied
<1>. QED
  BY <1>1, PluginInvariant, PTL
=============================================================================
