----------------------------- MODULE RaspProofs -----------------------------
(***************************************************************************)
(* Proofs about the RASP plugin, for any processes, namespaces, pids,      *)
(* connections and capacities: ManagerTypeOK and TracerAgrees of           *)
(* RaspManager, ServerTypeOK and LiveKept of RaspServer, MonitorTypeOK of  *)
(* RaspMonitor, and RaspTypeOK of the three together.                      *)
(***************************************************************************)
EXTENDS MCRasp, FiniteSetTheorems, TLAPS

\* Most leaves are first-order steps over named definitions and go to Zenon; one
\* that needs arithmetic, records or sequences asks for SMT.
USE ZenonT(30)

-----------------------------------------------------------------------------
(* RaspManager.                                                            *)

\* TracerAgrees is inductive once the types are known.
ManagerInv == ManagerTypeOK /\ TracerAgrees

LEMMA ManagerInvInit == ManagerInit => ManagerInv
  BY SMT, ManagerAssumption
  DEF ManagerInit, ManagerStart, ManagerInv, ManagerTypeOK, TracerAgrees

\* start_comm leaves a namespace with an entry and, in server mode, a server.
LEMMA StartCommTraces ==
  ASSUME ManagerInv, NEW p \in Procs, StartComm(p), UNCHANGED <<mode, mntNs>>
  PROVE  /\ tracer' \in [Namespaces -> SUBSET Procs]
         /\ servers' \in [Namespaces -> {"none", "up", "down"}]
         /\ mails' \in [Namespaces -> 0..QueueCap]
         /\ \A n \in Namespaces : tracer[n] \subseteq tracer'[n]
         /\ mode = "thread" => p \in tracer'[mntNs[p]]
         /\ mode # "thread" =>
              /\ \A n \in Namespaces : tracer'[n] # {} <=> servers'[n] # "none"
              /\ \A n \in Namespaces : servers[n] # "none" => servers'[n] # "none"
              /\ servers'[mntNs[p]] # "none"
<1> USE ManagerAssumption DEF ManagerInv, ManagerTypeOK, TracerAgrees
<1> DEFINE n == mntNs[p]
<1>0. n \in Namespaces
  OBVIOUS
<1>1. CASE mode = "thread" /\ Add(n, p) /\ UNCHANGED <<servers, mails>>
  BY <1>0, <1>1 DEF Add
<1>2. CASE mode = "server" /\ tracer[n] # {} /\ UNCHANGED <<tracer, servers, mails>>
  BY <1>0, <1>2
<1>3. CASE /\ mode = "server" /\ tracer[n] = {} /\ Add(n, p)
           /\ servers' = [servers EXCEPT ![n] = "up"]
           /\ mails' = [mails EXCEPT ![n] = 0]
  BY SMT, <1>0, <1>3 DEF Add
<1> QED BY <1>1, <1>2, <1>3 DEF StartComm

\* stop_comm: the entry and the server of a namespace go together.
LEMMA StopCommAgrees ==
  ASSUME ManagerInv, NEW p \in Procs, StopComm(p), UNCHANGED <<mode, mntNs>>,
         attached' = attached \/ attached' = attached \ {p},
         p \notin attached'
  PROVE  ManagerInv'
<1> USE ManagerAssumption DEF ManagerInv, ManagerTypeOK
<1> DEFINE n == mntNs[p]
<1>0. n \in Namespaces /\ attached' \subseteq attached
  OBVIOUS
<1>1. CASE mode = "server" /\ StateOff(n, p)
  <2>1. alive' = FALSE /\ servers' = [servers EXCEPT ![n] = "none"]
    BY <1>1 DEF StopComm
  <2>2. alive' \in BOOLEAN
    BY <2>1, Zenon
  <2>3. tracer' = [tracer EXCEPT ![n] = {}] /\ mails' = mails
    BY <1>0, <1>1 DEF StopComm, StateOff
  <2>4. TracerAgrees'
    BY <1>0, <1>1, <2>1, <2>3 DEF TracerAgrees
  <2> QED BY <1>0, <2>1, <2>2, <2>3, <2>4
<1>2. CASE ~(mode = "server" /\ StateOff(n, p))
  <2>1. /\ UNCHANGED <<servers, alive, mails>>
        /\ tracer' = [tracer EXCEPT ![n] = @ \ {p}]
    BY <1>2 DEF StopComm
  <2>2. CASE mode = "thread"
    BY <1>0, <2>1, <2>2 DEF TracerAgrees
  <2>3. CASE mode = "server"
    <3>1. \A k \in Namespaces : tracer'[k] = {} <=> tracer[k] = {}
      BY <1>0, <1>2, <2>1, <2>3 DEF StateOff
    <3> QED BY <1>0, <2>1, <2>3, <3>1 DEF TracerAgrees
  <2> QED BY <2>2, <2>3
<1> QED BY <1>1, <1>2

LEMMA ManagerInvNext == ManagerInv /\ [ManagerNext]_managerVars => ManagerInv'
<1> SUFFICES ASSUME ManagerInv, [ManagerNext]_managerVars PROVE ManagerInv'
  OBVIOUS
<1> USE ManagerAssumption DEF ManagerInv, ManagerTypeOK
<1>1. ASSUME NEW p \in Procs, AttachProcess(p) \/ AttachUnsent(p) PROVE ManagerInv'
  <2>1. /\ StartComm(p) /\ UNCHANGED <<mode, mntNs, alive>>
        /\ attached' = attached \/ attached' = attached \cup {p}
    BY <1>1 DEF AttachProcess, AttachUnsent
  <2> QED BY <2>1, StartCommTraces DEF TracerAgrees
<1>2. ASSUME NEW p \in Procs, AttachFails(p) PROVE ManagerInv'
  <2>1. CASE mode = "server" /\ tracer[mntNs[p]] = {}
    <3>1. alive' \in BOOLEAN
      BY <1>2, <2>1, Zenon DEF AttachFails
    <3> QED BY SMT, <1>2, <2>1, <3>1 DEF AttachFails, TracerAgrees
  <2>2. CASE ~(mode = "server" /\ tracer[mntNs[p]] = {})
    BY <1>2, <2>2, StopCommAgrees DEF AttachFails
  <2> QED BY <2>1, <2>2
<1>3. ASSUME NEW p \in Procs, HandleMissing(p) PROVE ManagerInv'
  BY <1>3, StopCommAgrees DEF HandleMissing
<1>4. ASSUME NEW p \in Procs, SendProbeMessage(p) PROVE ManagerInv'
  BY SMT, <1>4 DEF SendProbeMessage, TracerAgrees
<1>5. ASSUME NEW n \in Namespaces, CommRecv(n) PROVE ManagerInv'
  BY SMT, <1>5 DEF CommRecv, TracerAgrees
<1>6. ASSUME NEW n \in Namespaces, ServerExits(n) PROVE ManagerInv'
  BY <1>6 DEF ServerExits, TracerAgrees
<1>7. CASE UNCHANGED managerVars
  BY <1>7 DEF managerVars, TracerAgrees
<1> QED BY <1>1, <1>2, <1>3, <1>4, <1>5, <1>6, <1>7 DEF ManagerNext

LEMMA ManagerInvAlways == ManagerSpec => []ManagerInv
  BY ManagerInvInit, ManagerInvNext, PTL DEF ManagerSpec

\* In either mode the tracer and what it traces agree: no operation, failed attach or
\* exit of a server leaves an attached process without the server it needs.
THEOREM TracersAgree == ManagerSpec => []TracerAgrees
<1>1. ManagerInv => TracerAgrees
  BY DEF ManagerInv
<1> QED BY <1>1, ManagerInvAlways, PTL

\* Every variable of the manager keeps its type, and the channel to a server its bound.
THEOREM ManagerTypeCorrect == ManagerSpec => []ManagerTypeOK
<1>1. ManagerInv => ManagerTypeOK
  BY DEF ManagerInv
<1> QED BY <1>1, ManagerInvAlways, PTL

-----------------------------------------------------------------------------
(* RaspServer.                                                             *)

\* A pair is its owner's.
Pairing == \A p \in Peers : pairs[p] # "none" => owner[pairs[p]] = p

\* Who is inside the table holds its lock; the dispatcher's pair cannot go meanwhile.
Locks ==
    /\ dispAt = "lock" => message \in Peers
    /\ dispAt = "send" => /\ pLock = "dispatch"
                          /\ message \in Peers /\ pairs[message] \in Conns
    /\ cleanAt = "sleep" => pLock = "clean"

\* Until the end of the server a ctrl is stopped only by the task that has ended.
Stopped == cleanAt # "ended" => \A c \in ctrlOff : conn[c] = "ended"

\* What the cleaner has chosen is still in the table, and has ended, unless it is fresh.
Chosen ==
    cleanAt = "remove" =>
        \A p \in doomed \ fresh : pairs[p] \in Conns /\ conn[pairs[p]] = "ended"

\* The inductive invariant.
ServerInv == ServerTypeOK /\ Pairing /\ Locks /\ Stopped /\ Chosen

LEMMA ServerInvInit == ServerInit => ServerInv
<1> SUFFICES ASSUME ServerInit PROVE ServerInv
  OBVIOUS
<1>1. serving \in BOOLEAN
  BY Zenon DEF ServerInit
<1> QED BY SMT, <1>1, ServerAssumption
        DEF ServerInit, ServerStart, ServerInv, ServerTypeOK, Pairing, Locks, Stopped, Chosen

\* The accept loop: a name is used again only when no pair has it.
LEMMA AcceptKeeps ==
  ASSUME ServerInv, NEW c \in Conns, NEW p \in Peers, Accept(c, p) PROVE ServerInv'
<1> USE ServerAssumption DEF ServerInv, ServerTypeOK, cleanVars, dispVars
<1>1. ServerTypeOK'
  BY SMT DEF Accept
<1>2. \A q \in Peers : pairs[q] # c
  BY DEF Accept, Pairing
<1>3. Pairing'
  BY <1>2 DEF Accept, Pairing
<1>4. Locks'
  BY DEF Accept, Locks
<1>5. Stopped'
  BY DEF Accept, Stopped
<1>6. Chosen'
  BY <1>2 DEF Accept, Chosen
<1> QED BY <1>1, <1>3, <1>4, <1>5, <1>6

LEMMA NewPairKeeps ==
  ASSUME ServerInv, NEW c \in Conns, NewPair(c) PROVE ServerInv'
<1> USE ServerAssumption DEF ServerInv, ServerTypeOK, dispVars
<1>1. ServerTypeOK'
  BY DEF NewPair
<1>2. Pairing'
  BY DEF NewPair, Pairing
<1>3. Locks'
  BY DEF NewPair, Locks
<1>4. Stopped'
  BY DEF NewPair, Stopped
<1>5. Chosen'
  BY DEF NewPair, Chosen, Pairing
<1> QED BY <1>1, <1>2, <1>3, <1>4, <1>5

\* The task of a connection.
LEMMA TaskKeeps ==
  ASSUME ServerInv, NEW c \in Conns, Task(c) \/ ProbeHangs(c) \/ ProbeLeaves(c)
  PROVE  ServerInv'
<1> USE ServerAssumption DEF ServerInv, ServerTypeOK, cleanVars, dispVars
<1>1. CASE TakeMessage(c)
  BY SMT, <1>1 DEF TakeMessage, Pairing, Locks, Stopped, Chosen
<1>2. CASE MessageSent(c)
  BY <1>2 DEF MessageSent, Pairing, Locks, Stopped, Chosen
<1>3. CASE ProbeHangs(c)
  BY <1>3 DEF ProbeHangs, Pairing, Locks, Stopped, Chosen
<1>4. CASE Ends(c)
  BY SMT, <1>4 DEF Ends, Pairing, Locks, Stopped, Chosen
<1> QED BY <1>1, <1>2, <1>3, <1>4 DEF Task, Replaced, ProbeLeaves

LEMMA DispatcherKeeps ==
  ASSUME ServerInv, Dispatcher \/ \E p \in Peers : AgentMessage(p) PROVE ServerInv'
<1> USE ServerAssumption DEF ServerInv, ServerTypeOK, connVars, cleanVars, dispVars
<1>1. ASSUME NEW p \in Peers, AgentMessage(p) PROVE ServerInv'
  <2>1. inbox' \in Seq(Peers) /\ Len(inbox') <= InboxCap
    BY SMT, <1>1 DEF AgentMessage
  <2> QED BY <1>1, <2>1 DEF AgentMessage, Pairing, Locks, Stopped, Chosen
<1>2. CASE DispatchReceive
  <2>1. inbox' \in Seq(Peers) /\ Len(inbox') <= InboxCap /\ message' \in Peers
    BY SMT, <1>2 DEF DispatchReceive
  <2> QED BY <1>2, <2>1 DEF DispatchReceive, Pairing, Locks, Stopped, Chosen
<1>3. CASE DispatchLock
  BY <1>3 DEF DispatchLock, Pairing, Locks, Stopped, Chosen
<1>4. CASE DispatchSend
  <2>1. box' \in [Conns -> 0..BoxCap]
    BY SMTT(20), <1>4 DEF DispatchSend, Locks
  <2>2. cleanAt # "sleep"
    BY <1>4 DEF DispatchSend, Locks
  <2> QED BY <1>4, <2>1, <2>2 DEF DispatchSend, Pairing, Locks, Stopped, Chosen
<1> QED BY <1>1, <1>2, <1>3, <1>4 DEF Dispatcher

LEMMA CleanerKeeps == ASSUME ServerInv, Cleaner \/ ServerStops PROVE ServerInv'
<1> USE ServerAssumption DEF ServerInv, ServerTypeOK, connVars, cleanVars, dispVars
<1>1. CASE CleanScan
  BY <1>1 DEF CleanScan, Pairing, Locks, Stopped, Chosen
<1>2. CASE CleanRemove
  BY <1>2 DEF CleanRemove, Pairing, Locks, Stopped, Chosen
<1>3. CASE CleanWakes
  BY <1>3 DEF CleanWakes, Pairing, Locks, Stopped, Chosen
<1>4. CASE CleanStops
  BY <1>4 DEF CleanStops, Pairing, Locks, Stopped, Chosen
<1>5. CASE ServerStops
  <2>1. serving' \in BOOLEAN
    BY <1>5, Zenon DEF ServerStops
  <2> QED BY <1>5, <2>1 DEF ServerStops, Pairing, Locks, Stopped, Chosen
<1> QED BY <1>1, <1>2, <1>3, <1>4, <1>5 DEF Cleaner

LEMMA ServerInvNext == ServerInv /\ [ServerNext]_serverVars => ServerInv'
<1> SUFFICES ASSUME ServerInv, [ServerNext]_serverVars PROVE ServerInv'
  OBVIOUS
<1>1. CASE UNCHANGED serverVars
  BY <1>1 DEF serverVars, connVars, cleanVars, dispVars,
              ServerInv, ServerTypeOK, Pairing, Locks, Stopped, Chosen
<1> QED BY <1>1, AcceptKeeps, NewPairKeeps, TaskKeeps, DispatcherKeeps, CleanerKeeps
        DEF ServerNext, EnterPair

LEMMA ServerInvAlways == ServerSpec => []ServerInv
  BY ServerInvInit, ServerInvNext, PTL DEF ServerSpec

\* Between the two looks the cleaner takes at the table, nothing but a new connection of
\* the same pid puts a living connection under the pids it removes.
THEOREM LiveIsKept == ServerSpec => []LiveKept
<1>1. ServerInv => LiveKept
  BY DEF ServerInv, Chosen, LiveKept
<1> QED BY <1>1, ServerInvAlways, PTL

\* Every variable of the server keeps its type, and its channels their bounds.
THEOREM ServerTypeCorrect == ServerSpec => []ServerTypeOK
<1>1. ServerInv => ServerTypeOK
  BY DEF ServerInv
<1> QED BY <1>1, ServerInvAlways, PTL

-----------------------------------------------------------------------------
(* RaspMonitor.                                                            *)

\* A channel takes a message, or gives one.
LEMMA ChannelTakes ==
    ASSUME NEW S, NEW q \in Seq(S), NEW x \in S, NEW n \in Nat, Len(q) < n
    PROVE  Append(q, x) \in Seq(S) /\ Len(Append(q, x)) <= n
  BY SMT

LEMMA ChannelGives ==
    ASSUME NEW S, NEW q \in Seq(S), q # <<>>, NEW n \in Nat, Len(q) <= n
    PROVE  Tail(q) \in Seq(S) /\ Len(Tail(q)) <= n /\ Head(q) \in S
  BY SMT

\* Only the thread that goes moves.
LEMMA Gone ==
    ASSUME MonitorTypeOK, NEW t \in Threads, NEW pc \in Places, Go(t, pc)
    PROVE  /\ at' \in [Threads -> Places] /\ at'[t] = pc
           /\ \A u \in Threads : u # t => at'[u] = at[u]
  BY DEF MonitorTypeOK, Go

LEMMA MonitorNames ==
    /\ Threads = {"pid_recv", "inspect", "reporter", "cleaner", "operation"}
    /\ "pid_recv" # "inspect" /\ "pid_recv" # "reporter" /\ "pid_recv" # "cleaner"
    /\ "pid_recv" # "operation" /\ "inspect" # "reporter" /\ "inspect" # "cleaner"
    /\ "inspect" # "operation" /\ "reporter" # "cleaner" /\ "reporter" # "operation"
    /\ "cleaner" # "operation"
  BY DEF Threads

\* The capacities, and that a command may be dropped.
LEMMA CommandSent ==
    ASSUME MonitorTypeOK, NEW c \in Commands, SendCommand(c)
    PROVE  ext' \in Seq(Commands) /\ Len(ext') <= ExtCap
<1>1. ExtCap \in Nat
  BY MonitorAssumption
<1>2. ext \in Seq(Commands) /\ Len(ext) <= ExtCap
  BY DEF MonitorTypeOK
<1>3. CASE Len(ext) < ExtCap /\ ext' = Append(ext, c)
  BY <1>1, <1>2, <1>3, ChannelTakes
<1>4. CASE UNCHANGED ext
  BY <1>2, <1>4
<1>. QED
  BY <1>3, <1>4 DEF SendCommand

LEMMA ReportSent ==
    ASSUME MonitorTypeOK, SendReport
    PROVE  ints' \in 0..IntCap
  BY SMT, MonitorAssumption DEF SendReport, MonitorTypeOK

-----------------------------------------------------------------------------
\* Where the threads start the types hold, whatever the flags.
LEMMA MonitorStartTyped ==
    ASSUME MonitorStart, agentUp \in BOOLEAN, running \in BOOLEAN, failed \in BOOLEAN
    PROVE  MonitorTypeOK
<1>1. /\ <<>> \in Seq(Pids) /\ <<>> \in Seq(Commands) /\ 0 \in 0..IntCap
      /\ Len(<<>>) <= PidCap /\ Len(<<>>) <= ExtCap
  BY SMT, MonitorAssumption
<1>2. 0 \in 0..Cardinality(Pids)
  <2>1. Cardinality(Pids) \in Nat
    BY MonitorAssumption, FS_CardinalityType
  <2>. QED
    BY SMT, <2>1
<1>3. at \in [Threads -> Places] /\ \A t \in Threads : at[t] = "loop"
  BY DEF MonitorStart, Places
<1>. QED
  BY <1>1, <1>2, <1>3 DEF MonitorStart, MonitorTypeOK, Threads

LEMMA MonitorStarts == MonitorInit => MonitorTypeOK
  BY MonitorStartTyped DEF MonitorInit

LEMMA WorldKeeps ==
    ASSUME MonitorTypeOK,
           \/ \E p \in Pids : ProcessStarts(p) \/ ProcessExits(p)
           \/ AgentLeaves \/ Collect \/ ExternalEnds
    PROVE  MonitorTypeOK'
<1>1. CASE \E p \in Pids : ProcessStarts(p) \/ ProcessExits(p)
  <2>1. exists' \subseteq Pids
    BY <1>1 DEF ProcessStarts, ProcessExits, MonitorTypeOK
  <2>2. UNCHANGED <<agentUp, failed, running, pidVars, tableVars, ext, handVars, ints, at>>
    BY <1>1 DEF ProcessStarts, ProcessExits
  <2>. QED
    BY <2>1, <2>2 DEF MonitorTypeOK, pidVars, tableVars, handVars
<1>2. CASE AgentLeaves
  BY <1>2 DEF AgentLeaves, MonitorTypeOK, pidVars, tableVars, handVars
<1>3. CASE Collect
  <2>1. 0 \in 0..IntCap
    BY SMT, MonitorAssumption
  <2>. QED
    BY <1>3, <2>1 DEF Collect, MonitorTypeOK, worldVars, pidVars, tableVars, handVars
<1>4. CASE ExternalEnds
  BY <1>4 DEF ExternalEnds, MonitorTypeOK, worldVars, pidVars, tableVars, handVars
<1>. QED
  BY <1>1, <1>2, <1>3, <1>4

LEMMA CommandKeeps == ASSUME MonitorTypeOK, Command PROVE MonitorTypeOK'
<1>1. PICK p \in Pids : ext' = Append(ext, <<"WAIT_ATTACH", p>>)
  BY DEF Command
<1>2. <<"WAIT_ATTACH", p>> \in Commands /\ ExtCap \in Nat
  BY MonitorAssumption DEF Commands
<1>3. ext' \in Seq(Commands) /\ Len(ext') <= ExtCap
  BY <1>1, <1>2, ChannelTakes DEF Command, MonitorTypeOK
<1>. QED
  BY <1>3 DEF Command, MonitorTypeOK, worldVars, pidVars, tableVars, handVars

LEMMA PidRecvKeeps == ASSUME MonitorTypeOK, PollPid \/ PidSend PROVE MonitorTypeOK'
<1>1. CASE PollPid
  <2>1. /\ at' \in [Threads -> Places] /\ at'["pid_recv"] = IF found' = {} THEN "loop" ELSE "send"
        /\ \A u \in Threads : u # "pid_recv" => at'[u] = at[u]
    BY <1>1, Gone, MonitorNames DEF PollPid, Places
  <2>. QED
    BY <1>1, <2>1, MonitorNames DEF PollPid, MonitorTypeOK, worldVars, tableVars, handVars
<1>2. CASE PidSend
  <2>1. /\ at' \in [Threads -> Places] /\ at'["pid_recv"] = IF found' = {} THEN "loop" ELSE "send"
        /\ \A u \in Threads : u # "pid_recv" => at'[u] = at[u]
    BY <1>2, Gone, MonitorNames DEF PidSend, Places
  <2>2. PICK p \in found : pids' = Append(pids, p) /\ found' = found \ {p}
    BY <1>2 DEF PidSend
  <2>3. p \in Pids /\ PidCap \in Nat
    BY MonitorAssumption DEF MonitorTypeOK
  <2>4. pids' \in Seq(Pids) /\ Len(pids') <= PidCap
    BY <1>2, <2>2, <2>3, ChannelTakes DEF PidSend, MonitorTypeOK
  <2>. QED
    BY <1>2, <2>1, <2>2, <2>4, MonitorNames DEF PidSend, MonitorTypeOK, worldVars, tableVars, handVars
<1>. QED
  BY <1>1, <1>2

LEMMA InspectKeeps ==
    ASSUME MonitorTypeOK, InspectPid \/ InspectAuto \/ InspectLock \/ InspectReport
    PROVE  MonitorTypeOK'
<1>1. CASE InspectPid
  <2>1. pids \in Seq(Pids) /\ pids # <<>> /\ Len(pids) <= PidCap /\ PidCap \in Nat
    BY <1>1, MonitorAssumption DEF InspectPid, MonitorTypeOK
  <2>2. pids' \in Seq(Pids) /\ Len(pids') <= PidCap /\ Head(pids) \in Pids
    BY <1>1, <2>1, ChannelGives DEF InspectPid
  <2>3. CASE UNCHANGED <<subject, at>>
    BY <1>1, <2>2, <2>3 DEF InspectPid, MonitorTypeOK, worldVars, handVars
  <2>4. CASE subject' = Head(pids) /\ \E pc \in {"auto", "lock"} : Go("inspect", pc)
    <3>1. PICK pc \in {"auto", "lock"} : Go("inspect", pc)
      BY <2>4
    <3>2. /\ at' \in [Threads -> Places] /\ at'["inspect"] = pc
          /\ \A u \in Threads : u # "inspect" => at'[u] = at[u]
      BY <3>1, Gone, MonitorNames DEF Places
    <3>. QED
      BY <1>1, <2>2, <2>4, <3>2, MonitorNames DEF InspectPid, MonitorTypeOK, worldVars, handVars
  <2>. QED
    BY <1>1, <2>3, <2>4 DEF InspectPid
<1>2. CASE InspectAuto
  <2>1. /\ at' \in [Threads -> Places] /\ at'["inspect"] = "lock"
        /\ \A u \in Threads : u # "inspect" => at'[u] = at[u]
    BY <1>2, Gone, MonitorNames DEF InspectAuto, Places
  <2>2. <<"WAIT_ATTACH", subject>> \in Commands
    BY <1>2 DEF InspectAuto, MonitorTypeOK, Commands
  <2>3. ext' \in Seq(Commands) /\ Len(ext') <= ExtCap
    BY <1>2, <2>2, CommandSent DEF InspectAuto
  <2>. QED
    BY <1>2, <2>1, <2>3, MonitorNames DEF InspectAuto, MonitorTypeOK, worldVars, pidVars, tableVars, handVars
<1>3. CASE InspectLock
  <2>1. /\ at' \in [Threads -> Places] /\ at'["inspect"] = "report"
        /\ \A u \in Threads : u # "inspect" => at'[u] = at[u]
    BY <1>3, Gone, MonitorNames DEF InspectLock, Places
  <2>. QED
    BY <1>3, <2>1, MonitorNames DEF InspectLock, MonitorTypeOK, worldVars, pidVars, handVars
<1>4. CASE InspectReport
  <2>1. /\ at' \in [Threads -> Places] /\ at'["inspect"] = "loop"
        /\ \A u \in Threads : u # "inspect" => at'[u] = at[u]
    BY <1>4, Gone, MonitorNames DEF InspectReport, Places
  <2>2. ints' \in 0..IntCap
    BY <1>4, ReportSent DEF InspectReport
  <2>3. table' \in [Pids -> {"NONE", "INSPECTED", "ATTACHED"}]
    BY <1>4 DEF InspectReport, MonitorTypeOK
  <2>. QED
    BY <1>4, <2>1, <2>2, <2>3, MonitorNames DEF InspectReport, MonitorTypeOK, worldVars, pidVars, handVars
<1>. QED
  BY <1>1, <1>2, <1>3, <1>4

LEMMA CleanThreadKeeps == ASSUME MonitorTypeOK, Clean \/ CleanSend PROVE MonitorTypeOK'
<1>1. /\ at' \in [Threads -> Places] /\ at'["cleaner"] = IF missing' = {} THEN "loop" ELSE "send"
      /\ \A u \in Threads : u # "cleaner" => at'[u] = at[u]
  BY Gone, MonitorNames DEF Clean, CleanSend, Places
<1>2. CASE Clean
  BY <1>1, <1>2, MonitorNames DEF Clean, MonitorTypeOK, worldVars, pidVars, tableVars
<1>3. CASE CleanSend
  <2>1. PICK p \in missing : SendCommand(<<"MISSING", p>>) /\ missing' = missing \ {p}
    BY <1>3 DEF CleanSend
  <2>2. <<"MISSING", p>> \in Commands
    BY DEF MonitorTypeOK, Commands
  <2>3. ext' \in Seq(Commands) /\ Len(ext') <= ExtCap
    BY <2>1, <2>2, CommandSent
  <2>. QED
    BY <1>1, <1>3, <2>1, <2>3, MonitorNames DEF CleanSend, MonitorTypeOK, worldVars, pidVars, tableVars
<1>. QED
  BY <1>2, <1>3

LEMMA ReporterKeeps == ASSUME MonitorTypeOK, Heartbeats \/ HeartbeatSend PROVE MonitorTypeOK'
<1>1. /\ at' \in [Threads -> Places] /\ at'["reporter"] = IF beats' = 0 THEN "loop" ELSE "send"
      /\ \A u \in Threads : u # "reporter" => at'[u] = at[u]
  BY Gone, MonitorNames DEF Heartbeats, HeartbeatSend, Places
<1>2. CASE Heartbeats
  <2>1. IsFiniteSet(Pids) /\ {p \in Pids : table[p] # "NONE"} \in SUBSET Pids
    BY MonitorAssumption
  <2>2. /\ Cardinality(Pids) \in Nat /\ Cardinality({p \in Pids : table[p] # "NONE"}) \in Nat
        /\ Cardinality({p \in Pids : table[p] # "NONE"}) <= Cardinality(Pids)
    BY <2>1, FS_Subset, FS_CardinalityType
  <2>3. beats' \in 0..Cardinality(Pids)
    BY SMT, <1>2, <2>2 DEF Heartbeats
  <2>. QED
    BY <1>1, <1>2, <2>3, MonitorNames DEF Heartbeats, MonitorTypeOK, worldVars, pidVars, tableVars
<1>3. CASE HeartbeatSend
  <2>1. ints' \in 0..IntCap
    BY <1>3, ReportSent DEF HeartbeatSend
  <2>2. beats # 0 /\ Cardinality(Pids) \in Nat
    BY <1>3, MonitorAssumption, FS_CardinalityType DEF HeartbeatSend, MonitorTypeOK
  <2>3. beats' \in 0..Cardinality(Pids)
    BY SMT, <1>3, <2>2 DEF HeartbeatSend, MonitorTypeOK
  <2>. QED
    BY <1>1, <1>3, <2>1, <2>3, MonitorNames DEF HeartbeatSend, MonitorTypeOK, worldVars, pidVars, tableVars
<1>. QED
  BY <1>2, <1>3

LEMMA OperationKeeps ==
    ASSUME MonitorTypeOK, Operate \/ OperateReport \/ OperateUpdate
    PROVE  MonitorTypeOK'
<1>1. CASE Operate
  <2>1. ext \in Seq(Commands) /\ ext # <<>> /\ Len(ext) <= ExtCap /\ ExtCap \in Nat
    BY <1>1, MonitorAssumption DEF Operate, MonitorTypeOK
  <2>2. ext' \in Seq(Commands) /\ Len(ext') <= ExtCap /\ Head(ext) \in Commands
    BY <1>1, <2>1, ChannelGives DEF Operate
  <2>3. CASE UNCHANGED <<job, at>>
    BY <1>1, <2>2, <2>3 DEF Operate, MonitorTypeOK, worldVars, pidVars, tableVars
  <2>4. CASE job' = Head(ext) /\ Go("operation", "report")
    <3>1. /\ at' \in [Threads -> Places] /\ at'["operation"] = "report"
          /\ \A u \in Threads : u # "operation" => at'[u] = at[u]
      BY <2>4, Gone, MonitorNames DEF Places
    <3>. QED
      BY <1>1, <2>2, <2>4, <3>1, MonitorNames DEF Operate, MonitorTypeOK, worldVars, pidVars, tableVars
  <2>. QED
    BY <1>1, <2>3, <2>4 DEF Operate
<1>2. CASE OperateReport
  <2>1. ints' \in 0..IntCap /\ job \in Commands
    BY <1>2, ReportSent DEF OperateReport, MonitorTypeOK
  <2>2. PICK pc \in {"update", "loop"} : /\ Go("operation", pc)
                                         /\ job' = IF pc = "loop" THEN NoJob ELSE job
    BY <1>2 DEF OperateReport
  <2>3. /\ at' \in [Threads -> Places] /\ at'["operation"] = pc
        /\ \A u \in Threads : u # "operation" => at'[u] = at[u]
    BY <2>2, Gone, MonitorNames DEF Places
  <2>. QED
    BY <1>2, <2>1, <2>2, <2>3, MonitorNames DEF OperateReport, MonitorTypeOK, worldVars, pidVars, tableVars
<1>3. CASE OperateUpdate
  <2>1. /\ at' \in [Threads -> Places] /\ at'["operation"] = "loop"
        /\ \A u \in Threads : u # "operation" => at'[u] = at[u]
    BY <1>3, Gone, MonitorNames DEF OperateUpdate, Places
  <2>2. table' \in [Pids -> {"NONE", "INSPECTED", "ATTACHED"}]
    BY <1>3 DEF OperateUpdate, MonitorTypeOK
  <2>. QED
    BY <1>3, <2>1, <2>2, MonitorNames DEF OperateUpdate, MonitorTypeOK, worldVars, pidVars
<1>. QED
  BY <1>1, <1>2, <1>3

LEMMA MonitorSteps == MonitorTypeOK /\ [MonitorNext]_monitorVars => MonitorTypeOK'
<1>. SUFFICES ASSUME MonitorTypeOK, [MonitorNext]_monitorVars PROVE MonitorTypeOK'
  OBVIOUS
<1>1. CASE UNCHANGED monitorVars
  BY <1>1 DEF monitorVars, worldVars, pidVars, tableVars, handVars, MonitorTypeOK
<1>. QED
  BY <1>1, WorldKeeps, CommandKeeps, PidRecvKeeps, InspectKeeps, CleanThreadKeeps, ReporterKeeps,
     OperationKeeps DEF MonitorNext, External, PidRecv, Inspect, CleanThread, Reporter, Operation

\* For any pids and capacities, the channels of the RASP plugin keep to their
\* capacities, its table is locked only while inspect reports, and a command is
\* always one for a process (monitor.rs).
THEOREM MonitorTypeCorrect == MonitorSpec => []MonitorTypeOK
  BY MonitorStarts, MonitorSteps, PTL DEF MonitorSpec

-----------------------------------------------------------------------------
(* The three together, as MCRasp has them.                                 *)

RaspInv == MonitorTypeOK /\ ServerInv /\ ManagerInv

\* What a part that is off holds is within the invariant of the part.
LEMMA OffTyped ==
    /\ MonitorOff => MonitorTypeOK
    /\ ServerOff => ServerInv
    /\ ManagerOff => ManagerInv
<1>1. ASSUME MonitorOff PROVE MonitorTypeOK
  BY <1>1, MonitorStartTyped DEF MonitorOff
<1>2. ASSUME ServerOff PROVE ServerInv
  <2>1. serving \in BOOLEAN
    BY <1>2 DEF ServerOff
  <2>. QED
    BY SMT, <1>2, <2>1, ServerAssumption
    DEF ServerOff, ServerStart, ServerInv, ServerTypeOK, Pairing, Locks, Stopped, Chosen
<1>3. ASSUME ManagerOff PROVE ManagerInv
  <2>1. alive \in BOOLEAN /\ mode = "thread"
    BY <1>3 DEF ManagerOff
  <2>2. (CHOOSE n \in Namespaces : TRUE) \in Namespaces
    BY ManagerAssumption
  <2>3. mntNs \in [Procs -> Namespaces]
    BY <1>3, <2>2 DEF ManagerOff
  <2>4. mails \in [Namespaces -> 0..QueueCap]
    BY SMT, <1>3, ManagerAssumption DEF ManagerOff, ManagerStart
  <2>. QED
    BY <1>3, <2>1, <2>3, <2>4 DEF ManagerOff, ManagerStart, ManagerInv, ManagerTypeOK, TracerAgrees
<1>. QED
  BY <1>1, <1>2, <1>3

LEMMA RaspStarts == RaspInit => RaspInv
  BY MonitorStarts, ServerInvInit, ManagerInvInit, OffTyped DEF RaspInit, RaspInv

LEMMA RaspSteps == RaspInv /\ [RaspNext]_raspVars => RaspInv'
<1>. SUFFICES ASSUME RaspInv, [RaspNext]_raspVars PROVE RaspInv'
  OBVIOUS
<1>1. [MonitorNext]_monitorVars /\ [ServerNext]_serverVars /\ [ManagerNext]_managerVars
  BY DEF RaspNext, raspVars
<1>. QED
  BY <1>1, MonitorSteps, ServerInvNext, ManagerInvNext DEF RaspInv

\* Whichever part of the RASP plugin runs, every variable of all three keeps its
\* type and every channel its capacity.
THEOREM RaspTypeCorrect == RaspSpec => []RaspTypeOK
<1>1. RaspInv => RaspTypeOK
  BY DEF RaspInv, ServerInv, ManagerInv, RaspTypeOK
<1>. QED
  BY <1>1, RaspStarts, RaspSteps, PTL DEF RaspSpec
=============================================================================
