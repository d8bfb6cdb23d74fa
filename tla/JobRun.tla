------------------------------- MODULE JobRun -------------------------------
(***************************************************************************)
(* One distributed job of the managers (server/manager/distribute/job).    *)
(* The manager that creates the job tells the others; each of them         *)
(* subscribes to a Redis channel of its own and runs ConNum workers.  The  *)
(* creator publishes the items of the job to these channels and then one   *)
(* FINISH per worker.                                                      *)
(*                                                                         *)
(* An item is the JSON text of a JobArgs; to do it is one HTTP request,    *)
(* of which only success matters.  Channels keep the order of what is      *)
(* published.                                                              *)
(***************************************************************************)
EXTENDS Integers, Sequences

CONSTANTS
    Managers,
    Creator,     \* the manager that creates the job
    Items,       \* number of items Dis returns
    ConNum,      \* workers of each manager
    RetriesMax,  \* retriesMax, 10 in the code
    MaxStops     \* bound: Stop requests

ASSUME JobAssumption ==
    /\ Creator \in Managers
    /\ {Items, ConNum, RetriesMax, MaxStops} \subseteq Nat
    /\ RetriesMax > 0

FINISH == 0
Off == -1
Select == -2
End == -3
Workers == 1..ConNum

VARIABLES
    creator,  \* the goroutine that creates, distributes and finishes the job:
              \* pc, the item it is at, where that goes, retries, hosts to finish
    sync,     \* TransInfos on their way: <<action, manager>>
    run,      \* manager -> Run
    runner,   \* manager -> runningMap and the goroutine that inform starts
    done,     \* manager -> Done is closed
    chan,     \* manager -> what its subscription holds: items and FINISH
    worker,   \* manager -> worker -> Off, Select, End or the item it does
    failures, \* manager -> worker -> retryList
    retry,    \* JobRetry
    sent,     \* history: manager -> items Publish answered 1 for
    cut,      \* history: manager -> messages were lost or a worker left early
    ok,       \* history: items of successful requests
    stops     \* Stop requests so far

jobVars == <<run, runner, done, chan, worker, failures>>
jobRunVars == <<creator, sync, jobVars, retry, sent, cut, ok, stops>>

Running(h) == runner[h] = "listed"

\* Nothing is expected of what is sent to manager h.
Cut(h) == cut' = [cut EXCEPT ![h] = TRUE] /\ sent' = [sent EXCEPT ![h] = {}]

JobInit ==
    /\ creator = [pc |-> "new", item |-> 1, to |-> Creator, retries |-> 0, hosts |-> {}]
    /\ sync = {}
    /\ run = [h \in Managers |-> "none"]
    /\ runner = [h \in Managers |-> "none"]
    /\ done = [h \in Managers |-> FALSE]
    /\ chan = [h \in Managers |-> <<>>]
    /\ worker = [h \in Managers |-> [w \in Workers |-> Off]]
    /\ failures = [h \in Managers |-> [w \in Workers |-> {}]]
    /\ retry = {}
    /\ sent = [h \in Managers |-> {}]
    /\ cut = [h \in Managers |-> FALSE]
    /\ ok = {}
    /\ stops = 0

-----------------------------------------------------------------------------
(* jobManager: inform, syncSend, syncRecv, stopJob.                        *)

\* NewApiJob and inform, up to the start of Run.
Inform(h) ==
    /\ run' = [run EXCEPT ![h] = "start"]
    /\ runner' = [runner EXCEPT ![h] = "inform"]

\* The rest of inform: the runner is listed and monitored.
Listed(h) ==
    /\ runner[h] = "inform"
    /\ runner' = [runner EXCEPT ![h] = "listed"]
    /\ UNCHANGED <<creator, sync, run, done, chan, worker, failures, retry, sent, cut, ok, stops>>

\* <-r.over: the runner is deleted from runningMap, and the job with it.
Monitor(h) ==
    /\ runner[h] = "listed" /\ run[h] = "over"
    /\ runner' = [runner EXCEPT ![h] = "deleted"]
    /\ done' = [done EXCEPT ![h] = FALSE]
    /\ UNCHANGED <<creator, sync, run, chan, worker, failures, retry, sent, cut, ok, stops>>

\* syncSend reaches some of the others, at once or after its time limit.
syncSend(action, from) ==
    \E to \in SUBSET (Managers \ {from}) :
        sync' = sync \cup {<<action, h>> : h \in to}

\* newJob.
newJob ==
    /\ creator.pc = "new"
    /\ Inform(Creator)
    /\ syncSend("new", Creator)
    /\ creator' = [creator EXCEPT !.pc = "listing"]
    /\ UNCHANGED <<done, chan, worker, failures, retry, sent, cut, ok, stops>>

\* syncRecv of a new job.
RecvNew(h) ==
    /\ <<"new", h>> \in sync
    /\ sync' = sync \ {<<"new", h>>}
    /\ Inform(h)
    /\ UNCHANGED <<creator, done, chan, worker, failures, retry, sent, cut, ok, stops>>

\* runner.job.Stop: closing Done twice is a panic of the handler.
Close(h) == done' = [done EXCEPT ![h] = @ \/ Running(h)]

\* stopJob.  After a panic nobody else is told, as when syncSend reaches none.
StopJob(h) ==
    /\ stops < MaxStops /\ creator.pc # "new"
    /\ h = Creator => creator.pc # "dead"
    /\ stops' = stops + 1
    /\ Close(h)
    /\ syncSend("stop", h)
    /\ UNCHANGED <<creator, run, runner, chan, worker, failures, retry, sent, cut, ok>>

\* syncRecv of a stop.
RecvStop(h) ==
    /\ <<"stop", h>> \in sync
    /\ sync' = sync \ {<<"stop", h>>}
    /\ Close(h)
    /\ UNCHANGED <<creator, run, runner, chan, worker, failures, retry, sent, cut, ok, stops>>

-----------------------------------------------------------------------------
(* SimpleJob.Distribute and Finish, in the goroutine of the creator.       *)

\* jm.distribute finds the runner, and Dis the items; otherwise nothing is
\* distributed.
Distribute ==
    /\ creator.pc = "listing" /\ runner[Creator] # "inform"
    /\ \E l \in (IF Running(Creator) THEN {"item", "finish"} ELSE {"finish"}) :
         creator' = [creator EXCEPT !.pc = l]
    /\ UNCHANGED <<sync, jobVars, retry, sent, cut, ok, stops>>

\* hosts[i%len(hosts)]: any manager that the service discovery lists.
PickHost(h) ==
    /\ creator.pc = "item" /\ creator.item <= Items
    /\ creator' = [creator EXCEPT !.pc = "publish", !.to = h, !.retries = 0]
    /\ UNCHANGED <<sync, jobVars, retry, sent, cut, ok, stops>>

\* The service discovery does not answer: i%len(hosts) divides by zero, and
\* the manager dies.
Panic ==
    /\ creator.pc = "item" /\ creator.item <= Items
    /\ creator' = [creator EXCEPT !.pc = "dead", !.item = Items + 1]
    /\ run' = [run EXCEPT ![Creator] = "over"]
    /\ runner' = [runner EXCEPT ![Creator] = "deleted"]
    /\ worker' = [worker EXCEPT ![Creator] = [w \in Workers |-> End]]
    /\ chan' = [chan EXCEPT ![Creator] = <<>>]
    /\ failures' = [failures EXCEPT ![Creator] = [w \in Workers |-> {}]]
    /\ Cut(Creator)
    /\ UNCHANGED <<sync, done, retry, ok, stops>>

NextItem == [creator EXCEPT !.pc = "item", !.item = @ + 1, !.to = Creator, !.retries = 0]

\* Publish answers 1: the manager has subscribed.
Publish ==
    /\ creator.pc = "publish" /\ run[creator.to] = "work"
    /\ chan' = [chan EXCEPT ![creator.to] = Append(@, creator.item)]
    /\ sent' = IF cut[creator.to] THEN sent
               ELSE [sent EXCEPT ![creator.to] = @ \cup {creator.item}]
    /\ creator' = NextItem
    /\ UNCHANGED <<sync, run, runner, done, worker, failures, retry, cut, ok, stops>>

\* Publish answers 0, or not at all although the item may have arrived: wait
\* half a second and try again.
PublishError ==
    /\ creator.pc = "publish"
    /\ \/ UNCHANGED chan
       \/ run[creator.to] = "work" /\ chan' = [chan EXCEPT ![creator.to] = Append(@, creator.item)]
    /\ creator' = IF creator.retries + 1 < RetriesMax
                  THEN [creator EXCEPT !.retries = @ + 1] ELSE NextItem
    /\ UNCHANGED <<sync, run, runner, done, worker, failures, retry, sent, cut, ok, stops>>

\* jm.finish finds the runner, and the service discovery lists some managers.
FinishJob ==
    /\ \/ creator.pc = "item" /\ creator.item > Items
       \/ creator.pc = "finish"
    /\ \E hosts \in SUBSET Managers :
         creator' = [creator EXCEPT !.pc = "finishing", !.hosts = IF Running(Creator) THEN hosts ELSE {}]
    /\ UNCHANGED <<sync, jobVars, retry, sent, cut, ok, stops>>

\* ConNum times FINISH to one manager; any of them may get lost (Lose).
FinishHost(h) ==
    /\ creator.pc = "finishing" /\ h \in creator.hosts
    /\ chan' = IF run[h] = "work"
               THEN [chan EXCEPT ![h] = @ \o [i \in 1..ConNum |-> FINISH]] ELSE chan
    /\ creator' = [creator EXCEPT !.hosts = @ \ {h}]
    /\ UNCHANGED <<sync, run, runner, done, worker, failures, retry, sent, cut, ok, stops>>

\* The goroutine of the creator, or its request handler, is at its end.
Finished ==
    /\ creator.pc = "finishing" /\ creator.hosts = {}
    /\ creator' = [creator EXCEPT !.pc = "end"]
    /\ UNCHANGED <<sync, jobVars, retry, sent, cut, ok, stops>>

-----------------------------------------------------------------------------
(* SimpleJob.Run.                                                          *)

\* Subscribe, and start the workers.
Subscribe(h) ==
    /\ run[h] = "start"
    /\ run' = [run EXCEPT ![h] = "work"]
    /\ worker' = [worker EXCEPT ![h] = [w \in Workers |-> Select]]
    /\ UNCHANGED <<creator, sync, runner, done, chan, failures, retry, sent, cut, ok, stops>>

SubscribeError(h) ==
    /\ run[h] = "start"
    /\ run' = [run EXCEPT ![h] = "over"]
    /\ UNCHANGED <<creator, sync, runner, done, chan, worker, failures, retry, sent, cut, ok, stops>>

\* The worker's deferred function: the failures go to Redis.  So do the results
\* of the creator's workers; nothing here depends on them.
WorkerReturns(h, w) ==
    /\ worker' = [worker EXCEPT ![h][w] = End]
    /\ retry' = retry \cup failures[h][w]
    /\ failures' = [failures EXCEPT ![h][w] = {}]

Receive(h, w) ==
    /\ worker[h][w] = Select /\ chan[h] # <<>>
    /\ chan' = [chan EXCEPT ![h] = Tail(@)]

TakeItem(h, w) ==
    /\ Receive(h, w) /\ Head(chan[h]) # FINISH
    /\ worker' = [worker EXCEPT ![h][w] = Head(chan[h])]
    /\ UNCHANGED <<creator, sync, run, runner, done, failures, retry, sent, cut, ok, stops>>

TakeFinish(h, w) ==
    /\ Receive(h, w) /\ Head(chan[h]) = FINISH
    /\ WorkerReturns(h, w)
    /\ UNCHANGED <<creator, sync, run, runner, done, sent, cut, ok, stops>>

\* Do and Rlt.
Do(h, w) ==
    /\ worker[h][w] \in 1..Items
    /\ worker' = [worker EXCEPT ![h][w] = Select]
    /\ \/ ok' = ok \cup {worker[h][w]} /\ UNCHANGED failures
       \/ failures' = [failures EXCEPT ![h][w] = @ \cup {worker[h][w]}] /\ UNCHANGED ok
    /\ UNCHANGED <<creator, sync, run, runner, done, chan, retry, sent, cut, stops>>

\* Fault: workers have no timer.
NoTimeOut(h, w) == FALSE /\ UNCHANGED jobRunVars

\* The timer fires, or Done is closed.
TimeOut(h, w) ==
    /\ worker[h][w] = Select
    /\ WorkerReturns(h, w)
    /\ Cut(h)
    /\ UNCHANGED <<creator, sync, run, runner, done, chan, ok, stops>>

SelectDone(h, w) ==
    /\ worker[h][w] = Select /\ done[h]
    /\ WorkerReturns(h, w)
    /\ Cut(h)
    /\ UNCHANGED <<creator, sync, run, runner, done, chan, ok, stops>>

\* Fault: Run waits for one worker only.
RunOverEarly(h) ==
    /\ run[h] = "work" /\ \E w \in Workers : worker[h][w] = End
    /\ run' = [run EXCEPT ![h] = "over"]
    /\ chan' = [chan EXCEPT ![h] = <<>>]
    /\ UNCHANGED <<creator, sync, runner, done, worker, failures, retry, sent, cut, ok, stops>>

\* wg.Wait returns; the subscription and over are closed.
RunOver(h) ==
    /\ run[h] = "work" /\ \A w \in Workers : worker[h][w] = End
    /\ run' = [run EXCEPT ![h] = "over"]
    /\ chan' = [chan EXCEPT ![h] = <<>>]
    /\ UNCHANGED <<creator, sync, runner, done, worker, failures, retry, sent, cut, ok, stops>>

\* A message does not arrive: Publish fails, the subscriber reconnects, or its
\* client drops what it cannot hand over.
Lose(h) ==
    /\ \E i \in DOMAIN chan[h] :
         chan' = [chan EXCEPT ![h] = SubSeq(@, 1, i - 1) \o SubSeq(@, i + 1, Len(@))]
    /\ Cut(h)
    /\ UNCHANGED <<creator, sync, run, runner, done, worker, failures, retry, ok, stops>>

-----------------------------------------------------------------------------
CreatorNext ==
    \/ newJob \/ Distribute \/ Publish \/ PublishError \/ Panic \/ FinishJob \/ Finished
    \/ \E h \in Managers : PickHost(h) \/ FinishHost(h)

Worker(h, w) ==
    TakeItem(h, w) \/ TakeFinish(h, w) \/ Do(h, w) \/ TimeOut(h, w) \/ SelectDone(h, w)

Run(h) == Subscribe(h) \/ SubscribeError(h) \/ RunOver(h)

\* The goroutines of the job at one manager.
Goroutines(h) ==
    \/ Listed(h) \/ Monitor(h) \/ Run(h)
    \/ \E w \in Workers : Worker(h, w)

JobNext ==
    \/ CreatorNext
    \/ \E h \in Managers :
         Goroutines(h) \/ RecvNew(h) \/ RecvStop(h) \/ StopJob(h) \/ Lose(h)

JobSpec == JobInit /\ [][JobNext]_jobRunVars

\* Every manager goes on while one of its goroutines can: Redis answers or
\* fails, and requests and timers have time limits.  The creator's goroutine
\* may hang, and messages may stay on their way, for ever.
JobFairSpec == JobSpec /\ \A h \in Managers : WF_jobRunVars(Goroutines(h))

-----------------------------------------------------------------------------
\* An item that Distribute counts in distribute_ok_count is not dropped by the
\* end of the job: once a manager whose workers all left by a FINISH is over,
\* every item sent to it has been done or is in JobRetry.
DistributedIsHandled ==
    \A h \in Managers : run[h] = "over" /\ ~cut[h] => sent[h] \subseteq ok \cup retry

\* No manager keeps a job for ever, whether FINISH is lost, the subscription
\* fails before inform has listed the runner, or the creator dies.
RunnerRemoved ==
    \A h \in Managers : run[h] # "none" ~> runner[h] = "deleted"
=============================================================================
