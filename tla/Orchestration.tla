----------------------------- MODULE Orchestration -----------------------------
(***************************************************************************)
(* The orchestrator of a Sora load test (async_main from the hatch queue   *)
(* on, InstanceWorker, shutdown_after_workers): worker threads that run     *)
(* several instances each, the results it waits for, and the order in which *)
(* it drops its handles so that the collector and the DuckDB writer, which  *)
(* end when nobody holds a sender, do end.                                  *)
(*                                                                         *)
(* Whatever a worker, an instance or one of its tasks holds lives in the    *)
(* worker's LocalSet and is gone when the worker's thread is, so a worker   *)
(* that is alive stands for all these handles.                              *)
(***************************************************************************)
EXTENDS Naturals, Sequences, FiniteSets

CONSTANTS
  N,              (* instances of the test                                   *)
  W,              (* workers: min(instances, cpus), at least one             *)
  RuntimesFail    (* whether a worker may fail to build its runtime          *)

ASSUME OrchestrationAssumption ==
  N \in Nat \ {0} /\ W \in 1..N /\ RuntimesFail \in BOOLEAN

Instances == 0..(N - 1)
Workers == 0..(W - 1)

VARIABLES
  cancelled,      (* the cancellation token                                  *)
  main,           (* where async_main is                                     *)
  held,           (* senders async_main holds, itself or in an object        *)
  spawned,        (* workers spawned so far                                  *)
  next,           (* the next instance the hatch queue delivers              *)
  dispatched,     (* instances whose result is waited for                    *)
  received,       (* results received                                        *)
  joined,         (* workers whose shutdown has returned                     *)
  worker,         (* the worker threads                                      *)
  open,           (* async_main holds the job sender of the worker           *)
  queue,          (* jobs sent to each worker and not taken                  *)
  inst,           (* the instances                                           *)
  results,        (* results sent and not received                           *)
  agg,            (* the collector's aggregator                              *)
  writer          (* the DuckDB writer                                       *)

mainVars == <<main, held, spawned, next, dispatched, received, joined>>
workerVars == <<worker, open, queue, inst>>
vars == <<cancelled, mainVars, workerVars, results, agg, writer>>

MainPlaces == {"spawning", "dispatching", "results", "joining", "finalizing",
               "stopping", "closing", "done", "aborted"}
StatsHandles == {"statsTx", "collector", "template"}
DuckHandles == {"client", "self", "template"}

Init ==
  /\ cancelled = FALSE
  /\ main = "spawning" /\ held = StatsHandles \cup DuckHandles
  /\ spawned = 0 /\ next = 0 /\ dispatched = 0 /\ received = 0 /\ joined = 0
  /\ worker = [w \in Workers |-> "none"]
  /\ open = [w \in Workers |-> FALSE]
  /\ queue = [w \in Workers |-> <<>>]
  /\ inst = [i \in Instances |-> "waiting"]
  /\ results = 0 /\ agg = "running" /\ writer = "running"

Alive(w) == worker[w] \in {"starting", "running"}
WorkerOf(i) == i % W
RunningOn(w) == {i \in Instances : inst[i] = "running" /\ WorkerOf(i) = w}

-----------------------------------------------------------------------------
(* async_main.                                                             *)

SpawnWorker ==
  /\ main = "spawning" /\ spawned < W
  /\ worker' = [worker EXCEPT ![spawned] = "starting"]
  /\ open' = [open EXCEPT ![spawned] = TRUE]
  /\ spawned' = spawned + 1
  /\ main' = IF spawned + 1 = W THEN "dispatching" ELSE "spawning"
  /\ UNCHANGED <<cancelled, held, next, dispatched, received, joined, queue,
                 inst, results, agg, writer>>

(* The thread cannot be created: async_main returns and drops what it has.  *)
SpawnFails ==
  /\ main = "spawning" /\ spawned < W
  /\ main' = "aborted" /\ held' = {} /\ open' = [w \in Workers |-> FALSE]
  /\ UNCHANGED <<cancelled, spawned, next, dispatched, received, joined, worker,
                 queue, inst, results, agg, writer>>

(* MUTANT of Dispatch: an instance that could not be sent is waited for.    *)
DispatchCountingRefused ==
  /\ main = "dispatching" /\ ~cancelled /\ next < N
  /\ LET w == WorkerOf(next) IN
       IF Alive(w)
       THEN /\ queue' = [queue EXCEPT ![w] = Append(@, next)]
            /\ inst' = [inst EXCEPT ![next] = "queued"]
       ELSE /\ inst' = [inst EXCEPT ![next] = "refused"] /\ queue' = queue
  /\ dispatched' = dispatched + 1 /\ next' = next + 1
  /\ UNCHANGED <<cancelled, main, held, spawned, received, joined, worker, open,
                 results, agg, writer>>

(* The hatch queue delivers an instance; it goes to its worker round robin, *)
(* or nowhere when the worker's receiver is gone.                           *)
Dispatch ==
  /\ main = "dispatching" /\ ~cancelled /\ next < N
  /\ LET w == WorkerOf(next) IN
       IF Alive(w)
       THEN /\ queue' = [queue EXCEPT ![w] = Append(@, next)]
            /\ inst' = [inst EXCEPT ![next] = "queued"]
            /\ dispatched' = dispatched + 1
       ELSE /\ inst' = [inst EXCEPT ![next] = "refused"]
            /\ UNCHANGED <<queue, dispatched>>
  /\ next' = next + 1
  /\ UNCHANGED <<cancelled, main, held, spawned, received, joined, worker, open,
                 results, agg, writer>>

(* The hatch queue is empty, or the token was cancelled: main's own stats   *)
(* sender is dropped.                                                       *)
Dispatched ==
  /\ main = "dispatching" /\ (cancelled \/ next = N)
  /\ main' = "results" /\ held' = held \ {"statsTx"}
  /\ UNCHANGED <<cancelled, spawned, next, dispatched, received, joined,
                 workerVars, results, agg, writer>>

ReceiveResult ==
  /\ main = "results" /\ received < dispatched /\ results > 0
  /\ received' = received + 1 /\ results' = results - 1
  /\ UNCHANGED <<cancelled, main, held, spawned, next, dispatched, joined,
                 workerVars, agg, writer>>

(* One result for each dispatched instance, or no worker is left to send.   *)
ResultsOver ==
  /\ main = "results"
  /\ received = dispatched \/ (results = 0 /\ \A w \in Workers : ~Alive(w))
  /\ main' = "joining"
  /\ UNCHANGED <<cancelled, held, spawned, next, dispatched, received, joined,
                 workerVars, results, agg, writer>>

(* InstanceWorker::shutdown drops the job sender ...                        *)
CloseWorker ==
  /\ main = "joining" /\ joined < W /\ open[joined]
  /\ open' = [open EXCEPT ![joined] = FALSE]
  /\ UNCHANGED <<cancelled, mainVars, worker, queue, inst, results, agg, writer>>

(* MUTANT of JoinWorker: it does not wait for the thread.                   *)
JoinWorkerAtOnce ==
  /\ main = "joining" /\ joined < W /\ ~open[joined]
  /\ joined' = joined + 1
  /\ UNCHANGED <<cancelled, main, held, spawned, next, dispatched, received,
                 workerVars, results, agg, writer>>

(* ... and blocks until the worker's thread has ended.                      *)
JoinWorker ==
  /\ main = "joining" /\ joined < W /\ ~open[joined] /\ worker[joined] = "exited"
  /\ joined' = joined + 1
  /\ UNCHANGED <<cancelled, main, held, spawned, next, dispatched, received,
                 workerVars, results, agg, writer>>

(* MUTANT of Finalize: the configuration template is kept.                  *)
FinalizeKeepingTemplate ==
  /\ main = "joining" /\ joined = W
  /\ main' = "finalizing" /\ held' = held \ {"collector"}
  /\ UNCHANGED <<cancelled, spawned, next, dispatched, received, joined,
                 workerVars, results, agg, writer>>

(* shutdown_after_workers: the template with its senders is dropped, then   *)
(* finalize drops the collector's own and waits for the aggregator.         *)
Finalize ==
  /\ main = "joining" /\ joined = W
  /\ main' = "finalizing" /\ held' = held \ {"template", "collector"}
  /\ UNCHANGED <<cancelled, spawned, next, dispatched, received, joined,
                 workerVars, results, agg, writer>>

Finalized ==
  /\ main = "finalizing" /\ agg # "running"
  /\ main' = "stopping" /\ cancelled' = TRUE
  /\ UNCHANGED <<held, spawned, next, dispatched, received, joined, workerVars,
                 results, agg, writer>>

(* The stop time is sent, main's client dropped, and join drops the one the *)
(* writer object holds.                                                     *)
CloseWriter ==
  /\ main = "stopping"
  /\ main' = "closing" /\ held' = held \ {"client", "self"}
  /\ UNCHANGED <<cancelled, spawned, next, dispatched, received, joined,
                 workerVars, results, agg, writer>>

WriterJoined ==
  /\ main = "closing" /\ writer = "ended"
  /\ main' = "done"
  /\ UNCHANGED <<cancelled, held, spawned, next, dispatched, received, joined,
                 workerVars, results, agg, writer>>

-----------------------------------------------------------------------------
(* A worker thread.                                                        *)

BuildRuntime(w) ==
  /\ worker[w] = "starting"
  /\ worker' = [worker EXCEPT ![w] = "running"]
  /\ UNCHANGED <<cancelled, mainVars, open, queue, inst, results, agg, writer>>

(* The runtime cannot be built: the thread ends, and the jobs already sent  *)
(* to it go with its receiver.                                              *)
RuntimeFails(w) ==
  /\ RuntimesFail /\ worker[w] = "starting"
  /\ worker' = [worker EXCEPT ![w] = "exited"]
  /\ queue' = [queue EXCEPT ![w] = <<>>]
  /\ inst' = [i \in Instances |->
                IF inst[i] = "queued" /\ WorkerOf(i) = w THEN "lost" ELSE inst[i]]
  /\ UNCHANGED <<cancelled, mainVars, open, results, agg, writer>>

(* A job is taken and its instance runs beside the others of the worker.    *)
TakeJob(w) ==
  /\ worker[w] = "running" /\ queue[w] # <<>>
  /\ queue' = [queue EXCEPT ![w] = Tail(@)]
  /\ inst' = [inst EXCEPT ![Head(queue[w])] = "running"]
  /\ UNCHANGED <<cancelled, mainVars, worker, open, results, agg, writer>>

(* run_zakuro_instance returned, failed or panicked: its wrapper sends the  *)
(* result in each case.                                                     *)
Finish(i) ==
  /\ inst[i] = "running"
  /\ inst' = [inst EXCEPT ![i] = "finished"] /\ results' = results + 1
  /\ UNCHANGED <<cancelled, mainVars, worker, open, queue, agg, writer>>

(* The job sender is gone and every instance of the worker has ended.       *)
WorkerEnds(w) ==
  /\ worker[w] = "running" /\ ~open[w] /\ queue[w] = <<>> /\ RunningOn(w) = {}
  /\ worker' = [worker EXCEPT ![w] = "exited"]
  /\ UNCHANGED <<cancelled, mainVars, open, queue, inst, results, agg, writer>>

-----------------------------------------------------------------------------
(* The two sinks, and the operator.                                        *)

(* Every sender is dropped, those of the workers with their threads.        *)
NobodyHolds(handles) == held \cap handles = {} /\ \A w \in Workers : ~Alive(w)

AggregatorCancelled ==
  /\ agg = "running" /\ cancelled /\ agg' = "cancelled"
  /\ UNCHANGED <<cancelled, mainVars, workerVars, results, writer>>

AggregatorClosed ==
  /\ agg = "running" /\ ~cancelled /\ NobodyHolds(StatsHandles) /\ agg' = "closed"
  /\ UNCHANGED <<cancelled, mainVars, workerVars, results, writer>>

WriterEnds ==
  /\ writer = "running" /\ NobodyHolds(DuckHandles) /\ writer' = "ended"
  /\ UNCHANGED <<cancelled, mainVars, workerVars, results, agg>>

CtrlC ==
  /\ ~cancelled /\ cancelled' = TRUE
  /\ UNCHANGED <<mainVars, workerVars, results, agg, writer>>

(* A job was lost with its worker while another worker keeps the result     *)
(* channel open.                                                            *)
Bereft == \E i \in Instances, w \in Workers : inst[i] = "lost" /\ Alive(w)

(* Nothing more happens, at the end or in a wait for a lost instance.       *)
Over ==
  /\ main \in {"done", "aborted"} \/ (main = "results" /\ Bereft)
  /\ UNCHANGED vars

Main == SpawnWorker \/ Dispatch \/ Dispatched \/ ReceiveResult \/ ResultsOver
        \/ CloseWorker \/ JoinWorker \/ Finalize \/ Finalized \/ CloseWriter
        \/ WriterJoined

Next ==
  \/ Main \/ SpawnFails \/ CtrlC \/ Over
  \/ \E w \in Workers : BuildRuntime(w) \/ RuntimeFails(w) \/ TakeJob(w) \/ WorkerEnds(w)
  \/ \E i \in Instances : Finish(i)
  \/ AggregatorCancelled \/ AggregatorClosed \/ WriterEnds

(* Threads and tasks that are ready run; timers fire.  An instance ends by  *)
(* itself only if its clients do; it does end once cancelled, which is what *)
(* CancelStopsAll of VirtualClients says of its clients.                    *)
OthersRun ==
  /\ WF_vars(AggregatorCancelled \/ AggregatorClosed) /\ WF_vars(WriterEnds)
  /\ \A w \in Workers :
       /\ WF_vars(BuildRuntime(w) \/ RuntimeFails(w))
       /\ WF_vars(TakeJob(w)) /\ WF_vars(WorkerEnds(w))
  /\ \A i \in Instances : WF_vars(cancelled /\ Finish(i))

Fairness == WF_vars(Main) /\ OthersRun

Spec == Init /\ [][Next]_vars /\ Fairness

-----------------------------------------------------------------------------
(* Properties.                                                             *)

(* Types; no more results are received than instances were dispatched.      *)
TypeOK ==
  /\ cancelled \in BOOLEAN /\ main \in MainPlaces
  /\ held \subseteq StatsHandles \cup DuckHandles
  /\ spawned \in 0..W /\ next \in 0..N /\ dispatched \in 0..next
  /\ received \in 0..dispatched /\ joined \in 0..W
  /\ worker \in [Workers -> {"none", "starting", "running", "exited"}]
  /\ open \in [Workers -> BOOLEAN]
  /\ queue \in [Workers -> Seq(Instances)]
  /\ inst \in [Instances -> {"waiting", "queued", "refused", "running", "finished", "lost"}]
  /\ results \in Nat
  /\ agg \in {"running", "cancelled", "closed"} /\ writer \in {"running", "ended"}

InState(S) == {i \in Instances : inst[i] \in S}

(* The orchestrator waits for exactly the results that are still to come:   *)
(* each instance a worker accepted counts once, each that ended answers once*)
(* whether it succeeded, failed or panicked.                                *)
ResultsAccounted ==
  /\ dispatched = Cardinality(InState({"queued", "running", "finished", "lost"}))
  /\ received + results = Cardinality(InState({"finished"}))

(* When the stop time of the test is sent, nothing that could write another *)
(* row is left: DuckDBWriter's SendStop may assume it is the last sender.   *)
SoleHandleAtStop ==
  main \in {"stopping", "closing", "done"} => \A w \in Workers : worker[w] = "exited"

(* A summary that was not cut short by Ctrl+C covers the whole test: the    *)
(* aggregator sees its channel close only when every instance has ended.    *)
SummaryCoversTest ==
  agg = "closed" => \A i \in Instances : inst[i] \in {"finished", "lost", "refused"} \/ main = "aborted"

(* The two sinks outlive whatever feeds them: neither the stop time nor the *)
(* summary comes before the last of it.                                     *)
SinksOutliveWorkers == SoleHandleAtStop /\ SummaryCoversTest

(* An instance the worker was given starts, however long the instances      *)
(* before it on the same worker run.                                        *)
EveryInstanceStarts ==
  \A i \in Instances : inst[i] = "queued" ~> inst[i] \in {"running", "finished", "lost"}

Ended == main \in {"done", "aborted"}

(* Ctrl+C ends the test, with every handle dropped in an order that lets    *)
(* the collector, the workers and the writer end; the one exception is a    *)
(* worker that was lost with a job while another lives.                     *)
ShutdownCompletes == cancelled ~> Ended \/ Bereft

(* Whatever was dispatched runs, and whatever runs can be ended.            *)
TestCompletes == EveryInstanceStarts /\ ShutdownCompletes

(* Why they hold.  Workers are joined in order and only after the results   *)
(* are over ...                                                             *)
Shutting == {"finalizing", "stopping", "closing", "done"}

JoinInv ==
  /\ main \in {"spawning", "dispatching", "results"} => joined = 0
  /\ main \in Shutting => joined = W
  /\ \A w \in Workers : w < joined => worker[w] = "exited"

(* ... a job is in the queue of its worker, once, until it runs, and it     *)
(* neither waits nor runs on a worker that has ended ...                    *)
QueueInv ==
  /\ main = "spawning" => next = 0
  /\ \A i \in Instances : i < next <=> inst[i] # "waiting"
  /\ \A w \in Workers : \A k \in 1..Len(queue[w]) :
       WorkerOf(queue[w][k]) = w /\ inst[queue[w][k]] = "queued"
  /\ \A w \in Workers : \A j, k \in 1..Len(queue[w]) : queue[w][j] = queue[w][k] => j = k
  /\ \A i \in Instances : inst[i] = "queued" =>
       \E k \in 1..Len(queue[WorkerOf(i)]) : queue[WorkerOf(i)][k] = i
  /\ \A i \in Instances : inst[i] = "queued" => Alive(WorkerOf(i))
  /\ \A i \in Instances : inst[i] = "running" => worker[WorkerOf(i)] = "running"

(* ... and the senders of async_main are dropped after the dispatch and the *)
(* workers.                                                                 *)
CoverInv ==
  /\ held \cap {"template", "collector"} = {} => main \in Shutting \cup {"aborted"}
  /\ main \in Shutting \cup {"results", "joining"} => cancelled \/ next = N
  /\ agg = "closed" =>
       /\ main \in Shutting \cup {"aborted"}
       /\ \A w \in Workers : ~Alive(w)
       /\ main = "aborted" \/ \A i \in Instances : inst[i] \in {"finished", "lost", "refused"}
===============================================================================
