---------------------------- MODULE VirtualClients ----------------------------
(***************************************************************************)
(* The connection loops of all virtual clients of a Sora load test         *)
(* (virtual_client::run) and the collector that aggregates what they       *)
(* report (StatsCollector), joined by one bounded channel and one          *)
(* cancellation token.                                                     *)
(*                                                                         *)
(* A client blocks on a full channel for Connected, Disconnected, Retrying *)
(* and Stopped, but only tries to send the outcome of a connection: that   *)
(* event is dropped when the channel is full.  Clients of one test may be  *)
(* configured differently (an instance per configuration), so each of the  *)
(* four modes below is a set of clients.                                   *)
(***************************************************************************)
EXTENDS Totals

CONSTANTS
  VCs,          (* the virtual clients that share the collector             *)
  ScenarioVCs,  (* those that follow a scenario instead of a duration timer *)
  TimedVCs,     (* those with --duration > 0                                *)
  RepeatVCs,    (* those with --repeat-interval > 0                         *)
  MaxRetry,     (* --max-retry of each client                               *)
  Capacity,     (* capacity of the event channel (256 in the code)          *)
  Verdicts,     (* verdicts explored for a connection that was established  *)
  HasWarmup,    (* whether --warmup is greater than zero                    *)
  MaxAttempts   (* BOUND: attempts each client makes while the test runs    *)

ASSUME ModeAssumption ==
  /\ ScenarioVCs \subseteq VCs /\ TimedVCs \subseteq VCs /\ RepeatVCs \subseteq VCs
  /\ IsFiniteSet(VCs)
ASSUME BoundAssumption ==
  /\ MaxRetry \in [VCs -> Nat] /\ MaxAttempts \in [VCs -> Nat]
  /\ Capacity \in Nat \ {0}
  /\ HasWarmup \in BOOLEAN
  /\ Verdicts \subseteq {"success", "failure", "unjudged"}

VARIABLES
  pc,           (* where each client's loop is                              *)
  retry,        (* retry_count of each client                               *)
  established,  (* whether the current connection reached establishment     *)
  reason,       (* DisconnectReason of the connection being torn down       *)
  attempts,     (* attempts made so far                                     *)
  rows,         (* history: lifecycle rows written for each client          *)
  cancelled,    (* the process-wide CancellationToken                       *)
  warm,         (* the warmup period has elapsed                            *)
  chan,         (* the event channel                                        *)
  agg,          (* the aggregator task                                      *)
  snap,         (* StatsSnapshot: connected, retrying, stopped              *)
  tally,        (* OutcomeTotals, with the connections left out for warmup  *)
  lost,         (* history: outcomes dropped because the channel was full   *)
  seenLive      (* history: clients whose last applied event is Connected   *)

clientVars == <<pc, retry, established, reason, attempts, rows>>
collectorVars == <<agg, snap, tally, seenLive>>
vars == <<clientVars, cancelled, warm, chan, collectorVars, lost>>

Locations == {"build", "establish", "sendConnected", "run", "close",
              "sendDisconnected", "sendRetrying", "retryWait", "repeatWait",
              "sendStopped", "done"}
Reasons == {"none", "Shutdown", "DurationExpired", "ScenarioDisconnect",
            "ScenarioExit", "Unexpected", "BuildFailed"}
Buckets == {"success", "failure", "unjudged", "warmup"}
Kinds == {"Connected", "Disconnected", "Retrying", "Stopped", "Ended"}
Events == {e \in [kind : Kinds, vc : VCs, bucket : Buckets \cup {"none"}] :
             e.kind = "Ended" => e.bucket \in Buckets}

Event(k, v) == [kind |-> k, vc |-> v, bucket |-> "none"]

Init ==
  /\ pc = [v \in VCs |-> "build"]
  /\ retry = [v \in VCs |-> 0]
  /\ established = [v \in VCs |-> FALSE]
  /\ reason = [v \in VCs |-> "none"]
  /\ attempts = [v \in VCs |-> 0]
  /\ rows = [v \in VCs |-> 0]
  /\ cancelled = FALSE
  /\ warm = ~HasWarmup
  /\ chan = <<>>
  /\ agg = "running"
  /\ snap = [connected |-> 0, retrying |-> 0, stopped |-> 0]
  /\ tally = [b \in Buckets |-> 0]
  /\ lost = 0
  /\ seenLive = {}

-----------------------------------------------------------------------------
(* The two ways of sending.                                                *)

(* MUTANT of Send: the sender is not woken when the receiver goes away.     *)
SendIgnoringClose(e) ==
  agg = "running" /\ Len(chan) < Capacity /\ chan' = Append(chan, e)

(* stats_tx.send(e).await: waits while the channel is full; once the        *)
(* receiver is gone the error is ignored.                                   *)
Send(e) ==
  IF agg = "running"
  THEN Len(chan) < Capacity /\ chan' = Append(chan, e)
  ELSE chan' = chan

(* stats_tx.try_send(e): never waits; the event is lost when it cannot go.  *)
TrySend(e) ==
  IF agg = "running" /\ Len(chan) < Capacity
  THEN chan' = Append(chan, e) /\ lost' = lost
  ELSE chan' = chan /\ lost' = IF agg = "running" THEN lost + 1 ELSE lost

(* The bucket an outcome event ends in.  An attempt that was never built has *)
(* failed; one that ended unexpectedly has failed or is unjudged; a shutdown *)
(* may race an establishment that is already in the lifecycle, so its        *)
(* verdict is open; any other end of an attempt that never established is a  *)
(* failure.  An attempt that ends during warmup is counted apart.            *)
BucketsOf(v, r) ==
  IF ~warm THEN {"warmup"}
  ELSE IF r = "Unexpected" THEN {"failure"} \cup (Verdicts \ {"success"})
  ELSE IF r = "Shutdown" \/ established[v] THEN Verdicts
  ELSE {"failure"}

(* record_lifecycle: one row to the writer's unbounded control channel,     *)
(* then an attempt to tell the collector the outcome.                       *)
RecordLifecycle(v, r) ==
  /\ rows' = [rows EXCEPT ![v] = @ + 1]
  /\ \E b \in BucketsOf(v, r) :
       TrySend([kind |-> "Ended", vc |-> v, bucket |-> b])

Goto(v, l) == pc' = [pc EXCEPT ![v] = l]

(* retry_count += 1; give up above max_retry, otherwise announce a retry.   *)
CountFailure(v) ==
  /\ retry' = [retry EXCEPT ![v] = @ + 1]
  /\ Goto(v, IF retry[v] + 1 > MaxRetry[v] THEN "sendStopped" ELSE "sendRetrying")


-----------------------------------------------------------------------------
(* The loop of client v.  Every select! of the code is biased towards the   *)
(* token: any other branch is taken only while it is not cancelled.         *)

(* build_client succeeded: a fresh lifecycle, a fresh oneshot.              *)
Build(v) ==
  /\ pc[v] = "build" /\ (attempts[v] < MaxAttempts[v] \/ cancelled)
  /\ attempts' = [attempts EXCEPT ![v] = @ + 1]
  /\ Goto(v, "establish")
  /\ UNCHANGED <<retry, established, reason, rows, cancelled, warm, chan,
                 collectorVars, lost>>

(* build_client failed.                                                     *)
BuildFails(v) ==
  /\ pc[v] = "build" /\ (attempts[v] < MaxAttempts[v] \/ cancelled)
  /\ attempts' = [attempts EXCEPT ![v] = @ + 1]
  /\ RecordLifecycle(v, "BuildFailed")
  /\ CountFailure(v)
  /\ UNCHANGED <<established, reason, cancelled, warm, collectorVars>>

(* The wait for the establishment ends: the oneshot fired (to sendConnected),*)
(* its sender was dropped before run() returned or the token was cancelled   *)
(* (to run), or run() returned (straight to the unexpected end).             *)
Establishment(v) ==
  /\ pc[v] = "establish" /\ ~cancelled
  /\ established' = [established EXCEPT ![v] = TRUE]
  /\ Goto(v, "sendConnected")
  /\ UNCHANGED <<retry, reason, attempts, rows, cancelled, warm, chan,
                 collectorVars, lost>>

NoEstablishment(v) ==
  /\ pc[v] = "establish"
  /\ Goto(v, "run")
  /\ UNCHANGED <<retry, established, reason, attempts, rows, cancelled, warm,
                 chan, collectorVars, lost>>

SendConnected(v) ==
  /\ pc[v] = "sendConnected"
  /\ Send(Event("Connected", v))
  /\ Goto(v, "run")
  /\ UNCHANGED <<retry, established, reason, attempts, rows, cancelled, warm,
                 collectorVars, lost>>

(* The reasons an orderly end can have in client v's mode.                  *)
OrderlyEnds(v) ==
  IF cancelled THEN {"Shutdown"}
  ELSE IF v \in ScenarioVCs THEN {"ScenarioDisconnect", "ScenarioExit"}
  ELSE IF v \in TimedVCs THEN {"DurationExpired"}
  ELSE {}

EndOrderly(v) ==
  /\ pc[v] = "run"
  /\ \E r \in OrderlyEnds(v) : reason' = [reason EXCEPT ![v] = r]
  /\ Goto(v, "close")
  /\ UNCHANGED <<retry, established, attempts, rows, cancelled, warm, chan,
                 collectorVars, lost>>

(* MUTANT of EndUnexpected: an attempt that never established leaves no row. *)
EndUnexpectedQuietly(v) ==
  /\ pc[v] \in {"run", "establish"} /\ ~cancelled
  /\ reason' = [reason EXCEPT ![v] = "Unexpected"]
  /\ IF established[v] THEN RecordLifecycle(v, "Unexpected")
     ELSE UNCHANGED <<rows, chan, lost>>
  /\ Goto(v, "sendDisconnected")
  /\ UNCHANGED <<retry, established, attempts, cancelled, warm, collectorVars>>

(* run() returned: nothing is left to disconnect, the row is written at once.*)
EndUnexpected(v) ==
  /\ pc[v] \in {"run", "establish"} /\ ~cancelled
  /\ reason' = [reason EXCEPT ![v] = "Unexpected"]
  /\ RecordLifecycle(v, "Unexpected")
  /\ Goto(v, "sendDisconnected")
  /\ UNCHANGED <<retry, established, attempts, cancelled, warm, collectorVars>>

(* handle.disconnect() or run() completed.  A shutdown leaves the loop       *)
(* without a Disconnected event.                                            *)
Close(v) ==
  /\ pc[v] = "close"
  /\ RecordLifecycle(v, reason[v])
  /\ Goto(v, IF reason[v] = "Shutdown" THEN "sendStopped" ELSE "sendDisconnected")
  /\ UNCHANGED <<retry, established, reason, attempts, cancelled, warm,
                 collectorVars>>

(* Disconnected is sent for every other end, established or not; then the   *)
(* loop goes on as the reason says.                                         *)
SendDisconnected(v) ==
  /\ pc[v] = "sendDisconnected"
  /\ Send(Event("Disconnected", v))
  /\ established' = [established EXCEPT ![v] = FALSE]
  /\ \/ reason[v] = "Unexpected" /\ CountFailure(v)
     \/ /\ reason[v] = "DurationExpired"
        /\ retry' = [retry EXCEPT ![v] = 0]
        /\ Goto(v, IF v \in RepeatVCs THEN "repeatWait" ELSE "sendStopped")
     \/ /\ reason[v] = "ScenarioDisconnect"
        /\ retry' = [retry EXCEPT ![v] = 0]
        /\ Goto(v, "build")
     \/ reason[v] = "ScenarioExit" /\ retry' = retry /\ Goto(v, "sendStopped")
  /\ reason' = [reason EXCEPT ![v] = "none"]
  /\ UNCHANGED <<attempts, rows, cancelled, warm, collectorVars, lost>>

SendRetrying(v) ==
  /\ pc[v] = "sendRetrying"
  /\ Send(Event("Retrying", v))
  /\ Goto(v, "retryWait")
  /\ UNCHANGED <<retry, established, reason, attempts, rows, cancelled, warm,
                 collectorVars, lost>>

(* The retry or repeat interval is over, or the token was cancelled.        *)
Wake(v) ==
  /\ pc[v] \in {"retryWait", "repeatWait"}
  /\ Goto(v, IF cancelled THEN "sendStopped" ELSE "build")
  /\ UNCHANGED <<retry, established, reason, attempts, rows, cancelled, warm,
                 chan, collectorVars, lost>>

(* Stopped is the last event; the sender is dropped with the task.          *)
SendStopped(v) ==
  /\ pc[v] = "sendStopped"
  /\ Send(Event("Stopped", v))
  /\ Goto(v, "done")
  /\ UNCHANGED <<retry, established, reason, attempts, rows, cancelled, warm,
                 collectorVars, lost>>

-----------------------------------------------------------------------------
(* The collector.                                                          *)

Minus1(n) == IF n > 0 THEN n - 1 ELSE 0

(* MUTANT of Apply: a retried client is not counted as disconnected first.  *)
ApplyMissingDisconnect(s, k) ==
  [s EXCEPT !.connected = IF k = "Connected" THEN @ + 1 ELSE @,
            !.retrying = IF k = "Retrying" THEN @ + 1
                         ELSE IF k \in {"Connected", "Stopped"} THEN Minus1(@) ELSE @,
            !.stopped = IF k = "Stopped" THEN @ + 1 ELSE @]

(* StatsSnapshot::apply on the counters of the client states.              *)
Apply(s, k) ==
  [connected |-> CASE k = "Connected" -> s.connected + 1
                   [] k = "Disconnected" -> Minus1(s.connected)
                   [] OTHER -> s.connected,
   retrying  |-> CASE k = "Retrying" -> s.retrying + 1
                   [] k \in {"Connected", "Stopped"} -> Minus1(s.retrying)
                   [] OTHER -> s.retrying,
   stopped   |-> IF k = "Stopped" THEN s.stopped + 1 ELSE s.stopped]

(* MUTANT of Aggregate: what ended during warmup is not counted apart.      *)
AggregateForgettingWarmup ==
  /\ agg = "running" /\ ~cancelled /\ chan # <<>>
  /\ LET e == Head(chan) IN
       /\ snap' = Apply(snap, e.kind)
       /\ tally' = IF e.kind = "Ended" /\ e.bucket # "warmup"
                   THEN [tally EXCEPT ![e.bucket] = @ + 1] ELSE tally
       /\ seenLive' = seenLive
  /\ chan' = Tail(chan)
  /\ UNCHANGED <<clientVars, cancelled, warm, agg, lost>>

(* The aggregator takes the next event: biased, so never once cancelled.    *)
Aggregate ==
  /\ agg = "running" /\ ~cancelled /\ chan # <<>>
  /\ LET e == Head(chan) IN
       /\ snap' = Apply(snap, e.kind)
       /\ tally' = IF e.kind = "Ended" THEN [tally EXCEPT ![e.bucket] = @ + 1]
                   ELSE tally
       /\ seenLive' = CASE e.kind = "Connected" -> seenLive \cup {e.vc}
                        [] e.kind = "Disconnected" -> seenLive \ {e.vc}
                        [] OTHER -> seenLive
  /\ chan' = Tail(chan)
  /\ UNCHANGED <<clientVars, cancelled, warm, agg, lost>>

(* The token is cancelled: the aggregator returns and drops the receiver,   *)
(* with whatever is still queued.                                          *)
AggregatorCancelled ==
  /\ agg = "running" /\ cancelled
  /\ agg' = "cancelled"
  /\ chan' = <<>>
  /\ UNCHANGED <<clientVars, cancelled, warm, snap, tally, seenLive, lost>>

(* Every sender is dropped and the channel is drained.                      *)
AggregatorClosed ==
  /\ agg = "running" /\ ~cancelled
  /\ chan = <<>> /\ \A v \in VCs : pc[v] = "done"
  /\ agg' = "closed"
  /\ UNCHANGED <<clientVars, cancelled, warm, chan, snap, tally, seenLive, lost>>

(* Ctrl+C, or the orchestrator ending the test.                             *)
Cancel ==
  /\ ~cancelled /\ cancelled' = TRUE
  /\ UNCHANGED <<clientVars, warm, chan, collectorVars, lost>>

WarmupElapses ==
  /\ ~warm /\ warm' = TRUE
  /\ UNCHANGED <<clientVars, cancelled, chan, collectorVars, lost>>

Terminated ==
  /\ agg # "running" /\ \A v \in VCs : pc[v] = "done"
  /\ UNCHANGED vars

(* What client v's task does when it is polled, the environment apart.      *)
Progress(v) == Build(v) \/ BuildFails(v) \/ Close(v) \/ Wake(v)
               \/ (cancelled /\ (NoEstablishment(v) \/ EndOrderly(v)))

Sends(v) == SendConnected(v) \/ SendDisconnected(v) \/ SendRetrying(v)
            \/ SendStopped(v)

Client(v) == Build(v) \/ BuildFails(v) \/ Establishment(v) \/ NoEstablishment(v)
             \/ EndOrderly(v) \/ EndUnexpected(v) \/ Close(v) \/ Wake(v)
             \/ SendConnected(v) \/ SendDisconnected(v) \/ SendRetrying(v)
             \/ SendStopped(v)

Collector == Aggregate \/ AggregatorCancelled \/ AggregatorClosed

Next == (\E v \in VCs : Client(v)) \/ Collector \/ Cancel \/ WarmupElapses
        \/ Terminated

(* The runtime polls a ready task, a timer fires, disconnect() completes;   *)
(* a sender waiting for room is served in arrival order, so it cannot be    *)
(* passed over for ever.  Nothing makes the peer connect, the connection    *)
(* fail or the operator press Ctrl+C.                                       *)
Fairness ==
  /\ \A v \in VCs : WF_vars(Progress(v)) /\ SF_vars(Sends(v))
  /\ WF_vars(Collector)

Spec == Init /\ [][Next]_vars /\ Fairness

-----------------------------------------------------------------------------
(* Properties.                                                             *)

(* Types, and the channel never holds more than its capacity.              *)
TypeOK ==
  /\ pc \in [VCs -> Locations]
  /\ retry \in [VCs -> Nat]
  /\ established \in [VCs -> BOOLEAN]
  /\ reason \in [VCs -> Reasons]
  /\ attempts \in [VCs -> Nat] /\ rows \in [VCs -> Nat]
  /\ cancelled \in BOOLEAN /\ warm \in BOOLEAN
  /\ chan \in Seq(Events) /\ Len(chan) <= Capacity
  /\ agg \in {"running", "cancelled", "closed"}
  /\ snap \in [connected : Nat, retrying : Nat, stopped : Nat]
  /\ tally \in [Buckets -> Nat]
  /\ lost \in Nat
  /\ seenLive \in SUBSET VCs

(* The clients between the Connected and the Disconnected they send.       *)
LiveClients == {v \in VCs : established[v] /\ pc[v] # "sendConnected"}

(* Once every event sent has been applied, the snapshot never shows more    *)
(* clients connected than there are: a Disconnected is never skipped before *)
(* the next Connected of the same client, whatever the interleaving of the  *)
(* clients and however full the channel was (StatsSnapshot.connected).      *)
ConnectedNeverOvercounts ==
  agg = "running" /\ chan = <<>> => snap.connected <= Cardinality(LiveClients)

(* Why it holds.  In the channel, followed from what was applied so far, the *)
(* Connected and Disconnected events of one client alternate (Alternates),  *)
(* and a client that is not live has its last Disconnected sent (Settled).  *)
IsConnected(e, v) == e.kind = "Connected" /\ e.vc = v
IsDisconnected(e, v) == e.kind = "Disconnected" /\ e.vc = v

Alternates(ch, live) ==
  \A v \in VCs, i \in 1..Len(ch) : IsConnected(ch[i], v) =>
    /\ v \in live => \E k \in 1..(i - 1) : IsDisconnected(ch[k], v)
    /\ \A j \in 1..(i - 1) : IsConnected(ch[j], v) =>
         \E k \in (j + 1)..(i - 1) : IsDisconnected(ch[k], v)

Settled(ch, live, v) ==
  /\ v \in live => \E k \in 1..Len(ch) : IsDisconnected(ch[k], v)
  /\ \A i \in 1..Len(ch) : IsConnected(ch[i], v) =>
       \E k \in (i + 1)..Len(ch) : IsDisconnected(ch[k], v)

(* The established flag says what its location implies.                     *)
FlagsFit ==
  \A v \in VCs :
    /\ pc[v] \in {"build", "establish", "sendRetrying", "retryWait", "repeatWait"}
         => ~established[v]
    /\ pc[v] = "sendConnected" => established[v]

CountInv ==
  /\ FlagsFit
  /\ agg = "running" =>
       /\ snap.connected <= Cardinality(seenLive)
       /\ Alternates(chan, seenLive)
       /\ \A v \in VCs \ LiveClients : Settled(chan, seenLive, v)

(* A test that ends by itself ends with a settled snapshot: every client    *)
(* counted as stopped once and none as connected.                           *)
SettledAtClose ==
  agg = "closed" => snap.stopped = Cardinality(VCs) /\ snap.connected = 0

(* Every attempt that ended is in the summary of a test that ended by       *)
(* itself, in one bucket, unless its outcome was dropped because the        *)
(* channel was full at that moment: nothing is lost at the end and nothing  *)
(* is counted twice (OutcomeTotals, finalize).                              *)
OutcomesAccounted ==
  agg = "closed" =>
    /\ TotalOver(Buckets, tally) + lost = TotalOver(VCs, rows)
    /\ \A v \in VCs : rows[v] = attempts[v]

(* The summary of a test that ended by itself is settled: snapshot and      *)
(* totals agree with what the clients did.                                  *)
SummarySettled == SettledAtClose /\ OutcomesAccounted

(* The mapping to ClientContract: an attempt lasts from the loop's top to   *)
(* the lifecycle row, it is live once Connected was sent, and a client is   *)
(* over when its task has returned.                                         *)
PhaseOf(v) ==
  CASE pc[v] \in {"establish", "sendConnected"} -> "attempt"
    [] pc[v] \in {"run", "close"} -> IF established[v] THEN "live" ELSE "attempt"
    [] pc[v] = "done" -> "over"
    [] OTHER -> "idle"

PhaseMap == [v \in VCs |-> PhaseOf(v)]

Contract == INSTANCE ClientContract WITH phase <- PhaseMap

(* Every path out of an attempt (build failure, failure to establish,       *)
(* unexpected end, timer, scenario, shutdown) writes exactly one lifecycle  *)
(* row, and a client that is over never attempts again.                     *)
OneRowPerAttempt == Contract!Spec

(* Ctrl+C ends every client: none waits for ever for room in a channel      *)
(* nobody reads, and none starts over.                                      *)
CancelStopsAll == cancelled ~> (\A v \in VCs : pc[v] = "done")

===============================================================================
