----------------------------- MODULE DuckDBWriter -----------------------------
(***************************************************************************)
(* The DuckDB statistics writer: clients that put control commands on an   *)
(* unbounded channel and statistics samples on a bounded one, the writer   *)
(* loop that gathers both for a short window and writes them in one         *)
(* transaction, and the shutdown handshake that makes the writer return.    *)
(*                                                                         *)
(* A connection sends its connection row, what each statistics report      *)
(* brings, and its lifecycle row.  The n-th command or sample of a sender  *)
(* travels as its number n, and sent says what the commands are.  The      *)
(* reporter task only logs the counter and is left out.                    *)
(***************************************************************************)
EXTENDS Naturals, FiniteSets, StatsReport, Totals

CONSTANTS
  Clients,        (* senders: the connections of the virtual clients         *)
  StatsCapacity,  (* STATS_CHANNEL_CAPACITY                                  *)
  MaxErrors,      (* MAX_CONSECUTIVE_ERRORS                                  *)
  Reports,        (* what each connection's get_stats may return             *)
  MaxSamples      (* BOUND: samples each connection sends                    *)

ASSUME WriterAssumption ==
  /\ IsFiniteSet(Clients) /\ "main" \notin Clients /\ "self" \notin Clients
  /\ StatsCapacity \in Nat \ {0} /\ MaxErrors \in Nat \ {0}
  /\ DOMAIN Reports = Clients /\ MaxSamples \in [Clients -> Nat]

VARIABLES
  senders,      (* holders of a DuckDBClient that is not yet dropped         *)
  main,         (* where the orchestrator is in the shutdown handshake       *)
  sent,         (* history: what each sender's commands are, in order        *)
  offered,      (* the connections whose identifiers are known               *)
  seen,         (* seen_codecs, seen_..._candidates, seen_certificates       *)
  todo,         (* the report at hand, while rows of it are to be sent       *)
  shown,        (* history: static identities of all reports                 *)
  samples,      (* samples sent so far by each connection                    *)
  control,      (* the unbounded channel                                     *)
  stats,        (* the bounded channel                                       *)
  wpc,          (* where the writer is                                       *)
  windowed,     (* the gathering window of this cycle is over                *)
  controlOpen, statsOpen, (* no end of channel was received yet              *)
  controls,     (* commands gathered in this cycle                           *)
  pending,      (* latest sample gathered of each connection                 *)
  replaced,     (* samples replaced in this cycle                            *)
  newest,       (* history: the newest sample taken of each connection       *)
  errors,       (* consecutive failed transactions                           *)
  dropped,      (* dropped_count                                             *)
  db,           (* commands committed, in order                              *)
  lastSample,   (* last sample committed of each connection                  *)
  written,      (* samples committed                                         *)
  failed        (* history: a transaction failed                             *)

reportVars == <<offered, seen, todo, shown>>
clientVars == <<senders, main, sent, samples, reportVars>>
gathered == <<controls, pending, replaced, newest>>
storage == <<errors, db, lastSample, written, failed>>
vars == <<clientVars, control, stats, wpc, windowed, controlOpen, statsOpen,
          gathered, dropped, storage>>

Senders == Clients \cup {"main", "self"}
Nothing == [c \in {} |-> 0]

Init ==
  /\ senders = Senders /\ main = "running"
  /\ sent = [s \in Clients \cup {"main"} |-> <<>>]
  /\ samples = [c \in Clients |-> 0]
  /\ offered = {} /\ seen = [c \in Clients |-> {}] /\ shown = [c \in Clients |-> {}]
  /\ todo = [c \in Clients |-> <<>>]
  /\ control = <<>> /\ stats = <<>>
  /\ wpc = "recv" /\ windowed = FALSE /\ controlOpen = TRUE /\ statsOpen = TRUE
  /\ controls = <<>> /\ pending = Nothing /\ replaced = 0
  /\ newest = [c \in Clients |-> 0]
  /\ errors = 0 /\ dropped = 0
  /\ db = <<>> /\ lastSample = [c \in Clients |-> 0] /\ written = 0 /\ failed = FALSE

Receiving == wpc # "stopped"
WriterState == <<wpc, windowed, controlOpen, statsOpen, gathered, storage>>

-----------------------------------------------------------------------------
(* The senders.                                                            *)

ConnectionRow == <<"connection", "", "">>
LifecycleRow == <<"lifecycle", "", "">>
StopRow == <<"stop", "", "">>

(* send_control: the command is only lost once the writer has stopped.      *)
SendControl(s, row) ==
  /\ sent' = [sent EXCEPT ![s] = Append(@, row)]
  /\ control' = IF Receiving THEN Append(control, <<s, Len(sent[s]) + 1>>) ELSE control

(* The offer's identifiers: the row first, then they are there for the      *)
(* statistics task.  Without identifiers in the offer neither happens.      *)
Offer(c) ==
  /\ c \in senders \ offered
  /\ SendControl(c, ConnectionRow)
  /\ offered' = offered \cup {c}
  /\ UNCHANGED <<senders, main, samples, seen, todo, shown, stats, dropped, WriterState>>

(* What is at hand while a row of the report r is still to be sent.         *)
Remaining(r, sentBefore) ==
  IF Unseen(r, sentBefore) = {} /\ ~HasRows(r) THEN <<>> ELSE r

(* A tick of the statistics task whose get_stats succeeded.  A tick before  *)
(* the offer, or one whose get_stats fails, does nothing.                   *)
Tick(c) ==
  /\ c \in senders \cap offered /\ todo[c] = <<>> /\ samples[c] < MaxSamples[c]
  /\ \E r \in Reports[c] :
       /\ todo' = [todo EXCEPT ![c] = Remaining(r, seen[c])]
       /\ shown' = [shown EXCEPT ![c] = @ \cup Identities(r)]
  /\ UNCHANGED <<senders, main, sent, samples, offered, seen, control, stats, dropped,
                 WriterState>>

(* The next static row of the report that was not sent before.              *)
SendStatic(c) ==
  LET new == Unseen(todo[c], seen[c]) IN
  /\ \E i \in new :
       /\ \A j \in new : Before(todo[c], i, j)
       /\ SendControl(c, Identity(todo[c][i]))
       /\ seen' = [seen EXCEPT ![c] = @ \cup {Identity(todo[c][i])}]
  /\ todo' = [todo EXCEPT ![c] = Remaining(@, seen'[c])]
  /\ UNCHANGED <<senders, main, samples, offered, shown, stats, dropped, WriterState>>

(* try_send_stats: a sample that does not fit is counted as dropped.        *)
TrySendStats(c) ==
  LET fits == Receiving /\ Len(stats) < StatsCapacity IN
  /\ stats' = IF fits THEN Append(stats, <<c, samples[c] + 1>>) ELSE stats
  /\ dropped' = IF fits THEN dropped ELSE dropped + 1

(* The sample goes behind the static rows it refers to.                     *)
SendSample(c) ==
  /\ todo[c] # <<>> /\ Unseen(todo[c], seen[c]) = {}
  /\ samples' = [samples EXCEPT ![c] = @ + 1]
  /\ TrySendStats(c)
  /\ todo' = [todo EXCEPT ![c] = <<>>]
  /\ UNCHANGED <<senders, main, sent, offered, seen, shown, control, WriterState>>

(* The attempt is over: its lifecycle row, then its handles are dropped.     *)
(* Nothing awaits between the sends of a tick, so no tick is cut in two.     *)
Drop(c) ==
  /\ c \in senders /\ todo[c] = <<>>
  /\ SendControl(c, LifecycleRow)
  /\ senders' = senders \ {c}
  /\ UNCHANGED <<main, samples, reportVars, stats, dropped, WriterState>>

(* shutdown_after_workers: once every worker is joined, the stop time is    *)
(* sent and the orchestrator's handle dropped ...                           *)
SendStop ==
  /\ main = "running" /\ senders = {"main", "self"}
  /\ SendControl("main", StopRow)
  /\ main' = "stopSent" /\ senders' = {"self"}
  /\ UNCHANGED <<samples, reportVars, stats, dropped, WriterState>>

(* MUTANT of Join: the writer's own handle is kept while waiting.           *)
JoinHoldingClient ==
  /\ main = "stopSent"
  /\ main' = "joining" /\ senders' = senders
  /\ UNCHANGED <<sent, samples, reportVars, control, stats, dropped, WriterState>>

(* ... then join drops the handle the writer object itself holds and waits. *)
Join ==
  /\ main = "stopSent"
  /\ main' = "joining" /\ senders' = {}
  /\ UNCHANGED <<sent, samples, reportVars, control, stats, dropped, WriterState>>

Joined ==
  /\ main = "joining" /\ wpc = "stopped"
  /\ main' = "joined"
  /\ UNCHANGED <<senders, sent, samples, reportVars, control, stats, dropped, WriterState>>

-----------------------------------------------------------------------------
(* The writer loop.                                                        *)

(* absorb_sample: the latest sample of a connection replaces an earlier one.*)
Absorb(s) ==
  /\ pending' = [c \in DOMAIN pending \cup {s[1]} |->
                   IF c = s[1] THEN s[2] ELSE pending[c]]
  /\ replaced' = IF s[1] \in DOMAIN pending THEN replaced + 1 ELSE replaced

TakeCommand ==
  /\ control # <<>>
  /\ controls' = Append(controls, Head(control)) /\ control' = Tail(control)
  /\ UNCHANGED <<clientVars, stats, windowed, controlOpen, statsOpen, pending,
                 replaced, newest, dropped, storage>>

TakeSample ==
  /\ stats # <<>>
  /\ Absorb(Head(stats)) /\ stats' = Tail(stats)
  /\ newest' = [newest EXCEPT ![Head(stats)[1]] = IF @ > Head(stats)[2] THEN @ ELSE Head(stats)[2]]
  /\ UNCHANGED <<clientVars, control, windowed, controlOpen, statsOpen, controls,
                 dropped, storage>>

(* MUTANT of SeeControlEnd: no sender is left, so the channel counts as     *)
(* ended whatever is still in it.                                           *)
SeeControlEndUndrained ==
  /\ senders = {} /\ controlOpen
  /\ controlOpen' = FALSE
  /\ UNCHANGED <<clientVars, control, stats, windowed, statsOpen, gathered, dropped, storage>>

(* recv returns None, or try_recv says Disconnected: empty and no sender.   *)
SeeControlEnd ==
  /\ control = <<>> /\ senders = {} /\ controlOpen
  /\ controlOpen' = FALSE
  /\ UNCHANGED <<clientVars, control, stats, windowed, statsOpen, gathered, dropped, storage>>

SeeStatsEnd ==
  /\ stats = <<>> /\ senders = {} /\ statsOpen
  /\ statsOpen' = FALSE
  /\ UNCHANGED <<clientVars, control, stats, windowed, controlOpen, gathered, dropped, storage>>

Stay == UNCHANGED <<clientVars, control, stats, controlOpen, statsOpen, gathered,
                    dropped, storage>>

(* The first thing of a cycle; the end of a channel alone starts none.  The *)
(* select is biased towards commands.                                       *)
Recv ==
  /\ wpc = "recv" /\ (controlOpen \/ statsOpen)
  /\ \/ TakeCommand /\ wpc' = "drainControls"
     \/ SeeControlEnd /\ wpc' = "recv"
     \/ /\ control = <<>> /\ (senders # {} \/ ~controlOpen)
        /\ \/ TakeSample /\ wpc' = "drainControls"
           \/ SeeStatsEnd /\ wpc' = "recv"

(* drain_available: every command that is there, then every sample.         *)
DrainControls ==
  /\ wpc = "drainControls"
  /\ \/ TakeCommand /\ wpc' = wpc
     \/ /\ control = <<>>
        /\ \/ SeeControlEnd /\ wpc' = "drainSamples"
           \/ /\ ~controlOpen \/ senders # {}
              /\ Stay /\ windowed' = windowed /\ wpc' = "drainSamples"

AfterDrain(open) == IF open /\ ~windowed THEN "window" ELSE "flush"

DrainSamples ==
  /\ wpc = "drainSamples"
  /\ \/ TakeSample /\ wpc' = wpc
     \/ /\ stats = <<>>
        /\ \/ SeeStatsEnd /\ wpc' = AfterDrain(controlOpen)
           \/ /\ ~statsOpen \/ senders # {}
              /\ Stay /\ windowed' = windowed /\ wpc' = AfterDrain(controlOpen \/ statsOpen)

(* FLUSH_INTERVAL has not passed: biased towards commands again.            *)
Window ==
  /\ wpc = "window" /\ wpc' = wpc /\ (controlOpen \/ statsOpen)
  /\ \/ TakeCommand
     \/ SeeControlEnd
     \/ control = <<>> /\ (senders # {} \/ ~controlOpen) /\ (TakeSample \/ SeeStatsEnd)

(* The window is over, by time or because both channels ended.              *)
WindowEnds ==
  /\ wpc = "window" /\ windowed' = TRUE /\ wpc' = "drainControls"
  /\ Stay

Restart ==
  /\ controls' = <<>> /\ pending' = Nothing /\ replaced' = 0 /\ windowed' = FALSE

(* MUTANT of Flush: the replaced samples are forgotten.                     *)
FlushForgettingReplaced ==
  /\ wpc = "flush"
  /\ db' = db \o controls
  /\ lastSample' = [c \in Clients |-> IF c \in DOMAIN pending THEN pending[c] ELSE lastSample[c]]
  /\ written' = written + Cardinality(DOMAIN pending)
  /\ errors' = 0 /\ dropped' = dropped
  /\ wpc' = "recv" /\ Restart
  /\ UNCHANGED <<clientVars, control, stats, newest, controlOpen, statsOpen, failed>>

(* flush_writes committed everything gathered, in one transaction.          *)
Flush ==
  /\ wpc = "flush"
  /\ db' = db \o controls
  /\ lastSample' = [c \in Clients |-> IF c \in DOMAIN pending THEN pending[c] ELSE lastSample[c]]
  /\ written' = written + Cardinality(DOMAIN pending)
  /\ errors' = 0 /\ dropped' = dropped + replaced
  /\ wpc' = "recv" /\ Restart
  /\ UNCHANGED <<clientVars, control, stats, newest, controlOpen, statsOpen, failed>>

(* flush_writes failed and was rolled back: nothing of it is written again, *)
(* and after MaxErrors failures in a row the writer stops; the samples it   *)
(* replaced in that last cycle are not counted.                             *)
FlushFails ==
  /\ wpc = "flush" /\ failed' = TRUE
  /\ errors' = errors + 1
  /\ IF errors + 1 >= MaxErrors
     THEN /\ wpc' = "stopped" /\ UNCHANGED <<controls, pending, replaced, windowed>>
          /\ dropped' = dropped + Cardinality(DOMAIN pending)
     ELSE /\ wpc' = "recv" /\ Restart
          /\ dropped' = dropped + Cardinality(DOMAIN pending) + replaced
  /\ UNCHANGED <<clientVars, control, stats, newest, controlOpen, statsOpen, db,
                 lastSample, written>>

(* Both channels ended.                                                     *)
Stop ==
  /\ wpc = "recv" /\ ~controlOpen /\ ~statsOpen
  /\ wpc' = "stopped" /\ windowed' = windowed
  /\ Stay

Terminated == main = "joined" /\ UNCHANGED vars

Writer == Recv \/ DrainControls \/ DrainSamples \/ Window \/ WindowEnds
          \/ Flush \/ FlushFails \/ Stop

Next ==
  \/ \E c \in Clients : Offer(c) \/ Tick(c) \/ SendStatic(c) \/ SendSample(c) \/ Drop(c)
  \/ SendStop \/ Join \/ Joined \/ Writer \/ Terminated

(* The blocking thread of the writer runs, its timer fires; the virtual     *)
(* clients send what they began and end, and the orchestrator goes through  *)
(* its shutdown.                                                            *)
Fairness ==
  /\ WF_vars(Recv \/ DrainControls \/ DrainSamples \/ WindowEnds \/ Flush \/ Stop)
  /\ WF_vars(SendStop \/ Join \/ Joined)
  /\ \A c \in Clients : WF_vars(Drop(c) \/ SendStatic(c) \/ SendSample(c))

Spec == Init /\ [][Next]_vars /\ Fairness

-----------------------------------------------------------------------------
(* Properties.                                                             *)

Numbered == (Clients \cup {"main"}) \X Nat
Samples == Clients \X Nat

(* Types, and the bounded channel stays within its capacity.                *)
TypeOK ==
  /\ senders \subseteq Senders /\ main \in {"running", "stopSent", "joining", "joined"}
  /\ DOMAIN sent = Clients \cup {"main"} /\ samples \in [Clients -> Nat]
  /\ offered \subseteq Clients
  /\ control \in Seq(Numbered) /\ stats \in Seq(Samples) /\ Len(stats) <= StatsCapacity
  /\ wpc \in {"recv", "drainControls", "drainSamples", "window", "flush", "stopped"}
  /\ windowed \in BOOLEAN /\ controlOpen \in BOOLEAN /\ statsOpen \in BOOLEAN
  /\ controls \in Seq(Numbered) /\ replaced \in Nat
  /\ newest \in [Clients -> Nat]
  /\ DOMAIN pending \subseteq Clients /\ \A c \in DOMAIN pending : pending[c] \in Nat
  /\ errors \in 0..MaxErrors /\ dropped \in Nat
  /\ db \in Seq(Numbered) /\ lastSample \in [Clients -> Nat] /\ written \in Nat
  /\ failed \in BOOLEAN

(* What is committed of a connection is the newest sample the writer has    *)
(* taken of it, whatever was replaced, dropped or rolled back in between: a  *)
(* sample in the database is never overtaken by an older one.               *)
NewestIsCommitted ==
  [][\A c \in Clients : lastSample'[c] # lastSample[c] =>
       lastSample'[c] > lastSample[c] /\ lastSample'[c] = newest[c]]_vars

(* The commands of a sender reach the database in the order they were sent, *)
(* also across failed transactions: a lifecycle row never precedes the      *)
(* connection row it refers to.                                             *)
CommandsInOrder ==
  \A i, j \in 1..Len(db) : i < j /\ db[i][1] = db[j][1] => db[i][2] < db[j][2]

(* When no transaction failed, join returns with every command in the       *)
(* database and the stop time as the last one.                              *)
CompleteAtJoin ==
  main = "joined" /\ ~failed =>
    /\ \A s \in DOMAIN sent : \A n \in DOMAIN sent[s] : \E i \in 1..Len(db) : db[i] = <<s, n>>
    /\ db[Len(db)] = <<"main", 1>>

(* When no transaction failed, the database has each static row the reports *)
(* of a connection showed, once, so that every sample finds the codec and   *)
(* the candidates it refers to, and their tables do not grow with time.     *)
StaticsOnce ==
  main = "joined" /\ ~failed =>
    \A c \in Clients : \A i \in shown[c] :
      Cardinality({k \in 1..Len(db) : db[k][1] = c /\ sent[c][db[k][2]] = i}) = 1

(* Every sample sent is in exactly one place while the writer runs: in the  *)
(* channel, gathered, replaced, in the database, or in the dropped count    *)
(* that is reported.                                                        *)
SamplesAccounted ==
  Receiving =>
    TotalOver(Clients, samples)
      = Len(stats) + Cardinality(DOMAIN pending) + replaced + written + dropped

(* The handshake ends: once the virtual clients are gone, join returns.     *)
JoinReturns == <>(main = "joined")

(* The record of the test: commands in the order of their senders, and when *)
(* no transaction failed all of them, the static ones once, with the stop   *)
(* time behind them.                                                        *)
CommandsRecorded == TypeOK /\ CommandsInOrder /\ CompleteAtJoin /\ StaticsOnce

(* A writer that falls behind still brings the newest sample and still      *)
(* ends.                                                                    *)
WriterKeepsUp == NewestIsCommitted /\ JoinReturns

===============================================================================
