# zakuro in TLA+

Specifications, TLC runs and TLAPS proofs for zakuro, the load tester for WebRTC SFU Sora
(crate `zakuro`), its sibling for Media over QUIC (`zakuro-moq`) and what they share (`zakuro-core`).

To run something: `tlc -config MCVirtualClients.cfg MCVirtualClients`, `tlapm ZakuroProofs.tla`. A leaf that takes a prover more than a moment names the prover
and allows it more time (`SMTT(30)`, `ZenonT(30)`), so that a slow machine proves what a fast one does.
`PROJECT.json` lists every run, the source lines each definition stands for, the mutations each
property is known to catch, the hazards and the theorems.

## 1. The system

A test starts *instances* (one configuration each) on a few worker threads; an instance starts *virtual
clients*, each an endless loop of connections. While a connection lives, the SDK's callbacks and a
statistics task observe it; when it ends it is judged and leaves one row. Everything flows to two
sinks: the *statistics collector*, whose summary decides the exit code of the test, and the *DuckDB
writer*, whose file is the record of the test. One cancellation token, fired by Ctrl+C, ends it all.
`zakuro-moq` has the same instances, clients and collector around connections of another kind: a MOQT
session that publishes and subscribes over one of several transports.

| component | state | operations | talks to |
|---|---|---|---|
| startup and arguments (`args.rs` of both, `main.rs`) | the layers of settings, the media settings | look for the log settings, parse, merge, validate, verify encoders | instances |
| orchestration (`main.rs`) | hatch queue, workers, count of dispatched instances | dispatch, wait for results, join workers, finalize, close the writer | everything, by handles it must drop in order |
| instance and media (`main.rs`, capturers, readers, codecs) | capture threads, places in files, the encoder | play, encode, hatch clients, drop in order | the WebRTC library, from threads of its own |
| virtual client (`virtual_client.rs`) | retry count, scenario position, the attempt in progress | build, wait for establishment, run, end for one of six reasons, retry or stop | collector (bounded channel), writer (unbounded channel) |
| lifecycle and verdict (`connection_lifecycle.rs`) | first-observation times, idle counts, last states | record, mark the end, judge | shared by callbacks, statistics task and loop behind a mutex |
| media observer (`media_observer.rs`) | last counters of each RTP stream | observe a sample | writes the lifecycle |
| scenario and messaging (`scenario.rs`, `data_channel.rs`) | position, timers, a counter for each label | operate, send at intervals | the connection handle, which they share |
| collector (`zakuro-core/stats.rs`) | snapshot, outcome totals | apply an event, finalize | reads the channel of the clients |
| thresholds and summary (`threshold.rs`, `summary.rs`) | none | percentiles, limits, exit code | the collector's totals |
| DuckDB writer (`duckdb_stats/writer.rs`) | gathered commands and samples, error count | gather, flush, stop | two channels of every client |
| rows (`duckdb_stats/rows.rs`, `stats_json.rs`) | what was seen of each connection | split a report, tell entries apart | the writer |
| zakuro-moq process (`zakuro-moq/src/main.rs`, `args.rs`) | sets of instance and client tasks, shared counters, the tracks | parse the tracks, hatch, join, report | MoQ clients, by tokens and counters |
| MoQ client (`moq_client.rs`) | retry count, current endpoint | connect, run a session, migrate, repeat, retry | collector, session |
| MoQ connections (`transport.rs`) | cache of resolved endpoints | resolve, register, dial candidates | shared by the clients of an instance behind a mutex |
| MoQ session (`session.rs`) | requests, publishers, readers, GOAWAY | set up, publish on schedule, receive, migrate, shut down | transport |
| transports (`stream.rs`, `wt_h3.rs`, `quic/ngtcp2.rs`) | channels between session and driver, credit | open, write, read, stop, end | session, readers and socket |
| WebTransport over HTTP/2 (`wt_h2.rs`) | waiting opens, windows, streams | commands, events, flow control | session and socket |
| other QUIC routes, logging, HTTP server | | adapters, glue | |

What is hard in it:

* **concurrency**: handler, statistics task and loop share a lifecycle and the identifiers behind two
  locks; clients share one bounded event channel and one cache of endpoints; the media threads share the
  encoder and the transport with a library that owns threads itself;
* **ordering**: a count of live connections is kept by increments and decrements that are events of many
  senders; rows must follow the rows they refer to; objects and their group boundaries must arrive in order
  through a driver, a reader and a channel; a FIN must not overtake data;
* **failure**: building, connecting, the connection, an object's write, a candidate address and the
  database transaction each fail, and each failure has a path of its own that must still leave its row, its
  count, its event or the next object's numbers;
* **timeouts and retries**: the token, the duration, a GOAWAY and the end of a session race; retries are
  counted and migrations are not;
* **shutdown**: the collector and the writer each end when *every* sender is gone, cancellation ends the
  collector at once, and clients may at that moment be waiting for room in its channel;
* **numbers**: packet counters that restart, idle runs, warmup and grace boundaries, flow-control windows,
  ranks of percentiles, times that wrap in files.

## 2. Modules

| module | models | properties in |
|---|---|---|
| `ClientContract` | what a client promises: attempts one after the other, each closed by exactly one row, none after it is over | (abstract) |
| `VirtualClients` | the loops of all clients, the event channel, the token, the collector | `MCVirtualClients` |
| `ConnectionLifecycle` | one attempt: callbacks, statistics task, media observer, loop, judge, row | `MCConnectionLifecycle` |
| `StatsReport` | what a statistics report is split into and how its entries are told apart | (operators) |
| `DuckDBWriter` | the statistics tasks that send rows, both channels, gathering window, transactions, stop on errors, shutdown handshake | `MCDuckDBWriter` |
| `Orchestration` | hatch queue, workers, results, and the order in which handles are dropped at the end | `MCOrchestration` |
| `Thresholds`, `Summary` | percentile and limits; the totals, the summary and the exit code | `LoadTest` |
| `MoqProcess`, `MoqSettings` | the process of zakuro-moq: instances, clients, joins, totals; its tracks from the file to the size of a datagram | `LoadTest` |
| `LoadTest` | a test by either program: `Orchestration` with `Summary`, or `MoqProcess` | `MCOrchestration` |
| `Arguments` | tokens, layers and their merge in both programs, the early look for the log settings | (operators) |
| `Startup` | the process from its command line to its instances, and the checks of the media settings | `MCStartup` |
| `Instance` | capture threads, files, encoder and clients of an instance, and their end | `MCStartup` |
| `DataChannels`, `Messaging` | described channels and sizes; the scenario player and the messaging tasks | `MCStartup` |
| `Zakuro` | a process from its command line to what its first instance plays and one client of it says | `MCStartup` |
| `MoqSession`, `MoqClient` | the control plane of a MOQT session; the loop that opens and polls sessions | `MCMoqClient` |
| `MoqMedia` | objects from the publisher's schedule to the subscriber's counts | `MCMoqMedia` |
| `MoqConnect` | the endpoint cache and the dialling of candidates | `MCStartup` |
| `Process` | a process of either program: `Zakuro`, or the clients of a `zakuro-moq` that was parsed, which connect (`MoqConnect`) | `MCStartup` |
| `MoqTransport` | a session, its readers and the driver of `wt_h3` or `ngtcp2` | `MCMoqTransport` |
| `WtH2Receive` | WebTransport over HTTP/2, receiving: windows of session and streams, readers, stream credit | `MCWtH2Receive` |
| `WtH2Send` | the same, sending: opens that wait for a limit, writes that wait for two windows, answers to the callers | `MCWtH2Send` |
| `Totals` | the total of a sequence of numbers, as a recursive function that can be reasoned about | (operator) |
| `*Proofs` | theorems about the module of that name (`ZakuroProofs` about `VirtualClients` and `Zakuro` with its parts, `OrchestrationProofs` also about `LoadTest` with its parts, `MoqClientProofs` about `MoqSession` and `MoqMedia`, `MoqTransportProofs` about `MoqConnect`) | |

How they fit together. `VirtualClients` is the composition of the clients with the collector and implements
`ClientContract`. `ConnectionLifecycle` opens up one attempt of it, between its `Build` and its row, with the
verdict that is an arbitrary member of `Verdicts` there computed here. `DuckDBWriter` opens up the writer
that both only see as a count of rows or a sequence of row kinds. `LoadTest` composes the threads and
handles of a test with `Summary`: connections end only while the collector runs, and the exit code is
concluded only when the shutdown is over; or it runs `MoqProcess`, the other program, whose clients are what
`MoqClient` opens up. `Zakuro` composes a process with what it starts: what `Startup`
accepted is played by `Instance`, and the channels it parsed are spoken over by `Messaging`. `Composition` proves that
`Zakuro` does to each of the three only what their own specifications allow, so what is proved of a part holds in the whole.
`Process` puts beside it the other program, whose clients connect (`MoqConnect`) once its command line is parsed; the two
clients are interchangeable, so TLC takes them as symmetric. `MoqClient`
extends `MoqSession` and decides when it moves. `MoqMedia` takes the streams as they are promised by `MoqTransport` and the
two `WtH2` modules. These share no variable with each other: the driver keeps separate state for its two
halves, which only meet where a stream of the peer has closed both ways (`SendEnds` in `WtH2Receive`).

### VirtualClients

`pc[v]` is where the loop of client `v` stands; each `await` of `virtual_client::run` is a location, and
what runs between two awaits is one action. The clients differ by mode (`ScenarioVCs`, `TimedVCs`,
`RepeatVCs`, `MaxRetry`) because several instances share one collector. `Send` waits for room and ignores
a closed channel, `TrySend` does neither. The collector takes one event a step and is biased towards the
token. `AggregatorClosed` needs every sender dropped, so every client `done`.

### ConnectionLifecycle

Three actors take the two locks: the event handler (`hpc`), the statistics task (`tpc`) and the loop
(`cpc`); a step between two lock operations is an action. Offer handling is two actions because the
identifiers and the lifecycle have a lock each; the state callback is two because it records first and
fires the oneshot after. `get_stats` and its observation are two, so the connection may move on in
between. Streams appear, carry packets, restart and go away. `truth` is history: what really flowed,
what samples showed. First-observation times of media are only compared with "absent" in the code, so
they are a set; the establishment time is compared with the grace and is a number.

### DuckDBWriter and StatsReport

A client's statistics task takes a report (`Tick`), sends the codecs,
candidates and certificates of it that it has not seen, one after the other and by type (`SendStatic`, of the
`Unseen` entries the one no other is `Before`), and then the sample
(`SendSample`). `seen` is what the task remembers, `todo` the report at hand, and `shown` history:
what any report held. Codecs are told apart by all of their fields and the others by their id alone, which is
`Identity`. A command or a sample is known by its sender and number; `sent` says what a command is. A cycle of `writer_run_loop` is: wait for the first
thing, drain, gather until the window is over, drain, flush. `senders` is the set of handles not yet
dropped, with `"main"` for the orchestrator's and `"self"` for the one the writer object holds itself.

### Orchestration, Summary and Thresholds

`main` is where `async_main` stands, `held` which senders it still owns and through what. A worker is a
thread with a queue of jobs; everything a worker, its instances and their tasks hold lives in its LocalSet
and goes with the thread, so `Alive(w)` stands for all of these senders at once, and `NobodyHolds` is what
the two sinks wait for. An instance is refused when its worker's receiver is gone at the dispatch, lost
when the worker goes with the job in its queue. The set-up of the sinks before the workers is left out.
`Summary` keeps `OutcomeTotals` as the collector does; `applied` is history, the events themselves, which the
properties count anew. A rate is a fraction, compared by multiplying out; a limit that was not given is `Absent`.

### MoqProcess and MoqSettings

`place` is where `async_main` of zakuro-moq stands and `instance[i]` where `run_instance` does; `hatched` and
`client` are its set of tasks. A second Ctrl+C kills the process. `total` stands for each of the shared counters
and `counted` is history. The text of `--tracks` is a sequence of entries and an entry one of fields, so a
name of the file that holds a comma or a colon is several of them. `validate_instance_args` is what becomes of
both lists. `DatagramLength` adds up what `send_next_datagram` sends, as a function of the bytes its
numbers take.

### Arguments, Startup, Instance, Messaging

`Arguments` has four options that stand for all: one of the process and, of an instance, one with a value, one
flag and one that takes true or false. A token is `--key`, `--key=value` or a word, which are the only
differences between strings the code looks at. JSON members become tokens by `push_kv` of each program,
layers are joined, repeated options removed (`dedupe`), and what is left parsed. `Keys` and `Values` are what may be written
as a key and as a value, and hold the strings that the code writes itself. `Startup` goes through the
phases of `main`: the log settings read ahead, the parse, the checks of each instance and against the
common part, the encoders verified, the media of each instance set up.

`Instance` has a thread for each source. `y4m` is the place in the file, the frame and the one before it;
`sound` the place in the audio track, what is left to skip and the queue of decoded samples; `shown` and
`heard` are history. `held` is the transport the audio thread copied out of its lock, so that the call through
it is a later step, as in the code. `encoder` is the OpenH264 encoder with what it was told and `asked` what
it was asked for. `stage` goes through what `run_zakuro_instance` drops, in its order.

`Messaging` is the player of one client, which outlives its connections, and one messaging task for each
connection, which is told to stop and not awaited. A send is two steps: begun, and then done or dropped.

### MoqSession, MoqClient, MoqMedia

The session is a future in the client's task: a select and a fixed tail (migrate, publish, subscribe, end of
turn), which are the locations of `spc`. It moves only in `PollOf`, while the client polls it, and the relay
sends in between. What it opens or writes it awaits where it stands: `opening` (control stream and SETUP), `sending` (an
object), `answering` (a REQUEST_UPDATE), `publishing` and `subscribing` (the drain that opens a stream for one request after
the other) and `shutdown`. These waits have no limit in the code; `Granted` is what ends them, and nothing else of the
session happens meanwhile, no tick and no read. `requested` is what the drain has written. `cpc` is the client's loop. `asked` is the GOAWAY the session recorded and `refused` whether the
library ever had to refuse a request, both history.

In `MoqMedia` time is counted in periods of the track: `lag` says how many the publisher is behind its
schedule. The numbers of the next object, the open stream and the consecutive failures are the publisher's;
`wire` is what was put on each stream, deltas included, `written` the object ids that were meant. Each stream
has a reader task, and all share the channel to the session's task, which counts.

### MoqConnect

`connect_to` of every client of an instance: `lock` is the mutex of the cache, `pc` where a call waits,
`resolved` the state it built or found, `index` the candidate it dials. Time advances only when every client
waits for something outside the process, or for a mutex whose holder does, in units of five seconds.

### MoqTransport

The session awaits one operation at a time (`main`), readers run beside it, the driver is one task. `route`
chooses between the driver of `wt_h3`, which hands over through bounded channels and waits for room in
them (`handing`), and that of `ngtcp2`, which never waits and counts credit. `chan` and `buffer` are what a
reader has not taken; `net` is the peer's side. Handles and errors are those of `stream.rs`.

### WtH2Receive

The driver is one task, so an event or a command is one action. Readers run beside it: what the driver
delivers lies in the channel (`incoming`, a number of bytes, taken in messages of any size) or with the
reader (`buffer`), and what readers report travels through `commands`, so a `Consumed` may be handled
after the stream was reset or stopped. A window is `received`, `consumed` and `grown`, of the session and of each stream; the
credit of the peer follows from these. The peer is the environment and keeps to its windows, which the
WebTransport session (a library) enforces. Data that arrives is one of three actions, as in the code:
discarded after a stop, delivered, or found to have no reader. `stopped` is history.

### WtH2Send

`turn` follows the loop of `Driver::run`: pump the waiting opens, flush the pending writes, then select
one command or read events; one DATA frame of HTTP/2 may bring several (`"events"`). A byte counts as sent
when it is in a capsule. Answers to writes are given at the end of a flush that succeeded
(`after_flush`); `Ends` is any failure of the connection and answers everything that waits. Callers may
give up waiting, and a request that was given up is found out by the driver. What the peer allows is
raised by `Grant`, which no event reports: the driver just begins another turn. The sending half of a
stream the peer opened behaves as that of one opened here, and has no module of its own.

## 3. Runs

A property with several parts is a conjunction of named ones; the comments in the modules say what each part is about.

| run | shows | properties | bounds |
|---|---|---|---|
| `clients` | a scenario client that retries once and a timed client that repeats share a channel of capacity 1 with the collector, with warmup and cancellation anywhere: the count of the connected is never too high, outcomes add up, each attempt leaves its row, cancellation ends all | `ConnectedNeverOvercounts`, `SummarySettled`, `OneRowPerAttempt`, `CancelStopsAll` | attempts 2 and 1, retries 1 and 0 |
| `lifecycle` | verdict, row, identifiers and first observations tell the truth under every interleaving of handler, statistics task and loop | `RowIsTruthful`, `FirstSeenExact` | 2 streams (one each way), 3 samples, 2 instants, stall after 1 sample |
| `writer` | order and completeness of commands, static rows sent once, accounting of samples, and the end of the handshake, with transactions that fail | `CommandsRecorded`, `SamplesAccounted`, `WriterKeepsUp` | 2 connections with 2 and 1 reports, one of them with a candidate twice; sample capacity 1, stop after 2 errors |
| `orchestration` | accounting of the results, sinks that outlive what feeds them, an exit code the connections earned, and the end of the test, with workers that may fail to start and Ctrl+C anywhere; of zakuro-moq, tracks as the file asks for and datagrams that fit, and totals behind the last client | `ResultsAccounted`, `SinksOutliveWorkers`, `ReportEarned`, `TracksAsAsked`, `TestsComplete` | 3 instances on 2 workers, 3 ends of connections of 5 kinds, 5 sets of limits; 2 instances of 2 clients, 2 objects, lists of 2 tracks |
| `startup` | later layers win and both parsers agree, what was accepted can be played, media keep time, the encoder keeps its settings, no thread calls what was dropped, messages of a label are numbered without gap; of zakuro-moq, clients that race for the endpoint cache share its states, and a call to connect ends within its own timeouts having tried all | `LayersAgree`, `InputsArePlayed`, `MediaKeepTime`, `LibraryServed`, `MessagesInSequence`, `SharedState`, `ConnectEnds` | up to 3 words and 2 members, 2 instances; 2 to 3 frames or packets, 2 clients; 2 connections and messages; 2 clients, 2 relays with 1 or 2 addresses, 2 calls each, timeouts of 5, 5 and 15 s |
| `moq_client` | requests in the order the library allows, GOAWAYs followed, ends that have a reason, events in pairs, and what a silent relay can hold up: a session in an open or a write that is awaited, nothing else, and no client that is told to stop | `RequestsInOrder`, `GoawayFollowed`, `EndsForAReason`, `EventsPaired`, `HeldOnlyInWaits` | 2 tracks published and 1 subscribed, 1 retry, GOAWAYs to another, the same and a bad URI |
| `moq_media` | objects are decoded as sent, in order and paced, across writes that fail, pauses and streams that are stopped; each is counted once | `DecodedAsSent`, `PublishesInOrder`, `CountedOnce`, `EndedStreamsAreRead` | 3 objects a group, 2 groups, channel of 1, 2 failures, 2 periods behind, no catching up (10 in the code) |
| `moq_transport` | what arrives is read, exactly and before its FIN, credit is conserved, what is acknowledged was sent, and the driver serves until it ends, by either route | `ArrivesExactly`, `CreditConserved`, `AckedIsSent`, `DriverServes` | a stream of each kind, capacities of 1, 2 bytes, datagrams or requests of the peer, 1 operation |
| `wt_receive` | each byte is given back once and each stream once, the peer is never held up by readers that read, nor let past the window by readers that do not | `WindowsConserved`, `StreamsReturned`, `LeaversSettled` | a stream of each kind, windows of 2, up to 3 bytes on one stream and 1 on another |
| `wt_send` | what is answered was sent, what waits waits only for the peer, and whoever waits hears of the end | `AckedIsSent`, `WaitsOnlyForPeer`, `CallsEnd` | a stream of each kind, windows of 1 and 2, 3 calls, one raise by the peer |
| `payloads` | *violated*: payloads are documented as independent of the driver being held up, but an operation and the driver can wait for each other | `PayloadsAreSent` | as `moq_transport`, `wt_h3` only |
| `unanswered` | *violated*: a relay that answers no PUBLISH is documented to be noticed after 10 s, but the session looks at no deadline while it waits to open the stream of the next one | `SilenceIsNoticed` | 2 tracks published, no subscription, no retry |

Why the bounds are enough. The channel is the only thing clients share in `clients`; capacity 1 makes every
second event wait, and two clients are what "another client's connection" needs; the scenario client makes
two attempts so that an attempt follows each kind of end. In `lifecycle` a stall needs a
sample that moves, one that does not and one that moves again, which is 3 samples; two instants put the
end before and after the grace. Counters go to 1 there, so a restart is one to zero; `ObserverExact` covers
restarts to a smaller count. In `writer`, two commands of one connection are needed for an order to be
broken, a capacity of one for a sample to be dropped, two samples for one to replace or overtake the other,
a candidate twice in a report and in two reports for a row to be sent again, two errors for a failure that is
survived and one that is not; the second connection is there to interleave. In `orchestration`, two workers let one be
lost while the other lives, the third instance waits behind another one on the same worker; three ends of
connections let each limit be met, missed and met exactly, and the theorem about percentiles is for any number of them. Of
zakuro-moq, one instance may be interrupted or fail while the other has a client that runs and one that does not, and a
client may count between two others' ends; the theorem is for any number. Two tracks are what a double name and a largest
size need, and the sizes are the last that fits in a datagram and the next.

In `startup` three words are what an option, a value that may be swallowed and a later word need, and two
instances let the layers differ. The frame rate, the sample rates and the files are chosen not to divide each
other, so that wrapping in the middle of a frame, of a packet and of 10 ms all happen. Two connections let an
old messaging task overlap the new connection. In `moq_client` two tracks let a GOAWAY fall between two
requests, and one retry separates a retried from a last failure. In `moq_media` three objects a group have a
first, a middle and a last; two groups let an end be followed by a new one, and two failures separate one that is survived from
one that ends the session. In `startup`, too, a relay nobody resolved yet is raced for by two
clients, and two addresses separate the last candidate from another. In `moq_transport` capacity 1 makes the
driver wait for room at the second item. In `wt_receive`
the peer sends twice what the session's window holds, so it depends on being given back, and more than
one stream's window. In `wt_send` a write of two is more than the session's window and two such writes more
than the stream's, three calls let one be queued behind a FIN that waits, and the bidirectional limit of
zero keeps an open waiting. Only one stream is written to, so two streams that compete for the session's
window are not exercised. `MaxAttempts`, `MaxTime`, `MaxCount`, `MaxSamples`, `MaxEndings`, `MaxBytes`,
`MaxCalls`, `MaxObjects`, `MaxGrants`, `MaxLag`, `MaxGroups`, `MaxAddrs`, `MaxPeer`, `MaxOps`, `MaxConnections` and `MaxSent`
are bounds of the models and appear only in guards. `CHECK_DEADLOCK FALSE` stands where a system may
really stop: clients that used up their calls, a peer or a reader that does nothing more.

Fairness. Nothing is assumed of the operator, and of a peer or the network only where it says so here.

* `VirtualClients`: the runtime polls a task that is ready, timers fire, a disconnect completes
  (weak fairness of `Progress`), and a task waiting for room in the channel is served in arrival order by the
  channel's semaphore (strong fairness of `Sends`).
* `DuckDBWriter`: the blocking thread runs and its timer fires, clients send what they began and end, the orchestrator
  goes through its shutdown; that a transaction succeeds is not assumed, only that it returns.
* `Orchestration`: threads and ready tasks
  run; an instance is assumed to end only once cancelled, which is what `CancelStopsAll` of `VirtualClients`
  establishes for its clients. `ShutdownCompletes` excepts the state `Bereft` (a lost worker, section 6).
* `MoqProcess`: ready tasks run, timers fire and a look-up returns, well or not. A client ends once it hears the
  token, which is `CancelStops` of `MoqClient`, and otherwise need not.
* `MoqClient`: the client's own turns and a poll that can do something happen (weak fairness); its
  session cannot come back to its select for ever without seeing a deadline (strong fairness of `EstablishExpires`, a
  timer in front of the ticks, and of `TickExpires`, looked at every 50 ms). The relay may grant no stream and stop reading:
  `Resume`, which is all that is awaited of it without a limit, has no fairness.
* `MoqMedia`: readers run while there is data and room, and the session's task empties the channel. The
  publisher, the relay and time are free.
* `MoqTransport`: the session's task, the driver's turns, writes on `wt_h3`, the 5 ms timer and the drop by
  the owner happen; the network drains what was handed to it (of the peer, no more than that it acknowledges); once the session is gone the
  connection ends and its readers leave. That a session is ever given up is not assumed.
* `WtH2Receive`: the driver goes on handling commands (weak fairness); nothing of readers.
* `WtH2Send`: pump and flush go on, a flush returns or the connection ends, events already read are handled,
  `select` takes its branches at random so a command that keeps waiting is taken (strong fairness of
  `Handle`), and an answer wakes its caller; nothing of callers. `CallsReturn` excepts
  calls on a stream that waits for room, and with them a call queued behind a FIN in the turn that used the last room: it can
  only fail, but is told so in the next turn.
* `MoqConnect`, `Startup`, `Instance` and `Messaging` have safety properties only and no fairness. That a
  call of `connect_to` ends in time is one of them, because time is part of the state there.

## 4. Proofs

Every theorem is for any constants that satisfy the module's assumptions: any number of clients, streams,
instances, relays, capacities, retry counts, timeouts.

* `ZakuroProofs`. `TypeCorrect` includes the capacity of the channel. `NeverOvercounts`: the count
  is only compared with reality when the channel is empty, which is not inductive; `CountInv` is. It
  follows the channel from what was applied so far: the `Connected` and `Disconnected` of one client
  alternate in it (`Alternates`), a client that is not live has its last `Disconnected` in it (`Settled`),
  and the snapshot counts at most the clients whose last applied event is `Connected` (`seenLive`, a
  history variable). Sending appends and applying removes the head; the sequence lemmas say what each
  does to the two. `ImplementsContract` is the refinement, with one step lemma per action.
  `SettledSummary` follows the channel once more: the events of a kind that are still in it are what the
  snapshot and the totals lack (`SumInv`), and each attempt but the one under way has its row (`PathInv`).
* `ZakuroProofs` again, of `Startup`. `InputsPlayed` needs that an instance only exists with media settings that were accepted
  alone and against the common ones, and verified before anything runs (`PlayInv`); accepted settings name one video input at most
  (`OneVideoInput`), so the order in which the code looks at the inputs does not matter.
* The same module, of `Arguments`. `LayersAgreed` is about lists of tokens of any length. What a list says of an option is what its
  last mention says (`Reads`). Joining two lists, the later one is believed (`LaterIsRead`); a split keeps what was said of each kind
  of option (`SplitSays`), and so does removing repetitions, after which an option stands once (`DedupedSays`). All of
  them need that each option is followed by its value (`PairedUp`), which `Paired` says of the command line and the code writes
  (`ObjectSays`); an accepted list left no word over (`ParsedReads`), so that a flag written with a value was not accepted.
  The positions where units start are a recursive function, of which `WhereUnitsStart` gives the equation, and a flattened list is
  the end of its beginnings (`BeginningsExist`). The early look at the log level does not need `Paired`: in an accepted list with one
  option the last token is the value (`AcceptedEnds`), and it is the one either scan finds (`ScanFindsLast`, `FileScanFinds`).
* The same module, of `Instance` and `Zakuro`. `ServedLibrary` rests on what the encoder was told, which is what it has unless the
  library refused it (`CodeInv`), and on the thread outliving no context (`ThreadInv`). For `MediaKeepsTime` the reader's place
  is its frame count modulo the frames of the file unless it is past a cut frame (`InPlace`), over any number of skips
  (`SkippedReader`). Of the sound: what is in the queue is the track from where the samples heard so far end, and the next
  packet to decode continues it (`Follows`); that is kept by a packet, by the turn at the end of the track (`WholeTurn`)
  and by a read that takes more packets than one (`FilledSource`), and a read that falls short used a whole turn. `Composition` needs what
  the set-up can choose (`ChosenInv`).
* The same module, of `Messaging` in `Zakuro`. `SpeaksInSequence` needs that what the parse makes of the described channels orders
  their sizes and keeps their labels (`ParsedChannels`), and an invariant (`SaidInv`) of four parts: each message sent was the next of its
  sender and label when it was (`SentInv`); a task counts what it sent under each label, and the next time of a channel is an
  interval after all it sent there (`TaskInv`), which holds across a send that is slow because the message under way is
  numbered but not yet counted; the player's next number is above all it ever sent, on any connection, and the message
  under way is below it (`PlayerInv`); and a connection that is not open yet has no task (`ClientInv`), so that a new task starts
  where nothing was sent. The earliest of a task's channels is one of them (`EarliestIsOne`), and one more message is counted once (`LabelledMore`).
* `ConnectionLifecycleProofs`. The invariant is in four parts: what the observer recorded is what samples
  showed (`ObserverInv`); what samples showed happened (`TruthInv`); each fact is published after those it
  rests on (`OrderInv`); the row comes from a copy for which all this held (`RowInv`). The theorems
  follow from it and from two lemmas about `judge`; `RowTruthful` joins them to what the run checks.
* `OrchestrationProofs`. `SoleHandleAtStop` needs that workers are joined in order (`JoinInv`);
  `SummaryCoversTest` that the sinks' senders outlive the dispatch and the workers (`CoverInv`) and that
  no instance waits or runs on a worker that ended (`QueueInv`); `SinksOutlive` is both. `ResultsAccounted` is a statement about
  cardinalities: each step adds one instance to one of two sets or keeps both, which needs that a queue
  holds each job once and only queued ones.
* `WtH2Proofs`, of `WtH2Receive`. The invariant has three parts beside the types: `WindowInv` (the peer kept to the
  window and only what was consumed was given back, hence `Bounded`), `CreditInv` (a stream of the peer is remembered
  exactly until both directions closed, hence `AllReturned`) and `StopInv` (commands and readers are of streams
  that were opened, and a stopped stream has no receive state and never gets one again: an open happens once).
  `AfterStop` is an action property: only `HandleConsumed` grows the window of a stream, and it does so only
  for one with a receive state. `WindowsAreConserved` rests on these and on `BytesInv`, whose part besides the property is
  that nothing is counted of a stream before it opens (`FreshInv`): a step concerns one stream, so one term of the sum over all
  readers changes, and one command at an end of the queue (`LedgerStep`); a window that was looked at leaves half
  of it once all is consumed (`GrowOpens`), and data that arrives keeps that vacuously, because no more is consumed than
  was received, which the sums give.
* The same module, of `WtH2Send`. The calls of a stream are a line (`Line`): answered, answered after the flush, pending, in
  the queue, each ahead of the next and none missing (`InOrder`, `Found`). That a call is in one place is not inductive
  without the order, and the order needs that calls are numbered as they are made. One lemma says what each kind of step makes of one
  line (`NewCall`, `QueueHeadTaken`, `PendingFails`, `FlushAnswered`, ...), and `LineShrinks` joins those that only
  take away; the requests to open have a shorter one (`OpenLine`). `Paid` is the account of the bytes: what was sent covers what was
  answered and the part of the first write that is gone. From these, `AnsweredIsSent` and the first half of
  `WaitingIsForPeer`. The other half: a flush visits every stream with something pending, once, as many streams as
  `SetToSeqs` has places (`SetToSeqsHasAll`, by the pigeonhole principle), and a stream that was left without room gains none while others
  send (`WorkInv`, `RoomUsed`); a session that ends tries every open in the turn (`DrainInv`). `EndIsFinal` is an action property.
* `MoqTransportProofs`, of `MoqConnect`. `SharedStates` needs that who dials uses what is in the cache and that what is there
  stays (`UsesCached`, `CacheInv`). `CallsBounded` needs that time passes only while nobody waits for the mutex
  (`NobodyQueues`, from `HoldsLock`): with the mutex free a waiter runs, and its holder never waits. Candidates
  are dialled one after the other (`InOrder`), so that each wait is within what the timeouts so far add up to
  (`InTime`). A step moves one client, and `Undisturbed` says once what it leaves of the others.
* `OrchestrationProofs` again, of `Thresholds`. `PercentileMeaning`: the nearest rank is the least one that covers p of 100
  (`RankIsCeiling`), and in ascending order the values within a limit come first, so comparing one value
  with the limit counts all of them.
* The same module, of `MoqProcess`. `TotalsAreComplete` needs that starting is in order and stops short only on an interruption
  (`HatchInv`), that what was waited for stays ended (`JoinInv`), and that the shared counter is the sum over the clients
  (`CountedInv`).
* The same module, of `LoadTest`. `ReportIsEarned` needs that what was added up is what is counted anew in the events
  (`CollectedInv`) and that nothing is added once the limits were compared (`ComparedInv`): connections end only while the
  collector runs, and a test that is over stays over. The sorted times are any rearrangement in ascending order, of which there is
  one for times of any number (`OrderExists`); it has as many within a limit as the events have (`SortedTimes`), and so
  `PercentileMeaning` makes of the rank what the limit asks (`P95Earned`). `TracksAreAsAsked` compares two ways from a list to the
  tracks. What the list of the file becomes when it is written as an option and taken apart again is the list itself, member by
  member, if and only if no name falls apart (`AcceptedAsAsked`, with `JoinedIsText` and `JoinedSingles` of what joins);
  four numbers of eight bytes, and what else a datagram has before its payload, are no more than the 48 the check
  allows for (`PayloadFits`).
* `MoqClientProofs`. The invariant has a part for the session and one for the client's loop. `SessionInv` says
  what each location of the session's turn has behind it: a GOAWAY that was read is taken before the next
  request and before any wait (`GoawayTaken`, over `Waits`), and answers only come for what was asked, which the subscriptions are last (`AskedFirst`);
  `RequestsAreInOrder` is its outcome. `ClientInv` ties the locations of the loop to the session it
  polls, to the last event sent (`EventInv`) and to the reason it is on its way out for (`EndInv`).
  `EventsArePaired` is an action property: which step sends which event, given `EventInv`.
* The same module, of `MoqMedia`. A step of the publisher touches the last stream only, so the invariant speaks of every stream and
  of the open one. `GroupInv`: groups go up, the open stream has the group of the next object, and without one that
  group is new, which is why none is opened twice. `DecodeInv`: the differences on a stream are those of the ids
  written, and its reader, `taken` objects along, holds the id it adds the next difference to; `NumberInv` says
  that the publisher's previous id is the last one written, whatever a filter left out. `DecodesAsSent` follows.
  `PaceInv` is the token bucket: what the schedule owes covers the lag, or is as much as is ever caught up with.
  `CountedInv` is the way of an object to the counter: what the readers took is counted or in the channel (`CountInv`,
  a sum over the streams and one over the messages), a reader that is done read up to the FIN (`EndsInv`), and the messages
  of a stream come in an order that keeps its alias known until its last object (`Ordered`); `ObjectsAreCountedOnce` is
  what is left of it when the channel is empty.
* `DuckDBWriterProofs`. A command goes from the channel to the gathered ones to the database, so the proof follows one
  sequence, `Commands`, of all three: sending appends to it, gathering and committing leave it as it is
  (`MoveHead`), and only a rolled back transaction takes its middle out (`DropMiddle`). `QueueInv` says that it is in the order of
  the senders and, without a failure, complete and ended by the stop time; `HandshakeInv` that nothing is in the
  channel or gathered when the writer returns; `ReportInv` that what was shown is seen or at hand, and sent once.
  `CommandsAreRecorded` joins them. `SampleInv` orders the samples of a connection along
  their way, committed, gathered, in the channel, and `NewestCommitted` follows for the one step that commits.
  `SamplesAreAccounted` adds up the samples of all connections with `TotalsProofs`.

* `MoqTransportProofs`, of `MoqTransport`. `StreamsArriveExactly` needs, of each stream, that the bytes read, the rest in the
  reader's buffer and the chunks in its channel continue each other up to what the peer sent (`Chain`, a sequence of marks
  between the chunks), and that an end is the last chunk (`ReadInv`); that a stream handed over is in one place and not read
  yet (`QueueInv`), so that no second reader starts on it; and that ngtcp2 keeps a receiver for every stream still read
  (`ReceiverInv`), so that no data falls beside the channel. `AcknowledgedIsSent` needs that one operation of the session
  is under way at a time (`AskInv`): an answer then is for the write that waits. `EveryByteIsCredited` is about a sum over the
  stream's chunks and one over the queue of commands; both change at an end or in the middle by what one step does.
* `TotalsProofs`. What a total is after appending, taking the head and concatenating (`TotalOfConcat`), by induction; the
  induction principle is stated about a set of numbers (`Induction`), not a predicate, and follows from the
  well-foundedness of the natural numbers. `Tally` is the total of a weight over a sequence, `TallyOfFlatten` the one over commands
  that are queued in any order for every stream that is dropped; `TotalOver` is the total over a finite set, in the order of
  some enumeration, of which one term may change (`TotalOverExcept`).

Out of the prover's reach and checked by TLC only: liveness (`CancelStopsAll`, `WriterKeepsUp`, `TestsComplete`,
`LeaversSettled`, the `CallsReturn` of `WtH2Send`, `HeldOnlyInWaits`, `EndedStreamsAreRead`, `DriverServes`) and
whatever needs ENABLED. Every safety property of the passing runs is proved.

## 5. Not modelled

* Arguments: `--config` given twice, duplicate keys in JSON, help, version and capability listings, the value of a
  numeric option, addresses. Options are represented by four. Of the tracks: white space, the length of a name,
  members of a wrong type, which the parse of the file refuses.
* Media: pixels and drawing, samples, the parsing of WAV chunks and MP4 boxes, the tolerance of half a frame, the frame rate
  in `set_rates`,
  the overflow of time times rate in `y4m_reader.rs`.
* Messaging: the random generator and its seeds, the bytes of a payload and of its header, scenarios other than
  those the program builds or its tests use; of the reconnect scenario's sleeps, the lengths but for a bound.
* Statistics: the extraction of fields from a report, the binding of columns and the constraints of the
  tables; the reporters, which only log; the text and JSON of the summary and the order of failure reasons;
  ICE and signaling state strings, which are only copied into the row.
* MOQT: the encoding of messages (a library), FETCH, parameters of messages.
* Transports: the routes by `s2n`, `tobi` and `qmux`, adapters without a queue of their own; the limit of 64
  writes at a time and writes that hold each other up by it, CONNECTION_CLOSE at the drop of the last handle, keep-alive,
  the configuration of TLS and QUIC. How the peer grants streams and credit is in `WtH2Send` for WebTransport over HTTP/2
  only; `MoqSession` knows no more than that an open or a write may wait for ever.
* WebTransport over HTTP/2: the handshake, datagrams, the timer of the keep-alive PING, and the windows
  of HTTP/2 under the capsules; the WebTransport session and HTTP/2 are libraries, taken from how the
  driver uses them.
* Poisoned mutexes (a panic inside a lock), a panic of a client task or of the aggregator. Log filtering, the
  HTTP server, JSON formatting: text in, text out, no state of the test.

## 6. Observations

What the models show of the code that a reader may want to know. Each is a violated run, or follows from a
guard or an exception in a module, which is named.

* `wt_h3.rs:190`: inside the receive branch of its select the driver waits for room in a channel that only
  the session drains, while the session waits for the driver's answer to an open or a datagram; neither
  goes on until the session is dropped. The comment at `wt_h3.rs:169` says that payloads are not affected (run `payloads`).
* `virtual_client.rs:373`: `Disconnected` is sent for an attempt that never sent `Connected`, so `connected`, documented at
  `stats.rs:75` as the number of connected clients, may lose the connection of another client. It never counts too many
  (`ConnectedNeverOvercounts`).
* `connection_lifecycle.rs:304`: idle samples before the first packet count, so media that starts late is
  `stalled`, which `:311` explains as media that was moving (`ConnectionLifecycle`).
* `writer.rs:349`: control commands go with a transaction that fails, which `:260` says they never do; what
  comes later is neither reordered nor doubled (`CommandsRecorded` allows the gap only after `failed`).
* `virtual_client.rs:540`: a codec, candidate or certificate is noted as sent before it is written; when its
  transaction is rolled back it is missing for the rest of the connection (`StaticsOnce`).
* `main.rs:659`: the wait for the results is said at `:657` to be cut short when a worker ends abnormally,
  but the channel closes only when every worker is gone: with another one alive, it lasts (`Bereft`).
* `main.rs:1204`: a hatch rate that is not a number or very small passes the check for a positive rate and
  panics when the interval is made.
* `zakuro-moq/src/args.rs:991`: a track of the file is written into an option as it stands, so one whose name holds a comma
  or a colon becomes several tracks, or a name with a rate, without a word (`TracksAsAsked` excepts it).
* `zakuro-moq/src/main.rs:160`: an instance that fails is logged and the process still exits with success, also when all
  of them fail (`InstancesJoined`); `:247`: the look-up of the relay does not watch the token, so Ctrl+C waits for it.
* `main.rs:980`: an `--input-wav` that is given together with an input device is accepted and not played
  (`InputsArePlayed` excepts it).
* `args.rs:496`: true for an option that takes a value becomes a bare `--key`, which takes the next word of
  the list for its value (`Arguments`).
* `wt_h2.rs:1449`: the first open that meets its limit ends the pass for both kinds of stream, which `:1447`
  justifies by their meeting the same limit; each kind has its own (the pump of `WtH2Send` goes by it, and
  `WaitsOnlyForPeer` does not forbid the wait behind the other kind).
* `session.rs:1941`: the timeout for an unanswered request is noticed by a tick, which does not run while the session
  waits for the relay to grant the stream of a request or to read one, an answer or an object. A relay that grants one
  stream and answers nothing keeps a connected client half set up until the token or the duration ends it; `:1188` says
  that there is no waiting on, for the timeout of 10 s finds it (run `unanswered`; `HeldOnlyInWaits` excepts these waits).
* `session.rs:800`: our control stream is opened and SETUP written before `ESTABLISH_TIMEOUT`, called the limit of the
  exchange of SETUP at `:74`, begins to count, so a relay that grants no stream keeps the client from ever being
  established or retried until the token ends it (the turn `opening`).
* `threshold.rs:91`: with the limit on stalled connections alone, a test none of whose connections was counted succeeds,
  which the head of the file says it means to avoid (`Earned` in `Summary` has it so).
* `openh264_video_codec.rs:181`: what follows a refusal of the library, an encoder that could not be made, is in the model,
  but `LibraryServed` says nothing of it.
* `transport.rs:790`: addresses are resolved once for the life of an instance; a relay that moves is not found
  again (`Register` is the only action that writes the cache).
