----------------------------- MODULE MoqTransport -----------------------------
(***************************************************************************)
(* A connection between the task of a MOQT session and the driver task     *)
(* that owns the transport, for the two routes that put channels between   *)
(* them: WebTransport over HTTP/3 (wt_h3.rs) and QUIC by ngtcp2            *)
(* (quic/ngtcp2.rs), behind the one interface of stream.rs.                *)
(*                                                                         *)
(* The session's task awaits one operation at a time: while it opens a     *)
(* stream, writes or sends a datagram it accepts nothing. Each stream it   *)
(* accepted is read by a task of its own. The driver of wt_h3 hands over   *)
(* through bounded channels and waits for room in them; the driver of      *)
(* ngtcp2 never waits, and gives credit back only for what was read.       *)
(* Writing on wt_h3 does not pass through its driver.                      *)
(***************************************************************************)
EXTENDS Integers, Sequences, FiniteSets, FiniteSetsExt, SequencesExt, Totals

CONSTANTS
  Routes,            (* among "wt_h3", "ngtcp2"                             *)
  Uni, Bidi,         (* streams the peer opens                              *)
  Capacity,          (* INCOMING_STREAM_CAPACITY                            *)
  DatagramCapacity,  (* INCOMING_DATAGRAM_CAPACITY                          *)
  ReadSize,          (* the buffer a reader reads into                      *)
  None,
  MaxPeer,           (* bound: bytes, datagrams and requests of the peer *)
  MaxOps             (* bound: operations of the session                    *)

Streams == Uni \cup Bidi
Kinds == {"uni", "bidi", "datagram"}
Operations == {"open", "write", "finish", "reset", "datagram", "close"}

ASSUME TransportAssumption ==
  /\ Routes \subseteq {"wt_h3", "ngtcp2"}
  /\ Uni \cap Bidi = {} /\ "out" \notin Streams /\ Streams \cap Nat = {}
  /\ None \notin Streams \cup {"ok", "failed", "stopped", "fin", "reset"}
  /\ Capacity \in Nat \ {0} /\ DatagramCapacity \in Nat \ {0} /\ ReadSize \in Nat \ {0}
  /\ MaxPeer \in Nat /\ MaxOps \in Nat

VARIABLES
  route,
  main,              (* "serving", the operation awaited, or "gone"         *)
  subscribed,        (* whether the session reads datagrams                 *)
  out,               (* the session has a stream to send on                 *)
  ops,               (* operations so far                                   *)
  reply,             (* None, or how the awaited operation ended            *)
  driver,            (* "pass", "select", "handing" or "stopped"            *)
  handing,           (* wt_h3: what it waits to hand over                   *)
  requests,          (* commands on their way to the driver                 *)
  queue,             (* of each kind: handed over, not yet accepted         *)
  opens,             (* ngtcp2: opens that wait for the peer's limit        *)
  writes,            (* ngtcp2: a write that waits for the send queue       *)
  senders,           (* ngtcp2: send directions the driver knows            *)
  receivers,         (* ngtcp2: receive directions it forwards to           *)
  limit,             (* streams the peer still lets the session open        *)
  backlog,           (* whether the transport holds unsent data             *)
  net,               (* the peer's side of each stream                      *)
  sent,              (* bytes the transport received on each stream         *)
  chan,              (* what its reader has not taken: chunks and the end   *)
  buffer,            (* the rest of the chunk its reader took               *)
  reader,            (* "none", "queued", "reading", or how it ended        *)
  credited,          (* ngtcp2: bytes of flow control given back            *)
  got,               (* history: bytes returned by read                     *)
  arrived, taken     (* history: what the driver received, what was accepted *)

app == <<main, subscribed, out, ops, reply>>
sending == <<opens, writes, senders, limit, backlog>>
streams == <<net, sent, chan, buffer, reader, credited, got>>
flow == <<arrived, taken>>
vars == <<route, app, driver, handing, requests, queue, receivers, sending, streams, flow>>

(* Chunks of received bytes, and the end of a stream.                       *)
Chunk(first, size) == [first |-> first, size |-> size, end |-> None]
Empty == Chunk(0, 0)
End(how) == [first |-> 0, size |-> 0, end |-> how]
KindOf(s) == IF s \in Uni THEN "uni" ELSE "bidi"

Init ==
  /\ route \in Routes
  /\ main = "serving" /\ subscribed \in BOOLEAN /\ out \in BOOLEAN /\ ops = 0 /\ reply = None
  /\ driver = "select"
  /\ handing = None /\ requests = <<>> /\ queue = [k \in Kinds |-> <<>>]
  /\ opens = 0 /\ writes = FALSE /\ senders = {x \in {"out"} : out} /\ receivers = {}
  /\ limit = 0 /\ backlog = FALSE
  /\ net = [s \in Streams |-> "unseen"]
  /\ sent = [s \in Streams |-> 0]
  /\ chan = [s \in Streams |-> <<>>]
  /\ buffer = [s \in Streams |-> Empty]
  /\ reader = [s \in Streams |-> "none"]
  /\ credited = [s \in Streams |-> 0]
  /\ got = [s \in Streams |-> <<>>]
  /\ arrived = [k \in Kinds |-> <<>>] /\ taken = [k \in Kinds |-> <<>>]

(* What the peer may still send.                                            *)
Remaining ==
  MaxPeer - Len(arrived["datagram"]) - Len(arrived["bidi"])
    - FoldSet(LAMBDA s, n : n + sent[s], 0, Streams)

-----------------------------------------------------------------------------
(* Commands. They are dropped, and their senders told, once the driver is   *)
(* gone.                                                                    *)

Sent(commands) == IF driver = "stopped" THEN requests ELSE requests \o commands

(* Bytes handed to a reader that it has not read.                           *)
Unread(s) ==
  buffer[s].size + Total([i \in 1 .. Len(chan[s]) |-> chan[s][i].size])

(* Drop for RecvStream: what was not read is given back (nothing is, when   *)
(* that is 0), then the peer is told to stop.                               *)
Consumed(s, size) ==
  IF size = 0 THEN <<>> ELSE <<[op |-> "consumed", id |-> s, size |-> size]>>
DropWithoutUnread(s) ==                                             \* MUTANT
  IF route # "ngtcp2" THEN <<>>
  ELSE Append(Consumed(s, buffer[s].size), [op |-> "stop", id |-> s])
DropReceive(s) ==
  IF route # "ngtcp2" THEN <<>>
  ELSE Append(Consumed(s, Unread(s)), [op |-> "stop", id |-> s])

(* Drop for SendStream.                                                     *)
DropSend(id) ==
  IF route # "ngtcp2" THEN <<>> ELSE <<[op |-> "drop", id |-> id]>>

(* The reader's end of a stream goes, in the state "how".                   *)
Release(s, how) ==
  /\ reader' = [reader EXCEPT ![s] = how]
  /\ chan' = [chan EXCEPT ![s] = <<>>]
  /\ buffer' = [buffer EXCEPT ![s] = Empty]

-----------------------------------------------------------------------------
(* The session's task.                                                      *)

AcceptUni ==
  /\ main = "serving" /\ queue["uni"] # <<>>
  /\ LET s == Head(queue["uni"])
     IN  /\ queue' = [queue EXCEPT !["uni"] = Tail(@)]
         /\ taken' = [taken EXCEPT !["uni"] = Append(@, s)]
         /\ reader' = [reader EXCEPT ![s] = "reading"]
  /\ UNCHANGED <<route, app, driver, handing, requests, receivers, sending, net, sent, chan, buffer,
                 credited, got, arrived>>

(* Requests of the peer are not served: both halves are dropped.            *)
AcceptBidi ==
  /\ main = "serving" /\ queue["bidi"] # <<>>
  /\ LET s == Head(queue["bidi"])
     IN  /\ queue' = [queue EXCEPT !["bidi"] = Tail(@)]
         /\ taken' = [taken EXCEPT !["bidi"] = Append(@, s)]
         /\ requests' = Sent(DropReceive(s) \o DropSend(s))
         /\ Release(s, "left")
  /\ UNCHANGED <<route, app, driver, handing, receivers, sending, net, sent, credited, got, arrived>>

(* recv_datagrams: one, and all the others that are there.                  *)
RecvDatagrams ==
  /\ main = "serving" /\ subscribed /\ queue["datagram"] # <<>>
  /\ queue' = [queue EXCEPT !["datagram"] = <<>>]
  /\ taken' = [taken EXCEPT !["datagram"] = @ \o queue["datagram"]]
  /\ UNCHANGED <<route, app, driver, handing, requests, receivers, sending, streams, arrived>>

(* Operations that ask the driver. The streams of wt_h3 write by themselves. *)
Asks(op) == route = "ngtcp2" \/ op \in {"open", "datagram", "close"}

Start(op) ==
  /\ main = "serving"
  /\ op # "close" => ops < MaxOps
  /\ op = "open" => ~out
  /\ op \in {"write", "finish", "reset"} => out
  /\ main' = op /\ reply' = None /\ ops' = IF op = "close" THEN ops ELSE ops + 1
  /\ requests' = IF Asks(op) THEN Sent(<<[op |-> op, id |-> "out"]>>) ELSE requests
  /\ backlog' = (backlog \/ (route = "wt_h3" /\ op \in {"write", "finish"}))
  /\ UNCHANGED <<route, subscribed, out, driver, handing, queue, opens, writes, senders, limit, receivers,
                 streams, flow>>

(* The session is over: its handle, acceptors and streams go, and its       *)
(* readers are cancelled.                                                   *)
Leave ==
  /\ main' = "gone" /\ reply' = None /\ out' = FALSE
  /\ LET queued == queue["uni"] \o queue["bidi"]
     IN  /\ requests' = Sent(FlattenSeq([i \in DOMAIN queued |->
                               DropReceive(queued[i]) \o
                               IF queued[i] \in Bidi THEN DropSend(queued[i]) ELSE <<>>])
                             \o IF out THEN DropSend("out") ELSE <<>>)
         /\ reader' = [s \in Streams |-> IF s \in ToSet(queued) THEN "left" ELSE reader[s]]
         /\ chan' = [s \in Streams |-> IF s \in ToSet(queued) THEN <<>> ELSE chan[s]]
         /\ buffer' = [s \in Streams |-> IF s \in ToSet(queued) THEN Empty ELSE buffer[s]]
  /\ queue' = [k \in Kinds |-> <<>>]
  /\ UNCHANGED <<subscribed, ops, route, driver, handing, sending, receivers, net, sent, credited, got, flow>>

(* The answer, or the closed channel. A stream that ended or failed is      *)
(* dropped; an open or a datagram that failed ends the session.             *)
Resume ==
  /\ main \in Operations
  /\ reply # None \/ driver = "stopped"
  /\ IF main = "close" \/ (reply # "ok" /\ main \in {"open", "datagram"}) THEN Leave
     ELSE LET over == main \in {"finish", "reset"} \/ reply # "ok"
          IN  /\ main' = "serving" /\ reply' = None
              /\ out' = (main = "open" \/ (out /\ ~(main # "datagram" /\ over)))
              /\ requests' = IF out /\ ~out' THEN Sent(DropSend("out")) ELSE requests
              /\ UNCHANGED <<subscribed, ops, route, driver, handing, queue, sending, receivers, streams,
                             flow>>

(* Every channel is closed: the loop ends.                                  *)
AcceptNone ==
  /\ main = "serving" /\ driver = "stopped" /\ queue["uni"] = <<>> /\ queue["bidi"] = <<>>
  /\ Leave

(* The client drops the session wherever it waits (SESSION_SHUTDOWN_TIMEOUT). *)
Abandon == main # "gone" /\ Leave

-----------------------------------------------------------------------------
(* The readers.                                                             *)

Bytes(chunk, n) == [i \in 1 .. n |-> chunk.first + i - 1]

(* RecvStream::read: the rest of the chunk it holds, else the next chunk,   *)
(* the end, or an error when the channel is closed.                         *)
NextChunk(s) == IF buffer[s].size > 0 THEN buffer[s] ELSE Head(chan[s])

(* What stays in the buffer when n bytes of a chunk were returned.          *)
KeepOffset(chunk, n) == Chunk(chunk.first, chunk.size - n)          \* MUTANT
Keep(chunk, n) == Chunk(chunk.first + n, chunk.size - n)

ReadData(s) ==
  LET chunk == NextChunk(s)
      n == IF chunk.size < ReadSize THEN chunk.size ELSE ReadSize
  IN  /\ got' = [got EXCEPT ![s] = @ \o Bytes(chunk, n)]
      /\ buffer' = [buffer EXCEPT ![s] = Keep(chunk, n)]
      /\ chan' = IF buffer[s].size > 0 THEN chan ELSE [chan EXCEPT ![s] = Tail(@)]
      /\ requests' = IF route = "ngtcp2" THEN Sent(Consumed(s, n)) ELSE requests
      /\ UNCHANGED reader

Read(s) ==
  /\ reader[s] = "reading"
  /\ \/ /\ buffer[s].size > 0 \/ (chan[s] # <<>> /\ Head(chan[s]).end = None)
        /\ ReadData(s)
     \/ /\ buffer[s].size = 0 /\ chan[s] # <<>> /\ Head(chan[s]).end # None
        /\ requests' = Sent(DropReceive(s))
        /\ Release(s, Head(chan[s]).end)
        /\ UNCHANGED got
     \/ /\ buffer[s].size = 0 /\ chan[s] = <<>>
        /\ driver = "stopped" \/ (route = "ngtcp2" /\ s \notin receivers)
        /\ requests' = Sent(DropReceive(s))
        /\ Release(s, "error")
        /\ UNCHANGED got
  /\ UNCHANGED <<route, app, driver, handing, queue, receivers, sending, net, sent, credited, flow>>

(* A reader returns early: it cannot decode, or it is cancelled.            *)
ReaderLeaves(s) ==
  /\ reader[s] = "reading"
  /\ requests' = Sent(DropReceive(s))
  /\ Release(s, "left")
  /\ UNCHANGED <<route, app, driver, handing, queue, receivers, sending, net, sent, credited, got, flow>>

-----------------------------------------------------------------------------
(* The driver of wt_h3: run. It waits in the branch it took.                *)

(* What a driver drops when it returns.                                     *)
Stop ==
  /\ driver' = "stopped" /\ handing' = None
  /\ requests' = <<>> /\ receivers' = {} /\ senders' = {} /\ opens' = 0 /\ writes' = FALSE
  /\ limit' = 0 /\ backlog' = FALSE

H3 == route = "wt_h3" /\ driver = "select"

Receive(kind, item) ==
  /\ H3
  /\ driver' = "handing" /\ handing' = [kind |-> kind, item |-> item]
  /\ arrived' = [arrived EXCEPT ![kind] = Append(@, item)]

H3Stream(s) ==
  /\ net[s] = "unseen" /\ (s \in Bidi => Remaining > 0)
  /\ Receive(KindOf(s), s)
  /\ net' = [net EXCEPT ![s] = "open"]
  /\ reader' = [reader EXCEPT ![s] = "queued"]
  /\ UNCHANGED <<route, app, requests, queue, receivers, sending, sent, chan, buffer, credited,
                 got, taken>>

H3Datagram ==
  /\ Remaining > 0
  /\ Receive("datagram", Len(arrived["datagram"]) + 1)
  /\ UNCHANGED <<route, app, requests, queue, receivers, sending, streams, taken>>

CapacityOf(kind) == IF kind = "datagram" THEN DatagramCapacity ELSE Capacity

Handing == driver = "handing"

(* Sender::send waits for room.                                             *)
HandOver ==
  /\ Len(queue[handing.kind]) < CapacityOf(handing.kind)
  /\ queue' = [queue EXCEPT ![handing.kind] = Append(@, handing.item)]

(* It fails only when the receiver is gone.                                 *)
H3Deliver ==
  /\ Handing
  /\ IF main = "gone"
     THEN /\ Stop
          /\ reader' = [s \in Streams |-> IF s = handing.item THEN "left" ELSE reader[s]]
          /\ UNCHANGED queue
     ELSE /\ HandOver
          /\ driver' = "select" /\ handing' = None
          /\ UNCHANGED <<requests, receivers, sending, reader>>
  /\ UNCHANGED <<route, app, net, sent, chan, buffer, credited, got, flow>>

(* An open fails at the peer's limit instead of waiting. A datagram may be  *)
(* refused.                                                                 *)
H3Command ==
  /\ H3 /\ requests # <<>>
  /\ IF Head(requests).op = "close"
     THEN Stop /\ reply' = "ok"
     ELSE /\ requests' = Tail(requests)
          /\ UNCHANGED <<driver, handing, receivers, senders, opens, writes, backlog>>
          /\ IF Head(requests).op = "open" /\ limit > 0
             THEN reply' = "ok" /\ limit' = limit - 1
             ELSE /\ reply' \in (IF Head(requests).op = "open" THEN {} ELSE {"ok"}) \cup {"failed"}
                  /\ UNCHANGED limit
  /\ UNCHANGED <<route, main, subscribed, out, ops, queue, streams, flow>>

(* The peer ends the session, or every handle is gone.                      *)
H3Ends ==
  /\ H3
  /\ Stop
  /\ UNCHANGED <<route, app, queue, streams, flow>>

H3MaxStreams ==
  /\ H3 /\ limit = 0
  /\ limit' = 1
  /\ UNCHANGED <<route, app, driver, handing, requests, queue, opens, writes, senders, backlog,
                 receivers, streams, flow>>

(* The streams of wt_h3 are served without the driver.                      *)
H3Writes ==
  /\ route = "wt_h3" /\ main \in {"write", "finish", "reset"} /\ reply = None
  /\ \/ reply' = "ok" /\ backlog' = FALSE
     \/ reply' = "failed" /\ UNCHANGED backlog
  /\ UNCHANGED <<route, main, subscribed, out, ops, driver, handing, requests, queue, opens, writes,
                 senders, limit, receivers, streams, flow>>

H3Data(s, n, end) ==
  /\ route = "wt_h3" /\ driver # "stopped" /\ net[s] = "open"
  /\ n \in 0 .. Remaining /\ (n > 0 \/ end # None)
  /\ sent' = [sent EXCEPT ![s] = @ + n]
  /\ net' = [net EXCEPT ![s] = IF end = None THEN @ ELSE end]
  /\ chan' = IF reader[s] \notin {"queued", "reading"} THEN chan
             ELSE [chan EXCEPT ![s] = @ \o (IF n > 0 THEN <<Chunk(sent[s] + 1, n)>>
                                            ELSE <<>>)
                                        \o (IF end # None THEN <<End(end)>> ELSE <<>>)]
  /\ UNCHANGED <<route, app, driver, handing, requests, queue, receivers, sending, buffer, reader,
                 credited, got, flow>>

-----------------------------------------------------------------------------
(* The driver of ngtcp2: drive. Each turn first serves what waited.         *)

(* After every command and event. A turn that finds nothing waiting is no   *)
(* step of its own.                                                         *)
NextTurn ==
  /\ driver' = IF opens' > 0 \/ writes' THEN "pass" ELSE "select"
  /\ UNCHANGED handing

OwnerAlive == main # "gone" \/ \E s \in Streams : reader[s] = "reading"

Selecting == route = "ngtcp2" /\ driver = "select"

(* open_pending, flush, and the answer to the writes once nothing is left   *)
(* to send. An open whose caller is gone is dropped.                        *)
AnsweredOnFlush == writes                                           \* MUTANT
Answered == writes /\ ~backlog
Pass ==
  /\ route = "ngtcp2" /\ driver = "pass"
  /\ driver' = "select" /\ UNCHANGED handing
  /\ LET opened == opens > 0 /\ main = "open" /\ limit > 0
     IN  /\ opens' = IF opened \/ main # "open" THEN 0 ELSE opens
         /\ limit' = IF opened THEN limit - 1 ELSE limit
         /\ senders' = IF opened THEN senders \cup {"out"} ELSE senders
         /\ writes' = (writes /\ ~Answered)
         /\ reply' = IF opened \/ (Answered /\ main \in {"write", "finish"} /\ reply = None)
                     THEN "ok" ELSE reply
  /\ UNCHANGED <<route, main, subscribed, out, ops, requests, queue, backlog, receivers,
                 streams, flow>>

(* The timer of 5 ms: an acknowledgement is not an event.                   *)
TimerForOpens ==                                                    \* MUTANT
  /\ Selecting /\ opens > 0
  /\ driver' = "pass" /\ UNCHANGED handing
  /\ UNCHANGED <<route, app, requests, queue, receivers, sending, streams, flow>>
Timer ==
  /\ Selecting /\ writes
  /\ driver' = "pass" /\ UNCHANGED handing
  /\ UNCHANGED <<route, app, requests, queue, receivers, sending, streams, flow>>

Answer(op, result) == reply' = IF main = op THEN result ELSE reply

(* The biased select takes a command before anything else.                  *)
Command(op) ==
  /\ Selecting /\ requests # <<>> /\ Head(requests).op = op
  /\ requests' = Tail(requests)

CommandOpen ==
  /\ Command("open")
  /\ opens' = opens + 1
  /\ UNCHANGED <<route, app, queue, receivers, writes, senders, limit, backlog, streams, flow>>

CommandWrite(op) ==
  /\ op \in {"write", "finish"} /\ Command(op)
  /\ IF "out" \in senders
     THEN \/ writes' = TRUE /\ backlog' = TRUE /\ UNCHANGED reply
          \/ Answer(op, "failed") /\ UNCHANGED <<writes, backlog>>
     ELSE Answer(op, "failed") /\ UNCHANGED <<writes, backlog>>
  /\ UNCHANGED <<route, main, subscribed, out, ops, queue, receivers, opens, senders, limit,
                 streams, flow>>

CommandReset ==
  /\ Command("reset")
  /\ senders' = senders \ {"out"}
  /\ \E result \in {"ok", "failed"} : Answer("reset", result)
  /\ UNCHANGED <<route, main, subscribed, out, ops, queue, receivers, opens, writes, limit,
                 backlog, streams, flow>>

CommandDatagram ==
  /\ Command("datagram")
  /\ \E result \in {"ok", "failed"} : Answer("datagram", result)
  /\ UNCHANGED <<route, main, subscribed, out, ops, queue, receivers, sending, streams, flow>>

CommandConsumed ==
  /\ Command("consumed")
  /\ credited' = [credited EXCEPT ![Head(requests).id] = @ + Head(requests).size]
  /\ UNCHANGED <<route, app, queue, receivers, sending, net, sent, chan, buffer, reader, got, flow>>

CommandStop ==
  /\ Command("stop")
  /\ receivers' = receivers \ {Head(requests).id}
  /\ UNCHANGED <<route, app, queue, sending, streams, flow>>

CommandDrop ==
  /\ Command("drop")
  /\ senders' = senders \ {Head(requests).id}
  /\ UNCHANGED <<route, app, queue, receivers, opens, writes, limit, backlog, streams, flow>>

CommandClose ==
  /\ Selecting /\ requests # <<>> /\ Head(requests).op = "close"
  /\ Stop
  /\ Answer("close", "ok")
  /\ UNCHANGED <<route, main, subscribed, out, ops, queue, streams, flow>>

(* The last handle is gone: cancelled, or no sender of commands is left.    *)
OwnerDropped ==
  /\ Selecting /\ requests = <<>> /\ ~OwnerAlive
  /\ Stop
  /\ UNCHANGED <<route, app, queue, streams, flow>>

(* Events of the connection.                                                *)
Event == Selecting /\ requests = <<>>

StreamOpened(s) ==
  /\ Event /\ OwnerAlive /\ net[s] = "unseen" /\ (s \in Bidi => Remaining > 0)
  /\ net' = [net EXCEPT ![s] = "open"]
  /\ receivers' = receivers \cup {s}
  /\ senders' = IF s \in Bidi THEN senders \cup {s} ELSE senders
  /\ arrived' = [arrived EXCEPT ![KindOf(s)] = Append(@, s)]
  /\ IF main = "gone"                    (* the acceptors are gone: dropped *)
     THEN /\ requests' = DropReceive(s) \o IF s \in Bidi THEN DropSend(s) ELSE <<>>
          /\ reader' = [reader EXCEPT ![s] = "left"]
          /\ UNCHANGED queue
     ELSE /\ queue' = [queue EXCEPT ![KindOf(s)] = Append(@, s)]
          /\ reader' = [reader EXCEPT ![s] = "queued"]
          /\ UNCHANGED requests
  /\ UNCHANGED <<route, app, opens, writes, limit, backlog, sent, chan, buffer, credited, got, taken>>

(* Forwarded to its reader; what no reader will take is given back here.    *)
StreamData(s, n, fin) ==
  /\ Event /\ net[s] = "open"
  /\ n \in 0 .. Remaining /\ (n > 0 \/ fin)
  /\ sent' = [sent EXCEPT ![s] = @ + n]
  /\ net' = [net EXCEPT ![s] = IF fin THEN "fin" ELSE @]
  /\ IF s \in receivers /\ reader[s] \in {"queued", "reading"}
     THEN /\ chan' = [chan EXCEPT ![s] = @ \o (IF n > 0 THEN <<Chunk(sent[s] + 1, n)>>
                                               ELSE <<>>)
                                           \o (IF fin THEN <<End("fin")>> ELSE <<>>)]
          /\ UNCHANGED credited
     ELSE credited' = [credited EXCEPT ![s] = @ + n] /\ UNCHANGED chan
  /\ UNCHANGED <<route, app, requests, queue, receivers, sending, buffer, reader, got, flow>>

StreamReset(s) ==
  /\ Event /\ net[s] = "open"
  /\ net' = [net EXCEPT ![s] = "reset"]
  /\ receivers' = receivers \ {s}
  /\ chan' = IF s \in receivers /\ reader[s] \in {"queued", "reading"}
             THEN [chan EXCEPT ![s] = Append(@, End("reset"))] ELSE chan
  /\ UNCHANGED <<route, app, requests, queue, sending, sent, buffer, reader, credited, got, flow>>

StreamStopSending ==
  /\ Event /\ "out" \in senders
  /\ senders' = senders \ {"out"}
  /\ writes' = FALSE
  /\ reply' = IF writes /\ main \in {"write", "finish"} THEN "stopped" ELSE reply
  /\ UNCHANGED <<route, main, subscribed, out, ops, requests, queue, opens, limit, backlog,
                 receivers, streams, flow>>

(* Both directions are over: the peer may open another one.                 *)
StreamClosed(s) ==
  /\ Event /\ net[s] \in {"fin", "reset"} /\ s \notin senders
  /\ net' = [net EXCEPT ![s] = "closed"]
  /\ receivers' = receivers \ {s}
  /\ UNCHANGED <<route, app, requests, queue, sending, sent, chan, buffer, reader, credited, got,
                 flow>>

Datagram ==
  /\ Event /\ Remaining > 0
  /\ arrived' = [arrived EXCEPT !["datagram"] = Append(@, Len(@) + 1)]
  /\ queue' = IF main = "gone" THEN queue
              ELSE [queue EXCEPT !["datagram"] = Append(@, Len(arrived["datagram"]) + 1)]
  /\ UNCHANGED <<route, app, requests, receivers, sending, streams, taken>>

(* The peer closes, or the connection fails: when it is flushed, when       *)
(* credit is given back, when it is asked for an event.                     *)
ConnectionClosed ==
  /\ Selecting
  /\ Stop
  /\ UNCHANGED <<route, app, queue, streams, flow>>

(* The peer lets the session open another stream: an event too.             *)
MaxStreams ==
  /\ Event /\ limit = 0
  /\ limit' = 1
  /\ UNCHANGED <<route, app, requests, queue, opens, writes, senders, backlog, receivers,
                 streams, flow>>

(* What was written leaves.                                                 *)
Drain ==
  /\ route = "ngtcp2" /\ backlog
  /\ backlog' = FALSE
  /\ UNCHANGED <<route, app, driver, handing, requests, queue, opens, writes, senders, limit,
                 receivers, streams, flow>>

Finished ==
  /\ main = "gone" /\ driver = "stopped" /\ \A s \in Streams : reader[s] # "reading"
  /\ UNCHANGED vars

Session == AcceptUni \/ AcceptBidi \/ RecvDatagrams \/ AcceptNone \/ Resume
Readers(s) == Read(s) \/ ReaderLeaves(s)
H3Events ==
  \/ \E s \in Streams : H3Stream(s)
  \/ H3Datagram \/ H3MaxStreams \/ H3Ends
  \/ \E s \in Uni, n \in 0 .. MaxPeer, end \in {None, "fin", "reset"} : H3Data(s, n, end)
Commands ==
  \/ CommandClose
  \/ /\ \/ CommandOpen \/ CommandReset \/ CommandDatagram \/ CommandConsumed \/ CommandStop
        \/ CommandDrop \/ \E op \in Operations : CommandWrite(op)
     /\ NextTurn
Events ==
  \/ ConnectionClosed
  \/ /\ \/ \E s \in Streams : StreamOpened(s)
        \/ \E s \in Uni : StreamReset(s) \/ StreamClosed(s)
        \/ \E s \in Uni, n \in 0 .. MaxPeer, fin \in BOOLEAN : StreamData(s, n, fin)
        \/ StreamStopSending \/ Datagram \/ MaxStreams
     /\ NextTurn
Turns == H3Deliver \/ H3Command \/ Pass \/ Commands

Next ==
  \/ Session \/ Abandon
  \/ \E op \in Operations : Start(op)
  \/ \E s \in Streams : Readers(s)
  \/ H3Events \/ Turns \/ H3Writes
  \/ Timer \/ OwnerDropped \/ Events
  \/ Drain \/ Finished
Fairness ==
  /\ WF_vars(Session) /\ WF_vars(Turns) /\ WF_vars(H3Writes) /\ WF_vars(Timer)
  /\ WF_vars(OwnerDropped) /\ WF_vars(Drain)
  /\ WF_vars(route = "wt_h3" /\ main = "gone" /\ requests = <<>> /\ H3Ends)
  /\ \A s \in Streams : WF_vars(main = "gone" /\ ReaderLeaves(s))

Spec == Init /\ [][Next]_vars /\ Fairness

-----------------------------------------------------------------------------
(* What the driver received it hands over in the order it came, and nothing *)
(* is lost on the way: a datagram the channel has no room for is not        *)
(* dropped but waited with.                                                 *)
NothingLost ==
  main # "gone" =>
    \A k \in Kinds :
      arrived[k] = taken[k] \o queue[k]
                     \o (IF Handing /\ handing.kind = k THEN <<handing.item>> ELSE <<>>)

(* A reader gets the bytes of its stream once, in order, and all of them    *)
(* before it is told of a FIN: although a read may return a part of a chunk,*)
(* and the driver forgets a stream while its reader is behind.              *)
ReadsAreExact ==
  \A s \in Streams :
    /\ got[s] = [i \in 1 .. Len(got[s]) |-> i]
    /\ reader[s] = "fin" => Len(got[s]) = sent[s] /\ net[s] \in {"fin", "closed"}

(* ngtcp2: every byte received is unread, or on its way back as consumed,   *)
(* or credited, once: also when its reader left, before or after the driver *)
(* heard of it, and when the stream was never accepted.                     *)
Back(command, s) ==
  IF command.op = "consumed" /\ command.id = s THEN command.size ELSE 0
Returning(s) == Total([i \in 1 .. Len(requests) |-> Back(requests[i], s)])
CreditConserved ==
  route = "ngtcp2" /\ driver # "stopped" =>
    \A s \in Streams : sent[s] = credited[s] + Returning(s) + Unread(s)

(* ngtcp2: a write is acknowledged only when nothing of it waits to be sent,*)
(* so that a reset that follows loses no data.                              *)
AckedIsSent ==
  route = "ngtcp2" /\ main \in {"write", "finish"} /\ reply = "ok" => ~backlog

(* ngtcp2: whatever the peer sends meanwhile, what the session asks of the  *)
(* driver is answered; only an open may wait, for the peer's limit.         *)
Waits == main \in Operations /\ ~(main = "open" /\ limit = 0)
CommandsReturn == (route = "ngtcp2" /\ Waits) ~> ~Waits

(* The comment on run in wt_h3.rs says that the sending of payloads is not  *)
(* affected when the driver task is held up. Here: an object whose stream   *)
(* is to be opened, or that goes in a datagram, is sent.                    *)
PayloadsAreSent == main \in {"open", "datagram"} ~> main \notin {"open", "datagram"}

(* A session that is gone, however it went, leaves no driver behind.        *)
DriverEnds == main = "gone" ~> driver = "stopped"

(* From the network to the reader nothing is lost, doubled or moved.        *)
ArrivesExactly == NothingLost /\ ReadsAreExact

(* A driver serves its session as long as there is one, and no longer.      *)
DriverServes == CommandsReturn /\ DriverEnds

===============================================================================
