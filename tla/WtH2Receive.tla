------------------------------ MODULE WtH2Receive ------------------------------
(***************************************************************************)
(* The receiving half of the driver of WebTransport over HTTP/2: streams    *)
(* the peer opens, the bytes it sends on them, the readers that consume     *)
(* these bytes or are dropped with bytes unread, and the credit the driver  *)
(* gives back: for the session, for each stream, and for new streams.       *)
(*                                                                         *)
(* The driver is one task: it handles one event or one command at a time.   *)
(* Readers run beside it and reach it through the queue of commands.        *)
(***************************************************************************)
EXTENDS Integers, Sequences, FiniteSets, SequencesExt, Totals

CONSTANTS
  Uni, Bidi,       (* streams the peer opens                                 *)
  Local,           (* bidirectional streams opened on this side              *)
  SessionWindow,   (* initial_max_data                                       *)
  StreamWindow,    (* initial_max_stream_data, of each kind                  *)
  StreamLimit,     (* streams of each kind the peer may open at first        *)
  MaxBytes         (* bound of the model: bytes the peer sends on each stream *)

ASSUME WtH2ReceiveAssumption ==
  /\ SessionWindow \in Nat \ {0} /\ StreamWindow \in Nat \ {0}
  /\ StreamLimit \in Nat /\ MaxBytes \in [Uni \cup Bidi \cup Local -> Nat]
  /\ IsFiniteSet(Uni \cup Bidi \cup Local)
  /\ Uni \cap Bidi = {} /\ Local \cap (Uni \cup Bidi) = {}

Peer == Uni \cup Bidi
Streams == Peer \cup Local

(* The record of a stream without a receive state is the WT session's own   *)
(* account of it, against which the peer sends.                             *)
VARIABLES
  peer,            (* the peer's sending direction of each stream            *)
  recv_streams,    (* streams with a receive state                           *)
  session,         (* bytes received, consumed and grown, of the session ... *)
  stream,          (* ... and of each stream                                 *)
  stop_sent,       (* streams whose data is discarded                        *)
  peer_streams,    (* streams of the peer not yet closed both ways           *)
  recvClosed, sendClosed,   (* the two flags of each of these                *)
  credited,        (* how often a stream was given back to the peer          *)
  incoming,        (* bytes in the channel to each reader                    *)
  reader,          (* the readers                                            *)
  buffer,          (* bytes a reader took and has not returned to the caller *)
  commands,        (* the driver's queue, of Consumed and StopRead           *)
  stopped          (* history: streams WT_STOP_SENDING was sent for          *)

peerVars == <<peer_streams, recvClosed, sendClosed, credited>>
readerVars == <<incoming, reader, buffer>>
vars == <<peer, recv_streams, session, stream, stop_sent, peerVars, readerVars,
          commands, stopped>>

NoBytes == [received |-> 0, consumed |-> 0, grown |-> 0]

Init ==
  /\ peer = [s \in Streams |-> "idle"]
  /\ recv_streams = {} /\ stop_sent = {} /\ stopped = {}
  /\ session = NoBytes /\ stream = [s \in Streams |-> NoBytes]
  /\ peer_streams = {} /\ recvClosed = {} /\ sendClosed = {}
  /\ credited = [s \in Streams |-> 0]
  /\ incoming = [s \in Streams |-> 0]
  /\ reader = [s \in Streams |-> "none"] /\ buffer = [s \in Streams |-> 0]
  /\ commands = <<>>

-----------------------------------------------------------------------------
(* Windows.                                                                *)

Credit(initial, bytes) == initial + bytes.grown - bytes.received

(* receive_window_increment: when less than half the initial window is left,*)
(* all that was consumed and not yet given back.                            *)
Increment(initial, bytes) ==
  IF Credit(initial, bytes) >= (initial + 1) \div 2 \/ bytes.consumed <= bytes.grown
  THEN 0 ELSE bytes.consumed - bytes.grown

Grow(initial, bytes) == [bytes EXCEPT !.grown = @ + Increment(initial, bytes)]

Receive(bytes, n) == [bytes EXCEPT !.received = @ + n]
Consume(bytes, n) == [bytes EXCEPT !.consumed = @ + n]

(* Bytes nobody will read count as consumed at once.                        *)
Discard(bytes, n) == Grow(SessionWindow, Consume(bytes, n))

-----------------------------------------------------------------------------
(* Credit for streams.                                                     *)

(* Both directions of a stream of the peer closed: it may open another.     *)
CreditIfClosed(s, r, w) ==
  IF s \in peer_streams /\ s \in r /\ s \in w
  THEN /\ peer_streams' = peer_streams \ {s}
       /\ credited' = [credited EXCEPT ![s] = @ + 1]
  ELSE UNCHANGED <<peer_streams, credited>>

(* MUTANT of MarkRecvClosed: the stream is not given back.                  *)
MarkRecvClosedOnly(s) ==
  /\ recvClosed' = recvClosed \cup ({s} \cap peer_streams)
  /\ UNCHANGED <<peer_streams, credited, sendClosed>>

MarkRecvClosed(s) ==
  /\ recvClosed' = recvClosed \cup ({s} \cap peer_streams)
  /\ CreditIfClosed(s, recvClosed \cup {s}, sendClosed)
  /\ UNCHANGED sendClosed

MarkSendClosed(s) ==
  /\ sendClosed' = sendClosed \cup ({s} \cap peer_streams)
  /\ CreditIfClosed(s, recvClosed, sendClosed \cup {s})
  /\ UNCHANGED recvClosed

Opened(kind) == Cardinality({s \in kind : peer[s] # "idle"})
Returned(kind) == FoldFunctionOnSet(+, 0, credited, kind)

-----------------------------------------------------------------------------
(* Events of the peer.                                                     *)

StopRead(s, n) == [type |-> "StopRead", stream |-> s, size |-> n]
Consumed(s, n) == [type |-> "Consumed", stream |-> s, size |-> n]

(* A stream of the peer; the acceptor takes it, or is gone and the reader   *)
(* is dropped at once.                                                      *)
StreamOpened(s) ==
  /\ peer[s] = "idle"
  /\ \E kind \in {Uni, Bidi} : s \in kind /\ Opened(kind) < StreamLimit + Returned(kind)
  /\ peer' = [peer EXCEPT ![s] = "open"]
  /\ peer_streams' = peer_streams \cup {s}
  /\ sendClosed' = sendClosed \cup ({s} \cap Uni)
  /\ recv_streams' = recv_streams \cup {s}
  /\ \/ reader' = [reader EXCEPT ![s] = "open"] /\ commands' = commands
     \/ reader' = [reader EXCEPT ![s] = "gone"] /\ commands' = Append(commands, StopRead(s, 0))
  /\ UNCHANGED <<session, stream, stop_sent, recvClosed, credited, incoming, buffer, stopped>>

(* A stream opened on this side: it has a reader too.                       *)
LocalOpened(s) ==
  /\ peer[s] = "idle" /\ s \in Local
  /\ peer' = [peer EXCEPT ![s] = "open"]
  /\ recv_streams' = recv_streams \cup {s}
  /\ reader' = [reader EXCEPT ![s] = "open"]
  /\ UNCHANGED <<session, stream, stop_sent, peerVars, incoming, buffer, commands, stopped>>

(* What the peer may send: it keeps to the two windows.                     *)
Sendable(s, n, fin) ==
  /\ peer[s] = "open" /\ (n > 0 \/ fin)
  /\ n <= Credit(SessionWindow, session) /\ n <= Credit(StreamWindow, stream[s])
  /\ stream[s].received + n <= MaxBytes[s]
  /\ peer' = IF fin THEN [peer EXCEPT ![s] = "finished"] ELSE peer

(* MUTANT of DataDiscarded: the bytes are not given back to the session.    *)
DataForgotten(s, n, fin) ==
  /\ s \in stop_sent /\ Sendable(s, n, fin)
  /\ session' = Receive(session, n)
  /\ stream' = [stream EXCEPT ![s] = Receive(@, n)]
  /\ stop_sent' = IF fin THEN stop_sent \ {s} ELSE stop_sent
  /\ UNCHANGED <<recv_streams, peerVars, readerVars, commands, stopped>>

(* Data after WT_STOP_SENDING.                                              *)
DataDiscarded(s, n, fin) ==
  /\ s \in stop_sent /\ Sendable(s, n, fin)
  /\ session' = Discard(Receive(session, n), n)
  /\ stream' = [stream EXCEPT ![s] = Receive(@, n)]
  /\ stop_sent' = IF fin THEN stop_sent \ {s} ELSE stop_sent
  /\ UNCHANGED <<recv_streams, peerVars, readerVars, commands, stopped>>

DataDelivered(s, n, fin) ==
  /\ s \notin stop_sent /\ s \in recv_streams /\ reader[s] = "open" /\ Sendable(s, n, fin)
  /\ session' = Receive(session, n)
  /\ stream' = [stream EXCEPT ![s] = Receive(@, n)]
  /\ incoming' = [incoming EXCEPT ![s] = @ + n]
  /\ IF fin THEN MarkRecvClosed(s) ELSE UNCHANGED peerVars
  /\ UNCHANGED <<recv_streams, stop_sent, reader, buffer, commands, stopped>>

(* The reader is gone and its StopRead not yet handled, or the stream was   *)
(* given up before.                                                         *)
DataUnheard(s, n, fin) ==
  /\ s \notin stop_sent /\ ~(s \in recv_streams /\ reader[s] = "open") /\ Sendable(s, n, fin)
  /\ session' = Discard(Receive(session, n), n)
  /\ stream' = [stream EXCEPT ![s] = Receive(@, n)]
  /\ recv_streams' = recv_streams \ {s}
  /\ IF fin THEN MarkRecvClosed(s) ELSE UNCHANGED peerVars
  /\ UNCHANGED <<stop_sent, readerVars, commands, stopped>>

StreamReset(s) ==
  /\ peer[s] = "open" /\ peer' = [peer EXCEPT ![s] = "finished"]
  /\ recv_streams' = recv_streams \ {s} /\ stop_sent' = stop_sent \ {s}
  /\ MarkRecvClosed(s)
  /\ UNCHANGED <<session, stream, readerVars, commands, stopped>>

(* The sending direction of a stream ends: FIN, reset, dropped, or stopped  *)
(* by the peer, possibly several of them.                                   *)
SendEnds(s) ==
  /\ s \in Bidi /\ peer[s] # "idle"
  /\ MarkSendClosed(s)
  /\ UNCHANGED <<peer, recv_streams, session, stream, stop_sent, readerVars, commands, stopped>>

-----------------------------------------------------------------------------
(* A reader.                                                               *)

(* One message of the channel, of any size.                                *)
TakeData(s) ==
  /\ reader[s] = "open" /\ buffer[s] = 0
  /\ \E n \in 1..incoming[s] :
       /\ buffer' = [buffer EXCEPT ![s] = n]
       /\ incoming' = [incoming EXCEPT ![s] = @ - n]
  /\ UNCHANGED <<peer, recv_streams, session, stream, stop_sent, peerVars, reader,
                 commands, stopped>>

(* The caller gets as much as it has room for.                              *)
Read(s) ==
  /\ reader[s] = "open"
  /\ \E n \in 1..buffer[s] :
       /\ buffer' = [buffer EXCEPT ![s] = @ - n]
       /\ commands' = Append(commands, Consumed(s, n))
  /\ UNCHANGED <<peer, recv_streams, session, stream, stop_sent, peerVars, incoming,
                 reader, stopped>>

UnreadOf(s) == buffer[s] + incoming[s]

(* MUTANT of DropReader: bytes not yet taken from the channel are forgotten.*)
DropReaderWithBuffer(s) ==
  /\ reader[s] = "open" /\ reader' = [reader EXCEPT ![s] = "gone"]
  /\ commands' = Append(commands, StopRead(s, buffer[s]))
  /\ incoming' = [incoming EXCEPT ![s] = 0] /\ buffer' = [buffer EXCEPT ![s] = 0]
  /\ UNCHANGED <<peer, recv_streams, session, stream, stop_sent, peerVars, stopped>>

(* RecvStream is dropped: the channel is closed and emptied.                *)
DropReader(s) ==
  /\ reader[s] = "open" /\ reader' = [reader EXCEPT ![s] = "gone"]
  /\ commands' = Append(commands, StopRead(s, UnreadOf(s)))
  /\ incoming' = [incoming EXCEPT ![s] = 0] /\ buffer' = [buffer EXCEPT ![s] = 0]
  /\ UNCHANGED <<peer, recv_streams, session, stream, stop_sent, peerVars, stopped>>

-----------------------------------------------------------------------------
(* Commands.                                                               *)

(* The stream's window is only announced while the stream can receive.      *)
HandleConsumed ==
  /\ commands # <<>> /\ Head(commands).type = "Consumed" /\ commands' = Tail(commands)
  /\ LET s == Head(commands).stream
         n == Head(commands).size
         after == Consume(stream[s], n)
     IN /\ session' = Grow(SessionWindow, Consume(session, n))
        /\ stream' = IF s \notin recv_streams THEN stream
                     ELSE [stream EXCEPT ![s] = IF peer[s] = "open"
                                                THEN Grow(StreamWindow, after) ELSE after]
  /\ UNCHANGED <<peer, recv_streams, stop_sent, peerVars, readerVars, stopped>>

(* WT_STOP_SENDING is sent, or refused by a session whose stream is over.   *)
HandleStopRead ==
  /\ commands # <<>> /\ Head(commands).type = "StopRead" /\ commands' = Tail(commands)
  /\ LET s == Head(commands).stream
         n == Head(commands).size
     IN /\ recv_streams' = recv_streams \ {s}
        /\ session' = IF n > 0 THEN Discard(session, n) ELSE session
        /\ \E ok \in IF peer[s] = "open" THEN {TRUE} ELSE BOOLEAN :
             /\ stop_sent' = IF ok THEN stop_sent \cup {s} ELSE stop_sent
             /\ stopped' = IF ok THEN stopped \cup {s} ELSE stopped
        /\ MarkRecvClosed(s)
  /\ UNCHANGED <<peer, stream, readerVars>>

Event(s) ==
  \/ StreamOpened(s) \/ LocalOpened(s) \/ StreamReset(s) \/ SendEnds(s)
  \/ \E n \in 0..SessionWindow, fin \in BOOLEAN :
       DataDiscarded(s, n, fin) \/ DataDelivered(s, n, fin) \/ DataUnheard(s, n, fin)

Next ==
  \/ \E s \in Streams : Event(s) \/ TakeData(s) \/ Read(s) \/ DropReader(s)
  \/ HandleConsumed \/ HandleStopRead

(* The driver goes on taking commands, whatever the peer does (its select   *)
(* is fair); nothing is assumed of readers or of the peer.                  *)
Spec == Init /\ [][Next]_vars /\ WF_vars(HandleConsumed \/ HandleStopRead)

-----------------------------------------------------------------------------
(* Properties.                                                             *)

Bytes == [received : Nat, consumed : Nat, grown : Nat]
Command(S) == [type : {"Consumed", "StopRead"}, stream : S, size : Nat]

(* Types; a stream is given back at most once.                              *)
TypeOK ==
  /\ peer \in [Streams -> {"idle", "open", "finished"}]
  /\ recv_streams \subseteq Streams /\ stop_sent \subseteq Streams
  /\ stopped \subseteq Streams
  /\ session \in Bytes /\ stream \in [Streams -> Bytes]
  /\ peer_streams \subseteq Peer /\ recvClosed \subseteq Peer /\ sendClosed \subseteq Peer
  /\ credited \in [Streams -> 0..1]
  /\ incoming \in [Streams -> Nat]
  /\ reader \in [Streams -> {"none", "open", "gone"}] /\ buffer \in [Streams -> Nat]
  /\ commands \in Seq(Command(Streams))

InCommands(S) ==
  Total([i \in 1..Len(commands) |->
          IF commands[i].stream \in S THEN commands[i].size ELSE 0])
Unread == InCommands(Streams) + TotalOver(Streams, [s \in Streams |-> UnreadOf(s)])

(* No byte is forgotten and none is counted twice: each one received is     *)
(* consumed, with a reader, or in a command, whatever became of its reader  *)
(* or its stream.  The same holds of each stream that has a receive state.  *)
BytesAccounted ==
  /\ session.received = session.consumed + Unread
  /\ \A s \in recv_streams :
       stream[s].received = stream[s].consumed + InCommands({s}) + UnreadOf(s)

(* Readers that stall cannot make the memory grow: the peer never has more  *)
(* bytes unread than the window it was given at first.                      *)
UnreadBounded == session.received - session.consumed <= SessionWindow

(* The peer is not held up by a connection that has read everything: at     *)
(* least half of each window is open to it then.                            *)
NoStall ==
  /\ session.received = session.consumed =>
       2 * Credit(SessionWindow, session) >= SessionWindow
  /\ \A s \in recv_streams :
       (peer[s] = "open" /\ stream[s].received = stream[s].consumed) =>
         2 * Credit(StreamWindow, stream[s]) >= StreamWindow

(* The peer gets a stream back for each one that is over both ways, and     *)
(* for no other.                                                            *)
StreamsReturned ==
  \A s \in Peer : credited[s] = IF s \in recvClosed \cap sendClosed THEN 1 ELSE 0

(* Once WT_STOP_SENDING is sent for a stream its window is not announced.   *)
NoWindowAfterStop ==
  [][\A s \in stopped' : stream'[s].grown = stream[s].grown]_vars

(* When every reader is gone, what they left unread is given back, and what *)
(* arrives later is given back at once.                                     *)
LeftoversReturn ==
  (\A s \in Streams : reader[s] = "gone") ~> session.received = session.consumed

(* The windows are right: each byte counted once, and never so much given   *)
(* back that memory grows, nor so little that a peer that is read stalls.   *)
WindowsConserved == BytesAccounted /\ UnreadBounded /\ NoStall

(* Readers that leave are settled: no window of theirs grows any more, and  *)
(* what they left goes back to the session.                                 *)
LeaversSettled == NoWindowAfterStop /\ LeftoversReturn

-----------------------------------------------------------------------------
(* The inductive invariant.                                                *)

Known == {s \in Streams : peer[s] # "idle"}

(* The peer kept to the window, and only what was consumed was given back.  *)
WindowInv ==
  /\ session.received <= SessionWindow + session.grown
  /\ session.grown <= session.consumed
  /\ \A s \in Streams : stream[s].grown <= stream[s].consumed

(* A stream that was stopped has no receive state and gets none: commands   *)
(* and readers are of streams that were opened, which happens once.         *)
StopInv ==
  /\ stopped \subseteq Known \ recv_streams
  /\ commands \in Seq(Command(Known))
  /\ \A s \in Streams : reader[s] # "none" => s \in Known

(* Of a stream that was not opened nothing is counted yet, and only stopped *)
(* streams are discarded.                                                   *)
FreshInv ==
  /\ \A s \in Streams \ Known : stream[s] = NoBytes /\ UnreadOf(s) = 0
  /\ stop_sent \subseteq stopped

(* A stream of the peer is remembered until both of its directions closed.  *)
CreditInv ==
  /\ peer_streams = {s \in Peer \cap Known : s \notin recvClosed \/ s \notin sendClosed}
  /\ recvClosed \cup sendClosed \subseteq Known
  /\ \A s \in Streams : credited[s] = IF s \in recvClosed /\ s \in sendClosed THEN 1 ELSE 0
===============================================================================
