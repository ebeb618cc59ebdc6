------------------------------- MODULE WtH2Send --------------------------------
(***************************************************************************)
(* The sending half of the driver of WebTransport over HTTP/2: requests to  *)
(* open streams that wait for the peer to allow more of them, and writes    *)
(* that wait for room in two windows, with callers that give up, streams    *)
(* that are reset, dropped or stopped by the peer, and a connection that    *)
(* may end at any time.                                                     *)
(*                                                                         *)
(* Each turn of the driver pumps the waiting opens, flushes the pending     *)
(* writes, and then handles one command or one event.  A byte is sent when  *)
(* it is in a capsule; the sending half of a stream the peer opened behaves *)
(* as that of a stream opened here.                                         *)
(***************************************************************************)
EXTENDS Totals, SequencesExt

CONSTANTS
  UniSends, BidiSends,  (* requests to open a stream, which name it too      *)
  PeerSessionWindow, PeerStreamWindow,  (* what the peer lets us send first  *)
  PeerStreamLimit, (* streams of each kind it lets us open at first          *)
  Sizes,           (* of writes                                              *)
  MaxCalls,        (* bound of the model: calls on each stream               *)
  MaxGrants        (* bound of the model: windows and limits the peer raises *)

ASSUME WtH2SendAssumption ==
  /\ {PeerSessionWindow, PeerStreamWindow, MaxGrants} \subseteq Nat /\ Sizes \subseteq Nat \ {0}
  /\ PeerStreamLimit \in [{"uni", "bidi"} -> Nat]
  /\ IsFiniteSet(UniSends \cup BidiSends) /\ UniSends \cap BidiSends = {}
  /\ MaxCalls \in [UniSends \cup BidiSends -> Nat]

SendStreams == UniSends \cup BidiSends
KindOf(r) == IF r \in UniSends THEN "uni" ELSE "bidi"

VARIABLES
  turn,            (* where the driver is in its turn, or "ended"            *)
  attempts,        (* waiting opens still to try in this turn                *)
  todo,            (* streams still to flush in this turn                    *)
  queue,           (* the driver's queue                                     *)
  opened,          (* opens that wait for the peer's limit                   *)
  draining,        (* the peer has announced the end of the session          *)
  pending,         (* writes not yet sent, of each stream                    *)
  halted,          (* streams the peer has stopped                           *)
  after_flush,     (* calls answered once the flush has succeeded, with what *)
  direction,       (* sending direction of each stream, in the WT session    *)
  sent,            (* bytes sent on each stream                              *)
  window,          (* bytes the peer allows: of the session, of each stream  *)
  limit,           (* streams of each kind the peer allows                   *)
  grants,          (* how often the peer raised one of these                 *)
  open,            (* the open calls                                         *)
  handle,          (* SendStream: absent, held, gone                         *)
  finished,        (* its flag: FIN or reset answered                        *)
  calls,           (* the calls on each stream, with their answers           *)
  waiting          (* the call whose answer its caller awaits, or 0          *)

driverVars == <<attempts, todo, opened, draining, pending, halted, after_flush>>
allowedVars == <<window, limit, grants>>
appVars == <<open, handle, finished, calls, waiting>>
sendVars == <<turn, driverVars, queue, direction, sent, allowedVars, appVars>>

SendInit ==
  /\ turn = "pump" /\ attempts = 0 /\ todo = <<>> /\ queue = <<>> /\ opened = <<>>
  /\ draining = FALSE /\ halted = {} /\ after_flush = {}
  /\ pending = [s \in SendStreams |-> <<>>] /\ sent = [s \in SendStreams |-> 0]
  /\ direction = [s \in SendStreams |-> "none"]
  /\ window = [session |-> PeerSessionWindow, stream |-> [s \in SendStreams |-> PeerStreamWindow]]
  /\ limit = PeerStreamLimit /\ grants = 0
  /\ open = [r \in SendStreams |-> "none"]
  /\ handle = [s \in SendStreams |-> "none"]
  /\ finished = [s \in SendStreams |-> FALSE]
  /\ calls = [s \in SendStreams |-> <<>>] /\ waiting = [s \in SendStreams |-> 0]

Live == turn # "ended"
OpenCount(k) == Cardinality({r \in SendStreams : KindOf(r) = k /\ direction[r] # "none"})

CanSend(s) == s \notin halted /\ direction[s] = "open"
SessionSent == TotalOver(SendStreams, sent)

Available(s) == Min({window.session - SessionSent, window.stream[s] - sent[s]})

Answered(cs, S, a) ==
  [s \in SendStreams |-> [c \in DOMAIN cs[s] |->
     IF <<s, c>> \in S THEN [cs[s][c] EXCEPT !.answer = a] ELSE cs[s][c]]]
Made == UNION {{s} \X DOMAIN calls[s] : s \in SendStreams}
Unanswered == {x \in Made : calls[x[1]][x[2]].answer = "none"}
PendingCalls(s) == {<<s, pending[s][k].call>> : k \in DOMAIN pending[s]}

-----------------------------------------------------------------------------
(* Callers.  A SendStream serves one call at a time, but a caller may stop  *)
(* waiting for it (its future is dropped in a select).                      *)

Open(r) ==
  /\ Live /\ open[r] = "none"
  /\ open' = [open EXCEPT ![r] = "waiting"]
  /\ queue' = Append(queue, [type |-> "Open", of |-> r])
  /\ UNCHANGED <<turn, driverVars, direction, sent, allowedVars, handle, finished, calls, waiting>>

GiveUpOpen(r) ==
  /\ open[r] = "waiting" /\ open' = [open EXCEPT ![r] = "given up"]
  /\ UNCHANGED <<turn, driverVars, queue, direction, sent, allowedVars, handle, finished,
                 calls, waiting>>

(* A call on a stream becomes a command of the driver.                      *)
Call(s, op, n) ==
  /\ Live /\ handle[s] = "held" /\ waiting[s] = 0 /\ Len(calls[s]) < MaxCalls[s]
  /\ calls' = [calls EXCEPT ![s] = Append(@, [op |-> op, size |-> n, answer |-> "none"])]
  /\ waiting' = [waiting EXCEPT ![s] = Len(calls[s]) + 1]
  /\ queue' = Append(queue, [type |-> op, of |-> s, call |-> Len(calls[s]) + 1, size |-> n])
  /\ UNCHANGED <<turn, driverVars, direction, sent, allowedVars, open, handle, finished>>

Write(s) == ~finished[s] /\ \E n \in Sizes : Call(s, "Write", n)
Finish(s) == ~finished[s] /\ Call(s, "Finish", 0)
Reset(s) == Call(s, "Reset", 0)

(* The answer reaches the caller.                                           *)
Return(s) ==
  /\ waiting[s] > 0 /\ calls[s][waiting[s]].answer # "none"
  /\ finished' = [finished EXCEPT ![s] =
       @ \/ (calls[s][waiting[s]].answer = "ok" /\ calls[s][waiting[s]].op # "Write")]
  /\ waiting' = [waiting EXCEPT ![s] = 0]
  /\ UNCHANGED <<turn, driverVars, queue, direction, sent, allowedVars, open, handle, calls>>

CancelWait(s) ==
  /\ waiting[s] > 0 /\ waiting' = [waiting EXCEPT ![s] = 0]
  /\ UNCHANGED <<turn, driverVars, queue, direction, sent, allowedVars, open, handle,
                 finished, calls>>

DropStream(s) ==
  /\ handle[s] = "held" /\ waiting[s] = 0
  /\ handle' = [handle EXCEPT ![s] = "gone"]
  /\ queue' = IF Live THEN Append(queue, [type |-> "Drop", of |-> s, finished |-> finished[s]])
                         ELSE queue
  /\ UNCHANGED <<turn, driverVars, direction, sent, allowedVars, open, finished, calls, waiting>>

-----------------------------------------------------------------------------
(* The waiting opens.                                                      *)

Pumping == turn = "pump" /\ attempts > 0
Waiting == Head(opened)

(* The caller is gone, or the session is ending.                            *)
PumpRefused ==
  /\ Pumping /\ (open[Waiting] = "given up" \/ draining)
  /\ opened' = Tail(opened) /\ attempts' = attempts - 1
  /\ open' = IF open[Waiting] = "waiting" THEN [open EXCEPT ![Waiting] = "failed"] ELSE open
  /\ UNCHANGED <<turn, todo, draining, pending, halted, after_flush, queue, direction,
                 sent, allowedVars, handle, finished, calls, waiting>>

(* A caller that gives up just now drops the stream it would have got.      *)
PumpOpened ==
  /\ Pumping /\ open[Waiting] = "waiting" /\ ~draining
  /\ OpenCount(KindOf(Waiting)) < limit[KindOf(Waiting)]
  /\ opened' = Tail(opened) /\ attempts' = attempts - 1
  /\ direction' = [direction EXCEPT ![Waiting] = "open"]
  /\ open' = [open EXCEPT ![Waiting] = "ok"] /\ handle' = [handle EXCEPT ![Waiting] = "held"]
  /\ UNCHANGED <<turn, todo, draining, pending, halted, after_flush, queue, sent,
                 allowedVars, finished, calls, waiting>>

(* MUTANT of PumpBlocked: the request is not put back.                      *)
PumpBlockedLosing ==
  /\ Pumping /\ open[Waiting] = "waiting" /\ ~draining
  /\ OpenCount(KindOf(Waiting)) >= limit[KindOf(Waiting)]
  /\ opened' = Tail(opened) /\ attempts' = 0
  /\ UNCHANGED <<turn, todo, draining, pending, halted, after_flush, queue, direction,
                 sent, allowedVars, appVars>>

(* The limit is reached: the request goes to the back, and the others wait  *)
(* for the next turn.                                                       *)
PumpBlocked ==
  /\ Pumping /\ open[Waiting] = "waiting" /\ ~draining
  /\ OpenCount(KindOf(Waiting)) >= limit[KindOf(Waiting)]
  /\ opened' = Append(Tail(opened), Waiting) /\ attempts' = 0
  /\ UNCHANGED <<turn, todo, draining, pending, halted, after_flush, queue, direction,
                 sent, allowedVars, appVars>>

Pumped ==
  /\ turn = "pump" /\ attempts = 0 /\ turn' = "flush"
  /\ todo' \in SetToSeqs({s \in SendStreams : pending[s] # <<>>})
  /\ UNCHANGED <<attempts, opened, draining, pending, halted, after_flush, queue,
                 direction, sent, allowedVars, appVars>>

-----------------------------------------------------------------------------
(* The pending writes: one stream after the other, in any order.           *)

Flushing(s) == turn = "flush" /\ todo # <<>> /\ s = Head(todo)
First(s) == Head(pending[s])
Fails(S) == calls' = Answered(calls, S, "failed")
FailPending(s) == pending' = [pending EXCEPT ![s] = <<>>]

FlushClosed(s) ==
  /\ Flushing(s) /\ ~CanSend(s)
  /\ FailPending(s) /\ Fails(PendingCalls(s)) /\ todo' = Tail(todo)
  /\ UNCHANGED <<turn, attempts, opened, draining, halted, after_flush, queue, direction,
                 sent, allowedVars, open, handle, finished, waiting>>

FlushUnchanged == <<turn, attempts, opened, draining, halted, queue, allowedVars, open,
                    handle, finished, waiting>>

(* MUTANT of FlushBlocked: a FIN waits for room as data does.               *)
FlushBlockedFin(s) ==
  /\ Flushing(s) /\ CanSend(s) /\ Available(s) = 0
  /\ todo' = Tail(todo)
  /\ UNCHANGED <<FlushUnchanged, pending, after_flush, direction, sent, calls>>

(* No room for data: the stream waits for the next turn.                    *)
FlushBlocked(s) ==
  /\ Flushing(s) /\ CanSend(s) /\ First(s).size > 0 /\ Available(s) = 0
  /\ todo' = Tail(todo)
  /\ UNCHANGED <<FlushUnchanged, pending, after_flush, direction, sent, calls>>

(* MUTANT of FlushPart: a write is done with its first piece.               *)
FlushPartDone(s) ==
  /\ Flushing(s) /\ CanSend(s) /\ 0 < Available(s) /\ Available(s) < First(s).size
  /\ sent' = [sent EXCEPT ![s] = @ + Available(s)]
  /\ pending' = [pending EXCEPT ![s] = Tail(@)]
  /\ after_flush' = after_flush \cup {<<s, First(s).call, "ok">>}
  /\ todo' = Tail(todo)
  /\ UNCHANGED <<FlushUnchanged, direction, calls>>

(* Room for a part of the write.                                            *)
FlushPart(s) ==
  /\ Flushing(s) /\ CanSend(s) /\ 0 < Available(s) /\ Available(s) < First(s).size
  /\ sent' = [sent EXCEPT ![s] = @ + Available(s)]
  /\ pending' = [pending EXCEPT ![s][1].size = @ - Available(s)]
  /\ todo' = Tail(todo)
  /\ UNCHANGED <<FlushUnchanged, after_flush, direction, calls>>

(* Room for all of it; the next write of the stream follows.                *)
FlushWhole(s) ==
  /\ Flushing(s) /\ CanSend(s) /\ First(s).size \in 1..Available(s)
  /\ sent' = [sent EXCEPT ![s] = @ + First(s).size]
  /\ pending' = [pending EXCEPT ![s] = Tail(@)]
  /\ after_flush' = after_flush \cup {<<s, First(s).call, "ok">>}
  /\ todo' = IF Len(pending[s]) = 1 THEN Tail(todo) ELSE todo
  /\ UNCHANGED <<FlushUnchanged, direction, calls>>

(* A FIN needs no room.  What was queued behind it (its caller gave up and  *)
(* called again) is refused by the WT session, one call in this turn.       *)
FlushFin(s) ==
  /\ Flushing(s) /\ CanSend(s) /\ First(s).size = 0
  /\ direction' = [direction EXCEPT ![s] = "fin"]
  /\ LET rest == Tail(pending[s])
         refused == rest # <<>> /\ (Head(rest).size = 0 \/ Available(s) > 0)
     IN /\ pending' = [pending EXCEPT ![s] = IF refused THEN Tail(rest) ELSE rest]
        /\ after_flush' = after_flush \cup {<<s, First(s).call, "ok">>}
             \cup IF refused THEN {<<s, Head(rest).call, "failed">>} ELSE {}
  /\ todo' = Tail(todo)
  /\ UNCHANGED <<FlushUnchanged, sent, calls>>

ToAnswer(a) == {<<x[1], x[2]>> : x \in {y \in after_flush : y[3] = a}}

(* Everything was written to the connection: the calls are answered.        *)
Flushed ==
  /\ turn = "flush" /\ todo = <<>> /\ turn' = "select"
  /\ calls' = Answered(Answered(calls, ToAnswer("ok"), "ok"), ToAnswer("failed"), "failed")
  /\ after_flush' = {}
  /\ UNCHANGED <<attempts, todo, opened, draining, pending, halted, queue, direction,
                 sent, allowedVars, open, handle, finished, waiting>>

(* The connection ends, in a write, by the peer, or by a caller: whatever   *)
(* waits for the driver fails.                                              *)
Ends ==
  /\ turn \in {"select", "events"} \/ (turn = "flush" /\ todo = <<>>)
  /\ turn' = "ended"
  /\ calls' = Answered(calls, Unanswered, "failed")
  /\ open' = [r \in SendStreams |-> IF open[r] = "waiting" THEN "failed" ELSE open[r]]
  /\ queue' = <<>> /\ opened' = <<>> /\ after_flush' = {}
  /\ pending' = [s \in SendStreams |-> <<>>]
  /\ UNCHANGED <<attempts, todo, draining, halted, direction, sent, allowedVars, handle,
                 finished, waiting>>

-----------------------------------------------------------------------------
(* Commands and events: one of them, and the next turn begins.              *)

NextTurn ==
  turn = "select" /\ turn' = "pump" /\ attempts' = Len(opened') /\ todo' = <<>>

(* One DATA frame of HTTP/2 may bring several events; the turn ends with    *)
(* the last one.                                                            *)
InTurn == turn \in {"select", "events"} /\ opened' = opened /\ todo' = todo
LastEvent == InTurn /\ turn' = "pump" /\ attempts' = Len(opened)
NextEvent == LastEvent \/ (InTurn /\ turn' = "events" /\ attempts' = 0)

Take(type) == queue # <<>> /\ Head(queue).type = type /\ queue' = Tail(queue)
QueueHead == Head(queue)

HandleOpen ==
  /\ Take("Open") /\ opened' = Append(opened, QueueHead.of) /\ NextTurn
  /\ UNCHANGED <<draining, pending, halted, after_flush, direction, sent, allowedVars, appVars>>

HandleSend ==
  /\ \E type \in {"Write", "Finish"} : Take(type)
  /\ LET s == QueueHead.of
         job == [size |-> QueueHead.size, call |-> QueueHead.call]
     IN IF CanSend(s)
        THEN pending' = [pending EXCEPT ![s] = Append(@, job)] /\ calls' = calls
        ELSE pending' = pending /\ Fails({<<s, QueueHead.call>>})
  /\ opened' = opened /\ NextTurn
  /\ UNCHANGED <<draining, halted, after_flush, direction, sent, allowedVars, open, handle,
                 finished, waiting>>

(* What is pending on a stream that is reset will not be sent.              *)
HandleReset ==
  /\ Take("Reset")
  /\ LET s == QueueHead.of
     IN IF CanSend(s)
        THEN /\ FailPending(s) /\ Fails(PendingCalls(s))
             /\ direction' = [direction EXCEPT ![s] = "reset"]
             /\ after_flush' = after_flush \cup {<<s, QueueHead.call, "ok">>}
        ELSE /\ Fails({<<s, QueueHead.call>>})
             /\ UNCHANGED <<pending, direction, after_flush>>
  /\ opened' = opened /\ NextTurn
  /\ UNCHANGED <<draining, halted, sent, allowedVars, open, handle, finished, waiting>>

(* A stream dropped before its FIN is reset; the WT session may refuse that *)
(* when the FIN was sent after all.                                         *)
HandleDrop ==
  /\ Take("Drop")
  /\ LET s == QueueHead.of
     IN /\ FailPending(s) /\ Fails(PendingCalls(s))
        /\ \/ ~QueueHead.finished /\ direction' = [direction EXCEPT ![s] = "reset"]
           \/ (QueueHead.finished \/ direction[s] # "open") /\ direction' = direction
  /\ opened' = opened /\ NextTurn
  /\ UNCHANGED <<draining, halted, after_flush, sent, allowedVars, open, handle, finished, waiting>>

StopSending(s) ==
  /\ direction[s] # "none" /\ s \notin halted
  /\ halted' = halted \cup {s} /\ FailPending(s) /\ Fails(PendingCalls(s))
  /\ NextEvent
  /\ UNCHANGED <<draining, after_flush, queue, direction, sent, allowedVars, open, handle,
                 finished, waiting>>

Draining ==
  /\ ~draining /\ draining' = TRUE /\ NextEvent
  /\ UNCHANGED <<pending, halted, after_flush, queue, direction, sent, allowedVars, appVars>>

(* The peer reads, or allows another stream.  No event tells of that: the   *)
(* driver only begins another turn.                                         *)
Grant ==
  /\ grants < MaxGrants /\ grants' = grants + 1 /\ NextEvent
  /\ \/ window' = [window EXCEPT !.session = @ + 1] /\ limit' = limit
     \/ \E s \in SendStreams : /\ direction[s] # "none" /\ limit' = limit
                            /\ window' = [window EXCEPT !.stream[s] = @ + 1]
     \/ \E k \in {"uni", "bidi"} : limit' = [limit EXCEPT ![k] = @ + 1] /\ window' = window
  /\ UNCHANGED <<draining, pending, halted, after_flush, queue, direction, sent, appVars>>

(* Any other event: a datagram, received data, the PING timer.              *)
OtherEvent ==
  /\ LastEvent
  /\ UNCHANGED <<draining, pending, halted, after_flush, queue, direction, sent, allowedVars,
                 appVars>>

Pump == PumpRefused \/ PumpOpened \/ PumpBlocked \/ Pumped
Flush == Flushed \/ \E s \in SendStreams : FlushClosed(s) \/ FlushBlocked(s) \/ FlushPart(s)
                                       \/ FlushWhole(s) \/ FlushFin(s)
SendEvent == Draining \/ Grant \/ OtherEvent \/ \E s \in SendStreams : StopSending(s)
Handle == HandleOpen \/ HandleSend \/ HandleReset \/ HandleDrop
Caller(s) == Write(s) \/ Finish(s) \/ Reset(s) \/ CancelWait(s) \/ DropStream(s)

SendNext ==
  \/ Pump \/ Flush \/ Handle \/ SendEvent \/ Ends
  \/ \E r \in SendStreams : Open(r) \/ GiveUpOpen(r)
  \/ \E s \in SendStreams : Caller(s) \/ Return(s)

(* The driver's turn goes on, its select is fair to the commands, and an    *)
(* answer wakes its caller.  Nothing is assumed of callers or of the peer.  *)
SendSpec == /\ SendInit /\ [][SendNext]_sendVars
        /\ WF_sendVars(Pump) /\ WF_sendVars(Flush \/ (turn = "flush" /\ Ends))
        /\ WF_sendVars(turn = "events" /\ SendEvent) /\ SF_sendVars(Handle)
        /\ \A s \in SendStreams : WF_sendVars(Return(s))

-----------------------------------------------------------------------------
(* Properties.                                                             *)

Answers == {"none", "ok", "failed"}
Calling == {"Write", "Finish", "Reset"}
FlushAnswers == {<<x[1], x[2], r>> : x \in Made, r \in {"ok", "failed"}}

(* Types; the peer's limits are kept.                                       *)
SendTypeOK ==
  /\ turn \in {"pump", "flush", "select", "events", "ended"} /\ attempts \in 0..Len(opened)
  /\ todo \in Seq(SendStreams) /\ opened \in Seq(SendStreams) /\ draining \in BOOLEAN
  /\ pending \in [SendStreams -> Seq([size : Nat, call : Nat])]
  /\ halted \subseteq SendStreams
  /\ after_flush \subseteq FlushAnswers
  /\ direction \in [SendStreams -> {"none", "open", "fin", "reset"}]
  /\ SessionSent <= window.session /\ \A s \in SendStreams : sent[s] \in 0..window.stream[s]
  /\ \A k \in {"uni", "bidi"} : OpenCount(k) <= limit[k]
  /\ open \in [SendStreams -> {"none", "waiting", "given up", "ok", "failed"}]
  /\ handle \in [SendStreams -> {"none", "held", "gone"}] /\ finished \in [SendStreams -> BOOLEAN]
  /\ calls \in [SendStreams -> Seq([op : Calling, size : Nat, answer : Answers])]
  /\ \A s \in SendStreams : waiting[s] \in 0..Len(calls[s])

Ok(s) == {c \in DOMAIN calls[s] : calls[s][c].answer = "ok"}
(* A write that was answered "ok" is sent, with all of its bytes, and after *)
(* every earlier call on its stream.                                        *)
AckedIsSent ==
  \A s \in SendStreams :
    /\ sent[s] >= Total([c \in DOMAIN calls[s] |-> IF c \in Ok(s) THEN calls[s][c].size ELSE 0])
    /\ \A c \in Ok(s) : \A d \in 1..(c - 1) : calls[s][d].answer # "none"

Over == {s \in SendStreams : s \in halted \/ direction[s] \in {"fin", "reset"}}

(* No byte is sent on a stream after its FIN, its reset or the peer's stop. *)
NothingAfterEnd == [][\A s \in Over : sent'[s] = sent[s]]_sendVars

(* The driver never sleeps on data it could send.                           *)
WorkConserving ==
  turn = "select" => \A s \in SendStreams :
    (pending[s] # <<>> /\ CanSend(s)) => First(s).size > 0 /\ Available(s) = 0

(* Every open and every call that waits is in one place: on its way to the  *)
(* driver, kept by it, or answered at the end of the turn.                  *)
Places(s, c) ==
  Cardinality({k \in DOMAIN queue : queue[k].of = s /\ queue[k].type \in Calling
                                    /\ queue[k].call = c})
  + Cardinality({k \in DOMAIN pending[s] : pending[s][k].call = c})
  + Cardinality({x \in after_flush : x[1] = s /\ x[2] = c})

NothingForgotten ==
  /\ \A x \in Unanswered : Places(x[1], x[2]) = 1
  /\ \A r \in SendStreams : open[r] = "waiting" =>
       1 = Cardinality({k \in DOMAIN opened : opened[k] = r})
           + Cardinality({k \in DOMAIN queue : queue[k].type = "Open" /\ queue[k].of = r})

(* No open goes on waiting in a session that is ending, whatever the limit. *)
DrainedOpensFail == turn = "select" /\ draining => opened = <<>>

(* A call on a stream is answered, unless the stream waits for room.  (What *)
(* is queued behind a FIN when the last room was used before it waits too,  *)
(* for the next turn, though it can only fail.)                             *)
CallsReturn ==
  \A s \in SendStreams :
    waiting[s] > 0 ~> \/ waiting[s] = 0
                      \/ pending[s] # <<>> /\ First(s).size > 0 /\ Available(s) = 0

(* What waits, waits for the peer: it is remembered, data on a stream could *)
(* not have been sent, and an open fails at once when the session ends.     *)
(* That an open may also wait behind one of the other kind, which the pump  *)
(* of the code allows, is not against it.                                   *)
WaitsOnlyForPeer == SendTypeOK /\ NothingForgotten /\ WorkConserving /\ DrainedOpensFail

(* A stream that is over sends nothing, and whoever waits on it is told.    *)
CallsEnd == NothingAfterEnd /\ CallsReturn

===============================================================================
