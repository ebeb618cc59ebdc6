------------------------------- MODULE WtH2Proofs ------------------------------
(***************************************************************************)
(* Theorems about the two halves of the driver of WebTransport over HTTP/2, *)
(* for any streams, windows and limits: first about WtH2Receive, then about *)
(* WtH2Send.                                                                *)
(***************************************************************************)
EXTENDS WtH2Receive, WtH2Send, TotalsProofs

(* What is received.                                                        *)
IInv == TypeOK /\ WindowInv /\ StopInv /\ CreditInv

(* A window grows to at most what was consumed, and never shrinks.          *)
LEMMA GrowProperties ==
  ASSUME NEW initial \in Nat, NEW bytes \in Bytes, bytes.grown <= bytes.consumed
  PROVE  /\ Grow(initial, bytes) \in Bytes
         /\ Grow(initial, bytes).received = bytes.received
         /\ Grow(initial, bytes).consumed = bytes.consumed
         /\ bytes.grown <= Grow(initial, bytes).grown
         /\ Grow(initial, bytes).grown <= bytes.consumed
<1> DEFINE n == Increment(initial, bytes)
<1>1. n = 0 \/ (n = bytes.consumed - bytes.grown /\ bytes.consumed > bytes.grown)
  BY DEF Increment, Bytes
<1> HIDE DEF n
<1>2. bytes.grown \in Nat /\ bytes.consumed \in Nat
  BY DEF Bytes
<1>3. bytes.grown + n \in Nat /\ bytes.grown <= bytes.grown + n /\ bytes.grown + n <= bytes.consumed
  BY <1>1, <1>2
<1>4. Grow(initial, bytes) = [bytes EXCEPT !.grown = bytes.grown + n]
  BY DEF Grow, n
<1> QED BY <1>3, <1>4 DEF Bytes

LEMMA CountProperties ==
  ASSUME NEW bytes \in Bytes, NEW n \in Nat
  PROVE  /\ Receive(bytes, n) \in Bytes /\ Consume(bytes, n) \in Bytes
         /\ Receive(bytes, n).received = bytes.received + n
         /\ Receive(bytes, n).consumed = bytes.consumed
         /\ Receive(bytes, n).grown = bytes.grown
         /\ Consume(bytes, n).received = bytes.received
         /\ Consume(bytes, n).consumed = bytes.consumed + n
         /\ Consume(bytes, n).grown = bytes.grown
BY DEF Bytes, Receive, Consume

LEMMA DiscardProperties ==
  ASSUME NEW bytes \in Bytes, NEW n \in Nat, bytes.grown <= bytes.consumed
  PROVE  /\ Discard(bytes, n) \in Bytes
         /\ Discard(bytes, n).received = bytes.received
         /\ Discard(bytes, n).consumed = bytes.consumed + n
         /\ bytes.grown <= Discard(bytes, n).grown
         /\ Discard(bytes, n).grown <= Discard(bytes, n).consumed
<1> DEFINE more == Consume(bytes, n)
<1>1. more \in Bytes /\ more.received = bytes.received /\ more.grown = bytes.grown
      /\ more.consumed = bytes.consumed + n
  BY CountProperties
<1>2. more.grown <= more.consumed
  BY <1>1 DEF Bytes
<1>3. Discard(bytes, n) = Grow(SessionWindow, more) /\ SessionWindow \in Nat
  BY WtH2ReceiveAssumption DEF Discard
<1> HIDE DEF more
<1> QED BY <1>1, <1>2, <1>3, GrowProperties

(* The queue of commands.                                                  *)
LEMMA PutCommand ==
  ASSUME NEW S, NEW T, S \subseteq T, NEW q \in Seq(Command(S)), NEW c \in Command(T)
  PROVE  Append(q, c) \in Seq(Command(T))
<1>1. Command(S) \subseteq Command(T)
  BY DEF Command
<1> QED BY <1>1, SeqMonotonic, AppendProperties

LEMMA TakeCommand ==
  ASSUME NEW S, NEW q \in Seq(Command(S)), q # <<>>
  PROVE  /\ Tail(q) \in Seq(Command(S))
         /\ Head(q).stream \in S /\ Head(q).size \in Nat
<1>1. Head(q) \in Command(S) /\ Tail(q) \in Seq(Command(S))
  BY HeadTailProperties
<1> QED BY <1>1 DEF Command

LEMMA KeepCommands ==
  ASSUME NEW S, NEW T, S \subseteq T, NEW q \in Seq(Command(S))
  PROVE  q \in Seq(Command(T))
<1>1. Command(S) \subseteq Command(T)
  BY DEF Command
<1> QED BY <1>1, SeqMonotonic

-----------------------------------------------------------------------------
(* Commands carry bytes.                                                   *)

Carried(S, q) == Total([i \in 1..Len(q) |-> IF q[i].stream \in S THEN q[i].size ELSE 0])
Share(S, c) == IF c.stream \in S THEN c.size ELSE 0
Weight(S) == [c \in Command(Streams) |-> Share(S, c)]

LEMMA CarriedIsTally ==
  ASSUME NEW S, NEW q \in Seq(Command(Streams))
  PROVE  Weight(S) \in [Command(Streams) -> Nat] /\ Carried(S, q) = Tally(Weight(S), q)
<1>1. \A c \in Command(Streams) : Share(S, c) \in Nat
  BY DEF Command, Share
<1>2. Weight(S) \in [Command(Streams) -> Nat]
  BY <1>1 DEF Weight
<1>3. \A i \in 1..Len(q) : Weight(S)[q[i]] = IF q[i].stream \in S THEN q[i].size ELSE 0
  BY ElementOfSeq DEF Weight, Share
<1>4. [i \in 1..Len(q) |-> Weight(S)[q[i]]]
        = [i \in 1..Len(q) |-> IF q[i].stream \in S THEN q[i].size ELSE 0]
  BY <1>3
<1> QED BY <1>2, <1>4 DEF Carried, Tally

LEMMA CarriedIsNat ==
  ASSUME NEW S, NEW q \in Seq(Command(Streams))
  PROVE  Carried(S, q) \in Nat
<1>1. Weight(S) \in [Command(Streams) -> Nat] /\ Carried(S, q) = Tally(Weight(S), q)
  BY CarriedIsTally
<1> DEFINE w == Weight(S)
<1> HIDE DEF w
<1>2. w \in [Command(Streams) -> Nat] /\ Carried(S, q) = Tally(w, q)
  BY <1>1 DEF w
<1> QED BY <1>2, TallyOfConcat

LEMMA CarriedAppend ==
  ASSUME NEW S, NEW q \in Seq(Command(Streams)), NEW c \in Command(Streams)
  PROVE  Carried(S, Append(q, c)) = Carried(S, q) + Share(S, c)
<1> DEFINE w == Weight(S)
<1>1. Append(q, c) = q \o <<c>> /\ Append(q, c) \in Seq(Command(Streams)) /\ w[c] = Share(S, c)
  BY AppendProperties, AppendIsConcat DEF Weight
<1>2. w \in [Command(Streams) -> Nat] /\ Carried(S, q) = Tally(w, q)
      /\ Carried(S, Append(q, c)) = Tally(w, Append(q, c))
  BY <1>1, CarriedIsTally
<1> HIDE DEF w
<1>3. <<c>> \in Seq(Command(Streams)) /\ Tally(w, <<c>>) = w[c]
  BY <1>2, TallyOfOne
<1>4. Tally(w, q \o <<c>>) = Tally(w, q) + Tally(w, <<c>>)
  BY <1>2, <1>3, TallyOfConcat
<1> QED BY <1>1, <1>2, <1>3, <1>4

LEMMA CarriedTail ==
  ASSUME NEW S, NEW q \in Seq(Command(Streams)), q # <<>>
  PROVE  /\ Tail(q) \in Seq(Command(Streams)) /\ Carried(S, Tail(q)) \in Nat
         /\ Carried(S, q) = Share(S, Head(q)) + Carried(S, Tail(q))
<1> DEFINE w == Weight(S)
<1>1. Tail(q) \in Seq(Command(Streams)) /\ Head(q) \in Command(Streams)
  BY HeadTailProperties
<1>2. w \in [Command(Streams) -> Nat] /\ Carried(S, q) = Tally(w, q)
      /\ Carried(S, Tail(q)) = Tally(w, Tail(q)) /\ w[Head(q)] = Share(S, Head(q))
  BY <1>1, CarriedIsTally DEF Weight
<1> HIDE DEF w
<1>3. Tally(w, q) = w[Head(q)] + Tally(w, Tail(q)) /\ Tally(w, Tail(q)) \in Nat
  BY <1>2, TallyOfTail
<1> QED BY <1>1, <1>2, <1>3

LEMMA CarriedElsewhere ==
  ASSUME NEW S, NEW T, S \subseteq Streams, T \cap S = {}, NEW q \in Seq(Command(S))
  PROVE  Carried(T, q) = 0
<1> DEFINE a == [i \in 1..Len(q) |-> IF q[i].stream \in T THEN q[i].size ELSE 0]
<1>1. \A i \in 1..Len(q) : q[i].stream \notin T
  <2> TAKE i \in 1..Len(q)
  <2>1. q[i] \in Command(S)
    BY ElementOfSeq
  <2>2. q[i].stream \in S
    BY <2>1 DEF Command
  <2> QED BY <2>2
<1>2. a \in [1..Len(q) -> Nat] /\ \A i \in 1..Len(q) : a[i] = 0
  BY <1>1
<1>3. Len(q) \in Nat
  BY LenProperties
<1> HIDE DEF a
<1>4. a \in Seq(Nat) /\ Len(a) = Len(q)
  BY <1>2, <1>3, FunctionIsSequence
<1>5. Total(a) = 0
  BY <1>2, <1>4, TotalOfZeros
<1> QED BY <1>5 DEF Carried, a

LEMMA InCommandsNat ==
  ASSUME IInv, NEW S
  PROVE  InCommands(S) = Carried(S, commands) /\ InCommands(S) \in Nat
<1>1. commands \in Seq(Command(Streams))
  BY DEF IInv, TypeOK
<1>2. InCommands(S) = Carried(S, commands)
  BY DEF InCommands, Carried
<1> QED BY <1>1, <1>2, CarriedIsNat

LEMMA CommandAdded ==
  ASSUME IInv, NEW c \in Command(Streams), commands' = Append(commands, c), NEW S
  PROVE  InCommands(S)' = InCommands(S) + Share(S, c)
<1>1. commands \in Seq(Command(Streams))
  BY DEF IInv, TypeOK
<1>2. InCommands(S) = Carried(S, commands) /\ InCommands(S)' = Carried(S, commands')
  BY DEF InCommands, Carried
<1>3. Carried(S, Append(commands, c)) = Carried(S, commands) + Share(S, c)
  BY <1>1, CarriedAppend
<1> QED BY <1>2, <1>3

LEMMA CommandTaken ==
  ASSUME IInv, commands # <<>>, commands' = Tail(commands), NEW S
  PROVE  InCommands(S) = Share(S, Head(commands)) + InCommands(S)' /\ InCommands(S)' \in Nat
<1>1. commands \in Seq(Command(Streams))
  BY DEF IInv, TypeOK
<1>2. InCommands(S) = Carried(S, commands) /\ InCommands(S)' = Carried(S, commands')
  BY DEF InCommands, Carried
<1>3. /\ Carried(S, Tail(commands)) \in Nat
      /\ Carried(S, commands) = Share(S, Head(commands)) + Carried(S, Tail(commands))
  BY <1>1, CarriedTail
<1> QED BY <1>2, <1>3

SameKnown == Known' = Known

(* One direction of a stream closes.                                       *)
LEMMA MarkRecvStep ==
  ASSUME IInv, NEW s \in Streams, s \in Known, MarkRecvClosed(s), SameKnown
  PROVE  /\ CreditInv'
         /\ peer_streams' \subseteq Peer /\ recvClosed' \subseteq Peer /\ sendClosed' \subseteq Peer
         /\ credited' \in [Streams -> 0..1]
<1> USE DEF IInv, TypeOK, CreditInv
<1>1. CASE s \in peer_streams /\ s \in sendClosed
  <2>1. /\ recvClosed' = recvClosed \cup {s} /\ sendClosed' = sendClosed
        /\ peer_streams' = peer_streams \ {s}
        /\ credited' = [credited EXCEPT ![s] = 1]
    <3>1. credited[s] = 0 /\ s \notin recvClosed
      BY <1>1
    <3> QED BY <1>1, <3>1 DEF MarkRecvClosed, CreditIfClosed
  <2> QED BY <1>1, <2>1 DEF SameKnown
<1>2. CASE s \in peer_streams /\ s \notin sendClosed
  <2>1. /\ recvClosed' = recvClosed \cup {s} /\ sendClosed' = sendClosed
        /\ peer_streams' = peer_streams /\ credited' = credited
    BY <1>2 DEF MarkRecvClosed, CreditIfClosed
  <2> QED BY <1>2, <2>1 DEF SameKnown
<1>3. CASE s \notin peer_streams
  <2>1. /\ recvClosed' = recvClosed /\ sendClosed' = sendClosed
        /\ peer_streams' = peer_streams /\ credited' = credited
    BY <1>3 DEF MarkRecvClosed, CreditIfClosed
  <2> QED BY <2>1 DEF SameKnown
<1> QED BY <1>1, <1>2, <1>3

LEMMA MarkSendStep ==
  ASSUME IInv, NEW s \in Streams, s \in Known, MarkSendClosed(s), SameKnown
  PROVE  /\ CreditInv'
         /\ peer_streams' \subseteq Peer /\ recvClosed' \subseteq Peer /\ sendClosed' \subseteq Peer
         /\ credited' \in [Streams -> 0..1]
<1> USE DEF IInv, TypeOK, CreditInv
<1>1. CASE s \in peer_streams /\ s \in recvClosed
  <2>1. /\ sendClosed' = sendClosed \cup {s} /\ recvClosed' = recvClosed
        /\ peer_streams' = peer_streams \ {s}
        /\ credited' = [credited EXCEPT ![s] = 1]
    <3>1. credited[s] = 0 /\ s \notin sendClosed
      BY <1>1
    <3> QED BY <1>1, <3>1 DEF MarkSendClosed, CreditIfClosed
  <2> QED BY <1>1, <2>1 DEF SameKnown
<1>2. CASE s \in peer_streams /\ s \notin recvClosed
  <2>1. /\ sendClosed' = sendClosed \cup {s} /\ recvClosed' = recvClosed
        /\ peer_streams' = peer_streams /\ credited' = credited
    BY <1>2 DEF MarkSendClosed, CreditIfClosed
  <2> QED BY <1>2, <2>1 DEF SameKnown
<1>3. CASE s \notin peer_streams
  <2>1. /\ recvClosed' = recvClosed /\ sendClosed' = sendClosed
        /\ peer_streams' = peer_streams /\ credited' = credited
    BY <1>3 DEF MarkSendClosed, CreditIfClosed
  <2> QED BY <2>1 DEF SameKnown
<1> QED BY <1>1, <1>2, <1>3

LEMMA InitInv == Init => IInv
<1> SUFFICES ASSUME Init PROVE IInv
  OBVIOUS
<1> USE DEF Init
<1>1. commands \in Seq(Command(Streams)) /\ commands \in Seq(Command(Known))
  BY EmptySeq
<1>2. NoBytes \in Bytes /\ NoBytes.received = 0 /\ NoBytes.consumed = 0 /\ NoBytes.grown = 0
  BY DEF NoBytes, Bytes
<1>3. TypeOK
  BY <1>1, <1>2 DEF TypeOK
<1>4. WindowInv
  BY <1>2, WtH2ReceiveAssumption DEF WindowInv
<1>5. StopInv /\ CreditInv
  BY <1>1 DEF StopInv, CreditInv, Known
<1> QED BY <1>3, <1>4, <1>5 DEF IInv

(* A stream opens: it becomes known.                                       *)
LEMMA StreamOpenedStep ==
  ASSUME IInv, NEW s \in Streams, StreamOpened(s)
  PROVE  IInv'
<1> USE DEF IInv, StreamOpened
<1>1. s \in Peer /\ s \notin Known
  BY DEF Known, Peer
<1>2. Known' = Known \cup {s}
  BY DEF Known, TypeOK
<1>3. StopRead(s, 0) \in Command({s})
  BY DEF StopRead, Command
<1>4. commands' \in Seq(Command(Known'))
  <2>1. Known \subseteq Known' /\ s \in Known' /\ commands \in Seq(Command(Known))
    BY <1>2 DEF StopInv
  <2>2. StopRead(s, 0) \in Command(Known')
    BY <1>3, <2>1 DEF Command
  <2>3. commands' = commands \/ commands' = Append(commands, StopRead(s, 0))
    OBVIOUS
  <2>4. commands \in Seq(Command(Known'))
    BY <2>1, KeepCommands
  <2>5. Append(commands, StopRead(s, 0)) \in Seq(Command(Known'))
    BY <2>1, <2>2, PutCommand
  <2> QED BY <2>3, <2>4, <2>5
<1>5. commands' \in Seq(Command(Streams))
  BY <1>4, KeepCommands DEF Known
<1>6. TypeOK'
  BY <1>1, <1>5 DEF TypeOK, Peer
<1>7. StopInv'
  BY <1>1, <1>2, <1>4 DEF StopInv, TypeOK
<1>8. CreditInv'
  BY <1>1, <1>2, WtH2ReceiveAssumption DEF CreditInv, TypeOK, Peer
<1>9. WindowInv'
  BY DEF WindowInv
<1> QED BY <1>6, <1>7, <1>8, <1>9

LEMMA LocalOpenedStep ==
  ASSUME IInv, NEW s \in Streams, LocalOpened(s)
  PROVE  IInv'
<1> USE DEF IInv, LocalOpened
<1>1. s \notin Peer /\ s \notin Known /\ Known' = Known \cup {s}
  BY WtH2ReceiveAssumption DEF Known, TypeOK, Peer
<1>2. commands' \in Seq(Command(Known'))
  BY <1>1, KeepCommands DEF StopInv
<1>3. TypeOK'
  BY DEF TypeOK, peerVars
<1>4. StopInv'
  BY <1>1, <1>2 DEF StopInv, TypeOK
<1>5. CreditInv'
  BY <1>1 DEF CreditInv, peerVars
<1>6. WindowInv'
  BY DEF WindowInv
<1> QED BY <1>3, <1>4, <1>5, <1>6

(* Data of a stream.  What the three cases share is the stream's window and *)
(* the peer's direction.                                                   *)
LEMMA SendableFacts ==
  ASSUME IInv, NEW s \in Streams, NEW n \in Nat, NEW fin \in BOOLEAN, Sendable(s, n, fin),
         stream' = [stream EXCEPT ![s] = Receive(@, n)]
  PROVE  /\ session.received + n <= SessionWindow + session.grown
         /\ peer' \in [Streams -> {"idle", "open", "finished"}]
         /\ s \in Known /\ SameKnown
         /\ stream' \in [Streams -> Bytes]
         /\ \A t \in Streams : stream'[t].grown = stream[t].grown
                               /\ stream'[t].consumed = stream[t].consumed
<1>1. stream[s] \in Bytes /\ session \in Bytes
  BY DEF IInv, TypeOK
<1>2. SessionWindow \in Nat /\ session.received \in Nat /\ session.grown \in Nat
  BY <1>1, WtH2ReceiveAssumption DEF Bytes
<1>3. session.received + n <= SessionWindow + session.grown
  BY <1>2 DEF Sendable, Credit
<1>4. Receive(stream[s], n) \in Bytes
      /\ Receive(stream[s], n).grown = stream[s].grown
      /\ Receive(stream[s], n).consumed = stream[s].consumed
  BY <1>1, CountProperties
<1>5. stream' \in [Streams -> Bytes]
      /\ \A t \in Streams : stream'[t].grown = stream[t].grown
                            /\ stream'[t].consumed = stream[t].consumed
  BY <1>4 DEF IInv, TypeOK
<1>6. peer' \in [Streams -> {"idle", "open", "finished"}] /\ s \in Known /\ SameKnown
  BY DEF IInv, TypeOK, Sendable, Known, SameKnown
<1> QED BY <1>3, <1>5, <1>6

LEMMA DataDiscardedStep ==
  ASSUME IInv, NEW s \in Streams, NEW n \in Nat, NEW fin \in BOOLEAN, DataDiscarded(s, n, fin)
  PROVE  IInv'
<1> DEFINE more == Receive(session, n)
<1>1. /\ Sendable(s, n, fin) /\ session' = Discard(more, n)
      /\ stream' = [stream EXCEPT ![s] = Receive(@, n)]
      /\ stop_sent' = IF fin THEN stop_sent \ {s} ELSE stop_sent
      /\ UNCHANGED <<recv_streams, peerVars, readerVars, commands, stopped>>
  BY DEF DataDiscarded
<1>2. /\ session.received + n <= SessionWindow + session.grown
      /\ peer' \in [Streams -> {"idle", "open", "finished"}] /\ Known' = Known
      /\ stream' \in [Streams -> Bytes]
      /\ \A t \in Streams : stream'[t].grown = stream[t].grown
                            /\ stream'[t].consumed = stream[t].consumed
  BY <1>1, SendableFacts DEF SameKnown
<1>3. /\ session' \in Bytes /\ session'.received = session.received + n
      /\ session.grown <= session'.grown /\ session'.grown <= session'.consumed
  <2>1. session \in Bytes /\ session.grown <= session.consumed
    BY DEF IInv, TypeOK, WindowInv
  <2>2. /\ more \in Bytes /\ more.received = session.received + n
        /\ more.grown = session.grown /\ more.consumed = session.consumed
    BY <2>1, CountProperties
  <2> HIDE DEF more
  <2> QED BY <1>1, <2>1, <2>2, DiscardProperties
<1> HIDE DEF more
<1>4. TypeOK'
  BY <1>1, <1>2, <1>3 DEF IInv, TypeOK, peerVars, readerVars
<1>5. WindowInv'
  <2>1. session.grown \in Nat /\ session'.grown \in Nat /\ session.received \in Nat /\ SessionWindow \in Nat
    BY <1>3, WtH2ReceiveAssumption DEF IInv, TypeOK, Bytes
  <2>2. session'.received <= SessionWindow + session'.grown
    BY <1>2, <1>3, <2>1
  <2> QED BY <1>2, <1>3, <2>2 DEF IInv, WindowInv
<1>6. StopInv' /\ CreditInv'
  BY <1>1, <1>2 DEF IInv, StopInv, CreditInv, peerVars, readerVars
<1> QED BY <1>4, <1>5, <1>6 DEF IInv

LEMMA DataDeliveredStep ==
  ASSUME IInv, NEW s \in Streams, NEW n \in Nat, NEW fin \in BOOLEAN, DataDelivered(s, n, fin)
  PROVE  IInv'
<1>1. /\ Sendable(s, n, fin) /\ session' = Receive(session, n)
      /\ stream' = [stream EXCEPT ![s] = Receive(@, n)]
      /\ incoming' = [incoming EXCEPT ![s] = @ + n]
      /\ IF fin THEN MarkRecvClosed(s) ELSE UNCHANGED peerVars
      /\ UNCHANGED <<recv_streams, stop_sent, reader, buffer, commands, stopped>>
  BY DEF DataDelivered
<1>2. /\ session.received + n <= SessionWindow + session.grown
      /\ peer' \in [Streams -> {"idle", "open", "finished"}] /\ s \in Known /\ SameKnown
      /\ stream' \in [Streams -> Bytes]
      /\ \A t \in Streams : stream'[t].grown = stream[t].grown
                            /\ stream'[t].consumed = stream[t].consumed
  BY <1>1, SendableFacts
<1>3. /\ session' \in Bytes /\ session'.received = session.received + n
      /\ session'.grown = session.grown /\ session'.consumed = session.consumed
  <2>1. session \in Bytes
    BY DEF IInv, TypeOK
  <2> QED BY <1>1, <2>1, CountProperties
<1>4. /\ CreditInv'
      /\ peer_streams' \subseteq Peer /\ recvClosed' \subseteq Peer /\ sendClosed' \subseteq Peer
      /\ credited' \in [Streams -> 0..1]
  <2>1. CASE fin
    BY <1>1, <1>2, <2>1, MarkRecvStep
  <2>2. CASE ~fin
    BY <1>1, <1>2, <2>2 DEF IInv, CreditInv, TypeOK, peerVars, SameKnown
  <2> QED BY <2>1, <2>2
<1>5. TypeOK'
  BY <1>1, <1>2, <1>3, <1>4 DEF IInv, TypeOK
<1>6. WindowInv'
  BY <1>2, <1>3 DEF IInv, WindowInv
<1>7. StopInv'
  BY <1>1, <1>2 DEF IInv, StopInv, SameKnown
<1> QED BY <1>4, <1>5, <1>6, <1>7 DEF IInv

LEMMA DataUnheardStep ==
  ASSUME IInv, NEW s \in Streams, NEW n \in Nat, NEW fin \in BOOLEAN, DataUnheard(s, n, fin)
  PROVE  IInv'
<1> DEFINE more == Receive(session, n)
<1>1. /\ Sendable(s, n, fin) /\ session' = Discard(more, n)
      /\ stream' = [stream EXCEPT ![s] = Receive(@, n)]
      /\ recv_streams' = recv_streams \ {s}
      /\ IF fin THEN MarkRecvClosed(s) ELSE UNCHANGED peerVars
      /\ UNCHANGED <<stop_sent, readerVars, commands, stopped>>
  BY DEF DataUnheard
<1>2. /\ session.received + n <= SessionWindow + session.grown
      /\ peer' \in [Streams -> {"idle", "open", "finished"}] /\ s \in Known /\ SameKnown
      /\ stream' \in [Streams -> Bytes]
      /\ \A t \in Streams : stream'[t].grown = stream[t].grown
                            /\ stream'[t].consumed = stream[t].consumed
  BY <1>1, SendableFacts
<1>3. /\ session' \in Bytes /\ session'.received = session.received + n
      /\ session.grown <= session'.grown /\ session'.grown <= session'.consumed
  <2>1. session \in Bytes /\ session.grown <= session.consumed
    BY DEF IInv, TypeOK, WindowInv
  <2>2. /\ more \in Bytes /\ more.received = session.received + n
        /\ more.grown = session.grown /\ more.consumed = session.consumed
    BY <2>1, CountProperties
  <2> HIDE DEF more
  <2> QED BY <1>1, <2>1, <2>2, DiscardProperties
<1> HIDE DEF more
<1>4. /\ CreditInv'
      /\ peer_streams' \subseteq Peer /\ recvClosed' \subseteq Peer /\ sendClosed' \subseteq Peer
      /\ credited' \in [Streams -> 0..1]
  <2>1. CASE fin
    BY <1>1, <1>2, <2>1, MarkRecvStep
  <2>2. CASE ~fin
    BY <1>1, <1>2, <2>2 DEF IInv, CreditInv, TypeOK, peerVars, SameKnown
  <2> QED BY <2>1, <2>2
<1>5. TypeOK'
  BY <1>1, <1>2, <1>3, <1>4 DEF IInv, TypeOK, readerVars
<1>6. WindowInv'
  <2>1. session.grown \in Nat /\ session'.grown \in Nat /\ session.received \in Nat /\ SessionWindow \in Nat
    BY <1>3, WtH2ReceiveAssumption DEF IInv, TypeOK, Bytes
  <2>2. session'.received <= SessionWindow + session'.grown
    BY <1>2, <1>3, <2>1
  <2> QED BY <1>2, <1>3, <2>2 DEF IInv, WindowInv
<1>7. StopInv'
  BY <1>1, <1>2 DEF IInv, StopInv, SameKnown, readerVars
<1> QED BY <1>4, <1>5, <1>6, <1>7 DEF IInv

(* A stream of the peer is reset, or our side of one ends.                 *)
LEMMA StreamResetStep ==
  ASSUME IInv, NEW s \in Streams, StreamReset(s)
  PROVE  IInv'
<1>1. /\ peer[s] = "open" /\ peer' = [peer EXCEPT ![s] = "finished"]
      /\ recv_streams' = recv_streams \ {s} /\ stop_sent' = stop_sent \ {s}
      /\ MarkRecvClosed(s)
      /\ UNCHANGED <<session, stream, incoming, reader, buffer, commands, stopped>>
  BY DEF StreamReset, readerVars
<1>2. s \in Known /\ SameKnown
  BY <1>1 DEF IInv, TypeOK, Known, SameKnown
<1>3. /\ CreditInv'
      /\ peer_streams' \subseteq Peer /\ recvClosed' \subseteq Peer /\ sendClosed' \subseteq Peer
      /\ credited' \in [Streams -> 0..1]
  BY <1>1, <1>2, MarkRecvStep
<1>4. TypeOK'
  BY <1>1, <1>3 DEF IInv, TypeOK
<1>5. WindowInv' /\ StopInv'
  BY <1>1, <1>2 DEF IInv, WindowInv, StopInv, SameKnown
<1> QED BY <1>3, <1>4, <1>5 DEF IInv

LEMMA SendEndsStep ==
  ASSUME IInv, NEW s \in Streams, SendEnds(s)
  PROVE  IInv'
<1>1. /\ peer[s] # "idle" /\ MarkSendClosed(s)
      /\ UNCHANGED <<peer, recv_streams, session, stream, stop_sent, incoming, reader, buffer,
                     commands, stopped>>
  BY DEF SendEnds, readerVars
<1>2. s \in Known /\ SameKnown
  BY <1>1 DEF Known, SameKnown
<1>3. /\ CreditInv'
      /\ peer_streams' \subseteq Peer /\ recvClosed' \subseteq Peer /\ sendClosed' \subseteq Peer
      /\ credited' \in [Streams -> 0..1]
  BY <1>1, <1>2, MarkSendStep
<1>4. TypeOK'
  BY <1>1, <1>3 DEF IInv, TypeOK
<1>5. WindowInv' /\ StopInv'
  BY <1>1, <1>2 DEF IInv, WindowInv, StopInv, SameKnown
<1> QED BY <1>3, <1>4, <1>5 DEF IInv

(* What readers do touches them and the queue of commands only.            *)
LEMMA ReaderStep ==
  ASSUME IInv, NEW s \in Streams, s \in Known,
         incoming' \in [Streams -> Nat], buffer' \in [Streams -> Nat],
         reader' = reader \/ reader' = [reader EXCEPT ![s] = "gone"],
         commands' \in Seq(Command(Known)),
         UNCHANGED <<peer, recv_streams, session, stream, stop_sent, peerVars, stopped>>
  PROVE  IInv'
<1>1. SameKnown
  BY DEF SameKnown, Known
<1>2. commands' \in Seq(Command(Streams))
  BY KeepCommands DEF Known
<1>3. TypeOK'
  BY <1>2 DEF IInv, TypeOK, peerVars
<1>4. WindowInv' /\ CreditInv'
  BY <1>1 DEF IInv, WindowInv, CreditInv, peerVars, SameKnown
<1>5. StopInv'
  BY <1>1 DEF IInv, TypeOK, StopInv, SameKnown
<1> QED BY <1>3, <1>4, <1>5 DEF IInv

LEMMA ReadersStep ==
  ASSUME IInv, NEW s \in Streams, TakeData(s) \/ Read(s) \/ DropReader(s)
  PROVE  IInv'
<1>1. reader[s] = "open"
  BY DEF TakeData, Read, DropReader
<1>2. s \in Known /\ commands \in Seq(Command(Known)) /\ incoming[s] \in Nat /\ buffer[s] \in Nat
  BY <1>1 DEF IInv, TypeOK, StopInv
<1>3. /\ incoming \in [Streams -> Nat] /\ buffer \in [Streams -> Nat]
  BY DEF IInv, TypeOK
<1>4. CASE TakeData(s)
  <2>1. PICK n \in 1..incoming[s] : /\ buffer' = [buffer EXCEPT ![s] = n]
                                    /\ incoming' = [incoming EXCEPT ![s] = @ - n]
    BY <1>4 DEF TakeData
  <2>2. n \in Nat /\ incoming[s] - n \in Nat
    BY <1>2
  <2>3. buffer' \in [Streams -> Nat] /\ incoming' \in [Streams -> Nat]
    BY <1>3, <2>1, <2>2
  <2> QED BY <1>2, <1>4, <2>3, ReaderStep DEF TakeData
<1>5. CASE Read(s)
  <2>1. PICK n \in 1..buffer[s] : /\ buffer' = [buffer EXCEPT ![s] = @ - n]
                                  /\ commands' = Append(commands, Consumed(s, n))
    BY <1>5 DEF Read
  <2>2. n \in Nat /\ buffer[s] - n \in Nat
    BY <1>2
  <2>3. buffer' \in [Streams -> Nat] /\ incoming' \in [Streams -> Nat]
    BY <1>3, <1>5, <2>1, <2>2 DEF Read
  <2>4. Consumed(s, n) \in Command(Known)
    BY <1>2, <2>2 DEF Consumed, Command
  <2>5. commands' \in Seq(Command(Known))
    BY <1>2, <2>1, <2>4, PutCommand
  <2> QED BY <1>2, <1>5, <2>3, <2>5, ReaderStep DEF Read
<1>6. CASE DropReader(s)
  <2>1. buffer' \in [Streams -> Nat] /\ incoming' \in [Streams -> Nat]
    BY <1>3, <1>6 DEF DropReader
  <2>2. UnreadOf(s) \in Nat
    BY <1>2 DEF UnreadOf
  <2>3. StopRead(s, UnreadOf(s)) \in Command(Known)
    BY <1>2, <2>2 DEF StopRead, Command
  <2>4. commands' \in Seq(Command(Known))
    BY <1>2, <1>6, <2>3, PutCommand DEF DropReader
  <2> QED BY <1>2, <1>6, <2>1, <2>4, ReaderStep DEF DropReader
<1> QED BY <1>4, <1>5, <1>6

(* The driver takes a command.                                             *)
LEMMA CommandFacts ==
  ASSUME IInv, commands # <<>>, commands' = Tail(commands), UNCHANGED peer
  PROVE  /\ Head(commands).stream \in Known /\ Head(commands).stream \in Streams
         /\ Head(commands).size \in Nat
         /\ commands' \in Seq(Command(Streams)) /\ commands' \in Seq(Command(Known'))
         /\ SameKnown
<1>1. SameKnown
  BY DEF SameKnown, Known
<1>2. commands \in Seq(Command(Known)) /\ Known \subseteq Streams
  BY DEF IInv, StopInv, Known
<1>3. Tail(commands) \in Seq(Command(Known)) /\ Head(commands).stream \in Known
      /\ Head(commands).size \in Nat
  BY <1>2, TakeCommand
<1>4. Tail(commands) \in Seq(Command(Streams))
  BY <1>2, <1>3, KeepCommands
<1> QED BY <1>1, <1>2, <1>3, <1>4 DEF SameKnown

LEMMA HandleConsumedStep ==
  ASSUME IInv, HandleConsumed
  PROVE  /\ IInv'
         /\ \A t \in Streams \ recv_streams : stream'[t] = stream[t]
<1> DEFINE s == Head(commands).stream
           n == Head(commands).size
           after == Consume(stream[s], n)
           more == Consume(session, n)
           new == IF peer[s] = "open" THEN Grow(StreamWindow, after) ELSE after
<1>1. /\ commands # <<>> /\ commands' = Tail(commands)
      /\ session' = Grow(SessionWindow, more)
      /\ stream' = IF s \notin recv_streams THEN stream ELSE [stream EXCEPT ![s] = new]
      /\ UNCHANGED <<peer, recv_streams, stop_sent, peer_streams, recvClosed, sendClosed, credited,
                     incoming, reader, buffer, stopped>>
  BY DEF HandleConsumed, peerVars, readerVars
<1>2. /\ s \in Known /\ s \in Streams /\ n \in Nat /\ SameKnown
      /\ commands' \in Seq(Command(Streams)) /\ commands' \in Seq(Command(Known'))
  BY <1>1, CommandFacts
<1>3. session \in Bytes /\ stream[s] \in Bytes /\ session.grown <= session.consumed
      /\ stream[s].grown <= stream[s].consumed
      /\ session.received <= SessionWindow + session.grown
  BY <1>2 DEF IInv, TypeOK, WindowInv
<1>4. /\ after \in Bytes /\ after.grown <= after.consumed
      /\ more \in Bytes /\ more.grown <= more.consumed
      /\ more.received = session.received /\ more.grown = session.grown
  <2> HIDE DEF s, n
  <2>1. /\ after \in Bytes /\ after.consumed = stream[s].consumed + n
        /\ after.grown = stream[s].grown
    BY <1>2, <1>3, CountProperties
  <2>2. /\ more \in Bytes /\ more.received = session.received
        /\ more.consumed = session.consumed + n /\ more.grown = session.grown
    BY <1>2, <1>3, CountProperties
  <2>3. \A k, c, m \in Nat : k <= c => k <= c + m
    OBVIOUS
  <2>4. {session.grown, session.consumed, stream[s].grown, stream[s].consumed} \subseteq Nat
    BY <1>3 DEF Bytes
  <2> HIDE DEF after, more
  <2> QED BY <1>2, <1>3, <2>1, <2>2, <2>3, <2>4
<1> HIDE DEF s, n, after, more
<1>5. /\ session' \in Bytes /\ session'.received = session.received
      /\ session.grown <= session'.grown /\ session'.grown <= session'.consumed
  BY <1>1, <1>4, WtH2ReceiveAssumption, GrowProperties
<1>6. new \in Bytes /\ new.grown <= new.consumed
  BY <1>4, WtH2ReceiveAssumption, GrowProperties
<1> HIDE DEF new
<1>7. stream' \in [Streams -> Bytes]
  BY <1>1, <1>6 DEF IInv, TypeOK
<1>8. \A t \in Streams : stream'[t].grown <= stream'[t].consumed
  BY <1>1, <1>6 DEF IInv, TypeOK, WindowInv
<1>9. TypeOK'
  BY <1>1, <1>2, <1>5, <1>7 DEF IInv, TypeOK
<1>10. WindowInv'
  <2>1. session.grown \in Nat /\ session'.grown \in Nat /\ session.received \in Nat /\ SessionWindow \in Nat
    BY <1>3, <1>5, WtH2ReceiveAssumption DEF Bytes
  <2>2. session'.received <= SessionWindow + session'.grown
    BY <1>3, <1>5, <2>1
  <2> QED BY <1>5, <1>8, <2>2 DEF WindowInv
<1>11. StopInv' /\ CreditInv'
  BY <1>1, <1>2 DEF IInv, StopInv, CreditInv, SameKnown
<1>12. \A t \in Streams \ recv_streams : stream'[t] = stream[t]
  BY <1>1 DEF IInv, TypeOK
<1> QED BY <1>9, <1>10, <1>11, <1>12 DEF IInv

LEMMA HandleStopReadStep ==
  ASSUME IInv, HandleStopRead
  PROVE  IInv'
<1> DEFINE s == Head(commands).stream
           n == Head(commands).size
<1>1. /\ commands # <<>> /\ commands' = Tail(commands)
      /\ recv_streams' = recv_streams \ {s}
      /\ session' = IF n > 0 THEN Discard(session, n) ELSE session
      /\ stop_sent' = stop_sent \/ stop_sent' = stop_sent \cup {s}
      /\ stopped' = stopped \/ stopped' = stopped \cup {s}
      /\ MarkRecvClosed(s)
      /\ UNCHANGED <<peer, stream, incoming, reader, buffer>>
  BY DEF HandleStopRead, readerVars
<1>2. /\ s \in Known /\ s \in Streams /\ n \in Nat /\ SameKnown
      /\ commands' \in Seq(Command(Streams)) /\ commands' \in Seq(Command(Known'))
  BY <1>1, CommandFacts
<1> HIDE DEF s, n
<1>3. session \in Bytes /\ session.grown <= session.consumed
      /\ session.received <= SessionWindow + session.grown
  BY DEF IInv, TypeOK, WindowInv
<1>4. /\ session' \in Bytes /\ session'.received = session.received
      /\ session.grown <= session'.grown /\ session'.grown <= session'.consumed
  <2>1. CASE n > 0
    BY <1>1, <1>2, <1>3, <2>1, DiscardProperties
  <2>2. CASE ~(n > 0)
    BY <1>1, <1>3, <2>2 DEF Bytes
  <2> QED BY <2>1, <2>2
<1>5. /\ CreditInv'
      /\ peer_streams' \subseteq Peer /\ recvClosed' \subseteq Peer /\ sendClosed' \subseteq Peer
      /\ credited' \in [Streams -> 0..1]
  BY <1>1, <1>2, MarkRecvStep
<1>6. TypeOK'
  BY <1>1, <1>2, <1>4, <1>5 DEF IInv, TypeOK
<1>7. WindowInv'
  <2>1. session.grown \in Nat /\ session'.grown \in Nat /\ session.received \in Nat /\ SessionWindow \in Nat
    BY <1>3, <1>4, WtH2ReceiveAssumption DEF Bytes
  <2>2. session'.received <= SessionWindow + session'.grown
    BY <1>3, <1>4, <2>1
  <2> QED BY <1>1, <1>4, <2>2 DEF IInv, WindowInv
<1>8. StopInv'
  BY <1>1, <1>2 DEF IInv, StopInv, SameKnown
<1> QED BY <1>5, <1>6, <1>7, <1>8 DEF IInv

LEMMA StutterStep == IInv /\ UNCHANGED vars => IInv'
<1> SUFFICES ASSUME IInv, UNCHANGED vars PROVE IInv'
  OBVIOUS
<1> USE DEF vars, peerVars, readerVars
<1>1. TypeOK' /\ WindowInv'
  BY DEF IInv, TypeOK, WindowInv
<1>2. Known' = Known
  BY DEF Known
<1>3. StopInv' /\ CreditInv'
  BY <1>2 DEF IInv, StopInv, CreditInv
<1> QED BY <1>1, <1>3 DEF IInv

LEMMA NextInv == IInv /\ [Next]_vars => IInv'
<1> SUFFICES ASSUME IInv, [Next]_vars PROVE IInv'
  OBVIOUS
<1>1. CASE UNCHANGED vars
  BY <1>1, StutterStep
<1>2. CASE HandleConsumed \/ HandleStopRead
  BY <1>2, HandleConsumedStep, HandleStopReadStep
<1>3. ASSUME NEW s \in Streams, Event(s) PROVE IInv'
  <2>1. CASE StreamOpened(s) \/ LocalOpened(s) \/ StreamReset(s) \/ SendEnds(s)
    BY <2>1, StreamOpenedStep, LocalOpenedStep, StreamResetStep, SendEndsStep
  <2>2. ASSUME NEW n \in 0..SessionWindow, NEW fin \in BOOLEAN,
               DataDiscarded(s, n, fin) \/ DataDelivered(s, n, fin) \/ DataUnheard(s, n, fin)
        PROVE  IInv'
    <3>1. n \in Nat
      BY WtH2ReceiveAssumption
    <3> QED BY <2>2, <3>1, DataDiscardedStep, DataDeliveredStep, DataUnheardStep
  <2> QED BY <1>3, <2>1, <2>2 DEF Event
<1>4. ASSUME NEW s \in Streams, TakeData(s) \/ Read(s) \/ DropReader(s) PROVE IInv'
  BY <1>4, ReadersStep
<1> QED BY <1>1, <1>2, <1>3, <1>4 DEF Next

-----------------------------------------------------------------------------
(* Bytes: where each one is, and windows that stay open.                    *)

AllUnread == TotalOver(Streams, [s \in Streams |-> UnreadOf(s)])
BytesInv == FreshInv /\ BytesAccounted /\ NoStall
OpenWhenRead(initial, bytes) ==
  bytes.received = bytes.consumed => 2 * Credit(initial, bytes) >= initial

(* A window that was looked at leaves half of it once all is consumed.      *)
LEMMA GrowOpens ==
  ASSUME NEW initial \in Nat, NEW bytes \in Bytes, bytes.grown <= bytes.consumed
  PROVE  OpenWhenRead(initial, Grow(initial, bytes))
<1> DEFINE r == bytes.received
           c == bytes.consumed
           g == bytes.grown
           half == (initial + 1) \div 2
           n == Increment(initial, bytes)
<1>1. r \in Nat /\ c \in Nat /\ g \in Nat
  BY DEF Bytes
<1>2. half \in Nat /\ 2 * half >= initial
  OBVIOUS
<1>3. n = IF initial + g - r >= half \/ c <= g THEN 0 ELSE c - g
  BY DEF Increment, Credit
<1>4. Grow(initial, bytes).received = r /\ Grow(initial, bytes).consumed = c
      /\ Grow(initial, bytes).grown = g + n
  BY DEF Grow, Bytes
<1> HIDE DEF n, half, r, c, g
<1>5. r = c => 2 * (initial + (g + n) - r) >= initial
  <2> SUFFICES ASSUME r = c PROVE 2 * (initial + (g + n) - r) >= initial
    OBVIOUS
  <2>1. CASE initial + g - r >= half
    <3>1. g + n = g
      BY <1>1, <1>3, <2>1
    <3> QED BY <1>1, <1>2, <2>1, <3>1
  <2>2. CASE ~(initial + g - r >= half)
    <3>1. g + n = c
      BY <1>1, <1>3, <2>2 DEF c, g
    <3> QED BY <1>1, <3>1
  <2> QED BY <2>1, <2>2
<1> QED BY <1>4, <1>5 DEF OpenWhenRead, Credit

LEMMA DiscardOpens ==
  ASSUME NEW bytes \in Bytes, NEW n \in Nat, bytes.grown <= bytes.consumed
  PROVE  OpenWhenRead(SessionWindow, Discard(bytes, n))
<1> DEFINE more == Consume(bytes, n)
<1>1. more \in Bytes /\ more.grown = bytes.grown /\ more.consumed = bytes.consumed + n
  BY CountProperties
<1>2. more.grown <= more.consumed
  BY <1>1 DEF Bytes
<1>3. Discard(bytes, n) = Grow(SessionWindow, more) /\ SessionWindow \in Nat
  BY WtH2ReceiveAssumption DEF Discard
<1> HIDE DEF more
<1> QED BY <1>1, <1>2, <1>3, GrowOpens

LEMMA ReceiveOpens ==
  ASSUME NEW initial \in Nat, NEW bytes \in Bytes, NEW n \in Nat,
         bytes.consumed <= bytes.received, OpenWhenRead(initial, bytes)
  PROVE  OpenWhenRead(initial, Receive(bytes, n))
<1>1. /\ Receive(bytes, n).received = bytes.received + n
      /\ Receive(bytes, n).consumed = bytes.consumed
      /\ Receive(bytes, n).grown = bytes.grown
  BY CountProperties
<1>2. bytes.received \in Nat /\ bytes.consumed \in Nat /\ bytes.grown \in Nat
  BY DEF Bytes
<1>3. bytes.received + n = bytes.consumed => bytes.received = bytes.consumed /\ n = 0
  BY <1>2
<1> QED BY <1>1, <1>2, <1>3 DEF OpenWhenRead, Credit

LEMMA UnreadNat ==
  IInv => /\ [s \in Streams |-> UnreadOf(s)] \in [Streams -> Nat]
          /\ AllUnread \in Nat /\ InCommands(Streams) \in Nat
          /\ \A s \in Streams : UnreadOf(s) \in Nat
<1> SUFFICES ASSUME IInv
             PROVE  /\ [s \in Streams |-> UnreadOf(s)] \in [Streams -> Nat]
                    /\ AllUnread \in Nat /\ InCommands(Streams) \in Nat
                    /\ \A s \in Streams : UnreadOf(s) \in Nat
  OBVIOUS
<1>1. \A s \in Streams : UnreadOf(s) \in Nat
  BY DEF IInv, TypeOK, UnreadOf
<1>2. IsFiniteSet(Streams)
  BY WtH2ReceiveAssumption DEF Streams, Peer
<1>3. [s \in Streams |-> UnreadOf(s)] \in [Streams -> Nat]
  BY <1>1
<1>4. AllUnread \in Nat
  BY <1>2, <1>3, TotalOverIsNat DEF AllUnread
<1> QED BY <1>1, <1>3, <1>4, InCommandsNat

LEMMA UnreadNatNext ==
  (IInv => /\ AllUnread \in Nat /\ InCommands(Streams) \in Nat
           /\ \A s \in Streams : UnreadOf(s) \in Nat)'
<1>1. IInv => /\ AllUnread \in Nat /\ InCommands(Streams) \in Nat
              /\ \A s \in Streams : UnreadOf(s) \in Nat
  BY UnreadNat
<1> QED BY <1>1, PTL

(* Nothing of the other streams changes.                                    *)
Elsewhere(s) ==
  \A t \in Streams \ {s} :
    /\ UnreadOf(t)' = UnreadOf(t) /\ stream'[t] = stream[t] /\ peer'[t] = peer[t]
    /\ t \in recv_streams' => t \in recv_streams

LEMMA OneUnread ==
  ASSUME IInv, IInv', NEW s \in Streams, Elsewhere(s)
  PROVE  AllUnread' + UnreadOf(s) = AllUnread + UnreadOf(s)'
<1> DEFINE f == [t \in Streams |-> UnreadOf(t)]
           v == UnreadOf(s)'
<1>1. f \in [Streams -> Nat] /\ v \in Nat /\ f[s] = UnreadOf(s)
  <2>1. UnreadOf(s)' \in Nat
    BY DEF IInv, TypeOK, UnreadOf
  <2> QED BY <2>1, UnreadNat
<1>2. f' = [f EXCEPT ![s] = v]
  BY DEF Elsewhere
<1>3. IsFiniteSet(Streams)
  BY WtH2ReceiveAssumption DEF Streams, Peer
<1>4. AllUnread = TotalOver(Streams, f) /\ AllUnread' = TotalOver(Streams, [f EXCEPT ![s] = v])
  BY <1>2 DEF AllUnread
<1> HIDE DEF f, v
<1>5. TotalOver(Streams, [f EXCEPT ![s] = v]) + f[s] = TotalOver(Streams, f) + v
  <2>1. \A g \in [Streams -> Nat], y \in Streams, k \in Nat :
          TotalOver(Streams, [g EXCEPT ![y] = k]) + g[y] = TotalOver(Streams, g) + k
    BY <1>3, TotalOverExcept
  <2> QED BY <1>1, <2>1
<1> QED BY <1>1, <1>4, <1>5 DEF v

(* What a step that concerns one stream has to keep.                        *)
LEMMA LedgerStep ==
  ASSUME IInv, IInv', BytesAccounted, NEW s \in Streams, NEW n \in Nat, NEW c \in Nat,
         Elsewhere(s),
         session'.received = session.received + n, session'.consumed = session.consumed + c,
         InCommands(Streams)' + UnreadOf(s)' + c = InCommands(Streams) + UnreadOf(s) + n,
         \A t \in Streams \ {s} : InCommands({t})' = InCommands({t}),
         s \in recv_streams' =>
           stream'[s].received = stream'[s].consumed + InCommands({s})' + UnreadOf(s)'
  PROVE  BytesAccounted'
<1>1. /\ session.received \in Nat /\ session.consumed \in Nat
      /\ AllUnread \in Nat /\ UnreadOf(s) \in Nat /\ InCommands(Streams) \in Nat
  BY UnreadNat DEF IInv, TypeOK, Bytes
<1>2. AllUnread' \in Nat /\ UnreadOf(s)' \in Nat /\ InCommands(Streams)' \in Nat
  BY UnreadNatNext
<1>3. AllUnread' + UnreadOf(s) = AllUnread + UnreadOf(s)'
  BY OneUnread
<1>4. session.received = session.consumed + (InCommands(Streams) + AllUnread)
  BY DEF BytesAccounted, Unread, AllUnread
<1>5. session'.received = session'.consumed + (InCommands(Streams)' + AllUnread')
  BY <1>1, <1>2, <1>3, <1>4
<1>6. \A t \in recv_streams' :
        stream'[t].received = stream'[t].consumed + InCommands({t})' + UnreadOf(t)'
  <2> TAKE t \in recv_streams'
  <2>1. CASE t = s
    BY <2>1
  <2>2. CASE t # s
    <3>1. t \in Streams
      BY DEF IInv, TypeOK
    <3> QED BY <2>2, <3>1 DEF Elsewhere, BytesAccounted
  <2> QED BY <2>1, <2>2
<1> QED BY <1>5, <1>6 DEF BytesAccounted, Unread, AllUnread

LEMMA FreshStep ==
  ASSUME IInv, FreshInv, NEW s \in Streams, Elsewhere(s), s \in Known',
         stop_sent' \subseteq stopped'
  PROVE  FreshInv'
<1>1. \A t \in Streams \ Known' : t # s /\ t \notin Known
  BY DEF Elsewhere, Known
<1>2. \A t \in Streams \ Known' : stream'[t] = NoBytes /\ UnreadOf(t)' = 0
  BY <1>1 DEF Elsewhere, FreshInv
<1> QED BY <1>2 DEF FreshInv

LEMMA StallStep ==
  ASSUME IInv, IInv', NoStall, NEW s \in Streams, Elsewhere(s),
         OpenWhenRead(SessionWindow, session'),
         s \in recv_streams' /\ peer'[s] = "open" => OpenWhenRead(StreamWindow, stream'[s])
  PROVE  NoStall'
<1>1. \A t \in recv_streams' : peer'[t] = "open" => OpenWhenRead(StreamWindow, stream'[t])
  <2> SUFFICES ASSUME NEW t \in recv_streams', peer'[t] = "open", t # s
               PROVE  OpenWhenRead(StreamWindow, stream'[t])
    OBVIOUS
  <2>1. t \in recv_streams /\ stream'[t] = stream[t] /\ peer[t] = "open"
    BY DEF IInv, TypeOK, Elsewhere
  <2> QED BY <2>1 DEF NoStall, OpenWhenRead
<1> QED BY <1>1 DEF NoStall, OpenWhenRead

LEMMA BytesInit == Init => BytesInv
<1> SUFFICES ASSUME Init PROVE BytesInv
  OBVIOUS
<1>0. IInv
  BY InitInv
<1>1. /\ session = NoBytes /\ recv_streams = {} /\ commands = <<>> /\ stop_sent = {}
      /\ \A s \in Streams : stream[s] = NoBytes /\ UnreadOf(s) = 0
  BY DEF Init, UnreadOf
<1>2. FreshInv
  BY <1>1 DEF FreshInv
<1>3. InCommands(Streams) = 0
  <2>1. commands \in Seq(Command({})) /\ {} \subseteq Streams
    BY <1>1, EmptySeq
  <2>2. Carried(Streams, commands) = 0
    BY <2>1, CarriedElsewhere
  <2> QED BY <1>0, <2>2, InCommandsNat
<1>4. AllUnread = 0
  <2>1. IsFiniteSet(Streams)
    BY WtH2ReceiveAssumption DEF Streams, Peer
  <2> DEFINE f == [s \in Streams |-> UnreadOf(s)]
  <2>2. f \in [Streams -> Nat] /\ \A s \in Streams : f[s] = 0
    BY <1>1
  <2> HIDE DEF f
  <2>3. TotalOver(Streams, f) = 0
    BY <2>1, <2>2, TotalOverZeros
  <2> QED BY <2>3 DEF AllUnread, f
<1>5. BytesAccounted
  BY <1>1, <1>3, <1>4 DEF BytesAccounted, Unread, AllUnread, NoBytes
<1>6. NoStall
  BY <1>1, WtH2ReceiveAssumption DEF NoStall, NoBytes, Credit
<1> QED BY <1>2, <1>5, <1>6 DEF BytesInv

LEMMA BytesOpened ==
  ASSUME IInv, IInv', BytesInv, NEW s \in Streams, StreamOpened(s) \/ LocalOpened(s)
  PROVE  BytesInv'
<1>1. /\ peer[s] = "idle" /\ peer' = [peer EXCEPT ![s] = "open"]
      /\ recv_streams' = recv_streams \cup {s}
      /\ commands' = commands \/ commands' = Append(commands, StopRead(s, 0))
      /\ UNCHANGED <<session, stream, stop_sent, incoming, buffer, stopped>>
  BY DEF StreamOpened, LocalOpened
<1>2. s \notin Known /\ s \in Known' /\ commands \in Seq(Command(Known)) /\ Known \subseteq Streams
  BY <1>1 DEF Known, IInv, TypeOK, StopInv
<1>3. Elsewhere(s)
  BY <1>1 DEF Elsewhere, UnreadOf, IInv, TypeOK
<1>4. ASSUME NEW S PROVE InCommands(S)' = InCommands(S)
  <2>1. CASE commands' = commands
    BY <2>1 DEF InCommands
  <2>2. CASE commands' = Append(commands, StopRead(s, 0))
    <3>1. StopRead(s, 0) \in Command(Streams) /\ Share(S, StopRead(s, 0)) = 0
      BY DEF StopRead, Command, Share
    <3>2. InCommands(S)' = InCommands(S) + 0
      BY <2>2, <3>1, CommandAdded
    <3> QED BY <3>2, InCommandsNat
  <2> QED BY <1>1, <2>1, <2>2
<1>5. stream'[s] = NoBytes /\ UnreadOf(s)' = 0 /\ UnreadOf(s) = 0
  BY <1>1, <1>2 DEF BytesInv, FreshInv, UnreadOf
<1>6. InCommands({s})' = 0
  <2>1. Carried({s}, commands) = 0
    BY <1>2, CarriedElsewhere
  <2> QED BY <1>4, <2>1, InCommandsNat
<1>7. BytesAccounted'
  <2>1. stream'[s].received = stream'[s].consumed + InCommands({s})' + UnreadOf(s)'
    BY <1>5, <1>6 DEF NoBytes
  <2>2. session'.received = session.received + 0 /\ session'.consumed = session.consumed + 0
    BY <1>1 DEF IInv, TypeOK, Bytes
  <2>3. InCommands(Streams)' + UnreadOf(s)' + 0 = InCommands(Streams) + UnreadOf(s) + 0
    BY <1>4, <1>5
  <2> QED BY <1>3, <1>4, <2>1, <2>2, <2>3, LedgerStep DEF BytesInv
<1>8. FreshInv'
  BY <1>1, <1>2, <1>3, FreshStep DEF BytesInv, FreshInv
<1>9. NoStall'
  <2>1. OpenWhenRead(SessionWindow, session')
    BY <1>1 DEF BytesInv, NoStall, OpenWhenRead
  <2>2. OpenWhenRead(StreamWindow, stream'[s])
    BY <1>5, WtH2ReceiveAssumption DEF OpenWhenRead, NoBytes, Credit
  <2> QED BY <1>3, <2>1, <2>2, StallStep DEF BytesInv
<1> QED BY <1>7, <1>8, <1>9 DEF BytesInv

(* Bytes that count as consumed when they arrive: their stream has no       *)
(* receive state, or loses it.                                              *)
LEMMA BytesUnheard ==
  ASSUME IInv, IInv', BytesInv, NEW s \in Streams, NEW n \in Nat, NEW fin \in BOOLEAN,
         DataDiscarded(s, n, fin) \/ DataUnheard(s, n, fin)
  PROVE  BytesInv'
<1> DEFINE more == Receive(session, n)
<1>1. /\ Sendable(s, n, fin) /\ session' = Discard(more, n)
      /\ stream' = [stream EXCEPT ![s] = Receive(@, n)]
      /\ recv_streams' \subseteq recv_streams
      /\ stop_sent' \subseteq stop_sent
      /\ UNCHANGED <<incoming, buffer, commands, stopped>>
  BY DEF DataDiscarded, DataUnheard, readerVars
<1>2. s \notin recv_streams'
  BY DEF DataDiscarded, DataUnheard, BytesInv, FreshInv, IInv, StopInv
<1>3. Elsewhere(s) /\ s \in Known'
  BY <1>1 DEF Sendable, Elsewhere, UnreadOf, IInv, TypeOK, Known
<1>4. session \in Bytes /\ session.grown <= session.consumed
  BY DEF IInv, TypeOK, WindowInv
<1>5. /\ more \in Bytes /\ more.received = session.received + n
      /\ more.consumed = session.consumed /\ more.grown = session.grown
  BY <1>4, CountProperties
<1> HIDE DEF more
<1>6. /\ session'.received = session.received + n /\ session'.consumed = session.consumed + n
      /\ OpenWhenRead(SessionWindow, session')
  BY <1>1, <1>4, <1>5, DiscardProperties, DiscardOpens
<1>7. \A S : InCommands(S)' = InCommands(S)
  BY <1>1 DEF InCommands
<1>8. UnreadOf(s)' = UnreadOf(s)
  BY <1>1 DEF UnreadOf
<1>9. BytesAccounted'
  BY <1>2, <1>3, <1>6, <1>7, <1>8, LedgerStep DEF BytesInv
<1>10. FreshInv'
  BY <1>1, <1>3, FreshStep DEF BytesInv, FreshInv
<1>11. NoStall'
  BY <1>2, <1>3, <1>6, StallStep DEF BytesInv
<1> QED BY <1>9, <1>10, <1>11 DEF BytesInv

LEMMA BytesDelivered ==
  ASSUME IInv, IInv', BytesInv, NEW s \in Streams, NEW n \in Nat, NEW fin \in BOOLEAN,
         DataDelivered(s, n, fin)
  PROVE  BytesInv'
<1>1. /\ Sendable(s, n, fin) /\ session' = Receive(session, n) /\ s \in recv_streams
      /\ stream' = [stream EXCEPT ![s] = Receive(@, n)]
      /\ incoming' = [incoming EXCEPT ![s] = @ + n]
      /\ UNCHANGED <<recv_streams, stop_sent, buffer, commands, stopped>>
  BY DEF DataDelivered
<1>2. Elsewhere(s) /\ s \in Known'
  BY <1>1 DEF Sendable, Elsewhere, UnreadOf, IInv, TypeOK, Known
<1>3. session \in Bytes /\ stream[s] \in Bytes /\ stream'[s] = Receive(stream[s], n)
  BY <1>1 DEF IInv, TypeOK
<1>4. /\ session'.received = session.received + n /\ session'.consumed = session.consumed
      /\ stream'[s].received = stream[s].received + n
      /\ stream'[s].consumed = stream[s].consumed
  <2>1. session'.received = session.received + n /\ session'.consumed = session.consumed
    BY <1>1, <1>3, CountProperties
  <2>2. stream'[s].received = stream[s].received + n /\ stream'[s].consumed = stream[s].consumed
    BY <1>3, CountProperties
  <2> QED BY <2>1, <2>2
<1>5. UnreadOf(s)' = UnreadOf(s) + n
  BY <1>1 DEF IInv, TypeOK, UnreadOf
<1>6. \A S : InCommands(S)' = InCommands(S)
  BY <1>1 DEF InCommands
<1>7. /\ session.consumed <= session.received /\ stream[s].consumed <= stream[s].received
      /\ stream[s].received = stream[s].consumed + InCommands({s}) + UnreadOf(s)
  <2>1. {session.received, session.consumed, stream[s].received, stream[s].consumed,
         InCommands({s}), UnreadOf(s), InCommands(Streams), AllUnread} \subseteq Nat
    BY <1>3, InCommandsNat, UnreadNat DEF Bytes
  <2>2. session.received = session.consumed + (InCommands(Streams) + AllUnread)
    BY DEF BytesInv, BytesAccounted, Unread, AllUnread
  <2>3. stream[s].received = stream[s].consumed + InCommands({s}) + UnreadOf(s)
    BY <1>1 DEF BytesInv, BytesAccounted
  <2> QED BY <2>1, <2>2, <2>3
<1>8. BytesAccounted'
  <2>1. {session.consumed, stream[s].received, stream[s].consumed, InCommands({s}), UnreadOf(s),
         InCommands(Streams)} \subseteq Nat
    BY <1>3, InCommandsNat, UnreadNat DEF Bytes
  <2>2. stream'[s].received = stream'[s].consumed + InCommands({s})' + UnreadOf(s)'
    BY <1>4, <1>5, <1>6, <1>7, <2>1
  <2>3. InCommands(Streams)' + UnreadOf(s)' + 0 = InCommands(Streams) + UnreadOf(s) + n
    BY <1>5, <1>6, <2>1
  <2>4. session'.consumed = session.consumed + 0
    BY <1>4, <2>1
  <2> QED BY <1>2, <1>4, <1>6, <2>2, <2>3, <2>4, LedgerStep DEF BytesInv
<1>9. FreshInv'
  BY <1>1, <1>2, FreshStep DEF BytesInv, FreshInv
<1>10. NoStall'
  <2>1. OpenWhenRead(SessionWindow, session)
    BY DEF BytesInv, NoStall, OpenWhenRead
  <2>2. OpenWhenRead(StreamWindow, stream[s])
    BY <1>1 DEF BytesInv, NoStall, OpenWhenRead, Sendable
  <2>3. SessionWindow \in Nat /\ StreamWindow \in Nat
    BY WtH2ReceiveAssumption
  <2>4. OpenWhenRead(SessionWindow, session')
    BY <1>1, <1>3, <1>7, <2>1, <2>3, ReceiveOpens
  <2>5. OpenWhenRead(StreamWindow, stream'[s])
    BY <1>3, <1>7, <2>2, <2>3, ReceiveOpens
  <2> QED BY <1>2, <2>4, <2>5, StallStep DEF BytesInv
<1> QED BY <1>8, <1>9, <1>10 DEF BytesInv

(* Steps that move bytes from one place to another, or none.                *)
LEMMA BytesMoved ==
  ASSUME IInv, IInv', BytesInv, NEW s \in Known, UNCHANGED <<session, stream>>,
         recv_streams' \subseteq recv_streams, stop_sent' \subseteq stop_sent, stopped' = stopped,
         \A t \in Streams \ {s} : UnreadOf(t)' = UnreadOf(t) /\ peer'[t] = peer[t],
         peer'[s] # "idle", peer'[s] = "open" => peer[s] = "open",
         \A t \in Streams \ {s} : InCommands({t})' = InCommands({t}),
         InCommands(Streams)' + UnreadOf(s)' = InCommands(Streams) + UnreadOf(s),
         InCommands({s})' + UnreadOf(s)' = InCommands({s}) + UnreadOf(s)
  PROVE  BytesInv'
<1>1. s \in Streams /\ s \in Known' /\ Elsewhere(s)
  BY DEF Known, Elsewhere
<1>2. {session.received, session.consumed, stream[s].consumed, InCommands({s}), UnreadOf(s),
       InCommands(Streams)} \subseteq Nat
  <2>1. session \in Bytes /\ stream[s] \in Bytes
    BY <1>1 DEF IInv, TypeOK
  <2>2. {session.received, session.consumed, stream[s].consumed} \subseteq Nat
    BY <2>1 DEF Bytes
  <2> QED BY <1>1, <2>2, InCommandsNat, UnreadNat
<1>3. UnreadOf(s)' \in Nat /\ InCommands(Streams)' \in Nat
  BY <1>1, UnreadNatNext
<1>4. InCommands({s})' \in Nat
  <2>1. commands' \in Seq(Command(Streams)) /\ InCommands({s})' = Carried({s}, commands')
    BY DEF IInv, TypeOK, InCommands, Carried
  <2> QED BY <2>1, CarriedIsNat
<1>5. BytesAccounted'
  <2>1. s \in recv_streams' =>
          stream'[s].received = stream'[s].consumed + InCommands({s})' + UnreadOf(s)'
    <3> SUFFICES ASSUME s \in recv_streams
                 PROVE  stream[s].received = stream[s].consumed + InCommands({s})' + UnreadOf(s)'
      OBVIOUS
    <3>1. stream[s].received = stream[s].consumed + InCommands({s}) + UnreadOf(s)
      BY DEF BytesInv, BytesAccounted
    <3> QED BY <1>2, <1>3, <1>4, <3>1
  <2>2. /\ session'.received = session.received + 0 /\ session'.consumed = session.consumed + 0
        /\ InCommands(Streams)' + UnreadOf(s)' + 0 = InCommands(Streams) + UnreadOf(s) + 0
    BY <1>2, <1>3
  <2> QED BY <1>1, <2>1, <2>2, LedgerStep DEF BytesInv
<1>6. FreshInv'
  BY <1>1, FreshStep DEF BytesInv, FreshInv
<1>7. NoStall'
  <2>1. OpenWhenRead(SessionWindow, session')
    BY DEF BytesInv, NoStall, OpenWhenRead
  <2>2. s \in recv_streams' /\ peer'[s] = "open" => OpenWhenRead(StreamWindow, stream'[s])
    BY DEF BytesInv, NoStall, OpenWhenRead
  <2> QED BY <1>1, <2>1, <2>2, StallStep DEF BytesInv
<1> QED BY <1>5, <1>6, <1>7 DEF BytesInv

LEMMA BytesReaders ==
  ASSUME IInv, IInv', BytesInv, NEW s \in Streams, TakeData(s) \/ Read(s) \/ DropReader(s)
  PROVE  BytesInv'
<1>1. /\ reader[s] = "open"
      /\ UNCHANGED <<peer, recv_streams, session, stream, stop_sent, stopped>>
  BY DEF TakeData, Read, DropReader
<1>2. s \in Known /\ peer[s] # "idle"
  BY <1>1 DEF IInv, StopInv, Known
<1>3. /\ incoming \in [Streams -> Nat] /\ buffer \in [Streams -> Nat]
      /\ incoming[s] \in Nat /\ buffer[s] \in Nat
  BY DEF IInv, TypeOK
<1>4. \A t \in Streams \ {s} : UnreadOf(t)' = UnreadOf(t)
  BY <1>3 DEF TakeData, Read, DropReader, UnreadOf
<1>5. \A S : InCommands(S) \in Nat
  BY InCommandsNat
<1>6. CASE TakeData(s)
  <2>1. \A S : InCommands(S)' = InCommands(S)
    BY <1>6 DEF TakeData, InCommands
  <2>2. PICK n \in 1..incoming[s] :
          buffer' = [buffer EXCEPT ![s] = n] /\ incoming' = [incoming EXCEPT ![s] = @ - n]
    BY <1>6 DEF TakeData
  <2>3. buffer'[s] = n /\ incoming'[s] = incoming[s] - n /\ buffer[s] = 0 /\ n \in Nat
    BY <1>3, <1>6, <2>2 DEF TakeData
  <2>4. UnreadOf(s)' = UnreadOf(s)
    BY <1>3, <2>3 DEF UnreadOf
  <2> QED BY <1>1, <1>2, <1>4, <2>1, <2>4, BytesMoved
<1>7. ASSUME NEW n \in Nat, commands' = Append(commands, StopRead(s, n))
                            \/ commands' = Append(commands, Consumed(s, n)),
             UnreadOf(s)' + n = UnreadOf(s), UnreadOf(s)' \in Nat
      PROVE  BytesInv'
  <2>1. PICK c \in Command(Streams) : commands' = Append(commands, c) /\ c.stream = s /\ c.size = n
    BY <1>7 DEF Command, StopRead, Consumed
  <2>2. \A S : InCommands(S)' = InCommands(S) + Share(S, c)
    BY <2>1, CommandAdded
  <2>3. Share(Streams, c) = n /\ Share({s}, c) = n /\ \A t \in Streams \ {s} : Share({t}, c) = 0
    BY <2>1 DEF Share
  <2>4. \A t \in Streams \ {s} : InCommands({t})' = InCommands({t})
    BY <1>5, <2>2, <2>3
  <2>5. InCommands(Streams)' + UnreadOf(s)' = InCommands(Streams) + UnreadOf(s)
    <3>1. InCommands(Streams)' = InCommands(Streams) + n /\ InCommands(Streams) \in Nat
      BY <1>5, <2>2, <2>3
    <3> QED BY <1>7, <3>1
  <2>6. InCommands({s})' + UnreadOf(s)' = InCommands({s}) + UnreadOf(s)
    <3>1. InCommands({s})' = InCommands({s}) + n /\ InCommands({s}) \in Nat
      BY <1>5, <2>2, <2>3
    <3> QED BY <1>7, <3>1
  <2> QED BY <1>1, <1>2, <1>4, <2>4, <2>5, <2>6, BytesMoved
<1>8. CASE Read(s)
  <2>1. PICK n \in 1..buffer[s] : /\ buffer' = [buffer EXCEPT ![s] = @ - n]
                                  /\ commands' = Append(commands, Consumed(s, n))
    BY <1>8 DEF Read
  <2>2. buffer'[s] = buffer[s] - n /\ incoming' = incoming /\ n \in Nat /\ n <= buffer[s]
    BY <1>3, <1>8, <2>1 DEF Read
  <2>3. UnreadOf(s)' + n = UnreadOf(s) /\ UnreadOf(s)' \in Nat
    BY <1>3, <2>2 DEF UnreadOf
  <2> QED BY <1>7, <2>1, <2>2, <2>3
<1>9. CASE DropReader(s)
  <2>1. commands' = Append(commands, StopRead(s, UnreadOf(s)))
    BY <1>9 DEF DropReader
  <2>2. UnreadOf(s)' = 0 /\ UnreadOf(s) \in Nat
    BY <1>3, <1>9 DEF DropReader, UnreadOf
  <2> QED BY <1>7, <2>1, <2>2
<1> QED BY <1>6, <1>8, <1>9

LEMMA BytesClosed ==
  ASSUME IInv, IInv', BytesInv, NEW s \in Streams, StreamReset(s) \/ SendEnds(s)
  PROVE  BytesInv'
<1>1. /\ peer[s] # "idle" /\ peer' \in {peer, [peer EXCEPT ![s] = "finished"]}
      /\ recv_streams' \subseteq recv_streams /\ stop_sent' \subseteq stop_sent
      /\ UNCHANGED <<session, stream, incoming, reader, buffer, commands, stopped>>
  BY DEF StreamReset, SendEnds, readerVars
<1>2. s \in Known /\ peer'[s] # "idle" /\ (peer'[s] = "open" => peer[s] = "open")
  BY <1>1 DEF Known, IInv, TypeOK
<1>3. \A t \in Streams : UnreadOf(t)' = UnreadOf(t)
  BY <1>1 DEF UnreadOf
<1>4. \A S : InCommands(S)' = InCommands(S)
  BY <1>1 DEF InCommands
<1>5. \A t \in Streams \ {s} : peer'[t] = peer[t]
  BY <1>1 DEF IInv, TypeOK
<1> QED BY <1>1, <1>2, <1>3, <1>4, <1>5, BytesMoved

(* The bytes of a command are consumed.                                     *)
LEMMA BytesTaken ==
  ASSUME IInv, commands # <<>>, commands' = Tail(commands),
         NEW s, s = Head(commands).stream, NEW n, n = Head(commands).size
  PROVE  /\ s \in Known /\ s \in Streams /\ n \in Nat
         /\ InCommands(Streams) = n + InCommands(Streams)'
         /\ InCommands({s}) = n + InCommands({s})'
         /\ InCommands(Streams)' \in Nat /\ InCommands({s})' \in Nat
         /\ \A t \in Streams \ {s} : InCommands({t})' = InCommands({t})
<1> DEFINE c == Head(commands)
<1>1. commands \in Seq(Command(Known)) /\ Known \subseteq Streams
  BY DEF IInv, StopInv, Known
<1>2. s \in Known /\ s \in Streams /\ n \in Nat
  BY <1>1, TakeCommand
<1>3. \A S : InCommands(S) = Share(S, c) + InCommands(S)' /\ InCommands(S)' \in Nat
  BY CommandTaken
<1>4. Share(Streams, c) = n /\ Share({s}, c) = n /\ \A t \in Streams \ {s} : Share({t}, c) = 0
  BY <1>2 DEF Share
<1> HIDE DEF c
<1>5. \A t \in Streams \ {s} : InCommands({t})' = InCommands({t})
  <2> TAKE t \in Streams \ {s}
  <2>1. InCommands({t}) = 0 + InCommands({t})' /\ InCommands({t})' \in Nat
    BY <1>3, <1>4
  <2> QED BY <2>1
<1>6. InCommands(Streams) = n + InCommands(Streams)' /\ InCommands(Streams)' \in Nat
  BY <1>3, <1>4
<1>7. InCommands({s}) = n + InCommands({s})' /\ InCommands({s})' \in Nat
  BY <1>3, <1>4
<1> QED BY <1>2, <1>5, <1>6, <1>7

(* The stream and the size of the command that is taken.                    *)
LEMMA CommandOf ==
  ASSUME IInv, commands # <<>>
  PROVE  \E s \in Streams, n \in Nat : s = Head(commands).stream /\ n = Head(commands).size
<1>1. commands \in Seq(Command(Streams))
  BY DEF IInv, TypeOK
<1> QED BY <1>1, TakeCommand

LEMMA BytesConsumed ==
  ASSUME IInv, IInv', BytesInv, HandleConsumed
  PROVE  BytesInv'
<1>0. commands # <<>>
  BY DEF HandleConsumed
<1>s. PICK s \in Streams, n \in Nat : s = Head(commands).stream /\ n = Head(commands).size
  BY <1>0, CommandOf
<1> DEFINE after == Consume(stream[s], n)
           more == Consume(session, n)
           new == IF peer[s] = "open" THEN Grow(StreamWindow, after) ELSE after
<1>1. /\ commands # <<>> /\ commands' = Tail(commands)
      /\ session' = Grow(SessionWindow, more)
      /\ stream' = IF s \notin recv_streams THEN stream ELSE [stream EXCEPT ![s] = new]
      /\ UNCHANGED <<peer, recv_streams, stop_sent, incoming, buffer, stopped>>
  BY <1>s DEF HandleConsumed, peerVars, readerVars
<1>2. /\ s \in Known /\ s \in Streams /\ n \in Nat
      /\ InCommands(Streams) = n + InCommands(Streams)' /\ InCommands({s}) = n + InCommands({s})'
      /\ InCommands(Streams)' \in Nat /\ InCommands({s})' \in Nat
      /\ \A t \in Streams \ {s} : InCommands({t})' = InCommands({t})
  BY <1>1, <1>s, BytesTaken
<1>3. /\ session \in Bytes /\ stream[s] \in Bytes /\ session.grown <= session.consumed
      /\ stream[s].grown <= stream[s].consumed
      /\ SessionWindow \in Nat /\ StreamWindow \in Nat
  BY <1>2, WtH2ReceiveAssumption DEF IInv, TypeOK, WindowInv
<1>4. /\ more \in Bytes /\ more.received = session.received
      /\ more.consumed = session.consumed + n /\ more.grown = session.grown
  BY <1>2, <1>3, CountProperties
<1>5. /\ after \in Bytes /\ after.received = stream[s].received
      /\ after.consumed = stream[s].consumed + n /\ after.grown = stream[s].grown
  BY <1>2, <1>3, CountProperties
<1> HIDE DEF more, after
<1>6. more.grown <= more.consumed /\ after.grown <= after.consumed
  <2>1. {session.grown, session.consumed, stream[s].grown, stream[s].consumed} \subseteq Nat
    BY <1>3 DEF Bytes
  <2>2. \A k, c, m \in Nat : k <= c => k <= c + m
    OBVIOUS
  <2> QED BY <1>2, <1>3, <1>4, <1>5, <2>1, <2>2
<1>7. session'.received = session.received /\ session'.consumed = session.consumed + n
  BY <1>1, <1>3, <1>4, <1>6, GrowProperties
<1>8. OpenWhenRead(SessionWindow, session')
  BY <1>1, <1>3, <1>4, <1>6, GrowOpens
<1>9. /\ new.received = stream[s].received /\ new.consumed = stream[s].consumed + n
      /\ peer[s] = "open" => OpenWhenRead(StreamWindow, new)
  <2>1. CASE peer[s] = "open"
    <3>1. new.received = after.received /\ new.consumed = after.consumed
      BY <1>3, <1>5, <1>6, <2>1, GrowProperties
    <3>2. OpenWhenRead(StreamWindow, new)
      BY <1>3, <1>5, <1>6, <2>1, GrowOpens
    <3> QED BY <1>5, <3>1, <3>2
  <2>2. CASE peer[s] # "open"
    BY <1>5, <2>2
  <2> QED BY <2>1, <2>2
<1> HIDE DEF new
<1>10. Elsewhere(s) /\ s \in Known' /\ (s \in recv_streams => stream'[s] = new)
  BY <1>1, <1>2 DEF Elsewhere, UnreadOf, IInv, TypeOK, Known
<1>11. UnreadOf(s)' = UnreadOf(s) /\ UnreadOf(s) \in Nat
  BY <1>1, <1>2, UnreadNat DEF UnreadOf
<1>12. BytesAccounted'
  <2>1. s \in recv_streams' =>
          stream'[s].received = stream'[s].consumed + InCommands({s})' + UnreadOf(s)'
    <3> SUFFICES ASSUME s \in recv_streams
                 PROVE  new.received = new.consumed + InCommands({s})' + UnreadOf(s)'
      BY <1>1, <1>10
    <3>1. stream[s].received = stream[s].consumed + InCommands({s}) + UnreadOf(s)
      BY DEF BytesInv, BytesAccounted
    <3>2. stream[s].consumed \in Nat
      BY <1>3 DEF Bytes
    <3> QED BY <1>2, <1>9, <1>11, <3>1, <3>2
  <2>2. session'.received = session.received + 0
    BY <1>3, <1>7 DEF Bytes
  <2>3. InCommands(Streams)' + UnreadOf(s)' + n = InCommands(Streams) + UnreadOf(s) + 0
    BY <1>2, <1>11
  <2> QED BY <1>2, <1>7, <1>10, <2>1, <2>2, <2>3, LedgerStep DEF BytesInv
<1>13. FreshInv'
  BY <1>1, <1>2, <1>10, FreshStep DEF BytesInv, FreshInv
<1>14. NoStall'
  BY <1>1, <1>2, <1>8, <1>9, <1>10, StallStep DEF BytesInv
<1> QED BY <1>12, <1>13, <1>14 DEF BytesInv

LEMMA BytesStopRead ==
  ASSUME IInv, IInv', BytesInv, HandleStopRead
  PROVE  BytesInv'
<1>0. commands # <<>>
  BY DEF HandleStopRead
<1>s. PICK s \in Streams, n \in Nat : s = Head(commands).stream /\ n = Head(commands).size
  BY <1>0, CommandOf
<1>1. /\ commands # <<>> /\ commands' = Tail(commands)
      /\ recv_streams' = recv_streams \ {s}
      /\ session' = IF n > 0 THEN Discard(session, n) ELSE session
      /\ \/ stop_sent' = stop_sent /\ stopped' = stopped
         \/ stop_sent' = stop_sent \cup {s} /\ stopped' = stopped \cup {s}
      /\ UNCHANGED <<peer, stream, incoming, buffer>>
  BY <1>s DEF HandleStopRead, readerVars
<1>2. /\ s \in Known /\ s \in Streams /\ n \in Nat
      /\ InCommands(Streams) = n + InCommands(Streams)' /\ InCommands(Streams)' \in Nat
      /\ \A t \in Streams \ {s} : InCommands({t})' = InCommands({t})
  BY <1>1, <1>s, BytesTaken
<1>3. session \in Bytes /\ session.grown <= session.consumed
  BY DEF IInv, TypeOK, WindowInv
<1>4. /\ session'.received = session.received /\ session'.consumed = session.consumed + n
      /\ OpenWhenRead(SessionWindow, session')
  <2>1. CASE n > 0
    BY <1>1, <1>2, <1>3, <2>1, DiscardProperties, DiscardOpens
  <2>2. CASE ~(n > 0)
    <3>1. session' = session /\ n = 0 /\ session.consumed \in Nat
      BY <1>1, <1>2, <1>3, <2>2 DEF Bytes
    <3> QED BY <3>1 DEF BytesInv, NoStall, OpenWhenRead
  <2> QED BY <2>1, <2>2
<1>5. Elsewhere(s) /\ s \in Known' /\ s \notin recv_streams'
  BY <1>1, <1>2 DEF Elsewhere, UnreadOf, Known
<1>6. UnreadOf(s)' = UnreadOf(s) /\ UnreadOf(s) \in Nat
  BY <1>1, <1>2, UnreadNat DEF UnreadOf
<1>7. BytesAccounted'
  <2>1. session'.received = session.received + 0
    BY <1>3, <1>4 DEF Bytes
  <2>2. InCommands(Streams)' + UnreadOf(s)' + n = InCommands(Streams) + UnreadOf(s) + 0
    BY <1>2, <1>6
  <2> QED BY <1>2, <1>4, <1>5, <2>1, <2>2, LedgerStep DEF BytesInv
<1>8. FreshInv'
  BY <1>1, <1>2, <1>5, FreshStep DEF BytesInv, FreshInv
<1>9. NoStall'
  BY <1>2, <1>4, <1>5, StallStep DEF BytesInv
<1> QED BY <1>7, <1>8, <1>9 DEF BytesInv

LEMMA BytesNext == IInv /\ IInv' /\ BytesInv /\ [Next]_vars => BytesInv'
<1> SUFFICES ASSUME IInv, IInv', BytesInv, [Next]_vars PROVE BytesInv'
  OBVIOUS
<1>1. CASE UNCHANGED vars
  <2> USE <1>1 DEF vars, readerVars
  <2>1. Known' = Known /\ \A s \in Streams : UnreadOf(s)' = UnreadOf(s)
    BY DEF Known, UnreadOf
  <2>2. \A S : InCommands(S)' = InCommands(S)
    BY DEF InCommands
  <2>3. AllUnread' = AllUnread
    BY DEF AllUnread, UnreadOf
  <2>4. FreshInv'
    BY <2>1 DEF BytesInv, FreshInv
  <2>5. \A s \in recv_streams : s \in Streams
    BY DEF IInv, TypeOK
  <2>6. BytesAccounted'
    BY <2>1, <2>2, <2>3, <2>5 DEF BytesInv, BytesAccounted, Unread, AllUnread
  <2>7. NoStall'
    BY DEF BytesInv, NoStall
  <2> QED BY <2>4, <2>6, <2>7 DEF BytesInv
<1>2. CASE HandleConsumed \/ HandleStopRead
  BY <1>2, BytesConsumed, BytesStopRead
<1>3. ASSUME NEW s \in Streams, Event(s) PROVE BytesInv'
  <2>1. CASE StreamOpened(s) \/ LocalOpened(s)
    BY <2>1, BytesOpened
  <2>2. CASE StreamReset(s) \/ SendEnds(s)
    BY <2>2, BytesClosed
  <2>3. ASSUME NEW n \in 0..SessionWindow, NEW fin \in BOOLEAN,
               DataDiscarded(s, n, fin) \/ DataDelivered(s, n, fin) \/ DataUnheard(s, n, fin)
        PROVE  BytesInv'
    <3>1. n \in Nat
      BY WtH2ReceiveAssumption
    <3> QED BY <2>3, <3>1, BytesDelivered, BytesUnheard
  <2> QED BY <1>3, <2>1, <2>2, <2>3 DEF Event
<1>4. ASSUME NEW s \in Streams, TakeData(s) \/ Read(s) \/ DropReader(s) PROVE BytesInv'
  BY <1>4, BytesReaders
<1> QED BY <1>1, <1>2, <1>3, <1>4 DEF Next

LEMMA Invariant == Spec => []IInv
<1>1. IInv /\ [Next]_vars => IInv'
  BY NextInv
<1> QED BY InitInv, <1>1, PTL DEF Spec

(* Types hold, and a stream is given back at most once, for any streams.    *)
THEOREM TypeCorrect == Spec => []TypeOK
<1>1. IInv => TypeOK
  BY DEF IInv
<1> QED BY Invariant, <1>1, PTL

(* UnreadBounded: whatever readers do, the peer has at most the window it   *)
(* was given at first unread (receive_window_increment gives back only what *)
(* was consumed).                                                          *)
THEOREM Bounded == Spec => []UnreadBounded
<1>1. IInv => UnreadBounded
  <2> SUFFICES ASSUME IInv PROVE UnreadBounded
    OBVIOUS
  <2>1. session.received <= SessionWindow + session.grown /\ session.grown <= session.consumed
    BY DEF IInv, WindowInv
  <2>2. {session.received, session.grown, session.consumed, SessionWindow} \subseteq Nat
    BY WtH2ReceiveAssumption DEF IInv, TypeOK, Bytes
  <2> QED BY <2>1, <2>2 DEF UnreadBounded
<1> QED BY Invariant, <1>1, PTL

(* WindowsConserved: through data, reads, drops, stops and resets in any    *)
(* order each byte is consumed, unread or in a command, no more than the    *)
(* first window is unread, and a peer whose bytes were all read finds half  *)
(* of each window open (receive_window_increment, RecvStream::drop).        *)
THEOREM WindowsAreConserved == Spec => []WindowsConserved
<1>1. BytesInv /\ IInv /\ IInv' /\ [Next]_vars => BytesInv'
  BY BytesNext
<1>2. Spec => []BytesInv
  BY Invariant, BytesInit, <1>1, PTL DEF Spec
<1>3. BytesInv /\ UnreadBounded => WindowsConserved
  BY DEF BytesInv, WindowsConserved
<1> QED BY <1>2, <1>3, Bounded, PTL

(* StreamsReturned: credit_peer_stream_if_closed gives a stream back once   *)
(* both of its directions closed, in whichever order and by whichever path. *)
THEOREM AllReturned == Spec => []StreamsReturned
<1>1. IInv => StreamsReturned
  BY DEF IInv, CreditInv, StreamsReturned, Streams
<1> QED BY Invariant, <1>1, PTL

(* NoWindowAfterStop: a Consumed that was queued before the stop finds no   *)
(* receive state, and no path brings the state of a stopped stream back.    *)
THEOREM AfterStop == Spec => NoWindowAfterStop
<1> DEFINE Kept == \A s \in stopped' : stream'[s].grown = stream[s].grown
<1>1. ASSUME IInv, IInv', [Next]_vars PROVE Kept
  <2> SUFFICES ASSUME NEW s \in Streams, s \in stopped' PROVE stream'[s].grown = stream[s].grown
    BY <1>1 DEF IInv, TypeOK
  <2>1. CASE UNCHANGED stream
    BY <2>1
  <2>2. CASE HandleConsumed
    <3>1. s \in stopped
      BY <2>2 DEF HandleConsumed
    <3>2. s \notin recv_streams
      BY <1>1, <3>1 DEF IInv, StopInv
    <3>3. stream'[s] = stream[s]
      BY <1>1, <2>2, <3>2, HandleConsumedStep
    <3> QED BY <3>3
  <2>3. ASSUME NEW t \in Streams, NEW n \in 0..SessionWindow, NEW fin \in BOOLEAN,
               DataDiscarded(t, n, fin) \/ DataDelivered(t, n, fin) \/ DataUnheard(t, n, fin)
        PROVE  stream'[s].grown = stream[s].grown
    <3>1. Sendable(t, n, fin) /\ stream' = [stream EXCEPT ![t] = Receive(@, n)] /\ n \in Nat
      BY <2>3, WtH2ReceiveAssumption DEF DataDiscarded, DataDelivered, DataUnheard
    <3> QED BY <1>1, <3>1, SendableFacts
  <2>4. CASE HandleStopRead
    BY <2>1, <2>4 DEF HandleStopRead
  <2>5. ASSUME NEW t \in Streams,
               \/ StreamOpened(t) \/ LocalOpened(t) \/ StreamReset(t) \/ SendEnds(t)
               \/ TakeData(t) \/ Read(t) \/ DropReader(t)
        PROVE  UNCHANGED stream
    BY <2>5 DEF StreamOpened, LocalOpened, StreamReset, SendEnds, TakeData, Read, DropReader
  <2>6. CASE UNCHANGED vars
    BY <2>1, <2>6 DEF vars
  <2> QED BY <1>1, <2>1, <2>2, <2>3, <2>4, <2>5, <2>6 DEF Next, Event
<1>2. IInv /\ IInv' /\ [Next]_vars => [Kept]_vars
  BY <1>1
<1> HIDE DEF Kept
<1>3. Spec => [][Kept]_vars
  BY Invariant, <1>2, PTL DEF Spec
<1> QED BY <1>3 DEF Kept, NoWindowAfterStop

-----------------------------------------------------------------------------
(***************************************************************************)
(* What is sent.  The calls on one stream form a line: those that were      *)
(* answered, those that are answered after the flush, those that are        *)
(* pending, and those in the queue, each ahead of the next.  The first      *)
(* lemmas say what each kind of step makes of one such line, whatever the   *)
(* rest of the state is; the invariant says it of every stream.             *)
(***************************************************************************)

Jobs == [size : Nat, call : Nat]
CallRecords == [op : Calling, size : Nat, answer : Answers]
OpenCommands == [type : {"Open"}, of : SendStreams]
CallCommands == [type : Calling, of : SendStreams, call : Nat, size : Nat]
DropCommands == [type : {"Drop"}, of : SendStreams, finished : BOOLEAN]
SendCommands == OpenCommands \cup CallCommands \cup DropCommands

(* The way of the calls of one stream, given the queue, what is pending on  *)
(* the stream, what is answered after the flush, and its calls: a call that *)
(* is not answered is in one of the three places, and calls come in the     *)
(* order they were made, those answered "ok" first.                         *)
Mine(m, s) == m.type \in Calling /\ m.of = s
InFlush(s, f, k) == <<s, k, "ok">> \in f \/ <<s, k, "failed">> \in f

QueueIn(s, q, c) ==
  \A i \in 1..Len(q) : Mine(q[i], s) =>
    /\ q[i].call \in 1..Len(c) /\ c[q[i].call].answer = "none" /\ q[i].size = c[q[i].call].size
    /\ q[i].type = "Reset" => q[i].size = 0
    /\ \A j \in 1..Len(q) : i < j /\ Mine(q[j], s) => q[i].call < q[j].call

PendingIn(p, c) ==
  \A i \in 1..Len(p) :
    /\ p[i].call \in 1..Len(c) /\ c[p[i].call].answer = "none" /\ p[i].size <= c[p[i].call].size
    /\ i # 1 => p[i].size = c[p[i].call].size
    /\ \A j \in 1..Len(p) : i < j => p[i].call < p[j].call

FlushIn(s, f, c) ==
  \A k \in Nat : InFlush(s, f, k) =>
    /\ k \in 1..Len(c) /\ c[k].answer = "none"
    /\ ~(<<s, k, "ok">> \in f /\ <<s, k, "failed">> \in f)

(* k is ahead of what is queued, and of what is pending.                    *)
AheadOfQueue(s, q, k) == \A j \in 1..Len(q) : Mine(q[j], s) => k < q[j].call
AheadOfPending(p, k) == \A j \in 1..Len(p) : k < p[j].call

InOrder(s, q, p, f, c) ==
  /\ \A i \in 1..Len(p) : AheadOfQueue(s, q, p[i].call)
  /\ \A k \in Nat : InFlush(s, f, k) => AheadOfQueue(s, q, k) /\ AheadOfPending(p, k)
  /\ \A k \in 1..Len(c) : c[k].answer = "ok" =>
       /\ AheadOfQueue(s, q, k) /\ AheadOfPending(p, k)
       /\ \A n \in Nat : InFlush(s, f, n) => k < n

Found(s, q, p, f, c) ==
  \A k \in 1..Len(c) : c[k].answer = "none" =>
    \/ \E i \in 1..Len(q) : Mine(q[i], s) /\ q[i].call = k
    \/ \E i \in 1..Len(p) : p[i].call = k
    \/ InFlush(s, f, k)

Line(s, q, p, f, c) ==
  /\ q \in Seq(SendCommands) /\ p \in Seq(Jobs) /\ c \in Seq(CallRecords)
  /\ QueueIn(s, q, c) /\ PendingIn(p, c) /\ FlushIn(s, f, c)
  /\ InOrder(s, q, p, f, c) /\ Found(s, q, p, f, c)

LEMMA LineTypes ==
  ASSUME NEW s, NEW q, NEW p, NEW f, NEW c, Line(s, q, p, f, c)
  PROVE  /\ Len(q) \in Nat /\ Len(p) \in Nat /\ Len(c) \in Nat
         /\ \A i \in 1..Len(q) : q[i] \in SendCommands
         /\ \A i \in 1..Len(q) : Mine(q[i], s) => q[i] \in CallCommands
         /\ \A i \in 1..Len(p) : p[i] \in Jobs /\ p[i].size \in Nat /\ p[i].call \in Nat
         /\ \A i \in 1..Len(c) : c[i] \in CallRecords /\ c[i].size \in Nat /\ c[i].answer \in Answers
<1>1. q \in Seq(SendCommands) /\ p \in Seq(Jobs) /\ c \in Seq(CallRecords)
  BY DEF Line
<1>2. \A i \in 1..Len(q) : q[i] \in SendCommands
  BY <1>1, ElementOfSeq
<1>3. \A i \in 1..Len(p) : p[i] \in Jobs
  BY <1>1, ElementOfSeq
<1>4. \A i \in 1..Len(c) : c[i] \in CallRecords
  BY <1>1, ElementOfSeq
<1>5. \A m \in SendCommands : m.type \in Calling => m \in CallCommands
  BY DEF SendCommands, OpenCommands, DropCommands, Calling
<1>6. Len(q) \in Nat /\ Len(p) \in Nat /\ Len(c) \in Nat
  BY <1>1, LenProperties
<1> QED BY <1>2, <1>3, <1>4, <1>5, <1>6 DEF Jobs, CallRecords, Mine

(* A command that is not a call on s comes or goes.                         *)
LEMMA OtherQueued ==
  ASSUME NEW s, NEW q, NEW p, NEW f, NEW c, Line(s, q, p, f, c), NEW m \in SendCommands, ~Mine(m, s)
  PROVE  Line(s, Append(q, m), p, f, c)
<1> DEFINE w == Append(q, m)
           n == Len(q)
<1>1. n \in Nat /\ q \in Seq(SendCommands) /\ p \in Seq(Jobs) /\ c \in Seq(CallRecords)
  BY LenProperties DEF Line
<1>2. w \in Seq(SendCommands) /\ Len(w) = n + 1 /\ w[n + 1] = m /\ \A i \in 1..n : w[i] = q[i]
  BY <1>1, AppendProperties
<1> HIDE DEF w
<1>3. \A i \in 1..Len(w) : Mine(w[i], s) => i \in 1..n /\ w[i] = q[i]
  BY <1>1, <1>2
<1>4. \A i \in 1..n : i \in 1..Len(w) /\ w[i] = q[i]
  BY <1>1, <1>2
<1>5. QueueIn(s, w, c)
  BY <1>3 DEF Line, QueueIn
<1>6. \A k : AheadOfQueue(s, q, k) => AheadOfQueue(s, w, k)
  BY <1>3 DEF AheadOfQueue
<1>7. InOrder(s, w, p, f, c)
  BY <1>6 DEF Line, InOrder
<1>8. Found(s, w, p, f, c)
  <2> SUFFICES ASSUME NEW k \in 1..Len(c), c[k].answer = "none",
                      NEW i \in 1..Len(q), Mine(q[i], s), q[i].call = k
               PROVE  \E j \in 1..Len(w) : Mine(w[j], s) /\ w[j].call = k
    BY DEF Line, Found
  <2> QED BY <1>4
<1> QED BY <1>1, <1>2, <1>5, <1>7, <1>8 DEF Line, w

(* What is left of the queue, of what is pending and of what is answered    *)
(* after the flush, when d commands and e writes are gone, and some of the  *)
(* calls are answered.                                                      *)
QueueLeft(s, q, q2, c2, d) ==
  \A i \in 1..Len(q2) : Mine(q2[i], s) =>
    i + d \in 1..Len(q) /\ q2[i] = q[i + d] /\ c2[q2[i].call].answer = "none"

PendingLeft(p, p2, c2, e) ==
  \A i \in 1..Len(p2) :
    /\ i + e \in 1..Len(p) /\ p2[i].call = p[i + e].call /\ p2[i].size <= p[i + e].size
    /\ i # 1 => p2[i].size = p[i + e].size
    /\ c2[p2[i].call].answer = "none"

FlushLeft(s, f, f2, c2) ==
  /\ \A k \in Nat : InFlush(s, f2, k) => InFlush(s, f, k) /\ c2[k].answer = "none"
  /\ \A k \in Nat : ~(<<s, k, "ok">> \in f2 /\ <<s, k, "failed">> \in f2)

CallsAnswered(s, f, f2, c, c2) ==
  /\ Len(c2) = Len(c)
  /\ \A k \in 1..Len(c) :
       /\ c2[k].size = c[k].size
       /\ c2[k].answer = "ok" =>
            c[k].answer = "ok" \/ (InFlush(s, f, k) /\ \A n \in Nat : ~InFlush(s, f2, n))

LEMMA LineShrinks ==
  ASSUME NEW s, NEW q, NEW p, NEW f, NEW c, Line(s, q, p, f, c),
         NEW q2 \in Seq(SendCommands), NEW p2 \in Seq(Jobs), NEW f2, NEW c2 \in Seq(CallRecords),
         NEW d \in Nat, QueueLeft(s, q, q2, c2, d),
         NEW e \in Nat, PendingLeft(p, p2, c2, e),
         FlushLeft(s, f, f2, c2), CallsAnswered(s, f, f2, c, c2), Found(s, q2, p2, f2, c2)
  PROVE  Line(s, q2, p2, f2, c2)
<1> USE DEF QueueLeft, PendingLeft, FlushLeft, CallsAnswered
<1>1. /\ Len(q) \in Nat /\ Len(p) \in Nat /\ Len(c) \in Nat
      /\ \A i \in 1..Len(q) : Mine(q[i], s) => q[i] \in CallCommands
      /\ \A i \in 1..Len(p) : p[i].size \in Nat /\ p[i].call \in Nat
      /\ \A i \in 1..Len(c) : c[i].size \in Nat
  BY LineTypes
<1>2. Len(q2) \in Nat /\ Len(p2) \in Nat /\ \A i \in 1..Len(p2) : p2[i] \in Jobs
  BY LenProperties, ElementOfSeq
<1>3. QueueIn(s, q, c) /\ PendingIn(p, c) /\ FlushIn(s, f, c) /\ InOrder(s, q, p, f, c)
  BY DEF Line
<1>4. QueueIn(s, q2, c2)
  <2> SUFFICES ASSUME NEW i \in 1..Len(q2), Mine(q2[i], s)
               PROVE  /\ q2[i].call \in 1..Len(c2) /\ c2[q2[i].call].answer = "none"
                      /\ q2[i].size = c2[q2[i].call].size
                      /\ q2[i].type = "Reset" => q2[i].size = 0
                      /\ \A j \in 1..Len(q2) : i < j /\ Mine(q2[j], s) => q2[i].call < q2[j].call
    BY DEF QueueIn
  <2>1. i + d \in 1..Len(q) /\ q2[i] = q[i + d] /\ c2[q2[i].call].answer = "none"
    OBVIOUS
  <2>2. /\ q[i + d].call \in 1..Len(c) /\ q[i + d].size = c[q[i + d].call].size
        /\ q[i + d].type = "Reset" => q[i + d].size = 0
        /\ \A j \in 1..Len(q) : i + d < j /\ Mine(q[j], s) => q[i + d].call < q[j].call
    BY <1>3, <2>1 DEF QueueIn
  <2>3. \A j \in 1..Len(q2) : i < j /\ Mine(q2[j], s) => q2[i].call < q2[j].call
    <3> SUFFICES ASSUME NEW j \in 1..Len(q2), i < j, Mine(q2[j], s) PROVE q2[i].call < q2[j].call
      OBVIOUS
    <3>1. j + d \in 1..Len(q) /\ q2[j] = q[j + d] /\ i + d < j + d
      BY <1>2
    <3> QED BY <2>1, <2>2, <3>1
  <2> QED BY <2>1, <2>2, <2>3
<1>5. PendingIn(p2, c2)
  <2> SUFFICES ASSUME NEW i \in 1..Len(p2)
               PROVE  /\ p2[i].call \in 1..Len(c2) /\ c2[p2[i].call].answer = "none"
                      /\ p2[i].size <= c2[p2[i].call].size
                      /\ i # 1 => p2[i].size = c2[p2[i].call].size
                      /\ \A j \in 1..Len(p2) : i < j => p2[i].call < p2[j].call
    BY DEF PendingIn
  <2>1. /\ i + e \in 1..Len(p) /\ p2[i].call = p[i + e].call /\ p2[i].size <= p[i + e].size
        /\ i # 1 => p2[i].size = p[i + e].size
        /\ c2[p2[i].call].answer = "none" /\ (i # 1 => i + e # 1)
    BY <1>2
  <2>2. /\ p[i + e].call \in 1..Len(c) /\ p[i + e].size <= c[p[i + e].call].size
        /\ i + e # 1 => p[i + e].size = c[p[i + e].call].size
        /\ \A j \in 1..Len(p) : i + e < j => p[i + e].call < p[j].call
    BY <1>3, <2>1 DEF PendingIn
  <2>3. \A j \in 1..Len(p2) : i < j => p2[i].call < p2[j].call
    <3> SUFFICES ASSUME NEW j \in 1..Len(p2), i < j PROVE p2[i].call < p2[j].call
      OBVIOUS
    <3>1. j + e \in 1..Len(p) /\ p2[j].call = p[j + e].call /\ i + e < j + e
      BY <1>2
    <3> QED BY <2>1, <2>2, <3>1
  <2>4. p2[i].size \in Nat /\ p[i + e].size \in Nat /\ c[p[i + e].call].size \in Nat
    BY <1>1, <1>2, <2>1, <2>2 DEF Jobs
  <2>5. p2[i].size <= c[p[i + e].call].size
    <3> DEFINE x == p2[i].size
               y == p[i + e].size
               z == c[p[i + e].call].size
    <3>1. x \in Nat /\ y \in Nat /\ z \in Nat
      BY <2>4
    <3>2. x <= y /\ y <= z
      BY <2>1, <2>2
    <3> HIDE DEF x, y, z
    <3>3. x <= z
      BY <3>1, <3>2
    <3> QED BY <3>3 DEF x, z
  <2> QED BY <2>1, <2>2, <2>3, <2>5
<1>6. FlushIn(s, f2, c2)
  BY <1>3 DEF FlushIn
<1>7. \A k : AheadOfQueue(s, q, k) => AheadOfQueue(s, q2, k)
  BY DEF AheadOfQueue
<1>8. \A k : AheadOfPending(p, k) => AheadOfPending(p2, k)
  BY DEF AheadOfPending
<1>9. InOrder(s, q2, p2, f2, c2)
  <2>1. \A i \in 1..Len(p2) : AheadOfQueue(s, q2, p2[i].call)
    BY <1>3, <1>7 DEF InOrder
  <2>2. \A k \in Nat : InFlush(s, f2, k) => AheadOfQueue(s, q2, k) /\ AheadOfPending(p2, k)
    BY <1>3, <1>7, <1>8 DEF InOrder
  <2>3. ASSUME NEW k \in 1..Len(c2), c2[k].answer = "ok"
        PROVE  /\ AheadOfQueue(s, q2, k) /\ AheadOfPending(p2, k)
               /\ \A n \in Nat : InFlush(s, f2, n) => k < n
    <3>1. CASE c[k].answer = "ok"
      BY <1>3, <1>7, <1>8, <2>3, <3>1 DEF InOrder
    <3>2. CASE InFlush(s, f, k) /\ \A n \in Nat : ~InFlush(s, f2, n)
      BY <1>1, <1>3, <1>7, <1>8, <2>3, <3>2 DEF InOrder
    <3> QED BY <2>3, <3>1, <3>2
  <2> QED BY <2>1, <2>2, <2>3 DEF InOrder
<1> QED BY <1>4, <1>5, <1>6, <1>9 DEF Line

LEMMA AllLeft ==
  ASSUME NEW s, NEW q, NEW p, NEW f, NEW c, Line(s, q, p, f, c)
  PROVE  /\ QueueLeft(s, q, q, c, 0) /\ PendingLeft(p, p, c, 0)
         /\ FlushLeft(s, f, f, c) /\ CallsAnswered(s, f, f, c, c)
<1>1. /\ Len(q) \in Nat /\ Len(p) \in Nat /\ \A i \in 1..Len(p) : p[i].size \in Nat
  BY LineTypes
<1>2. QueueIn(s, q, c) /\ PendingIn(p, c) /\ FlushIn(s, f, c)
  BY DEF Line
<1>3. QueueLeft(s, q, q, c, 0)
  <2>1. \A i \in 1..Len(q) : i + 0 = i
    BY <1>1
  <2> QED BY <1>2, <2>1 DEF QueueIn, QueueLeft
<1>4. PendingLeft(p, p, c, 0)
  <2>1. \A i \in 1..Len(p) : i + 0 = i /\ p[i].size <= p[i].size
    BY <1>1
  <2> QED BY <1>2, <2>1 DEF PendingIn, PendingLeft
<1>5. FlushLeft(s, f, f, c) /\ CallsAnswered(s, f, f, c, c)
  BY <1>2 DEF FlushIn, InFlush, FlushLeft, CallsAnswered
<1> QED BY <1>3, <1>4, <1>5

LEMMA OtherTaken ==
  ASSUME NEW s, NEW q, NEW p, NEW f, NEW c, Line(s, q, p, f, c), q # <<>>, ~Mine(Head(q), s)
  PROVE  Line(s, Tail(q), p, f, c)
<1> DEFINE w == Tail(q)
<1>1. /\ q \in Seq(SendCommands) /\ p \in Seq(Jobs) /\ c \in Seq(CallRecords)
      /\ QueueIn(s, q, c) /\ PendingIn(p, c) /\ FlushIn(s, f, c) /\ Found(s, q, p, f, c)
  BY DEF Line
<1>2. /\ w \in Seq(SendCommands) /\ Len(w) = Len(q) - 1 /\ Len(q) \in Nat /\ Head(q) = q[1]
      /\ \A i \in 1..Len(w) : w[i] = q[i + 1] /\ i + 1 \in 1..Len(q)
  BY <1>1, TailElements
<1> HIDE DEF w
<1>3. \A i \in 1..Len(q) : Mine(q[i], s) => i - 1 \in 1..Len(w) /\ w[i - 1] = q[i]
  <2> SUFFICES ASSUME NEW i \in 1..Len(q), Mine(q[i], s) PROVE i - 1 \in 1..Len(w) /\ w[i - 1] = q[i]
    OBVIOUS
  <2>1. i # 1
    BY <1>2
  <2>2. i - 1 \in 1..Len(w) /\ (i - 1) + 1 = i
    BY <1>2, <2>1
  <2> QED BY <1>2, <2>2
<1>4. QueueLeft(s, q, w, c, 1)
  BY <1>1, <1>2 DEF QueueIn, QueueLeft
<1>5. PendingLeft(p, p, c, 0)
  BY AllLeft
<1>6. FlushLeft(s, f, f, c) /\ CallsAnswered(s, f, f, c, c)
  BY AllLeft
<1>9. Found(s, w, p, f, c)
  <2> SUFFICES ASSUME NEW k \in 1..Len(c), c[k].answer = "none",
                      NEW i \in 1..Len(q), Mine(q[i], s), q[i].call = k
               PROVE  \E j \in 1..Len(w) : Mine(w[j], s) /\ w[j].call = k
    BY <1>1 DEF Found
  <2> QED BY <1>3
<1>10. Line(s, w, p, f, c)
  BY <1>1, <1>2, <1>4, <1>5, <1>6, <1>9, LineShrinks
<1> QED BY <1>10 DEF w

(* A call is made: it is the last of all.                                   *)
LEMMA NewCall ==
  ASSUME NEW s, NEW q, NEW p, NEW f, NEW c, Line(s, q, p, f, c),
         NEW r \in CallRecords, r.answer = "none",
         NEW m \in SendCommands, Mine(m, s), m.call = Len(c) + 1, m.size = r.size,
         m.type = "Reset" => m.size = 0
  PROVE  Line(s, Append(q, m), p, f, Append(c, r))
<1> DEFINE w == Append(q, m)
           n == Len(q)
           d == Append(c, r)
           l == Len(c)
<1>1. /\ n \in Nat /\ Len(p) \in Nat /\ l \in Nat
      /\ \A i \in 1..n : Mine(q[i], s) => q[i] \in CallCommands
      /\ \A i \in 1..Len(p) : p[i].size \in Nat /\ p[i].call \in Nat
  BY LineTypes
<1>2. /\ q \in Seq(SendCommands) /\ p \in Seq(Jobs) /\ c \in Seq(CallRecords)
      /\ QueueIn(s, q, c) /\ PendingIn(p, c) /\ FlushIn(s, f, c) /\ InOrder(s, q, p, f, c)
      /\ Found(s, q, p, f, c)
  BY DEF Line
<1>3. w \in Seq(SendCommands) /\ Len(w) = n + 1 /\ w[n + 1] = m /\ \A i \in 1..n : w[i] = q[i]
  BY <1>1, <1>2, AppendProperties
<1>4. d \in Seq(CallRecords) /\ Len(d) = l + 1 /\ d[l + 1] = r /\ \A i \in 1..l : d[i] = c[i]
  BY <1>1, <1>2, AppendProperties
<1> HIDE DEF w, d
<1>5. \A i \in 1..Len(w) : (i \in 1..n /\ w[i] = q[i]) \/ (i = n + 1 /\ w[i] = m)
  BY <1>1, <1>3
<1>6. \A k \in 1..l : k \in 1..Len(d) /\ d[k] = c[k] /\ k < l + 1
  BY <1>1, <1>4
<1>7. \A k \in Nat : AheadOfQueue(s, q, k) /\ k < l + 1 => AheadOfQueue(s, w, k)
  <2> SUFFICES ASSUME NEW k \in Nat, AheadOfQueue(s, q, k), k < l + 1,
                      NEW j \in 1..Len(w), Mine(w[j], s)
               PROVE  k < w[j].call
    BY DEF AheadOfQueue
  <2> QED BY <1>5 DEF AheadOfQueue
<1>8. QueueIn(s, w, d)
  <2> SUFFICES ASSUME NEW i \in 1..Len(w), Mine(w[i], s)
               PROVE  /\ w[i].call \in 1..Len(d) /\ d[w[i].call].answer = "none"
                      /\ w[i].size = d[w[i].call].size
                      /\ w[i].type = "Reset" => w[i].size = 0
                      /\ \A j \in 1..Len(w) : i < j /\ Mine(w[j], s) => w[i].call < w[j].call
    BY DEF QueueIn
  <2>1. CASE i \in 1..n /\ w[i] = q[i]
    <3>1. /\ q[i].call \in 1..l /\ c[q[i].call].answer = "none" /\ q[i].size = c[q[i].call].size
          /\ q[i].type = "Reset" => q[i].size = 0
          /\ \A j \in 1..n : i < j /\ Mine(q[j], s) => q[i].call < q[j].call
      BY <1>2, <2>1 DEF QueueIn
    <3>2. \A j \in 1..Len(w) : i < j /\ Mine(w[j], s) => w[i].call < w[j].call
      <4> SUFFICES ASSUME NEW j \in 1..Len(w), i < j, Mine(w[j], s) PROVE q[i].call < w[j].call
        BY <2>1
      <4> QED BY <1>5, <1>6, <3>1
    <3> QED BY <1>6, <2>1, <3>1, <3>2
  <2>2. CASE i = n + 1 /\ w[i] = m
    <3>1. \A j \in 1..Len(w) : ~(i < j)
      BY <1>1, <1>3, <2>2
    <3>2. l + 1 \in 1..Len(d)
      BY <1>1, <1>4
    <3> QED BY <1>4, <2>2, <3>1, <3>2
  <2> QED BY <1>5, <2>1, <2>2
<1>9. PendingIn(p, d)
  <2>1. \A i \in 1..Len(p) : p[i].call \in 1..l
    BY <1>2 DEF PendingIn
  <2> QED BY <1>2, <1>6, <2>1 DEF PendingIn
<1>10. FlushIn(s, f, d)
  <2>1. \A k \in Nat : InFlush(s, f, k) => k \in 1..l
    BY <1>2 DEF FlushIn
  <2> QED BY <1>2, <1>6, <2>1 DEF FlushIn
<1>11. InOrder(s, w, p, f, d)
  <2>1. \A i \in 1..Len(p) : AheadOfQueue(s, w, p[i].call)
    <3> SUFFICES ASSUME NEW i \in 1..Len(p) PROVE AheadOfQueue(s, w, p[i].call)
      OBVIOUS
    <3>1. AheadOfQueue(s, q, p[i].call) /\ p[i].call \in 1..l
      BY <1>2 DEF InOrder, PendingIn
    <3> QED BY <1>1, <1>6, <1>7, <3>1
  <2>2. \A k \in Nat : InFlush(s, f, k) => AheadOfQueue(s, w, k) /\ AheadOfPending(p, k)
    <3> SUFFICES ASSUME NEW k \in Nat, InFlush(s, f, k)
                 PROVE  AheadOfQueue(s, w, k) /\ AheadOfPending(p, k)
      OBVIOUS
    <3>1. AheadOfQueue(s, q, k) /\ AheadOfPending(p, k) /\ k \in 1..l
      BY <1>2 DEF InOrder, FlushIn
    <3> QED BY <1>1, <1>6, <1>7, <3>1
  <2>3. ASSUME NEW k \in 1..Len(d), d[k].answer = "ok"
        PROVE  /\ AheadOfQueue(s, w, k) /\ AheadOfPending(p, k)
               /\ \A i \in Nat : InFlush(s, f, i) => k < i
    <3>1. k # l + 1
      BY <1>4, <2>3
    <3>2. k \in 1..l
      BY <1>1, <1>4, <3>1
    <3>3. /\ AheadOfQueue(s, q, k) /\ AheadOfPending(p, k)
          /\ \A i \in Nat : InFlush(s, f, i) => k < i
      BY <1>2, <1>6, <2>3, <3>2 DEF InOrder
    <3> QED BY <1>1, <1>6, <1>7, <3>2, <3>3
  <2> QED BY <2>1, <2>2, <2>3 DEF InOrder
<1>12. Found(s, w, p, f, d)
  <2> SUFFICES ASSUME NEW k \in 1..Len(d), d[k].answer = "none"
               PROVE  \/ \E i \in 1..Len(w) : Mine(w[i], s) /\ w[i].call = k
                      \/ \E i \in 1..Len(p) : p[i].call = k
                      \/ InFlush(s, f, k)
    BY DEF Found
  <2>1. CASE k = l + 1
    <3>1. n + 1 \in 1..Len(w)
      BY <1>1, <1>3
    <3> QED BY <1>3, <2>1, <3>1
  <2>2. CASE k # l + 1
    <3>1. k \in 1..l /\ c[k].answer = "none"
      BY <1>1, <1>4, <1>6, <2>2
    <3>2. \A i \in 1..n : i \in 1..Len(w) /\ w[i] = q[i]
      BY <1>1, <1>3
    <3> QED BY <1>2, <3>1, <3>2 DEF Found
  <2> QED BY <2>1, <2>2
<1>13. Line(s, w, p, f, d)
  BY <1>2, <1>3, <1>4, <1>8, <1>9, <1>10, <1>11, <1>12 DEF Line
<1> QED BY <1>13 DEF w, d

(* The first call of the queue is taken.                                    *)
LEMMA QueueHeadTaken ==
  ASSUME NEW s, NEW q, NEW p, NEW f, NEW c, Line(s, q, p, f, c), q # <<>>, Mine(Head(q), s)
  PROVE  /\ Head(q) \in CallCommands /\ Tail(q) \in Seq(SendCommands)
         /\ Head(q).call \in 1..Len(c) /\ c[Head(q).call].answer = "none"
         /\ Head(q).size = c[Head(q).call].size /\ (Head(q).type = "Reset" => Head(q).size = 0)
         /\ QueueIn(s, Tail(q), c) /\ AheadOfQueue(s, Tail(q), Head(q).call)
         /\ QueueLeft(s, q, Tail(q), c, 1)
         /\ \A k \in Nat : AheadOfQueue(s, q, k) => k < Head(q).call /\ AheadOfQueue(s, Tail(q), k)
         /\ \A i \in 1..Len(q) : Mine(q[i], s) =>
              \/ q[i].call = Head(q).call
              \/ \E j \in 1..Len(Tail(q)) : Mine(Tail(q)[j], s) /\ Tail(q)[j].call = q[i].call
<1> DEFINE w == Tail(q)
           m == Head(q)
<1>1. /\ Len(q) \in Nat /\ \A i \in 1..Len(q) : Mine(q[i], s) => q[i] \in CallCommands
  BY LineTypes
<1>2. q \in Seq(SendCommands) /\ QueueIn(s, q, c)
  BY DEF Line
<1>3. /\ w \in Seq(SendCommands) /\ Len(w) = Len(q) - 1 /\ m = q[1]
      /\ \A i \in 1..Len(w) : w[i] = q[i + 1] /\ i + 1 \in 1..Len(q)
  BY <1>2, TailElements
<1>4. 1 \in 1..Len(q) /\ Mine(m, s)
  <2>1. Len(q) # 0
    BY <1>2, EmptySeq
  <2> QED BY <1>1, <2>1
<1> HIDE DEF w, m
<1>5. /\ m \in CallCommands /\ m.call \in 1..Len(c) /\ c[m.call].answer = "none"
      /\ m.size = c[m.call].size /\ (m.type = "Reset" => m.size = 0)
  BY <1>1, <1>2, <1>3, <1>4 DEF QueueIn
<1>6. QueueIn(s, w, c)
  <2> SUFFICES ASSUME NEW i \in 1..Len(w), Mine(w[i], s)
               PROVE  /\ w[i].call \in 1..Len(c) /\ c[w[i].call].answer = "none"
                      /\ w[i].size = c[w[i].call].size
                      /\ w[i].type = "Reset" => w[i].size = 0
                      /\ \A j \in 1..Len(w) : i < j /\ Mine(w[j], s) => w[i].call < w[j].call
    BY DEF QueueIn
  <2>1. i + 1 \in 1..Len(q) /\ w[i] = q[i + 1]
    BY <1>3
  <2>2. \A j \in 1..Len(w) : i < j /\ Mine(w[j], s) => w[i].call < w[j].call
    <3> SUFFICES ASSUME NEW j \in 1..Len(w), i < j, Mine(w[j], s) PROVE w[i].call < w[j].call
      OBVIOUS
    <3>1. j + 1 \in 1..Len(q) /\ w[j] = q[j + 1] /\ i + 1 < j + 1
      BY <1>3
    <3> QED BY <1>2, <2>1, <3>1 DEF QueueIn
  <2> QED BY <1>2, <2>1, <2>2 DEF QueueIn
<1>7. AheadOfQueue(s, w, m.call)
  <2> SUFFICES ASSUME NEW j \in 1..Len(w), Mine(w[j], s) PROVE m.call < w[j].call
    BY DEF AheadOfQueue
  <2>1. j + 1 \in 1..Len(q) /\ w[j] = q[j + 1] /\ 1 < j + 1
    BY <1>3
  <2> QED BY <1>2, <1>3, <1>4, <2>1 DEF QueueIn
<1>8. \A k \in Nat : AheadOfQueue(s, q, k) => k < m.call /\ AheadOfQueue(s, w, k)
  BY <1>3, <1>4 DEF AheadOfQueue
<1>9. ASSUME NEW i \in 1..Len(q), Mine(q[i], s)
      PROVE  q[i].call = m.call \/ \E j \in 1..Len(w) : Mine(w[j], s) /\ w[j].call = q[i].call
  <2>1. CASE i = 1
    BY <1>3, <2>1
  <2>2. CASE i # 1
    <3>1. i - 1 \in 1..Len(w) /\ (i - 1) + 1 = i
      BY <1>1, <1>3, <2>2
    <3>2. w[i - 1] = q[i]
      BY <1>3, <3>1
    <3> QED BY <1>9, <3>1, <3>2
  <2> QED BY <2>1, <2>2
<1>10. QueueLeft(s, q, w, c, 1)
  BY <1>3, <1>6 DEF QueueIn, QueueLeft
<1> QED BY <1>3, <1>5, <1>6, <1>7, <1>8, <1>9, <1>10 DEF w, m

(* The first call of the queue joins what is pending.                       *)
LEMMA HeadAccepted ==
  ASSUME NEW s, NEW q, NEW p, NEW f, NEW c, Line(s, q, p, f, c), q # <<>>, Mine(Head(q), s)
  PROVE  Line(s, Tail(q), Append(p, [size |-> Head(q).size, call |-> Head(q).call]), f, c)
<1> DEFINE w == Tail(q)
           k == Head(q).call
           v == Head(q).size
           job == [size |-> v, call |-> k]
           r == Append(p, job)
           n == Len(p)
<1>1. /\ n \in Nat /\ Len(c) \in Nat /\ \A i \in 1..n : p[i].size \in Nat /\ p[i].call \in Nat
  BY LineTypes
<1>2. /\ q \in Seq(SendCommands) /\ p \in Seq(Jobs) /\ c \in Seq(CallRecords)
      /\ PendingIn(p, c) /\ FlushIn(s, f, c) /\ InOrder(s, q, p, f, c) /\ Found(s, q, p, f, c)
  BY DEF Line
<1>3. /\ w \in Seq(SendCommands) /\ k \in 1..Len(c) /\ v \in Nat /\ c[k].answer = "none"
      /\ v = c[k].size /\ QueueIn(s, w, c) /\ AheadOfQueue(s, w, k)
  BY QueueHeadTaken DEF CallCommands
<1>4. \A x \in Nat : AheadOfQueue(s, q, x) => x < k /\ AheadOfQueue(s, w, x)
  BY QueueHeadTaken
<1>5. \A i \in 1..Len(q) : Mine(q[i], s) =>
        q[i].call = k \/ \E j \in 1..Len(w) : Mine(w[j], s) /\ w[j].call = q[i].call
  BY QueueHeadTaken
<1>6. job \in Jobs /\ job.size = v /\ job.call = k
  BY <1>1, <1>3 DEF Jobs
<1> HIDE DEF w, k, v, job
<1>7. r \in Seq(Jobs) /\ Len(r) = n + 1 /\ r[n + 1] = job /\ \A i \in 1..n : r[i] = p[i]
  BY <1>1, <1>2, <1>6, AppendProperties
<1> HIDE DEF r
<1>8. \A i \in 1..Len(r) : (i \in 1..n /\ r[i] = p[i]) \/ (i = n + 1 /\ r[i] = job)
  BY <1>1, <1>7
<1>9. PendingIn(r, c)
  <2> SUFFICES ASSUME NEW i \in 1..Len(r)
               PROVE  /\ r[i].call \in 1..Len(c) /\ c[r[i].call].answer = "none"
                      /\ r[i].size <= c[r[i].call].size
                      /\ i # 1 => r[i].size = c[r[i].call].size
                      /\ \A j \in 1..Len(r) : i < j => r[i].call < r[j].call
    BY DEF PendingIn
  <2>1. CASE i \in 1..n /\ r[i] = p[i]
    <3>1. /\ p[i].call \in 1..Len(c) /\ c[p[i].call].answer = "none"
          /\ p[i].size <= c[p[i].call].size
          /\ i # 1 => p[i].size = c[p[i].call].size
          /\ \A j \in 1..n : i < j => p[i].call < p[j].call
      BY <1>2, <2>1 DEF PendingIn
    <3>2. p[i].call < k
      BY <1>1, <1>2, <1>4, <2>1 DEF InOrder
    <3>3. \A j \in 1..Len(r) : i < j => r[i].call < r[j].call
      BY <1>6, <1>8, <2>1, <3>1, <3>2
    <3> QED BY <2>1, <3>1, <3>3
  <2>2. CASE i = n + 1 /\ r[i] = job
    <3>1. \A j \in 1..Len(r) : ~(i < j)
      BY <1>1, <1>7, <2>2
    <3> QED BY <1>3, <1>6, <2>2, <3>1
  <2> QED BY <1>8, <2>1, <2>2
<1>10. \A x \in Nat : AheadOfPending(p, x) /\ x < k => AheadOfPending(r, x)
  BY <1>6, <1>8 DEF AheadOfPending
<1>11. InOrder(s, w, r, f, c)
  <2>1. \A i \in 1..Len(r) : AheadOfQueue(s, w, r[i].call)
    BY <1>1, <1>2, <1>3, <1>4, <1>6, <1>8 DEF InOrder
  <2>2. \A x \in Nat : InFlush(s, f, x) => AheadOfQueue(s, w, x) /\ AheadOfPending(r, x)
    BY <1>2, <1>4, <1>10 DEF InOrder
  <2>3. \A x \in 1..Len(c) : c[x].answer = "ok" => AheadOfQueue(s, w, x) /\ AheadOfPending(r, x)
    BY <1>1, <1>2, <1>4, <1>10 DEF InOrder
  <2> QED BY <1>2, <2>1, <2>2, <2>3 DEF InOrder
<1>12. Found(s, w, r, f, c)
  <2> SUFFICES ASSUME NEW x \in 1..Len(c), c[x].answer = "none"
               PROVE  \/ \E i \in 1..Len(w) : Mine(w[i], s) /\ w[i].call = x
                      \/ \E i \in 1..Len(r) : r[i].call = x
                      \/ InFlush(s, f, x)
    BY DEF Found
  <2>1. \A i \in 1..n : i \in 1..Len(r) /\ r[i] = p[i]
    BY <1>1, <1>7
  <2>2. n + 1 \in 1..Len(r) /\ r[n + 1].call = k
    BY <1>1, <1>6, <1>7
  <2> QED BY <1>2, <1>5, <2>1, <2>2 DEF Found
<1>13. Line(s, w, r, f, c)
  BY <1>2, <1>3, <1>7, <1>9, <1>11, <1>12 DEF Line
<1> QED BY <1>13 DEF w, r, job, k, v

(* The reset of a stream is done: it is answered after the flush.           *)
LEMMA ResetTaken ==
  ASSUME NEW s, NEW q, NEW f, NEW c, Line(s, q, <<>>, f, c), q # <<>>, Mine(Head(q), s)
  PROVE  Line(s, Tail(q), <<>>, f \cup {<<s, Head(q).call, "ok">>}, c)
<1> DEFINE w == Tail(q)
           k == Head(q).call
           g == f \cup {<<s, k, "ok">>}
           p == <<>>
<1>1. Len(c) \in Nat
  BY LineTypes
<1>2. /\ p \in Seq(Jobs) /\ c \in Seq(CallRecords)
      /\ PendingIn(p, c) /\ FlushIn(s, f, c) /\ InOrder(s, q, p, f, c) /\ Found(s, q, p, f, c)
  BY DEF Line
<1>3. /\ w \in Seq(SendCommands) /\ k \in 1..Len(c) /\ c[k].answer = "none"
      /\ QueueIn(s, w, c) /\ AheadOfQueue(s, w, k)
  BY QueueHeadTaken DEF CallCommands
<1>4. \A x \in Nat : AheadOfQueue(s, q, x) => x < k /\ AheadOfQueue(s, w, x)
  BY QueueHeadTaken
<1>5. \A i \in 1..Len(q) : Mine(q[i], s) =>
        q[i].call = k \/ \E j \in 1..Len(w) : Mine(w[j], s) /\ w[j].call = q[i].call
  BY QueueHeadTaken
<1>6. \A x : AheadOfPending(p, x)
  BY DEF AheadOfPending
<1>7. \A x : InFlush(s, g, x) <=> InFlush(s, f, x) \/ x = k
  BY DEF InFlush
<1>8. ~InFlush(s, f, k)
  BY <1>1, <1>2, <1>3, <1>4 DEF InOrder
<1>9. FlushIn(s, g, c)
  BY <1>2, <1>3, <1>8 DEF FlushIn, InFlush
<1> HIDE DEF w, k, g
<1>10. InOrder(s, w, p, g, c)
  <2>1. \A x \in Nat : InFlush(s, g, x) => AheadOfQueue(s, w, x)
    BY <1>2, <1>3, <1>4, <1>7 DEF InOrder
  <2>2. ASSUME NEW x \in 1..Len(c), c[x].answer = "ok"
        PROVE  AheadOfQueue(s, w, x) /\ \A n \in Nat : InFlush(s, g, n) => x < n
    <3>1. AheadOfQueue(s, q, x) /\ \A n \in Nat : InFlush(s, f, n) => x < n
      BY <1>2, <2>2 DEF InOrder
    <3> QED BY <1>1, <1>4, <1>7, <3>1
  <2>3. \A i \in 1..Len(p) : AheadOfQueue(s, w, p[i].call)
    OBVIOUS
  <2> QED BY <1>6, <2>1, <2>2, <2>3 DEF InOrder
<1>11. Found(s, w, p, g, c)
  BY <1>2, <1>5, <1>7 DEF Found
<1> QED BY <1>2, <1>3, <1>9, <1>10, <1>11 DEF Line, w, k, g

(* The first of what is pending is sent, or refused, and answered after the *)
(* flush.                                                                   *)
LEMMA PendingHeadTaken ==
  ASSUME NEW s, NEW q, NEW p, NEW f, NEW c, Line(s, q, p, f, c), p # <<>>, NEW a \in {"ok", "failed"}
  PROVE  Line(s, q, Tail(p), f \cup {<<s, Head(p).call, a>>}, c)
<1> DEFINE r == Tail(p)
           k == Head(p).call
           g == f \cup {<<s, k, a>>}
<1>1. Len(p) \in Nat /\ Len(c) \in Nat /\ \A i \in 1..Len(p) : p[i].call \in Nat
  BY LineTypes
<1>2. /\ q \in Seq(SendCommands) /\ p \in Seq(Jobs) /\ c \in Seq(CallRecords)
      /\ QueueIn(s, q, c) /\ PendingIn(p, c) /\ FlushIn(s, f, c) /\ InOrder(s, q, p, f, c)
      /\ Found(s, q, p, f, c)
  BY DEF Line
<1>3. /\ r \in Seq(Jobs) /\ Len(r) = Len(p) - 1 /\ k = p[1].call /\ 1 \in 1..Len(p)
      /\ \A i \in 1..Len(r) : r[i] = p[i + 1] /\ i + 1 \in 1..Len(p) /\ i + 1 # 1
  <2>1. /\ r \in Seq(Jobs) /\ Len(r) = Len(p) - 1 /\ Head(p) = p[1]
        /\ \A i \in 1..Len(r) : r[i] = p[i + 1] /\ i + 1 \in 1..Len(p)
    BY <1>2, TailElements
  <2>2. Len(p) # 0
    BY <1>2, EmptySeq
  <2> QED BY <1>1, <2>1, <2>2
<1> HIDE DEF r, k
<1>4. k \in 1..Len(c) /\ c[k].answer = "none" /\ k \in Nat
  BY <1>1, <1>2, <1>3 DEF PendingIn
<1>5. PendingIn(r, c)
  <2> SUFFICES ASSUME NEW i \in 1..Len(r)
               PROVE  /\ r[i].call \in 1..Len(c) /\ c[r[i].call].answer = "none"
                      /\ r[i].size <= c[r[i].call].size
                      /\ i # 1 => r[i].size = c[r[i].call].size
                      /\ \A j \in 1..Len(r) : i < j => r[i].call < r[j].call
    BY DEF PendingIn
  <2>1. i + 1 \in 1..Len(p) /\ i + 1 # 1 /\ r[i] = p[i + 1]
    BY <1>3
  <2>2. \A j \in 1..Len(r) : i < j => r[i].call < r[j].call
    <3> SUFFICES ASSUME NEW j \in 1..Len(r), i < j PROVE r[i].call < r[j].call
      OBVIOUS
    <3>1. j + 1 \in 1..Len(p) /\ r[j] = p[j + 1] /\ i + 1 < j + 1
      BY <1>3
    <3> QED BY <1>2, <2>1, <3>1 DEF PendingIn
  <2> QED BY <1>2, <2>1, <2>2 DEF PendingIn
<1>6. AheadOfPending(r, k)
  <2> SUFFICES ASSUME NEW j \in 1..Len(r) PROVE k < r[j].call
    BY DEF AheadOfPending
  <2>1. j + 1 \in 1..Len(p) /\ r[j] = p[j + 1] /\ 1 < j + 1
    BY <1>3
  <2> QED BY <1>2, <1>3, <2>1 DEF PendingIn
<1>7. \A x \in Nat : AheadOfPending(p, x) => x < k /\ AheadOfPending(r, x)
  BY <1>3 DEF AheadOfPending
<1>8. \A x : InFlush(s, g, x) <=> InFlush(s, f, x) \/ x = k
  BY DEF InFlush
<1>9. ~InFlush(s, f, k)
  BY <1>2, <1>4, <1>7 DEF InOrder
<1>10. FlushIn(s, g, c)
  BY <1>2, <1>4, <1>9 DEF FlushIn, InFlush
<1> HIDE DEF g
<1>11. InOrder(s, q, r, g, c)
  <2>1. \A i \in 1..Len(r) : AheadOfQueue(s, q, r[i].call)
    BY <1>2, <1>3 DEF InOrder
  <2>2. \A x \in Nat : InFlush(s, g, x) => AheadOfQueue(s, q, x) /\ AheadOfPending(r, x)
    BY <1>2, <1>3, <1>6, <1>7, <1>8 DEF InOrder
  <2>3. ASSUME NEW x \in 1..Len(c), c[x].answer = "ok"
        PROVE  AheadOfQueue(s, q, x) /\ AheadOfPending(r, x)
               /\ \A n \in Nat : InFlush(s, g, n) => x < n
    <3>1. AheadOfQueue(s, q, x) /\ AheadOfPending(p, x) /\ \A n \in Nat : InFlush(s, f, n) => x < n
      BY <1>2, <2>3 DEF InOrder
    <3> QED BY <1>1, <1>7, <1>8, <3>1
  <2> QED BY <2>1, <2>2, <2>3 DEF InOrder
<1>12. Found(s, q, r, g, c)
  <2> SUFFICES ASSUME NEW i \in 1..Len(p), p[i].call # k
               PROVE  \E j \in 1..Len(r) : r[j].call = p[i].call
    BY <1>2, <1>8 DEF Found
  <2>1. i # 1
    BY <1>3
  <2>2. i - 1 \in 1..Len(r) /\ (i - 1) + 1 = i
    BY <1>1, <1>3, <2>1
  <2>3. r[i - 1] = p[i]
    BY <1>3, <2>2
  <2> QED BY <2>2, <2>3
<1>13. Line(s, q, r, g, c)
  BY <1>2, <1>3, <1>5, <1>10, <1>11, <1>12 DEF Line
<1> QED BY <1>13 DEF r, k, g

(* Some calls of a stream are answered.                                     *)
Marked(c, K, a) == [k \in DOMAIN c |-> IF k \in K THEN [c[k] EXCEPT !.answer = a] ELSE c[k]]

LEMMA MarkedTypes ==
  ASSUME NEW c \in Seq(CallRecords), NEW K, NEW a \in Answers
  PROVE  /\ Marked(c, K, a) \in Seq(CallRecords) /\ Len(Marked(c, K, a)) = Len(c)
         /\ \A k \in 1..Len(c) :
              /\ Marked(c, K, a)[k].size = c[k].size
              /\ Marked(c, K, a)[k].answer = IF k \in K THEN a ELSE c[k].answer
<1> DEFINE m == Marked(c, K, a)
<1>1. Len(c) \in Nat /\ DOMAIN c = 1..Len(c) /\ \A k \in 1..Len(c) : c[k] \in CallRecords
  BY LenProperties, ElementOfSeq
<1>2. \A r \in CallRecords : /\ [r EXCEPT !.answer = a] \in CallRecords
                             /\ [r EXCEPT !.answer = a].size = r.size
                             /\ [r EXCEPT !.answer = a].answer = a
  BY DEF CallRecords
<1>3. m \in [1..Len(c) -> CallRecords]
  BY <1>1, <1>2 DEF Marked
<1>4. \A k \in 1..Len(c) : m[k] = IF k \in K THEN [c[k] EXCEPT !.answer = a] ELSE c[k]
  BY <1>1 DEF Marked
<1> HIDE DEF m
<1>5. m \in Seq(CallRecords) /\ Len(m) = Len(c)
  BY <1>1, <1>3, FunctionIsSequence
<1>6. \A k \in 1..Len(c) : m[k].size = c[k].size /\ m[k].answer = IF k \in K THEN a ELSE c[k].answer
  BY <1>1, <1>2, <1>4
<1> QED BY <1>5, <1>6 DEF m

LEMMA AnsweredElsewhere ==
  ASSUME NEW cs \in [SendStreams -> Seq(CallRecords)], NEW S, NEW a, NEW s \in SendStreams,
         \A k \in Nat : <<s, k>> \notin S
  PROVE  Answered(cs, S, a)[s] = cs[s]
<1> DEFINE c == cs[s]
<1>1. c \in Seq(CallRecords)
  OBVIOUS
<1>2. Len(c) \in Nat /\ DOMAIN c = 1..Len(c) /\ c = [k \in 1..Len(c) |-> c[k]]
  BY <1>1, LenProperties, SeqEqual
<1>3. Answered(cs, S, a)[s] = [k \in DOMAIN c |-> IF <<s, k>> \in S THEN [c[k] EXCEPT !.answer = a] ELSE c[k]]
  BY DEF Answered
<1>4. \A k \in DOMAIN c : <<s, k>> \notin S
  BY <1>2
<1> HIDE DEF c
<1> QED BY <1>2, <1>3, <1>4 DEF c

-----------------------------------------------------------------------------
(* What is answered is no longer in the line.                               *)

(* The call at the head of the queue fails.                                 *)
LEMMA QueueHeadFailed ==
  ASSUME NEW s, NEW q, NEW p, NEW f, NEW c, Line(s, q, p, f, c), q # <<>>, Mine(Head(q), s)
  PROVE  Line(s, Tail(q), p, f, Marked(c, {Head(q).call}, "failed"))
<1> DEFINE w == Tail(q)
           h == Head(q).call
           d == Marked(c, {h}, "failed")
<1>1. /\ p \in Seq(Jobs) /\ c \in Seq(CallRecords) /\ Len(c) \in Nat
      /\ PendingIn(p, c) /\ FlushIn(s, f, c) /\ InOrder(s, q, p, f, c) /\ Found(s, q, p, f, c)
      /\ \A i \in 1..Len(p) : p[i].call \in Nat
  BY LineTypes DEF Line
<1>2. /\ w \in Seq(SendCommands) /\ QueueLeft(s, q, w, c, 1) /\ h \in 1..Len(c)
      /\ QueueIn(s, w, c) /\ AheadOfQueue(s, w, h)
  BY QueueHeadTaken
<1>3. \A x \in Nat : AheadOfQueue(s, q, x) => x < h
  BY QueueHeadTaken
<1>4. \A i \in 1..Len(q) : Mine(q[i], s) =>
        q[i].call = h \/ \E j \in 1..Len(w) : Mine(w[j], s) /\ w[j].call = q[i].call
  BY QueueHeadTaken
<1> HIDE DEF w, h
<1>5. /\ d \in Seq(CallRecords) /\ Len(d) = Len(c)
      /\ \A k \in 1..Len(c) : d[k].size = c[k].size
                              /\ d[k].answer = IF k \in {h} THEN "failed" ELSE c[k].answer
  <2>1. c \in Seq(CallRecords) /\ "failed" \in Answers
    BY <1>1 DEF Answers
  <2> QED BY <2>1, MarkedTypes
<1> HIDE DEF d
<1>6. PendingLeft(p, p, c, 0) /\ FlushLeft(s, f, f, c)
  BY AllLeft
<1>7. QueueLeft(s, q, w, d, 1)
  <2> SUFFICES ASSUME NEW i \in 1..Len(w), Mine(w[i], s) PROVE d[w[i].call].answer = "none"
    BY <1>2 DEF QueueLeft
  <2>1. w[i].call \in 1..Len(c) /\ c[w[i].call].answer = "none" /\ h < w[i].call
    BY <1>2 DEF QueueIn, AheadOfQueue
  <2> QED BY <1>2, <1>5, <2>1
<1>8. PendingLeft(p, p, d, 0)
  <2> SUFFICES ASSUME NEW i \in 1..Len(p) PROVE d[p[i].call].answer = "none"
    BY <1>6 DEF PendingLeft
  <2>1. p[i].call \in 1..Len(c) /\ c[p[i].call].answer = "none" /\ p[i].call < h
    BY <1>1, <1>3 DEF PendingIn, InOrder
  <2> QED BY <1>2, <1>5, <2>1
<1>9. FlushLeft(s, f, f, d)
  <2> SUFFICES ASSUME NEW k \in Nat, InFlush(s, f, k) PROVE d[k].answer = "none"
    BY <1>6 DEF FlushLeft
  <2>1. k \in 1..Len(c) /\ c[k].answer = "none" /\ k < h
    BY <1>1, <1>3 DEF FlushIn, InOrder
  <2> QED BY <1>2, <1>5, <2>1
<1>10. CallsAnswered(s, f, f, c, d)
  BY <1>5 DEF CallsAnswered
<1>11. Found(s, w, p, f, d)
  <2> SUFFICES ASSUME NEW x \in 1..Len(c), d[x].answer = "none"
               PROVE  \/ \E i \in 1..Len(w) : Mine(w[i], s) /\ w[i].call = x
                      \/ \E i \in 1..Len(p) : p[i].call = x
                      \/ InFlush(s, f, x)
    BY <1>5 DEF Found
  <2>1. x # h /\ c[x].answer = "none"
    BY <1>5
  <2> QED BY <1>1, <1>4, <2>1 DEF Found
<1>12. Line(s, w, p, f, d)
  BY <1>1, <1>2, <1>5, <1>7, <1>8, <1>9, <1>10, <1>11, LineShrinks
<1> QED BY <1>12 DEF w, h, d

CallsOf(p) == {p[i].call : i \in DOMAIN p}

(* What is pending on a stream fails.                                       *)
LEMMA PendingFails ==
  ASSUME NEW s, NEW q, NEW p, NEW f, NEW c, Line(s, q, p, f, c)
  PROVE  Line(s, q, <<>>, f, Marked(c, CallsOf(p), "failed"))
<1> DEFINE d == Marked(c, CallsOf(p), "failed")
           r == <<>>
<1>1. /\ q \in Seq(SendCommands) /\ p \in Seq(Jobs) /\ c \in Seq(CallRecords) /\ Len(c) \in Nat
      /\ QueueIn(s, q, c) /\ PendingIn(p, c) /\ FlushIn(s, f, c) /\ InOrder(s, q, p, f, c)
      /\ Found(s, q, p, f, c)
      /\ \A i \in 1..Len(p) : p[i].call \in Nat
  BY LineTypes DEF Line
<1>2. \A k : k \in CallsOf(p) <=> \E i \in 1..Len(p) : p[i].call = k
  BY <1>1, LenProperties DEF CallsOf
<1>3. /\ d \in Seq(CallRecords) /\ Len(d) = Len(c)
      /\ \A k \in 1..Len(c) : d[k].size = c[k].size
                              /\ d[k].answer = IF k \in CallsOf(p) THEN "failed" ELSE c[k].answer
  <2>1. c \in Seq(CallRecords) /\ "failed" \in Answers
    BY <1>1 DEF Answers
  <2> QED BY <2>1, MarkedTypes
<1> HIDE DEF d
<1>4. QueueLeft(s, q, q, c, 0) /\ FlushLeft(s, f, f, c)
  BY AllLeft
<1>5. QueueLeft(s, q, q, d, 0)
  <2> SUFFICES ASSUME NEW i \in 1..Len(q), Mine(q[i], s) PROVE d[q[i].call].answer = "none"
    BY <1>4 DEF QueueLeft
  <2>1. q[i].call \in 1..Len(c) /\ c[q[i].call].answer = "none"
        /\ \A j \in 1..Len(p) : p[j].call < q[i].call
    BY <1>1 DEF QueueIn, InOrder, AheadOfQueue
  <2>2. q[i].call \notin CallsOf(p)
    BY <1>1, <1>2, <2>1
  <2> QED BY <1>3, <2>1, <2>2
<1>6. PendingLeft(p, r, d, 0)
  BY DEF PendingLeft
<1>7. FlushLeft(s, f, f, d)
  <2> SUFFICES ASSUME NEW k \in Nat, InFlush(s, f, k) PROVE d[k].answer = "none"
    BY <1>4 DEF FlushLeft
  <2>1. k \in 1..Len(c) /\ c[k].answer = "none" /\ \A j \in 1..Len(p) : k < p[j].call
    BY <1>1 DEF FlushIn, InOrder, AheadOfPending
  <2>2. k \notin CallsOf(p)
    BY <1>1, <1>2, <2>1
  <2> QED BY <1>3, <2>1, <2>2
<1>8. CallsAnswered(s, f, f, c, d)
  BY <1>3 DEF CallsAnswered
<1>9. Found(s, q, r, f, d)
  <2> SUFFICES ASSUME NEW x \in 1..Len(c), d[x].answer = "none"
               PROVE  (\E i \in 1..Len(q) : Mine(q[i], s) /\ q[i].call = x) \/ InFlush(s, f, x)
    BY <1>3 DEF Found
  <2>1. x \notin CallsOf(p) /\ c[x].answer = "none"
    BY <1>3
  <2> QED BY <1>1, <1>2, <2>1 DEF Found
<1>10. r \in Seq(Jobs)
  OBVIOUS
<1>11. Line(s, q, r, f, d)
  BY <1>1, <1>3, <1>5, <1>6, <1>7, <1>8, <1>9, <1>10, LineShrinks
<1> QED BY <1>11 DEF d

(* A part of the first write is sent.                                       *)
LEMMA PartTaken ==
  ASSUME NEW s, NEW q, NEW p, NEW f, NEW c, Line(s, q, p, f, c),
         NEW r \in Seq(Jobs), Len(r) = Len(p),
         \A i \in 1..Len(p) : /\ r[i].call = p[i].call /\ r[i].size <= p[i].size
                              /\ i # 1 => r[i].size = p[i].size
  PROVE  Line(s, q, r, f, c)
<1>1. /\ q \in Seq(SendCommands) /\ c \in Seq(CallRecords) /\ PendingIn(p, c) /\ Found(s, q, p, f, c)
      /\ Len(p) \in Nat
  BY LineTypes DEF Line
<1>2. QueueLeft(s, q, q, c, 0) /\ FlushLeft(s, f, f, c) /\ CallsAnswered(s, f, f, c, c)
  BY AllLeft
<1>3. PendingLeft(p, r, c, 0)
  <2>1. \A i \in 1..Len(p) : i + 0 = i
    BY <1>1
  <2> QED BY <1>1, <2>1 DEF PendingIn, PendingLeft
<1>4. Found(s, q, r, f, c)
  BY <1>1 DEF Found
<1> QED BY <1>1, <1>2, <1>3, <1>4, LineShrinks

(* The flush has succeeded: its calls are answered.                         *)
LEMMA FlushAnswered ==
  ASSUME NEW s, NEW q, NEW p, NEW f, NEW c, Line(s, q, p, f, c)
  PROVE  Line(s, q, p, {}, Marked(Marked(c, {k \in Nat : <<s, k, "ok">> \in f}, "ok"),
                                  {k \in Nat : <<s, k, "failed">> \in f}, "failed"))
<1> DEFINE K == {k \in Nat : <<s, k, "ok">> \in f}
           L == {k \in Nat : <<s, k, "failed">> \in f}
           b == Marked(c, K, "ok")
           d == Marked(b, L, "failed")
           g == {}
<1>1. /\ q \in Seq(SendCommands) /\ p \in Seq(Jobs) /\ c \in Seq(CallRecords) /\ Len(c) \in Nat
      /\ QueueIn(s, q, c) /\ PendingIn(p, c) /\ FlushIn(s, f, c) /\ InOrder(s, q, p, f, c)
      /\ Found(s, q, p, f, c)
      /\ \A i \in 1..Len(p) : p[i].call \in Nat
  BY LineTypes DEF Line
<1>2. \A k \in Nat : InFlush(s, f, k) <=> k \in K \/ k \in L
  BY DEF InFlush
<1>3. "ok" \in Answers /\ "failed" \in Answers
  BY DEF Answers
<1> HIDE DEF K, L
<1>4. /\ b \in Seq(CallRecords) /\ Len(b) = Len(c)
      /\ \A k \in 1..Len(c) : b[k].size = c[k].size
                              /\ b[k].answer = IF k \in K THEN "ok" ELSE c[k].answer
  BY <1>1, <1>3, MarkedTypes
<1> HIDE DEF b
<1>5. /\ d \in Seq(CallRecords) /\ Len(d) = Len(c)
      /\ \A k \in 1..Len(c) : d[k].size = b[k].size
                              /\ d[k].answer = IF k \in L THEN "failed" ELSE b[k].answer
  BY <1>3, <1>4, MarkedTypes
<1> HIDE DEF d
<1>6. \A k \in 1..Len(c) :
        /\ d[k].size = c[k].size /\ (~InFlush(s, f, k) => d[k].answer = c[k].answer)
        /\ InFlush(s, f, k) => d[k].answer \in {"ok", "failed"}
  <2> SUFFICES ASSUME NEW k \in 1..Len(c)
               PROVE  /\ d[k].size = c[k].size /\ (~InFlush(s, f, k) => d[k].answer = c[k].answer)
                      /\ InFlush(s, f, k) => d[k].answer \in {"ok", "failed"}
    OBVIOUS
  <2>1. k \in Nat
    BY <1>1
  <2> QED BY <1>2, <1>4, <1>5, <2>1
<1>7. QueueLeft(s, q, q, c, 0) /\ PendingLeft(p, p, c, 0)
  BY AllLeft
<1>8. QueueLeft(s, q, q, d, 0)
  <2> SUFFICES ASSUME NEW i \in 1..Len(q), Mine(q[i], s) PROVE d[q[i].call].answer = "none"
    BY <1>7 DEF QueueLeft
  <2>1. q[i].call \in 1..Len(c) /\ c[q[i].call].answer = "none"
        /\ \A k \in Nat : InFlush(s, f, k) => k < q[i].call
    BY <1>1 DEF QueueIn, InOrder, AheadOfQueue
  <2>2. ~InFlush(s, f, q[i].call)
    BY <1>1, <2>1
  <2> QED BY <1>6, <2>1, <2>2
<1>9. PendingLeft(p, p, d, 0)
  <2> SUFFICES ASSUME NEW i \in 1..Len(p) PROVE d[p[i].call].answer = "none"
    BY <1>7 DEF PendingLeft
  <2>1. p[i].call \in 1..Len(c) /\ c[p[i].call].answer = "none"
        /\ \A k \in Nat : InFlush(s, f, k) => k < p[i].call
    BY <1>1 DEF PendingIn, InOrder, AheadOfPending
  <2>2. ~InFlush(s, f, p[i].call)
    BY <1>1, <2>1
  <2> QED BY <1>6, <2>1, <2>2
<1>10. \A k : ~InFlush(s, g, k)
  BY DEF InFlush
<1>11. FlushLeft(s, f, g, d)
  BY <1>10 DEF FlushLeft
<1>12. CallsAnswered(s, f, g, c, d)
  BY <1>5, <1>6, <1>10 DEF CallsAnswered
<1>13. Found(s, q, p, g, d)
  <2> SUFFICES ASSUME NEW x \in 1..Len(c), d[x].answer = "none"
               PROVE  \/ \E i \in 1..Len(q) : Mine(q[i], s) /\ q[i].call = x
                      \/ \E i \in 1..Len(p) : p[i].call = x
    BY <1>5 DEF Found
  <2>1. ~InFlush(s, f, x) /\ c[x].answer = "none"
    BY <1>6
  <2> QED BY <1>1, <2>1 DEF Found
<1>14. Line(s, q, p, g, d)
  BY <1>1, <1>5, <1>8, <1>9, <1>11, <1>12, <1>13, LineShrinks
<1> QED BY <1>14 DEF b, d, K, L

(* The connection ends: every call is answered.                             *)
LEMMA LineEnds ==
  ASSUME NEW s, NEW q, NEW p, NEW f, NEW c, Line(s, q, p, f, c)
  PROVE  Line(s, <<>>, <<>>, {}, Marked(c, {k \in DOMAIN c : c[k].answer = "none"}, "failed"))
<1> DEFINE K == {k \in DOMAIN c : c[k].answer = "none"}
           d == Marked(c, K, "failed")
           e == <<>>
           g == {}
<1>1. c \in Seq(CallRecords) /\ Len(c) \in Nat /\ DOMAIN c = 1..Len(c) /\ "failed" \in Answers
  BY LenProperties DEF Line, Answers
<1>2. \A k \in 1..Len(c) : k \in K <=> c[k].answer = "none"
  BY <1>1
<1> HIDE DEF K
<1>3. /\ d \in Seq(CallRecords) /\ Len(d) = Len(c)
      /\ \A k \in 1..Len(c) : d[k].size = c[k].size
                              /\ d[k].answer = IF k \in K THEN "failed" ELSE c[k].answer
  BY <1>1, MarkedTypes
<1> HIDE DEF d
<1>4. \A k \in 1..Len(c) : d[k].answer # "none" /\ (d[k].answer = "ok" => c[k].answer = "ok")
  BY <1>2, <1>3
<1>5. \A k : ~InFlush(s, g, k)
  BY DEF InFlush
<1>6. /\ QueueLeft(s, q, e, d, 0) /\ PendingLeft(p, e, d, 0) /\ FlushLeft(s, f, g, d)
      /\ CallsAnswered(s, f, g, c, d) /\ Found(s, e, e, g, d)
  BY <1>3, <1>4, <1>5 DEF QueueLeft, PendingLeft, FlushLeft, CallsAnswered, Found
<1>7. e \in Seq(SendCommands) /\ e \in Seq(Jobs)
  OBVIOUS
<1>8. Line(s, e, e, g, d)
  BY <1>3, <1>6, <1>7, LineShrinks
<1> QED BY <1>8 DEF d, K

(* The flush of another stream.                                             *)
LEMMA OtherFlushed ==
  ASSUME NEW s, NEW q, NEW p, NEW f, NEW c, Line(s, q, p, f, c), NEW f2,
         \A k, a : <<s, k, a>> \in f2 <=> <<s, k, a>> \in f
  PROVE  Line(s, q, p, f2, c)
<1>1. \A k : InFlush(s, f2, k) <=> InFlush(s, f, k)
  BY DEF InFlush
<1> QED BY <1>1 DEF Line, FlushIn, InOrder, Found

-----------------------------------------------------------------------------
(* Bytes.  What must have been sent of a call: all of it when it is, or is  *)
(* about to be, answered "ok"; what is gone of the first write.             *)
Due(s, p, f, c, k) ==
  IF c[k].answer = "ok" \/ <<s, k, "ok">> \in f THEN c[k].size
  ELSE IF p # <<>> /\ p[1].call = k THEN c[k].size - p[1].size
  ELSE 0

Dues(s, p, f, c) == [k \in 1..Len(c) |-> Due(s, p, f, c, k)]
Paid(s, p, f, c, n) == n \in Nat /\ n >= Total(Dues(s, p, f, c))

LEMMA DueTypes ==
  ASSUME NEW s, NEW q, NEW p, NEW f, NEW c, Line(s, q, p, f, c)
  PROVE  /\ \A k \in 1..Len(c) : Due(s, p, f, c, k) \in Nat
         /\ Dues(s, p, f, c) \in Seq(Nat) /\ Len(Dues(s, p, f, c)) = Len(c)
<1>1. /\ Len(c) \in Nat /\ \A k \in 1..Len(c) : c[k].size \in Nat
      /\ Len(p) \in Nat /\ \A i \in 1..Len(p) : p[i].size \in Nat
  BY LineTypes
<1>2. p \in Seq(Jobs) /\ PendingIn(p, c)
  BY DEF Line
<1>3. p # <<>> => 1 \in 1..Len(p)
  <2>1. p # <<>> => Len(p) # 0
    BY <1>2, EmptySeq
  <2> QED BY <1>1, <2>1
<1>4. p # <<>> => p[1].call \in 1..Len(c) /\ p[1].size <= c[p[1].call].size /\ p[1].size \in Nat
  BY <1>1, <1>2, <1>3 DEF PendingIn
<1>5. \A k \in 1..Len(c) : Due(s, p, f, c, k) \in Nat
  BY <1>1, <1>4 DEF Due
<1> DEFINE a == Dues(s, p, f, c)
<1>6. a \in [1..Len(c) -> Nat]
  BY <1>5 DEF Dues
<1> HIDE DEF a
<1>7. a \in Seq(Nat) /\ Len(a) = Len(c)
  BY <1>1, <1>6, FunctionIsSequence
<1> QED BY <1>5, <1>7 DEF a

(* m bytes more are sent, and are due on the call x.                        *)
LEMMA PaidGrows ==
  ASSUME NEW s, NEW q, NEW p, NEW f, NEW c, Line(s, q, p, f, c),
         NEW q2, NEW p2, NEW f2, NEW c2, Line(s, q2, p2, f2, c2), Len(c2) = Len(c),
         NEW n, Paid(s, p, f, c, n), NEW m \in Nat, NEW x \in 1..Len(c),
         \A k \in 1..Len(c) : IF k = x THEN Due(s, p2, f2, c2, k) <= Due(s, p, f, c, k) + m
                                       ELSE Due(s, p2, f2, c2, k) <= Due(s, p, f, c, k)
  PROVE  Paid(s, p2, f2, c2, n + m)
<1> DEFINE a == Dues(s, p, f, c)
           b == Dues(s, p2, f2, c2)
           v == a[x] + m
           u == [a EXCEPT ![x] = v]
<1>1. /\ a \in Seq(Nat) /\ b \in Seq(Nat) /\ Len(a) = Len(c) /\ Len(b) = Len(c)
      /\ \A k \in 1..Len(c) : Due(s, p, f, c, k) \in Nat
  BY DueTypes
<1>2. \A k \in 1..Len(c) : a[k] = Due(s, p, f, c, k) /\ b[k] = Due(s, p2, f2, c2, k)
  BY DEF Dues
<1>3. \A k \in 1..Len(c) : IF k = x THEN b[k] <= a[k] + m ELSE b[k] <= a[k]
  BY <1>2
<1>4. n \in Nat /\ n >= Total(a)
  BY DEF Paid
<1>5. a[x] \in Nat
  BY <1>1, <1>2
<1> HIDE DEF a, b
<1>6. v \in Nat
  BY <1>5
<1>7. Total(u) + a[x] = Total(a) + v /\ u \in Seq(Nat)
  <2> HIDE DEF v
  <2> QED BY <1>1, <1>6, TotalOfExcept
<1>8. Len(u) = Len(c) /\ \A k \in 1..Len(c) : u[k] = IF k = x THEN v ELSE a[k]
  BY SMTT(30), <1>1, ExceptSeq
<1>9. \A k \in 1..Len(u) : b[k] <= u[k]
  BY <1>3, <1>8
<1>10. Total(b) <= Total(u)
  <2> HIDE DEF u
  <2> QED BY <1>1, <1>7, <1>8, <1>9, TotalIsMonotone
<1>11. Total(a) \in Nat /\ Total(b) \in Nat /\ Total(u) \in Nat
  <2> HIDE DEF u
  <2> QED BY <1>1, <1>7, TotalIsNat
<1>12. Total(u) = Total(a) + m
  <2> DEFINE U == Total(u)
             T == Total(a)
             z == a[x]
  <2>1. U \in Nat /\ T \in Nat /\ z \in Nat /\ U + z = T + (z + m)
    BY <1>5, <1>7, <1>11
  <2> HIDE DEF U, T, z
  <2>2. U = T + m
    BY <2>1
  <2> QED BY <2>2 DEF U, T
<1>13. n + m >= Total(b) /\ n + m \in Nat
  <2> HIDE DEF u
  <2> QED BY <1>4, <1>10, <1>11, <1>12
<1> QED BY <1>13 DEF Paid, b

LEMMA PaidStays ==
  ASSUME NEW s, NEW q, NEW p, NEW f, NEW c, Line(s, q, p, f, c),
         NEW q2, NEW p2, NEW f2, NEW c2, Line(s, q2, p2, f2, c2), Len(c2) = Len(c),
         NEW n, Paid(s, p, f, c, n),
         \A k \in 1..Len(c) : Due(s, p2, f2, c2, k) <= Due(s, p, f, c, k)
  PROVE  Paid(s, p2, f2, c2, n)
<1> DEFINE a == Dues(s, p, f, c)
           b == Dues(s, p2, f2, c2)
<1>1. /\ a \in Seq(Nat) /\ b \in Seq(Nat) /\ Len(a) = Len(c) /\ Len(b) = Len(c)
  BY DueTypes
<1>2. \A k \in 1..Len(c) : b[k] <= a[k]
  BY DEF Dues
<1>3. n \in Nat /\ n >= Total(a)
  BY DEF Paid
<1> HIDE DEF a, b
<1>4. Total(b) <= Total(a) /\ Total(a) \in Nat /\ Total(b) \in Nat
  BY <1>1, <1>2, TotalIsMonotone, TotalIsNat
<1>5. n >= Total(b)
  BY <1>3, <1>4
<1> QED BY <1>3, <1>5 DEF Paid, b

LEMMA DueOfPending ==
  ASSUME NEW s, NEW q, NEW p, NEW f, NEW c, Line(s, q, p, f, c)
  PROVE  \A k \in 1..Len(c) :
           /\ k \in CallsOf(p) => c[k].answer = "none" /\ <<s, k, "ok">> \notin f
           /\ p # <<>> => (p[1].call = k => k \in CallsOf(p))
           /\ k \notin CallsOf(p) => Due(s, p, f, c, k)
                = IF c[k].answer = "ok" \/ <<s, k, "ok">> \in f THEN c[k].size ELSE 0
<1>1. /\ Len(c) \in Nat /\ Len(p) \in Nat /\ \A i \in 1..Len(p) : p[i].call \in Nat
  BY LineTypes
<1>2. p \in Seq(Jobs) /\ PendingIn(p, c) /\ InOrder(s, q, p, f, c)
  BY DEF Line
<1>3. DOMAIN p = 1..Len(p) /\ (p # <<>> => 1 \in 1..Len(p))
  <2>1. DOMAIN p = 1..Len(p) /\ (p # <<>> => Len(p) # 0)
    BY <1>2, EmptySeq, LenProperties
  <2> QED BY <1>1, <2>1
<1>4. \A k : k \in CallsOf(p) <=> \E i \in 1..Len(p) : p[i].call = k
  BY <1>3 DEF CallsOf
<1>5. ASSUME NEW i \in 1..Len(p)
      PROVE  c[p[i].call].answer = "none" /\ <<s, p[i].call, "ok">> \notin f
  <2>1. ~InFlush(s, f, p[i].call)
    BY <1>1, <1>2 DEF InOrder, AheadOfPending
  <2> QED BY <1>2, <2>1 DEF InFlush, PendingIn
<1>6. \A k : p # <<>> => (p[1].call = k => k \in CallsOf(p))
  BY <1>3, <1>4
<1> QED BY <1>4, <1>5, <1>6 DEF Due

(* A call fails: nothing is due on it any more.                             *)
LEMMA PaidMarked ==
  ASSUME NEW s, NEW q, NEW p, NEW f, NEW c, Line(s, q, p, f, c), NEW K,
         NEW q2, NEW p2 \in {p, <<>>}, NEW f2 \in SUBSET f, Line(s, q2, p2, f2, Marked(c, K, "failed")),
         NEW n, Paid(s, p, f, c, n)
  PROVE  Paid(s, p2, f2, Marked(c, K, "failed"), n)
<1> DEFINE d == Marked(c, K, "failed")
<1>1. c \in Seq(CallRecords) /\ "failed" \in Answers
  BY DEF Line, Answers
<1>2. /\ Len(d) = Len(c)
      /\ \A k \in 1..Len(c) : d[k].size = c[k].size
                              /\ d[k].answer = IF k \in K THEN "failed" ELSE c[k].answer
  BY <1>1, MarkedTypes
<1>3. Line(s, q2, p2, f2, d)
  OBVIOUS
<1> HIDE DEF d
<1>4. ASSUME NEW k \in 1..Len(c) PROVE Due(s, p2, f2, d, k) <= Due(s, p, f, c, k)
  <2>1. Due(s, p, f, c, k) \in Nat
    BY DueTypes
  <2>2. k \in CallsOf(p) => c[k].answer = "none" /\ <<s, k, "ok">> \notin f
    BY DueOfPending
  <2>3. p # <<>> => (p[1].call = k => k \in CallsOf(p))
    BY DueOfPending
  <2>4. d[k].answer = "ok" => c[k].answer = "ok"
    BY <1>2
  <2>5. <<s, k, "ok">> \in f2 => <<s, k, "ok">> \in f
    OBVIOUS
  <2>6. d[k].size = c[k].size
    BY <1>2
  <2>7. CASE d[k].answer = "ok" \/ <<s, k, "ok">> \in f2
    <3>1. Due(s, p2, f2, d, k) = d[k].size
      BY <2>7 DEF Due
    <3>2. Due(s, p, f, c, k) = c[k].size
      BY <2>4, <2>5, <2>7 DEF Due
    <3> QED BY <2>1, <2>6, <3>1, <3>2
  <2>8. CASE ~(d[k].answer = "ok" \/ <<s, k, "ok">> \in f2) /\ p2 # <<>> /\ p2[1].call = k
    <3>1. p2 = p
      BY <2>8
    <3>2. Due(s, p2, f2, d, k) = c[k].size - p[1].size
      BY <2>6, <2>8, <3>1 DEF Due
    <3>3. Due(s, p, f, c, k) = c[k].size - p[1].size
      BY <2>2, <2>3, <2>8, <3>1 DEF Due
    <3> QED BY <2>1, <3>2, <3>3
  <2>9. CASE ~(d[k].answer = "ok" \/ <<s, k, "ok">> \in f2) /\ ~(p2 # <<>> /\ p2[1].call = k)
    <3>1. Due(s, p2, f2, d, k) = 0
      BY <2>9 DEF Due
    <3> QED BY <2>1, <3>1
  <2> QED BY <2>7, <2>8, <2>9
<1>5. Paid(s, p2, f2, d, n)
  BY <1>2, <1>3, <1>4, PaidStays
<1> QED BY <1>5 DEF d

LEMMA PaidNewCall ==
  ASSUME NEW s, NEW q, NEW p, NEW f, NEW c, Line(s, q, p, f, c),
         NEW r \in CallRecords, r.answer = "none", NEW q2, Line(s, q2, p, f, Append(c, r)),
         NEW n, Paid(s, p, f, c, n)
  PROVE  Paid(s, p, f, Append(c, r), n)
<1> DEFINE d == Append(c, r)
           l == Len(c)
           a == Dues(s, p, f, c)
           b == Dues(s, p, f, d)
<1>1. l \in Nat /\ c \in Seq(CallRecords)
  BY LineTypes DEF Line
<1>2. Len(d) = l + 1 /\ d[l + 1] = r /\ \A i \in 1..l : d[i] = c[i]
  BY <1>1, AppendProperties
<1>3. Line(s, q2, p, f, d)
  OBVIOUS
<1> HIDE DEF d
<1>4. a \in Seq(Nat) /\ Len(a) = l /\ b \in Seq(Nat) /\ Len(b) = l + 1
  BY <1>2, <1>3, DueTypes
<1>5. Due(s, p, f, d, l + 1) = 0
  <2>1. FlushIn(s, f, c) /\ PendingIn(p, c) /\ p \in Seq(Jobs)
    BY DEF Line
  <2>2. <<s, l + 1, "ok">> \notin f
    <3>1. l + 1 \in Nat /\ l + 1 \notin 1..Len(c)
      BY <1>1
    <3> DEFINE x == l + 1
    <3>2. x \in Nat /\ x \notin 1..Len(c)
      BY <3>1
    <3> HIDE DEF x
    <3>3. ~InFlush(s, f, x)
      BY <2>1, <3>2 DEF FlushIn
    <3>4. <<s, x, "ok">> \notin f
      BY <3>3 DEF InFlush
    <3> QED BY <3>4 DEF x
  <2>3. p # <<>> => p[1].call # l + 1
    <3> SUFFICES ASSUME p # <<>> PROVE p[1].call \in 1..l
      BY <1>1
    <3>1. 1 \in 1..Len(p)
      BY <2>1, EmptySeq, LenProperties
    <3> QED BY <2>1, <3>1 DEF PendingIn
  <2> QED BY <1>2, <2>2, <2>3 DEF Due
<1>6. \A i \in 1..l : b[i] = a[i]
  <2> SUFFICES ASSUME NEW i \in 1..l PROVE b[i] = a[i]
    OBVIOUS
  <2>1. i \in 1..Len(d) /\ d[i] = c[i]
    BY <1>1, <1>2
  <2> QED BY <2>1 DEF Dues, Due
<1>7. b[l + 1] = 0
  <2>1. l + 1 \in 1..Len(d)
    BY <1>1, <1>2
  <2> QED BY <1>5, <2>1 DEF Dues
<1> HIDE DEF a, b
<1> DEFINE e == a \o <<0>>
<1>8. /\ <<0>> \in Seq(Nat) /\ Len(<<0>>) = 1 /\ <<0>>[1] = 0
  OBVIOUS
<1>9. e = b
  <2> DEFINE z == <<0>>
  <2>1. z \in Seq(Nat) /\ Len(z) = 1 /\ z[1] = 0 /\ e = a \o z
    BY <1>8
  <2> HIDE DEF z, e
  <2>2. e \in Seq(Nat) /\ Len(e) = l + 1 /\ (\A i \in 1..l : e[i] = a[i])
        /\ \A i \in 1..1 : e[l + i] = z[i]
    <3>1. /\ a \o z \in Seq(Nat) /\ Len(a \o z) = Len(a) + Len(z)
          /\ \A i \in 1..Len(a) : (a \o z)[i] = a[i]
          /\ \A i \in 1..Len(z) : (a \o z)[Len(a) + i] = z[i]
      <4> HIDE DEF l
      <4>1. a \in Seq(Nat) /\ z \in Seq(Nat)
        BY <1>4, <2>1
      <4> QED BY <4>1, ConcatElements
    <3> HIDE DEF l
    <3>2. e = a \o z /\ Len(a) = l /\ Len(z) = 1
      BY <1>4, <2>1
    <3> QED BY <3>1, <3>2
  <2>3. e[l + 1] = 0
    BY <2>1, <2>2
  <2>4. \A i \in 1..(l + 1) : e[i] = b[i]
    <3> SUFFICES ASSUME NEW i \in 1..(l + 1) PROVE e[i] = b[i]
      OBVIOUS
    <3>1. i \in 1..l \/ i = l + 1
      BY <1>1
    <3> QED BY <1>6, <1>7, <2>2, <2>3, <3>1
  <2> QED BY <1>4, <2>2, <2>4, SeqEqual
<1>10. Total(e) = Total(a) + Total(<<0>>) /\ Total(<<0>>) = 0 /\ Total(a) \in Nat
  <2>1. Total(<<0>>) = 0
    BY TotalOfOne
  <2>2. Total(a) \in Nat
    BY <1>4, TotalIsNat
  <2> DEFINE z == <<0>>
  <2>3. z \in Seq(Nat)
    BY <1>8
  <2> HIDE DEF z
  <2>4. Total(a \o z) = Total(a) + Total(z)
    BY <1>4, <2>3, TotalOfConcat
  <2> QED BY <2>1, <2>2, <2>4 DEF z
<1>11. Total(b) = Total(a)
  <2> DEFINE T == Total(a)
  <2>1. Total(e) = T + 0 /\ T \in Nat
    BY <1>10
  <2> HIDE DEF e, T
  <2>2. Total(b) = T
    BY <1>9, <2>1
  <2> QED BY <2>2 DEF T
<1> QED BY <1>11 DEF Paid, a, b, d

(* A write accepted behind others is not yet due, and neither is a whole    *)
(* write.                                                                   *)
LEMMA PaidAccepted ==
  ASSUME NEW s, NEW q, NEW p, NEW f, NEW c, Line(s, q, p, f, c), q # <<>>, Mine(Head(q), s),
         NEW n, Paid(s, p, f, c, n)
  PROVE  Paid(s, Append(p, [size |-> Head(q).size, call |-> Head(q).call]), f, c, n)
<1> DEFINE w == Tail(q)
           k == Head(q).call
           v == Head(q).size
           job == [size |-> v, call |-> k]
           r == Append(p, job)
<1>1. Line(s, w, r, f, c)
  BY HeadAccepted
<1>2. v = c[k].size /\ k \in 1..Len(c) /\ Len(c) \in Nat
  BY QueueHeadTaken, LineTypes
<1>3. p \in Seq(Jobs) /\ Len(p) \in Nat
  BY LineTypes DEF Line
<1>4. job \in Jobs /\ job.size = v /\ job.call = k
  <2>1. Head(q) \in CallCommands
    BY QueueHeadTaken
  <2> QED BY <2>1 DEF Jobs, CallCommands
<1> HIDE DEF w, k, v, job
<1>5. (p # <<>> => r[1] = p[1]) /\ (p = <<>> => r[1] = job)
  <2>1. Len(r) = Len(p) + 1 /\ r[Len(p) + 1] = job /\ \A i \in 1..Len(p) : r[i] = p[i]
    BY <1>3, <1>4, AppendProperties
  <2>2. (p # <<>> => 1 \in 1..Len(p)) /\ (p = <<>> => Len(p) = 0)
    BY <1>3, EmptySeq
  <2> QED BY <2>1, <2>2
<1> HIDE DEF r
<1>6. ASSUME NEW i \in 1..Len(c) PROVE Due(s, r, f, c, i) <= Due(s, p, f, c, i)
  <2>1. Due(s, p, f, c, i) \in Nat /\ c[i].size \in Nat
    BY DueTypes, LineTypes
  <2>2. CASE c[i].answer = "ok" \/ <<s, i, "ok">> \in f
    <3>1. Due(s, r, f, c, i) = Due(s, p, f, c, i)
      BY <2>2 DEF Due
    <3> QED BY <2>1, <3>1
  <2>3. CASE ~(c[i].answer = "ok" \/ <<s, i, "ok">> \in f) /\ p # <<>> /\ p[1].call = i
    <3>1. Due(s, p, f, c, i) = c[i].size - p[1].size
      BY <2>3 DEF Due
    <3>2. Due(s, r, f, c, i) = IF r # <<>> THEN c[i].size - p[1].size ELSE 0
      BY <1>5, <2>3 DEF Due
    <3> QED BY <2>1, <3>1, <3>2
  <2>4. CASE ~(c[i].answer = "ok" \/ <<s, i, "ok">> \in f) /\ ~(p # <<>> /\ p[1].call = i)
    <3>1. Due(s, r, f, c, i) = IF r # <<>> /\ r[1].call = i THEN c[i].size - r[1].size ELSE 0
      BY <2>4 DEF Due
    <3>2. p # <<>> => r[1].call # i
      BY <1>5, <2>4
    <3>3. p = <<>> /\ r[1].call = i => r[1].size = c[i].size
      BY <1>2, <1>4, <1>5
    <3>4. Due(s, r, f, c, i) = 0
      BY <2>1, <3>1, <3>2, <3>3
    <3> QED BY <2>1, <3>4
  <2> QED BY <2>2, <2>3, <2>4
<1>7. Paid(s, r, f, c, n)
  BY <1>1, <1>6, PaidStays
<1> QED BY <1>7 DEF r, job, k, v

LEMMA PaidReset ==
  ASSUME NEW s, NEW q, NEW f, NEW c, Line(s, q, <<>>, f, c), q # <<>>, Mine(Head(q), s),
         Head(q).type = "Reset", NEW n, Paid(s, <<>>, f, c, n)
  PROVE  Paid(s, <<>>, f \cup {<<s, Head(q).call, "ok">>}, c, n)
<1> DEFINE w == Tail(q)
           k == Head(q).call
           g == f \cup {<<s, k, "ok">>}
           p == <<>>
<1>1. Line(s, w, p, g, c)
  BY ResetTaken
<1>2. c[k].size = 0
  BY QueueHeadTaken
<1>3. \A i : <<s, i, "ok">> \in g <=> <<s, i, "ok">> \in f \/ i = k
  OBVIOUS
<1> HIDE DEF w, k, g
<1>4. ASSUME NEW i \in 1..Len(c) PROVE Due(s, p, g, c, i) <= Due(s, p, f, c, i)
  <2>1. Due(s, p, f, c, i) \in Nat
    BY DueTypes
  <2>2. CASE i = k
    <3>1. Due(s, p, g, c, i) = 0
      BY <1>2, <1>3, <2>2 DEF Due
    <3> QED BY <2>1, <3>1
  <2>3. CASE i # k
    <3>1. Due(s, p, g, c, i) = Due(s, p, f, c, i)
      BY <1>3, <2>3 DEF Due
    <3> QED BY <2>1, <3>1
  <2> QED BY <2>2, <2>3
<1>5. Line(s, q, p, f, c) /\ Paid(s, p, f, c, n)
  OBVIOUS
<1> HIDE DEF p
<1>6. Paid(s, p, g, c, n)
  BY <1>1, <1>4, <1>5, PaidStays
<1> QED BY <1>6 DEF p, g, k

LEMMA PaidPart ==
  ASSUME NEW s, NEW q, NEW p, NEW f, NEW c, Line(s, q, p, f, c), p # <<>>,
         NEW r, Line(s, q, r, f, c), r # <<>>, r[1].call = p[1].call,
         NEW m \in Nat, r[1].size + m = p[1].size, NEW n, Paid(s, p, f, c, n)
  PROVE  Paid(s, r, f, c, n + m)
<1> DEFINE x == p[1].call
<1>1. PendingIn(p, c) /\ p \in Seq(Jobs) /\ Len(p) \in Nat /\ r \in Seq(Jobs) /\ Len(r) \in Nat
  BY LineTypes DEF Line
<1>2. 1 \in 1..Len(p) /\ 1 \in 1..Len(r)
  BY <1>1, EmptySeq
<1>3. x \in 1..Len(c) /\ p[1].size \in Nat /\ r[1].size \in Nat
  <2>1. p[1].size \in Nat
    BY <1>2, LineTypes
  <2>2. r[1].size \in Nat
    BY <1>2, LineTypes
  <2> QED BY <1>1, <1>2, <2>1, <2>2 DEF PendingIn
<1>4. \A k \in 1..Len(c) : c[k].size \in Nat
  BY LineTypes
<1>5. ASSUME NEW k \in 1..Len(c)
      PROVE  IF k = x THEN Due(s, r, f, c, k) <= Due(s, p, f, c, k) + m
                      ELSE Due(s, r, f, c, k) <= Due(s, p, f, c, k)
  <2>1. Due(s, p, f, c, k) \in Nat /\ c[k].size \in Nat
    BY <1>4, DueTypes
  <2>2. CASE c[k].answer = "ok" \/ <<s, k, "ok">> \in f
    <3>1. Due(s, r, f, c, k) = Due(s, p, f, c, k)
      BY <2>2 DEF Due
    <3> QED BY <2>1, <3>1
  <2>3. CASE ~(c[k].answer = "ok" \/ <<s, k, "ok">> \in f) /\ k = x
    <3>1. Due(s, p, f, c, k) = c[k].size - p[1].size /\ Due(s, r, f, c, k) = c[k].size - r[1].size
      BY <2>3 DEF Due
    <3> DEFINE a == p[1].size
               b == r[1].size
               z == c[k].size
    <3>2. a \in Nat /\ b \in Nat /\ z \in Nat /\ b + m = a
      BY <1>3, <2>1
    <3> HIDE DEF a, b, z
    <3>3. z - b <= (z - a) + m
      BY <3>2
    <3> QED BY <2>3, <3>1, <3>3 DEF a, b, z
  <2>4. CASE ~(c[k].answer = "ok" \/ <<s, k, "ok">> \in f) /\ k # x
    <3>1. Due(s, p, f, c, k) = 0 /\ Due(s, r, f, c, k) = 0
      BY <2>4 DEF Due
    <3> QED BY <2>4, <3>1
  <2> QED BY <2>2, <2>3, <2>4
<1> HIDE DEF x
<1> QED BY <1>3, <1>5, PaidGrows

LEMMA PaidHeadTaken ==
  ASSUME NEW s, NEW q, NEW p, NEW f, NEW c, Line(s, q, p, f, c), p # <<>>, NEW a \in {"ok", "failed"},
         NEW n, Paid(s, p, f, c, n)
  PROVE  /\ Head(p).size \in Nat
         /\ Paid(s, Tail(p), f \cup {<<s, Head(p).call, a>>}, c,
                 IF a = "ok" THEN n + Head(p).size ELSE n)
<1> DEFINE r == Tail(p)
           x == Head(p).call
           v == Head(p).size
           g == f \cup {<<s, x, a>>}
           m == IF a = "ok" THEN v ELSE 0
<1>1. Line(s, q, r, g, c)
  BY PendingHeadTaken
<1>2. PendingIn(p, c) /\ p \in Seq(Jobs) /\ Len(p) \in Nat
  BY LineTypes DEF Line
<1>3. /\ r \in Seq(Jobs) /\ Len(r) = Len(p) - 1 /\ Head(p) = p[1] /\ 1 \in 1..Len(p)
      /\ \A i \in 1..Len(r) : r[i] = p[i + 1] /\ i + 1 \in 1..Len(p)
  <2>1. /\ r \in Seq(Jobs) /\ Len(r) = Len(p) - 1 /\ Head(p) = p[1]
        /\ \A i \in 1..Len(r) : r[i] = p[i + 1] /\ i + 1 \in 1..Len(p)
    BY <1>2, TailElements
  <2>2. Len(p) # 0
    BY <1>2, EmptySeq
  <2> QED BY <1>2, <2>1, <2>2
<1>4. /\ x \in 1..Len(c) /\ x = p[1].call /\ v = p[1].size /\ v \in Nat
      /\ c[x].answer = "none" /\ v <= c[x].size
  <2>1. p[1].size \in Nat
    BY <1>3, LineTypes
  <2> QED BY <1>2, <1>3, <2>1 DEF PendingIn
<1>5. <<s, x, "ok">> \notin f
  <2>1. x \in CallsOf(p)
    BY <1>4, DueOfPending
  <2> QED BY <1>4, <2>1, DueOfPending
<1>6. \A i : <<s, i, "ok">> \in g <=> <<s, i, "ok">> \in f \/ (i = x /\ a = "ok")
  OBVIOUS
<1>7. r # <<>> => r[1].call \in 1..Len(c) /\ r[1].call # x /\ r[1].size = c[r[1].call].size
                  /\ r[1].size \in Nat
  <2> SUFFICES ASSUME r # <<>>
               PROVE  r[1].call \in 1..Len(c) /\ r[1].call # x /\ r[1].size = c[r[1].call].size
                      /\ r[1].size \in Nat
    OBVIOUS
  <2>1. 1 \in 1..Len(r)
    BY <1>3, EmptySeq, LenProperties
  <2>2. r[1] = p[2] /\ 2 \in 1..Len(p) /\ 2 # 1 /\ 1 < 2
    BY <1>3, <2>1
  <2>3. p[2].size \in Nat /\ p[2].call \in Nat /\ p[1].call \in Nat
    BY <1>3, <2>2, LineTypes
  <2>4. p[1].call < p[2].call
    BY <1>2, <1>3, <2>2 DEF PendingIn
  <2>5. p[2].call \in 1..Len(c) /\ p[2].size = c[p[2].call].size
    BY <1>2, <2>2 DEF PendingIn
  <2> QED BY <1>4, <2>2, <2>3, <2>4, <2>5
<1>8. m \in Nat /\ \A k \in 1..Len(c) : c[k].size \in Nat
  BY <1>4, LineTypes
<1> HIDE DEF r, x, v, g
<1>9. ASSUME NEW k \in 1..Len(c)
      PROVE  IF k = x THEN Due(s, r, g, c, k) <= Due(s, p, f, c, k) + m
                      ELSE Due(s, r, g, c, k) <= Due(s, p, f, c, k)
  <2>1. Due(s, p, f, c, k) \in Nat /\ c[k].size \in Nat
    BY <1>8, DueTypes
  <2>2. CASE k = x
    <3>1. Due(s, p, f, c, k) = c[k].size - v
      <4>1. p # <<>> /\ p[1].call = k /\ c[k].answer # "ok" /\ <<s, k, "ok">> \notin f
        BY <1>4, <1>5, <2>2
      <4> QED BY <1>4, <4>1 DEF Due
    <3>2. ~(r # <<>> /\ r[1].call = k)
      BY <1>7, <2>2
    <3>3. Due(s, r, g, c, k) = IF a = "ok" THEN c[k].size ELSE 0
      <4>1. c[k].answer # "ok" /\ (<<s, k, "ok">> \in g <=> a = "ok")
        BY <1>4, <1>5, <1>6, <2>2
      <4> QED BY <3>2, <4>1 DEF Due
    <3>4. v \in Nat /\ v <= c[k].size
      BY <1>4, <2>2
    <3> QED BY <2>1, <2>2, <3>1, <3>3, <3>4
  <2>3. CASE k # x
    <3>1. <<s, k, "ok">> \in g <=> <<s, k, "ok">> \in f
      BY <1>6, <2>3
    <3>2. CASE c[k].answer = "ok" \/ <<s, k, "ok">> \in f
      <4>1. Due(s, r, g, c, k) = c[k].size /\ Due(s, p, f, c, k) = c[k].size
        BY <3>1, <3>2 DEF Due
      <4> QED BY <2>1, <2>3, <4>1
    <3>3. CASE ~(c[k].answer = "ok" \/ <<s, k, "ok">> \in f)
      <4>1. Due(s, r, g, c, k) = IF r # <<>> /\ r[1].call = k THEN c[k].size - r[1].size ELSE 0
        BY <3>1, <3>3 DEF Due
      <4>2. Due(s, r, g, c, k) = 0
        BY <1>7, <2>1, <4>1
      <4> QED BY <2>1, <2>3, <4>2
    <3> QED BY <3>2, <3>3
  <2> QED BY <2>2, <2>3
<1>10. Paid(s, r, g, c, n + m)
  <2> HIDE DEF m
  <2> QED BY <1>1, <1>4, <1>8, <1>9, PaidGrows
<1>11. n + m = IF a = "ok" THEN n + v ELSE n
  BY <1>4 DEF Paid
<1> QED BY <1>4, <1>10, <1>11 DEF r, x, v, g

LEMMA PaidAnswered ==
  ASSUME NEW s, NEW q, NEW p, NEW f, NEW c, Line(s, q, p, f, c),
         NEW q2, NEW d, Line(s, q2, p, {}, d), Len(d) = Len(c),
         \A k \in 1..Len(c) : /\ d[k].size = c[k].size
                              /\ d[k].answer = "ok" => c[k].answer = "ok" \/ <<s, k, "ok">> \in f,
         NEW n, Paid(s, p, f, c, n)
  PROVE  Paid(s, p, {}, d, n)
<1> DEFINE g == {}
<1>1. ASSUME NEW k \in 1..Len(c) PROVE Due(s, p, g, d, k) <= Due(s, p, f, c, k)
  <2>1. Due(s, p, f, c, k) \in Nat /\ d[k].size = c[k].size
    BY DueTypes
  <2>2. CASE d[k].answer = "ok"
    <3>1. Due(s, p, g, d, k) = c[k].size /\ Due(s, p, f, c, k) = c[k].size
      BY <2>1, <2>2 DEF Due
    <3> QED BY <2>1, <3>1
  <2>3. CASE d[k].answer # "ok" /\ p # <<>> /\ p[1].call = k
    <3>1. c[k].answer = "none" /\ <<s, k, "ok">> \notin f
      BY <2>3, DueOfPending
    <3>2. Due(s, p, g, d, k) = c[k].size - p[1].size /\ Due(s, p, f, c, k) = c[k].size - p[1].size
      BY <2>1, <2>3, <3>1 DEF Due
    <3> QED BY <2>1, <3>2
  <2>4. CASE d[k].answer # "ok" /\ ~(p # <<>> /\ p[1].call = k)
    <3>1. Due(s, p, g, d, k) = 0
      BY <2>4 DEF Due
    <3> QED BY <2>1, <3>1
  <2> QED BY <2>2, <2>3, <2>4
<1>2. Line(s, q2, p, g, d)
  OBVIOUS
<1> HIDE DEF g
<1>3. Paid(s, p, g, d, n)
  BY <1>1, <1>2, PaidStays
<1> QED BY <1>3 DEF g

LEMMA PaidElsewhere ==
  ASSUME NEW s, NEW p, NEW f, NEW c, NEW n, Paid(s, p, f, c, n), NEW f2,
         \A k, a : <<s, k, a>> \in f2 <=> <<s, k, a>> \in f
  PROVE  Paid(s, p, f2, c, n)
<1>1. \A k : Due(s, p, f2, c, k) = Due(s, p, f, c, k)
  BY DEF Due
<1>2. Dues(s, p, f2, c) = Dues(s, p, f, c)
  BY <1>1 DEF Dues
<1> QED BY <1>2 DEF Paid

-----------------------------------------------------------------------------
(* The inductive invariant.                                                *)
TurnTypes ==
  /\ turn \in {"pump", "flush", "select", "events", "ended"} /\ attempts \in 0..Len(opened)
  /\ todo \in Seq(SendStreams) /\ opened \in Seq(SendStreams) /\ draining \in BOOLEAN

DataTypes ==
  /\ pending \in [SendStreams -> Seq(Jobs)] /\ halted \subseteq SendStreams
  /\ queue \in Seq(SendCommands)
  /\ direction \in [SendStreams -> {"none", "open", "fin", "reset"}]
  /\ open \in [SendStreams -> {"none", "waiting", "given up", "ok", "failed"}]
  /\ handle \in [SendStreams -> {"none", "held", "gone"}] /\ finished \in [SendStreams -> BOOLEAN]

StateTypes == TurnTypes /\ DataTypes

CallTypes ==
  /\ calls \in [SendStreams -> Seq(CallRecords)] /\ waiting \in [SendStreams -> Nat]
  /\ \A s \in SendStreams : waiting[s] <= Len(calls[s])
  /\ \A x \in after_flush : \E s \in SendStreams : \E k \in 1..Len(calls[s]) :
       x = <<s, k, "ok">> \/ x = <<s, k, "failed">>

(* The peer's windows and limits are kept.                                  *)
RoomInv ==
  /\ window \in [session : Nat, stream : [SendStreams -> Nat]]
  /\ limit \in [{"uni", "bidi"} -> Nat] /\ sent \in [SendStreams -> Nat]
  /\ SessionSent <= window.session /\ \A s \in SendStreams : sent[s] <= window.stream[s]
  /\ \A k \in {"uni", "bidi"} : OpenCount(k) <= limit[k]

LinesInv ==
  \A s \in SendStreams : /\ Line(s, queue, pending[s], after_flush, calls[s])
                         /\ Paid(s, pending[s], after_flush, calls[s], sent[s])

(* A request is in one place at most, and in one while its caller waits.    *)
Asking(m, r) == m.type = "Open" /\ m.of = r
OpenLine(r, q, w, o) ==
  /\ o = "none" => /\ \A i \in 1..Len(q) : ~Asking(q[i], r)
                   /\ \A i \in 1..Len(w) : w[i] # r
  /\ o = "waiting" => \/ \E i \in 1..Len(q) : Asking(q[i], r)
                      \/ \E i \in 1..Len(w) : w[i] = r
  /\ \A i, j \in 1..Len(q) : Asking(q[i], r) /\ Asking(q[j], r) => i = j
  /\ \A i, j \in 1..Len(w) : w[i] = r /\ w[j] = r => i = j
  /\ \A i \in 1..Len(q) : \A j \in 1..Len(w) : ~(Asking(q[i], r) /\ w[j] = r)

OpensInv == \A r \in SendStreams : OpenLine(r, queue, opened, open[r])

(* Only streams that were opened are held, or dropped.                      *)
HeldInv ==
  /\ \A s \in SendStreams : handle[s] # "none" => direction[s] # "none"
  /\ \A i \in 1..Len(queue) : queue[i].type = "Drop" => direction[queue[i].of] # "none"

(* An ending session tries every open that waits.                           *)
DrainInv ==
  /\ turn # "pump" => attempts = 0
  /\ draining /\ turn = "pump" => attempts = Len(opened)
  /\ draining /\ turn \in {"flush", "select"} => opened = <<>>

(* A flush goes through every stream that has something to send, once.      *)
Blocked(s) == pending[s] # <<>> /\ CanSend(s) => First(s).size > 0 /\ Available(s) = 0
WorkInv ==
  /\ turn = "flush" => \A s \in SendStreams : Blocked(s) \/ \E i \in 1..Len(todo) : todo[i] = s
  /\ turn = "flush" => \A i \in 1..Len(todo) : pending[todo[i]] # <<>>
  /\ turn = "select" => \A s \in SendStreams : Blocked(s)
  /\ \A i, j \in 1..Len(todo) : todo[i] = todo[j] => i = j

SendInv ==
  /\ StateTypes /\ CallTypes /\ RoomInv /\ LinesInv
  /\ OpensInv /\ HeldInv /\ DrainInv /\ WorkInv

LEMMA QueueHeadTypes ==
  ASSUME StateTypes, queue # <<>>
  PROVE  /\ QueueHead \in SendCommands /\ Tail(queue) \in Seq(SendCommands)
         /\ QueueHead.of \in SendStreams
         /\ QueueHead.type \in Calling => QueueHead \in CallCommands
         /\ QueueHead.type = "Drop" => QueueHead \in DropCommands
<1>1. QueueHead \in SendCommands /\ Tail(queue) \in Seq(SendCommands)
  BY HeadTailProperties DEF StateTypes, DataTypes, QueueHead
<1> QED BY <1>1 DEF SendCommands, OpenCommands, CallCommands, DropCommands, Calling

LEMMA AnsweredTypes ==
  ASSUME NEW cs \in [SendStreams -> Seq(CallRecords)], NEW S, NEW a \in Answers
  PROVE  /\ Answered(cs, S, a) \in [SendStreams -> Seq(CallRecords)]
         /\ \A s \in SendStreams : Len(Answered(cs, S, a)[s]) = Len(cs[s])
<1> DEFINE d == Answered(cs, S, a)
<1>1. ASSUME NEW s \in SendStreams
      PROVE  d[s] \in Seq(CallRecords) /\ Len(d[s]) = Len(cs[s])
  <2> DEFINE K == {k \in DOMAIN cs[s] : <<s, k>> \in S}
             c == cs[s]
  <2>1. \A k \in DOMAIN cs[s] : <<s, k>> \in S <=> k \in K
    OBVIOUS
  <2>2. d[s] = Marked(cs[s], K, a)
    BY <2>1 DEF Answered, Marked
  <2> HIDE DEF K
  <2>3. c \in Seq(CallRecords)
    OBVIOUS
  <2> HIDE DEF c, d
  <2>4. Marked(c, K, a) \in Seq(CallRecords) /\ Len(Marked(c, K, a)) = Len(c)
    BY <2>3, MarkedTypes
  <2> QED BY <2>2, <2>4 DEF c
<1>2. d = [s \in SendStreams |-> d[s]]
  BY DEF Answered
<1> HIDE DEF d
<1>3. d \in [SendStreams -> Seq(CallRecords)]
  BY <1>1, <1>2
<1> QED BY <1>1, <1>3 DEF d

(* The steps, one by one.                                                   *)
CallStep(s) ==
  \E op \in Calling : \E n \in Nat : Call(s, op, n) /\ (op # "Write" => n = 0)

LEMMA SendCases ==
  ASSUME SendNext
  PROVE  \/ PumpRefused \/ PumpOpened \/ PumpBlocked \/ Pumped \/ Flushed
         \/ HandleOpen \/ HandleSend \/ HandleReset \/ HandleDrop
         \/ Draining \/ Grant \/ OtherEvent \/ Ends
         \/ \E s \in SendStreams :
              \/ FlushClosed(s) \/ FlushBlocked(s) \/ FlushPart(s) \/ FlushWhole(s) \/ FlushFin(s)
              \/ StopSending(s) \/ Open(s) \/ GiveUpOpen(s)
              \/ CallStep(s) \/ Return(s) \/ CancelWait(s) \/ DropStream(s)
<1>1. ASSUME NEW s \in SendStreams, Write(s) \/ Finish(s) \/ Reset(s) PROVE CallStep(s)
  <2>1. \A n \in Sizes : n \in Nat
    BY WtH2SendAssumption
  <2>2. {"Write", "Finish", "Reset"} \subseteq Calling /\ 0 \in Nat
    BY DEF Calling
  <2> QED BY <1>1, <2>1, <2>2 DEF Write, Finish, Reset, CallStep
<1> QED BY <1>1 DEF SendNext, Pump, Flush, Handle, SendEvent, Caller

-----------------------------------------------------------------------------
(* Types.                                                                  *)
LEMMA OpenedTypes ==
  ASSUME StateTypes
  PROVE  opened \in Seq(SendStreams) /\ Len(opened) \in Nat /\ attempts \in Nat /\ attempts <= Len(opened)
<1>1. opened \in Seq(SendStreams)
  BY DEF StateTypes, TurnTypes
<1>2. Len(opened) \in Nat
  BY <1>1, LenProperties
<1>3. attempts \in 0..Len(opened)
  BY DEF StateTypes, TurnTypes
<1> QED BY <1>1, <1>2, <1>3

LEMMA WaitingTypes ==
  ASSUME StateTypes, Pumping
  PROVE  /\ opened # <<>> /\ Waiting = opened[1] /\ Waiting \in SendStreams
         /\ Tail(opened) \in Seq(SendStreams) /\ Len(Tail(opened)) = Len(opened) - 1
         /\ Len(opened) \in Nat \ {0} /\ 1 \in 1..Len(opened)
         /\ \A i \in 1..Len(Tail(opened)) : Tail(opened)[i] = opened[i + 1] /\ i + 1 \in 1..Len(opened)
<1>1. opened \in Seq(SendStreams) /\ Len(opened) \in Nat /\ attempts \in Nat /\ attempts <= Len(opened)
  BY OpenedTypes
<1>2. opened # <<>>
  <2>1. Len(opened) # 0
    BY <1>1 DEF Pumping
  <2> QED BY <1>1, <2>1, EmptySeq
<1>3. /\ Tail(opened) \in Seq(SendStreams) /\ Len(Tail(opened)) = Len(opened) - 1
      /\ Head(opened) = opened[1] /\ opened[1] \in SendStreams
      /\ \A i \in 1..Len(Tail(opened)) : Tail(opened)[i] = opened[i + 1] /\ i + 1 \in 1..Len(opened)
  BY <1>1, <1>2, TailElements
<1>4. Len(opened) \in Nat \ {0} /\ 1 \in 1..Len(opened)
  BY <1>1, <1>2, EmptySeq
<1> QED BY <1>2, <1>3, <1>4 DEF Waiting

LEMMA FlushingTypes ==
  ASSUME StateTypes, NEW s, Flushing(s)
  PROVE  /\ s \in SendStreams /\ s = todo[1] /\ Tail(todo) \in Seq(SendStreams)
         /\ Len(todo) \in Nat \ {0} /\ 1 \in 1..Len(todo) /\ Len(Tail(todo)) = Len(todo) - 1
         /\ \A i \in 1..Len(Tail(todo)) : Tail(todo)[i] = todo[i + 1] /\ i + 1 \in 1..Len(todo)
<1>1. todo \in Seq(SendStreams) /\ todo # <<>> /\ s = Head(todo)
  BY DEF StateTypes, TurnTypes, Flushing
<1>2. /\ Tail(todo) \in Seq(SendStreams) /\ Len(Tail(todo)) = Len(todo) - 1 /\ Len(todo) \in Nat \ {0}
      /\ Head(todo) = todo[1] /\ todo[1] \in SendStreams
      /\ \A i \in 1..Len(Tail(todo)) : Tail(todo)[i] = todo[i + 1] /\ i + 1 \in 1..Len(todo)
  BY <1>1, TailElements
<1>3. 1 \in 1..Len(todo)
  BY <1>2
<1> QED BY <1>1, <1>2, <1>3

(* A turn of the driver: what becomes of the open calls that wait.          *)
TurnKept ==
  /\ turn' \in {"pump", "flush", "select", "events", "ended"} /\ opened' = opened
  /\ attempts' = attempts \/ attempts' = Len(opened) \/ attempts' = 0
  /\ todo' \in Seq(SendStreams) /\ draining' \in BOOLEAN

LEMMA TurnKeptTypes == StateTypes /\ TurnKept => TurnTypes'
<1> SUFFICES ASSUME StateTypes, TurnKept PROVE TurnTypes'
  OBVIOUS
<1>1. opened \in Seq(SendStreams) /\ Len(opened) \in Nat /\ attempts \in Nat /\ attempts <= Len(opened)
  BY OpenedTypes
<1>2. opened' = opened /\ attempts' \in 0..Len(opened)
  BY <1>1 DEF TurnKept
<1> QED BY <1>1, <1>2 DEF TurnKept, TurnTypes

LEMMA PumpTypes ==
  ASSUME StateTypes, PumpRefused \/ PumpOpened \/ PumpBlocked \/ Pumped
  PROVE  StateTypes'
<1>1. CASE PumpRefused \/ PumpOpened \/ PumpBlocked
  <2>1. Pumping
    BY <1>1 DEF PumpRefused, PumpOpened, PumpBlocked
  <2>2. Waiting \in SendStreams /\ Tail(opened) \in Seq(SendStreams) /\ Len(Tail(opened)) = Len(opened) - 1
    BY <2>1, WaitingTypes
  <2>3. /\ Len(opened) \in Nat /\ attempts \in Nat /\ attempts <= Len(opened) /\ attempts > 0
    BY <2>1, OpenedTypes DEF Pumping
  <2>4. TurnTypes'
    <3>1. CASE PumpRefused \/ PumpOpened
      <4>1. opened' = Tail(opened) /\ attempts' = attempts - 1 /\ UNCHANGED <<turn, todo, draining>>
        BY <3>1 DEF PumpRefused, PumpOpened
      <4>2. attempts' \in 0..Len(opened') /\ opened' \in Seq(SendStreams)
        BY <2>2, <2>3, <4>1
      <4> QED BY <4>1, <4>2 DEF StateTypes, TurnTypes
    <3>2. CASE PumpBlocked
      <4>1. opened' = Append(Tail(opened), Waiting) /\ attempts' = 0 /\ UNCHANGED <<turn, todo, draining>>
        BY <3>2 DEF PumpBlocked
      <4>2. opened' \in Seq(SendStreams)
        BY <2>2, <4>1, AppendProperties
      <4>3. Len(opened') \in Nat
        BY <4>2, LenProperties
      <4> QED BY <4>1, <4>2, <4>3 DEF StateTypes, TurnTypes
    <3> QED BY <1>1, <3>1, <3>2
  <2>5. DataTypes'
    <3>1. CASE PumpRefused
      BY <2>2, <3>1 DEF PumpRefused, StateTypes, DataTypes
    <3>2. CASE PumpOpened
      BY <2>2, <3>2 DEF PumpOpened, StateTypes, DataTypes
    <3>3. CASE PumpBlocked
      BY <3>3 DEF PumpBlocked, StateTypes, DataTypes, appVars
    <3> QED BY <1>1, <3>1, <3>2, <3>3
  <2> QED BY <2>4, <2>5 DEF StateTypes
<1>2. CASE Pumped
  <2>1. todo' \in Seq(SendStreams)
    <3> DEFINE S == {s \in SendStreams : pending[s] # <<>>}
    <3>1. todo' \in [1..Cardinality(S) -> S] /\ S \subseteq SendStreams
      BY <1>2 DEF Pumped, SetToSeqs
    <3>2. Cardinality(S) \in Nat
      <4>1. IsFiniteSet(S)
        BY <3>1, WtH2SendAssumption, FS_Subset DEF SendStreams
      <4> QED BY <4>1, FS_CardinalityType
    <3> HIDE DEF S
    <3>3. todo' \in [1..Cardinality(S) -> SendStreams]
      BY <3>1
    <3> QED BY <3>2, <3>3, FunctionIsSequence
  <2>2. TurnTypes'
    BY <1>2, <2>1, TurnKeptTypes DEF Pumped, TurnKept, StateTypes, TurnTypes
  <2>3. DataTypes'
    BY <1>2 DEF Pumped, appVars, StateTypes, DataTypes
  <2> QED BY <2>2, <2>3 DEF StateTypes
<1> QED BY <1>1, <1>2

(* The first write is shortened.                                            *)
LEMMA PartTypes ==
  ASSUME StateTypes, NEW s \in SendStreams, pending[s] # <<>>, Available(s) \in Nat, FlushPart(s)
  PROVE  /\ pending'[s] \in Seq(Jobs) /\ Len(pending'[s]) = Len(pending[s])
         /\ pending' = [pending EXCEPT ![s] = pending'[s]]
         /\ 1 \in 1..Len(pending[s]) /\ First(s) = pending[s][1]
         /\ pending[s][1].size \in Nat /\ pending'[s][1].size = pending[s][1].size - Available(s)
         /\ \A i \in 1..Len(pending[s]) :
              /\ pending'[s][i].call = pending[s][i].call
              /\ i # 1 => pending'[s][i] = pending[s][i]
<1> DEFINE p == pending[s]
           A == Available(s)
           j == [p[1] EXCEPT !.size = @ - A]
           r == [p EXCEPT ![1] = j]
<1>1. p \in Seq(Jobs) /\ p # <<>> /\ Len(p) \in Nat
  <2>1. p \in Seq(Jobs)
    BY DEF StateTypes, DataTypes
  <2> QED BY <2>1, LenProperties
<1>2. 1 \in 1..Len(p) /\ Head(p) = p[1] /\ p[1] \in Jobs
  <2>1. Len(p) # 0
    BY <1>1, EmptySeq
  <2>2. 1 \in 1..Len(p)
    BY <1>1, <2>1
  <2> QED BY <1>1, <2>2, ElementOfSeq, HeadTailProperties
<1>3. pending' = [pending EXCEPT ![s] = r]
  BY DEF FlushPart
<1>4. A < p[1].size /\ A \in Nat /\ First(s) = p[1]
  BY <1>2 DEF FlushPart, First
<1>5. /\ j \in Jobs /\ j.call = p[1].call /\ j.size = p[1].size - A /\ p[1].size \in Nat
  <2> DEFINE h == p[1]
             v == h.size - A
  <2>1. h \in Jobs /\ A \in Nat /\ A < h.size
    BY <1>2, <1>4
  <2>2. j = [h EXCEPT !.size = v]
    OBVIOUS
  <2> HIDE DEF h, A, j
  <2>3. v \in Nat /\ h.size \in Nat
    BY <2>1 DEF Jobs
  <2> HIDE DEF v
  <2>4. [h EXCEPT !.size = v] \in Jobs /\ [h EXCEPT !.size = v].call = h.call
        /\ [h EXCEPT !.size = v].size = v
    BY <2>1, <2>3 DEF Jobs
  <2> QED BY <2>2, <2>3, <2>4 DEF h, v
<1> HIDE DEF A, j
<1>6. pending'[s] = r /\ pending' = [pending EXCEPT ![s] = pending'[s]]
  BY <1>3 DEF StateTypes, DataTypes
<1>7. /\ r \in Seq(Jobs) /\ Len(r) = Len(p) /\ \A i \in 1..Len(p) : r[i] = IF i = 1 THEN j ELSE p[i]
  <2> HIDE DEF p
  <2> QED BY <1>1, <1>2, <1>5, ExceptSeq
<1> QED BY <1>2, <1>4, <1>5, <1>6, <1>7 DEF A

LEMMA FlushTypes ==
  ASSUME StateTypes, NEW s \in SendStreams, pending[s] # <<>>, Available(s) \in Nat,
         FlushClosed(s) \/ FlushBlocked(s) \/ FlushPart(s) \/ FlushWhole(s) \/ FlushFin(s)
  PROVE  StateTypes'
<1> DEFINE p == pending[s]
<1>1. TurnTypes'
  <2>1. Tail(todo) \in Seq(SendStreams) /\ todo \in Seq(SendStreams)
    BY FlushingTypes DEF FlushClosed, FlushBlocked, FlushPart, FlushWhole, FlushFin, StateTypes, TurnTypes
  <2>2. TurnKept
    BY <2>1 DEF FlushClosed, FlushBlocked, FlushPart, FlushWhole, FlushFin, FlushUnchanged, TurnKept,
                StateTypes, TurnTypes
  <2> QED BY <2>2, TurnKeptTypes
<1>2. p \in Seq(Jobs) /\ p # <<>> /\ Tail(p) \in Seq(Jobs) /\ <<>> \in Seq(Jobs)
  <2>1. p \in Seq(Jobs) /\ p # <<>>
    BY DEF StateTypes, DataTypes
  <2>2. <<>> \in Seq(Jobs)
    OBVIOUS
  <2> HIDE DEF p
  <2>3. Tail(p) \in Seq(Jobs)
    BY <2>1, HeadTailProperties
  <2> QED BY <2>1, <2>2, <2>3
<1>3. pending' \in [SendStreams -> Seq(Jobs)]
  <2>1. CASE FlushClosed(s) \/ FlushBlocked(s) \/ FlushWhole(s)
    <3>1. \/ pending' = pending
          \/ \E v \in {<<>>, Tail(p)} : pending' = [pending EXCEPT ![s] = v]
      BY <2>1 DEF FlushClosed, FailPending, FlushBlocked, FlushWhole
    <3>2. pending \in [SendStreams -> Seq(Jobs)]
      BY DEF StateTypes, DataTypes
    <3> HIDE DEF p
    <3>3. \A v \in {<<>>, Tail(p)} : v \in Seq(Jobs)
      BY <1>2
    <3> QED BY <3>1, <3>2, <3>3
  <2>2. CASE FlushFin(s)
    <3> DEFINE rest == Tail(p)
    <3>1. rest # <<>> => Tail(rest) \in Seq(Jobs)
      BY <1>2, HeadTailProperties
    <3>2. \/ pending' = [pending EXCEPT ![s] = rest]
          \/ rest # <<>> /\ pending' = [pending EXCEPT ![s] = Tail(rest)]
      BY <2>2 DEF FlushFin
    <3> HIDE DEF rest
    <3> QED BY <1>2, <3>1, <3>2 DEF rest, StateTypes, DataTypes
  <2>3. CASE FlushPart(s)
    <3>1. pending'[s] \in Seq(Jobs) /\ pending' = [pending EXCEPT ![s] = pending'[s]]
      BY PartTypes, <2>3
    <3> QED BY <3>1 DEF StateTypes, DataTypes
  <2> QED BY <2>1, <2>2, <2>3
<1>4. direction' \in [SendStreams -> {"none", "open", "fin", "reset"}]
  BY DEF FlushClosed, FlushBlocked, FlushPart, FlushWhole, FlushFin, FlushUnchanged, StateTypes, DataTypes
<1>5. DataTypes'
  BY <1>3, <1>4 DEF FlushClosed, FlushBlocked, FlushPart, FlushWhole, FlushFin, FlushUnchanged,
                    StateTypes, DataTypes
<1> QED BY <1>1, <1>5 DEF StateTypes

LEMMA HandleTypes ==
  ASSUME StateTypes, HandleOpen \/ HandleSend \/ HandleReset \/ HandleDrop
  PROVE  StateTypes'
<1>1. queue # <<>> /\ queue' = Tail(queue)
  BY DEF HandleOpen, HandleSend, HandleReset, HandleDrop, Take
<1>2. queue' \in Seq(SendCommands) /\ QueueHead.of \in SendStreams
  BY <1>1, QueueHeadTypes
<1>3. TurnTypes'
  <2>1. opened' \in Seq(SendStreams) /\ draining' \in BOOLEAN
    <3>1. opened \in Seq(SendStreams) /\ Append(opened, QueueHead.of) \in Seq(SendStreams)
      BY <1>2, OpenedTypes, AppendProperties
    <3> QED BY <3>1 DEF HandleOpen, HandleSend, HandleReset, HandleDrop, StateTypes, TurnTypes
  <2>2. Len(opened') \in Nat
    BY <2>1, LenProperties
  <2>3. <<>> \in Seq(SendStreams) /\ NextTurn
    BY DEF HandleOpen, HandleSend, HandleReset, HandleDrop
  <2>4. attempts' \in 0..Len(opened') /\ todo' \in Seq(SendStreams) /\ turn' = "pump"
    BY <2>2, <2>3 DEF NextTurn
  <2> QED BY <2>1, <2>4 DEF TurnTypes
<1>4. pending' \in [SendStreams -> Seq(Jobs)]
  <2>1. CASE HandleOpen
    BY <2>1 DEF HandleOpen, StateTypes, DataTypes
  <2>2. CASE HandleSend
    <3> DEFINE s == QueueHead.of
               p == pending[s]
               job == [size |-> QueueHead.size, call |-> QueueHead.call]
    <3>1. job \in Jobs
      <4>1. QueueHead \in CallCommands
        BY <1>1, <2>2, QueueHeadTypes DEF HandleSend, Take, QueueHead, Calling
      <4> QED BY <4>1 DEF CallCommands, Jobs
    <3>2. p \in Seq(Jobs)
      BY <1>2 DEF StateTypes, DataTypes
    <3>3. pending' = pending \/ pending' = [pending EXCEPT ![s] = Append(p, job)]
      BY <2>2 DEF HandleSend
    <3> HIDE DEF p, job
    <3>4. Append(p, job) \in Seq(Jobs)
      BY <3>1, <3>2, AppendProperties
    <3> QED BY <3>3, <3>4 DEF StateTypes, DataTypes
  <2>3. CASE HandleReset \/ HandleDrop
    <3>1. <<>> \in Seq(Jobs)
      OBVIOUS
    <3> QED BY <2>3, <3>1 DEF HandleReset, HandleDrop, FailPending, StateTypes, DataTypes
  <2> QED BY <2>1, <2>2, <2>3
<1>5. direction' \in [SendStreams -> {"none", "open", "fin", "reset"}]
  BY <1>2 DEF HandleOpen, HandleSend, HandleReset, HandleDrop, StateTypes, DataTypes
<1>6. UNCHANGED <<halted, open, handle, finished>>
  BY DEF HandleOpen, HandleSend, HandleReset, HandleDrop, appVars
<1>7. DataTypes'
  BY <1>2, <1>4, <1>5, <1>6 DEF StateTypes, DataTypes
<1> QED BY <1>3, <1>7 DEF StateTypes

LEMMA EventTypes ==
  ASSUME StateTypes, DrainInv,
         \/ Draining \/ Grant \/ OtherEvent \/ Ends \/ Flushed
         \/ \E s \in SendStreams : StopSending(s)
  PROVE  StateTypes'
<1>1. CASE ~Ends
  <2>1. TurnKept
    <3>1. CASE Flushed
      BY <3>1 DEF Flushed, TurnKept, StateTypes, TurnTypes
    <3>2. CASE Draining \/ Grant \/ OtherEvent \/ \E s \in SendStreams : StopSending(s)
      <4>1. NextEvent /\ (draining' = draining \/ draining' = TRUE)
        BY <3>2 DEF Draining, Grant, OtherEvent, StopSending, NextEvent
      <4> QED BY <4>1 DEF NextEvent, LastEvent, InTurn, TurnKept, StateTypes, TurnTypes
    <3> QED BY <1>1, <3>1, <3>2
  <2>2. <<>> \in Seq(Jobs)
    OBVIOUS
  <2>3. pending' \in [SendStreams -> Seq(Jobs)] /\ halted' \subseteq SendStreams
    BY ZenonT(30), <1>1, <2>2 DEF Draining, Grant, OtherEvent, Flushed, StopSending, FailPending, StateTypes, DataTypes
  <2>4. UNCHANGED <<queue, direction, open, handle, finished>>
    BY <1>1 DEF Draining, Grant, OtherEvent, Flushed, StopSending, appVars
  <2> QED BY <2>1, <2>3, <2>4, TurnKeptTypes DEF StateTypes, DataTypes
<1>2. CASE Ends
  <2>1. attempts = 0 /\ attempts' = attempts /\ opened' = <<>> /\ turn' = "ended"
        /\ todo' = todo /\ draining' = draining
    BY <1>2 DEF Ends, DrainInv
  <2>2. <<>> \in Seq(Jobs) /\ <<>> \in Seq(SendCommands) /\ <<>> \in Seq(SendStreams) /\ Len(<<>>) = 0
    OBVIOUS
  <2>3. TurnTypes'
    <3>1. opened' \in Seq(SendStreams) /\ attempts' \in 0..Len(opened')
      BY <2>1, <2>2
    <3> QED BY <2>1, <3>1 DEF StateTypes, TurnTypes
  <2>4. DataTypes'
    BY <1>2, <2>2 DEF Ends, StateTypes, DataTypes
  <2> QED BY <2>3, <2>4 DEF StateTypes
<1> QED BY <1>1, <1>2

LEMMA CallerTypes ==
  ASSUME StateTypes, CallTypes, NEW s \in SendStreams,
         Open(s) \/ GiveUpOpen(s) \/ CallStep(s) \/ Return(s) \/ CancelWait(s) \/ DropStream(s)
  PROVE  StateTypes'
<1>1. \A m \in SendCommands : Append(queue, m) \in Seq(SendCommands)
  BY AppendProperties DEF StateTypes, DataTypes
<1>2. TurnTypes'
  <2>1. UNCHANGED <<turn, attempts, todo, opened, draining>>
    BY DEF Open, GiveUpOpen, CallStep, Call, Return, CancelWait, DropStream, driverVars
  <2> QED BY <2>1 DEF StateTypes, TurnTypes
<1>3. queue' \in Seq(SendCommands)
  <2>1. queue \in Seq(SendCommands)
    BY DEF StateTypes, DataTypes
  <2>2. CASE Open(s)
    <3>1. [type |-> "Open", of |-> s] \in SendCommands
      BY DEF SendCommands, OpenCommands
    <3> QED BY <1>1, <2>2, <3>1 DEF Open
  <2>3. CASE CallStep(s)
    <3>1. PICK op \in Calling, n \in Nat : Call(s, op, n)
      BY <2>3 DEF CallStep
    <3>2. Len(calls[s]) + 1 \in Nat
      <4>1. calls[s] \in Seq(CallRecords)
        BY DEF CallTypes
      <4>2. Len(calls[s]) \in Nat
        BY <4>1, LenProperties
      <4> DEFINE l == Len(calls[s])
      <4> HIDE DEF l
      <4>3. l \in Nat => l + 1 \in Nat
        OBVIOUS
      <4> QED BY <4>2, <4>3 DEF l
    <3>3. [type |-> op, of |-> s, call |-> Len(calls[s]) + 1, size |-> n] \in SendCommands
      BY <3>2 DEF SendCommands, CallCommands
    <3> QED BY <1>1, <3>1, <3>3 DEF Call
  <2>4. CASE DropStream(s)
    <3>1. finished[s] \in BOOLEAN
      BY DEF StateTypes, DataTypes
    <3>2. [type |-> "Drop", of |-> s, finished |-> finished[s]] \in SendCommands
      BY <3>1 DEF SendCommands, DropCommands
    <3> QED BY <1>1, <2>1, <2>4, <3>2 DEF DropStream
  <2>5. CASE GiveUpOpen(s) \/ Return(s) \/ CancelWait(s)
    BY <2>1, <2>5 DEF GiveUpOpen, Return, CancelWait
  <2> QED BY <2>2, <2>3, <2>4, <2>5
<1>4. finished' \in [SendStreams -> BOOLEAN]
  <2>1. CASE Return(s)
    BY <2>1, ZenonT(30) DEF Return, StateTypes, DataTypes
  <2>2. CASE ~Return(s)
    <3>1. finished' = finished
      BY <2>2 DEF Open, GiveUpOpen, CallStep, Call, CancelWait, DropStream
    <3> QED BY <3>1 DEF StateTypes, DataTypes
  <2> QED BY <2>1, <2>2
<1>5. /\ open' \in [SendStreams -> {"none", "waiting", "given up", "ok", "failed"}]
      /\ handle' \in [SendStreams -> {"none", "held", "gone"}]
  BY DEF Open, GiveUpOpen, CallStep, Call, Return, CancelWait, DropStream, StateTypes, DataTypes
<1>6. UNCHANGED <<pending, halted, direction>>
  BY DEF Open, GiveUpOpen, CallStep, Call, Return, CancelWait, DropStream, driverVars
<1>7. DataTypes'
  BY <1>3, <1>4, <1>5, <1>6 DEF StateTypes, DataTypes
<1> QED BY <1>2, <1>7 DEF StateTypes

-----------------------------------------------------------------------------
(* The calls.                                                              *)
LEMMA FirstJobs ==
  ASSUME StateTypes, LinesInv, NEW s \in SendStreams, pending[s] # <<>>
  PROVE  /\ pending[s] \in Seq(Jobs) /\ Tail(pending[s]) \in Seq(Jobs)
         /\ First(s) = pending[s][1] /\ First(s).size \in Nat /\ First(s).call \in 1..Len(calls[s])
         /\ Tail(pending[s]) # <<>> =>
              /\ Tail(Tail(pending[s])) \in Seq(Jobs)
              /\ Head(Tail(pending[s])).size \in Nat /\ Head(Tail(pending[s])).call \in 1..Len(calls[s])
<1> DEFINE p == pending[s]
           r == Tail(p)
           c == calls[s]
<1>1. p \in Seq(Jobs) /\ p # <<>> /\ PendingIn(p, c) /\ \A i \in 1..Len(p) : p[i].size \in Nat
  <2>1. Line(s, queue, p, after_flush, c)
    BY DEF LinesInv
  <2> QED BY <2>1, LineTypes DEF Line
<1> HIDE DEF p, c
<1>2. /\ r \in Seq(Jobs) /\ Len(r) = Len(p) - 1 /\ Len(p) \in Nat \ {0} /\ Head(p) = p[1]
      /\ \A i \in 1..Len(r) : r[i] = p[i + 1] /\ i + 1 \in 1..Len(p)
  BY <1>1, TailElements
<1>3. 1 \in 1..Len(p)
  BY <1>2
<1> HIDE DEF r
<1>4. r # <<>> => Tail(r) \in Seq(Jobs) /\ Head(r) = r[1] /\ 1 \in 1..Len(r)
  <2> SUFFICES ASSUME r # <<>> PROVE Tail(r) \in Seq(Jobs) /\ Head(r) = r[1] /\ 1 \in 1..Len(r)
    OBVIOUS
  <2>1. Tail(r) \in Seq(Jobs) /\ Head(r) = r[1] /\ Len(r) \in Nat \ {0}
    BY <1>2, TailElements
  <2> QED BY <2>1
<1>5. r # <<>> => Head(r).size \in Nat /\ Head(r).call \in 1..Len(c)
  BY <1>1, <1>2, <1>4 DEF PendingIn
<1>6. p[1].size \in Nat /\ p[1].call \in 1..Len(c)
  BY <1>1, <1>3 DEF PendingIn
<1> QED BY <1>1, <1>2, <1>4, <1>5, <1>6 DEF p, r, c, First

LEMMA FlushingPends ==
  ASSUME StateTypes, WorkInv, NEW s, Flushing(s)
  PROVE  s \in SendStreams /\ pending[s] # <<>>
<1>1. s \in SendStreams /\ s = todo[1] /\ 1 \in 1..Len(todo)
  BY FlushingTypes
<1> QED BY <1>1 DEF WorkInv, Flushing

LEMMA CommandCalls ==
  ASSUME StateTypes, LinesInv, queue # <<>>, QueueHead.type \in Calling
  PROVE  /\ QueueHead.of \in SendStreams /\ Mine(Head(queue), QueueHead.of)
         /\ QueueHead.call \in 1..Len(calls[QueueHead.of])
<1>1. QueueHead.of \in SendStreams
  BY QueueHeadTypes
<1>2. Mine(Head(queue), QueueHead.of)
  BY DEF Mine, QueueHead
<1>3. Line(QueueHead.of, queue, pending[QueueHead.of], after_flush, calls[QueueHead.of])
  BY <1>1 DEF LinesInv
<1> QED BY <1>1, <1>2, <1>3, QueueHeadTaken DEF QueueHead

ACallOf(x) ==
  \E s \in SendStreams : \E k \in 1..Len(calls[s]) : x = <<s, k, "ok">> \/ x = <<s, k, "failed">>

CallsKept ==
  /\ calls' \in [SendStreams -> Seq(CallRecords)]
  /\ \A s \in SendStreams : Len(calls'[s]) = Len(calls[s])
  /\ waiting' \in [SendStreams -> Nat] /\ \A s \in SendStreams : waiting'[s] \in {waiting[s], 0}
  /\ \A x \in after_flush' : x \in after_flush \/ ACallOf(x)

LEMMA CallsKeptTypes == CallTypes /\ CallsKept => CallTypes'
<1> SUFFICES ASSUME CallTypes, CallsKept PROVE CallTypes'
  OBVIOUS
<1>1. \A s \in SendStreams : waiting'[s] <= Len(calls'[s])
  <2> SUFFICES ASSUME NEW s \in SendStreams PROVE waiting'[s] <= Len(calls'[s])
    OBVIOUS
  <2> DEFINE l == Len(calls[s])
  <2>1. l \in Nat
    <3>1. calls[s] \in Seq(CallRecords)
      BY DEF CallTypes
    <3> QED BY <3>1, LenProperties
  <2>2. Len(calls'[s]) = l /\ waiting[s] <= l /\ waiting'[s] \in {waiting[s], 0}
    BY DEF CallTypes, CallsKept
  <2> HIDE DEF l
  <2> QED BY <2>1, <2>2
<1>2. \A x \in after_flush' : \E s \in SendStreams : \E k \in 1..Len(calls'[s]) :
        x = <<s, k, "ok">> \/ x = <<s, k, "failed">>
  BY DEF CallTypes, CallsKept, ACallOf
<1> QED BY <1>1, <1>2 DEF CallTypes, CallsKept

LEMMA FailsKept ==
  ASSUME CallTypes, NEW S, Fails(S), UNCHANGED waiting, \A x \in after_flush' : x \in after_flush \/ ACallOf(x)
  PROVE  CallTypes'
<1>1. "failed" \in Answers /\ calls \in [SendStreams -> Seq(CallRecords)]
  BY DEF Answers, CallTypes
<1>2. CallsKept
  BY <1>1, AnsweredTypes DEF CallsKept, Fails, CallTypes
<1> QED BY <1>2, CallsKeptTypes

LEMMA SameCalls ==
  ASSUME CallTypes, UNCHANGED <<calls, waiting>>, \A x \in after_flush' : x \in after_flush \/ ACallOf(x)
  PROVE  CallTypes'
BY CallsKeptTypes DEF CallsKept, CallTypes

LEMMA CallTypesNext ==
  ASSUME StateTypes, CallTypes, LinesInv, WorkInv, [SendNext]_sendVars
  PROVE  CallTypes'
<1>1. \A s \in SendStreams : \A k \in 1..Len(calls[s]) :
        ACallOf(<<s, k, "ok">>) /\ ACallOf(<<s, k, "failed">>)
  BY DEF ACallOf
<1>2. ASSUME UNCHANGED <<calls, waiting, after_flush>> PROVE CallTypes'
  BY <1>2, SameCalls
<1>3. ASSUME NEW s \in SendStreams, FlushClosed(s) \/ StopSending(s) PROVE CallTypes'
  BY <1>3, FailsKept DEF FlushClosed, StopSending
<1>4. ASSUME NEW s \in SendStreams, FlushWhole(s) \/ FlushFin(s) PROVE CallTypes'
  <2>1. pending[s] # <<>>
    BY <1>4, FlushingPends DEF FlushWhole, FlushFin
  <2>2. First(s).call \in 1..Len(calls[s])
        /\ (Tail(pending[s]) # <<>> => Head(Tail(pending[s])).call \in 1..Len(calls[s]))
    BY <2>1, FirstJobs
  <2>3. \A x \in after_flush' : x \in after_flush \/ ACallOf(x)
    <3> DEFINE k == First(s).call
               r == Tail(pending[s])
               n == Head(r).call
    <3>1. /\ after_flush' \subseteq after_flush \cup {<<s, k, "ok">>, <<s, n, "failed">>}
          /\ r = <<>> => after_flush' \subseteq after_flush \cup {<<s, k, "ok">>}
      BY <1>4 DEF FlushWhole, FlushFin
    <3>2. k \in 1..Len(calls[s]) /\ (r # <<>> => n \in 1..Len(calls[s]))
      BY <2>2
    <3> HIDE DEF k, r, n
    <3> QED BY <1>1, <3>1, <3>2
  <2> QED BY <1>4, <2>3, SameCalls DEF FlushWhole, FlushFin, FlushUnchanged
<1>5. CASE Flushed
  <2> DEFINE b == Answered(calls, ToAnswer("ok"), "ok")
             d == Answered(b, ToAnswer("failed"), "failed")
  <2>1. "failed" \in Answers /\ "ok" \in Answers /\ calls \in [SendStreams -> Seq(CallRecords)]
    BY DEF Answers, CallTypes
  <2>2. b \in [SendStreams -> Seq(CallRecords)] /\ \A s \in SendStreams : Len(b[s]) = Len(calls[s])
    BY <2>1, AnsweredTypes
  <2> HIDE DEF b
  <2>3. d \in [SendStreams -> Seq(CallRecords)] /\ \A s \in SendStreams : Len(d[s]) = Len(b[s])
    BY <2>1, <2>2, AnsweredTypes
  <2>4. calls' = d /\ UNCHANGED waiting /\ after_flush' = {}
    BY <1>5 DEF Flushed, b
  <2> HIDE DEF d
  <2>5. CallsKept
    BY <2>2, <2>3, <2>4 DEF CallsKept, CallTypes
  <2> QED BY <2>5, CallsKeptTypes
<1>6. CASE Ends
  <2>1. Fails(Unanswered) /\ UNCHANGED waiting /\ after_flush' = {}
    BY <1>6 DEF Ends, Fails
  <2> QED BY <2>1, FailsKept
<1>7. CASE HandleSend
  <2>1. UNCHANGED <<waiting, after_flush>> /\ (calls' = calls \/ \E S : Fails(S))
    BY <1>7 DEF HandleSend
  <2> QED BY <2>1, SameCalls, FailsKept
<1>8. CASE HandleDrop
  <2>1. UNCHANGED <<waiting, after_flush>> /\ \E S : Fails(S)
    BY <1>8 DEF HandleDrop
  <2> QED BY <2>1, FailsKept
<1>9. CASE HandleReset
  <2>1. QueueHead.of \in SendStreams /\ QueueHead.call \in 1..Len(calls[QueueHead.of])
    BY <1>9, CommandCalls DEF HandleReset, Take, QueueHead, Calling
  <2>2. ACallOf(<<QueueHead.of, QueueHead.call, "ok">>)
    BY <1>1, <2>1
  <2>3. /\ UNCHANGED waiting /\ \E S : Fails(S)
        /\ after_flush' = after_flush \/ after_flush' = after_flush \cup {<<QueueHead.of, QueueHead.call, "ok">>}
    BY <1>9 DEF HandleReset
  <2>4. \A x \in after_flush' : x \in after_flush \/ ACallOf(x)
    BY <2>2, <2>3
  <2> QED BY <2>3, <2>4, FailsKept
<1>10. ASSUME NEW s \in SendStreams, CallStep(s) PROVE CallTypes'
  <2>1. PICK op \in Calling, n \in Nat : Call(s, op, n)
    BY <1>10 DEF CallStep
  <2> DEFINE r == [op |-> op, size |-> n, answer |-> "none"]
             c == calls[s]
             l == Len(c)
             d == Append(c, r)
  <2>2. /\ calls' = [calls EXCEPT ![s] = d] /\ waiting' = [waiting EXCEPT ![s] = l + 1]
        /\ UNCHANGED after_flush
    BY <2>1 DEF Call, driverVars
  <2>3. r \in CallRecords /\ c \in Seq(CallRecords)
    BY DEF CallRecords, CallTypes, Answers
  <2>4. l \in Nat /\ d \in Seq(CallRecords) /\ Len(d) = l + 1
    <3> HIDE DEF r, c
    <3> QED BY <2>3, AppendProperties, LenProperties
  <2>5. \A t \in SendStreams : t # s => calls'[t] = calls[t] /\ waiting'[t] = waiting[t]
    BY <2>2 DEF CallTypes
  <2>6. calls'[s] = d /\ waiting'[s] = l + 1
    BY <2>2 DEF CallTypes
  <2> HIDE DEF d, r
  <2>7. l + 1 \in Nat /\ l + 1 <= Len(d) /\ 1..l \subseteq 1..Len(d)
    <3> HIDE DEF l
    <3> QED BY <2>4
  <2>8. calls' \in [SendStreams -> Seq(CallRecords)] /\ waiting' \in [SendStreams -> Nat]
    <3> HIDE DEF l
    <3> QED BY <2>2, <2>4, <2>7 DEF CallTypes
  <2>9. \A t \in SendStreams : waiting'[t] <= Len(calls'[t])
    <3> HIDE DEF l
    <3> QED BY <2>5, <2>6, <2>7 DEF CallTypes
  <2>10. \A t \in SendStreams : \A k \in 1..Len(calls[t]) : k \in 1..Len(calls'[t])
    BY <2>5, <2>6, <2>7
  <2>11. \A x \in after_flush' : \E t \in SendStreams : \E k \in 1..Len(calls'[t]) :
           x = <<t, k, "ok">> \/ x = <<t, k, "failed">>
    <3> SUFFICES ASSUME NEW x \in after_flush
                 PROVE  \E t \in SendStreams : \E k \in 1..Len(calls'[t]) :
                          x = <<t, k, "ok">> \/ x = <<t, k, "failed">>
      BY <2>2
    <3>1. PICK t \in SendStreams : \E k \in 1..Len(calls[t]) : x = <<t, k, "ok">> \/ x = <<t, k, "failed">>
      BY DEF CallTypes
    <3> QED BY <2>10, <3>1
  <2> QED BY <2>8, <2>9, <2>11 DEF CallTypes
<1>11. ASSUME NEW s \in SendStreams, Return(s) \/ CancelWait(s) PROVE CallTypes'
  <2>1. waiting' = [waiting EXCEPT ![s] = 0] /\ UNCHANGED <<calls, after_flush>>
    BY <1>11 DEF Return, CancelWait, driverVars
  <2>2. CallsKept
    BY <2>1 DEF CallsKept, CallTypes
  <2> QED BY <2>2, CallsKeptTypes
<1>12. CASE PumpRefused \/ PumpOpened \/ PumpBlocked \/ Pumped
  BY <1>2, <1>12 DEF PumpRefused, PumpOpened, PumpBlocked, Pumped, appVars
<1>13. CASE HandleOpen \/ Draining \/ Grant \/ OtherEvent
  BY <1>2, <1>13 DEF HandleOpen, Draining, Grant, OtherEvent, appVars
<1>14. ASSUME NEW s \in SendStreams,
              FlushBlocked(s) \/ FlushPart(s) \/ Open(s) \/ GiveUpOpen(s) \/ DropStream(s)
       PROVE  CallTypes'
  BY <1>2, <1>14 DEF FlushBlocked, FlushPart, FlushUnchanged, Open, GiveUpOpen, DropStream, driverVars
<1>15. CASE UNCHANGED sendVars
  BY <1>2, <1>15 DEF sendVars, appVars, driverVars
<1> QED
  <2>1. CASE SendNext
    BY <1>3, <1>4, <1>5, <1>6, <1>7, <1>8, <1>9, <1>10, <1>11, <1>12, <1>13, <1>14, <2>1, SendCases
  <2> QED BY <1>15, <2>1

-----------------------------------------------------------------------------
(* The peer's windows and limits.                                          *)
LEMMA MinOfTwo ==
  ASSUME NEW a \in Int, NEW b \in Int
  PROVE  Min({a, b}) \in {a, b} /\ Min({a, b}) <= a /\ Min({a, b}) <= b
<1>1. \E x \in {a, b} : \A y \in {a, b} : x <= y
  OBVIOUS
<1>2. Min({a, b}) \in {a, b} /\ \A y \in {a, b} : Min({a, b}) <= y
  BY <1>1 DEF Min
<1> QED BY <1>2

LEMMA StreamsFinite == IsFiniteSet(SendStreams)
BY WtH2SendAssumption DEF SendStreams

LEMMA Rooms ==
  ASSUME RoomInv, NEW s \in SendStreams
  PROVE  /\ SessionSent \in Nat /\ window.session \in Nat /\ window.stream[s] \in Nat /\ sent[s] \in Nat
         /\ Available(s) \in Nat /\ SessionSent + Available(s) <= window.session
         /\ sent[s] + Available(s) <= window.stream[s]
         /\ Available(s) = 0 <=> SessionSent = window.session \/ sent[s] = window.stream[s]
<1> DEFINE T == SessionSent
           W == window.session
           w == window.stream[s]
           n == sent[s]
           A == Available(s)
<1>1. sent \in [SendStreams -> Nat] /\ T <= W /\ n <= w /\ W \in Nat /\ w \in Nat /\ n \in Nat
  BY DEF RoomInv
<1>2. T \in Nat
  BY <1>1, StreamsFinite, TotalOverIsNat DEF SessionSent
<1>3. A = Min({W - T, w - n})
  BY DEF Available
<1> HIDE DEF T, W, w, n, A
<1>4. W - T \in Nat /\ w - n \in Nat
  BY <1>1, <1>2
<1>5. A \in {W - T, w - n} /\ A <= W - T /\ A <= w - n
  <2> DEFINE x == W - T
             y == w - n
  <2>1. x \in Int /\ y \in Int /\ A = Min({x, y})
    BY <1>3, <1>4
  <2> HIDE DEF x, y
  <2>2. A \in {x, y} /\ A <= x /\ A <= y
    BY <2>1, MinOfTwo
  <2> QED BY <2>2 DEF x, y
<1>6. A \in Nat /\ T + A <= W /\ n + A <= w /\ (A = 0 <=> T = W \/ n = w)
  BY <1>1, <1>2, <1>4, <1>5
<1> QED BY <1>1, <1>2, <1>6 DEF T, W, w, n, A

(* n bytes are sent on a stream.                                            *)
LEMMA Sending ==
  ASSUME RoomInv, NEW s \in SendStreams, NEW n \in Nat, sent' = [sent EXCEPT ![s] = @ + n]
  PROVE  /\ SessionSent' = SessionSent + n /\ sent'[s] = sent[s] + n /\ sent' \in [SendStreams -> Nat]
         /\ \A t \in SendStreams : t # s => sent'[t] = sent[t]
<1> DEFINE v == sent[s] + n
           T == SessionSent
           U == SessionSent'
           a == sent[s]
<1>1. sent \in [SendStreams -> Nat] /\ v \in Nat /\ sent' = [sent EXCEPT ![s] = v]
  BY DEF RoomInv
<1> HIDE DEF v
<1>2. \A g \in [SendStreams -> Nat], y \in SendStreams, k \in Nat :
        TotalOver(SendStreams, [g EXCEPT ![y] = k]) + g[y] = TotalOver(SendStreams, g) + k
  BY StreamsFinite, TotalOverExcept
<1>3. U + a = T + v
  <2>1. TotalOver(SendStreams, [sent EXCEPT ![s] = v]) + sent[s] = TotalOver(SendStreams, sent) + v
    BY <1>1, <1>2
  <2> QED BY <1>1, <2>1 DEF SessionSent
<1>4. sent' \in [SendStreams -> Nat] /\ sent'[s] = v /\ \A t \in SendStreams : t # s => sent'[t] = sent[t]
  BY <1>1
<1>5. T \in Nat /\ U \in Nat /\ a \in Nat
  BY <1>1, <1>4, StreamsFinite, TotalOverIsNat DEF SessionSent
<1> HIDE DEF T, U, a
<1>6. U = T + n
  BY <1>3, <1>5 DEF v, a
<1> QED BY <1>4, <1>6 DEF v, T, U, a

LEMMA SentRoom ==
  ASSUME RoomInv, NEW s \in SendStreams, NEW n \in Nat, n <= Available(s),
         sent' = [sent EXCEPT ![s] = @ + n], UNCHANGED <<window, limit, direction>>
  PROVE  RoomInv'
<1>1. /\ SessionSent' = SessionSent + n /\ sent'[s] = sent[s] + n /\ sent' \in [SendStreams -> Nat]
      /\ \A t \in SendStreams : t # s => sent'[t] = sent[t]
  BY Sending
<1> DEFINE T == SessionSent
           U == SessionSent'
           W == window.session
           w == window.stream[s]
           a == sent[s]
           b == sent'[s]
           A == Available(s)
<1>2. /\ T \in Nat /\ W \in Nat /\ w \in Nat /\ a \in Nat /\ A \in Nat /\ T + A <= W /\ a + A <= w
      /\ U = T + n /\ b = a + n /\ n <= A
  BY <1>1, Rooms
<1> HIDE DEF T, U, W, w, a, b, A
<1>3. U <= W /\ b <= w
  BY <1>2
<1>4. SessionSent' <= window'.session /\ \A t \in SendStreams : sent'[t] <= window'.stream[t]
  BY <1>1, <1>3 DEF RoomInv, U, W, b, w
<1>5. \A k \in {"uni", "bidi"} : OpenCount(k)' <= limit'[k]
  BY DEF RoomInv, OpenCount
<1> QED BY <1>1, <1>4, <1>5 DEF RoomInv

(* Nothing is opened, and nothing is sent.                                  *)
LEMMA SameRoom ==
  ASSUME RoomInv, UNCHANGED <<window, limit, sent>>,
         \A s \in SendStreams : direction'[s] # "none" => direction[s] # "none",
         \A s \in SendStreams : direction[s] # "none" => direction'[s] # "none"
  PROVE  RoomInv'
<1>1. \A k : OpenCount(k)' = OpenCount(k)
  BY DEF OpenCount
<1>2. SessionSent' = SessionSent
  BY DEF SessionSent
<1> QED BY <1>1, <1>2 DEF RoomInv

LEMMA RoomOpened ==
  ASSUME StateTypes, RoomInv, PumpOpened
  PROVE  RoomInv'
<1> DEFINE x == Waiting
           S(k) == {r \in SendStreams : KindOf(r) = k /\ direction[r] # "none"}
           R(k) == {r \in SendStreams : KindOf(r) = k /\ direction'[r] # "none"}
<1>1. x \in SendStreams /\ direction' = [direction EXCEPT ![x] = "open"]
      /\ OpenCount(KindOf(x)) < limit[KindOf(x)] /\ UNCHANGED <<window, limit, sent>>
  BY WaitingTypes DEF PumpOpened, allowedVars
<1>2. ASSUME NEW k \in {"uni", "bidi"} PROVE OpenCount(k)' <= limit'[k]
  <2>1. IsFiniteSet(S(k)) /\ IsFiniteSet(R(k))
    BY StreamsFinite, FS_Subset
  <2>2. OpenCount(k) = Cardinality(S(k)) /\ OpenCount(k)' = Cardinality(R(k))
    BY DEF OpenCount
  <2>3. OpenCount(k) <= limit[k] /\ limit[k] \in Nat /\ limit' = limit
    BY <1>1 DEF RoomInv
  <2>4. CASE KindOf(x) = k
    <3>1. R(k) \subseteq S(k) \cup {x}
      BY <1>1 DEF StateTypes, DataTypes
    <3>2. IsFiniteSet(S(k) \cup {x}) /\ Cardinality(S(k)) \in Nat
          /\ Cardinality(S(k) \cup {x}) <= Cardinality(S(k)) + 1
          /\ Cardinality(S(k) \cup {x}) \in Nat
      <4> DEFINE F == S(k)
      <4>1. IsFiniteSet(F)
        BY <2>1
      <4> HIDE DEF F
      <4>2. /\ IsFiniteSet(F \cup {x}) /\ Cardinality(F) \in Nat
            /\ Cardinality(F \cup {x}) = IF x \in F THEN Cardinality(F) ELSE Cardinality(F) + 1
        BY <4>1, FS_AddElement, FS_CardinalityType
      <4>3. Cardinality(F \cup {x}) <= Cardinality(F) + 1 /\ Cardinality(F \cup {x}) \in Nat
        BY <4>2
      <4> QED BY <4>2, <4>3 DEF F
    <3>3. Cardinality(R(k)) <= Cardinality(S(k) \cup {x}) /\ Cardinality(R(k)) \in Nat
      <4> DEFINE F == S(k) \cup {x}
                 G == R(k)
      <4>1. IsFiniteSet(F) /\ G \subseteq F
        BY <3>1, <3>2
      <4> HIDE DEF F, G
      <4>2. Cardinality(G) <= Cardinality(F) /\ IsFiniteSet(G)
        BY <4>1, FS_Subset
      <4>3. Cardinality(G) \in Nat
        BY <4>2, FS_CardinalityType
      <4> QED BY <4>2, <4>3 DEF F, G
    <3>4. OpenCount(k) < limit[k]
      BY <1>1, <2>4
    <3> HIDE DEF S, R, x
    <3> QED BY <2>2, <2>3, <3>2, <3>3, <3>4
  <2>5. CASE KindOf(x) # k
    <3>1. R(k) = S(k)
      BY <1>1, <2>5 DEF StateTypes, DataTypes
    <3> HIDE DEF S, R
    <3> QED BY <2>2, <2>3, <3>1
  <2> QED BY <2>4, <2>5
<1>3. SessionSent' = SessionSent
  BY <1>1 DEF SessionSent
<1> QED BY <1>1, <1>2, <1>3 DEF RoomInv

LEMMA RoomGranted ==
  ASSUME RoomInv, Grant
  PROVE  RoomInv'
<1>1. UNCHANGED <<sent, direction>>
  BY DEF Grant
<1>2. SessionSent' = SessionSent /\ \A k : OpenCount(k)' = OpenCount(k)
  BY <1>1 DEF SessionSent, OpenCount
<1>3. window \in [session : Nat, stream : [SendStreams -> Nat]] /\ limit \in [{"uni", "bidi"} -> Nat]
  BY DEF RoomInv
<1> DEFINE W == window.session
           w == window.stream
<1>4. window = [session |-> W, stream |-> w] /\ W \in Nat /\ w \in [SendStreams -> Nat]
  BY <1>3
<1>5. ASSUME window' = [window EXCEPT !.session = @ + 1], limit' = limit PROVE RoomInv'
  <2>1. window' = [session |-> W + 1, stream |-> w]
    BY <1>4, <1>5
  <2>2. W + 1 \in Nat /\ \A n \in Nat : n <= W => n <= W + 1
    BY <1>4
  <2>3. window'.session = W + 1 /\ window'.stream = w
        /\ window' \in [session : Nat, stream : [SendStreams -> Nat]]
    BY <1>4, <2>1, <2>2
  <2>4. SessionSent \in Nat
    BY StreamsFinite, TotalOverIsNat DEF RoomInv, SessionSent
  <2> HIDE DEF W
  <2>5. SessionSent' <= window'.session
    BY <1>2, <2>2, <2>3, <2>4 DEF RoomInv, W
  <2> QED BY <1>1, <1>2, <1>5, <2>3, <2>5 DEF RoomInv
<1>6. ASSUME NEW s \in SendStreams, window' = [window EXCEPT !.stream[s] = @ + 1], limit' = limit
      PROVE  RoomInv'
  <2> DEFINE v == [w EXCEPT ![s] = @ + 1]
  <2>1. window' = [session |-> W, stream |-> v]
    BY <1>4, <1>6
  <2>2. v \in [SendStreams -> Nat] /\ \A t \in SendStreams : v[t] = IF t = s THEN w[t] + 1 ELSE w[t]
    BY <1>4
  <2> HIDE DEF v
  <2>3. window'.session = W /\ window'.stream = v
        /\ window' \in [session : Nat, stream : [SendStreams -> Nat]]
    BY <1>4, <2>1, <2>2
  <2>4. \A t \in SendStreams : sent'[t] <= window'.stream[t]
    <3> SUFFICES ASSUME NEW t \in SendStreams PROVE sent[t] <= v[t]
      BY <1>1, <2>3
    <3>1. sent[t] \in Nat /\ w[t] \in Nat /\ sent[t] <= w[t]
      BY <1>4 DEF RoomInv
    <3> HIDE DEF w
    <3> QED BY <2>2, <3>1
  <2> QED BY <1>1, <1>2, <1>6, <2>3, <2>4 DEF RoomInv
<1>7. ASSUME NEW k \in {"uni", "bidi"}, limit' = [limit EXCEPT ![k] = @ + 1], window' = window
      PROVE  RoomInv'
  <2>1. limit' \in [{"uni", "bidi"} -> Nat]
        /\ \A j \in {"uni", "bidi"} : limit'[j] = IF j = k THEN limit[j] + 1 ELSE limit[j]
    BY <1>3, <1>7
  <2>2. \A j \in {"uni", "bidi"} : OpenCount(j)' <= limit'[j]
    <3> SUFFICES ASSUME NEW j \in {"uni", "bidi"} PROVE OpenCount(j)' <= limit'[j]
      OBVIOUS
    <3> DEFINE n == OpenCount(j)
    <3>1. n \in Nat
      <4>1. IsFiniteSet({r \in SendStreams : KindOf(r) = j /\ direction[r] # "none"})
        BY StreamsFinite, FS_Subset
      <4> QED BY <4>1, FS_CardinalityType DEF OpenCount
    <3>2. n <= limit[j] /\ limit[j] \in Nat /\ OpenCount(j)' = n
      BY <1>2, <1>3 DEF RoomInv
    <3> HIDE DEF n
    <3> QED BY <2>1, <3>1, <3>2
  <2> QED BY <1>1, <1>2, <1>7, <2>1, <2>2 DEF RoomInv
<1> QED BY <1>5, <1>6, <1>7 DEF Grant

LEMMA RoomNext ==
  ASSUME StateTypes, RoomInv, LinesInv, HeldInv, WorkInv, [SendNext]_sendVars
  PROVE  RoomInv'
<1>1. ASSUME UNCHANGED <<window, limit, sent, direction>> PROVE RoomInv'
  BY <1>1, SameRoom
<1>2. CASE PumpRefused \/ PumpBlocked \/ Pumped \/ Flushed \/ HandleOpen \/ HandleSend
           \/ Draining \/ OtherEvent \/ Ends
  BY <1>1, <1>2 DEF PumpRefused, PumpBlocked, Pumped, Flushed, HandleOpen, HandleSend,
                    Draining, OtherEvent, Ends, allowedVars
<1>3. ASSUME NEW s \in SendStreams,
             \/ FlushClosed(s) \/ FlushBlocked(s) \/ StopSending(s) \/ Open(s) \/ GiveUpOpen(s)
             \/ CallStep(s) \/ Return(s) \/ CancelWait(s) \/ DropStream(s)
      PROVE  RoomInv'
  BY <1>1, <1>3 DEF FlushClosed, FlushBlocked, FlushUnchanged, StopSending, Open, GiveUpOpen,
                    CallStep, Call, Return, CancelWait, DropStream, allowedVars
<1>4. ASSUME NEW s \in SendStreams, FlushPart(s) PROVE RoomInv'
  <2>1. Available(s) \in Nat
    BY Rooms
  <2>2. Available(s) <= Available(s)
    BY <2>1
  <2> QED BY <1>4, <2>1, <2>2, SentRoom DEF FlushPart, FlushUnchanged, allowedVars
<1>5. ASSUME NEW s \in SendStreams, FlushWhole(s) PROVE RoomInv'
  <2>1. Available(s) \in Nat
    BY Rooms
  <2>2. First(s).size \in Nat /\ First(s).size <= Available(s)
    BY <1>5, <2>1 DEF FlushWhole
  <2> QED BY <1>5, <2>2, SentRoom DEF FlushWhole, FlushUnchanged, allowedVars
<1>6. ASSUME NEW s \in SendStreams, FlushFin(s) PROVE RoomInv'
  <2>1. direction[s] = "open" /\ direction' = [direction EXCEPT ![s] = "fin"]
        /\ UNCHANGED <<window, limit, sent>>
    BY <1>6 DEF FlushFin, FlushUnchanged, CanSend, allowedVars
  <2> QED BY <2>1, SameRoom DEF StateTypes, DataTypes
<1>7. CASE HandleReset
  <2>1. UNCHANGED <<window, limit, sent>>
    BY <1>7 DEF HandleReset, allowedVars
  <2>2. \/ direction' = direction
        \/ direction[QueueHead.of] = "open" /\ direction' = [direction EXCEPT ![QueueHead.of] = "reset"]
    BY <1>7 DEF HandleReset, CanSend
  <2> QED BY <2>1, <2>2, SameRoom DEF StateTypes, DataTypes
<1>8. CASE HandleDrop
  <2>1. UNCHANGED <<window, limit, sent>>
    BY <1>8 DEF HandleDrop, allowedVars
  <2>2. direction' = direction \/ direction' = [direction EXCEPT ![QueueHead.of] = "reset"]
    BY <1>8 DEF HandleDrop
  <2>3. direction[QueueHead.of] # "none"
    <3>1. queue \in Seq(SendCommands) /\ queue # <<>> /\ QueueHead.type = "Drop"
      BY <1>8 DEF HandleDrop, Take, QueueHead, StateTypes, DataTypes
    <3>2. 1 \in 1..Len(queue) /\ QueueHead = queue[1]
      <4>1. Head(queue) = queue[1] /\ Len(queue) \in Nat \ {0}
        BY <3>1, TailElements
      <4> QED BY <4>1 DEF QueueHead
    <3> QED BY <3>1, <3>2 DEF HeldInv
  <2> QED BY <2>1, <2>2, <2>3, SameRoom DEF StateTypes, DataTypes
<1>9. CASE PumpOpened
  BY <1>9, RoomOpened
<1>10. CASE Grant
  BY <1>10, RoomGranted
<1>11. CASE UNCHANGED sendVars
  BY <1>1, <1>11 DEF sendVars, allowedVars
<1> QED
  <2>1. CASE SendNext
    BY <1>2, <1>3, <1>4, <1>5, <1>6, <1>7, <1>8, <1>9, <1>10, <2>1, SendCases
  <2> QED BY <1>11, <2>1

-----------------------------------------------------------------------------
(* The line of each stream, step by step.                                   *)
Stands(t) ==
  /\ Line(t, queue, pending[t], after_flush, calls[t])
  /\ Paid(t, pending[t], after_flush, calls[t], sent[t])

(* A step that does not concern the stream.                                 *)
Spared(t) ==
  /\ \/ queue' = queue
     \/ \E m \in SendCommands : queue' = Append(queue, m) /\ ~Mine(m, t)
     \/ queue # <<>> /\ queue' = Tail(queue) /\ ~Mine(Head(queue), t)
  /\ pending'[t] = pending[t] /\ calls'[t] = calls[t] /\ sent'[t] = sent[t]
  /\ \A k, a : <<t, k, a>> \in after_flush' <=> <<t, k, a>> \in after_flush

LEMMA SparedStands ==
  ASSUME NEW t \in SendStreams, LinesInv, Spared(t)
  PROVE  Stands(t)'
<1>1. Line(t, queue, pending[t], after_flush, calls[t])
      /\ Paid(t, pending[t], after_flush, calls[t], sent[t])
  BY DEF LinesInv
<1>2. Line(t, queue', pending[t], after_flush, calls[t])
  BY <1>1, OtherQueued, OtherTaken DEF Spared
<1>3. Line(t, queue', pending[t], after_flush', calls[t])
  BY <1>2, OtherFlushed DEF Spared
<1>4. Paid(t, pending[t], after_flush', calls[t], sent[t])
  BY <1>1, PaidElsewhere DEF Spared
<1> QED BY <1>3, <1>4 DEF Spared, Stands

LEMMA StandsFrame ==
  ASSUME LinesInv, UNCHANGED <<queue, pending, after_flush, calls, sent>>
  PROVE  LinesInv'
BY DEF LinesInv

(* A command that is no call comes.                                         *)
LEMMA StandsQueued ==
  ASSUME LinesInv, NEW m \in SendCommands, m.type \notin Calling, queue' = Append(queue, m),
         UNCHANGED <<pending, after_flush, calls, sent>>
  PROVE  LinesInv'
<1>1. \A t \in SendStreams : Spared(t)
  BY DEF Spared, Mine
<1> QED BY <1>1, SparedStands DEF LinesInv, Stands

LEMMA StandsCall ==
  ASSUME StateTypes, CallTypes, LinesInv, NEW s \in SendStreams, CallStep(s)
  PROVE  LinesInv'
<1>1. PICK op \in Calling, n \in Nat : Call(s, op, n) /\ (op # "Write" => n = 0)
  BY DEF CallStep
<1> DEFINE r == [op |-> op, size |-> n, answer |-> "none"]
           c == calls[s]
           m == [type |-> op, of |-> s, call |-> Len(c) + 1, size |-> n]
<1>2. /\ calls' = [calls EXCEPT ![s] = Append(c, r)] /\ queue' = Append(queue, m)
      /\ UNCHANGED <<pending, after_flush, sent>>
  BY <1>1 DEF Call, driverVars
<1>3. r \in CallRecords /\ c \in Seq(CallRecords) /\ r.answer = "none"
  BY DEF CallRecords, CallTypes, Answers
<1>4. m \in SendCommands /\ Mine(m, s) /\ m.call = Len(c) + 1 /\ m.size = r.size
      /\ (m.type = "Reset" => m.size = 0) /\ m.of = s
  <2>1. Len(c) \in Nat
    BY <1>3, LenProperties
  <2> DEFINE l == Len(c)
  <2> HIDE DEF l
  <2>2. l + 1 \in Nat
    BY <2>1 DEF l
  <2>3. m \in CallCommands
    BY <2>2 DEF CallCommands, l
  <2> QED BY <1>1, <2>3 DEF SendCommands, Mine
<1> HIDE DEF r, m
<1>5. Line(s, queue, pending[s], after_flush, c) /\ Paid(s, pending[s], after_flush, c, sent[s])
  BY DEF LinesInv
<1> HIDE DEF c
<1>6. Line(s, Append(queue, m), pending[s], after_flush, Append(c, r))
  BY <1>3, <1>4, <1>5, NewCall
<1>7. Paid(s, pending[s], after_flush, Append(c, r), sent[s])
  BY <1>3, <1>5, <1>6, PaidNewCall
<1>8. Stands(s)'
  BY <1>2, <1>6, <1>7 DEF Stands, CallTypes
<1>9. ASSUME NEW t \in SendStreams, t # s PROVE Stands(t)'
  <2>1. Spared(t)
    BY <1>2, <1>4, <1>9 DEF Spared, Mine, CallTypes
  <2> QED BY <2>1, SparedStands
<1> QED BY <1>8, <1>9 DEF LinesInv, Stands

(* What fails is marked, on its stream only.                                *)
LEMMA FailsPending ==
  ASSUME StateTypes, CallTypes, NEW s \in SendStreams, Fails(PendingCalls(s))
  PROVE  /\ calls'[s] = Marked(calls[s], CallsOf(pending[s]), "failed")
         /\ \A t \in SendStreams : t # s => calls'[t] = calls[t]
<1>1. calls \in [SendStreams -> Seq(CallRecords)] /\ calls' = Answered(calls, PendingCalls(s), "failed")
  BY DEF CallTypes, Fails
<1>2. \A k : <<s, k>> \in PendingCalls(s) <=> k \in CallsOf(pending[s])
  BY DEF PendingCalls, CallsOf
<1>3. ASSUME NEW t \in SendStreams, t # s PROVE calls'[t] = calls[t]
  <2> DEFINE S == PendingCalls(s)
  <2>1. \A i \in Nat : <<t, i>> \notin S
    BY <1>3 DEF PendingCalls
  <2>2. calls' = Answered(calls, S, "failed")
    BY <1>1
  <2> HIDE DEF S
  <2>3. Answered(calls, S, "failed")[t] = calls[t]
    BY ZenonT(30), <1>1, <2>1, AnsweredElsewhere
  <2> QED BY <2>2, <2>3
<1>4. calls'[s] = Marked(calls[s], CallsOf(pending[s]), "failed")
  BY <1>1, <1>2 DEF Answered, Marked
<1> QED BY <1>3, <1>4

LEMMA FailsOne ==
  ASSUME CallTypes, NEW s \in SendStreams, NEW k, Fails({<<s, k>>})
  PROVE  /\ calls'[s] = Marked(calls[s], {k}, "failed")
         /\ \A t \in SendStreams : t # s => calls'[t] = calls[t]
<1>1. calls \in [SendStreams -> Seq(CallRecords)] /\ calls' = Answered(calls, {<<s, k>>}, "failed")
  BY DEF CallTypes, Fails
<1>2. \A i : <<s, i>> \in {<<s, k>>} <=> i \in {k}
  OBVIOUS
<1>3. ASSUME NEW t \in SendStreams, t # s PROVE calls'[t] = calls[t]
  <2> DEFINE S == {<<s, k>>}
  <2>1. \A i \in Nat : <<t, i>> \notin S
    BY <1>3
  <2>2. calls' = Answered(calls, S, "failed")
    BY <1>1
  <2> HIDE DEF S
  <2>3. Answered(calls, S, "failed")[t] = calls[t]
    BY ZenonT(30), <1>1, <2>1, AnsweredElsewhere
  <2> QED BY <2>2, <2>3
<1>4. calls'[s] = Marked(calls[s], {k}, "failed")
  BY <1>1, <1>2 DEF Answered, Marked
<1> QED BY <1>3, <1>4

LEMMA StandsFailed ==
  ASSUME StateTypes, CallTypes, LinesInv, NEW s \in SendStreams, FlushClosed(s) \/ StopSending(s)
  PROVE  LinesInv'
<1> DEFINE p == pending[s]
           c == calls[s]
           d == Marked(c, CallsOf(p), "failed")
<1>1. /\ FailPending(s) /\ Fails(PendingCalls(s)) /\ UNCHANGED <<queue, after_flush, sent>>
  BY DEF FlushClosed, StopSending
<1>2. calls'[s] = d /\ \A t \in SendStreams : t # s => calls'[t] = calls[t]
  BY <1>1, FailsPending
<1>3. Line(s, queue, p, after_flush, c) /\ Paid(s, p, after_flush, c, sent[s])
  BY DEF LinesInv
<1>4. Line(s, queue, <<>>, after_flush, d)
  <2> HIDE DEF p, c
  <2> QED BY <1>3, PendingFails
<1>5. Paid(s, <<>>, after_flush, d, sent[s])
  <2> DEFINE K == CallsOf(p)
             e == <<>>
  <2>1. e \in {p, <<>>} /\ after_flush \in SUBSET after_flush /\ Line(s, queue, e, after_flush, Marked(c, K, "failed"))
    BY <1>4
  <2> HIDE DEF p, c, K, e
  <2>2. Paid(s, e, after_flush, Marked(c, K, "failed"), sent[s])
    BY <1>3, <2>1, PaidMarked
  <2> QED BY <2>2 DEF e, K
<1>6. pending'[s] = <<>> /\ \A t \in SendStreams : t # s => pending'[t] = pending[t]
  BY <1>1 DEF FailPending, StateTypes, DataTypes
<1>7. Stands(s)'
  BY <1>1, <1>2, <1>4, <1>5, <1>6 DEF Stands
<1>8. ASSUME NEW t \in SendStreams, t # s PROVE Stands(t)'
  <2>1. Spared(t)
    BY <1>1, <1>2, <1>6, <1>8 DEF Spared
  <2> QED BY <2>1, SparedStands
<1> QED BY <1>7, <1>8 DEF LinesInv, Stands

LEMMA StandsPart ==
  ASSUME StateTypes, RoomInv, WorkInv, LinesInv, NEW s \in SendStreams, FlushPart(s)
  PROVE  LinesInv'
<1> DEFINE p == pending[s]
           r == pending'[s]
           c == calls[s]
           A == Available(s)
<1>1. A \in Nat /\ p # <<>>
  BY Rooms, FlushingPends DEF FlushPart
<1>2. /\ r \in Seq(Jobs) /\ Len(r) = Len(p) /\ pending' = [pending EXCEPT ![s] = r]
      /\ 1 \in 1..Len(p) /\ p[1].size \in Nat /\ r[1].size = p[1].size - A
      /\ \A i \in 1..Len(p) : r[i].call = p[i].call /\ (i # 1 => r[i] = p[i])
      /\ First(s) = p[1]
  BY <1>1, PartTypes
<1>3. /\ UNCHANGED <<queue, after_flush, calls>> /\ sent' = [sent EXCEPT ![s] = @ + A]
      /\ A < p[1].size
  BY <1>2 DEF FlushPart, FlushUnchanged
<1>4. Line(s, queue, p, after_flush, c) /\ Paid(s, p, after_flush, c, sent[s])
  BY DEF LinesInv
<1>5. \A i \in 1..Len(p) : p[i].size \in Nat
  BY <1>4, LineTypes
<1>6. sent'[s] = sent[s] + A /\ \A t \in SendStreams : t # s => sent'[t] = sent[t]
  BY <1>1, <1>3, Sending
<1>7. \A t \in SendStreams : t # s => pending'[t] = pending[t]
  BY <1>2 DEF StateTypes, DataTypes
<1>8. p \in Seq(Jobs) /\ r # <<>>
  <2>1. p \in Seq(Jobs)
    BY DEF StateTypes, DataTypes
  <2>2. Len(p) # 0
    BY <1>1, <2>1, EmptySeq
  <2> QED BY <1>2, <2>1, <2>2, EmptySeq
<1>9. ASSUME NEW t \in SendStreams, t # s PROVE Stands(t)'
  <2>1. Spared(t)
    BY <1>3, <1>6, <1>7, <1>9 DEF Spared
  <2> QED BY <2>1, SparedStands
<1> HIDE DEF p, r, c, A
<1>10. \A i \in 1..Len(p) : /\ r[i].call = p[i].call /\ r[i].size <= p[i].size
                            /\ i # 1 => r[i].size = p[i].size
  BY <1>1, <1>2, <1>3, <1>5
<1>11. Line(s, queue, r, after_flush, c)
  BY <1>2, <1>4, <1>10, PartTaken
<1>12. r[1].size + A = p[1].size /\ r[1].call = p[1].call
  BY <1>1, <1>2
<1>13. Paid(s, r, after_flush, c, sent[s] + A)
  BY <1>1, <1>4, <1>8, <1>11, <1>12, PaidPart
<1>14. Stands(s)'
  BY <1>3, <1>6, <1>11, <1>13 DEF Stands, r, c
<1> QED BY <1>9, <1>14 DEF LinesInv, Stands

LEMMA StandsOne ==
  ASSUME LinesInv, NEW s \in SendStreams, Stands(s)', \A t \in SendStreams : t # s => Spared(t)
  PROVE  LinesInv'
BY SparedStands DEF LinesInv, Stands

LEMMA StandsWhole ==
  ASSUME StateTypes, RoomInv, WorkInv, LinesInv, NEW s \in SendStreams, FlushWhole(s)
  PROVE  LinesInv'
<1> DEFINE p == pending[s]
           c == calls[s]
           k == Head(p).call
           n == Head(p).size
           g == after_flush \cup {<<s, k, "ok">>}
<1>1. p # <<>> /\ s \in SendStreams
  BY FlushingPends DEF FlushWhole
<1>2. /\ UNCHANGED <<queue, calls>> /\ sent' = [sent EXCEPT ![s] = @ + n]
      /\ pending' = [pending EXCEPT ![s] = Tail(p)] /\ after_flush' = g
  BY DEF FlushWhole, FlushUnchanged, First
<1>3. Line(s, queue, p, after_flush, c) /\ Paid(s, p, after_flush, c, sent[s]) /\ "ok" \in {"ok", "failed"}
  BY DEF LinesInv
<1>4. \A t \in SendStreams : t # s => Spared(t)
  <2>1. \A t : t # s => \A i, a : <<t, i, a>> \in g <=> <<t, i, a>> \in after_flush
    OBVIOUS
  <2> HIDE DEF g
  <2> QED BY <1>2, <2>1 DEF Spared, StateTypes, DataTypes, RoomInv
<1>5. pending'[s] = Tail(p)
  BY <1>2 DEF StateTypes, DataTypes
<1>6. sent[s] \in Nat /\ sent'[s] = sent[s] + n
  BY <1>2 DEF RoomInv
<1> DEFINE v == sent[s]
<1>7. Line(s, queue, Tail(p), g, c)
  <2> HIDE DEF p, c
  <2> QED BY <1>1, <1>3, PendingHeadTaken
<1>8. Paid(s, Tail(p), g, c, v + n)
  <2> DEFINE a == "ok"
             m == IF a = "ok" THEN v + n ELSE v
  <2>1. a \in {"ok", "failed"} /\ m = v + n
    OBVIOUS
  <2> HIDE DEF p, c, v
  <2>2. Paid(s, Tail(p), after_flush \cup {<<s, k, a>>}, c, m)
    <3> HIDE DEF a
    <3> QED BY <1>1, <1>3, <2>1, PaidHeadTaken DEF v
  <2> QED BY <2>1, <2>2
<1> HIDE DEF p, c, k, n, g, v
<1>9. Stands(s)'
  BY <1>2, <1>5, <1>6, <1>7, <1>8 DEF Stands, c, v
<1> QED BY <1>4, <1>9, StandsOne

LEMMA StandsFin ==
  ASSUME StateTypes, RoomInv, WorkInv, LinesInv, NEW s \in SendStreams, FlushFin(s)
  PROVE  LinesInv'
<1> DEFINE p == pending[s]
           c == calls[s]
           k == Head(p).call
           r == Tail(p)
           g == after_flush \cup {<<s, k, "ok">>}
           j == Head(r).call
           h == g \cup {<<s, j, "failed">>}
           v == sent[s]
<1>1. p # <<>> /\ Head(p).size = 0
  BY FlushingPends DEF FlushFin, First
<1>2. /\ UNCHANGED <<queue, calls, sent>>
      /\ \/ pending' = [pending EXCEPT ![s] = r] /\ after_flush' = g
         \/ r # <<>> /\ pending' = [pending EXCEPT ![s] = Tail(r)] /\ after_flush' = h
  BY DEF FlushFin, FlushUnchanged, First
<1>3. Line(s, queue, p, after_flush, c) /\ Paid(s, p, after_flush, c, v)
  BY DEF LinesInv
<1>4. \A t \in SendStreams : t # s => Spared(t)
  <2>1. \A t : t # s => \A i, a : /\ <<t, i, a>> \in g <=> <<t, i, a>> \in after_flush
                                  /\ <<t, i, a>> \in h <=> <<t, i, a>> \in after_flush
    OBVIOUS
  <2> HIDE DEF g, h
  <2> QED BY <1>2, <2>1 DEF Spared, StateTypes, DataTypes, RoomInv
<1>5. pending'[s] = r \/ pending'[s] = Tail(r)
  BY <1>2 DEF StateTypes, DataTypes
<1>6. v \in Nat
  BY DEF RoomInv
<1>7. Line(s, queue, r, g, c)
  <2> HIDE DEF p, c
  <2>1. "ok" \in {"ok", "failed"}
    OBVIOUS
  <2> QED BY <1>1, <1>3, <2>1, PendingHeadTaken
<1>8. Paid(s, r, g, c, v)
  <2> DEFINE a == "ok"
             m == IF a = "ok" THEN v + Head(p).size ELSE v
  <2>1. a \in {"ok", "failed"} /\ m = v
    BY <1>1, <1>6
  <2> HIDE DEF p, c, v
  <2>2. Paid(s, Tail(p), after_flush \cup {<<s, k, a>>}, c, m)
    <3> HIDE DEF a
    <3> QED BY <1>1, <1>3, <2>1, PaidHeadTaken
  <2> QED BY <2>1, <2>2
<1> HIDE DEF p, r, g, c, v, k
<1>9. r # <<>> => Line(s, queue, Tail(r), h, c) /\ Paid(s, Tail(r), h, c, v)
  <2> SUFFICES ASSUME r # <<>> PROVE Line(s, queue, Tail(r), h, c) /\ Paid(s, Tail(r), h, c, v)
    OBVIOUS
  <2> DEFINE a == "failed"
             m == IF a = "ok" THEN v + Head(r).size ELSE v
  <2>1. a \in {"ok", "failed"} /\ m = v
    OBVIOUS
  <2>2. Line(s, queue, Tail(r), g \cup {<<s, j, a>>}, c)
    <3> HIDE DEF a
    <3> QED BY <1>7, <2>1, PendingHeadTaken
  <2>3. Paid(s, Tail(r), g \cup {<<s, j, a>>}, c, m)
    <3> HIDE DEF a
    <3> QED BY <1>7, <1>8, <2>1, PaidHeadTaken
  <2> QED BY <2>1, <2>2, <2>3
<1> HIDE DEF h
<1>10. Stands(s)'
  <2>1. calls'[s] = c /\ sent'[s] = v /\ queue' = queue
    BY <1>2 DEF c, v
  <2>2. \/ pending'[s] = r /\ after_flush' = g
        \/ r # <<>> /\ pending'[s] = Tail(r) /\ after_flush' = h
    BY <1>2 DEF StateTypes, DataTypes
  <2> QED BY <1>7, <1>8, <1>9, <2>1, <2>2 DEF Stands
<1> QED BY <1>4, <1>10, StandsOne

LEMMA StandsFlushed ==
  ASSUME StateTypes, CallTypes, LinesInv, Flushed
  PROVE  LinesInv'
<1>1. ASSUME NEW s \in SendStreams PROVE Stands(s)'
  <2> DEFINE f == after_flush
             c == calls[s]
             p == pending[s]
             K == {k \in Nat : <<s, k, "ok">> \in f}
             L == {k \in Nat : <<s, k, "failed">> \in f}
             b == Marked(c, K, "ok")
             d == Marked(b, L, "failed")
  <2>1. Line(s, queue, p, f, c) /\ Paid(s, p, f, c, sent[s]) /\ c \in Seq(CallRecords)
        /\ Len(c) \in Nat /\ FlushIn(s, f, c)
    <3>1. Line(s, queue, p, f, c) /\ Paid(s, p, f, c, sent[s])
      BY DEF LinesInv
    <3> QED BY <3>1, LineTypes DEF Line
  <2>2. \A k : (<<s, k>> \in ToAnswer("ok") <=> <<s, k, "ok">> \in f)
            /\ (<<s, k>> \in ToAnswer("failed") <=> <<s, k, "failed">> \in f)
    <3>1. \A x \in f : x = <<x[1], x[2], x[3]>>
      BY DEF CallTypes
    <3> QED BY <3>1 DEF ToAnswer
  <2>3. DOMAIN c = 1..Len(c) /\ 1..Len(c) \subseteq Nat
    BY <2>1, LenProperties
  <2>4. "ok" \in Answers /\ "failed" \in Answers
    BY DEF Answers
  <2>5. /\ Marked(c, K, "ok") \in Seq(CallRecords) /\ Len(b) = Len(c)
        /\ \A k \in 1..Len(c) : b[k].size = c[k].size /\ b[k].answer = IF k \in K THEN "ok" ELSE c[k].answer
    <3> HIDE DEF c, K
    <3> QED BY <2>1, <2>4, MarkedTypes
  <2>6. /\ Marked(b, L, "failed") \in Seq(CallRecords) /\ Len(d) = Len(b)
        /\ \A k \in 1..Len(b) : d[k].size = b[k].size /\ d[k].answer = IF k \in L THEN "failed" ELSE b[k].answer
    <3>1. b \in Seq(CallRecords)
      BY <2>5
    <3> HIDE DEF b, L
    <3> QED BY <2>4, <3>1, MarkedTypes
  <2>7. Answered(calls, ToAnswer("ok"), "ok")[s] = b
    BY <2>2, <2>3 DEF Answered, Marked
  <2>8. calls'[s] = d
    <3> DEFINE e == Answered(calls, ToAnswer("ok"), "ok")
    <3>1. e[s] = b /\ DOMAIN b = 1..Len(c)
      BY <2>3, <2>7 DEF Marked
    <3>2. calls' = Answered(e, ToAnswer("failed"), "failed")
      BY DEF Flushed
    <3> HIDE DEF e, b
    <3>3. Answered(e, ToAnswer("failed"), "failed")[s] = Marked(b, L, "failed")
      BY <2>2, <2>3, <3>1 DEF Answered, Marked
    <3> QED BY <3>2, <3>3
  <2>9. UNCHANGED <<queue, pending, sent>> /\ after_flush' = {}
    BY DEF Flushed
  <2>10. Line(s, queue, p, {}, d)
    <3> HIDE DEF p, c, f
    <3> QED BY <2>1, FlushAnswered
  <2>11. \A k \in 1..Len(c) : /\ d[k].size = c[k].size
                              /\ d[k].answer = "ok" => c[k].answer = "ok" \/ <<s, k, "ok">> \in f
    <3>1. \A k \in K : <<s, k, "ok">> \in f
      OBVIOUS
    <3> HIDE DEF K, L, d, b
    <3> QED BY <2>5, <2>6, <3>1
  <2> HIDE DEF d, b, K, L, p, c, f
  <2>12. Len(d) = Len(c)
    BY <2>5, <2>6
  <2>13. Paid(s, p, {}, d, sent[s])
    BY <2>1, <2>10, <2>11, <2>12, PaidAnswered
  <2> QED BY <2>8, <2>9, <2>10, <2>13 DEF Stands, p
<1> QED BY <1>1 DEF LinesInv, Stands

LEMMA StandsEnds ==
  ASSUME StateTypes, CallTypes, LinesInv, Ends
  PROVE  LinesInv'
<1>1. ASSUME NEW s \in SendStreams PROVE Stands(s)'
  <2> DEFINE f == after_flush
             c == calls[s]
             p == pending[s]
             K == {k \in DOMAIN c : c[k].answer = "none"}
             d == Marked(c, K, "failed")
             e == <<>>
             g == {}
  <2>1. Line(s, queue, p, f, c) /\ Paid(s, p, f, c, sent[s])
    BY DEF LinesInv
  <2>2. \A k \in DOMAIN c : <<s, k>> \in Unanswered <=> k \in K
    BY DEF Unanswered, Made
  <2>3. calls'[s] = d
    BY <2>2 DEF Ends, Answered, Marked
  <2>4. queue' = e /\ pending'[s] = e /\ after_flush' = g /\ sent' = sent
    BY DEF Ends
  <2>5. Line(s, e, e, g, d)
    <3> HIDE DEF p, c, f
    <3> QED BY <2>1, LineEnds
  <2>6. Paid(s, e, g, d, sent[s])
    <3>1. e \in {p, <<>>} /\ g \in SUBSET f /\ Line(s, e, e, g, Marked(c, K, "failed"))
      BY <2>5
    <3> HIDE DEF p, c, K, e, g, f
    <3> QED BY <2>1, <3>1, PaidMarked
  <2> HIDE DEF d, e, g
  <2> QED BY <2>3, <2>4, <2>5, <2>6 DEF Stands
<1> QED BY <1>1 DEF LinesInv, Stands

LEMMA StandsOpenTaken ==
  ASSUME StateTypes, LinesInv, HandleOpen
  PROVE  LinesInv'
<1>1. \A t \in SendStreams : Spared(t)
  BY DEF HandleOpen, Take, appVars, Spared, Mine, Calling
<1> QED BY <1>1, SparedStands DEF LinesInv, Stands

(* A call that comes too late fails.                                        *)
LEMMA StandsRefused ==
  ASSUME StateTypes, CallTypes, LinesInv, queue # <<>>, QueueHead.type \in Calling, queue' = Tail(queue),
         Fails({<<QueueHead.of, QueueHead.call>>}), UNCHANGED <<pending, after_flush, sent>>
  PROVE  LinesInv'
<1>0. PICK s \in SendStreams : s = QueueHead.of
  BY CommandCalls
<1> DEFINE k == Head(queue).call
           p == pending[s]
           c == calls[s]
           d == Marked(c, {k}, "failed")
<1>1. Mine(Head(queue), s) /\ k = QueueHead.call
  BY <1>0, CommandCalls DEF QueueHead
<1>2. Line(s, queue, p, after_flush, c) /\ Paid(s, p, after_flush, c, sent[s])
  BY <1>1 DEF LinesInv
<1>3. calls'[s] = d /\ \A t \in SendStreams : t # s => calls'[t] = calls[t]
  <2>1. Fails({<<s, k>>})
    BY <1>0, <1>1
  <2> HIDE DEF k
  <2> QED BY <1>1, <2>1, FailsOne
<1>4. \A t \in SendStreams : t # s => Spared(t)
  BY <1>0, <1>3 DEF Spared, Mine, QueueHead
<1> HIDE DEF p, c
<1>5. Line(s, Tail(queue), p, after_flush, d)
  BY <1>1, <1>2, QueueHeadFailed
<1>6. Paid(s, p, after_flush, d, sent[s])
  <2> DEFINE K == {k}
  <2>1. p \in {p, <<>>} /\ after_flush \in SUBSET after_flush
        /\ Line(s, Tail(queue), p, after_flush, Marked(c, K, "failed"))
    BY <1>5
  <2> HIDE DEF K
  <2>2. Paid(s, p, after_flush, Marked(c, K, "failed"), sent[s])
    BY <1>2, <2>1, PaidMarked
  <2> QED BY <2>2 DEF K
<1>7. Stands(s)'
  BY <1>3, <1>5, <1>6 DEF Stands, p
<1> QED BY <1>1, <1>4, <1>7, StandsOne

LEMMA StandsSend ==
  ASSUME StateTypes, CallTypes, LinesInv, HandleSend
  PROVE  LinesInv'
<1>0. PICK s \in SendStreams : s = QueueHead.of
  BY CommandCalls DEF HandleSend, Take, QueueHead, Calling
<1> DEFINE p == pending[s]
           c == calls[s]
           job == [size |-> Head(queue).size, call |-> Head(queue).call]
<1>1. /\ queue # <<>> /\ queue' = Tail(queue) /\ QueueHead.type \in Calling
      /\ UNCHANGED <<after_flush, sent>>
  BY DEF HandleSend, Take, QueueHead, Calling
<1>2. Mine(Head(queue), s)
  BY <1>0, <1>1, CommandCalls
<1>3. CASE ~CanSend(s)
  BY <1>0, <1>1, <1>3, StandsRefused DEF HandleSend
<1>4. CASE CanSend(s)
  <2>1. pending' = [pending EXCEPT ![s] = Append(p, job)] /\ calls' = calls
    BY <1>0, <1>4 DEF HandleSend, QueueHead
  <2>2. Line(s, queue, p, after_flush, c) /\ Paid(s, p, after_flush, c, sent[s])
    BY <1>2 DEF LinesInv
  <2>3. \A t \in SendStreams : t # s => Spared(t)
    BY <1>0, <1>1, <2>1 DEF Spared, Mine, QueueHead, StateTypes, DataTypes
  <2>4. pending'[s] = Append(p, job)
    BY <1>2, <2>1 DEF StateTypes, DataTypes
  <2> HIDE DEF p, c
  <2>5. Line(s, Tail(queue), Append(p, job), after_flush, c)
    BY <1>1, <1>2, <2>2, HeadAccepted
  <2>6. Paid(s, Append(p, job), after_flush, c, sent[s])
    BY <1>1, <1>2, <2>2, PaidAccepted
  <2> HIDE DEF job
  <2>7. Stands(s)'
    BY <1>1, <2>1, <2>4, <2>5, <2>6 DEF Stands, c
  <2> QED BY <1>2, <2>3, <2>7, StandsOne
<1> QED BY <1>3, <1>4

LEMMA StandsReset ==
  ASSUME StateTypes, CallTypes, LinesInv, HandleReset
  PROVE  LinesInv'
<1>0. PICK s \in SendStreams : s = QueueHead.of
  BY CommandCalls DEF HandleReset, Take, QueueHead, Calling
<1> DEFINE k == Head(queue).call
           p == pending[s]
           c == calls[s]
           d == Marked(c, CallsOf(p), "failed")
           e == <<>>
           g == after_flush \cup {<<s, k, "ok">>}
<1>1. /\ queue # <<>> /\ queue' = Tail(queue) /\ QueueHead.type \in Calling /\ UNCHANGED sent
      /\ QueueHead.type = "Reset"
  BY DEF HandleReset, Take, QueueHead, Calling
<1>2. Mine(Head(queue), s)
  BY <1>0, <1>1, CommandCalls
<1>3. CASE ~CanSend(s)
  BY <1>0, <1>1, <1>3, StandsRefused DEF HandleReset
<1>4. CASE CanSend(s)
  <2>1. FailPending(s) /\ Fails(PendingCalls(s)) /\ after_flush' = g
    BY <1>0, <1>4 DEF HandleReset, QueueHead
  <2>2. Line(s, queue, p, after_flush, c) /\ Paid(s, p, after_flush, c, sent[s])
    BY <1>2 DEF LinesInv
  <2>3. calls'[s] = d /\ \A t \in SendStreams : t # s => calls'[t] = calls[t]
    <3> QED BY <1>2, <2>1, FailsPending
  <2>4. pending'[s] = e /\ \A t \in SendStreams : t # s => pending'[t] = pending[t]
    BY <1>2, <2>1 DEF FailPending, StateTypes, DataTypes
  <2>5. \A t \in SendStreams : t # s => Spared(t)
    <3>1. \A t : t # s => \A i, a : <<t, i, a>> \in g <=> <<t, i, a>> \in after_flush
      OBVIOUS
    <3> HIDE DEF g
    <3> QED BY <1>0, <1>1, <2>1, <2>3, <2>4, <3>1 DEF Spared, Mine, QueueHead
  <2>6. Line(s, queue, <<>>, after_flush, d)
    <3> HIDE DEF p, c
    <3> QED BY <2>2, PendingFails
  <2>7. Paid(s, <<>>, after_flush, d, sent[s])
    <3> DEFINE K == CallsOf(p)
    <3>1. e \in {p, <<>>} /\ after_flush \in SUBSET after_flush /\ Line(s, queue, e, after_flush, Marked(c, K, "failed"))
      BY <2>6
    <3> HIDE DEF p, c, K, e
    <3>2. Paid(s, e, after_flush, Marked(c, K, "failed"), sent[s])
      BY <2>2, <3>1, PaidMarked
    <3> QED BY <3>2 DEF e, K
  <2> HIDE DEF p, c, d
  <2>8. Line(s, Tail(queue), <<>>, after_flush \cup {<<s, Head(queue).call, "ok">>}, d)
    BY <1>1, <1>2, <2>6, ResetTaken
  <2>9. Paid(s, <<>>, after_flush \cup {<<s, Head(queue).call, "ok">>}, d, sent[s])
    BY <1>1, <1>2, <2>6, <2>7, PaidReset DEF QueueHead
  <2>10. Stands(s)'
    BY <1>1, <2>1, <2>3, <2>4, <2>8, <2>9 DEF Stands
  <2> QED BY <1>2, <2>5, <2>10, StandsOne
<1> QED BY <1>3, <1>4

LEMMA StandsDropped ==
  ASSUME StateTypes, CallTypes, LinesInv, HandleDrop
  PROVE  LinesInv'
<1>0. PICK s \in SendStreams : s = QueueHead.of
  BY QueueHeadTypes DEF HandleDrop, Take
<1> DEFINE p == pending[s]
           c == calls[s]
           d == Marked(c, CallsOf(p), "failed")
           w == Tail(queue)
<1>1. /\ queue # <<>> /\ queue' = w /\ QueueHead.type = "Drop" /\ UNCHANGED <<sent, after_flush>>
      /\ FailPending(s) /\ Fails(PendingCalls(s))
  BY <1>0 DEF HandleDrop, Take, QueueHead
<1>2. \A t : ~Mine(Head(queue), t)
  BY <1>1, QueueHeadTypes DEF Mine, QueueHead, Calling
<1>3. calls'[s] = d /\ \A t \in SendStreams : t # s => calls'[t] = calls[t]
  <2> QED BY <1>1, <1>2, FailsPending
<1>4. pending'[s] = <<>> /\ \A t \in SendStreams : t # s => pending'[t] = pending[t]
  BY <1>1, <1>2 DEF FailPending, StateTypes, DataTypes
<1>5. \A t \in SendStreams : t # s => Spared(t)
  BY <1>1, <1>2, <1>3, <1>4 DEF Spared
<1>6. Line(s, queue, p, after_flush, c) /\ Paid(s, p, after_flush, c, sent[s])
  BY <1>2 DEF LinesInv
<1> HIDE DEF p, c
<1>7. Line(s, w, p, after_flush, c)
  BY <1>1, <1>2, <1>6, OtherTaken
<1> HIDE DEF w
<1>8. Line(s, w, <<>>, after_flush, d)
  BY <1>7, PendingFails
<1>9. Paid(s, <<>>, after_flush, d, sent[s])
  <2> DEFINE K == CallsOf(p)
             e == <<>>
  <2>1. e \in {p, <<>>} /\ after_flush \in SUBSET after_flush /\ Line(s, w, e, after_flush, Marked(c, K, "failed"))
    BY <1>8
  <2> HIDE DEF K, e
  <2>2. Paid(s, e, after_flush, Marked(c, K, "failed"), sent[s])
    BY <1>6, <2>1, PaidMarked
  <2> QED BY <2>2 DEF e, K
<1>10. Stands(s)'
  BY <1>1, <1>3, <1>4, <1>8, <1>9 DEF Stands
<1> QED BY <1>2, <1>5, <1>10, StandsOne

LEMMA LinesNext ==
  ASSUME StateTypes, CallTypes, RoomInv, LinesInv, WorkInv, [SendNext]_sendVars
  PROVE  LinesInv'
<1>1. CASE PumpRefused \/ PumpOpened \/ PumpBlocked \/ Pumped \/ Draining \/ Grant \/ OtherEvent
  BY <1>1, StandsFrame DEF PumpRefused, PumpOpened, PumpBlocked, Pumped, Draining, Grant, OtherEvent,
                           appVars
<1>2. ASSUME NEW s \in SendStreams, FlushBlocked(s) \/ GiveUpOpen(s) \/ Return(s) \/ CancelWait(s)
      PROVE  LinesInv'
  BY <1>2, StandsFrame DEF FlushBlocked, FlushUnchanged, GiveUpOpen, Return, CancelWait, driverVars
<1>3. ASSUME NEW s \in SendStreams, Open(s) PROVE LinesInv'
  <2> DEFINE m == [type |-> "Open", of |-> s]
  <2>1. m \in SendCommands /\ m.type \notin Calling
    BY DEF SendCommands, OpenCommands, Calling
  <2>2. queue' = Append(queue, m) /\ UNCHANGED <<pending, after_flush, calls, sent>>
    BY <1>3 DEF Open, driverVars
  <2> HIDE DEF m
  <2> QED BY <2>1, <2>2, StandsQueued
<1>4. ASSUME NEW s \in SendStreams, DropStream(s) PROVE LinesInv'
  <2> DEFINE m == [type |-> "Drop", of |-> s, finished |-> finished[s]]
  <2>1. m \in SendCommands /\ m.type \notin Calling
    BY DEF SendCommands, DropCommands, Calling, StateTypes, DataTypes
  <2>2. (queue' = queue \/ queue' = Append(queue, m)) /\ UNCHANGED <<pending, after_flush, calls, sent>>
    BY <1>4 DEF DropStream, driverVars
  <2> HIDE DEF m
  <2> QED BY <2>1, <2>2, StandsQueued, StandsFrame
<1>5. CASE UNCHANGED sendVars
  BY <1>5, StandsFrame DEF sendVars, driverVars, appVars
<1> QED
  <2>1. CASE SendNext
    BY <1>1, <1>2, <1>3, <1>4, <2>1, SendCases, StandsCall, StandsFailed, StandsPart, StandsWhole,
       StandsFin, StandsFlushed, StandsEnds, StandsOpenTaken, StandsSend, StandsReset, StandsDropped
  <2> QED BY <1>5, <2>1

-----------------------------------------------------------------------------
(* The requests to open a stream, step by step.                             *)
Absent(r, q, w) ==
  /\ \A i \in 1..Len(q) : ~Asking(q[i], r)
  /\ \A i \in 1..Len(w) : w[i] # r

LEMMA AbsentDone ==
  ASSUME NEW r, NEW q, NEW w, NEW o, Absent(r, q, w), o # "waiting"
  PROVE  OpenLine(r, q, w, o)
BY DEF Absent, OpenLine

LEMMA AbsentWaits ==
  ASSUME NEW r \in SendStreams, NEW q, NEW w \in Seq(SendStreams), NEW o, Absent(r, q, w), o # "none"
  PROVE  OpenLine(r, q, Append(w, r), o)
<1> DEFINE v == Append(w, r)
           n == Len(w)
<1>1. n \in Nat /\ Len(v) = n + 1 /\ v[n + 1] = r /\ \A i \in 1..n : v[i] = w[i]
  BY LenProperties, AppendProperties
<1> HIDE DEF v
<1>2. \A i \in 1..Len(v) : v[i] = r => i = n + 1
  BY <1>1 DEF Absent
<1>3. n + 1 \in 1..Len(v)
  BY <1>1
<1>4. \A i, j \in 1..Len(v) : v[i] = r /\ v[j] = r => i = j
  BY <1>2
<1>5. \E i \in 1..Len(v) : v[i] = r
  BY <1>1, <1>3
<1>6. OpenLine(r, q, v, o)
  BY <1>4, <1>5 DEF OpenLine, Absent
<1> QED BY <1>6 DEF v

LEMMA OpenAsked ==
  ASSUME NEW r, NEW q \in Seq(SendCommands), NEW w, OpenLine(r, q, w, "none"),
         NEW m \in SendCommands, Asking(m, r)
  PROVE  OpenLine(r, Append(q, m), w, "waiting")
<1> DEFINE v == Append(q, m)
           n == Len(q)
<1>1. n \in Nat /\ Len(v) = n + 1 /\ v[n + 1] = m /\ \A i \in 1..n : v[i] = q[i]
  BY LenProperties, AppendProperties
<1>0. Absent(r, q, w)
  BY DEF OpenLine, Absent
<1> HIDE DEF v
<1>2. \A i \in 1..Len(v) : Asking(v[i], r) => i = n + 1
  BY <1>0, <1>1 DEF Absent
<1>3. n + 1 \in 1..Len(v)
  BY <1>1
<1>4. \A i, j \in 1..Len(v) : Asking(v[i], r) /\ Asking(v[j], r) => i = j
  BY <1>2
<1>5. \E i \in 1..Len(v) : Asking(v[i], r)
  BY <1>1, <1>3
<1>6. OpenLine(r, v, w, "waiting")
  BY <1>0, <1>4, <1>5 DEF OpenLine, Absent
<1> QED BY <1>6 DEF v

LEMMA OpenQueued ==
  ASSUME NEW r, NEW q \in Seq(SendCommands), NEW w, NEW o, OpenLine(r, q, w, o),
         NEW m \in SendCommands, ~Asking(m, r)
  PROVE  OpenLine(r, Append(q, m), w, o)
<1> DEFINE v == Append(q, m)
           n == Len(q)
<1>1. n \in Nat /\ Len(v) = n + 1 /\ v[n + 1] = m /\ \A i \in 1..n : v[i] = q[i]
  BY LenProperties, AppendProperties
<1> HIDE DEF v
<1>2. \A i \in 1..Len(v) : Asking(v[i], r) => i \in 1..Len(q) /\ v[i] = q[i]
  BY <1>1
<1>3. \A i \in 1..Len(q) : i \in 1..Len(v) /\ v[i] = q[i]
  BY <1>1
<1>4. OpenLine(r, v, w, o)
  BY <1>2, <1>3 DEF OpenLine
<1> QED BY <1>4 DEF v

LEMMA OtherWaits ==
  ASSUME NEW r, NEW q, NEW w \in Seq(SendStreams), NEW o, OpenLine(r, q, w, o),
         NEW x \in SendStreams, x # r
  PROVE  OpenLine(r, q, Append(w, x), o)
<1> DEFINE v == Append(w, x)
           n == Len(w)
<1>1. n \in Nat /\ Len(v) = n + 1 /\ v[n + 1] = x /\ \A i \in 1..n : v[i] = w[i]
  BY LenProperties, AppendProperties
<1> HIDE DEF v
<1>2. \A i \in 1..Len(v) : v[i] = r => i \in 1..Len(w) /\ v[i] = w[i]
  BY <1>1
<1>3. \A i \in 1..Len(w) : i \in 1..Len(v) /\ v[i] = w[i]
  BY <1>1
<1>4. OpenLine(r, q, v, o)
  BY <1>2, <1>3 DEF OpenLine
<1> QED BY <1>4 DEF v

LEMMA OtherPassed ==
  ASSUME NEW r, NEW q \in Seq(SendCommands), NEW w, NEW o, OpenLine(r, q, w, o),
         q # <<>>, ~Asking(Head(q), r)
  PROVE  OpenLine(r, Tail(q), w, o)
<1> DEFINE v == Tail(q)
<1>1. /\ Len(v) = Len(q) - 1 /\ Len(q) \in Nat /\ Head(q) = q[1]
      /\ \A i \in 1..Len(v) : v[i] = q[i + 1] /\ i + 1 \in 1..Len(q)
  BY TailElements
<1> HIDE DEF v
<1>2. \A i \in 1..Len(q) : Asking(q[i], r) => i - 1 \in 1..Len(v) /\ v[i - 1] = q[i]
  <2> SUFFICES ASSUME NEW i \in 1..Len(q), Asking(q[i], r) PROVE i - 1 \in 1..Len(v) /\ v[i - 1] = q[i]
    OBVIOUS
  <2>1. i # 1
    BY <1>1
  <2>2. i - 1 \in 1..Len(v) /\ (i - 1) + 1 = i
    BY <1>1, <2>1
  <2> QED BY <1>1, <2>2
<1>3. /\ o = "none" => /\ \A i \in 1..Len(v) : ~Asking(v[i], r)
                       /\ \A i \in 1..Len(w) : w[i] # r
      /\ o = "waiting" => \/ \E i \in 1..Len(v) : Asking(v[i], r)
                          \/ \E i \in 1..Len(w) : w[i] = r
      /\ \A i \in 1..Len(v) : \A j \in 1..Len(w) : ~(Asking(v[i], r) /\ w[j] = r)
  BY <1>1, <1>2 DEF OpenLine
<1>4. \A i, j \in 1..Len(v) : Asking(v[i], r) /\ Asking(v[j], r) => i = j
  <2> SUFFICES ASSUME NEW i \in 1..Len(v), NEW j \in 1..Len(v), Asking(v[i], r), Asking(v[j], r)
               PROVE  i = j
    OBVIOUS
  <2>1. i + 1 = j + 1
    BY <1>1 DEF OpenLine
  <2> QED BY <2>1
<1>5. OpenLine(r, v, w, o)
  BY <1>3, <1>4 DEF OpenLine
<1> QED BY <1>5 DEF v

LEMMA OtherServed ==
  ASSUME NEW r, NEW q, NEW w \in Seq(SendStreams), NEW o, OpenLine(r, q, w, o),
         w # <<>>, Head(w) # r
  PROVE  OpenLine(r, q, Tail(w), o)
<1> DEFINE v == Tail(w)
<1>1. /\ Len(v) = Len(w) - 1 /\ Len(w) \in Nat /\ Head(w) = w[1]
      /\ \A i \in 1..Len(v) : v[i] = w[i + 1] /\ i + 1 \in 1..Len(w)
  BY TailElements
<1> HIDE DEF v
<1>2. \A i \in 1..Len(w) : w[i] = r => i - 1 \in 1..Len(v) /\ v[i - 1] = w[i]
  <2> SUFFICES ASSUME NEW i \in 1..Len(w), w[i] = r PROVE i - 1 \in 1..Len(v) /\ v[i - 1] = w[i]
    OBVIOUS
  <2>1. i # 1
    BY <1>1
  <2>2. i - 1 \in 1..Len(v) /\ (i - 1) + 1 = i
    BY <1>1, <2>1
  <2> QED BY <1>1, <2>2
<1>3. /\ o = "none" => /\ \A i \in 1..Len(q) : ~Asking(q[i], r)
                       /\ \A i \in 1..Len(v) : v[i] # r
      /\ o = "waiting" => \/ \E i \in 1..Len(q) : Asking(q[i], r)
                          \/ \E i \in 1..Len(v) : v[i] = r
      /\ \A i \in 1..Len(q) : \A j \in 1..Len(v) : ~(Asking(q[i], r) /\ v[j] = r)
  BY <1>1, <1>2 DEF OpenLine
<1>4. \A i, j \in 1..Len(v) : v[i] = r /\ v[j] = r => i = j
  <2> SUFFICES ASSUME NEW i \in 1..Len(v), NEW j \in 1..Len(v), v[i] = r, v[j] = r
               PROVE  i = j
    OBVIOUS
  <2>1. i + 1 = j + 1
    BY <1>1 DEF OpenLine
  <2> QED BY <2>1
<1>5. OpenLine(r, q, v, o)
  BY <1>3, <1>4 DEF OpenLine
<1> QED BY <1>5 DEF v

LEMMA OpenTaken ==
  ASSUME NEW r, NEW q \in Seq(SendCommands), NEW w, NEW o, OpenLine(r, q, w, o),
         q # <<>>, Asking(Head(q), r)
  PROVE  Absent(r, Tail(q), w) /\ o # "none"
<1> DEFINE v == Tail(q)
<1>1. /\ Len(v) = Len(q) - 1 /\ Len(q) \in Nat \ {0} /\ Head(q) = q[1]
      /\ \A i \in 1..Len(v) : v[i] = q[i + 1] /\ i + 1 \in 1..Len(q)
  BY TailElements
<1> HIDE DEF v
<1>2. 1 \in 1..Len(q) /\ Asking(q[1], r)
  BY <1>1
<1>3. \A i \in 1..Len(v) : ~Asking(v[i], r)
  <2> SUFFICES ASSUME NEW i \in 1..Len(v), Asking(v[i], r) PROVE FALSE
    OBVIOUS
  <2>1. i + 1 = 1
    BY <1>1, <1>2 DEF OpenLine
  <2> QED BY <2>1
<1>4. o # "none" /\ \A i \in 1..Len(w) : w[i] # r
  BY <1>2 DEF OpenLine
<1> QED BY <1>3, <1>4 DEF v, Absent

LEMMA OpenServed ==
  ASSUME NEW r, NEW q, NEW w \in Seq(SendStreams), NEW o, OpenLine(r, q, w, o),
         w # <<>>, Head(w) = r
  PROVE  Absent(r, q, Tail(w)) /\ o # "none"
<1> DEFINE v == Tail(w)
<1>1. /\ Len(v) = Len(w) - 1 /\ Len(w) \in Nat \ {0} /\ Head(w) = w[1]
      /\ \A i \in 1..Len(v) : v[i] = w[i + 1] /\ i + 1 \in 1..Len(w)
  BY TailElements
<1> HIDE DEF v
<1>2. 1 \in 1..Len(w) /\ w[1] = r
  BY <1>1
<1>3. \A i \in 1..Len(v) : v[i] # r
  <2> SUFFICES ASSUME NEW i \in 1..Len(v), v[i] = r PROVE FALSE
    OBVIOUS
  <2>1. i + 1 = 1
    BY <1>1, <1>2 DEF OpenLine
  <2> QED BY <2>1
<1>4. o # "none" /\ \A i \in 1..Len(q) : ~Asking(q[i], r)
  BY <1>2 DEF OpenLine
<1> QED BY <1>3, <1>4 DEF v, Absent

LEMMA OpensFrame ==
  ASSUME OpensInv, UNCHANGED <<queue, opened, open>>
  PROVE  OpensInv'
BY DEF OpensInv

(* The request at the head of those that wait is answered, or goes to the   *)
(* back.                                                                    *)
LEMMA OpensPumped ==
  ASSUME StateTypes, OpensInv, PumpRefused \/ PumpOpened \/ PumpBlocked
  PROVE  OpensInv'
<1>1. PICK x \in SendStreams : x = Head(opened) /\ x = Waiting
  BY WaitingTypes DEF PumpRefused, PumpOpened, PumpBlocked, Waiting
<1>2. /\ opened # <<>> /\ opened \in Seq(SendStreams) /\ Tail(opened) \in Seq(SendStreams)
      /\ open \in [SendStreams -> {"none", "waiting", "given up", "ok", "failed"}]
  <2>1. opened # <<>>
    BY WaitingTypes DEF PumpRefused, PumpOpened, PumpBlocked
  <2> QED BY <2>1, HeadTailProperties DEF StateTypes, TurnTypes, DataTypes
<1>3. queue' = queue /\ \A r \in SendStreams : r # x => open'[r] = open[r]
  BY <1>1, <1>2 DEF PumpRefused, PumpOpened, PumpBlocked, appVars
<1>4. \/ opened' = Tail(opened) /\ open'[x] # "waiting"
      \/ opened' = Append(Tail(opened), x) /\ open'[x] = open[x]
  BY <1>1, <1>2 DEF PumpRefused, PumpOpened, PumpBlocked, appVars
<1>5. Absent(x, queue, Tail(opened)) /\ open[x] # "none"
  <2>1. OpenLine(x, queue, opened, open[x])
    BY DEF OpensInv
  <2> QED BY <1>1, <1>2, <2>1, OpenServed
<1>6. OpenLine(x, queue', opened', open'[x])
  BY <1>2, <1>3, <1>4, <1>5, AbsentDone, AbsentWaits
<1>7. ASSUME NEW r \in SendStreams, r # x PROVE OpenLine(r, queue', opened', open'[r])
  <2>1. OpenLine(r, queue, opened, open[r])
    BY DEF OpensInv
  <2>2. OpenLine(r, queue, Tail(opened), open[r])
    BY <1>1, <1>2, <1>7, <2>1, OtherServed
  <2>3. OpenLine(r, queue, Append(Tail(opened), x), open[r])
    BY <1>2, <1>7, <2>2, OtherWaits
  <2> QED BY <1>3, <1>4, <1>7, <2>2, <2>3
<1> QED BY <1>6, <1>7 DEF OpensInv

(* A request reaches the driver.                                            *)
LEMMA OpensHandled ==
  ASSUME StateTypes, OpensInv, HandleOpen
  PROVE  OpensInv'
<1>1. /\ queue # <<>> /\ queue \in Seq(SendCommands) /\ Tail(queue) \in Seq(SendCommands)
      /\ opened \in Seq(SendStreams) /\ queue' = Tail(queue) /\ open' = open
      /\ QueueHead.type = "Open"
  BY QueueHeadTypes DEF HandleOpen, Take, appVars, StateTypes, TurnTypes, DataTypes, QueueHead
<1>2. PICK x \in SendStreams : x = QueueHead.of
  BY <1>1, QueueHeadTypes
<1>3. opened' = Append(opened, x) /\ \A r \in SendStreams : Asking(Head(queue), r) <=> r = x
  BY <1>1, <1>2 DEF HandleOpen, QueueHead, Asking
<1>4. OpenLine(x, queue', opened', open'[x])
  <2>1. OpenLine(x, queue, opened, open[x])
    BY DEF OpensInv
  <2>2. Absent(x, Tail(queue), opened) /\ open[x] # "none"
    BY <1>1, <1>3, <2>1, OpenTaken
  <2> QED BY <1>1, <1>3, <2>2, AbsentWaits
<1>5. ASSUME NEW r \in SendStreams, r # x PROVE OpenLine(r, queue', opened', open'[r])
  <2>1. OpenLine(r, queue, opened, open[r])
    BY DEF OpensInv
  <2>2. OpenLine(r, Tail(queue), opened, open[r])
    BY <1>1, <1>3, <1>5, <2>1, OtherPassed
  <2>3. OpenLine(r, Tail(queue), Append(opened, x), open[r])
    BY <1>1, <1>5, <2>2, OtherWaits
  <2> QED BY <1>1, <1>3, <2>3
<1> QED BY <1>4, <1>5 DEF OpensInv

(* A command that is no request comes or goes.                              *)
LEMMA OpensOtherQueued ==
  ASSUME StateTypes, OpensInv, NEW m \in SendCommands, m.type # "Open",
         queue' = Append(queue, m), UNCHANGED <<opened, open>>
  PROVE  OpensInv'
<1>1. \A r \in SendStreams : ~Asking(m, r)
  BY DEF Asking
<1>2. queue \in Seq(SendCommands)
  BY DEF StateTypes, DataTypes
<1> QED BY <1>1, <1>2, OpenQueued DEF OpensInv

LEMMA OpensOtherTaken ==
  ASSUME StateTypes, OpensInv, HandleSend \/ HandleReset \/ HandleDrop
  PROVE  OpensInv'
<1>1. /\ queue # <<>> /\ queue' = Tail(queue) /\ QueueHead.type # "Open" /\ UNCHANGED <<opened, open>>
  BY DEF HandleSend, HandleReset, HandleDrop, Take, QueueHead
<1>2. queue \in Seq(SendCommands) /\ \A r \in SendStreams : ~Asking(Head(queue), r)
  BY <1>1 DEF Asking, QueueHead, StateTypes, DataTypes
<1> QED BY <1>1, <1>2, OtherPassed DEF OpensInv

LEMMA OpensCalled ==
  ASSUME StateTypes, CallTypes, OpensInv, NEW s \in SendStreams,
         Open(s) \/ GiveUpOpen(s) \/ CallStep(s) \/ DropStream(s)
  PROVE  OpensInv'
<1>1. CASE Open(s)
  <2> DEFINE m == [type |-> "Open", of |-> s]
  <2>1. m \in SendCommands /\ \A r \in SendStreams : Asking(m, r) <=> r = s
    BY DEF SendCommands, OpenCommands, Asking
  <2>2. queue' = Append(queue, m) /\ opened' = opened /\ open[s] = "none"
        /\ open' = [open EXCEPT ![s] = "waiting"]
    BY <1>1 DEF Open, driverVars
  <2>3. queue \in Seq(SendCommands) /\ open'[s] = "waiting"
        /\ \A r \in SendStreams : r # s => open'[r] = open[r]
    BY <2>2 DEF StateTypes, DataTypes
  <2> HIDE DEF m
  <2>4. OpenLine(s, queue', opened', open'[s])
    <3>1. OpenLine(s, queue, opened, "none")
      BY <2>2 DEF OpensInv
    <3> QED BY <2>1, <2>2, <2>3, <3>1, OpenAsked
  <2>5. ASSUME NEW r \in SendStreams, r # s PROVE OpenLine(r, queue', opened', open'[r])
    <3>1. OpenLine(r, queue, opened, open[r])
      BY DEF OpensInv
    <3> QED BY <2>1, <2>2, <2>3, <2>5, <3>1, OpenQueued
  <2> QED BY <2>4, <2>5 DEF OpensInv
<1>2. CASE GiveUpOpen(s)
  <2>1. queue' = queue /\ opened' = opened /\ open'[s] = "given up" /\ open[s] # "none"
        /\ \A r \in SendStreams : r # s => open'[r] = open[r]
    BY <1>2 DEF GiveUpOpen, driverVars, StateTypes, DataTypes
  <2>2. ASSUME NEW r \in SendStreams PROVE OpenLine(r, queue', opened', open'[r])
    <3>1. OpenLine(r, queue, opened, open[r])
      BY DEF OpensInv
    <3> QED BY <2>1, <3>1 DEF OpenLine
  <2> QED BY <2>2 DEF OpensInv
<1>3. CASE CallStep(s)
  <2>1. PICK op \in Calling, n \in Nat : Call(s, op, n)
    BY <1>3 DEF CallStep
  <2> DEFINE l == Len(calls[s])
             m == [type |-> op, of |-> s, call |-> l + 1, size |-> n]
  <2>2. l \in Nat
    BY LenProperties DEF CallTypes
  <2>3. queue' = Append(queue, m) /\ UNCHANGED <<opened, open>>
    BY <2>1 DEF Call, driverVars
  <2> HIDE DEF l
  <2>4. l + 1 \in Nat
    BY <2>2
  <2>5. m \in SendCommands /\ m.type # "Open"
    BY <2>4 DEF SendCommands, CallCommands, Calling
  <2> HIDE DEF m
  <2> QED BY <2>3, <2>5, OpensOtherQueued
<1>4. CASE DropStream(s)
  <2> DEFINE m == [type |-> "Drop", of |-> s, finished |-> finished[s]]
  <2>1. m \in SendCommands /\ m.type # "Open"
    BY DEF SendCommands, DropCommands, StateTypes, DataTypes
  <2>2. (queue' = queue \/ queue' = Append(queue, m)) /\ UNCHANGED <<opened, open>>
    BY <1>4 DEF DropStream, driverVars
  <2> HIDE DEF m
  <2> QED BY <2>1, <2>2, OpensOtherQueued, OpensFrame
<1> QED BY <1>1, <1>2, <1>3, <1>4

LEMMA OpensNext ==
  ASSUME StateTypes, CallTypes, OpensInv, [SendNext]_sendVars
  PROVE  OpensInv'
<1>1. CASE Pumped \/ Flushed \/ Draining \/ Grant \/ OtherEvent
  <2>1. UNCHANGED <<queue, opened, open>>
    BY <1>1 DEF Pumped, Flushed, Draining, Grant, OtherEvent, appVars, LastEvent, NextEvent, InTurn
  <2> QED BY <2>1, OpensFrame
<1>2. ASSUME NEW s \in SendStreams,
             \/ FlushClosed(s) \/ FlushBlocked(s) \/ FlushPart(s) \/ FlushWhole(s) \/ FlushFin(s)
             \/ StopSending(s) \/ Return(s) \/ CancelWait(s)
      PROVE  OpensInv'
  <2>1. UNCHANGED <<queue, opened, open>>
    BY <1>2 DEF FlushClosed, FlushBlocked, FlushPart, FlushWhole, FlushFin, FlushUnchanged,
                StopSending, Return, CancelWait, driverVars, LastEvent, NextEvent, InTurn
  <2> QED BY <2>1, OpensFrame
<1>3. CASE Ends
  <2>1. queue' = <<>> /\ opened' = <<>> /\ \A r \in SendStreams : open'[r] # "waiting"
    BY <1>3 DEF Ends
  <2>2. \A r \in SendStreams : Absent(r, queue', opened')
    BY <2>1 DEF Absent
  <2> QED BY <2>1, <2>2, AbsentDone DEF OpensInv
<1>4. CASE UNCHANGED sendVars
  BY <1>4, OpensFrame DEF sendVars, driverVars, appVars
<1> QED
  <2>1. CASE SendNext
    BY <1>1, <1>2, <1>3, <2>1, SendCases, OpensPumped, OpensHandled, OpensOtherTaken, OpensCalled
  <2> QED BY <1>4, <2>1

-----------------------------------------------------------------------------
(* What is held was opened.                                                *)

(* No stream is unopened, and no command comes.                             *)
LEMMA HeldFewer ==
  ASSUME StateTypes, HeldInv, \A s \in SendStreams : direction[s] # "none" => direction'[s] # "none",
         \A s \in SendStreams : handle'[s] # "none" => handle[s] # "none" \/ direction'[s] # "none",
         \/ queue' = queue
         \/ queue # <<>> /\ queue' = Tail(queue)
         \/ queue' = <<>>
         \/ \E m \in SendCommands : /\ queue' = Append(queue, m)
                                    /\ m.type = "Drop" => direction'[m.of] # "none"
  PROVE  HeldInv'
<1>1. queue \in Seq(SendCommands) /\ Len(queue) \in Nat
      /\ \A i \in 1..Len(queue) : queue[i] \in SendCommands /\ queue[i].of \in SendStreams
  <2>1. queue \in Seq(SendCommands)
    BY DEF StateTypes, DataTypes
  <2>2. \A m \in SendCommands : m.of \in SendStreams
    BY DEF SendCommands, OpenCommands, CallCommands, DropCommands
  <2> QED BY <2>1, <2>2, LenProperties, ElementOfSeq
<1>2. \A i \in 1..Len(queue) : queue[i].type = "Drop" => direction'[queue[i].of] # "none"
  BY <1>1 DEF HeldInv
<1>3. \A i \in 1..Len(queue') : queue'[i].type = "Drop" => direction'[queue'[i].of] # "none"
  <2>1. CASE queue' = queue
    BY <1>2, <2>1
  <2>2. CASE queue # <<>> /\ queue' = Tail(queue)
    <3>1. \A i \in 1..Len(Tail(queue)) : Tail(queue)[i] = queue[i + 1] /\ i + 1 \in 1..Len(queue)
      BY <1>1, <2>2, TailElements
    <3> QED BY <1>2, <2>2, <3>1
  <2>3. CASE queue' = <<>>
    BY <2>3
  <2>4. ASSUME NEW m \in SendCommands, queue' = Append(queue, m), m.type = "Drop" => direction'[m.of] # "none"
        PROVE  \A i \in 1..Len(queue') : queue'[i].type = "Drop" => direction'[queue'[i].of] # "none"
    <3> DEFINE v == Append(queue, m)
               n == Len(queue)
    <3>1. n \in Nat /\ Len(v) = n + 1 /\ v[n + 1] = m /\ \A i \in 1..n : v[i] = queue[i]
      BY <1>1, AppendProperties
    <3>2. queue' = v
      BY <2>4
    <3> HIDE DEF v
    <3>3. \A i \in 1..Len(v) : v[i] = m \/ (i \in 1..Len(queue) /\ v[i] = queue[i])
      BY <3>1
    <3> QED BY <1>2, <2>4, <3>2, <3>3
  <2> QED BY <2>1, <2>2, <2>3, <2>4
<1> QED BY <1>3 DEF HeldInv

LEMMA HeldNext ==
  ASSUME StateTypes, CallTypes, HeldInv, [SendNext]_sendVars
  PROVE  HeldInv'
<1> DEFINE Directed == \A s \in SendStreams : direction[s] # "none" => direction'[s] # "none"
           Held == \A s \in SendStreams : handle'[s] # "none" => handle[s] # "none" \/ direction'[s] # "none"
<1>1. CASE \/ PumpRefused \/ PumpBlocked \/ Pumped \/ Flushed \/ Draining \/ Grant \/ OtherEvent
           \/ UNCHANGED sendVars
  <2>1. UNCHANGED <<queue, direction, handle>>
    BY <1>1 DEF PumpRefused, PumpBlocked, Pumped, Flushed, Draining, Grant, OtherEvent, appVars,
                sendVars
  <2> QED BY <2>1, HeldFewer
<1>2. CASE PumpOpened
  <2>1. queue' = queue /\ direction' = [direction EXCEPT ![Waiting] = "open"]
        /\ handle' = [handle EXCEPT ![Waiting] = "held"]
    BY <1>2 DEF PumpOpened
  <2> QED BY <2>1, HeldFewer DEF StateTypes, DataTypes
<1>3. CASE HandleOpen \/ HandleSend
  <2>1. queue # <<>> /\ queue' = Tail(queue) /\ UNCHANGED <<direction, handle>>
    BY <1>3 DEF HandleOpen, HandleSend, Take, appVars
  <2> QED BY <2>1, HeldFewer
<1>4. CASE HandleReset \/ HandleDrop
  <2>1. queue # <<>> /\ queue' = Tail(queue) /\ handle' = handle
    BY <1>4 DEF HandleReset, HandleDrop, Take
  <2>2. direction' = direction \/ direction' = [direction EXCEPT ![QueueHead.of] = "reset"]
    BY <1>4 DEF HandleReset, HandleDrop
  <2>3. Directed
    BY <2>2 DEF StateTypes, DataTypes
  <2> QED BY <2>1, <2>3, HeldFewer
<1>5. CASE Ends
  <2>1. queue' = <<>> /\ UNCHANGED <<direction, handle>>
    BY <1>5 DEF Ends
  <2> QED BY <2>1, HeldFewer
<1>6. ASSUME NEW s \in SendStreams,
             \/ FlushClosed(s) \/ FlushBlocked(s) \/ FlushPart(s) \/ FlushWhole(s)
             \/ StopSending(s) \/ Return(s) \/ CancelWait(s) \/ GiveUpOpen(s)
      PROVE  HeldInv'
  <2>1. UNCHANGED <<queue, direction, handle>>
    BY <1>6 DEF FlushClosed, FlushBlocked, FlushPart, FlushWhole, FlushUnchanged, StopSending, Return,
                CancelWait, GiveUpOpen
  <2> QED BY <2>1, HeldFewer
<1>7. ASSUME NEW s \in SendStreams, FlushFin(s) PROVE HeldInv'
  <2>1. UNCHANGED <<queue, handle>> /\ direction' = [direction EXCEPT ![s] = "fin"]
    BY <1>7 DEF FlushFin, FlushUnchanged
  <2> QED BY <2>1, HeldFewer DEF StateTypes, DataTypes
<1>8. ASSUME NEW s \in SendStreams, Open(s) PROVE HeldInv'
  <2> DEFINE m == [type |-> "Open", of |-> s]
  <2>1. m \in SendCommands /\ m.type # "Drop"
    BY DEF SendCommands, OpenCommands
  <2>2. queue' = Append(queue, m) /\ UNCHANGED <<direction, handle>>
    BY <1>8 DEF Open
  <2> HIDE DEF m
  <2> QED BY <2>1, <2>2, HeldFewer
<1>9. ASSUME NEW s \in SendStreams, CallStep(s) PROVE HeldInv'
  <2>1. PICK op \in Calling, n \in Nat : Call(s, op, n)
    BY <1>9 DEF CallStep
  <2> DEFINE l == Len(calls[s])
             m == [type |-> op, of |-> s, call |-> l + 1, size |-> n]
  <2>2. l \in Nat
    BY LenProperties DEF CallTypes
  <2>3. queue' = Append(queue, m) /\ UNCHANGED <<direction, handle>>
    BY <2>1 DEF Call
  <2> HIDE DEF l
  <2>4. l + 1 \in Nat
    BY <2>2
  <2>5. m \in SendCommands /\ m.type # "Drop"
    BY <2>4 DEF SendCommands, CallCommands, Calling
  <2> HIDE DEF m
  <2> QED BY <2>3, <2>5, HeldFewer
<1>10. ASSUME NEW s \in SendStreams, DropStream(s) PROVE HeldInv'
  <2> DEFINE m == [type |-> "Drop", of |-> s, finished |-> finished[s]]
  <2>1. m \in SendCommands /\ m.of = s
    BY DEF SendCommands, DropCommands, StateTypes, DataTypes
  <2>2. /\ queue' = queue \/ queue' = Append(queue, m)
        /\ direction' = direction /\ handle[s] = "held" /\ handle' = [handle EXCEPT ![s] = "gone"]
    BY <1>10 DEF DropStream
  <2>3. direction'[s] # "none"
    BY <2>2 DEF HeldInv
  <2>4. Directed /\ Held
    BY <2>2, <2>3 DEF StateTypes, DataTypes
  <2> HIDE DEF m
  <2> QED BY <2>1, <2>2, <2>3, <2>4, HeldFewer
<1> QED
  <2>1. CASE SendNext
    BY <1>1, <1>2, <1>3, <1>4, <1>5, <1>6, <1>7, <1>8, <1>9, <1>10, <2>1, SendCases
  <2> QED BY <1>1, <2>1

-----------------------------------------------------------------------------
(* The end of the session is tried on all that waits.                      *)
LEMMA DrainNext ==
  ASSUME StateTypes, DrainInv, [SendNext]_sendVars
  PROVE  DrainInv'
<1>1. CASE PumpRefused
  <2>1. opened' = Tail(opened) /\ attempts' = attempts - 1 /\ UNCHANGED <<turn, draining>> /\ turn = "pump"
    BY <1>1 DEF PumpRefused, Pumping
  <2>2. Len(Tail(opened)) = Len(opened) - 1
    BY <1>1, WaitingTypes DEF PumpRefused
  <2> QED BY <2>1, <2>2 DEF DrainInv
<1>2. CASE PumpOpened \/ PumpBlocked
  <2>1. ~draining /\ turn = "pump" /\ UNCHANGED <<turn, draining>>
    BY <1>2 DEF PumpOpened, PumpBlocked, Pumping
  <2> QED BY <2>1 DEF DrainInv
<1>3. CASE Pumped
  <2>1. turn = "pump" /\ attempts = 0 /\ turn' = "flush" /\ UNCHANGED <<attempts, opened, draining>>
    BY <1>3 DEF Pumped
  <2>2. draining => opened = <<>>
    <3>1. opened \in Seq(SendStreams)
      BY OpenedTypes
    <3> QED BY <2>1, <3>1, EmptySeq DEF DrainInv
  <2> QED BY <2>1, <2>2 DEF DrainInv
<1>4. CASE Flushed
  BY <1>4 DEF Flushed, DrainInv
<1>5. CASE HandleOpen \/ HandleSend \/ HandleReset \/ HandleDrop
  <2>1. turn' = "pump" /\ attempts' = Len(opened')
    BY <1>5 DEF HandleOpen, HandleSend, HandleReset, HandleDrop, NextTurn
  <2> QED BY <2>1 DEF DrainInv
<1>6. CASE Draining \/ Grant \/ OtherEvent \/ \E s \in SendStreams : StopSending(s)
  <2>1. NextEvent
    BY <1>6 DEF Draining, Grant, OtherEvent, StopSending, NextEvent
  <2> QED BY <2>1 DEF NextEvent, LastEvent, InTurn, DrainInv
<1>7. CASE Ends
  BY <1>7 DEF Ends, DrainInv
<1>8. ASSUME NEW s \in SendStreams,
             \/ FlushClosed(s) \/ FlushBlocked(s) \/ FlushPart(s) \/ FlushWhole(s) \/ FlushFin(s)
      PROVE  DrainInv'
  <2>1. UNCHANGED <<turn, attempts, opened, draining>>
    BY <1>8 DEF FlushClosed, FlushBlocked, FlushPart, FlushWhole, FlushFin, FlushUnchanged
  <2> QED BY <2>1 DEF DrainInv
<1>9. ASSUME NEW s \in SendStreams,
             Open(s) \/ GiveUpOpen(s) \/ CallStep(s) \/ Return(s) \/ CancelWait(s) \/ DropStream(s)
      PROVE  DrainInv'
  <2>1. UNCHANGED <<turn, attempts, opened, draining>>
    BY <1>9 DEF Open, GiveUpOpen, CallStep, Call, Return, CancelWait, DropStream, driverVars
  <2> QED BY <2>1 DEF DrainInv
<1>10. CASE UNCHANGED sendVars
  BY <1>10 DEF sendVars, driverVars, DrainInv
<1> QED
  <2>1. CASE SendNext
    BY <1>1, <1>2, <1>3, <1>4, <1>5, <1>6, <1>7, <1>8, <1>9, <2>1, SendCases
  <2> QED BY <1>10, <2>1

LEMMA StateTypesNext ==
  ASSUME StateTypes, CallTypes, RoomInv, WorkInv, DrainInv, [SendNext]_sendVars
  PROVE  StateTypes'
<1>1. ASSUME NEW s \in SendStreams,
             \/ FlushClosed(s) \/ FlushBlocked(s) \/ FlushPart(s) \/ FlushWhole(s) \/ FlushFin(s)
      PROVE  StateTypes'
  <2>1. Flushing(s)
    BY <1>1 DEF FlushClosed, FlushBlocked, FlushPart, FlushWhole, FlushFin
  <2>2. pending[s] # <<>> /\ Available(s) \in Nat
    BY <2>1, FlushingPends, Rooms
  <2> QED BY <1>1, <2>2, FlushTypes
<1>2. CASE UNCHANGED sendVars
  BY <1>2 DEF sendVars, driverVars, appVars, StateTypes, TurnTypes, DataTypes
<1> QED
  <2>1. CASE SendNext
    BY <1>1, <2>1, SendCases, PumpTypes, HandleTypes, EventTypes, CallerTypes
  <2> QED BY <1>2, <2>1

-----------------------------------------------------------------------------
(* Nothing that could be sent is passed over.                              *)
LEMMA MinIsZero ==
  ASSUME NEW a \in Nat, NEW b \in Nat
  PROVE  Min({a, b}) = 0 <=> a = 0 \/ b = 0
<1>1. Min({a, b}) \in {a, b} /\ Min({a, b}) <= a /\ Min({a, b}) <= b
  BY MinOfTwo
<1> QED BY <1>1

(* What is used of the room on one stream, another stream does not gain.    *)
LEMMA RoomUsed ==
  ASSUME RoomInv, NEW s \in SendStreams, NEW n \in Nat, n <= Available(s),
         sent' = [sent EXCEPT ![s] = @ + n], window' = window
  PROVE  /\ n = Available(s) => Available(s)' = 0
         /\ \A t \in SendStreams : t # s /\ Available(t) = 0 => Available(t)' = 0
<1>1. /\ SessionSent' = SessionSent + n /\ sent'[s] = sent[s] + n
      /\ \A t \in SendStreams : t # s => sent'[t] = sent[t]
  BY Sending
<1> DEFINE T == SessionSent
           U == SessionSent'
           W == window.session
<1>2. T \in Nat /\ W \in Nat /\ U = T + n /\ U <= W
  <2>1. T \in Nat /\ W \in Nat /\ U = T + n /\ Available(s) \in Nat /\ T + Available(s) <= W
    BY <1>1, Rooms
  <2> DEFINE A == Available(s)
  <2> HIDE DEF T, U, W, A
  <2> QED BY <2>1 DEF A
<1>3. ASSUME NEW t \in SendStreams
      PROVE  /\ Available(t)' = Min({W - U, window.stream[t] - sent'[t]})
             /\ window.stream[t] \in Nat /\ sent[t] \in Nat /\ sent[t] <= window.stream[t]
  BY DEF Available, RoomInv
<1>4. ASSUME n = Available(s) PROVE Available(s)' = 0
  <2> DEFINE w == window.stream[s]
             a == sent[s]
             b == sent'[s]
             x == W - U
             y == w - b
  <2>1. /\ T + n <= W /\ a + n <= w /\ b = a + n /\ w \in Nat /\ a \in Nat
        /\ n = 0 <=> (T = W \/ a = w) /\ n \in Nat
    BY <1>1, <1>4, Rooms
  <2>2. Available(s)' = Min({x, y})
    BY <1>3
  <2>3. n = W - T \/ n = w - a
    <3>1. Available(s) = Min({W - T, w - a})
      BY DEF Available
    <3> DEFINE u == W - T
               v == w - a
    <3>2. u \in Int /\ v \in Int /\ n = Min({u, v})
      <4> HIDE DEF T, W, w, a
      <4> QED BY <1>2, <1>4, <2>1, <3>1
    <3> HIDE DEF u, v
    <3>3. n \in {u, v}
      BY <3>2, MinOfTwo
    <3> QED BY <3>3 DEF u, v
  <2> HIDE DEF T, U, W, w, a, b
  <2>4. x \in Nat /\ y \in Nat /\ (x = 0 \/ y = 0)
    BY <1>2, <2>1, <2>3
  <2> HIDE DEF x, y
  <2> QED BY <2>2, <2>4, MinIsZero
<1>5. ASSUME NEW t \in SendStreams, t # s, Available(t) = 0 PROVE Available(t)' = 0
  <2> DEFINE w == window.stream[t]
             a == sent[t]
             b == sent'[t]
             x == W - U
             y == w - b
  <2>1. /\ T = W \/ a = w
        /\ b = a /\ w \in Nat /\ a \in Nat /\ a <= w
    BY <1>1, <1>3, <1>5, Rooms
  <2>2. Available(t)' = Min({x, y})
    BY <1>3
  <2> HIDE DEF T, U, W, w, a, b
  <2>3. x \in Nat /\ y \in Nat /\ (x = 0 \/ y = 0)
    BY <1>2, <2>1
  <2> HIDE DEF x, y
  <2> QED BY <2>2, <2>3, MinIsZero
<1> QED BY <1>4, <1>5

(* One stream is flushed, or some of what it has to send.                   *)
LEMMA WorkFlushed ==
  ASSUME StateTypes, WorkInv, NEW s \in SendStreams, Flushing(s), turn' = turn,
         \A t \in SendStreams : t # s => pending'[t] = pending[t],
         \A t \in SendStreams : t # s => (Blocked(t) => Blocked(t)'),
         \/ todo' = Tail(todo) /\ Blocked(s)'
         \/ todo' = todo /\ pending'[s] # <<>>
  PROVE  WorkInv'
<1>1. /\ s = todo[1] /\ Len(todo) \in Nat /\ Len(Tail(todo)) = Len(todo) - 1 /\ 1 \in 1..Len(todo)
      /\ \A i \in 1..Len(Tail(todo)) : Tail(todo)[i] = todo[i + 1] /\ i + 1 \in 1..Len(todo)
      /\ todo \in Seq(SendStreams) /\ \A i \in 1..Len(todo) : todo[i] \in SendStreams
  <2>1. todo \in Seq(SendStreams)
    BY DEF StateTypes, TurnTypes
  <2> QED BY <2>1, FlushingTypes, ElementOfSeq
<1>2. turn = "flush" /\ turn' = "flush"
  BY DEF Flushing
<1>3. /\ \A t \in SendStreams : Blocked(t) \/ \E i \in 1..Len(todo) : todo[i] = t
      /\ \A i \in 1..Len(todo) : pending[todo[i]] # <<>>
      /\ \A i, j \in 1..Len(todo) : todo[i] = todo[j] => i = j
  BY <1>2 DEF WorkInv
<1>4. CASE todo' = todo /\ pending'[s] # <<>>
  <2>1. ASSUME NEW t \in SendStreams PROVE Blocked(t)' \/ \E i \in 1..Len(todo) : todo[i] = t
    BY <1>1, <1>3
  <2>2. \A i \in 1..Len(todo) : pending'[todo[i]] # <<>>
    BY <1>1, <1>3, <1>4
  <2> QED BY <1>2, <1>3, <1>4, <2>1, <2>2 DEF WorkInv
<1>5. CASE todo' = Tail(todo) /\ Blocked(s)'
  <2> DEFINE v == Tail(todo)
  <2>1. \A i \in 1..Len(v) : v[i] # s
    <3> SUFFICES ASSUME NEW i \in 1..Len(v), v[i] = s PROVE FALSE
      OBVIOUS
    <3>1. i + 1 = 1
      BY <1>1, <1>3
    <3> QED BY <3>1
  <2> HIDE DEF v
  <2>2. /\ Len(v) = Len(todo) - 1 /\ todo' = v
        /\ \A i \in 1..Len(v) : v[i] = todo[i + 1] /\ i + 1 \in 1..Len(todo)
    BY <1>1, <1>5 DEF v
  <2>3. \A i \in 1..Len(todo) : todo[i] # s => i - 1 \in 1..Len(v) /\ v[i - 1] = todo[i]
    <3> SUFFICES ASSUME NEW i \in 1..Len(todo), todo[i] # s
                 PROVE  i - 1 \in 1..Len(v) /\ v[i - 1] = todo[i]
      OBVIOUS
    <3>1. i # 1
      BY <1>1
    <3>2. i - 1 \in 1..Len(v) /\ (i - 1) + 1 = i
      BY <1>1, <2>2, <3>1
    <3> QED BY <2>2, <3>2
  <2>4. ASSUME NEW t \in SendStreams PROVE Blocked(t)' \/ \E i \in 1..Len(v) : v[i] = t
    BY <1>3, <1>5, <2>3
  <2>5. \A i \in 1..Len(v) : pending'[v[i]] # <<>>
    <3> SUFFICES ASSUME NEW i \in 1..Len(v) PROVE pending'[v[i]] # <<>>
      OBVIOUS
    <3>1. v[i] = todo[i + 1] /\ i + 1 \in 1..Len(todo) /\ v[i] # s
      BY <2>1, <2>2 DEF v
    <3>2. v[i] \in SendStreams /\ pending[v[i]] # <<>>
      BY <1>1, <1>3, <3>1
    <3> QED BY <3>1, <3>2
  <2>6. \A i, j \in 1..Len(v) : v[i] = v[j] => i = j
    <3> SUFFICES ASSUME NEW i \in 1..Len(v), NEW j \in 1..Len(v), v[i] = v[j] PROVE i = j
      OBVIOUS
    <3>1. i + 1 = j + 1
      BY <1>3, <2>2
    <3> QED BY <3>1
  <2> QED BY <1>2, <2>2, <2>4, <2>5, <2>6 DEF WorkInv
<1> QED BY <1>4, <1>5

(* A stream on which nothing changes.                                       *)
LEMMA BlockedKept ==
  ASSUME NEW t \in SendStreams, Blocked(t), pending'[t] = pending[t],
         direction'[t] = direction[t], t \notin halted' <=> t \notin halted,
         Available(t) = 0 => Available(t)' = 0
  PROVE  Blocked(t)'
BY DEF Blocked, CanSend, First

LEMMA SameAvailable ==
  ASSUME UNCHANGED <<window, sent>>
  PROVE  \A t \in SendStreams : Available(t)' = Available(t)
BY DEF Available, SessionSent

LEMMA WorkOneFlushed ==
  ASSUME StateTypes, CallTypes, RoomInv, LinesInv, WorkInv, NEW s \in SendStreams,
         \/ FlushClosed(s) \/ FlushBlocked(s) \/ FlushPart(s) \/ FlushWhole(s) \/ FlushFin(s)
  PROVE  WorkInv'
<1>1. Flushing(s) /\ turn' = turn /\ UNCHANGED <<halted, window>>
  BY DEF FlushClosed, FlushBlocked, FlushPart, FlushWhole, FlushFin, FlushUnchanged, allowedVars
<1>2. /\ pending \in [SendStreams -> Seq(Jobs)] /\ pending[s] # <<>>
      /\ direction \in [SendStreams -> {"none", "open", "fin", "reset"}]
      /\ First(s).size \in Nat /\ First(s) = pending[s][1] /\ Tail(pending[s]) \in Seq(Jobs)
      /\ pending[s] \in Seq(Jobs) /\ Available(s) \in Nat
  BY <1>1, FlushingPends, FirstJobs, Rooms DEF StateTypes, DataTypes
<1>3. \A t \in SendStreams : t # s => pending'[t] = pending[t] /\ direction'[t] = direction[t]
  BY <1>2 DEF FlushClosed, FailPending, FlushBlocked, FlushPart, FlushWhole, FlushFin
<1>4. ASSUME NEW t \in SendStreams, t # s, Blocked(t), Available(t) = 0 => Available(t)' = 0
      PROVE  Blocked(t)'
  BY <1>1, <1>3, <1>4, BlockedKept
<1>5. CASE FlushClosed(s)
  <2>1. pending'[s] = <<>> /\ todo' = Tail(todo) /\ UNCHANGED <<window, sent>>
    BY <1>2, <1>5 DEF FlushClosed, FailPending, allowedVars
  <2>2. Blocked(s)'
    BY <2>1 DEF Blocked
  <2>3. \A t \in SendStreams : t # s => (Blocked(t) => Blocked(t)')
    BY <1>4, <2>1, SameAvailable
  <2> QED BY <1>1, <1>3, <2>1, <2>2, <2>3, WorkFlushed
<1>6. CASE FlushBlocked(s)
  <2>1. /\ todo' = Tail(todo) /\ UNCHANGED <<window, sent, pending, direction>>
        /\ First(s).size > 0 /\ Available(s) = 0
    BY <1>1, <1>6 DEF FlushBlocked
  <2>2. Blocked(s)'
    BY <1>1, <2>1, SameAvailable DEF Blocked, First, CanSend
  <2>3. \A t \in SendStreams : t # s => (Blocked(t) => Blocked(t)')
    BY <1>4, <2>1, SameAvailable
  <2> QED BY <1>1, <1>3, <2>1, <2>2, <2>3, WorkFlushed
<1>7. CASE FlushPart(s)
  <2> DEFINE A == Available(s)
  <2>1. /\ todo' = Tail(todo) /\ sent' = [sent EXCEPT ![s] = @ + A] /\ window' = window
        /\ A < First(s).size
    BY <1>1, <1>7 DEF FlushPart
  <2>2. Available(s)' = 0 /\ \A t \in SendStreams : t # s /\ Available(t) = 0 => Available(t)' = 0
    <3>1. A \in Nat /\ A <= Available(s) /\ A = Available(s)
      BY <1>2
    <3> HIDE DEF A
    <3> QED BY <2>1, <3>1, RoomUsed
  <2>3. /\ pending'[s] \in Seq(Jobs) /\ Len(pending'[s]) = Len(pending[s]) /\ 1 \in 1..Len(pending[s])
        /\ pending'[s][1].size = pending[s][1].size - A
    BY <1>2, <1>7, PartTypes
  <2>4. pending'[s] # <<>> /\ Head(pending'[s]) = pending'[s][1]
    <3>1. pending'[s] # <<>>
      BY <2>3, EmptySeq
    <3> QED BY <2>3, <3>1, HeadTailProperties
  <2>5. First(s)'.size > 0
    <3> HIDE DEF A
    <3> QED BY <1>2, <2>1, <2>3, <2>4 DEF First, A
  <2>6. Blocked(s)'
    BY <2>2, <2>5 DEF Blocked
  <2>7. \A t \in SendStreams : t # s => (Blocked(t) => Blocked(t)')
    BY <1>4, <2>2
  <2> QED BY <1>1, <1>3, <2>1, <2>6, <2>7, WorkFlushed
<1>8. CASE FlushWhole(s)
  <2> DEFINE n == First(s).size
             p == pending[s]
  <2>1. /\ sent' = [sent EXCEPT ![s] = @ + n] /\ window' = window /\ n <= Available(s)
        /\ pending'[s] = Tail(p) /\ todo' = IF Len(p) = 1 THEN Tail(todo) ELSE todo
    BY <1>1, <1>2, <1>8 DEF FlushWhole
  <2>2. \A t \in SendStreams : t # s /\ Available(t) = 0 => Available(t)' = 0
    <3>1. n \in Nat
      BY <1>2
    <3> HIDE DEF n
    <3> QED BY <2>1, <3>1, RoomUsed
  <2>3. \A t \in SendStreams : t # s => (Blocked(t) => Blocked(t)')
    BY <1>4, <2>2
  <2>4. Len(Tail(p)) = Len(p) - 1 /\ Len(p) \in Nat /\ Tail(p) \in Seq(Jobs)
    <3> HIDE DEF p
    <3>1. p \in Seq(Jobs) /\ p # <<>>
      BY <1>2 DEF p
    <3> QED BY <3>1, TailElements
  <2>5. (Len(p) = 1 => Tail(p) = <<>>) /\ (Len(p) # 1 => Tail(p) # <<>>)
    <3> DEFINE r == Tail(p)
               l == Len(p)
    <3>1. r \in Seq(Jobs) /\ l \in Nat /\ Len(r) = l - 1
      BY <2>4
    <3> HIDE DEF r, l
    <3>2. r = <<>> <=> Len(r) = 0
      BY <3>1, EmptySeq
    <3>3. r = <<>> <=> l = 1
      BY <3>1, <3>2
    <3> QED BY <3>3 DEF r, l
  <2>7. CASE Len(p) = 1
    <3>1. Blocked(s)'
      BY <2>1, <2>5, <2>7 DEF Blocked
    <3> QED BY <1>1, <1>3, <2>1, <2>3, <2>7, <3>1, WorkFlushed
  <2>8. CASE Len(p) # 1
    <3>1. pending'[s] # <<>> /\ todo' = todo
      BY <2>1, <2>5, <2>8
    <3> QED BY <1>1, <1>3, <2>3, <3>1, WorkFlushed
  <2> QED BY <2>7, <2>8
<1>9. CASE FlushFin(s)
  <2>1. todo' = Tail(todo) /\ UNCHANGED <<window, sent>> /\ direction'[s] = "fin"
    BY <1>1, <1>2, <1>9 DEF FlushFin
  <2>2. Blocked(s)'
    BY <2>1 DEF Blocked, CanSend
  <2>3. \A t \in SendStreams : t # s => (Blocked(t) => Blocked(t)')
    BY <1>4, <2>1, SameAvailable
  <2> QED BY <1>1, <1>3, <2>1, <2>2, <2>3, WorkFlushed
<1> QED BY <1>5, <1>6, <1>7, <1>8, <1>9

(* A sequence of as many members of a finite set as there are, all          *)
(* different, has every one of them.                                        *)
LEMMA SetToSeqsHasAll ==
  ASSUME NEW S, IsFiniteSet(S), NEW q \in SetToSeqs(S)
  PROVE  /\ q \in Seq(S) /\ \A x \in S : \E i \in 1..Len(q) : q[i] = x
         /\ \A i, j \in 1..Len(q) : q[i] = q[j] => i = j
<1> DEFINE n == Cardinality(S)
<1>1. n \in Nat
  BY FS_CardinalityType
<1>2. q \in [1..n -> S] /\ \A i, j \in 1..n : q[i] = q[j] => i = j
  BY DEF SetToSeqs
<1>3. q \in Seq(S) /\ Len(q) = n
  <2> HIDE DEF n
  <2>1. q \in Seq(S)
    BY <1>1, <1>2, FunctionIsSequence
  <2>2. DOMAIN q = 1..Len(q) /\ DOMAIN q = 1..n /\ Len(q) \in Nat
    BY <1>2, <2>1, LenProperties
  <2>3. \A a, b \in Nat : a < b => b \in 1..b /\ b \notin 1..a
    OBVIOUS
  <2>4. ~(Len(q) < n) /\ ~(n < Len(q))
    BY <1>1, <2>2, <2>3
  <2>5. Len(q) = n
    <3> DEFINE l == Len(q)
    <3>1. l \in Nat /\ ~(l < n) /\ ~(n < l)
      BY <2>2, <2>4
    <3> HIDE DEF l
    <3> QED BY <1>1, <3>1 DEF l
  <2> QED BY <2>1, <2>5
<1>4. ASSUME NEW x \in S, \A i \in 1..n : q[i] # x PROVE FALSE
  <2> DEFINE R == S \ {x}
             D == 1..n
  <2>1. IsFiniteSet(R) /\ Cardinality(R) = n - 1
    BY FS_RemoveElement
  <2>2. IsFiniteSet(D) /\ Cardinality(D) = n
    <3>1. 1 \in Int /\ n \in Int /\ (1 > n => n = 0)
      BY <1>1
    <3> HIDE DEF n
    <3>2. IsFiniteSet(1..n) /\ Cardinality(1..n) = IF 1 > n THEN 0 ELSE n - 1 + 1
      BY <3>1, FS_Interval
    <3> QED BY <1>1, <3>1, <3>2
  <2>3. q \in [D -> R]
    BY <1>2, <1>4
  <2>4. Cardinality(R) < Cardinality(D)
    BY <1>1, <2>1, <2>2
  <2> HIDE DEF R, D
  <2>5. \E i, j \in D : i # j /\ q[i] = q[j]
    BY <2>1, <2>2, <2>3, <2>4, FS_PigeonHole
  <2> QED BY <1>2, <2>5 DEF D
<1> QED BY <1>2, <1>3, <1>4

LEMMA WorkPumped ==
  ASSUME StateTypes, Pumped
  PROVE  WorkInv'
<1> DEFINE S == {s \in SendStreams : pending[s] # <<>>}
<1>1. IsFiniteSet(S)
  <2>1. S \subseteq SendStreams
    OBVIOUS
  <2> QED BY <2>1, StreamsFinite, FS_Subset
<1>2. todo' \in SetToSeqs(S) /\ turn' = "flush" /\ pending' = pending
  BY DEF Pumped
<1>3. \A x : x \in S <=> x \in SendStreams /\ pending[x] # <<>>
  OBVIOUS
<1> HIDE DEF S
<1>4. /\ todo' \in Seq(S) /\ \A x \in S : \E i \in 1..Len(todo') : todo'[i] = x
      /\ \A i, j \in 1..Len(todo') : todo'[i] = todo'[j] => i = j
  BY <1>1, <1>2, SetToSeqsHasAll
<1>5. \A i \in 1..Len(todo') : pending'[todo'[i]] # <<>>
  BY <1>2, <1>3, <1>4, ElementOfSeq
<1>6. ASSUME NEW t \in SendStreams PROVE Blocked(t)' \/ \E i \in 1..Len(todo') : todo'[i] = t
  <2>1. CASE pending[t] = <<>>
    BY <1>2, <2>1 DEF Blocked
  <2>2. CASE pending[t] # <<>>
    BY <1>3, <1>4, <2>2
  <2> QED BY <2>1, <2>2
<1> QED BY <1>2, <1>4, <1>5, <1>6 DEF WorkInv

(* Neither a flush nor a wait.                                              *)
LEMMA WorkElsewhere ==
  ASSUME WorkInv, turn' \notin {"flush", "select"}, todo' = todo \/ todo' = <<>>
  PROVE  WorkInv'
BY DEF WorkInv

LEMMA WorkFrame ==
  ASSUME WorkInv, UNCHANGED <<turn, todo, pending, direction, halted, window, sent>>
  PROVE  WorkInv'
<1>1. \A t \in SendStreams : Blocked(t)' = Blocked(t)
  BY SameAvailable DEF Blocked, CanSend, First
<1> QED BY <1>1 DEF WorkInv

LEMMA WorkNext ==
  ASSUME StateTypes, CallTypes, RoomInv, LinesInv, WorkInv, [SendNext]_sendVars
  PROVE  WorkInv'
<1>1. CASE PumpRefused \/ PumpOpened \/ PumpBlocked
  BY <1>1, WorkElsewhere DEF PumpRefused, PumpOpened, PumpBlocked, Pumping
<1>2. CASE Flushed
  <2>1. turn = "flush" /\ todo = <<>> /\ turn' = "select" /\ todo' = todo
        /\ UNCHANGED <<pending, direction, halted, window, sent>>
    BY <1>2 DEF Flushed, allowedVars
  <2>2. \A t \in SendStreams : Blocked(t)
    BY <2>1 DEF WorkInv
  <2>3. \A t \in SendStreams : Blocked(t)'
    BY <2>1, <2>2, SameAvailable DEF Blocked, CanSend, First
  <2> QED BY <2>1, <2>3 DEF WorkInv
<1>3. CASE HandleOpen \/ HandleSend \/ HandleReset \/ HandleDrop
  BY <1>3, WorkElsewhere DEF HandleOpen, HandleSend, HandleReset, HandleDrop, NextTurn
<1>4. CASE Draining \/ Grant \/ OtherEvent \/ \E s \in SendStreams : StopSending(s)
  <2>1. NextEvent
    BY <1>4 DEF Draining, Grant, OtherEvent, StopSending, NextEvent
  <2> QED BY <2>1, WorkElsewhere DEF NextEvent, LastEvent, InTurn
<1>5. CASE Ends
  BY <1>5, WorkElsewhere DEF Ends
<1>6. ASSUME NEW s \in SendStreams,
             Open(s) \/ GiveUpOpen(s) \/ CallStep(s) \/ Return(s) \/ CancelWait(s) \/ DropStream(s)
      PROVE  WorkInv'
  <2>1. UNCHANGED <<turn, todo, pending, direction, halted, window, sent>>
    BY <1>6 DEF Open, GiveUpOpen, CallStep, Call, Return, CancelWait, DropStream, driverVars, allowedVars
  <2> QED BY <2>1, WorkFrame
<1>7. CASE UNCHANGED sendVars
  BY <1>7, WorkFrame DEF sendVars, driverVars, allowedVars
<1> QED
  <2>1. CASE SendNext
    BY <1>1, <1>2, <1>3, <1>4, <1>5, <1>6, <2>1, SendCases, WorkPumped, WorkOneFlushed
  <2> QED BY <1>7, <2>1

-----------------------------------------------------------------------------
(* The invariant holds at first, and every step keeps it.                   *)
LEMMA SendInvInit == SendInit => SendInv
<1> SUFFICES ASSUME SendInit PROVE SendInv
  OBVIOUS
<1>1. /\ <<>> \in Seq(SendStreams) /\ <<>> \in Seq(SendCommands) /\ <<>> \in Seq(Jobs)
      /\ <<>> \in Seq(CallRecords) /\ Len(<<>>) = 0
  OBVIOUS
<1>2. StateTypes
  <2>1. TurnTypes
    <3>1. opened = <<>> /\ attempts = 0 /\ 0 \in 0..Len(<<>>)
      BY <1>1 DEF SendInit
    <3> QED BY <1>1, <3>1 DEF SendInit, TurnTypes
  <2>2. DataTypes
    BY <1>1 DEF SendInit, DataTypes
  <2> QED BY <2>1, <2>2 DEF StateTypes
<1>3. CallTypes
  BY <1>1 DEF SendInit, CallTypes
<1>4. RoomInv
  <2>1. SessionSent = 0
    <3> DEFINE f == [s \in SendStreams |-> 0]
    <3>1. f \in [SendStreams -> Nat] /\ \A s \in SendStreams : f[s] = 0
      OBVIOUS
    <3>2. sent = f
      BY DEF SendInit
    <3> HIDE DEF f
    <3> QED BY <3>1, <3>2, StreamsFinite, TotalOverZeros DEF SessionSent
  <2>2. \A k \in {"uni", "bidi"} : OpenCount(k) = 0
    <3> SUFFICES ASSUME NEW k PROVE OpenCount(k) = 0
      OBVIOUS
    <3>1. {r \in SendStreams : KindOf(r) = k /\ direction[r] # "none"} = {}
      BY DEF SendInit
    <3> QED BY <3>1, FS_EmptySet DEF OpenCount
  <2>3. /\ window \in [session : Nat, stream : [SendStreams -> Nat]]
        /\ limit \in [{"uni", "bidi"} -> Nat] /\ sent \in [SendStreams -> Nat]
        /\ window.session \in Nat
        /\ \A s \in SendStreams : sent[s] = 0 /\ window.stream[s] \in Nat
    BY WtH2SendAssumption DEF SendInit
  <2>4. \A k \in {"uni", "bidi"} : limit[k] \in Nat
    BY <2>3
  <2>5. SessionSent <= window.session
    BY <2>1, <2>3
  <2>6. \A s \in SendStreams : sent[s] <= window.stream[s]
    BY <2>3
  <2>7. \A k \in {"uni", "bidi"} : OpenCount(k) <= limit[k]
    BY <2>2, <2>4
  <2> QED BY <2>3, <2>5, <2>6, <2>7 DEF RoomInv
<1>5. LinesInv
  <2> SUFFICES ASSUME NEW s \in SendStreams
               PROVE  /\ Line(s, queue, pending[s], after_flush, calls[s])
                      /\ Paid(s, pending[s], after_flush, calls[s], sent[s])
    BY DEF LinesInv
  <2>1. queue = <<>> /\ pending[s] = <<>> /\ after_flush = {} /\ calls[s] = <<>> /\ sent[s] = 0
    BY DEF SendInit
  <2>2. Line(s, <<>>, <<>>, {}, <<>>)
    BY <1>1 DEF Line, QueueIn, PendingIn, FlushIn, InOrder, Found, InFlush
  <2>3. Paid(s, <<>>, {}, <<>>, 0)
    <3>1. Dues(s, <<>>, {}, <<>>) = <<>>
      BY <1>1 DEF Dues
    <3> QED BY <3>1, TotalOfEmpty DEF Paid
  <2> QED BY <2>1, <2>2, <2>3
<1>6. OpensInv
  <2>1. queue = <<>> /\ opened = <<>> /\ \A r \in SendStreams : open[r] # "waiting"
    BY DEF SendInit
  <2>2. \A r \in SendStreams : Absent(r, queue, opened)
    BY <1>1, <2>1 DEF Absent
  <2> QED BY <2>1, <2>2, AbsentDone DEF OpensInv
<1>7. HeldInv
  BY <1>1 DEF SendInit, HeldInv
<1>8. DrainInv
  BY DEF SendInit, DrainInv
<1>9. WorkInv
  BY <1>1 DEF SendInit, WorkInv
<1> QED BY <1>2, <1>3, <1>4, <1>5, <1>6, <1>7, <1>8, <1>9 DEF SendInv

LEMMA SendInvNext == SendInv /\ [SendNext]_sendVars => SendInv'
<1> SUFFICES ASSUME SendInv, [SendNext]_sendVars PROVE SendInv'
  OBVIOUS
<1>1. /\ StateTypes /\ CallTypes /\ RoomInv /\ LinesInv
      /\ OpensInv /\ HeldInv /\ DrainInv /\ WorkInv
  BY DEF SendInv
<1>2. StateTypes'
  BY <1>1, StateTypesNext
<1>3. CallTypes'
  BY <1>1, CallTypesNext
<1>4. RoomInv'
  BY <1>1, RoomNext
<1>5. LinesInv'
  BY <1>1, LinesNext
<1>6. OpensInv'
  BY <1>1, OpensNext
<1>7. HeldInv'
  BY <1>1, HeldNext
<1>8. DrainInv'
  BY <1>1, DrainNext
<1>9. WorkInv'
  BY <1>1, WorkNext
<1> QED BY <1>2, <1>3, <1>4, <1>5, <1>6, <1>7, <1>8, <1>9 DEF SendInv

LEMMA SendInvariant == SendSpec => []SendInv
BY SendInvInit, SendInvNext, PTL DEF SendSpec

-----------------------------------------------------------------------------
(* What the invariant says of the properties.                              *)
LEMMA TypesFollow == SendInv => SendTypeOK
<1> SUFFICES ASSUME SendInv PROVE SendTypeOK
  OBVIOUS
<1>1. StateTypes /\ CallTypes /\ RoomInv
  BY DEF SendInv
<1>2. /\ turn \in {"pump", "flush", "select", "events", "ended"} /\ attempts \in 0..Len(opened)
      /\ todo \in Seq(SendStreams) /\ opened \in Seq(SendStreams) /\ draining \in BOOLEAN
  BY <1>1 DEF StateTypes, TurnTypes
<1>3. pending \in [SendStreams -> Seq([size : Nat, call : Nat])] /\ halted \subseteq SendStreams
  BY <1>1 DEF StateTypes, DataTypes, Jobs
<1>4. after_flush \subseteq FlushAnswers
  <2> SUFFICES ASSUME NEW x \in after_flush
               PROVE  \E y \in Made, r \in {"ok", "failed"} : x = <<y[1], y[2], r>>
    BY DEF FlushAnswers
  <2>1. PICK s \in SendStreams : \E k \in 1..Len(calls[s]) : x = <<s, k, "ok">> \/ x = <<s, k, "failed">>
    BY <1>1 DEF CallTypes
  <2>2. PICK k \in 1..Len(calls[s]) : x = <<s, k, "ok">> \/ x = <<s, k, "failed">>
    BY <2>1
  <2>3. DOMAIN calls[s] = 1..Len(calls[s])
    BY <1>1, LenProperties DEF CallTypes
  <2>4. <<s, k>> \in Made
    BY <2>3 DEF Made
  <2> DEFINE y == <<s, k>>
  <2>5. y \in Made /\ y[1] = s /\ y[2] = k
    BY <2>4
  <2> HIDE DEF y
  <2> QED BY <2>2, <2>5
<1>5. /\ direction \in [SendStreams -> {"none", "open", "fin", "reset"}]
      /\ open \in [SendStreams -> {"none", "waiting", "given up", "ok", "failed"}]
      /\ handle \in [SendStreams -> {"none", "held", "gone"}] /\ finished \in [SendStreams -> BOOLEAN]
  BY <1>1 DEF StateTypes, DataTypes
<1>6. /\ SessionSent <= window.session /\ \A s \in SendStreams : sent[s] \in 0..window.stream[s]
      /\ \A k \in {"uni", "bidi"} : OpenCount(k) <= limit[k]
  <2>1. \A s \in SendStreams : sent[s] \in Nat /\ window.stream[s] \in Nat /\ sent[s] <= window.stream[s]
    BY <1>1 DEF RoomInv
  <2>2. \A s \in SendStreams : sent[s] \in 0..window.stream[s]
    BY <2>1
  <2> QED BY <1>1, <2>2 DEF RoomInv
<1>7. calls \in [SendStreams -> Seq([op : Calling, size : Nat, answer : Answers])]
  BY <1>1 DEF CallTypes, CallRecords
<1>8. \A s \in SendStreams : waiting[s] \in 0..Len(calls[s])
  <2> SUFFICES ASSUME NEW s \in SendStreams PROVE waiting[s] \in 0..Len(calls[s])
    OBVIOUS
  <2>1. calls[s] \in Seq(CallRecords) /\ waiting[s] \in Nat /\ waiting[s] <= Len(calls[s])
    BY <1>1 DEF CallTypes
  <2>2. Len(calls[s]) \in Nat
    BY <2>1, LenProperties
  <2> QED BY <2>1, <2>2
<1> QED BY <1>2, <1>3, <1>4, <1>5, <1>6, <1>7, <1>8 DEF SendTypeOK

(* At most one, or none.                                                    *)
LEMMA CountOne ==
  ASSUME NEW S, NEW x \in S, \A y \in S : y = x
  PROVE  Cardinality(S) = 1
<1>1. S = {x}
  OBVIOUS
<1> QED BY <1>1, FS_Singleton

LEMMA CountNone ==
  ASSUME NEW S, \A y \in S : FALSE
  PROVE  Cardinality(S) = 0
<1>1. S = {}
  OBVIOUS
<1> QED BY <1>1, FS_EmptySet

LEMMA CallsAreKept ==
  ASSUME SendInv, NEW s \in SendStreams, NEW c \in 1..Len(calls[s]), calls[s][c].answer = "none"
  PROVE  Places(s, c) = 1
<1> DEFINE p == pending[s]
           d == calls[s]
           f == after_flush
           A == {k \in DOMAIN queue : queue[k].of = s /\ queue[k].type \in Calling /\ queue[k].call = c}
           B == {k \in DOMAIN p : p[k].call = c}
           C == {x \in f : x[1] = s /\ x[2] = c}
<1>1. Line(s, queue, p, f, d)
  BY DEF SendInv, LinesInv
<1>2. DOMAIN queue = 1..Len(queue) /\ DOMAIN p = 1..Len(p) /\ Len(d) \in Nat
  BY <1>1, LenProperties DEF Line
<1>3. \A x \in f : \E t, k : x = <<t, k, "ok">> \/ x = <<t, k, "failed">>
  BY DEF SendInv, CallTypes
<1>4. /\ QueueIn(s, queue, d) /\ PendingIn(p, d) /\ FlushIn(s, f, d)
      /\ InOrder(s, queue, p, f, d) /\ Found(s, queue, p, f, d)
  BY <1>1 DEF Line
<1>5. Places(s, c) = Cardinality(A) + Cardinality(B) + Cardinality(C)
  BY DEF Places
<1>6. /\ \A k : k \in A <=> k \in 1..Len(queue) /\ Mine(queue[k], s) /\ queue[k].call = c
      /\ \A k : k \in B <=> k \in 1..Len(p) /\ p[k].call = c
  BY <1>2 DEF Mine
<1>7. \A x \in C : x = <<s, c, "ok">> \/ x = <<s, c, "failed">>
  BY <1>3
<1>8. <<s, c, "ok">> \in f => <<s, c, "ok">> \in C
  OBVIOUS
<1>9. <<s, c, "failed">> \in f => <<s, c, "failed">> \in C
  OBVIOUS
<1>10. \A x \in C : x \in f
  OBVIOUS
<1>11. c \in Nat /\ c \in 1..Len(d) /\ d[c].answer = "none" /\ ~(c < c)
  BY <1>2
<1> HIDE DEF A, B, C, p, d, f
<1>12. \A i, j \in A : i = j
  <2> SUFFICES ASSUME NEW i \in A, NEW j \in A, i < j PROVE FALSE
    <3>1. \A k \in A : k \in Int
      BY <1>6
    <3> QED BY <3>1
  <2> QED BY <1>4, <1>6, <1>11 DEF QueueIn
<1>13. \A i, j \in B : i = j
  <2> SUFFICES ASSUME NEW i \in B, NEW j \in B, i < j PROVE FALSE
    <3>1. \A k \in B : k \in Int
      BY <1>6
    <3> QED BY <3>1
  <2> QED BY <1>4, <1>6, <1>11 DEF PendingIn
<1>14. \A x \in C : InFlush(s, f, c)
  BY <1>7, <1>10 DEF InFlush
<1>15. \A x, y \in C : x = y
  BY <1>4, <1>7, <1>10, <1>11, <1>14 DEF FlushIn
<1>16. \A i \in A : \A j \in B : FALSE
  BY <1>4, <1>6, <1>11 DEF InOrder, AheadOfQueue
<1>17. InFlush(s, f, c) => A = {} /\ B = {}
  <2> SUFFICES ASSUME InFlush(s, f, c) PROVE A = {} /\ B = {}
    OBVIOUS
  <2>1. AheadOfQueue(s, queue, c) /\ AheadOfPending(p, c)
    BY <1>4, <1>11 DEF InOrder
  <2> QED BY <1>6, <1>11, <2>1 DEF AheadOfQueue, AheadOfPending
<1>18. \/ \E i : i \in A
       \/ \E i : i \in B
       \/ InFlush(s, f, c)
  BY <1>4, <1>6, <1>11 DEF Found
<1>19. CASE \E i : i \in A
  <2>1. Cardinality(A) = 1
    BY <1>12, <1>19, CountOne
  <2>2. Cardinality(B) = 0 /\ Cardinality(C) = 0
    BY <1>14, <1>16, <1>17, <1>19, CountNone
  <2> QED BY <1>5, <2>1, <2>2
<1>20. CASE \E i : i \in B
  <2>1. Cardinality(B) = 1
    BY <1>13, <1>20, CountOne
  <2>2. Cardinality(A) = 0 /\ Cardinality(C) = 0
    BY <1>14, <1>16, <1>17, <1>20, CountNone
  <2> QED BY <1>5, <2>1, <2>2
<1>21. CASE InFlush(s, f, c)
  <2>1. Cardinality(C) = 1
    <3>1. \E x : x \in C
      BY <1>8, <1>9, <1>21 DEF InFlush
    <3> QED BY <1>15, <3>1, CountOne
  <2>2. Cardinality(A) = 0 /\ Cardinality(B) = 0
    BY <1>17, <1>21, CountNone
  <2> QED BY <1>5, <2>1, <2>2
<1> QED BY <1>18, <1>19, <1>20, <1>21

LEMMA OpensAreKept ==
  ASSUME SendInv, NEW r \in SendStreams, open[r] = "waiting"
  PROVE  1 = Cardinality({k \in DOMAIN opened : opened[k] = r})
             + Cardinality({k \in DOMAIN queue : queue[k].type = "Open" /\ queue[k].of = r})
<1> DEFINE A == {k \in DOMAIN queue : queue[k].type = "Open" /\ queue[k].of = r}
           B == {k \in DOMAIN opened : opened[k] = r}
<1>1. OpenLine(r, queue, opened, "waiting")
  BY DEF SendInv, OpensInv
<1>2. DOMAIN queue = 1..Len(queue) /\ DOMAIN opened = 1..Len(opened)
  BY LenProperties DEF SendInv, StateTypes, TurnTypes, DataTypes
<1>3. /\ \A k : k \in A <=> k \in 1..Len(queue) /\ Asking(queue[k], r)
      /\ \A k : k \in B <=> k \in 1..Len(opened) /\ opened[k] = r
  BY <1>2 DEF Asking
<1> HIDE DEF A, B
<1>4. /\ (\A i, j \in A : i = j) /\ (\A i, j \in B : i = j) /\ (\A i \in A : \A j \in B : FALSE)
      /\ (\E i : i \in A) \/ (\E i : i \in B)
  BY <1>1, <1>3 DEF OpenLine
<1>5. CASE \E i : i \in A
  <2>1. Cardinality(A) = 1 /\ Cardinality(B) = 0
    BY <1>4, <1>5, CountOne, CountNone
  <2> QED BY <2>1 DEF A, B
<1>6. CASE \E i : i \in B
  <2>1. Cardinality(B) = 1 /\ Cardinality(A) = 0
    BY <1>4, <1>6, CountOne, CountNone
  <2> QED BY <2>1 DEF A, B
<1> QED BY <1>4, <1>5, <1>6

LEMMA CallsWait == SendInv => WaitsOnlyForPeer
<1> SUFFICES ASSUME SendInv PROVE WaitsOnlyForPeer
  OBVIOUS
<1>1. SendTypeOK
  BY TypesFollow
<1>2. NothingForgotten
  <2>1. ASSUME NEW x \in Unanswered PROVE Places(x[1], x[2]) = 1
    <3>1. x \in Made /\ calls[x[1]][x[2]].answer = "none"
      BY DEF Unanswered
    <3>2. PICK s \in SendStreams : x \in {s} \X DOMAIN calls[s]
      BY <3>1 DEF Made
    <3>3. x[1] = s /\ x[2] \in DOMAIN calls[s]
      BY <3>2
    <3>4. DOMAIN calls[s] = 1..Len(calls[s])
      BY LenProperties DEF SendInv, CallTypes
    <3> QED BY <3>1, <3>3, <3>4, CallsAreKept
  <2> QED BY <2>1, OpensAreKept DEF NothingForgotten
<1>3. WorkConserving
  BY DEF WorkConserving, SendInv, WorkInv, Blocked
<1>4. DrainedOpensFail
  BY DEF DrainedOpensFail, SendInv, DrainInv
<1> QED BY <1>1, <1>2, <1>3, <1>4 DEF WaitsOnlyForPeer

LEMMA AnswersFollow == SendInv => AckedIsSent
<1> SUFFICES ASSUME SendInv, NEW s \in SendStreams
             PROVE  /\ sent[s] >= Total([c \in DOMAIN calls[s] |-> IF c \in Ok(s) THEN calls[s][c].size ELSE 0])
                    /\ \A c \in Ok(s) : \A d \in 1..(c - 1) : calls[s][d].answer # "none"
  BY DEF AckedIsSent
<1> DEFINE p == pending[s]
           c == calls[s]
           f == after_flush
           K == Ok(s)
           a == [k \in DOMAIN c |-> IF k \in K THEN c[k].size ELSE 0]
           b == Dues(s, p, f, c)
<1>1. Line(s, queue, p, f, c) /\ Paid(s, p, f, c, sent[s])
  BY DEF SendInv, LinesInv
<1>2. DOMAIN c = 1..Len(c) /\ \A k : k \in K <=> k \in 1..Len(c) /\ c[k].answer = "ok"
  <2>1. DOMAIN c = 1..Len(c)
    BY <1>1, LenProperties DEF Line
  <2> QED BY <2>1 DEF Ok
<1> HIDE DEF p, c, f, K
<1>3. Len(c) \in Nat /\ \A k \in 1..Len(c) : c[k].size \in Nat
  BY <1>1, LineTypes
<1>4. a \in Seq(Nat) /\ Len(a) = Len(c)
  <2>1. a \in [1..Len(c) -> Nat]
    BY <1>2, <1>3
  <2> HIDE DEF a
  <2> QED BY <1>3, <2>1, FunctionIsSequence
<1>5. b \in Seq(Nat) /\ Len(b) = Len(c) /\ \A k \in 1..Len(c) : Due(s, p, f, c, k) \in Nat
  BY <1>1, DueTypes
<1>6. \A k \in 1..Len(b) : a[k] <= b[k]
  <2> SUFFICES ASSUME NEW k \in 1..Len(c) PROVE a[k] <= b[k]
    BY <1>5
  <2>1. a[k] = (IF k \in K THEN c[k].size ELSE 0) /\ b[k] = Due(s, p, f, c, k)
    BY <1>2 DEF Dues
  <2>2. CASE k \in K
    BY <1>2, <1>3, <2>1, <2>2 DEF Due
  <2>3. CASE k \notin K
    <3>1. a[k] = 0 /\ b[k] \in Nat
      BY <1>5, <2>1, <2>3
    <3> HIDE DEF a, b
    <3> QED BY <3>1
  <2> QED BY <2>2, <2>3
<1> HIDE DEF a, b
<1>7. Total(a) <= Total(b) /\ Total(a) \in Nat /\ Total(b) \in Nat
  BY <1>4, <1>5, <1>6, TotalIsMonotone, TotalIsNat
<1>8. sent[s] >= Total(a)
  BY <1>1, <1>7 DEF Paid, b
<1>9. ASSUME NEW k \in K, NEW d \in 1..(k - 1) PROVE c[d].answer # "none"
  <2> SUFFICES ASSUME c[d].answer = "none" PROVE FALSE
    OBVIOUS
  <2>1. k \in 1..Len(c) /\ c[k].answer = "ok" /\ d \in 1..Len(c) /\ d < k /\ d \in Nat /\ k \in Nat
    BY <1>2, <1>3
  <2>2. /\ AheadOfQueue(s, queue, k) /\ AheadOfPending(p, k)
        /\ \A n \in Nat : InFlush(s, f, n) => k < n
    BY <1>1, <2>1 DEF Line, InOrder
  <2>3. \/ \E i \in 1..Len(queue) : Mine(queue[i], s) /\ queue[i].call = d
        \/ \E i \in 1..Len(p) : p[i].call = d
        \/ InFlush(s, f, d)
    BY <1>1, <2>1 DEF Line, Found
  <2>4. k < d
    BY <2>1, <2>2, <2>3 DEF AheadOfQueue, AheadOfPending
  <2> QED BY <2>1, <2>4
<1> QED BY <1>8, <1>9 DEF a, K, c

(* Nothing is sent on a stream that is over: a flush looks first.           *)
LEMMA EndStep == StateTypes /\ RoomInv /\ WorkInv /\ [SendNext]_sendVars => \A s \in Over : sent'[s] = sent[s]
<1> SUFFICES ASSUME StateTypes, RoomInv, WorkInv, [SendNext]_sendVars, NEW s \in Over
             PROVE  sent'[s] = sent[s]
  OBVIOUS
<1>1. s \in SendStreams /\ ~CanSend(s)
  BY DEF Over, CanSend
<1>2. CASE \/ PumpRefused \/ PumpOpened \/ PumpBlocked \/ Pumped \/ Flushed
           \/ HandleOpen \/ HandleSend \/ HandleReset \/ HandleDrop
           \/ Draining \/ Grant \/ OtherEvent \/ Ends \/ UNCHANGED sendVars
  BY <1>2 DEF PumpRefused, PumpOpened, PumpBlocked, Pumped, Flushed, HandleOpen, HandleSend, HandleReset,
              HandleDrop, Draining, Grant, OtherEvent, Ends, sendVars
<1>3. ASSUME NEW t \in SendStreams,
             \/ FlushClosed(t) \/ FlushBlocked(t) \/ FlushFin(t)
             \/ StopSending(t) \/ Open(t) \/ GiveUpOpen(t)
             \/ CallStep(t) \/ Return(t) \/ CancelWait(t) \/ DropStream(t)
      PROVE  sent'[s] = sent[s]
  BY <1>3 DEF FlushClosed, FlushBlocked, FlushFin, StopSending, Open, GiveUpOpen, CallStep, Call, Return,
              CancelWait, DropStream
<1>4. ASSUME NEW t \in SendStreams, FlushPart(t) \/ FlushWhole(t)
      PROVE  sent'[s] = sent[s]
  <2>1. t # s /\ \E n : sent' = [sent EXCEPT ![t] = n]
    BY <1>1, <1>4 DEF FlushPart, FlushWhole
  <2> QED BY <1>1, <2>1 DEF RoomInv
<1> QED
  <2>1. CASE SendNext
    BY <1>2, <1>3, <1>4, <2>1, SendCases
  <2> QED BY <1>2, <2>1

-----------------------------------------------------------------------------
(* What waits for the driver is remembered, and waits for nothing but the   *)
(* peer (Driver::flush_pending_sends, Driver::pump_opens).                  *)
THEOREM WaitingIsForPeer == SendSpec => []WaitsOnlyForPeer
BY SendInvariant, CallsWait, PTL

(* A call that is answered "ok" is sent, after all that was called before   *)
(* it, however callers give up and streams end (Driver::flush_cycle).       *)
THEOREM AnsweredIsSent == SendSpec => []AckedIsSent
BY SendInvariant, AnswersFollow, PTL

(* No byte follows the FIN, the reset or the peer's stop                    *)
(* (Driver::can_send).                                                      *)
THEOREM EndIsFinal == SendSpec => NothingAfterEnd
<1>1. SendInv /\ [SendNext]_sendVars => [\A s \in Over : sent'[s] = sent[s]]_sendVars
  BY EndStep DEF SendInv
<1> QED BY <1>1, SendInvariant, PTL DEF SendSpec, NothingAfterEnd

===============================================================================
