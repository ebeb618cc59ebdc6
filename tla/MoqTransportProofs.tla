------------------------- MODULE MoqTransportProofs -------------------------
(***************************************************************************)
(* Theorems about a session's transport (MoqTransport), for any streams,   *)
(* capacities and read sizes, and about the connections it is set up over  *)
(* (MoqConnect), for any clients, relays, addresses and timeouts.          *)
(***************************************************************************)
EXTENDS MoqTransport, MoqConnect, TotalsProofs

-----------------------------------------------------------------------------
(* The inductive invariant.                                                 *)

CommandRecords ==
  [op : Operations, id : {"out"}] \cup [op : {"consumed"}, id : Streams, size : Nat]
    \cup [op : {"stop"}, id : Streams] \cup [op : {"drop"}, id : Streams \cup {"out"}]
Chunks == [first : Nat, size : Nat, end : {None, "fin", "reset"}]
Things == Streams \cup Nat
Reading == {"queued", "reading"}

(* What is counted over the commands under way, and over chunks.            *)
OpWeight(op) == [x \in CommandRecords |-> IF x.op = op THEN 1 ELSE 0]
StopWeight(s) == [x \in CommandRecords |-> IF x.op = "stop" /\ x.id = s THEN 1 ELSE 0]
BackWeight(s) == [x \in CommandRecords |-> Back(x, s)]
SizeWeight == [x \in Chunks |-> x.size]
Pending(op) == Tally(OpWeight(op), requests)
Stopping(s) == Tally(StopWeight(s), requests)

StreamTypes ==
  /\ net \in [Streams -> {"unseen", "open", "fin", "reset", "closed"}]
  /\ reader \in [Streams -> {"none", "left", "fin", "reset", "error"} \cup Reading]
  /\ sent \in [Streams -> Nat] /\ credited \in [Streams -> Nat]
  /\ chan \in [Streams -> Seq(Chunks)] /\ buffer \in [Streams -> Chunks]
  /\ got \in [Streams -> Seq(Nat)]

Types ==
  /\ route \in {"wt_h3", "ngtcp2"} /\ main \in {"serving", "gone"} \cup Operations
  /\ reply \in {None, "ok", "failed", "stopped"}
  /\ driver \in {"pass", "select", "handing", "stopped"}
  /\ requests \in Seq(CommandRecords) /\ opens \in Nat /\ writes \in BOOLEAN /\ backlog \in BOOLEAN
  /\ queue \in [Kinds -> Seq(Things)] /\ arrived \in [Kinds -> Seq(Things)]
  /\ taken \in [Kinds -> Seq(Things)]
  /\ Handing => /\ route = "wt_h3" /\ handing \in [kind : Kinds, item : Things]
                /\ handing.kind = "datagram" => handing.item \in Nat
                /\ handing.kind # "datagram" =>
                     /\ handing.item \in Streams /\ KindOf(handing.item) = handing.kind
                     /\ net[handing.item] # "unseen"
  /\ StreamTypes

(* One operation of the session is under way at a time: its command is in   *)
(* the queue, it waits, or it is answered.                                  *)
AskInv ==
  /\ route = "ngtcp2" /\ main # "gone" =>
       /\ \A op \in Operations : Pending(op) > 0 =>
            op = main /\ Pending(op) = 1 /\ reply = None /\ opens = 0 /\ ~writes
       /\ opens > 0 => main = "open" /\ reply = None
       /\ writes => main \in {"write", "finish"} /\ reply = None
  /\ driver = "stopped" => requests = <<>> /\ opens = 0 /\ ~writes

(* A stream handed over, or about to be, is in one place and not yet read.  *)
LinedUp(q, k, state) ==
  \A i \in 1..Len(q) : /\ q[i] \in Streams /\ KindOf(q[i]) = k /\ state[q[i]] = "queued"
                        /\ \A j \in 1..Len(q) : q[i] = q[j] => i = j
Lined(k) == LinedUp(queue[k], k, reader)
QueueInv ==
  main # "gone" =>
    /\ Lined("uni") /\ Lined("bidi")
    /\ Handing /\ handing.kind # "datagram" =>
         /\ reader[handing.item] = "queued"
         /\ \A i \in 1..Len(queue[handing.kind]) : queue[handing.kind][i] # handing.item

(* The chunks in a channel continue what comes before them, p being where   *)
(* each begins; an end is the last of them.                                 *)
Marks(p, c, from, to) ==
  /\ p \in [0..Len(c) -> 0..to] /\ p[0] = from /\ p[Len(c)] = to
  /\ \A i \in 1..Len(c) : /\ p[i] = p[i - 1] + c[i].size
                          /\ c[i].end = None => c[i].first = p[i - 1] + 1
                          /\ c[i].end # None => i = Len(c) /\ c[i].size = 0
Chain(c, from, to) == \E p \in [0..Len(c) -> 0..to] : Marks(p, c, from, to)
Ended(c) == c # <<>> /\ c[Len(c)].end # None

Exact(s) ==
  /\ \A i \in 1..Len(got[s]) : got[s][i] = i
  /\ net[s] = "unseen" <=> reader[s] = "none"
  /\ reader[s] = "none" =>
       sent[s] = 0 /\ chan[s] = <<>> /\ buffer[s].size = 0 /\ got[s] = <<>>
  /\ reader[s] = "fin" => Len(got[s]) = sent[s] /\ net[s] \in {"fin", "closed"}
  /\ reader[s] \in Reading =>
       /\ buffer[s].size > 0 => buffer[s].first = Len(got[s]) + 1
       /\ Chain(chan[s], Len(got[s]) + buffer[s].size, sent[s])
       /\ Ended(chan[s]) =>
            /\ net[s] # "open"
            /\ chan[s][Len(chan[s])].end = "fin" => net[s] \in {"fin", "closed"}

ReadInv == \A s \in Streams : Exact(s)

(* ngtcp2: what is read is forwarded, until its reader is gone.             *)
ReceiverInv ==
  /\ route = "ngtcp2" /\ driver # "stopped" =>
       \A s \in Streams : net[s] = "open" /\ reader[s] \in Reading => s \in receivers
  /\ \A s \in Streams : Stopping(s) > 0 => reader[s] \notin Reading \cup {"none"}

IInv ==
  Types /\ AskInv /\ QueueInv /\ NothingLost /\ ReadInv /\ ReceiverInv /\ CreditConserved
        /\ AckedIsSent

-----------------------------------------------------------------------------
(* Commands and their weights.                                              *)

LEMMA Constants ==
  /\ "out" \notin Streams /\ "consumed" \notin Operations /\ "stop" \notin Operations
  /\ "drop" \notin Operations /\ "serving" \notin Operations /\ "gone" \notin Operations
  /\ None \notin Streams \cup {"ok", "failed", "stopped", "fin", "reset"}
  /\ ReadSize \in Nat \ {0} /\ MaxPeer \in Nat /\ Streams \cap Nat = {}
  /\ Uni \subseteq Streams /\ Bidi \subseteq Streams
BY TransportAssumption DEF Operations, Streams

LEMMA Weights ==
  /\ \A op \in Operations : OpWeight(op) \in [CommandRecords -> Nat]
  /\ \A s \in Streams : StopWeight(s) \in [CommandRecords -> Nat]
  /\ \A s \in Streams : BackWeight(s) \in [CommandRecords -> Nat]
  /\ SizeWeight \in [Chunks -> Nat]
<1>1. \A op \in Operations : OpWeight(op) \in [CommandRecords -> Nat]
  BY DEF OpWeight
<1>2. \A s \in Streams : StopWeight(s) \in [CommandRecords -> Nat]
  BY DEF StopWeight
<1>3. ASSUME NEW s \in Streams PROVE BackWeight(s) \in [CommandRecords -> Nat]
  <2> SUFFICES ASSUME NEW x \in CommandRecords PROVE Back(x, s) \in Nat
    BY DEF BackWeight
  <2>1. CASE x.op = "consumed"
    BY <2>1, Constants DEF CommandRecords, Back
  <2>2. CASE x.op # "consumed"
    BY <2>2 DEF Back
  <2> QED BY <2>1, <2>2
<1>4. SizeWeight \in [Chunks -> Nat]
  BY DEF SizeWeight, Chunks
<1> QED BY <1>1, <1>2, <1>3, <1>4

LEMMA WeightsOf ==
  ASSUME NEW x \in CommandRecords
  PROVE  /\ \A op \in Operations : OpWeight(op)[x] = IF x.op = op THEN 1 ELSE 0
         /\ \A t \in Streams : StopWeight(t)[x] = IF x.op = "stop" /\ x.id = t THEN 1 ELSE 0
         /\ \A t \in Streams : BackWeight(t)[x] = Back(x, t)
BY DEF OpWeight, StopWeight, BackWeight

LEMMA BacksAreTally ==
  ASSUME NEW t \in Streams, NEW q \in Seq(CommandRecords)
  PROVE  Total([i \in 1..Len(q) |-> Back(q[i], t)]) = Tally(BackWeight(t), q)
<1>1. \A i \in 1..Len(q) : BackWeight(t)[q[i]] = Back(q[i], t)
  BY ElementOfSeq, WeightsOf
<1>2. [i \in 1..Len(q) |-> BackWeight(t)[q[i]]] = [i \in 1..Len(q) |-> Back(q[i], t)]
  BY <1>1
<1> QED BY <1>2 DEF Tally

LEMMA SizesAreTally ==
  ASSUME NEW c \in Seq(Chunks)
  PROVE  Total([i \in 1..Len(c) |-> c[i].size]) = Tally(SizeWeight, c)
<1>1. \A i \in 1..Len(c) : SizeWeight[c[i]] = c[i].size
  BY ElementOfSeq DEF SizeWeight
<1>2. [i \in 1..Len(c) |-> SizeWeight[c[i]]] = [i \in 1..Len(c) |-> c[i].size]
  BY <1>1
<1> QED BY <1>2 DEF Tally

(* Commands that ask for nothing: they stop streams of S and give back b.   *)
Quiet(c, S, b) ==
  /\ c \in Seq(CommandRecords)
  /\ \A op \in Operations : Tally(OpWeight(op), c) = 0
  /\ \A t \in Streams : /\ Tally(StopWeight(t), c) \in Nat
                        /\ Tally(StopWeight(t), c) > 0 => t \in S
                        /\ Tally(BackWeight(t), c) = b[t]
Nothing == [t \in Streams |-> 0]
Only(s, n) == [t \in Streams |-> IF t = s THEN n ELSE 0]

LEMMA QuietEmpty == \A S : Quiet(<<>>, S, Nothing)
BY EmptySeq, TallyOfEmpty DEF Quiet, Nothing

LEMMA QuietOne ==
  ASSUME NEW x \in CommandRecords, x.op \notin Operations, NEW S, x.op = "stop" => x.id \in S,
         NEW b, \A t \in Streams : b[t] = Back(x, t)
  PROVE  Quiet(<<x>>, S, b)
<1>1. /\ <<x>> \in Seq(CommandRecords)
      /\ \A w \in [CommandRecords -> Nat] : Tally(w, <<x>>) = w[x]
  BY TallyOfOne
<1>2. \A op \in Operations : Tally(OpWeight(op), <<x>>) = 0
  BY <1>1, Weights, WeightsOf
<1>3. ASSUME NEW t \in Streams
      PROVE  /\ Tally(StopWeight(t), <<x>>) \in Nat
             /\ Tally(StopWeight(t), <<x>>) > 0 => t \in S
             /\ Tally(BackWeight(t), <<x>>) = b[t]
  BY <1>1, Weights, WeightsOf
<1> QED BY <1>1, <1>2, <1>3 DEF Quiet

LEMMA QuietConcat ==
  ASSUME NEW c, NEW S, NEW b, Quiet(c, S, b), NEW d, NEW T, NEW e, Quiet(d, T, e),
         NEW g, \A t \in Streams : g[t] = b[t] + e[t]
  PROVE  Quiet(c \o d, S \cup T, g)
<1>1. c \in Seq(CommandRecords) /\ d \in Seq(CommandRecords) /\ c \o d \in Seq(CommandRecords)
  BY ConcatProperties DEF Quiet
<1>2. \A w \in [CommandRecords -> Nat] :
        Tally(w, c \o d) = Tally(w, c) + Tally(w, d) /\ Tally(w, c) \in Nat /\ Tally(w, d) \in Nat
  BY <1>1, TallyOfConcat
<1>3. \A op \in Operations : Tally(OpWeight(op), c \o d) = 0
  BY SMTT(30), <1>2, Weights DEF Quiet
<1>4. ASSUME NEW t \in Streams
      PROVE  /\ Tally(StopWeight(t), c \o d) \in Nat
             /\ Tally(StopWeight(t), c \o d) > 0 => t \in S \cup T
             /\ Tally(BackWeight(t), c \o d) = g[t]
  <2>1. /\ Tally(StopWeight(t), c \o d) = Tally(StopWeight(t), c) + Tally(StopWeight(t), d)
        /\ Tally(BackWeight(t), c \o d) = Tally(BackWeight(t), c) + Tally(BackWeight(t), d)
    BY <1>2, Weights
  <2> QED BY <2>1 DEF Quiet
<1> QED BY <1>1, <1>3, <1>4 DEF Quiet

LEMMA QuietConsumed ==
  ASSUME NEW s \in Streams, NEW n \in Nat
  PROVE  Quiet(Consumed(s, n), {}, Only(s, n))
<1> DEFINE x == [op |-> "consumed", id |-> s, size |-> n]
<1>1. x \in CommandRecords /\ x.op = "consumed" /\ x.op \notin Operations
  BY Constants DEF CommandRecords
<1>2. \A t \in Streams : Only(s, n)[t] = Back(x, t)
  BY DEF Only, Back
<1>3. x.op # "stop"
  OBVIOUS
<1>4. CASE n = 0
  <2>1. Only(s, n) = Nothing
    BY <1>4 DEF Only, Nothing
  <2> QED BY <1>4, <2>1, QuietEmpty DEF Consumed
<1>5. CASE n # 0
  <2>1. Consumed(s, n) = <<x>>
    BY <1>5 DEF Consumed
  <2> HIDE DEF x
  <2> QED BY <1>1, <1>2, <1>3, <2>1, QuietOne
<1> QED BY <1>4, <1>5

LEMMA UnreadIs ==
  ASSUME Types, NEW s \in Streams
  PROVE  /\ Unread(s) = buffer[s].size + Tally(SizeWeight, chan[s]) /\ Unread(s) \in Nat
         /\ Tally(SizeWeight, chan[s]) \in Nat /\ buffer[s].size \in Nat
<1>1. chan[s] \in Seq(Chunks) /\ buffer[s].size \in Nat
  BY DEF Types, StreamTypes, Chunks
<1> DEFINE c == chan[s]
<1>2. Unread(s) = buffer[s].size + Total([i \in 1..Len(c) |-> c[i].size])
  BY DEF Unread
<1>3. c \in Seq(Chunks) /\ SizeWeight \in [Chunks -> Nat]
  BY <1>1, Weights
<1> HIDE DEF c
<1>4. Tally(SizeWeight, c) \in Nat
  BY <1>3, TallyOfConcat
<1>5. Total([i \in 1..Len(c) |-> c[i].size]) = Tally(SizeWeight, c)
  BY <1>3, SizesAreTally
<1> QED BY <1>1, <1>2, <1>4, <1>5 DEF c

LEMMA QuietDropSend ==
  ASSUME NEW id \in Streams \cup {"out"}
  PROVE  Quiet(DropSend(id), {}, Nothing)
<1> DEFINE x == [op |-> "drop", id |-> id]
<1>1. x \in CommandRecords /\ x.op = "drop" /\ x.op \notin Operations
  BY Constants DEF CommandRecords
<1>2. \A t \in Streams : Nothing[t] = Back(x, t)
  BY DEF Nothing, Back
<1>3. CASE route # "ngtcp2"
  BY <1>3, QuietEmpty DEF DropSend
<1>4. CASE route = "ngtcp2"
  <2>1. DropSend(id) = <<x>>
    BY <1>4 DEF DropSend
  <2> HIDE DEF x
  <2> QED BY <1>1, <1>2, <2>1, QuietOne
<1> QED BY <1>3, <1>4

Discarded(s) == Only(s, IF route = "ngtcp2" THEN Unread(s) ELSE 0)

LEMMA QuietDropReceive ==
  ASSUME Types, NEW s \in Streams
  PROVE  Quiet(DropReceive(s), {s}, Discarded(s))
<1> DEFINE x == [op |-> "stop", id |-> s]
<1>1. x \in CommandRecords /\ x.op = "stop" /\ x.op \notin Operations /\ x.id \in {s}
  BY Constants DEF CommandRecords
<1>2. \A t \in Streams : Nothing[t] = Back(x, t)
  BY DEF Nothing, Back
<1>3. CASE route # "ngtcp2"
  <2>1. Discarded(s) = Nothing
    BY <1>3 DEF Discarded, Only, Nothing
  <2> QED BY <1>3, <2>1, QuietEmpty DEF DropReceive
<1>4. CASE route = "ngtcp2"
  <2>1. DropReceive(s) = Append(Consumed(s, Unread(s)), x) /\ Discarded(s) = Only(s, Unread(s))
    BY <1>4 DEF DropReceive, Discarded
  <2> HIDE DEF x
  <2>2. Unread(s) \in Nat
    BY UnreadIs
  <2>3. Quiet(Consumed(s, Unread(s)), {}, Only(s, Unread(s)))
    BY <2>2, QuietConsumed
  <2>4. Quiet(<<x>>, {s}, Nothing)
    BY <1>1, <1>2, QuietOne
  <2>5. \A t \in Streams : Only(s, Unread(s))[t] = Only(s, Unread(s))[t] + Nothing[t]
    BY <2>2 DEF Only, Nothing
  <2>6. Quiet(Consumed(s, Unread(s)) \o <<x>>, {} \cup {s}, Only(s, Unread(s)))
    BY <2>3, <2>4, <2>5, QuietConcat
  <2>7. Append(Consumed(s, Unread(s)), x) = Consumed(s, Unread(s)) \o <<x>>
    BY <1>1, <2>3, AppendIsConcat DEF Quiet
  <2>8. {} \cup {s} = {s}
    OBVIOUS
  <2> QED BY <2>1, <2>6, <2>7, <2>8
<1> QED BY <1>3, <1>4

(* Both halves of a stream that was never accepted.                         *)
LEMMA QuietDropBoth ==
  ASSUME Types, NEW s \in Streams
  PROVE  /\ Quiet(DropReceive(s) \o DropSend(s), {s}, Discarded(s))
         /\ Quiet(DropReceive(s) \o <<>>, {s}, Discarded(s))
<1>1. Quiet(DropReceive(s), {s}, Discarded(s)) /\ Quiet(DropSend(s), {}, Nothing)
      /\ Quiet(<<>>, {}, Nothing)
  BY QuietDropReceive, QuietDropSend, QuietEmpty
<1>2. \A t \in Streams : Discarded(s)[t] = Discarded(s)[t] + Nothing[t]
  BY UnreadIs DEF Discarded, Only, Nothing
<1>3. {s} \cup {} = {s}
  OBVIOUS
<1>4. Quiet(DropReceive(s) \o DropSend(s), {s} \cup {}, Discarded(s))
  BY <1>1, <1>2, QuietConcat
<1>5. Quiet(DropReceive(s) \o <<>>, {s} \cup {}, Discarded(s))
  BY <1>1, <1>2, QuietConcat
<1> QED BY <1>3, <1>4, <1>5

(* All the streams that wait in the acceptors.                              *)
QueuedDrops(queued) ==
  FlattenSeq([i \in DOMAIN queued |->
    DropReceive(queued[i]) \o IF queued[i] \in Bidi THEN DropSend(queued[i]) ELSE <<>>])
DiscardedOf(S) == [t \in Streams |-> IF route = "ngtcp2" /\ t \in S THEN Unread(t) ELSE 0]

LEMMA QuietQueuedDrops ==
  ASSUME Types, NEW queued \in Seq(Streams),
         \A i, j \in 1..Len(queued) : queued[i] = queued[j] => i = j
  PROVE  Quiet(QueuedDrops(queued), ToSet(queued), DiscardedOf(ToSet(queued)))
<1> DEFINE f(s) == DropReceive(s) \o IF s \in Bidi THEN DropSend(s) ELSE <<>>
           n == Len(queued)
           Q == [i \in 1..n |-> f(queued[i])]
<1>1. n \in Nat /\ DOMAIN queued = 1..n /\ \A i \in 1..n : queued[i] \in Streams
  BY LenProperties, ElementOfSeq
<1>2. ToSet(queued) = {queued[i] : i \in 1..n}
  BY <1>1 DEF ToSet
<1>3. QueuedDrops(queued) = FlattenSeq(Q)
  BY <1>1 DEF QueuedDrops
<1>4. \A i \in 1..n : Quiet(Q[i], {queued[i]}, Discarded(queued[i]))
  BY <1>1, QuietDropBoth
<1>5. Q \in [1..n -> Seq(CommandRecords)]
  BY <1>4 DEF Quiet
<1> HIDE DEF Q, f
<1>6. Q \in Seq(Seq(CommandRecords)) /\ Len(Q) = n
  BY <1>1, <1>5, FunctionIsSequence
<1>7. ASSUME NEW w \in [CommandRecords -> Nat],
             NEW k \in Nat \ {0}, \A i \in 1..n : i # k => Tally(w, Q[i]) = 0
      PROVE  Tally(w, FlattenSeq(Q)) = IF k \in 1..n THEN Tally(w, Q[k]) ELSE 0
  <2> DEFINE a == [i \in 1..n |-> Tally(w, Q[i])]
  <2>1. a \in Seq(Nat) /\ Tally(w, FlattenSeq(Q)) = Total(a)
    BY <1>6, TallyOfFlatten
  <2>2. Len(a) = n
    <3>1. DOMAIN a = 1..n /\ DOMAIN a = 1..Len(a) /\ Len(a) \in Nat
      BY <2>1, LenProperties
    <3> HIDE DEF a
    <3>2. 1..n = 1..Len(a)
      BY <3>1
    <3> HIDE DEF n
    <3> QED BY <1>1, <3>1, <3>2
  <2>3. \A i \in 1..Len(a) : i # k => a[i] = 0
    BY <1>7, <2>2
  <2>4. k \in 1..n => a[k] = Tally(w, Q[k])
    OBVIOUS
  <2> HIDE DEF a
  <2>5. Total(a) = IF k \in 1..Len(a) THEN a[k] ELSE 0
    BY <1>7, <2>1, <2>3, TotalOfSingle
  <2> QED BY <2>1, <2>2, <2>4, <2>5
<1>8. FlattenSeq(Q) \in Seq(CommandRecords)
  BY <1>6, Weights, TallyOfFlatten DEF Operations
<1>9. ASSUME NEW op \in Operations PROVE Tally(OpWeight(op), FlattenSeq(Q)) = 0
  <2>1. \A i \in 1..n : Tally(OpWeight(op), Q[i]) = 0
    BY <1>4 DEF Quiet
  <2>2. OpWeight(op) \in [CommandRecords -> Nat]
    BY Weights
  <2>3. Tally(OpWeight(op), FlattenSeq(Q)) = IF 1 \in 1..n THEN Tally(OpWeight(op), Q[1]) ELSE 0
    BY <1>7, <2>1, <2>2
  <2> QED BY <2>1, <2>3
<1>10. ASSUME NEW t \in Streams
       PROVE  /\ Tally(StopWeight(t), FlattenSeq(Q)) \in Nat
              /\ Tally(StopWeight(t), FlattenSeq(Q)) > 0 => t \in ToSet(queued)
              /\ Tally(BackWeight(t), FlattenSeq(Q)) = DiscardedOf(ToSet(queued))[t]
  <2>1. StopWeight(t) \in [CommandRecords -> Nat] /\ BackWeight(t) \in [CommandRecords -> Nat]
    BY Weights
  <2>2. PICK k \in Nat \ {0} : /\ \A i \in 1..n : i # k => queued[i] # t
                               /\ k \in 1..n <=> t \in ToSet(queued)
                               /\ k \in 1..n => queued[k] = t
    <3>1. CASE t \in ToSet(queued)
      <4>1. PICK k \in 1..n : queued[k] = t
        BY <1>2, <3>1
      <4>2. k \in Nat \ {0} /\ \A i \in 1..n : i # k => queued[i] # t
        BY <1>1, <4>1
      <4> QED BY <3>1, <4>1, <4>2
    <3>2. CASE t \notin ToSet(queued)
      <4>1. n + 1 \in Nat \ {0} /\ n + 1 \notin 1..n
        BY <1>1
      <4>2. \A i \in 1..n : queued[i] # t
        BY <1>2, <3>2
      <4> QED BY <3>2, <4>1, <4>2
    <3> QED BY <3>1, <3>2
  <2>3. \A i \in 1..n : /\ Tally(StopWeight(t), Q[i]) \in Nat
                        /\ i # k => Tally(StopWeight(t), Q[i]) = 0
                        /\ Tally(BackWeight(t), Q[i]) = Discarded(queued[i])[t]
    <3> TAKE i \in 1..n
    <3>1. /\ Tally(StopWeight(t), Q[i]) \in Nat
          /\ Tally(StopWeight(t), Q[i]) > 0 => t \in {queued[i]}
          /\ Tally(BackWeight(t), Q[i]) = Discarded(queued[i])[t]
      BY <1>4 DEF Quiet
    <3> QED BY <2>2, <3>1
  <2>4. \A i \in 1..n : i # k => Tally(BackWeight(t), Q[i]) = 0
    BY <2>2, <2>3 DEF Discarded, Only
  <2>5. Tally(StopWeight(t), FlattenSeq(Q)) = IF k \in 1..n THEN Tally(StopWeight(t), Q[k]) ELSE 0
    BY <1>7, <2>1, <2>3
  <2>6. Tally(BackWeight(t), FlattenSeq(Q)) = IF k \in 1..n THEN Tally(BackWeight(t), Q[k]) ELSE 0
    BY <1>7, <2>1, <2>4
  <2>7. k \in 1..n => Discarded(queued[k])[t] = IF route = "ngtcp2" THEN Unread(t) ELSE 0
    BY <2>2 DEF Discarded, Only
  <2> QED BY <2>2, <2>3, <2>5, <2>6, <2>7 DEF DiscardedOf
<1> QED BY <1>3, <1>8, <1>9, <1>10 DEF Quiet

-----------------------------------------------------------------------------
(* What becomes of the commands on their way.                               *)

LEMMA Counts ==
  ASSUME requests \in Seq(CommandRecords)
  PROVE  /\ \A op \in Operations : Pending(op) \in Nat
         /\ \A t \in Streams : /\ Stopping(t) \in Nat /\ Returning(t) \in Nat
                               /\ Returning(t) = Tally(BackWeight(t), requests)
<1>1. \A w \in [CommandRecords -> Nat] : Tally(w, requests) \in Nat
  BY TallyOfConcat
<1>2. \A t \in Streams : Returning(t) = Tally(BackWeight(t), requests)
  BY BacksAreTally DEF Returning
<1> QED BY <1>1, <1>2, Weights DEF Pending, Stopping

(* Commands that ask for nothing are added, unless the driver is gone.      *)
Told(S, b) ==
  /\ requests' \in Seq(CommandRecords)
  /\ \A op \in Operations : Pending(op)' = Pending(op)
  /\ \A t \in Streams : Stopping(t)' > 0 => Stopping(t) > 0 \/ t \in S
  /\ driver # "stopped" => \A t \in Streams : Returning(t)' = Returning(t) + b[t]
  /\ driver = "stopped" => requests' = requests

LEMMA ToldNothing ==
  ASSUME Types, requests' = requests, NEW S
  PROVE  Told(S, Nothing)
<1>1. requests' \in Seq(CommandRecords)
  BY DEF Types, StreamTypes
<1>2. \A op \in Operations : Pending(op)' = Pending(op)
  BY DEF Pending
<1>3. \A t \in Streams : Stopping(t)' = Stopping(t) /\ Returning(t)' = Returning(t)
  BY DEF Stopping, Returning
<1>4. \A t \in Streams : Returning(t)' = Returning(t) + Nothing[t]
  BY <1>3, Counts DEF Types, StreamTypes, Nothing
<1> QED BY <1>1, <1>2, <1>3, <1>4 DEF Told

LEMMA ToldQuietly ==
  ASSUME Types, NEW c, NEW S, NEW b, Quiet(c, S, b), requests' = Sent(c)
  PROVE  Told(S, b)
<1>1. CASE driver = "stopped"
  <2>1. requests' = requests
    BY <1>1 DEF Sent
  <2>2. Told(S, Nothing)
    BY <2>1, ToldNothing
  <2> QED BY <1>1, <2>2 DEF Told
<1>2. CASE driver # "stopped"
  <2>1. requests' = requests \o c
    BY <1>2 DEF Sent
  <2>2. requests \in Seq(CommandRecords) /\ c \in Seq(CommandRecords)
    BY DEF Types, StreamTypes, Quiet
  <2>3. /\ requests' \in Seq(CommandRecords)
        /\ \A w \in [CommandRecords -> Nat] :
             /\ Tally(w, requests') = Tally(w, requests) + Tally(w, c)
             /\ Tally(w, requests) \in Nat
    BY <2>1, <2>2, ConcatProperties, TallyOfConcat
  <2>4. \A op \in Operations : Pending(op)' = Pending(op)
    <3> TAKE op \in Operations
    <3>1. Tally(OpWeight(op), requests') = Tally(OpWeight(op), requests) + 0
          /\ Tally(OpWeight(op), requests) \in Nat
      BY <2>3, Weights DEF Quiet
    <3> QED BY <3>1 DEF Pending
  <2>5. ASSUME NEW t \in Streams
        PROVE  /\ Stopping(t)' > 0 => Stopping(t) > 0 \/ t \in S
               /\ Returning(t)' = Returning(t) + b[t]
    <3>1. /\ Tally(StopWeight(t), requests')
               = Tally(StopWeight(t), requests) + Tally(StopWeight(t), c)
          /\ Tally(StopWeight(t), requests) \in Nat /\ Tally(StopWeight(t), c) \in Nat
          /\ Tally(StopWeight(t), c) > 0 => t \in S
          /\ Tally(BackWeight(t), requests') = Tally(BackWeight(t), requests) + b[t]
      BY <2>3, Weights DEF Quiet
    <3>2. Stopping(t)' > 0 => Stopping(t) > 0 \/ t \in S
      BY <3>1 DEF Stopping
    <3>3. Returning(t) = Tally(BackWeight(t), requests)
      BY <2>2, BacksAreTally DEF Returning
    <3>4. Returning(t)' = Tally(BackWeight(t), requests')
      BY <2>3, BacksAreTally DEF Returning
    <3> QED BY <3>1, <3>2, <3>3, <3>4
  <2> QED BY <1>2, <2>3, <2>4, <2>5 DEF Told
<1> QED BY <1>1, <1>2

(* The driver takes the first.                                              *)
LEMMA Taking ==
  ASSUME Types, requests # <<>>, requests' = Tail(requests)
  PROVE  /\ Head(requests) \in CommandRecords /\ requests' \in Seq(CommandRecords)
         /\ \A op \in Operations :
              Pending(op) = Pending(op)' + IF Head(requests).op = op THEN 1 ELSE 0
         /\ \A op \in Operations : Pending(op)' \in Nat
         /\ \A t \in Streams :
              /\ Stopping(t) = Stopping(t)'
                   + IF Head(requests).op = "stop" /\ Head(requests).id = t THEN 1 ELSE 0
              /\ Returning(t) = Returning(t)' + Back(Head(requests), t)
              /\ Stopping(t)' \in Nat /\ Returning(t)' \in Nat
<1> DEFINE x == Head(requests)
<1>1. requests \in Seq(CommandRecords)
  BY DEF Types, StreamTypes
<1>2. /\ x \in CommandRecords /\ requests' \in Seq(CommandRecords)
      /\ \A w \in [CommandRecords -> Nat] :
           /\ Tally(w, requests) = w[x] + Tally(w, requests')
           /\ Tally(w, requests') \in Nat /\ w[x] \in Nat
  BY <1>1, TallyOfTail, HeadTailProperties
<1> HIDE DEF x
<1>3. ASSUME NEW op \in Operations
      PROVE  Pending(op) = Pending(op)' + (IF x.op = op THEN 1 ELSE 0) /\ Pending(op)' \in Nat
  <2>1. /\ Tally(OpWeight(op), requests) = OpWeight(op)[x] + Tally(OpWeight(op), requests')
        /\ Tally(OpWeight(op), requests') \in Nat
    BY <1>2, Weights
  <2>2. OpWeight(op)[x] = IF x.op = op THEN 1 ELSE 0
    BY <1>2, WeightsOf
  <2> QED BY <2>1, <2>2 DEF Pending
<1>4. ASSUME NEW t \in Streams
      PROVE  /\ Stopping(t) = Stopping(t)' + IF x.op = "stop" /\ x.id = t THEN 1 ELSE 0
             /\ Returning(t) = Returning(t)' + Back(x, t)
             /\ Stopping(t)' \in Nat /\ Returning(t)' \in Nat
  <2>1. /\ Tally(StopWeight(t), requests) = StopWeight(t)[x] + Tally(StopWeight(t), requests')
        /\ Tally(StopWeight(t), requests') \in Nat
    BY <1>2, Weights
  <2>2. /\ Tally(BackWeight(t), requests) = BackWeight(t)[x] + Tally(BackWeight(t), requests')
        /\ Tally(BackWeight(t), requests') \in Nat /\ BackWeight(t)[x] \in Nat
    BY <1>2, Weights
  <2>3. StopWeight(t)[x] = (IF x.op = "stop" /\ x.id = t THEN 1 ELSE 0) /\ BackWeight(t)[x] = Back(x, t)
    BY <1>2, WeightsOf
  <2>4. Returning(t) = Tally(BackWeight(t), requests)
    BY <1>1, BacksAreTally DEF Returning
  <2>5. Returning(t)' = Tally(BackWeight(t), requests')
    BY <1>2, BacksAreTally DEF Returning
  <2>6. Stopping(t) = Tally(StopWeight(t), requests) /\ Stopping(t)' = Tally(StopWeight(t), requests')
    BY DEF Stopping
  <2> QED BY <2>1, <2>2, <2>3, <2>4, <2>5, <2>6
<1> QED BY <1>2, <1>3, <1>4 DEF x

(* The driver goes, and the commands with it.                               *)
LEMMA Emptying ==
  ASSUME requests' = <<>>
  PROVE  /\ requests' \in Seq(CommandRecords)
         /\ \A op \in Operations : Pending(op)' = 0
         /\ \A t \in Streams : Stopping(t)' = 0
<1>1. requests' \in Seq(CommandRecords) /\ \A w : Tally(w, requests') = 0
  BY EmptySeq, TallyOfEmpty
<1> QED BY <1>1 DEF Pending, Stopping

-----------------------------------------------------------------------------
(* Steps that several actions share.                                        *)

(* What the acceptors give out first, and what is left behind it.           *)
LEMMA Accepting ==
  ASSUME IInv, main # "gone", NEW k \in {"uni", "bidi"}, queue[k] # <<>>
  PROVE  LET s == Head(queue[k]) IN
           /\ s \in Streams /\ KindOf(s) = k /\ reader[s] = "queued"
           /\ Tail(queue[k]) \in Seq(Things) /\ Len(Tail(queue[k])) = Len(queue[k]) - 1
           /\ \A i \in 1..Len(Tail(queue[k])) :
                Tail(queue[k])[i] = queue[k][i + 1] /\ Tail(queue[k])[i] # s /\ i + 1 \in 1..Len(queue[k])
           /\ queue[k] = <<s>> \o Tail(queue[k]) /\ Len(queue[k]) \in Nat
<1> DEFINE q == queue[k]
           s == Head(q)
<1>1. q \in Seq(Things) /\ Lined(k) /\ q # <<>>
  BY DEF IInv, Types, StreamTypes, Kinds, QueueInv
<1>2. \A i \in 1..Len(q) : /\ q[i] \in Streams /\ KindOf(q[i]) = k /\ reader[q[i]] = "queued"
                           /\ \A j \in 1..Len(q) : q[i] = q[j] => i = j
  BY <1>1 DEF Lined, LinedUp
<1> HIDE DEF q
<1>3. /\ Tail(q) \in Seq(Things) /\ Len(Tail(q)) = Len(q) - 1 /\ Len(q) \in Nat \ {0}
      /\ Head(q) = q[1] /\ q = <<Head(q)>> \o Tail(q)
      /\ \A i \in 1..Len(Tail(q)) : Tail(q)[i] = q[i + 1] /\ i + 1 \in 1..Len(q)
  BY <1>1, TailElements
<1>4. 1 \in 1..Len(q)
  BY <1>3
<1>5. s \in Streams /\ KindOf(s) = k /\ reader[s] = "queued"
  BY <1>2, <1>3, <1>4
<1>6. \A i \in 1..Len(Tail(q)) : Tail(q)[i] # s
  <2> TAKE i \in 1..Len(Tail(q))
  <2>1. Tail(q)[i] = q[i + 1] /\ i + 1 \in 1..Len(q) /\ i + 1 # 1
    BY <1>3
  <2> QED BY <1>2, <1>3, <1>4, <2>1
<1> QED BY <1>3, <1>5, <1>6 DEF q

(* A reader's end goes: its stream is dropped.                              *)
Releasing(s, how) ==
  /\ s \in Streams /\ reader[s] \in Reading /\ how \in {"left", "fin", "reset", "error"}
  /\ how = "fin" => chan[s] # <<>> /\ Head(chan[s]).end = "fin" /\ buffer[s].size = 0
  /\ Release(s, how) /\ Told({s}, Discarded(s))
  /\ UNCHANGED <<route, main, reply, driver, handing, receivers, opens, writes, backlog, net, sent,
                 credited, got, arrived>>

ReadsData(s) ==
  /\ reader[s] = "reading"
  /\ buffer[s].size > 0 \/ (chan[s] # <<>> /\ Head(chan[s]).end = None)
  /\ ReadData(s)
  /\ UNCHANGED <<route, app, driver, handing, queue, receivers, sending, net, sent, credited, flow>>

LEMMA Releases ==
  ASSUME IInv
  PROVE  /\ AcceptBidi => Releasing(Head(queue["bidi"]), "left")
         /\ \A s \in Streams : ReaderLeaves(s) => Releasing(s, "left") /\ UNCHANGED <<queue, taken>>
         /\ \A s \in Streams : Read(s) =>
              ReadsData(s) \/ (\E how : Releasing(s, how) /\ UNCHANGED <<queue, taken>>)
<1>1. ASSUME NEW s \in Streams, requests' = Sent(DropReceive(s)) PROVE Told({s}, Discarded(s))
  BY <1>1, QuietDropReceive, ToldQuietly DEF IInv
<1>2. ASSUME AcceptBidi PROVE Releasing(Head(queue["bidi"]), "left")
  <2> DEFINE s == Head(queue["bidi"])
  <2>1. main # "gone" /\ queue["bidi"] # <<>>
    BY <1>2 DEF AcceptBidi
  <2>2. s \in Streams /\ reader[s] = "queued"
    BY <2>1, Accepting
  <2>3. requests' = Sent(DropReceive(s) \o DropSend(s)) /\ Release(s, "left")
    BY <1>2 DEF AcceptBidi
  <2>4. UNCHANGED <<route, main, reply, driver, handing, receivers, opens, writes, backlog, net, sent,
                    credited, got, arrived>>
    BY <1>2 DEF AcceptBidi, app, sending
  <2> HIDE DEF s
  <2>5. Told({s}, Discarded(s))
    BY <2>2, <2>3, QuietDropBoth, ToldQuietly DEF IInv
  <2> QED BY <2>2, <2>3, <2>4, <2>5 DEF Releasing, Reading, s
<1>3. ASSUME NEW s \in Streams, ReaderLeaves(s)
      PROVE  Releasing(s, "left") /\ UNCHANGED <<queue, taken>>
  <2>1. Told({s}, Discarded(s))
    BY <1>1, <1>3 DEF ReaderLeaves
  <2> QED BY <1>3, <2>1 DEF ReaderLeaves, Releasing, Reading, app, sending, flow
<1>4. ASSUME NEW s \in Streams, Read(s)
      PROVE  ReadsData(s) \/ (\E how : Releasing(s, how) /\ UNCHANGED <<queue, taken>>)
  <2>1. CASE /\ buffer[s].size > 0 \/ (chan[s] # <<>> /\ Head(chan[s]).end = None)
             /\ ReadData(s)
    BY <1>4, <2>1 DEF Read, ReadsData
  <2>2. CASE /\ buffer[s].size = 0 /\ chan[s] # <<>> /\ Head(chan[s]).end # None
             /\ requests' = Sent(DropReceive(s)) /\ Release(s, Head(chan[s]).end) /\ UNCHANGED got
    <3>1. Told({s}, Discarded(s))
      BY <1>1, <2>2
    <3>2. Head(chan[s]).end \in {"fin", "reset"}
      <4>1. chan[s] \in Seq(Chunks)
        BY DEF IInv, Types, StreamTypes
      <4>2. Head(chan[s]) \in Chunks
        BY <2>2, <4>1, HeadTailProperties
      <4> QED BY <2>2, <4>2 DEF Chunks
    <3>3. Releasing(s, Head(chan[s]).end)
      BY <1>4, <2>2, <3>1, <3>2 DEF Read, Releasing, Reading, app, sending, flow
    <3> QED BY <1>4, <3>3 DEF Read, flow
  <2>3. CASE /\ buffer[s].size = 0 /\ chan[s] = <<>>
             /\ requests' = Sent(DropReceive(s)) /\ Release(s, "error") /\ UNCHANGED got
    <3>1. Told({s}, Discarded(s))
      BY <1>1, <2>3
    <3>2. Releasing(s, "error")
      BY <1>4, <2>3, <3>1 DEF Read, Releasing, Reading, app, sending, flow
    <3> QED BY <1>4, <3>2 DEF Read, flow
  <2> QED BY <1>4, <2>1, <2>2, <2>3 DEF Read
<1> QED BY <1>2, <1>3, <1>4

(* The session goes, and with it the streams that wait to be accepted.      *)
Waiting == ToSet(queue["uni"] \o queue["bidi"])

LEMMA WaitingStreams ==
  ASSUME IInv, main # "gone"
  PROVE  /\ queue["uni"] \o queue["bidi"] \in Seq(Streams)
         /\ \A i, j \in 1..Len(queue["uni"] \o queue["bidi"]) :
              (queue["uni"] \o queue["bidi"])[i] = (queue["uni"] \o queue["bidi"])[j] => i = j
         /\ Waiting \subseteq Streams /\ \A s \in Waiting : reader[s] = "queued"
<1> DEFINE u == queue["uni"]
           b == queue["bidi"]
<1>1. u \in Seq(Things) /\ b \in Seq(Things)
  BY DEF IInv, Types, StreamTypes, Kinds
<1>2. /\ \A i \in 1..Len(u) : /\ u[i] \in Streams /\ KindOf(u[i]) = "uni" /\ reader[u[i]] = "queued"
                              /\ \A j \in 1..Len(u) : u[i] = u[j] => i = j
      /\ \A i \in 1..Len(b) : /\ b[i] \in Streams /\ KindOf(b[i]) = "bidi" /\ reader[b[i]] = "queued"
                              /\ \A j \in 1..Len(b) : b[i] = b[j] => i = j
  BY DEF IInv, QueueInv, Lined, LinedUp
<1> HIDE DEF u, b
<1> DEFINE q == u \o b
<1>3. /\ q \in Seq(Things) /\ Len(q) = Len(u) + Len(b) /\ Len(u) \in Nat /\ Len(b) \in Nat
      /\ \A i \in 1..Len(u) : q[i] = u[i]
      /\ \A i \in 1..Len(b) : q[Len(u) + i] = b[i]
      /\ \A i \in 1..Len(q) : i \in 1..Len(u) \/ \E j \in 1..Len(b) : i = Len(u) + j
  <2>1. /\ u \o b \in Seq(Things) /\ Len(u \o b) = Len(u) + Len(b)
        /\ Len(u) \in Nat /\ Len(b) \in Nat
    BY <1>1, ConcatElements
  <2>2. \A i \in 1..Len(u) : (u \o b)[i] = u[i]
    BY <1>1, ConcatElements
  <2>3. \A i \in 1..Len(b) : (u \o b)[Len(u) + i] = b[i]
    BY <1>1, ConcatElements
  <2>4. \A i \in 1..Len(u \o b) : i \in 1..Len(u) \/ \E j \in 1..Len(b) : i = Len(u) + j
    BY <1>1, ConcatElements
  <2> QED BY <2>1, <2>2, <2>3, <2>4
<1> HIDE DEF q
<1>4. \A i \in 1..Len(q) : q[i] \in Streams /\ reader[q[i]] = "queued"
  <2> TAKE i \in 1..Len(q)
  <2>1. CASE i \in 1..Len(u)
    <3>1. q[i] = u[i]
      BY <1>3, <2>1
    <3> QED BY <1>2, <2>1, <3>1
  <2>2. CASE \E j \in 1..Len(b) : i = Len(u) + j
    <3>1. PICK j \in 1..Len(b) : q[i] = b[j]
      BY <1>3, <2>2
    <3> QED BY <1>2, <3>1
  <2> QED BY <1>3, <2>1, <2>2
<1>5. q \in Seq(Streams) /\ ToSet(q) = {q[i] : i \in 1..Len(q)}
  <2>1. Len(q) \in Nat /\ DOMAIN q = 1..Len(q) /\ q \in [1..Len(q) -> Things]
    BY <1>3, LenProperties
  <2>2. q \in [1..Len(q) -> Streams]
    BY <1>4, <2>1
  <2>3. q \in Seq(Streams)
    BY <2>1, <2>2, FunctionIsSequence
  <2> QED BY <2>1, <2>3 DEF ToSet
<1>6. ASSUME NEW i \in 1..Len(q), NEW j \in 1..Len(q), q[i] = q[j] PROVE i = j
  <2>1. CASE i \in 1..Len(u) /\ j \in 1..Len(u)
    BY <1>2, <1>3, <1>6, <2>1
  <2>2. CASE i \in 1..Len(u) /\ \E l \in 1..Len(b) : j = Len(u) + l
    <3>1. PICK l \in 1..Len(b) : j = Len(u) + l /\ q[j] = b[l]
      BY <1>3, <2>2
    <3>2. KindOf(q[i]) = "uni" /\ KindOf(q[j]) = "bidi"
      BY <1>2, <1>3, <2>2, <3>1
    <3> QED BY <1>6, <3>2
  <2>3. CASE j \in 1..Len(u) /\ \E l \in 1..Len(b) : i = Len(u) + l
    <3>1. PICK l \in 1..Len(b) : i = Len(u) + l /\ q[i] = b[l]
      BY <1>3, <2>3
    <3>2. KindOf(q[j]) = "uni" /\ KindOf(q[i]) = "bidi"
      BY <1>2, <1>3, <2>3, <3>1
    <3> QED BY <1>6, <3>2
  <2>4. CASE /\ \E l \in 1..Len(b) : i = Len(u) + l
             /\ \E l \in 1..Len(b) : j = Len(u) + l
    <3>1. PICK l \in 1..Len(b), m \in 1..Len(b) : i = Len(u) + l /\ j = Len(u) + m
      BY <2>4
    <3>2. b[l] = b[m]
      BY <1>3, <1>6, <3>1
    <3>3. l = m
      BY <1>2, <3>2
    <3> QED BY <3>1, <3>3
  <2> QED BY <1>3, <2>1, <2>2, <2>3, <2>4
<1>7. ToSet(q) \subseteq Streams /\ \A s \in ToSet(q) : reader[s] = "queued"
  BY <1>4, <1>5
<1>8. Waiting = ToSet(q)
  BY DEF Waiting, q, u, b
<1>9. q = queue["uni"] \o queue["bidi"]
  BY DEF q, u, b
<1> QED BY <1>5, <1>6, <1>7, <1>8, <1>9

LEMMA Leaving ==
  ASSUME IInv, main # "gone", Leave
  PROVE  /\ Told(Waiting, DiscardedOf(Waiting)) /\ main' = "gone"
         /\ \A s \in Streams :
              /\ reader'[s] = IF s \in Waiting THEN "left" ELSE reader[s]
              /\ chan'[s] = IF s \in Waiting THEN <<>> ELSE chan[s]
              /\ buffer'[s] = IF s \in Waiting THEN Empty ELSE buffer[s]
         /\ reader' = [s \in Streams |-> reader'[s]] /\ chan' = [s \in Streams |-> chan'[s]]
         /\ buffer' = [s \in Streams |-> buffer'[s]]
         /\ reply' = None /\ queue' = [k \in Kinds |-> <<>>]
         /\ UNCHANGED <<route, driver, handing, opens, writes, backlog, receivers, net, sent, credited, got, arrived, taken>>
<1> DEFINE q == queue["uni"] \o queue["bidi"]
           d == IF out THEN DropSend("out") ELSE <<>>
<1>1. requests' = Sent(QueuedDrops(q) \o d)
  BY DEF Leave, QueuedDrops
<1>2. Quiet(QueuedDrops(q), ToSet(q), DiscardedOf(ToSet(q)))
  BY WaitingStreams, QuietQueuedDrops DEF IInv
<1>3. Quiet(d, {}, Nothing)
  BY QuietDropSend, QuietEmpty
<1>4. ToSet(q) = Waiting
  BY DEF Waiting
<1> HIDE DEF q, d
<1>5. Quiet(QueuedDrops(q) \o d, Waiting \cup {}, DiscardedOf(Waiting))
  <2>1. \A t \in Streams : DiscardedOf(Waiting)[t] = DiscardedOf(Waiting)[t] + Nothing[t]
    BY UnreadIs DEF DiscardedOf, Nothing, IInv
  <2> QED BY <1>2, <1>3, <1>4, <2>1, QuietConcat
<1>6. Waiting \cup {} = Waiting
  OBVIOUS
<1>7. Told(Waiting, DiscardedOf(Waiting))
  BY <1>1, <1>5, <1>6, ToldQuietly DEF IInv
<1>8. /\ reader' = [s \in Streams |-> IF s \in Waiting THEN "left" ELSE reader[s]]
      /\ chan' = [s \in Streams |-> IF s \in Waiting THEN <<>> ELSE chan[s]]
      /\ buffer' = [s \in Streams |-> IF s \in Waiting THEN Empty ELSE buffer[s]]
  BY DEF Leave, Waiting
<1>9. /\ main' = "gone" /\ reply' = None /\ queue' = [k \in Kinds |-> <<>>]
      /\ UNCHANGED <<route, driver, handing, opens, writes, backlog, receivers, net, sent, credited,
                     got, arrived, taken>>
  BY DEF Leave, sending, flow
<1> QED BY <1>7, <1>8, <1>9

(* A stream that arrives when the acceptors are gone, or before.            *)
LEMMA Opening ==
  ASSUME IInv, NEW s \in Streams, StreamOpened(s)
  PROVE  Told({s}, Nothing)
<1>1. CASE main # "gone"
  BY <1>1, ToldNothing DEF StreamOpened, IInv
<1>2. CASE main = "gone"
  <2>1. reader[s] = "none" /\ Unread(s) = 0
    <3>1. reader[s] = "none"
      BY DEF StreamOpened, IInv, ReadInv, Exact
    <3>2. chan[s] = <<>> /\ buffer[s].size = 0
      BY <3>1 DEF IInv, ReadInv, Exact
    <3>3. Tally(SizeWeight, chan[s]) = 0
      BY <3>2, TallyOfEmpty
    <3> QED BY <3>1, <3>2, <3>3, UnreadIs DEF IInv
  <2>2. Discarded(s) = Nothing
    BY <2>1 DEF Discarded, Only, Nothing
  <2> DEFINE c == DropReceive(s) \o IF s \in Bidi THEN DropSend(s) ELSE <<>>
  <2>3. Quiet(c, {s}, Nothing)
    BY <2>2, QuietDropBoth DEF IInv
  <2>4. requests = <<>> /\ requests' = c /\ driver # "stopped"
    BY <1>2 DEF StreamOpened, Event, Selecting
  <2> HIDE DEF c
  <2>5. requests' = Sent(c)
    <3>1. <<>> \o c = c
      BY <2>3, ConcatEmptySeq DEF Quiet
    <3> QED BY <2>4, <3>1 DEF Sent
  <2> QED BY <2>3, <2>5, ToldQuietly DEF IInv
<1> QED BY <1>1, <1>2

(* What a read takes of a chunk.                                            *)
Taken(s) == IF NextChunk(s).size < ReadSize THEN NextChunk(s).size ELSE ReadSize

LEMMA ReadTells ==
  ASSUME IInv, NEW s \in Streams, ReadsData(s)
  PROVE  /\ NextChunk(s) \in Chunks /\ Taken(s) \in 0..NextChunk(s).size
         /\ Told({}, IF route = "ngtcp2" THEN Only(s, Taken(s)) ELSE Nothing)
<1>1. chan[s] \in Seq(Chunks) /\ buffer[s] \in Chunks
  BY DEF IInv, Types, StreamTypes
<1>2. NextChunk(s) \in Chunks
  BY <1>1, HeadTailProperties DEF ReadsData, NextChunk, Chunks
<1>3. Taken(s) \in 0..NextChunk(s).size
  BY <1>2, Constants DEF Taken, Chunks
<1>4. Taken(s) \in Nat
  BY <1>3, <1>2 DEF Chunks
<1>5. requests' = IF route = "ngtcp2" THEN Sent(Consumed(s, Taken(s))) ELSE requests
  BY DEF ReadsData, ReadData, Taken
<1>6. ASSUME route = "ngtcp2" PROVE Told({}, Only(s, Taken(s)))
  <2>1. Quiet(Consumed(s, Taken(s)), {}, Only(s, Taken(s)))
    BY <1>4, QuietConsumed
  <2>2. requests' = Sent(Consumed(s, Taken(s)))
    BY <1>5, <1>6
  <2> QED BY <2>1, <2>2, ToldQuietly DEF IInv
<1>7. ASSUME route # "ngtcp2" PROVE Told({}, Nothing)
  BY <1>5, <1>7, ToldNothing DEF IInv
<1> QED BY <1>2, <1>3, <1>6, <1>7

-----------------------------------------------------------------------------
(* What is asked of the driver, and what an acknowledged write says.        *)

LEMMA AskKept ==
  ASSUME IInv, NEW S, NEW b, Told(S, b),
         UNCHANGED <<route, main, reply, opens, writes, backlog>>,
         driver' = "stopped" => driver = "stopped"
  PROVE  AskInv' /\ AckedIsSent'
<1>1. \A op \in Operations : Pending(op)' = Pending(op)
  BY DEF Told
<1>2. driver' = "stopped" => requests' = requests
  BY DEF Told
<1>3. AskInv'
  BY <1>1, <1>2 DEF IInv, AskInv
<1>4. AckedIsSent'
  BY DEF IInv, AckedIsSent
<1> QED BY <1>3, <1>4

LEMMA AskStopped ==
  ASSUME Stop
  PROVE  AskInv' /\ AckedIsSent'
<1>1. requests' = <<>> /\ opens' = 0 /\ ~writes' /\ ~backlog'
  BY DEF Stop
<1>2. \A op \in Operations : Pending(op)' = 0
  BY <1>1, Emptying
<1> QED BY <1>1, <1>2 DEF AskInv, AckedIsSent

(* The session awaits nothing: nothing of it is on its way.                 *)
LEMMA NothingAsked ==
  ASSUME IInv, route = "ngtcp2", main # "gone", main \notin Operations \/ reply # None
  PROVE  opens = 0 /\ ~writes /\ \A op \in Operations : Pending(op) = 0
<1>1. \A op \in Operations : Pending(op) \in Nat
  BY Counts DEF IInv, Types, StreamTypes
<1>2. \A op \in Operations : Pending(op) = 0
  BY <1>1 DEF IInv, AskInv
<1>3. opens = 0 /\ ~writes
  BY DEF IInv, AskInv, Types, StreamTypes, Operations
<1> QED BY <1>2, <1>3

LEMMA AskLeaving ==
  ASSUME IInv, main # "gone", Leave
  PROVE  AskInv' /\ AckedIsSent'
<1>1. main' = "gone" /\ Told(Waiting, DiscardedOf(Waiting)) /\ UNCHANGED <<driver, opens, writes>>
  BY Leaving
<1> QED BY <1>1 DEF IInv, AskInv, AckedIsSent, Told

LEMMA AskResume ==
  ASSUME IInv, Resume
  PROVE  AskInv' /\ AckedIsSent'
<1>1. main # "gone" /\ main \in Operations /\ (reply # None \/ driver = "stopped")
  BY Constants DEF Resume
<1>2. CASE main = "close" \/ (reply # "ok" /\ main \in {"open", "datagram"})
  BY <1>1, <1>2, AskLeaving DEF Resume
<1>3. CASE ~(main = "close" \/ (reply # "ok" /\ main \in {"open", "datagram"}))
  <2>1. /\ main' = "serving" /\ UNCHANGED <<route, driver, opens, writes, backlog>>
        /\ requests' = IF out /\ ~out' THEN Sent(DropSend("out")) ELSE requests
    BY <1>3 DEF Resume, sending
  <2>2. Told({}, Nothing)
    BY <2>1, ToldNothing, ToldQuietly, QuietDropSend DEF IInv
  <2>3. driver' = "stopped" => requests' = <<>> /\ opens' = 0 /\ ~writes'
    BY <2>1, <2>2 DEF IInv, AskInv, Told
  <2>4. ASSUME route = "ngtcp2"
        PROVE  opens' = 0 /\ ~writes' /\ \A op \in Operations : Pending(op)' = 0
    <3>1. CASE reply # None
      BY <1>1, <2>1, <2>2, <2>4, <3>1, NothingAsked DEF Told
    <3>2. CASE driver = "stopped"
      <4>1. requests' = <<>> /\ opens' = 0 /\ ~writes'
        BY <2>1, <2>3, <3>2
      <4> QED BY <4>1, Emptying
    <3> QED BY <1>1, <3>1, <3>2
  <2> QED BY <2>1, <2>3, <2>4 DEF AskInv, AckedIsSent
<1> QED BY <1>2, <1>3

LEMMA AskStart ==
  ASSUME IInv, NEW op \in Operations, Start(op)
  PROVE  AskInv' /\ AckedIsSent' /\ requests' \in Seq(CommandRecords)
         /\ \A t \in Streams : Stopping(t)' = Stopping(t) /\ Returning(t)' = Returning(t)
<1> DEFINE x == [op |-> op, id |-> "out"]
<1>1. /\ main = "serving" /\ main' = op /\ reply' = None
      /\ UNCHANGED <<route, driver, opens, writes>>
      /\ requests' = IF Asks(op) THEN Sent(<<x>>) ELSE requests
  BY DEF Start
<1>2. x \in CommandRecords /\ x.op = op /\ requests \in Seq(CommandRecords)
  BY DEF CommandRecords, IInv, Types, StreamTypes
<1>3. op \notin {"serving", "gone", "consumed", "stop", "drop"}
  BY Constants
<1> HIDE DEF x
<1>4. CASE requests' = requests
  <2>1. \A o \in Operations : Pending(o)' = Pending(o)
    BY <1>4 DEF Pending
  <2>2. \A t \in Streams : Stopping(t)' = Stopping(t) /\ Returning(t)' = Returning(t)
    BY <1>4 DEF Stopping, Returning
  <2>3. route = "ngtcp2" => opens = 0 /\ ~writes /\ \A o \in Operations : Pending(o) = 0
    BY <1>1, Constants, NothingAsked
  <2>4. AskInv'
    BY <1>1, <1>4, <2>1, <2>3 DEF AskInv, IInv
  <2>5. AckedIsSent'
    BY <1>1, Constants DEF AckedIsSent
  <2> QED BY <1>2, <1>4, <2>2, <2>4, <2>5
<1>5. CASE driver # "stopped" /\ requests' = requests \o <<x>>
  <2>1. /\ requests' \in Seq(CommandRecords)
        /\ \A w \in [CommandRecords -> Nat] :
             Tally(w, requests') = Tally(w, requests) + w[x] /\ Tally(w, requests) \in Nat /\ w[x] \in Nat
    <3>1. <<x>> \in Seq(CommandRecords) /\ requests' \in Seq(CommandRecords)
      BY <1>2, <1>5, TallyOfOne, ConcatProperties
    <3>2. ASSUME NEW w \in [CommandRecords -> Nat]
          PROVE  Tally(w, requests') = Tally(w, requests) + w[x]
                 /\ Tally(w, requests) \in Nat /\ w[x] \in Nat
      <4>1. Tally(w, <<x>>) = w[x] /\ w[x] \in Nat
        BY <1>2, TallyOfOne
      <4>2. Tally(w, requests \o <<x>>) = Tally(w, requests) + Tally(w, <<x>>)
            /\ Tally(w, requests) \in Nat
        BY <1>2, <3>1, TallyOfConcat
      <4> QED BY <1>5, <4>1, <4>2
    <3> QED BY <3>1, <3>2
  <2>2. \A o \in Operations : Pending(o)' = Pending(o) + IF o = op THEN 1 ELSE 0
    BY <1>2, <2>1, Weights, WeightsOf DEF Pending
  <2>3. ASSUME NEW t \in Streams
        PROVE  Stopping(t)' = Stopping(t) /\ Returning(t)' = Returning(t)
    <3>1. StopWeight(t)[x] = 0 /\ BackWeight(t)[x] = 0
      BY <1>2, <1>3, WeightsOf DEF Back
    <3>2. Tally(StopWeight(t), requests') = Tally(StopWeight(t), requests)
          /\ Tally(BackWeight(t), requests') = Tally(BackWeight(t), requests)
      BY <2>1, <3>1, Weights
    <3>3. Returning(t) = Tally(BackWeight(t), requests)
      BY <1>2, BacksAreTally DEF Returning
    <3>4. Returning(t)' = Tally(BackWeight(t), requests')
      BY <2>1, BacksAreTally DEF Returning
    <3> QED BY <3>2, <3>3, <3>4 DEF Stopping
  <2>4. route = "ngtcp2" => opens = 0 /\ ~writes /\ \A o \in Operations : Pending(o) = 0
    BY <1>1, Constants, NothingAsked
  <2>5. AskInv'
    BY <1>1, <1>5, <2>2, <2>4 DEF AskInv
  <2>6. AckedIsSent'
    BY <1>1, Constants DEF AckedIsSent
  <2> QED BY <2>1, <2>3, <2>5, <2>6
<1> QED BY <1>1, <1>4, <1>5 DEF Sent

LEMMA AskCommands ==
  ASSUME IInv, Commands
  PROVE  AskInv' /\ AckedIsSent'
<1>1. CASE CommandClose
  BY <1>1, AskStopped DEF CommandClose
<1> DEFINE x == Head(requests)
<1>2. ASSUME NEW op, Command(op), driver' # "stopped"
      PROVE  /\ route = "ngtcp2" /\ op = x.op
             /\ \A o \in Operations : /\ Pending(o) = Pending(o)' + IF op = o THEN 1 ELSE 0
                                      /\ Pending(o)' \in Nat
             /\ main # "gone" /\ op \in Operations =>
                  /\ op = main /\ reply = None /\ opens = 0 /\ ~writes
                  /\ \A o \in Operations : Pending(o)' = 0
  <2>1. route = "ngtcp2" /\ requests # <<>> /\ requests' = Tail(requests) /\ op = x.op
    BY <1>2 DEF Command, Selecting
  <2>2. \A o \in Operations : /\ Pending(o) = Pending(o)' + IF op = o THEN 1 ELSE 0
                              /\ Pending(o)' \in Nat
    BY <2>1, Taking DEF IInv
  <2>3. ASSUME main # "gone", op \in Operations
        PROVE  /\ op = main /\ reply = None /\ opens = 0 /\ ~writes
               /\ \A o \in Operations : Pending(o)' = 0
    <3>1. Pending(op) > 0
      BY <2>2, <2>3
    <3>2. op = main /\ Pending(op) = 1 /\ reply = None /\ opens = 0 /\ ~writes
      BY <2>1, <2>3, <3>1 DEF IInv, AskInv
    <3>3. ASSUME NEW o \in Operations PROVE Pending(o)' = 0
      <4>1. CASE o = op
        BY <2>2, <3>2, <4>1
      <4>2. CASE o # op
        <5>1. ~(Pending(o) > 0)
          BY <2>1, <2>3, <3>2, <4>2 DEF IInv, AskInv
        <5> QED BY <2>2, <4>2, <5>1
      <4> QED BY <4>1, <4>2
    <3> QED BY <3>2, <3>3
  <2> QED BY <2>1, <2>2, <2>3
<1> HIDE DEF x
<1>3. CASE NextTurn /\ CommandOpen
  <2>1. Command("open") /\ driver' # "stopped" /\ opens' = opens + 1
        /\ UNCHANGED <<route, main, reply, writes, backlog>>
    BY <1>3 DEF NextTurn, CommandOpen, app
  <2>2. "open" \in Operations
    BY DEF Operations
  <2>3. AskInv'
    BY <1>2, <2>1, <2>2 DEF AskInv
  <2> QED BY <2>1, <2>3 DEF AckedIsSent, IInv
<1>4. ASSUME NEW op \in Operations, NextTurn, CommandWrite(op)
      PROVE  AskInv' /\ AckedIsSent'
  <2>1. Command(op) /\ driver' # "stopped" /\ op \in {"write", "finish"}
        /\ UNCHANGED <<route, main, opens>>
        /\ \/ writes' = TRUE /\ backlog' = TRUE /\ UNCHANGED reply
           \/ Answer(op, "failed") /\ UNCHANGED <<writes, backlog>>
    BY <1>4 DEF NextTurn, CommandWrite
  <2>2. main # "gone" => main = op /\ reply = None /\ opens = 0 /\ ~writes
                         /\ \A o \in Operations : Pending(o)' = 0
    BY <1>2, <1>4, <2>1
  <2>3. CASE writes' = TRUE /\ backlog' = TRUE /\ UNCHANGED reply
    BY <2>1, <2>2, <2>3, Constants DEF AskInv, AckedIsSent
  <2>4. CASE Answer(op, "failed") /\ UNCHANGED <<writes, backlog>>
    BY <2>1, <2>2, <2>4, Constants DEF AskInv, AckedIsSent, Answer
  <2> QED BY <2>1, <2>3, <2>4
<1>5. ASSUME NEW op \in {"reset", "datagram"}, NEW result \in {"ok", "failed"}, NextTurn, Command(op),
             Answer(op, result), UNCHANGED <<route, main, opens, writes, backlog>>
      PROVE  AskInv' /\ AckedIsSent'
  <2>1. op \in Operations /\ driver' # "stopped"
    BY <1>5 DEF Operations, NextTurn
  <2>2. main # "gone" => main = op /\ reply = None /\ opens = 0 /\ ~writes
                         /\ \A o \in Operations : Pending(o)' = 0
    BY <1>2, <1>5, <2>1
  <2> QED BY <1>5, <2>1, <2>2 DEF AskInv, AckedIsSent
<1>6. CASE NextTurn /\ (CommandReset \/ CommandDatagram)
  BY <1>5, <1>6 DEF CommandReset, CommandDatagram, sending
<1>7. CASE NextTurn /\ (CommandConsumed \/ CommandStop \/ CommandDrop)
  <2>1. PICK op \in {"consumed", "stop", "drop"} : Command(op)
    BY <1>7 DEF CommandConsumed, CommandStop, CommandDrop
  <2>2. driver' # "stopped" /\ UNCHANGED <<route, main, reply, opens, writes, backlog>>
    BY <1>7 DEF NextTurn, CommandConsumed, CommandStop, CommandDrop, app, sending
  <2>3. \A o \in Operations : Pending(o)' = Pending(o)
    BY <1>2, <2>1, <2>2, Constants
  <2> QED BY <2>2, <2>3 DEF IInv, AskInv, AckedIsSent
<1> QED BY <1>1, <1>3, <1>4, <1>6, <1>7 DEF Commands

LEMMA AskEvents ==
  ASSUME IInv, Events
  PROVE  AskInv' /\ AckedIsSent'
<1>1. CASE ConnectionClosed
  BY <1>1, AskStopped DEF ConnectionClosed
<1>2. ASSUME NEW s \in Streams, StreamOpened(s), NextTurn PROVE AskInv' /\ AckedIsSent'
  <2>1. Told({s}, Nothing)
    BY <1>2, Opening
  <2>2. UNCHANGED <<route, main, reply, opens, writes, backlog>> /\ driver' # "stopped"
    BY <1>2 DEF StreamOpened, NextTurn, app
  <2> QED BY <2>1, <2>2, AskKept
<1>3. ASSUME requests' = requests, UNCHANGED <<route, main, reply, opens, writes, backlog>>, NextTurn
      PROVE  AskInv' /\ AckedIsSent'
  <2>1. Told({}, Nothing)
    BY <1>3, ToldNothing DEF IInv
  <2>2. driver' # "stopped"
    BY <1>3 DEF NextTurn
  <2> QED BY <1>3, <2>1, <2>2, AskKept
<1>4. CASE /\ \/ \E s \in Uni : StreamReset(s) \/ StreamClosed(s)
              \/ \E s \in Uni, n \in 0 .. MaxPeer, fin \in BOOLEAN : StreamData(s, n, fin)
              \/ Datagram \/ MaxStreams
           /\ NextTurn
  BY <1>3, <1>4 DEF StreamReset, StreamClosed, StreamData, Datagram, MaxStreams, app, sending
<1>5. CASE StreamStopSending /\ NextTurn
  <2>1. /\ requests' = requests /\ writes' = FALSE /\ driver' # "stopped"
        /\ UNCHANGED <<route, main, opens, backlog>>
        /\ reply' = IF writes /\ main \in {"write", "finish"} THEN "stopped" ELSE reply
    BY <1>5 DEF StreamStopSending, NextTurn
  <2>2. \A op \in Operations : Pending(op)' = Pending(op)
    BY <2>1 DEF Pending
  <2>3. AskInv'
    BY <2>1, <2>2 DEF AskInv, IInv, Operations
  <2>4. AckedIsSent'
    BY <2>1 DEF AckedIsSent, IInv
  <2> QED BY <2>3, <2>4
<1> QED BY <1>1, <1>2, <1>4, <1>5 DEF Events

LEMMA AskPass ==
  ASSUME IInv, Pass
  PROVE  AskInv' /\ AckedIsSent'
<1> DEFINE opened == opens > 0 /\ main = "open" /\ limit > 0
<1>1. /\ route = "ngtcp2" /\ driver' = "select" /\ requests' = requests
      /\ UNCHANGED <<route, main, backlog>>
      /\ opens' = IF opened \/ main # "open" THEN 0 ELSE opens
      /\ writes' = (writes /\ ~Answered)
      /\ reply' = IF opened \/ (Answered /\ main \in {"write", "finish"} /\ reply = None)
                  THEN "ok" ELSE reply
  BY DEF Pass
<1>2. \A op \in Operations : Pending(op)' = Pending(op)
  BY <1>1 DEF Pending
<1> HIDE DEF opened
<1>3. CASE main = "gone"
  BY <1>1, <1>3 DEF AskInv, AckedIsSent
<1>4. CASE main # "gone" /\ opened
  <2>1. main = "open" /\ opens > 0 /\ ~writes /\ \A op \in Operations : ~(Pending(op) > 0)
    BY <1>1, <1>4 DEF IInv, AskInv, opened
  <2>2. opens' = 0 /\ ~writes' /\ main' = "open" /\ driver' = "select"
    BY <1>1, <1>4, <2>1
  <2>3. \A op \in Operations : ~(Pending(op)' > 0)
    BY <1>2, <2>1
  <2> QED BY <2>2, <2>3 DEF AskInv, AckedIsSent
<1>5. CASE main # "gone" /\ ~opened /\ writes /\ ~backlog
  <2>1. main \in {"write", "finish"} /\ reply = None /\ \A op \in Operations : ~(Pending(op) > 0)
    BY <1>1, <1>5 DEF IInv, AskInv
  <2>2. Answered
    BY <1>5 DEF Answered
  <2>3. ~writes' /\ ~backlog' /\ driver' = "select" /\ opens' = 0
    BY <1>1, <1>5, <2>1, <2>2
  <2>4. \A op \in Operations : ~(Pending(op)' > 0)
    BY <1>2, <2>1
  <2> QED BY <2>3, <2>4 DEF AskInv, AckedIsSent
<1>6. CASE main # "gone" /\ ~opened /\ ~(writes /\ ~backlog)
  <2>1. ~Answered
    BY <1>6 DEF Answered
  <2>2. reply' = reply /\ (writes' => writes) /\ opens' \in {0, opens}
    BY <1>1, <1>6, <2>1
  <2>3. AckedIsSent'
    BY <1>1, <2>2 DEF AckedIsSent, IInv
  <2>4. AskInv'
    BY <1>1, <1>2, <1>6, <2>2 DEF AskInv, IInv
  <2> QED BY <2>3, <2>4
<1> QED BY <1>3, <1>4, <1>5, <1>6

LEMMA AskStep ==
  ASSUME IInv, [Next]_vars
  PROVE  AskInv' /\ AckedIsSent'
<1>1. ASSUME requests' = requests, UNCHANGED <<route, main, reply, opens, writes, backlog>>,
             driver' = "stopped" => driver = "stopped"
      PROVE  AskInv' /\ AckedIsSent'
  <2>1. Told({}, Nothing)
    BY <1>1, ToldNothing DEF IInv
  <2> QED BY <1>1, <2>1, AskKept
<1>2. ASSUME NEW s, NEW how, Releasing(s, how) PROVE AskInv' /\ AckedIsSent'
  BY <1>2, AskKept DEF Releasing
<1>3. CASE \/ UNCHANGED vars \/ Finished \/ AcceptUni \/ RecvDatagrams \/ Timer \/ H3MaxStreams
           \/ H3Datagram \/ \E s \in Streams : H3Stream(s)
           \/ \E s \in Uni, n \in 0 .. MaxPeer, end \in {None, "fin", "reset"} : H3Data(s, n, end)
  BY <1>1, <1>3 DEF vars, Finished, AcceptUni, RecvDatagrams, Timer, H3MaxStreams, H3Datagram,
     H3Stream, H3Data, Receive, app, sending
<1>4. CASE AcceptBidi \/ \E s \in Streams : ReaderLeaves(s)
  BY <1>2, <1>4, Releases
<1>5. ASSUME NEW s \in Streams, Read(s) PROVE AskInv' /\ AckedIsSent'
  <2>1. CASE ReadsData(s)
    <3>1. UNCHANGED <<route, main, reply, opens, writes, backlog, driver>>
      BY <2>1 DEF ReadsData, app, sending
    <3>2. \E b : Told({}, b)
      BY <2>1, ReadTells
    <3> QED BY <3>1, <3>2, AskKept
  <2> QED BY <1>2, <1>5, <2>1, Releases
<1>6. CASE AcceptNone \/ Abandon
  BY <1>6, AskLeaving DEF AcceptNone, Abandon
<1>7. CASE Resume
  BY <1>7, AskResume
<1>8. CASE \E op \in Operations : Start(op)
  BY <1>8, AskStart
<1>9. CASE H3Deliver \/ H3Command \/ H3Ends \/ H3Writes
  <2>1. CASE Stop
    BY <2>1, AskStopped
  <2>2. CASE ~Stop
    <3>1. route' # "ngtcp2" /\ (driver' = "stopped" => driver = "stopped")
          /\ UNCHANGED <<opens, writes>> /\ (driver' = "stopped" => requests' = requests)
      BY <1>9, <2>2 DEF H3Deliver, H3Command, H3Ends, H3Writes, IInv, Types, StreamTypes, H3, sending
    <3> QED BY <3>1 DEF AskInv, AckedIsSent, IInv
  <2> QED BY <2>1, <2>2
<1>10. CASE Pass
  BY <1>10, AskPass
<1>11. CASE Commands
  BY <1>11, AskCommands
<1>12. CASE Events
  BY <1>12, AskEvents
<1>13. CASE OwnerDropped
  BY <1>13, AskStopped DEF OwnerDropped
<1>14. CASE Drain
  <2>1. requests' = requests /\ backlog' = FALSE
        /\ UNCHANGED <<route, main, reply, opens, writes, driver>>
    BY <1>14 DEF Drain, app
  <2>2. \A op \in Operations : Pending(op)' = Pending(op)
    BY <2>1 DEF Pending
  <2> QED BY <2>1, <2>2 DEF IInv, AskInv, AckedIsSent
<1> QED BY <1>3, <1>4, <1>5, <1>6, <1>7, <1>8, <1>9, <1>10, <1>11, <1>12, <1>13, <1>14
     DEF Next, Session, Readers, H3Events, Turns

-----------------------------------------------------------------------------
(* From the driver to the acceptors.                                        *)

Carried(k) == IF Handing /\ handing.kind = k THEN <<handing.item>> ELSE <<>>

LEMMA AppendAndConcat ==
  ASSUME NEW S, NEW a \in Seq(S), NEW b \in Seq(S), NEW e \in S
  PROVE  /\ Append(a, e) \o b = a \o (<<e>> \o b) /\ a \o Append(b, e) = (a \o b) \o <<e>>
         /\ <<e>> \in Seq(S)
<1>1. Append(a, e) = a \o <<e>> /\ Append(b, e) = b \o <<e>> /\ <<e>> \in Seq(S)
  BY AppendIsConcat, TallyOfOne
<1>2. (a \o <<e>>) \o b = a \o (<<e>> \o b)
  BY <1>1, ConcatAssociative
<1>3. (a \o b) \o <<e>> = a \o (b \o <<e>>)
  BY <1>1, ConcatAssociative
<1> QED BY <1>1, <1>2, <1>3

LEMMA FlowTypes ==
  ASSUME IInv, NEW k \in Kinds
  PROVE  /\ queue[k] \in Seq(Things) /\ taken[k] \in Seq(Things) /\ arrived[k] \in Seq(Things)
         /\ Carried(k) \in Seq(Things)
         /\ main # "gone" => arrived[k] = (taken[k] \o queue[k]) \o Carried(k)
<1>1. queue[k] \in Seq(Things) /\ taken[k] \in Seq(Things) /\ arrived[k] \in Seq(Things)
  BY DEF IInv, Types, StreamTypes
<1>2. Carried(k) \in Seq(Things)
  BY DEF IInv, Types, StreamTypes, Carried
<1>3. main # "gone" => arrived[k] = (taken[k] \o queue[k]) \o Carried(k)
  BY DEF IInv, NothingLost, Carried
<1> QED BY <1>1, <1>2, <1>3

FlowInv == QueueInv /\ NothingLost

LEMMA FlowKept ==
  ASSUME IInv, UNCHANGED <<queue, handing, arrived, taken>>, main' # "gone" => main # "gone",
         Handing' <=> Handing, \A s \in Streams : reader[s] = "queued" => reader'[s] = "queued"
  PROVE  FlowInv'
<1>1. NothingLost'
  BY DEF IInv, NothingLost
<1>2. ASSUME main' # "gone" PROVE Lined("uni")' /\ Lined("bidi")'
  BY <1>2 DEF IInv, QueueInv, Lined, LinedUp
<1>3. QueueInv'
  BY <1>2 DEF IInv, QueueInv, Types, StreamTypes
<1> QED BY <1>1, <1>3 DEF FlowInv

LEMMA FlowStill ==
  ASSUME IInv, UNCHANGED <<main, queue, arrived, taken, reader>>, ~Handing, ~Handing'
  PROVE  FlowInv'
<1>1. NothingLost'
  BY DEF IInv, NothingLost
<1>2. QueueInv'
  BY DEF IInv, QueueInv, Lined
<1> QED BY <1>1, <1>2 DEF FlowInv

LEMMA FlowGone ==
  ASSUME main' = "gone"
  PROVE  FlowInv'
BY DEF FlowInv, QueueInv, NothingLost

LEMMA FlowAccept ==
  ASSUME IInv, NEW k \in {"uni", "bidi"}, main # "gone", queue[k] # <<>>,
         NEW how,
         queue' = [queue EXCEPT ![k] = Tail(@)],
         taken' = [taken EXCEPT ![k] = Append(@, Head(queue[k]))],
         reader' = [reader EXCEPT ![Head(queue[k])] = how],
         UNCHANGED <<main, driver, handing, arrived>>
  PROVE  FlowInv'
<1> DEFINE s == Head(queue[k])
           t == Tail(queue[k])
<1>1. /\ s \in Streams /\ KindOf(s) = k /\ t \in Seq(Things) /\ Len(t) = Len(queue[k]) - 1
      /\ \A i \in 1..Len(t) : t[i] = queue[k][i + 1] /\ t[i] # s /\ i + 1 \in 1..Len(queue[k])
      /\ queue[k] = <<s>> \o t /\ reader[s] = "queued" /\ Len(queue[k]) \in Nat
  BY Accepting
<1>2. k \in Kinds /\ "uni" \in Kinds /\ "bidi" \in Kinds /\ DOMAIN queue = Kinds /\ DOMAIN taken = Kinds
      /\ DOMAIN reader = Streams
  BY DEF Kinds, IInv, Types, StreamTypes
<1>3. queue'[k] = t /\ \A l \in Kinds : l # k => queue'[l] = queue[l] /\ taken'[l] = taken[l]
  BY <1>2
<1>4. taken'[k] = Append(taken[k], s)
  BY <1>2
<1>5. \A x \in Streams : x # s => reader'[x] = reader[x]
  BY <1>2
<1> HIDE DEF s, t
<1>6. NothingLost'
  <2> SUFFICES ASSUME NEW l \in Kinds PROVE arrived'[l] = (taken'[l] \o queue'[l]) \o Carried(l)'
    BY DEF NothingLost, Carried
  <2>1. Carried(l)' = Carried(l) /\ arrived' = arrived
    BY DEF Carried, Handing
  <2>2. CASE l # k
    BY <1>3, <2>1, <2>2, FlowTypes
  <2>3. CASE l = k
    <3>1. taken[k] \in Seq(Things) /\ arrived[k] = (taken[k] \o queue[k]) \o Carried(k)
      BY <1>2, FlowTypes
    <3>2. Append(taken[k], s) \o t = taken[k] \o (<<s>> \o t)
      <4> DEFINE a == taken[k]
      <4>1. s \in Things /\ t \in Seq(Things) /\ a \in Seq(Things)
        BY <1>1, <3>1 DEF Things
      <4> HIDE DEF a
      <4>2. Append(a, s) \o t = a \o (<<s>> \o t)
        BY SMTT(30), <4>1, AppendAndConcat
      <4> QED BY <4>2 DEF a
    <3>3. arrived[k] = (taken[k] \o (<<s>> \o t)) \o Carried(k)
      BY <1>1, <3>1
    <3>4. taken'[k] \o queue'[k] = Append(taken[k], s) \o t
      BY <1>3, <1>4
    <3> QED BY <2>1, <2>3, <3>2, <3>3, <3>4
  <2> QED BY <2>2, <2>3
<1>7. ASSUME NEW l \in {"uni", "bidi"} PROVE Lined(l)'
  <2>1. \A i \in 1..Len(queue[l]) :
          /\ queue[l][i] \in Streams /\ KindOf(queue[l][i]) = l /\ reader[queue[l][i]] = "queued"
          /\ \A j \in 1..Len(queue[l]) : queue[l][i] = queue[l][j] => i = j
    BY DEF IInv, QueueInv, Lined, LinedUp
  <2>2. CASE l # k
    <3>1. queue'[l] = queue[l]
      BY <1>2, <1>3, <2>2
    <3>2. \A i \in 1..Len(queue[l]) : queue[l][i] # s
      BY <1>1, <2>1, <2>2
    <3> QED BY <1>5, <2>1, <3>1, <3>2 DEF Lined, LinedUp
  <2>3. CASE l = k
    <3>1. ASSUME NEW i \in 1..Len(t)
          PROVE  t[i] \in Streams /\ KindOf(t[i]) = l /\ reader'[t[i]] = "queued"
      <4>1. t[i] = queue[l][i + 1] /\ t[i] # s /\ i + 1 \in 1..Len(queue[l])
        BY <1>1, <2>3
      <4>2. t[i] \in Streams /\ KindOf(t[i]) = l /\ reader[t[i]] = "queued"
        BY <2>1, <4>1
      <4> QED BY <1>5, <4>1, <4>2
    <3>2. ASSUME NEW i \in 1..Len(t), NEW j \in 1..Len(t), t[i] = t[j] PROVE i = j
      <4>1. i + 1 \in 1..Len(queue[l]) /\ j + 1 \in 1..Len(queue[l]) /\ queue[l][i + 1] = queue[l][j + 1]
        BY <1>1, <2>3, <3>2
      <4>2. i + 1 = j + 1
        BY <2>1, <4>1
      <4> QED BY <4>2
    <3>3. queue'[l] = t
      BY <1>3, <2>3
    <3>4. LinedUp(t, l, reader')
      BY <3>1, <3>2 DEF LinedUp
    <3> QED BY <3>3, <3>4 DEF Lined
  <2> QED BY <2>2, <2>3
<1>8. ASSUME Handing', handing'.kind # "datagram"
      PROVE  /\ reader'[handing'.item] = "queued"
             /\ \A i \in 1..Len(queue'[handing'.kind]) : queue'[handing'.kind][i] # handing'.item
  <2> DEFINE x == handing.item
             l == handing.kind
  <2>1. Handing /\ handing' = handing
    BY <1>8 DEF Handing
  <2>2. /\ reader[x] = "queued" /\ \A i \in 1..Len(queue[l]) : queue[l][i] # x
        /\ x \in Streams /\ KindOf(x) = l /\ l \in {"uni", "bidi"}
    BY <1>8, <2>1 DEF IInv, QueueInv, Types, StreamTypes, Kinds, KindOf
  <2> HIDE DEF x, l
  <2>3. x # s
    <3>1. 1 \in 1..Len(queue[k]) /\ queue[k][1] = s
      <4>1. Len(queue[k]) # 0
        BY <1>2, FlowTypes, EmptySeq
      <4>2. queue[k][1] = s
        BY <1>2, FlowTypes, TailElements DEF s
      <4> QED BY <1>1, <4>1, <4>2
    <3> QED BY <1>1, <2>2, <3>1
  <2>4. reader'[x] = "queued"
    BY <1>5, <2>2, <2>3
  <2>5. \A i \in 1..Len(queue'[l]) : queue'[l][i] # x
    <3>1. CASE l = k
      BY <1>1, <1>3, <2>2, <3>1
    <3>2. CASE l # k
      BY <1>2, <1>3, <2>2, <3>2
    <3> QED BY <3>1, <3>2
  <2> QED BY <2>1, <2>4, <2>5 DEF x, l
<1>9. QueueInv'
  BY <1>7, <1>8 DEF QueueInv
<1> QED BY <1>6, <1>9 DEF FlowInv

LEMMA FlowDatagrams ==
  ASSUME IInv, RecvDatagrams
  PROVE  FlowInv'
<1>1. /\ main # "gone" /\ queue' = [queue EXCEPT !["datagram"] = <<>>]
      /\ taken' = [taken EXCEPT !["datagram"] = @ \o queue["datagram"]]
      /\ UNCHANGED <<main, driver, handing, arrived, reader>>
  BY DEF RecvDatagrams, app, streams
<1>2. "datagram" \in Kinds /\ "uni" \in Kinds /\ "bidi" \in Kinds /\ DOMAIN queue = Kinds
      /\ DOMAIN taken = Kinds
  BY DEF Kinds, IInv, Types, StreamTypes
<1>3. /\ queue'["datagram"] = <<>> /\ taken'["datagram"] = taken["datagram"] \o queue["datagram"]
      /\ \A l \in Kinds : l # "datagram" => queue'[l] = queue[l] /\ taken'[l] = taken[l]
  BY <1>1, <1>2
<1>4. NothingLost'
  <2> SUFFICES ASSUME NEW l \in Kinds PROVE arrived'[l] = (taken'[l] \o queue'[l]) \o Carried(l)'
    BY DEF NothingLost, Carried
  <2>1. Carried(l)' = Carried(l) /\ arrived' = arrived
    BY <1>1 DEF Carried, Handing
  <2>2. CASE l # "datagram"
    BY <1>1, <1>3, <2>1, <2>2, FlowTypes
  <2>3. CASE l = "datagram"
    <3>1. taken[l] \in Seq(Things) /\ queue[l] \in Seq(Things) /\ taken[l] \o queue[l] \in Seq(Things)
      BY FlowTypes, ConcatProperties
    <3>2. (taken[l] \o queue[l]) \o <<>> = taken[l] \o queue[l]
      BY <3>1, ConcatEmptySeq
    <3>3. arrived[l] = (taken[l] \o queue[l]) \o Carried(l)
      BY <1>1, FlowTypes
    <3> QED BY <1>3, <2>1, <2>3, <3>2, <3>3
  <2> QED BY <2>2, <2>3
<1>5. Lined("uni")' /\ Lined("bidi")'
  BY <1>1, <1>2, <1>3 DEF IInv, QueueInv, Lined, LinedUp
<1>6. QueueInv'
  BY <1>1, <1>3, <1>5 DEF IInv, QueueInv, Types, StreamTypes, Handing
<1> QED BY <1>4, <1>6 DEF FlowInv

(* Something reaches the driver of wt_h3.                                   *)
LEMMA FlowReceive ==
  ASSUME IInv, NEW k \in Kinds, NEW x \in Things, Receive(k, x), UNCHANGED <<main, queue, taken>>,
         k # "datagram" => x \in Streams /\ net[x] = "unseen" /\ reader' = [reader EXCEPT ![x] = "queued"],
         k = "datagram" => reader' = reader
  PROVE  FlowInv'
<1>1. /\ ~Handing /\ Handing' /\ handing' = [kind |-> k, item |-> x]
      /\ arrived' = [arrived EXCEPT ![k] = Append(@, x)]
  BY DEF Receive, H3, Handing
<1>2. DOMAIN arrived = Kinds /\ DOMAIN reader = Streams
  BY DEF IInv, Types, StreamTypes
<1>3. arrived'[k] = Append(arrived[k], x) /\ \A l \in Kinds : l # k => arrived'[l] = arrived[l]
  BY <1>1, <1>2
<1>4. \A s \in Streams : reader[s] = "queued" => reader'[s] = "queued"
  BY <1>2
<1> SUFFICES ASSUME main # "gone" PROVE FlowInv'
  BY FlowGone
<1>5. NothingLost'
  <2> SUFFICES ASSUME NEW l \in Kinds PROVE arrived'[l] = (taken'[l] \o queue'[l]) \o Carried(l)'
    BY DEF NothingLost, Carried
  <2>1. Carried(l) = <<>> /\ Carried(l)' = IF l = k THEN <<x>> ELSE <<>>
    BY <1>1 DEF Carried
  <2>2. CASE l # k
    BY <1>3, <2>1, <2>2, FlowTypes
  <2>3. CASE l = k
    <3>1. /\ taken[l] \in Seq(Things) /\ queue[l] \in Seq(Things) /\ arrived[l] \in Seq(Things)
          /\ arrived[l] = (taken[l] \o queue[l]) \o <<>>
      BY <2>1, FlowTypes
    <3>2. taken[l] \o queue[l] \in Seq(Things)
      BY <3>1, ConcatProperties
    <3>3. arrived[l] = taken[l] \o queue[l]
      BY <3>1, <3>2, ConcatEmptySeq
    <3>4. Append(arrived[l], x) = arrived[l] \o <<x>>
      BY ZenonT(30), <3>1, AppendIsConcat
    <3> QED BY <1>3, <2>1, <2>3, <3>3, <3>4
  <2> QED BY <2>2, <2>3
<1>6. Lined("uni")' /\ Lined("bidi")'
  BY <1>4 DEF IInv, QueueInv, Lined, LinedUp
<1>7. ASSUME k # "datagram"
      PROVE  reader'[x] = "queued" /\ \A i \in 1..Len(queue[k]) : queue[k][i] # x
  <2>1. reader[x] = "none" /\ reader'[x] = "queued"
    BY <1>2, <1>7 DEF IInv, ReadInv, Exact
  <2>2. k \in {"uni", "bidi"}
    BY <1>7 DEF Kinds
  <2>3. \A i \in 1..Len(queue[k]) : reader[queue[k][i]] = "queued"
    BY <2>2 DEF IInv, QueueInv, Lined, LinedUp
  <2> QED BY <2>1, <2>3
<1>8. QueueInv'
  BY <1>1, <1>6, <1>7 DEF QueueInv
<1> QED BY <1>5, <1>8 DEF FlowInv

(* Something enters a queue: what was carried, or what ngtcp2 received.     *)
LEMMA FlowEnqueue ==
  ASSUME IInv, main # "gone", NEW k \in Kinds, NEW x \in Things,
         queue' = [queue EXCEPT ![k] = Append(@, x)], UNCHANGED <<main, taken>>, ~Handing',
         \A l \in Kinds : arrived'[l] = arrived[l] \o (IF ~Handing /\ l = k THEN <<x>> ELSE <<>>),
         Handing => handing.kind = k /\ handing.item = x,
         k # "datagram" => /\ x \in Streams /\ KindOf(x) = k /\ reader'[x] = "queued"
                           /\ \A i \in 1..Len(queue[k]) : queue[k][i] # x,
         \A s \in Streams : reader[s] = "queued" => reader'[s] = "queued"
  PROVE  FlowInv'
<1>1. DOMAIN queue = Kinds /\ "uni" \in Kinds /\ "bidi" \in Kinds
  BY DEF IInv, Types, StreamTypes, Kinds
<1>2. queue'[k] = Append(queue[k], x) /\ \A l \in Kinds : l # k => queue'[l] = queue[l]
  BY <1>1
<1>3. NothingLost'
  <2> SUFFICES ASSUME NEW l \in Kinds PROVE arrived'[l] = (taken'[l] \o queue'[l]) \o Carried(l)'
    BY DEF NothingLost, Carried
  <2>1. Carried(l)' = <<>>
    BY DEF Carried
  <2>2. /\ taken[l] \in Seq(Things) /\ queue[l] \in Seq(Things) /\ arrived[l] \in Seq(Things)
        /\ arrived[l] = (taken[l] \o queue[l]) \o Carried(l) /\ Carried(l) \in Seq(Things)
    BY FlowTypes
  <2>3. taken[l] \o queue[l] \in Seq(Things)
    BY <2>2, ConcatProperties
  <2>4. CASE l # k
    <3>1. Carried(l) = <<>> /\ queue'[l] = queue[l] /\ arrived'[l] = arrived[l] \o <<>>
      BY <1>2, <2>4 DEF Carried
    <3>2. arrived[l] \o <<>> = arrived[l]
      BY <2>2, ConcatEmptySeq
    <3> QED BY <2>1, <2>2, <3>1, <3>2
  <2>5. CASE l = k
    <3>1. arrived'[l] = (taken[l] \o queue[l]) \o <<x>>
      <4>1. CASE Handing
        <5>1. Carried(l) = <<x>> /\ arrived'[l] = arrived[l] \o <<>>
          BY <2>5, <4>1 DEF Carried
        <5>2. arrived[l] \o <<>> = arrived[l]
          BY <2>2, ConcatEmptySeq
        <5> QED BY <2>2, <5>1, <5>2
      <4>2. CASE ~Handing
        <5>1. Carried(l) = <<>> /\ arrived'[l] = arrived[l] \o <<x>>
          BY <2>5, <4>2 DEF Carried
        <5>2. arrived[l] = taken[l] \o queue[l]
          BY <2>2, <2>3, <5>1, ConcatEmptySeq
        <5> QED BY <5>1, <5>2
      <4> QED BY <4>1, <4>2
    <3>2. taken[l] \o Append(queue[l], x) = (taken[l] \o queue[l]) \o <<x>>
      <4> DEFINE a == taken[l]
                 b == queue[l]
      <4>1. a \in Seq(Things) /\ b \in Seq(Things)
        BY <2>2
      <4> HIDE DEF a, b
      <4>2. a \o Append(b, x) = (a \o b) \o <<x>>
        BY <4>1, AppendAndConcat
      <4> QED BY <4>2 DEF a, b
    <3>3. taken[l] \o Append(queue[l], x) \in Seq(Things)
      BY <2>2, AppendProperties, ConcatProperties
    <3>4. (taken[l] \o Append(queue[l], x)) \o <<>> = taken[l] \o Append(queue[l], x)
      BY <3>3, ConcatEmptySeq
    <3> QED BY <1>2, <2>1, <2>5, <3>1, <3>2, <3>4
  <2> QED BY <2>4, <2>5
<1>4. ASSUME NEW l \in {"uni", "bidi"} PROVE Lined(l)'
  <2> DEFINE q == queue[l]
  <2>1. \A i \in 1..Len(q) :
          /\ q[i] \in Streams /\ KindOf(q[i]) = l /\ reader[q[i]] = "queued"
          /\ \A j \in 1..Len(q) : q[i] = q[j] => i = j
    BY DEF IInv, QueueInv, Lined, LinedUp
  <2>2. l \in Kinds
    BY <1>1
  <2>3. q \in Seq(Things)
    BY <2>2, FlowTypes
  <2>4. CASE l # k
    <3>1. queue'[l] = q
      BY <1>2, <2>2, <2>4
    <3> HIDE DEF q
    <3> QED BY <2>1, <3>1 DEF Lined, LinedUp
  <2>5. CASE l = k
    <3> DEFINE r == Append(q, x)
    <3>1. queue'[l] = r
      BY <1>2, <2>5
    <3>2. /\ x \in Streams /\ KindOf(x) = l /\ reader'[x] = "queued"
          /\ \A i \in 1..Len(q) : q[i] # x
      BY <2>5
    <3> HIDE DEF q
    <3>3. /\ Len(r) = Len(q) + 1 /\ Len(q) \in Nat /\ r[Len(q) + 1] = x
          /\ \A i \in 1..Len(q) : r[i] = q[i]
      BY <2>3, AppendProperties, LenProperties
    <3> HIDE DEF r
    <3>4. \A i \in 1..Len(r) : i \in 1..Len(q) \/ i = Len(q) + 1
      BY <3>3
    <3>5. \A i \in 1..Len(r) : r[i] \in Streams /\ KindOf(r[i]) = l /\ reader'[r[i]] = "queued"
      BY <2>1, <3>2, <3>3, <3>4
    <3>6. \A i, j \in 1..Len(r) : r[i] = r[j] => i = j
      BY <2>1, <3>2, <3>3, <3>4
    <3>7. LinedUp(r, l, reader')
      BY <3>5, <3>6 DEF LinedUp
    <3> QED BY <3>1, <3>7 DEF Lined
  <2> QED BY <2>4, <2>5
<1>5. QueueInv'
  BY <1>4 DEF QueueInv
<1> QED BY <1>3, <1>5 DEF FlowInv

LEMMA FlowDeliver ==
  ASSUME IInv, H3Deliver
  PROVE  FlowInv'
<1>1. Handing /\ UNCHANGED <<main, arrived, taken>>
  BY DEF H3Deliver, app, flow
<1>2. CASE main = "gone"
  BY <1>1, <1>2, FlowGone
<1>3. CASE main # "gone"
  <2> DEFINE k == handing.kind
             x == handing.item
  <2>1. /\ queue' = [queue EXCEPT ![k] = Append(@, x)] /\ driver' = "select" /\ reader' = reader
    BY <1>3 DEF H3Deliver, HandOver
  <2>2. /\ k \in Kinds /\ x \in Things
        /\ k # "datagram" => x \in Streams /\ KindOf(x) = k
    BY <1>1 DEF IInv, Types, StreamTypes
  <2>3. k # "datagram" => reader[x] = "queued" /\ \A i \in 1..Len(queue[k]) : queue[k][i] # x
    BY <1>1, <1>3 DEF IInv, QueueInv
  <2>4. ~Handing'
    BY <2>1 DEF Handing
  <2> HIDE DEF k, x
  <2>5. \A l \in Kinds : arrived'[l] = arrived[l] \o (IF ~Handing /\ l = k THEN <<x>> ELSE <<>>)
    <3> TAKE l \in Kinds
    <3>1. arrived[l] \in Seq(Things)
      BY FlowTypes
    <3>2. arrived[l] \o <<>> = arrived[l]
      BY <3>1, ConcatEmptySeq
    <3> QED BY <1>1, <3>2
  <2>6. Handing => handing.kind = k /\ handing.item = x
    BY DEF k, x
  <2> QED BY <1>1, <1>3, <2>1, <2>2, <2>3, <2>4, <2>5, <2>6, FlowEnqueue
<1> QED BY <1>2, <1>3

(* ngtcp2 puts what it receives into the queue at once.                     *)
LEMMA FlowArrives ==
  ASSUME IInv, Event, driver' # "handing", NEW k \in Kinds, NEW x \in Things,
         arrived' = [arrived EXCEPT ![k] = Append(@, x)],
         main # "gone" => queue' = [queue EXCEPT ![k] = Append(@, x)],
         UNCHANGED <<main, taken>>,
         k # "datagram" => /\ x \in Streams /\ KindOf(x) = k /\ net[x] = "unseen"
                           /\ main # "gone" => reader' = [reader EXCEPT ![x] = "queued"],
         k = "datagram" => reader' = reader
  PROVE  FlowInv'
<1>1. ~Handing /\ ~Handing'
  BY DEF Event, Selecting, Handing
<1>2. DOMAIN arrived = Kinds /\ DOMAIN reader = Streams
  BY DEF IInv, Types, StreamTypes
<1>3. CASE main = "gone"
  BY <1>3, FlowGone
<1>4. CASE main # "gone"
  <2>1. \A l \in Kinds : arrived'[l] = arrived[l] \o (IF ~Handing /\ l = k THEN <<x>> ELSE <<>>)
    <3> TAKE l \in Kinds
    <3>1. arrived[l] \in Seq(Things)
      BY FlowTypes
    <3>2. arrived[l] \o <<>> = arrived[l] /\ Append(arrived[l], x) = arrived[l] \o <<x>>
      BY <3>1, ConcatEmptySeq, AppendIsConcat
    <3>3. arrived'[l] = IF l = k THEN Append(arrived[l], x) ELSE arrived[l]
      BY <1>2
    <3> QED BY <1>1, <3>2, <3>3
  <2>2. k # "datagram" => /\ reader'[x] = "queued"
                          /\ \A i \in 1..Len(queue[k]) : queue[k][i] # x
    <3> SUFFICES ASSUME k # "datagram" PROVE /\ reader'[x] = "queued"
                                             /\ \A i \in 1..Len(queue[k]) : queue[k][i] # x
      OBVIOUS
    <3>1. reader[x] = "none" /\ reader'[x] = "queued"
      BY <1>2, <1>4 DEF IInv, ReadInv, Exact
    <3>2. k \in {"uni", "bidi"}
      BY DEF Kinds
    <3>3. \A i \in 1..Len(queue[k]) : reader[queue[k][i]] = "queued"
      BY <1>4, <3>2 DEF IInv, QueueInv, Lined, LinedUp
    <3> QED BY <3>1, <3>3
  <2>3. \A s \in Streams : reader[s] = "queued" => reader'[s] = "queued"
    BY <1>2, <1>4
  <2> QED BY <1>1, <1>4, <2>1, <2>2, <2>3, FlowEnqueue
<1> QED BY <1>3, <1>4

LEMMA FlowEvents ==
  ASSUME IInv, Events
  PROVE  FlowInv'
<1>1. ASSUME NEW s \in Streams, StreamOpened(s), NextTurn PROVE FlowInv'
  <2>1. s \in Things /\ KindOf(s) \in Kinds /\ KindOf(s) # "datagram"
    BY DEF Things, KindOf, Kinds
  <2>2. /\ Event /\ driver' # "handing" /\ net[s] = "unseen"
        /\ arrived' = [arrived EXCEPT ![KindOf(s)] = Append(@, s)]
        /\ main # "gone" => /\ queue' = [queue EXCEPT ![KindOf(s)] = Append(@, s)]
                            /\ reader' = [reader EXCEPT ![s] = "queued"]
        /\ UNCHANGED <<main, taken>>
    BY <1>1 DEF StreamOpened, NextTurn, app
  <2> QED BY <2>1, <2>2, FlowArrives
<1>2. CASE Datagram /\ NextTurn
  <2> DEFINE x == Len(arrived["datagram"]) + 1
  <2>1. "datagram" \in Kinds /\ arrived["datagram"] \in Seq(Things)
    BY FlowTypes DEF Kinds
  <2>2. x \in Things
    BY <2>1, LenProperties DEF Things
  <2>3. /\ Event /\ driver' # "handing" /\ arrived' = [arrived EXCEPT !["datagram"] = Append(@, x)]
        /\ main # "gone" => queue' = [queue EXCEPT !["datagram"] = Append(@, x)]
        /\ UNCHANGED <<main, taken, reader>>
    BY <1>2 DEF Datagram, NextTurn, app, streams
  <2> HIDE DEF x
  <2> QED BY <2>1, <2>2, <2>3, FlowArrives
<1>3. CASE \/ ConnectionClosed
           \/ /\ \/ \E s \in Uni : StreamReset(s) \/ StreamClosed(s)
                 \/ \E s \in Uni, n \in 0 .. MaxPeer, fin \in BOOLEAN : StreamData(s, n, fin)
                 \/ StreamStopSending \/ MaxStreams
              /\ NextTurn
  <2>1. UNCHANGED <<queue, arrived, taken, main, reader>> /\ ~Handing /\ ~Handing'
    BY <1>3 DEF ConnectionClosed, StreamReset, StreamClosed, StreamData, StreamStopSending, MaxStreams,
       NextTurn, Event, Selecting, Stop, Handing, app, flow, streams
  <2> QED BY <2>1, FlowStill
<1> QED BY <1>1, <1>2, <1>3 DEF Events

LEMMA FlowStep ==
  ASSUME IInv, [Next]_vars
  PROVE  FlowInv'
<1>1. CASE AcceptUni
  <2>1. /\ main # "gone" /\ queue["uni"] # <<>>
        /\ queue' = [queue EXCEPT !["uni"] = Tail(@)]
        /\ taken' = [taken EXCEPT !["uni"] = Append(@, Head(queue["uni"]))]
        /\ reader' = [reader EXCEPT ![Head(queue["uni"])] = "reading"]
        /\ UNCHANGED <<main, driver, handing, arrived>>
    BY <1>1 DEF AcceptUni, app
  <2> QED BY <2>1, FlowAccept
<1>2. CASE AcceptBidi
  <2>1. /\ main # "gone" /\ queue["bidi"] # <<>>
        /\ queue' = [queue EXCEPT !["bidi"] = Tail(@)]
        /\ taken' = [taken EXCEPT !["bidi"] = Append(@, Head(queue["bidi"]))]
        /\ reader' = [reader EXCEPT ![Head(queue["bidi"])] = "left"]
        /\ UNCHANGED <<main, driver, handing, arrived>>
    BY <1>2 DEF AcceptBidi, Release, app
  <2> QED BY <2>1, FlowAccept
<1>3. CASE RecvDatagrams
  BY <1>3, FlowDatagrams
<1>4. CASE AcceptNone \/ Abandon
  BY <1>4, FlowGone DEF AcceptNone, Abandon, Leave
<1>5. CASE Resume
  <2>1. CASE main = "close" \/ (reply # "ok" /\ main \in {"open", "datagram"})
    BY <1>5, <2>1, FlowGone DEF Resume, Leave
  <2>2. CASE ~(main = "close" \/ (reply # "ok" /\ main \in {"open", "datagram"}))
    <3>1. /\ main # "gone" /\ UNCHANGED <<queue, handing, arrived, taken, reader, driver>>
      BY <1>5, <2>2, Constants DEF Resume, flow, streams
    <3> QED BY <3>1, FlowKept DEF Handing
  <2> QED BY <2>1, <2>2
<1>6. ASSUME NEW op \in Operations, Start(op) PROVE FlowInv'
  <2>1. main # "gone" /\ UNCHANGED <<queue, handing, arrived, taken, reader, driver>>
    BY <1>6 DEF Start, flow, streams
  <2> QED BY <2>1, FlowKept DEF Handing
<1>7. ASSUME NEW s \in Streams, Readers(s) PROVE FlowInv'
  <2>1. /\ reader[s] = "reading" /\ UNCHANGED <<main, queue, handing, arrived, taken, driver>>
        /\ \A x \in Streams : x # s => reader'[x] = reader[x]
    BY <1>7 DEF Readers, Read, ReaderLeaves, ReadData, Release, app, flow, IInv, Types, StreamTypes
  <2> QED BY <2>1, FlowKept DEF Handing
<1>8. ASSUME NEW s \in Streams, H3Stream(s) PROVE FlowInv'
  <2>1. s \in Things /\ KindOf(s) \in Kinds /\ KindOf(s) # "datagram"
    BY DEF Things, KindOf, Kinds
  <2>2. /\ Receive(KindOf(s), s) /\ net[s] = "unseen" /\ UNCHANGED <<main, queue, taken>>
        /\ reader' = [reader EXCEPT ![s] = "queued"]
    BY <1>8 DEF H3Stream, app
  <2> QED BY <2>1, <2>2, FlowReceive
<1>9. CASE H3Datagram
  <2> DEFINE x == Len(arrived["datagram"]) + 1
  <2>1. "datagram" \in Kinds /\ arrived["datagram"] \in Seq(Things)
    BY FlowTypes DEF Kinds
  <2>2. x \in Things
    BY <2>1, LenProperties DEF Things
  <2>3. Receive("datagram", x) /\ UNCHANGED <<main, queue, taken, reader>>
    BY <1>9 DEF H3Datagram, app, streams
  <2> HIDE DEF x
  <2> QED BY <2>1, <2>2, <2>3, FlowReceive
<1>10. CASE H3Deliver
  BY <1>10, FlowDeliver
<1>11. CASE H3MaxStreams \/ H3Ends \/ H3Command
  <2>1. ~Handing /\ ~Handing' /\ UNCHANGED <<main, queue, arrived, taken, reader>>
    BY <1>11 DEF H3MaxStreams, H3Ends, H3Command, H3, Stop, Handing, app, flow, streams
  <2> QED BY <2>1, FlowStill
<1>12. ASSUME NEW s \in Uni, NEW n \in 0 .. MaxPeer, NEW end \in {None, "fin", "reset"}, H3Data(s, n, end)
       PROVE FlowInv'
  <2>1. UNCHANGED <<main, queue, handing, arrived, taken, driver, reader>>
    BY <1>12 DEF H3Data, app, flow
  <2> QED BY <2>1, FlowKept DEF Handing
<1>13. CASE H3Writes \/ Drain \/ Finished \/ UNCHANGED vars
  <2>1. UNCHANGED <<main, queue, handing, arrived, taken, driver, reader>>
    BY <1>13 DEF H3Writes, Drain, Finished, vars, app, flow, streams
  <2> QED BY <2>1, FlowKept DEF Handing
<1>14. CASE Pass \/ Timer \/ OwnerDropped \/ Commands
  <2>1. ~Handing /\ ~Handing' /\ UNCHANGED <<main, queue, arrived, taken, reader>>
    BY <1>14 DEF Pass, Timer, OwnerDropped, Commands, CommandOpen, CommandWrite, CommandReset,
       CommandDatagram, CommandConsumed, CommandStop, CommandDrop, CommandClose, Command, Selecting,
       NextTurn, Stop, Handing, app, flow, streams
  <2> QED BY <2>1, FlowStill
<1>15. CASE Events
  BY <1>15, FlowEvents
<1> QED BY <1>1, <1>2, <1>3, <1>4, <1>5, <1>6, <1>7, <1>8, <1>9, <1>10, <1>11, <1>12, <1>13, <1>14,
           <1>15
     DEF Next, Session, H3Events, Turns

-----------------------------------------------------------------------------
(* What a reader gets: lemmas about chunks.                                 *)

LEMMA ChainEmpty ==
  ASSUME NEW x \in Nat
  PROVE  Chain(<<>>, x, x) /\ ~Ended(<<>>)
<1> DEFINE p == [i \in 0..0 |-> x]
<1>1. p \in [0..0 -> 0..x] /\ p[0] = x /\ Len(<<>>) = 0
  OBVIOUS
<1> HIDE DEF p
<1>2. Marks(p, <<>>, x, x) /\ p \in [0..Len(<<>>) -> 0..x]
  BY <1>1 DEF Marks
<1> QED BY <1>2 DEF Chain, Ended

LEMMA ChainLonger ==
  ASSUME NEW c \in Seq(Chunks), NEW from \in Nat, NEW to \in Nat, Chain(c, from, to), ~Ended(c),
         NEW x \in Chunks, x.end = None => x.first = to + 1, x.end # None => x.size = 0
  PROVE  LET d == c \o <<x>>
         IN  /\ d \in Seq(Chunks) /\ Chain(d, from, to + x.size) /\ d # <<>> /\ d[Len(d)] = x
             /\ x.end = None => ~Ended(d)
<1> DEFINE d == c \o <<x>>
           n == Len(c)
<1>1. /\ d \in Seq(Chunks) /\ Len(d) = n + 1 /\ n \in Nat /\ d[n + 1] = x
      /\ \A i \in 1..n : d[i] = c[i]
  <2>1. d = Append(c, x)
    BY AppendIsConcat
  <2>2. n \in Nat
    BY LenProperties
  <2> HIDE DEF d
  <2> QED BY <2>1, <2>2, AppendProperties
<1>2. PICK p \in [0..n -> 0..to] : Marks(p, c, from, to)
  BY DEF Chain
<1>3. x.size \in Nat /\ to + x.size \in Nat
  BY DEF Chunks
<1>4. \A i \in 1..n : c[i].end = None
  <2> TAKE i \in 1..n
  <2>1. c[i].end # None => i = n
    BY <1>2 DEF Marks
  <2>2. c # <<>>
    BY <1>1
  <2> QED BY <2>1, <2>2 DEF Ended
<1> HIDE DEF d, n
<1> DEFINE r == [i \in 0..(n + 1) |-> IF i = n + 1 THEN to + x.size ELSE p[i]]
<1>5. /\ r[n + 1] = to + x.size /\ r[0] = from /\ r[n] = to
      /\ \A i \in 1..n : r[i] = p[i] /\ r[i - 1] = p[i - 1]
  <2>1. p[0] = from /\ p[n] = to
    BY <1>2 DEF Marks, n
  <2> QED BY <1>1, <2>1
<1>6. r \in [0..Len(d) -> 0..(to + x.size)]
  <2>1. \A i \in 0..n : p[i] \in 0..to
    BY <1>2
  <2>2. \A i \in 0..(n + 1) : r[i] \in 0..(to + x.size)
    BY <1>1, <1>3, <2>1
  <2> QED BY <1>1, <2>2
<1> HIDE DEF r
<1>7. ASSUME NEW i \in 1..Len(d)
      PROVE  /\ r[i] = r[i - 1] + d[i].size
             /\ d[i].end = None => d[i].first = r[i - 1] + 1
             /\ d[i].end # None => i = Len(d) /\ d[i].size = 0
  <2>1. CASE i = n + 1
    <3>1. i - 1 = n /\ d[i] = x /\ i = Len(d)
      BY <1>1, <2>1
    <3> QED BY <1>5, <2>1, <3>1
  <2>2. CASE i \in 1..n
    <3>1. /\ p[i] = p[i - 1] + c[i].size /\ c[i].end = None /\ c[i].first = p[i - 1] + 1
      BY <1>2, <1>4, <2>2 DEF Marks, n
    <3> QED BY <1>1, <1>5, <2>2, <3>1
  <2> QED BY <1>1, <2>1, <2>2
<1>8. Marks(r, d, from, to + x.size)
  BY <1>1, <1>5, <1>6, <1>7 DEF Marks
<1>9. Chain(d, from, to + x.size)
  BY <1>6, <1>8 DEF Chain
<1>10. d # <<>> /\ (x.end = None => ~Ended(d))
  BY <1>1 DEF Ended
<1> QED BY <1>1, <1>9, <1>10 DEF d

LEMMA ChainShorter ==
  ASSUME NEW c \in Seq(Chunks), NEW from \in Nat, NEW to \in Nat, Chain(c, from, to), c # <<>>
  PROVE  /\ Head(c).end = None =>
              /\ Head(c).first = from + 1 /\ Chain(Tail(c), from + Head(c).size, to)
              /\ Ended(Tail(c)) => Ended(c) /\ Tail(c)[Len(Tail(c))] = c[Len(c)]
         /\ Head(c).end # None => from = to /\ Ended(c) /\ c[Len(c)] = Head(c)
<1> DEFINE n == Len(c)
           d == Tail(c)
           x == Head(c)
<1>1. /\ d \in Seq(Chunks) /\ Len(d) = n - 1 /\ n \in Nat \ {0} /\ x = c[1] /\ x \in Chunks
      /\ \A i \in 1..Len(d) : d[i] = c[i + 1] /\ i + 1 \in 1..n
  BY TailElements
<1>2. PICK p \in [0..n -> 0..to] : Marks(p, c, from, to)
  BY DEF Chain
<1>3. /\ p[0] = from /\ p[n] = to
      /\ \A i \in 1..n : /\ p[i] = p[i - 1] + c[i].size
                         /\ c[i].end = None => c[i].first = p[i - 1] + 1
                         /\ c[i].end # None => i = n /\ c[i].size = 0
  BY <1>2 DEF Marks
<1> HIDE DEF n, d, x
<1>4. /\ p[1] = from + x.size /\ (x.end = None => x.first = from + 1)
      /\ x.end # None => n = 1 /\ x.size = 0
  <2>1. 1 \in 1..n /\ 1 - 1 = 0
    BY <1>1
  <2>2. /\ p[1] = p[1 - 1] + c[1].size /\ (c[1].end = None => c[1].first = p[1 - 1] + 1)
        /\ c[1].end # None => 1 = n /\ c[1].size = 0
    BY <1>3, <2>1
  <2> QED BY <1>1, <1>3, <2>1, <2>2
<1>5. x.size \in Nat
  BY <1>1 DEF Chunks
<1>6. ASSUME x.end = None
      PROVE  Chain(d, from + x.size, to)
  <2> DEFINE r == [i \in 0..(n - 1) |-> p[i + 1]]
  <2>1. r \in [0..Len(d) -> 0..to] /\ r[0] = from + x.size /\ r[Len(d)] = to
    <3>1. \A i \in 0..(n - 1) : i + 1 \in 0..n
      BY <1>1
    <3>2. \A i \in 0..(n - 1) : p[i + 1] \in 0..to
      BY <1>2, <3>1
    <3>3. 0 \in 0..(n - 1) /\ n - 1 \in 0..(n - 1) /\ 0 + 1 = 1 /\ (n - 1) + 1 = n
      BY <1>1
    <3> QED BY <1>1, <1>3, <1>4, <3>2, <3>3
  <2>2. \A i \in 0..(n - 1) : r[i] = p[i + 1]
    OBVIOUS
  <2> HIDE DEF r
  <2>3. ASSUME NEW i \in 1..Len(d)
        PROVE  /\ r[i] = r[i - 1] + d[i].size
               /\ d[i].end = None => d[i].first = r[i - 1] + 1
               /\ d[i].end # None => i = Len(d) /\ d[i].size = 0
    <3>1. /\ i + 1 \in 1..n /\ d[i] = c[i + 1] /\ i \in 0..(n - 1) /\ i - 1 \in 0..(n - 1)
          /\ (i - 1) + 1 = i /\ (i + 1) - 1 = i
      BY <1>1
    <3>2. r[i] = p[i + 1] /\ r[i - 1] = p[i]
      BY <2>2, <3>1
    <3>3. /\ p[i + 1] = p[(i + 1) - 1] + c[i + 1].size
          /\ c[i + 1].end = None => c[i + 1].first = p[(i + 1) - 1] + 1
          /\ c[i + 1].end # None => i + 1 = n /\ c[i + 1].size = 0
      BY <1>3, <3>1
    <3> QED BY <1>1, <3>1, <3>2, <3>3
  <2>4. Marks(r, d, from + x.size, to)
    BY <2>1, <2>3 DEF Marks
  <2> QED BY <2>1, <2>4 DEF Chain
<1>7. Ended(d) => Ended(c) /\ d[Len(d)] = c[Len(c)]
  <2> SUFFICES ASSUME Ended(d) PROVE Ended(c) /\ d[Len(d)] = c[Len(c)]
    OBVIOUS
  <2>1. Len(d) \in Nat \ {0}
    BY <1>1, EmptySeq DEF Ended
  <2>2. Len(d) \in 1..Len(d) /\ Len(d) + 1 = n
    BY <1>1, <2>1
  <2>3. d[Len(d)] = c[n]
    BY <1>1, <2>2
  <2> QED BY <2>3 DEF Ended, n
<1>8. ASSUME x.end # None PROVE from = to /\ Ended(c) /\ c[Len(c)] = x
  <2>1. n = 1 /\ x.size = 0 /\ p[1] = to
    BY <1>3, <1>4, <1>8
  <2>2. from = to
    BY <1>4, <2>1
  <2>3. c[Len(c)] = x
    BY <1>1, <2>1 DEF n
  <2> QED BY <1>8, <2>2, <2>3 DEF Ended
<1> QED BY <1>4, <1>6, <1>7, <1>8 DEF d, x

LEMMA ReadOn ==
  ASSUME NEW g \in Seq(Nat), \A i \in 1..Len(g) : g[i] = i, NEW chunk \in Chunks, NEW n \in Nat,
         n > 0 => chunk.first = Len(g) + 1
  PROVE  /\ g \o Bytes(chunk, n) \in Seq(Nat) /\ Len(g \o Bytes(chunk, n)) = Len(g) + n
         /\ \A i \in 1..(Len(g) + n) : (g \o Bytes(chunk, n))[i] = i
<1> DEFINE b == Bytes(chunk, n)
<1>1. Len(g) \in Nat /\ b = [i \in 1..n |-> chunk.first + i - 1]
  BY LenProperties DEF Bytes
<1>2. \A i \in 1..n : chunk.first + i - 1 = Len(g) + i /\ Len(g) + i \in Nat
  BY <1>1
<1>3. b \in [1..n -> Nat] /\ \A i \in 1..n : b[i] = Len(g) + i
  BY <1>1, <1>2
<1> HIDE DEF b
<1>4. b \in Seq(Nat) /\ Len(b) = n
  BY <1>3, FunctionIsSequence
<1> DEFINE q == g \o b
<1>5. /\ q \in Seq(Nat) /\ Len(q) = Len(g) + n
      /\ \A i \in 1..Len(g) : q[i] = g[i]
      /\ \A i \in 1..n : q[Len(g) + i] = b[i]
      /\ \A i \in 1..Len(q) : i \in 1..Len(g) \/ \E j \in 1..n : i = Len(g) + j
  <2>1. \A S : g \in Seq(S) /\ b \in Seq(S) =>
          /\ q \in Seq(S) /\ Len(q) = Len(g) + Len(b)
          /\ \A i \in 1..Len(g) : q[i] = g[i]
          /\ \A i \in 1..Len(b) : q[Len(g) + i] = b[i]
          /\ \A i \in 1..Len(q) : i \in 1..Len(g) \/ \E j \in 1..Len(b) : i = Len(g) + j
    BY ConcatElements
  <2> HIDE DEF q
  <2> QED BY <1>4, <2>1
<1> HIDE DEF q
<1>6. ASSUME NEW i \in 1..Len(q) PROVE q[i] = i
  <2>1. CASE i \in 1..Len(g)
    BY <1>5, <2>1
  <2>2. CASE \E j \in 1..n : i = Len(g) + j
    <3>1. PICK j \in 1..n : i = Len(g) + j
      BY <2>2
    <3> QED BY <1>3, <1>5, <3>1
  <2> QED BY <1>5, <2>1, <2>2
<1> QED BY <1>5, <1>6 DEF q, b

-----------------------------------------------------------------------------
(* What a reader gets.                                                      *)

StreamInv == StreamTypes /\ ReadInv

(* A stream nothing happened to, or whose reader only moved.                *)
LEMMA ExactKept ==
  ASSUME NEW s \in Streams, Exact(s), net'[s] = net[s], sent'[s] = sent[s], chan'[s] = chan[s],
         buffer'[s] = buffer[s], got'[s] = got[s],
         reader'[s] = reader[s] \/ (reader[s] \in Reading /\ reader'[s] \in Reading)
  PROVE  Exact(s)'
<1>1. reader[s] \in Reading => reader[s] # "none" /\ reader[s] # "fin"
  BY DEF Reading
<1>2. reader'[s] \in Reading => reader'[s] # "none" /\ reader'[s] # "fin"
  BY DEF Reading
<1> QED BY <1>1, <1>2 DEF Exact

(* A stream whose reader is gone.                                           *)
LEMMA ExactGone ==
  ASSUME NEW s \in Streams, Exact(s), reader[s] # "none", net'[s] = net[s], sent'[s] = sent[s],
         got'[s] = got[s], reader'[s] \in {"left", "fin", "reset", "error"},
         reader'[s] = "fin" => Len(got[s]) = sent[s] /\ net[s] \in {"fin", "closed"}
  PROVE  Exact(s)'
<1>1. reader'[s] \notin Reading /\ reader'[s] # "none"
  BY DEF Reading
<1>2. (\A i \in 1..Len(got[s]) : got[s][i] = i) /\ net[s] # "unseen"
  BY DEF Exact
<1> QED BY <1>1, <1>2 DEF Exact

LEMMA StreamKept ==
  ASSUME IInv, UNCHANGED <<net, sent, chan, buffer, reader, got>>,
         credited' = credited \/ credited' \in [Streams -> Nat]
  PROVE  StreamInv'
<1>1. StreamTypes'
  BY DEF IInv, Types, StreamTypes
<1>2. \A s \in Streams : Exact(s)'
  BY ExactKept DEF IInv, ReadInv
<1> QED BY <1>1, <1>2 DEF StreamInv, ReadInv

LEMMA StreamReleased ==
  ASSUME IInv, NEW s, NEW how, Releasing(s, how)
  PROVE  StreamInv'
<1>1. /\ s \in Streams /\ reader[s] \in Reading /\ how \in {"left", "fin", "reset", "error"}
      /\ reader' = [reader EXCEPT ![s] = how] /\ chan' = [chan EXCEPT ![s] = <<>>]
      /\ buffer' = [buffer EXCEPT ![s] = Empty]
      /\ UNCHANGED <<net, sent, got, credited>>
      /\ how = "fin" => chan[s] # <<>> /\ Head(chan[s]).end = "fin" /\ buffer[s].size = 0
  BY DEF Releasing, Release
<1>2. StreamTypes /\ \A x \in Streams : Exact(x)
  BY DEF IInv, Types, ReadInv
<1>3. Empty \in Chunks /\ <<>> \in Seq(Chunks)
  BY EmptySeq DEF Empty, Chunk, Chunks
<1>4. StreamTypes'
  BY <1>1, <1>2, <1>3 DEF StreamTypes
<1>5. \A x \in Streams : x # s => /\ reader'[x] = reader[x] /\ chan'[x] = chan[x]
                                  /\ buffer'[x] = buffer[x]
  BY <1>1, <1>2 DEF StreamTypes
<1>6. \A x \in Streams : x # s => Exact(x)'
  BY <1>1, <1>2, <1>5, ExactKept
<1>7. how = "fin" => Len(got[s]) = sent[s] /\ net[s] \in {"fin", "closed"}
  <2> SUFFICES ASSUME how = "fin" PROVE Len(got[s]) = sent[s] /\ net[s] \in {"fin", "closed"}
    OBVIOUS
  <2> DEFINE c == chan[s]
             from == Len(got[s])
             to == sent[s]
  <2>1. c \in Seq(Chunks) /\ from \in Nat /\ to \in Nat /\ c # <<>> /\ Head(c).end = "fin"
    BY <1>1, <1>2, LenProperties DEF StreamTypes
  <2>2. Chain(c, from, to)
    <3>1. Chain(c, from + buffer[s].size, to)
      BY <1>1, <1>2 DEF Exact
    <3>2. from + 0 = from
      BY <2>1
    <3> QED BY <1>1, <3>1, <3>2
  <2>3. Ended(c) => (c[Len(c)].end = "fin" => net[s] \in {"fin", "closed"})
    BY <1>1, <1>2 DEF Exact
  <2> HIDE DEF c, from, to
  <2>4. from = to /\ Ended(c) /\ c[Len(c)] = Head(c)
    <3>1. Head(c).end # None
      BY <2>1, Constants
    <3> QED BY <2>1, <2>2, <3>1, ChainShorter
  <2> QED BY <2>1, <2>3, <2>4 DEF from, to
<1>8. reader'[s] = how /\ reader[s] # "none"
  BY <1>1, <1>2 DEF StreamTypes, Reading
<1>9. Exact(s)'
  BY <1>1, <1>2, <1>7, <1>8, ExactGone
<1> QED BY <1>4, <1>6, <1>9 DEF StreamInv, ReadInv

LEMMA StreamRead ==
  ASSUME IInv, NEW s \in Streams, ReadsData(s)
  PROVE  /\ StreamInv'
         /\ Unread(s) = Unread(s)' + Taken(s) /\ Unread(s)' \in Nat
         /\ \A x \in Streams : x # s => Unread(x)' = Unread(x)
<1> DEFINE k == NextChunk(s)
           n == Taken(s)
           g == got[s]
           b == buffer[s]
           c == chan[s]
           d == IF b.size > 0 THEN c ELSE Tail(c)
           m == Keep(k, n)
<1>1. StreamTypes /\ \A x \in Streams : Exact(x)
  BY DEF IInv, Types, ReadInv
<1>2. /\ k \in Chunks /\ n \in 0..k.size /\ k.size \in Nat /\ n \in Nat /\ k.first \in Nat
      /\ g \in Seq(Nat) /\ c \in Seq(Chunks) /\ b \in Chunks /\ b.size \in Nat /\ sent[s] \in Nat
      /\ Len(g) \in Nat
  <2>1. k \in Chunks /\ n \in 0..k.size
    BY ReadTells
  <2>2. g \in Seq(Nat) /\ c \in Seq(Chunks) /\ b \in Chunks /\ sent[s] \in Nat
    BY <1>1 DEF StreamTypes
  <2> HIDE DEF k, n, g, c, b
  <2> QED BY <2>1, <2>2, LenProperties DEF Chunks
<1>3. /\ reader[s] = "reading" /\ reader' = reader /\ UNCHANGED <<net, sent, credited>>
      /\ got' = [got EXCEPT ![s] = g \o Bytes(k, n)]
      /\ buffer' = [buffer EXCEPT ![s] = m]
      /\ chan' = [chan EXCEPT ![s] = d]
      /\ b.size > 0 \/ (c # <<>> /\ Head(c).end = None)
      /\ k = IF b.size > 0 THEN b ELSE Head(c)
  BY <1>1 DEF ReadsData, ReadData, Taken, NextChunk, StreamTypes
<1>4. /\ \A i \in 1..Len(g) : g[i] = i
      /\ b.size > 0 => b.first = Len(g) + 1
      /\ Chain(c, Len(g) + b.size, sent[s])
      /\ Ended(c) => /\ net[s] # "open"
                     /\ c[Len(c)].end = "fin" => net[s] \in {"fin", "closed"}
      /\ net[s] # "unseen"
  BY <1>1, <1>3 DEF Exact, Reading
<1>5. \A x \in Streams : x # s => got'[x] = got[x] /\ buffer'[x] = buffer[x] /\ chan'[x] = chan[x]
  BY <1>3, <1>1 DEF StreamTypes
<1>6. got'[s] = g \o Bytes(k, n) /\ buffer'[s] = m /\ chan'[s] = d
  BY <1>3, <1>1 DEF StreamTypes
<1>7. m \in Chunks /\ m.size = k.size - n /\ m.first = k.first + n
  BY <1>2 DEF Keep, Chunk, Chunks
<1>8. UNCHANGED <<sent, net, reader>>
  BY <1>3
<1> HIDE DEF k, n, g, b, c, d, m
<1>9. /\ d \in Seq(Chunks) /\ k.first = Len(g) + 1 /\ Chain(d, Len(g) + k.size, sent[s])
      /\ Ended(d) => Ended(c) /\ d[Len(d)] = c[Len(c)]
      /\ b.size + Tally(SizeWeight, c) = k.size + Tally(SizeWeight, d)
      /\ Tally(SizeWeight, d) \in Nat
  <2>1. CASE b.size > 0
    <3>1. Tally(SizeWeight, c) \in Nat
      BY <1>2, Weights, TallyOfConcat
    <3>2. d = c /\ k = b
      BY <1>3, <2>1 DEF d
    <3>3. k.first = Len(g) + 1 /\ k.size = b.size
      BY <1>4, <2>1, <3>2
    <3>4. Chain(d, Len(g) + k.size, sent[s])
      BY <1>4, <3>2
    <3>5. b.size + Tally(SizeWeight, c) = k.size + Tally(SizeWeight, d)
      BY <3>2
    <3>6. d \in Seq(Chunks) /\ Tally(SizeWeight, d) \in Nat
      BY <1>2, <3>1, <3>2
    <3>7. Ended(d) => Ended(c) /\ d[Len(d)] = c[Len(c)]
      BY <3>2
    <3> QED BY <3>3, <3>4, <3>5, <3>6, <3>7
  <2>2. CASE ~(b.size > 0)
    <3>1. b.size = 0 /\ k = Head(c) /\ c # <<>> /\ Head(c).end = None /\ d = Tail(c)
      BY <1>2, <1>3, <2>2 DEF d
    <3>2. Chain(c, Len(g), sent[s])
      <4>1. Len(g) + 0 = Len(g)
        BY <1>2
      <4> QED BY <1>4, <3>1, <4>1
    <3>3. /\ Head(c).first = Len(g) + 1 /\ Chain(Tail(c), Len(g) + Head(c).size, sent[s])
          /\ Ended(Tail(c)) => Ended(c) /\ Tail(c)[Len(Tail(c))] = c[Len(c)]
      BY <1>2, <3>1, <3>2, ChainShorter
    <3>4. /\ Tail(c) \in Seq(Chunks)
          /\ Tally(SizeWeight, c) = SizeWeight[Head(c)] + Tally(SizeWeight, Tail(c))
          /\ Tally(SizeWeight, Tail(c)) \in Nat
      BY <1>2, <3>1, Weights, TallyOfTail, HeadTailProperties
    <3>5. SizeWeight[Head(c)] = k.size
      BY <1>2, <3>1 DEF SizeWeight
    <3>6. k.first = Len(g) + 1 /\ Chain(d, Len(g) + k.size, sent[s])
      BY <3>1, <3>3
    <3>7. Ended(d) => Ended(c) /\ d[Len(d)] = c[Len(c)]
      BY <3>1, <3>3
    <3>8. d \in Seq(Chunks) /\ Tally(SizeWeight, d) \in Nat
      BY <3>1, <3>4
    <3>9. b.size + Tally(SizeWeight, c) = k.size + Tally(SizeWeight, d)
      BY <1>2, <3>1, <3>4, <3>5, <3>8
    <3> QED BY <3>6, <3>7, <3>8, <3>9
  <2> QED BY <2>1, <2>2
<1>10. /\ g \o Bytes(k, n) \in Seq(Nat) /\ Len(g \o Bytes(k, n)) = Len(g) + n
       /\ \A i \in 1..(Len(g) + n) : (g \o Bytes(k, n))[i] = i
  BY <1>2, <1>4, <1>9, ReadOn
<1>11. StreamTypes'
  BY <1>1, <1>3, <1>7, <1>9, <1>10 DEF StreamTypes
<1>12. Exact(s)'
  <2>1. \A i \in 1..Len(got'[s]) : got'[s][i] = i
    BY <1>6, <1>10
  <2>2. buffer'[s].size > 0 => buffer'[s].first = Len(got'[s]) + 1
    BY <1>2, <1>6, <1>7, <1>9, <1>10
  <2>3. Len(got'[s]) + buffer'[s].size = Len(g) + k.size
    BY <1>2, <1>6, <1>7, <1>10
  <2>4. Chain(chan'[s], Len(got'[s]) + buffer'[s].size, sent'[s])
    BY <1>6, <1>8, <1>9, <2>3
  <2>5. Ended(chan'[s]) => /\ net'[s] # "open"
                           /\ chan'[s][Len(chan'[s])].end = "fin" => net'[s] \in {"fin", "closed"}
    BY <1>4, <1>6, <1>8, <1>9
  <2> QED BY <1>3, <1>4, <1>8, <2>1, <2>2, <2>4, <2>5 DEF Exact
<1>13. \A x \in Streams : x # s => Exact(x)'
  BY <1>1, <1>5, <1>8, ExactKept
<1>14. Unread(s) = Unread(s)' + n /\ Unread(s)' \in Nat
  <2>1. Unread(s) = b.size + Tally(SizeWeight, c)
    BY UnreadIs DEF IInv, b, c
  <2>2. Unread(s)' = m.size + Tally(SizeWeight, d)
    <3>1. Unread(s)' = m.size + Total([i \in 1..Len(d) |-> d[i].size])
      BY <1>6 DEF Unread
    <3> QED BY <1>9, <3>1, SizesAreTally
  <2>3. /\ m.size \in Nat /\ Tally(SizeWeight, d) \in Nat
        /\ b.size + Tally(SizeWeight, c) = m.size + Tally(SizeWeight, d) + n
    BY SMTT(30), <1>2, <1>7, <1>9
  <2> QED BY <1>2, <2>1, <2>2, <2>3
<1>15. \A x \in Streams : x # s => Unread(x)' = Unread(x)
  BY <1>5 DEF Unread
<1> QED BY <1>11, <1>12, <1>13, <1>14, <1>15 DEF StreamInv, ReadInv, n

(* What reaches the reader of a stream, and the end behind it.              *)
Grow(c, to, n, end) ==
  c \o (IF n > 0 THEN <<Chunk(to + 1, n)>> ELSE <<>>)
    \o (IF end # None THEN <<End(end)>> ELSE <<>>)

Continues(d, c, from, to, n, end) ==
  /\ d \in Seq(Chunks) /\ Chain(d, from, to + n)
  /\ Tally(SizeWeight, d) = Tally(SizeWeight, c) + n
  /\ Ended(d) => end # None /\ d[Len(d)].end = end

LEMMA ChainGrows ==
  ASSUME NEW c \in Seq(Chunks), NEW from \in Nat, NEW to \in Nat, Chain(c, from, to), ~Ended(c),
         NEW n \in Nat, NEW end \in {None, "fin", "reset"}
  PROVE  Continues(Grow(c, to, n, end), c, from, to, n, end)
<1> DEFINE x == Chunk(to + 1, n)
           y == End(end)
           e == c \o (IF n > 0 THEN <<x>> ELSE <<>>)
           d == e \o (IF end # None THEN <<y>> ELSE <<>>)
<1>1. /\ x \in Chunks /\ x.end = None /\ x.first = to + 1 /\ x.size = n
      /\ y \in Chunks /\ y.end = end /\ y.size = 0
  BY DEF Chunk, End, Chunks
<1>2. /\ SizeWeight \in [Chunks -> Nat] /\ SizeWeight[x] = n /\ SizeWeight[y] = 0
      /\ c \o <<>> = c /\ Tally(SizeWeight, c) \in Nat
  BY <1>1, Weights, ConcatEmptySeq, TallyOfConcat DEF SizeWeight
<1> HIDE DEF x, y
<1>3. ASSUME NEW a \in Seq(Chunks), NEW z \in Chunks
      PROVE  Tally(SizeWeight, a \o <<z>>) = Tally(SizeWeight, a) + SizeWeight[z]
  <2>1. <<z>> \in Seq(Chunks) /\ Tally(SizeWeight, <<z>>) = SizeWeight[z]
    BY <1>2, TallyOfOne
  <2> QED BY <1>2, <2>1, TallyOfConcat
<1>4. /\ e \in Seq(Chunks) /\ Chain(e, from, to + n) /\ ~Ended(e)
      /\ Tally(SizeWeight, e) = Tally(SizeWeight, c) + n
  <2>1. CASE n > 0
    <3>1. e = c \o <<x>>
      BY <2>1
    <3> HIDE DEF e
    <3>2. /\ c \o <<x>> \in Seq(Chunks) /\ Chain(c \o <<x>>, from, to + x.size) /\ ~Ended(c \o <<x>>)
      BY <1>1, ChainLonger
    <3> QED BY <1>1, <1>2, <1>3, <3>1, <3>2
  <2>2. CASE ~(n > 0)
    <3>1. e = c /\ n = 0 /\ to + n = to
      BY <1>2, <2>2
    <3> HIDE DEF e
    <3> QED BY <1>2, <3>1
  <2> QED BY <2>1, <2>2
<1> HIDE DEF e
<1>5. /\ d \in Seq(Chunks) /\ Chain(d, from, to + n) /\ Tally(SizeWeight, d) = Tally(SizeWeight, e)
      /\ Ended(d) => end # None /\ d[Len(d)].end = end
  <2>1. CASE end # None
    <3>1. d = e \o <<y>>
      BY <2>1
    <3>2. Tally(SizeWeight, e) \in Nat
      BY <1>2, <1>4, TallyOfConcat
    <3> HIDE DEF d
    <3>3. /\ e \o <<y>> \in Seq(Chunks) /\ Chain(e \o <<y>>, from, (to + n) + y.size)
          /\ (e \o <<y>>)[Len(e \o <<y>>)] = y
      BY <1>1, <1>4, <2>1, ChainLonger
    <3>4. Tally(SizeWeight, e \o <<y>>) = Tally(SizeWeight, e) + 0 /\ (to + n) + y.size = to + n
      BY <1>1, <1>2, <1>3, <1>4
    <3> QED BY <1>1, <2>1, <3>1, <3>2, <3>3, <3>4
  <2>2. CASE end = None
    <3>1. d = e
      BY <1>4, <2>2, ConcatEmptySeq
    <3> HIDE DEF d
    <3> QED BY <1>4, <3>1
  <2> QED BY <2>1, <2>2
<1>6. Grow(c, to, n, end) = d
  BY DEF Grow, d, e, x, y
<1> HIDE DEF d
<1>7. Tally(SizeWeight, d) = Tally(SizeWeight, c) + n
  BY <1>4, <1>5
<1> QED BY <1>5, <1>6, <1>7 DEF Continues

(* Bytes or the end of a stream arrive.                                     *)
Grown(s, n, end) == [chan EXCEPT ![s] = Grow(@, sent[s], n, end)]

LEMMA StreamGrows ==
  ASSUME IInv, NEW s \in Streams, net[s] = "open", NEW n \in Nat, NEW end \in {None, "fin", "reset"},
         sent' = [sent EXCEPT ![s] = @ + n],
         net' = [net EXCEPT ![s] = IF end = None THEN @ ELSE end],
         chan' = IF reader[s] \in Reading THEN Grown(s, n, end) ELSE chan,
         credited' \in [Streams -> Nat], UNCHANGED <<buffer, reader, got>>
  PROVE  /\ StreamInv' /\ sent'[s] = sent[s] + n /\ sent[s] \in Nat
         /\ \A x \in Streams : x # s => Unread(x)' = Unread(x) /\ sent'[x] = sent[x]
         /\ reader[s] \in Reading => Unread(s)' = Unread(s) + n
         /\ reader[s] \notin Reading => Unread(s)' = Unread(s)
<1> DEFINE c == chan[s]
           from == Len(got[s]) + buffer[s].size
           to == sent[s]
           d == Grow(c, to, n, end)
<1>1. StreamTypes /\ \A x \in Streams : Exact(x)
  BY DEF IInv, Types, ReadInv
<1>2. c \in Seq(Chunks) /\ from \in Nat /\ to \in Nat /\ buffer[s].size \in Nat
  <2>1. got[s] \in Seq(Nat) /\ c \in Seq(Chunks) /\ to \in Nat /\ buffer[s].size \in Nat
    BY <1>1 DEF StreamTypes, Chunks
  <2>2. Len(got[s]) \in Nat
    BY <2>1, LenProperties
  <2> QED BY <2>1, <2>2
<1>3. /\ sent'[s] = to + n /\ net'[s] = IF end = None THEN "open" ELSE end
      /\ \A x \in Streams : x # s => sent'[x] = sent[x] /\ net'[x] = net[x] /\ chan'[x] = chan[x]
      /\ chan'[s] = IF reader[s] \in Reading THEN d ELSE c
  BY <1>1 DEF StreamTypes, Grown
<1>4. /\ reader[s] # "none" /\ reader[s] # "fin" /\ \A i \in 1..Len(got[s]) : got[s][i] = i
      /\ reader[s] \in Reading => /\ buffer[s].size > 0 => buffer[s].first = Len(got[s]) + 1
                                  /\ Chain(c, from, to) /\ ~Ended(c)
  BY <1>1 DEF Exact
<1>5. reader[s] \in Reading =>
        /\ d \in Seq(Chunks) /\ Chain(d, from, to + n)
        /\ Tally(SizeWeight, d) = Tally(SizeWeight, c) + n
        /\ Ended(d) => end # None /\ d[Len(d)].end = end
  <2> SUFFICES ASSUME reader[s] \in Reading
               PROVE  /\ d \in Seq(Chunks) /\ Chain(d, from, to + n)
                      /\ Tally(SizeWeight, d) = Tally(SizeWeight, c) + n
                      /\ Ended(d) => end # None /\ d[Len(d)].end = end
    OBVIOUS
  <2>1. Chain(c, from, to) /\ ~Ended(c)
    BY <1>4
  <2> HIDE DEF c, from, to
  <2>2. Continues(d, c, from, to, n, end)
    BY <1>2, <2>1, ChainGrows
  <2> QED BY <2>2 DEF Continues
<1> HIDE DEF d
<1>6. StreamTypes'
  <2>1. chan' \in [Streams -> Seq(Chunks)]
    <3>1. \A x \in Streams : chan'[x] \in Seq(Chunks)
      BY <1>1, <1>2, <1>3, <1>5 DEF StreamTypes
    <3>2. chan' = [x \in Streams |-> chan'[x]]
      BY <1>1 DEF StreamTypes, Grown
    <3> QED BY <3>1, <3>2
  <2> QED BY <1>1, <2>1 DEF StreamTypes
<1>7. \A x \in Streams : x # s => Exact(x)'
  BY <1>1, <1>3, ExactKept
<1>8. Exact(s)'
  <2>1. CASE reader[s] \notin Reading
    BY <1>3, <1>4, <2>1, Constants DEF Exact
  <2>2. CASE reader[s] \in Reading
    <3>1. Chain(chan'[s], Len(got'[s]) + buffer'[s].size, sent'[s])
      BY <1>3, <1>5, <2>2
    <3>2. Ended(chan'[s]) => /\ net'[s] # "open"
                             /\ chan'[s][Len(chan'[s])].end = "fin" => net'[s] \in {"fin", "closed"}
      BY <1>3, <1>5, <2>2, Constants
    <3> QED BY <1>3, <1>4, <2>2, <3>1, <3>2, Constants DEF Exact
  <2> QED BY <2>1, <2>2
<1>9. \A x \in Streams : x # s => Unread(x)' = Unread(x)
  BY <1>3 DEF Unread
<1>10. reader[s] \notin Reading => Unread(s)' = Unread(s)
  BY <1>3 DEF Unread
<1>11. reader[s] \in Reading => Unread(s)' = Unread(s) + n
  <2> SUFFICES ASSUME reader[s] \in Reading PROVE Unread(s)' = Unread(s) + n
    OBVIOUS
  <2>1. Unread(s) = buffer[s].size + Tally(SizeWeight, c) /\ Tally(SizeWeight, c) \in Nat
    BY UnreadIs DEF IInv
  <2>2. Unread(s)' = buffer[s].size + Total([i \in 1..Len(d) |-> d[i].size])
    BY <1>3 DEF Unread
  <2>3. Total([i \in 1..Len(d) |-> d[i].size]) = Tally(SizeWeight, d)
    BY <1>5, SizesAreTally
  <2> QED BY <1>2, <1>5, <2>1, <2>2, <2>3
<1> QED BY <1>2, <1>3, <1>6, <1>7, <1>8, <1>9, <1>10, <1>11 DEF StreamInv, ReadInv

(* The streams of a session that leaves.                                    *)
LEMMA StreamsLeft ==
  ASSUME IInv, main # "gone", Leave
  PROVE  StreamInv'
<1>1. StreamTypes /\ \A x \in Streams : Exact(x)
  BY DEF IInv, Types, ReadInv
<1>2. /\ \A s \in Streams : /\ reader'[s] = IF s \in Waiting THEN "left" ELSE reader[s]
                            /\ chan'[s] = IF s \in Waiting THEN <<>> ELSE chan[s]
                            /\ buffer'[s] = IF s \in Waiting THEN Empty ELSE buffer[s]
      /\ reader' = [s \in Streams |-> reader'[s]] /\ chan' = [s \in Streams |-> chan'[s]]
      /\ buffer' = [s \in Streams |-> buffer'[s]]
      /\ UNCHANGED <<net, sent, credited, got>>
  BY Leaving
<1>3. \A s \in Waiting : reader[s] = "queued"
  BY WaitingStreams
<1>4. Empty \in Chunks /\ <<>> \in Seq(Chunks)
  BY EmptySeq DEF Empty, Chunk, Chunks
<1>5. /\ \A s \in Streams : reader'[s] \in {"none", "left", "fin", "reset", "error"} \cup Reading
      /\ \A s \in Streams : chan'[s] \in Seq(Chunks)
      /\ \A s \in Streams : buffer'[s] \in Chunks
  BY <1>1, <1>2, <1>4 DEF StreamTypes
<1>6. StreamTypes'
  BY <1>1, <1>2, <1>5 DEF StreamTypes
<1>7. ASSUME NEW s \in Streams PROVE Exact(s)'
  <2>1. CASE s \in Waiting
    BY <1>1, <1>2, <1>3, <2>1, ExactGone
  <2>2. CASE s \notin Waiting
    BY <1>1, <1>2, <2>2, ExactKept
  <2> QED BY <2>1, <2>2
<1> QED BY <1>6, <1>7 DEF StreamInv, ReadInv

(* A stream is there, or the driver goes with it in hand.                   *)
LEMMA StreamAppears ==
  ASSUME IInv, NEW s \in Streams, net[s] = "unseen", NEW how \in {"queued", "left"},
         net' = [net EXCEPT ![s] = "open"], reader' = [reader EXCEPT ![s] = how],
         UNCHANGED <<sent, chan, buffer, credited, got>>
  PROVE  StreamInv'
<1>1. StreamTypes /\ \A x \in Streams : Exact(x)
  BY DEF IInv, Types, ReadInv
<1>2. StreamTypes'
  BY <1>1 DEF StreamTypes, Reading
<1>3. /\ net'[s] = "open" /\ reader'[s] = how
      /\ \A x \in Streams : x # s => net'[x] = net[x] /\ reader'[x] = reader[x]
  BY <1>1 DEF StreamTypes
<1>4. \A x \in Streams : x # s => Exact(x)'
  BY <1>1, <1>3, ExactKept
<1>5. sent[s] = 0 /\ chan[s] = <<>> /\ buffer[s].size = 0 /\ got[s] = <<>>
  BY <1>1 DEF Exact
<1>6. Chain(<<>>, 0, 0) /\ ~Ended(<<>>)
  BY ChainEmpty
<1>7. /\ sent'[s] = 0 /\ chan'[s] = <<>> /\ buffer'[s].size = 0 /\ got'[s] = <<>>
      /\ Len(got'[s]) = 0 /\ 0 + 0 = 0
  BY <1>5
<1>8. Exact(s)'
  BY <1>3, <1>6, <1>7 DEF Exact
<1> QED BY <1>2, <1>4, <1>8 DEF StreamInv, ReadInv

LEMMA StreamGone ==
  ASSUME IInv, H3Deliver
  PROVE  StreamInv'
<1>1. StreamTypes /\ \A x \in Streams : Exact(x)
  BY DEF IInv, Types, ReadInv
<1>2. Handing /\ UNCHANGED <<net, sent, chan, buffer, credited, got>>
  BY DEF H3Deliver
<1>3. CASE main # "gone"
  BY <1>2, <1>3, StreamKept DEF H3Deliver
<1>4. CASE main = "gone"
  <2>1. reader' = [s \in Streams |-> IF s = handing.item THEN "left" ELSE reader[s]]
    BY <1>4 DEF H3Deliver
  <2>2. StreamTypes'
    BY <1>1, <1>2, <2>1 DEF StreamTypes
  <2>3. ASSUME NEW s \in Streams PROVE Exact(s)'
    <3>1. CASE s = handing.item
      <4>1. s \notin Nat
        BY Constants
      <4>2. net[s] # "unseen"
        BY <1>2, <3>1, <4>1 DEF IInv, Types
      <4>3. reader[s] # "none" /\ reader'[s] = "left"
        BY <1>1, <2>1, <3>1, <4>2 DEF Exact
      <4> QED BY <1>1, <1>2, <4>3, ExactGone
    <3>2. CASE s # handing.item
      BY <1>1, <1>2, <2>1, <3>2, ExactKept
    <3> QED BY <3>1, <3>2
  <2> QED BY <2>2, <2>3 DEF StreamInv, ReadInv
<1> QED BY <1>3, <1>4

LEMMA StreamAccepted ==
  ASSUME IInv, AcceptUni
  PROVE  StreamInv'
<1> DEFINE s == Head(queue["uni"])
<1>1. main # "gone" /\ queue["uni"] # <<>> /\ reader' = [reader EXCEPT ![s] = "reading"]
      /\ UNCHANGED <<net, sent, chan, buffer, credited, got>>
  BY DEF AcceptUni
<1>2. s \in Streams /\ reader[s] = "queued"
  BY <1>1, Accepting
<1>3. StreamTypes /\ \A x \in Streams : Exact(x)
  BY DEF IInv, Types, ReadInv
<1> HIDE DEF s
<1>4. StreamTypes'
  BY <1>1, <1>3 DEF StreamTypes, Reading
<1>5. \A x \in Streams : reader'[x] = reader[x] \/ (reader[x] \in Reading /\ reader'[x] \in Reading)
  BY <1>1, <1>2, <1>3 DEF StreamTypes, Reading
<1>6. \A x \in Streams : Exact(x)'
  BY <1>1, <1>3, <1>5, ExactKept
<1> QED BY <1>4, <1>6 DEF StreamInv, ReadInv

(* A stream closed on both sides.                                           *)
LEMMA StreamOver ==
  ASSUME IInv, NEW s \in Streams, net[s] \in {"fin", "reset"}, net' = [net EXCEPT ![s] = "closed"],
         UNCHANGED <<sent, chan, buffer, reader, credited, got>>
  PROVE  StreamInv'
<1>1. StreamTypes /\ \A x \in Streams : Exact(x)
  BY DEF IInv, Types, ReadInv
<1>2. StreamTypes'
  BY <1>1 DEF StreamTypes
<1>3. net'[s] = "closed" /\ \A x \in Streams : x # s => net'[x] = net[x]
  BY <1>1 DEF StreamTypes
<1>4. \A x \in Streams : x # s => Exact(x)'
  BY <1>1, <1>3, ExactKept
<1>5. Exact(s)'
  BY <1>1, <1>3 DEF Exact
<1> QED BY <1>2, <1>4, <1>5 DEF StreamInv, ReadInv

(* ngtcp2: what a reader takes is forwarded to it, and the rest credited.   *)
LEMMA DataStep ==
  ASSUME IInv, NEW s \in Uni, NEW n \in 0 .. MaxPeer, NEW fin \in BOOLEAN, StreamData(s, n, fin)
  PROVE  /\ StreamInv' /\ s \in Streams
         /\ sent'[s] = sent[s] + n /\ sent[s] \in Nat /\ n \in Nat
         /\ \A x \in Streams : x # s =>
              Unread(x)' = Unread(x) /\ sent'[x] = sent[x] /\ credited'[x] = credited[x]
         /\ \/ Unread(s)' = Unread(s) + n /\ credited'[s] = credited[s]
            \/ Unread(s)' = Unread(s) /\ credited'[s] = credited[s] + n
<1> DEFINE end == IF fin THEN "fin" ELSE None
<1>1. n \in Nat /\ s \in Streams /\ end \in {None, "fin", "reset"} /\ (end = None <=> ~fin)
  BY Constants
<1>2. StreamTypes /\ route = "ngtcp2" /\ driver # "stopped" /\ net[s] = "open"
  BY DEF IInv, Types, StreamData, Event, Selecting
<1>3. s \in receivers /\ reader[s] \in Reading <=> reader[s] \in Reading
  BY <1>1, <1>2 DEF IInv, ReceiverInv
<1>4. /\ sent' = [sent EXCEPT ![s] = @ + n]
      /\ net' = [net EXCEPT ![s] = IF end = None THEN @ ELSE end]
      /\ chan' = IF reader[s] \in Reading THEN Grown(s, n, end) ELSE chan
      /\ credited' = IF reader[s] \in Reading THEN credited ELSE [credited EXCEPT ![s] = @ + n]
      /\ UNCHANGED <<buffer, reader, got>>
  BY <1>1, <1>3 DEF StreamData, Reading, Grown, Grow
<1> HIDE DEF end
<1>5. credited' \in [Streams -> Nat]
  BY <1>1, <1>2, <1>4 DEF StreamTypes
<1>6. /\ StreamInv' /\ sent'[s] = sent[s] + n /\ sent[s] \in Nat
      /\ \A x \in Streams : x # s => Unread(x)' = Unread(x) /\ sent'[x] = sent[x]
      /\ reader[s] \in Reading => Unread(s)' = Unread(s) + n
      /\ reader[s] \notin Reading => Unread(s)' = Unread(s)
  BY <1>1, <1>2, <1>4, <1>5, StreamGrows
<1>7. /\ \A x \in Streams : x # s => credited'[x] = credited[x]
      /\ credited'[s] = IF reader[s] \in Reading THEN credited[s] ELSE credited[s] + n
  BY <1>1, <1>2, <1>4 DEF StreamTypes
<1> QED BY <1>1, <1>6, <1>7

LEMMA ResetStep ==
  ASSUME IInv, NEW s \in Uni, StreamReset(s)
  PROVE  /\ StreamInv' /\ s \in Streams
         /\ \A x \in Streams : Unread(x)' = Unread(x) /\ sent'[x] = sent[x]
<1>1. s \in Streams /\ "reset" \in {None, "fin", "reset"} /\ "reset" # None /\ 0 \in Nat
  BY Constants
<1>2. StreamTypes /\ route = "ngtcp2" /\ driver # "stopped" /\ net[s] = "open"
  BY DEF IInv, Types, StreamReset, Event, Selecting
<1>3. s \in receivers /\ reader[s] \in Reading <=> reader[s] \in Reading
  BY <1>1, <1>2 DEF IInv, ReceiverInv
<1>4. chan[s] \in Seq(Chunks) /\ End("reset") \in Chunks
  BY <1>1, <1>2 DEF StreamTypes, End, Chunks
<1>5. Grow(chan[s], sent[s], 0, "reset") = Append(chan[s], End("reset"))
  <2> DEFINE c == chan[s]
             e == End("reset")
  <2>1. Grow(c, sent[s], 0, "reset") = (c \o <<>>) \o <<e>>
    BY <1>1 DEF Grow
  <2> HIDE DEF c, e
  <2>2. c \o <<>> = c /\ Append(c, e) = c \o <<e>>
    BY <1>4, ConcatEmptySeq, AppendIsConcat DEF c, e
  <2>3. Grow(c, sent[s], 0, "reset") = Append(c, e)
    BY <2>1, <2>2
  <2> QED BY <2>3 DEF c, e
<1>6. /\ sent' = [sent EXCEPT ![s] = @ + 0]
      /\ net' = [net EXCEPT ![s] = IF "reset" = None THEN @ ELSE "reset"]
      /\ chan' = IF reader[s] \in Reading THEN Grown(s, 0, "reset") ELSE chan
      /\ credited' \in [Streams -> Nat] /\ UNCHANGED <<buffer, reader, got>>
  <2>1. sent' = [sent EXCEPT ![s] = @ + 0]
    BY <1>2 DEF StreamReset, StreamTypes
  <2>2. credited' \in [Streams -> Nat] /\ UNCHANGED <<buffer, reader, got>>
    BY <1>2 DEF StreamReset, StreamTypes
  <2>3. chan' = IF reader[s] \in Reading THEN [chan EXCEPT ![s] = Append(@, End("reset"))] ELSE chan
    BY <1>3 DEF StreamReset, Reading
  <2>4. net' = [net EXCEPT ![s] = "reset"]
    BY DEF StreamReset
  <2> QED BY <1>1, <1>5, <2>1, <2>2, <2>3, <2>4 DEF Grown
<1>7. /\ StreamInv' /\ sent'[s] = sent[s] + 0 /\ sent[s] \in Nat
      /\ \A x \in Streams : x # s => Unread(x)' = Unread(x) /\ sent'[x] = sent[x]
      /\ reader[s] \in Reading => Unread(s)' = Unread(s) + 0
      /\ reader[s] \notin Reading => Unread(s)' = Unread(s)
  BY <1>1, <1>2, <1>6, StreamGrows
<1>8. Unread(s) \in Nat
  BY <1>1, UnreadIs DEF IInv
<1> QED BY <1>1, <1>7, <1>8

(* What a command gives back.                                               *)
LEMMA GivenBack ==
  ASSUME IInv, requests # <<>>, Head(requests).op = "consumed"
  PROVE  Head(requests).id \in Streams /\ Head(requests).size \in Nat
<1>1. requests \in Seq(CommandRecords)
  BY DEF IInv, Types
<1>2. Head(requests) \in CommandRecords
  BY <1>1, HeadTailProperties
<1> QED BY <1>2, Constants DEF CommandRecords

LEMMA StreamStep ==
  ASSUME IInv, [Next]_vars
  PROVE  StreamInv'
<1> USE DEF Reading
<1>1. CASE AcceptUni
  BY <1>1, StreamAccepted
<1>2. CASE AcceptNone \/ Abandon
  BY <1>2, StreamsLeft DEF AcceptNone, Abandon
<1>3. CASE Resume
  <2>1. CASE main = "close" \/ (reply # "ok" /\ main \in {"open", "datagram"})
    BY <1>3, <2>1, StreamsLeft, Constants DEF Resume
  <2>2. CASE ~(main = "close" \/ (reply # "ok" /\ main \in {"open", "datagram"}))
    BY <1>3, <2>2, StreamKept DEF Resume, streams
  <2> QED BY <2>1, <2>2
<1>4. CASE AcceptBidi \/ \E s \in Streams : ReaderLeaves(s)
  BY <1>4, StreamReleased, Releases
<1>5. CASE \E s \in Streams : Read(s)
  BY <1>5, StreamReleased, StreamRead, Releases
<1>6. ASSUME NEW s \in Streams, H3Stream(s) PROVE StreamInv'
  BY <1>6, StreamAppears DEF H3Stream
<1>7. ASSUME NEW s \in Uni, NEW n \in 0 .. MaxPeer, NEW end \in {None, "fin", "reset"}, H3Data(s, n, end)
      PROVE  StreamInv'
  <2>1. n \in Nat /\ s \in Streams
    BY Constants
  <2>2. /\ net[s] = "open" /\ sent' = [sent EXCEPT ![s] = @ + n]
        /\ net' = [net EXCEPT ![s] = IF end = None THEN @ ELSE end]
        /\ chan' = IF reader[s] \in Reading THEN Grown(s, n, end) ELSE chan
        /\ UNCHANGED <<buffer, reader, got, credited>>
    BY <1>7 DEF H3Data, Grown, Grow
  <2>3. credited' \in [Streams -> Nat]
    BY <2>2 DEF IInv, Types, StreamTypes
  <2> QED BY <2>1, <2>2, <2>3, StreamGrows
<1>8. CASE H3Deliver
  BY <1>8, StreamGone
<1>9. ASSUME NEW s \in Streams, StreamOpened(s) PROVE StreamInv'
  <2>1. /\ net[s] = "unseen" /\ net' = [net EXCEPT ![s] = "open"]
        /\ UNCHANGED <<sent, chan, buffer, credited, got>>
        /\ reader' = [reader EXCEPT ![s] = IF main = "gone" THEN "left" ELSE "queued"]
    BY <1>9 DEF StreamOpened
  <2> QED BY <2>1, StreamAppears
<1>10. ASSUME NEW s \in Uni, NEW n \in 0 .. MaxPeer, NEW fin \in BOOLEAN, StreamData(s, n, fin)
       PROVE  StreamInv'
  BY <1>10, DataStep
<1>11. ASSUME NEW s \in Uni, StreamReset(s) PROVE StreamInv'
  BY <1>11, ResetStep
<1>12. ASSUME NEW s \in Uni, StreamClosed(s) PROVE StreamInv'
  <2>1. s \in Streams /\ net[s] \in {"fin", "reset"} /\ net' = [net EXCEPT ![s] = "closed"]
        /\ UNCHANGED <<sent, chan, buffer, reader, credited, got>>
    BY <1>12, Constants DEF StreamClosed
  <2> QED BY <2>1, StreamOver
<1>13. CASE Commands
  <2>1. CASE CommandConsumed
    <3>1. /\ requests # <<>> /\ Head(requests).op = "consumed"
          /\ credited' = [credited EXCEPT ![Head(requests).id] = @ + Head(requests).size]
          /\ UNCHANGED <<net, sent, chan, buffer, reader, got>>
      BY <2>1 DEF CommandConsumed, Command
    <3>2. credited' \in [Streams -> Nat]
      <4>1. Head(requests).id \in Streams /\ Head(requests).size \in Nat
        BY <3>1, GivenBack
      <4> QED BY <3>1, <4>1 DEF IInv, Types, StreamTypes
    <3> QED BY <3>1, <3>2, StreamKept
  <2>2. CASE ~CommandConsumed
    BY <1>13, <2>2, StreamKept DEF Commands, CommandOpen, CommandWrite, CommandReset,
       CommandDatagram, CommandStop, CommandDrop, CommandClose, streams
  <2> QED BY <2>1, <2>2
<1>14. CASE \/ UNCHANGED vars \/ Finished \/ RecvDatagrams \/ Timer \/ H3MaxStreams \/ H3Ends
            \/ H3Datagram \/ H3Command \/ H3Writes \/ Drain \/ Pass \/ OwnerDropped
            \/ ConnectionClosed \/ StreamStopSending \/ Datagram \/ MaxStreams
            \/ \E op \in Operations : Start(op)
  BY <1>14, StreamKept DEF vars, Finished, RecvDatagrams, Timer, H3MaxStreams, H3Ends, H3Datagram,
     H3Command, H3Writes, Drain, Pass, OwnerDropped, ConnectionClosed, StreamStopSending, Datagram,
     MaxStreams, Start, streams
<1> QED BY <1>1, <1>2, <1>3, <1>4, <1>5, <1>6, <1>7, <1>8, <1>9, <1>10, <1>11, <1>12, <1>13, <1>14
     DEF Next, Session, Readers, H3Events, Turns, Events

-----------------------------------------------------------------------------
(* What is given back, and what the driver forwards.                        *)

CountInv == requests \in Seq(CommandRecords) /\ ReceiverInv /\ CreditConserved

LEMMA CountKept ==
  ASSUME IInv, NEW S, NEW b, Told(S, b), UNCHANGED <<route, receivers, net, sent, credited>>,
         driver' # "stopped" => driver # "stopped",
         \A s \in Streams : /\ reader'[s] \in Reading => reader[s] \in Reading
                            /\ reader'[s] = "none" => reader[s] = "none"
                            /\ s \in S => reader'[s] \notin Reading \cup {"none"},
         route = "ngtcp2" =>
           \A s \in Streams : Unread(s) = Unread(s)' + b[s] /\ Unread(s)' \in Nat /\ b[s] \in Nat
  PROVE  CountInv'
<1>1. requests' \in Seq(CommandRecords) /\ \A t \in Streams : Stopping(t)' > 0 => Stopping(t) > 0 \/ t \in S
  BY DEF Told
<1>2. ReceiverInv'
  <2>1. ASSUME route' = "ngtcp2", driver' # "stopped", NEW s \in Streams, net'[s] = "open",
               reader'[s] \in Reading
        PROVE  s \in receivers'
    BY <2>1 DEF IInv, ReceiverInv
  <2>2. ASSUME NEW s \in Streams, Stopping(s)' > 0 PROVE reader'[s] \notin Reading \cup {"none"}
    BY <1>1, <2>2 DEF IInv, ReceiverInv
  <2> QED BY <2>1, <2>2 DEF ReceiverInv
<1>3. CreditConserved'
  <2> SUFFICES ASSUME route = "ngtcp2", driver' # "stopped", NEW s \in Streams
               PROVE  sent[s] = credited[s] + Returning(s)' + Unread(s)'
    BY DEF CreditConserved
  <2>1. /\ Returning(s)' = Returning(s) + b[s] /\ Unread(s) = Unread(s)' + b[s]
        /\ Unread(s)' \in Nat /\ b[s] \in Nat /\ credited[s] \in Nat
    BY DEF Told, IInv, Types, StreamTypes
  <2>2. sent[s] = credited[s] + Returning(s) + Unread(s)
    BY DEF IInv, CreditConserved
  <2>3. Returning(s) \in Nat
    BY Counts DEF IInv, Types
  <2> QED BY <2>1, <2>2, <2>3
<1> QED BY <1>1, <1>2, <1>3 DEF CountInv

LEMMA CountStopped ==
  ASSUME Stop
  PROVE  CountInv'
<1>1. requests' \in Seq(CommandRecords) /\ \A t \in Streams : Stopping(t)' = 0
  BY Emptying DEF Stop
<1> QED BY <1>1 DEF Stop, CountInv, ReceiverInv, CreditConserved

(* On wt_h3 only the stops matter, and there are none.                      *)
LEMMA CountH3 ==
  ASSUME IInv, route' # "ngtcp2", requests' \in Seq(CommandRecords),
         \A s \in Streams : /\ Stopping(s)' > 0 => Stopping(s) > 0
                            /\ reader'[s] \in Reading \cup {"none"} => reader[s] \in Reading \cup {"none"}
  PROVE  CountInv'
BY DEF CountInv, ReceiverInv, CreditConserved, IInv

(* Nothing is given back, and no reader moves but out of the way.           *)
LEMMA CountStill ==
  ASSUME IInv, requests' = requests,
         UNCHANGED <<route, receivers, net, sent, credited, chan, buffer>>,
         driver' # "stopped" => driver # "stopped",
         \A s \in Streams : /\ reader'[s] \in Reading => reader[s] \in Reading
                            /\ reader'[s] = "none" => reader[s] = "none"
  PROVE  CountInv'
<1>1. Told({}, Nothing)
  BY ToldNothing DEF IInv
<1>2. \A s \in Streams : /\ Unread(s)' = Unread(s) /\ Unread(s) \in Nat /\ Nothing[s] = 0
                         /\ Unread(s) = Unread(s)' + Nothing[s]
  BY UnreadIs DEF Unread, Nothing, IInv
<1> QED BY <1>1, <1>2, CountKept

(* A stream whose end goes gives back what was not read of it.              *)
LEMMA NothingUnread ==
  ASSUME NEW s \in Streams, chan'[s] = <<>>, buffer'[s] = Empty
  PROVE  Unread(s)' = 0
<1>1. Unread(s)' = buffer'[s].size + Total([i \in 1..Len(<<>>) |-> chan'[s][i].size])
  BY DEF Unread
<1>2. \A w : Tally(w, <<>>) = 0 /\ Len(<<>>) = 0
  BY TallyOfEmpty
<1>3. Total([i \in 1..0 |-> chan'[s][i].size]) = 0
  <2>1. [i \in 1..0 |-> chan'[s][i].size] = <<>>
    OBVIOUS
  <2> QED BY <2>1, TotalOfEmpty
<1>4. buffer'[s].size = 0
  BY DEF Empty, Chunk
<1>5. Total([i \in 1..Len(<<>>) |-> chan'[s][i].size]) = 0
  BY <1>2, <1>3
<1> QED BY <1>1, <1>4, <1>5

LEMMA CountReleased ==
  ASSUME IInv, NEW s, NEW how, Releasing(s, how)
  PROVE  CountInv'
<1>1. /\ s \in Streams /\ reader[s] \in Reading /\ how \in {"left", "fin", "reset", "error"}
      /\ reader' = [reader EXCEPT ![s] = how] /\ chan' = [chan EXCEPT ![s] = <<>>]
      /\ buffer' = [buffer EXCEPT ![s] = Empty] /\ Told({s}, Discarded(s))
      /\ UNCHANGED <<route, driver, receivers, net, sent, credited>>
  BY DEF Releasing, Release
<1>2. /\ reader'[s] = how /\ chan'[s] = <<>> /\ buffer'[s] = Empty
      /\ \A x \in Streams : x # s => reader'[x] = reader[x] /\ chan'[x] = chan[x]
                                     /\ buffer'[x] = buffer[x]
  BY <1>1 DEF IInv, Types, StreamTypes
<1>3. Unread(s)' = 0 /\ Unread(s) \in Nat
  BY <1>1, <1>2, NothingUnread, UnreadIs DEF IInv
<1>4. \A x \in Streams : x # s => Unread(x)' = Unread(x) /\ Unread(x) \in Nat
  BY <1>2, UnreadIs DEF Unread, IInv
<1>5. route = "ngtcp2" =>
        \A x \in Streams : /\ Unread(x) = Unread(x)' + Discarded(s)[x]
                           /\ Unread(x)' \in Nat /\ Discarded(s)[x] \in Nat
  <2> SUFFICES ASSUME route = "ngtcp2", NEW x \in Streams
               PROVE  /\ Unread(x) = Unread(x)' + Discarded(s)[x]
                      /\ Unread(x)' \in Nat /\ Discarded(s)[x] \in Nat
    OBVIOUS
  <2>1. Discarded(s)[x] = IF x = s THEN Unread(s) ELSE 0
    BY DEF Discarded, Only
  <2> QED BY <1>3, <1>4, <2>1
<1>6. \A x \in Streams : /\ reader'[x] \in Reading => reader[x] \in Reading
                         /\ reader'[x] = "none" => reader[x] = "none"
                         /\ x \in {s} => reader'[x] \notin Reading \cup {"none"}
  BY <1>1, <1>2 DEF Reading
<1> QED BY <1>1, <1>5, <1>6, CountKept

LEMMA CountRead ==
  ASSUME IInv, NEW s \in Streams, ReadsData(s)
  PROVE  CountInv'
<1> DEFINE b == IF route = "ngtcp2" THEN Only(s, Taken(s)) ELSE Nothing
<1>1. UNCHANGED <<route, driver, receivers, net, sent, credited, reader>>
  BY DEF ReadsData, ReadData
<1>2. Told({}, b) /\ Taken(s) \in 0..NextChunk(s).size /\ NextChunk(s) \in Chunks
  BY ReadTells
<1>3. Taken(s) \in Nat
  BY <1>2 DEF Chunks
<1>4. /\ Unread(s) = Unread(s)' + Taken(s) /\ Unread(s)' \in Nat
      /\ \A x \in Streams : x # s => Unread(x)' = Unread(x)
  BY StreamRead
<1>5. \A x \in Streams : Unread(x)' \in Nat /\ Unread(x) \in Nat
  <2>1. \A x \in Streams : Unread(x) \in Nat
    BY UnreadIs DEF IInv
  <2> QED BY <1>4, <2>1
<1>6. route = "ngtcp2" =>
        \A x \in Streams : Unread(x) = Unread(x)' + b[x] /\ Unread(x)' \in Nat /\ b[x] \in Nat
  <2> SUFFICES ASSUME route = "ngtcp2", NEW x \in Streams
               PROVE  Unread(x) = Unread(x)' + b[x] /\ Unread(x)' \in Nat /\ b[x] \in Nat
    OBVIOUS
  <2>1. b[x] = IF x = s THEN Taken(s) ELSE 0
    BY DEF Only
  <2> HIDE DEF b
  <2> QED BY <1>3, <1>4, <1>5, <2>1
<1> HIDE DEF b
<1> QED BY <1>1, <1>2, <1>6, CountKept

LEMMA CountLeaving ==
  ASSUME IInv, main # "gone", Leave
  PROVE  CountInv'
<1> DEFINE b == DiscardedOf(Waiting)
<1>1. /\ Told(Waiting, b) /\ UNCHANGED <<route, driver, receivers, net, sent, credited>>
      /\ \A s \in Streams : /\ reader'[s] = IF s \in Waiting THEN "left" ELSE reader[s]
                            /\ chan'[s] = IF s \in Waiting THEN <<>> ELSE chan[s]
                            /\ buffer'[s] = IF s \in Waiting THEN Empty ELSE buffer[s]
  BY Leaving
<1>2. route = "ngtcp2" =>
        \A s \in Streams : Unread(s) = Unread(s)' + b[s] /\ Unread(s)' \in Nat /\ b[s] \in Nat
  <2> SUFFICES ASSUME route = "ngtcp2", NEW s \in Streams
               PROVE  Unread(s) = Unread(s)' + b[s] /\ Unread(s)' \in Nat /\ b[s] \in Nat
    OBVIOUS
  <2>1. b[s] = (IF s \in Waiting THEN Unread(s) ELSE 0) /\ Unread(s) \in Nat
    BY UnreadIs DEF DiscardedOf, IInv
  <2> HIDE DEF b
  <2>2. CASE s \in Waiting
    BY <1>1, <2>1, <2>2, NothingUnread
  <2>3. CASE s \notin Waiting
    <3>1. Unread(s)' = Unread(s)
      BY <1>1, <2>3 DEF Unread
    <3> QED BY <2>1, <2>3, <3>1
  <2> QED BY <2>2, <2>3
<1> HIDE DEF b
<1>3. \A s \in Streams : /\ reader'[s] \in Reading => reader[s] \in Reading
                         /\ reader'[s] = "none" => reader[s] = "none"
                         /\ s \in Waiting => reader'[s] \notin Reading \cup {"none"}
  BY <1>1 DEF Reading
<1> QED BY <1>1, <1>2, <1>3, CountKept

(* Nothing comes in that is not forwarded, taken back or credited.          *)
LEMMA CountOpened ==
  ASSUME IInv, NEW s \in Streams, StreamOpened(s)
  PROVE  CountInv'
<1>1. /\ Told({s}, Nothing) /\ receivers' = receivers \cup {s}
      /\ net[s] = "unseen" /\ net' = [net EXCEPT ![s] = "open"] /\ driver # "stopped"
      /\ reader' = [reader EXCEPT ![s] = IF main = "gone" THEN "left" ELSE "queued"]
      /\ main # "gone" => requests' = requests
      /\ UNCHANGED <<route, sent, credited, chan, buffer>>
  BY Opening DEF StreamOpened, Event, Selecting
<1>2. /\ reader'[s] = (IF main = "gone" THEN "left" ELSE "queued") /\ reader[s] = "none"
      /\ \A x \in Streams : x # s => reader'[x] = reader[x] /\ net'[x] = net[x]
  BY <1>1 DEF IInv, Types, StreamTypes, ReadInv, Exact
<1>3. \A t \in Streams : Stopping(t)' > 0 => Stopping(t) > 0 \/ t \in {s}
  BY <1>1 DEF Told
<1>4. ~(Stopping(s) > 0)
  BY <1>2 DEF IInv, ReceiverInv
<1>5. main # "gone" => ~(Stopping(s)' > 0)
  BY <1>1, <1>4 DEF Stopping
<1>6. ASSUME NEW t \in Streams, Stopping(t)' > 0 PROVE reader'[t] \notin Reading \cup {"none"}
  <2>1. CASE t = s
    BY <1>2, <1>5, <1>6, <2>1 DEF Reading
  <2>2. CASE t # s
    BY <1>2, <1>3, <1>6, <2>2 DEF IInv, ReceiverInv
  <2> QED BY <2>1, <2>2
<1>7. ReceiverInv'
  BY <1>1, <1>2, <1>6 DEF IInv, ReceiverInv
<1>8. CreditConserved'
  <2> SUFFICES ASSUME route = "ngtcp2", NEW t \in Streams
               PROVE  sent[t] = credited[t] + Returning(t)' + Unread(t)'
    BY <1>1 DEF CreditConserved
  <2>1. Returning(t)' = Returning(t) + Nothing[t] /\ Returning(t) \in Nat /\ Nothing[t] = 0
    BY <1>1, Counts DEF Told, Nothing, IInv, Types
  <2>2. Unread(t)' = Unread(t)
    BY <1>1 DEF Unread
  <2>3. sent[t] = credited[t] + Returning(t) + Unread(t)
    BY <1>1 DEF IInv, CreditConserved
  <2> QED BY <2>1, <2>2, <2>3
<1>9. requests' \in Seq(CommandRecords)
  BY <1>1 DEF Told
<1> QED BY <1>7, <1>8, <1>9 DEF CountInv

(* What a stream received is where it should be, and the driver still       *)
(* forwards what is read.                                                   *)
LEMMA CountArrived ==
  ASSUME IInv, route = "ngtcp2", driver # "stopped", UNCHANGED <<route, requests, reader>>,
         \A x \in Streams : sent'[x] = credited'[x] + Returning(x) + Unread(x)',
         \A x \in Streams : net'[x] = "open" => net[x] = "open" /\ (x \in receivers => x \in receivers')
  PROVE  CountInv'
<1>1. \A x \in Streams : Stopping(x)' = Stopping(x) /\ Returning(x)' = Returning(x)
  BY DEF Stopping, Returning
<1>2. ReceiverInv'
  BY <1>1 DEF IInv, ReceiverInv
<1>3. CreditConserved'
  BY <1>1 DEF CreditConserved
<1> QED BY <1>2, <1>3 DEF CountInv, IInv, Types

LEMMA CountEvents ==
  ASSUME IInv, Events
  PROVE  CountInv'
<1>1. CASE ConnectionClosed
  BY <1>1, CountStopped DEF ConnectionClosed
<1>2. CASE \E s \in Streams : StreamOpened(s)
  BY <1>2, CountOpened
<1>3. ASSUME NEW s \in Uni, NEW n \in 0 .. MaxPeer, NEW fin \in BOOLEAN, StreamData(s, n, fin)
      PROVE  CountInv'
  <2>1. /\ route = "ngtcp2" /\ driver # "stopped" /\ UNCHANGED <<route, requests, reader, receivers>>
        /\ net' = [net EXCEPT ![s] = IF fin THEN "fin" ELSE @]
    BY <1>3 DEF StreamData, Event, Selecting
  <2>2. /\ s \in Streams /\ sent'[s] = sent[s] + n /\ sent[s] \in Nat /\ n \in Nat
        /\ \A x \in Streams : x # s =>
             Unread(x)' = Unread(x) /\ sent'[x] = sent[x] /\ credited'[x] = credited[x]
        /\ \/ Unread(s)' = Unread(s) + n /\ credited'[s] = credited[s]
           \/ Unread(s)' = Unread(s) /\ credited'[s] = credited[s] + n
    BY <1>3, DataStep
  <2>3. ASSUME NEW x \in Streams PROVE sent'[x] = credited'[x] + Returning(x) + Unread(x)'
    <3>1. /\ sent[x] = credited[x] + Returning(x) + Unread(x)
          /\ credited[x] \in Nat /\ Returning(x) \in Nat /\ Unread(x) \in Nat
      BY <2>1, Counts, UnreadIs DEF IInv, CreditConserved, Types, StreamTypes
    <3> QED BY <2>2, <3>1
  <2>4. \A x \in Streams : net'[x] = "open" => net[x] = "open"
    BY <2>1 DEF IInv, Types, StreamTypes
  <2> QED BY <2>1, <2>3, <2>4, CountArrived
<1>4. ASSUME NEW s \in Uni, StreamReset(s) \/ StreamClosed(s) PROVE CountInv'
  <2>1. /\ route = "ngtcp2" /\ driver # "stopped" /\ UNCHANGED <<route, requests, reader, credited>>
        /\ receivers' = receivers \ {s} /\ \E end \in {"reset", "closed"} : net' = [net EXCEPT ![s] = end]
    BY <1>4 DEF StreamReset, StreamClosed, Event, Selecting
  <2>2. \A x \in Streams : Unread(x)' = Unread(x) /\ sent'[x] = sent[x]
    <3>1. CASE StreamReset(s)
      BY <3>1, ResetStep
    <3>2. CASE StreamClosed(s)
      BY <3>2 DEF StreamClosed, Unread
    <3> QED BY <1>4, <3>1, <3>2
  <2>3. \A x \in Streams : sent'[x] = credited'[x] + Returning(x) + Unread(x)'
    BY <2>1, <2>2 DEF IInv, CreditConserved
  <2>4. \A x \in Streams : net'[x] = "open" => net[x] = "open" /\ x # s
    BY <2>1 DEF IInv, Types, StreamTypes
  <2> QED BY <2>1, <2>3, <2>4, CountArrived
<1>5. CASE (StreamStopSending \/ Datagram \/ MaxStreams) /\ NextTurn
  <2>1. /\ requests' = requests /\ driver # "stopped"
        /\ UNCHANGED <<route, receivers, net, sent, credited, chan, buffer, reader>>
    BY <1>5 DEF StreamStopSending, Datagram, MaxStreams, Event, Selecting, streams
  <2> QED BY <2>1, CountStill
<1> QED BY <1>1, <1>2, <1>3, <1>4, <1>5 DEF Events

LEMMA CountCommands ==
  ASSUME IInv, Commands
  PROVE  CountInv'
<1>1. CASE CommandClose
  BY <1>1, CountStopped DEF CommandClose
<1>2. CASE ~CommandClose
  <2> DEFINE x == Head(requests)
  <2>1. /\ route = "ngtcp2" /\ driver # "stopped" /\ requests # <<>> /\ requests' = Tail(requests)
        /\ UNCHANGED <<route, net, sent, chan, buffer, reader>>
        /\ receivers' = IF x.op = "stop" THEN receivers \ {x.id} ELSE receivers
        /\ credited' = IF x.op = "consumed" THEN [credited EXCEPT ![x.id] = @ + x.size] ELSE credited
    BY <1>2, Constants DEF Commands, CommandOpen, CommandReset, CommandDatagram, CommandConsumed, CommandStop,
       CommandDrop, CommandWrite, Command, Selecting, streams
  <2>2. /\ requests' \in Seq(CommandRecords)
        /\ \A t \in Streams :
             /\ Stopping(t) = Stopping(t)' + IF x.op = "stop" /\ x.id = t THEN 1 ELSE 0
             /\ Returning(t) = Returning(t)' + Back(x, t)
             /\ Stopping(t)' \in Nat /\ Returning(t)' \in Nat
    BY <2>1, Taking DEF IInv
  <2>3. x.op = "consumed" => x.id \in Streams /\ x.size \in Nat
    BY <2>1, GivenBack
  <2> HIDE DEF x
  <2>4. ASSUME NEW s \in Streams, net[s] = "open", reader[s] \in Reading PROVE s \in receivers'
    <3>1. s \in receivers
      BY <2>1, <2>4 DEF IInv, ReceiverInv
    <3>2. ~(Stopping(s) > 0)
      BY <2>4 DEF IInv, ReceiverInv
    <3>3. ~(x.op = "stop" /\ x.id = s)
      BY <2>2, <3>2
    <3> QED BY <2>1, <3>1, <3>3
  <2>5. \A s \in Streams : Stopping(s)' > 0 => Stopping(s) > 0
    BY <2>2
  <2>6. ReceiverInv'
    BY <2>1, <2>4, <2>5 DEF IInv, ReceiverInv
  <2>7. CreditConserved'
    <3> SUFFICES ASSUME NEW s \in Streams
                 PROVE  sent[s] = credited'[s] + Returning(s)' + Unread(s)'
      BY <2>1 DEF CreditConserved
    <3>1. Unread(s)' = Unread(s) /\ Unread(s) \in Nat
      BY <2>1, UnreadIs DEF Unread, IInv
    <3>2. sent[s] = credited[s] + Returning(s) + Unread(s) /\ credited[s] \in Nat
      BY <2>1 DEF IInv, CreditConserved, Types, StreamTypes
    <3>3. credited'[s] = credited[s] + Back(x, s) /\ Back(x, s) \in Nat
      BY <2>1, <2>3 DEF Back, IInv, Types, StreamTypes
    <3>4. Returning(s) = Returning(s)' + Back(x, s) /\ Returning(s)' \in Nat
      BY <2>2
    <3> QED BY <3>1, <3>2, <3>3, <3>4
  <2> QED BY <2>2, <2>6, <2>7 DEF CountInv
<1> QED BY <1>1, <1>2

LEMMA CountStep ==
  ASSUME IInv, [Next]_vars
  PROVE  CountInv'
<1>1. CASE AcceptUni
  <2> DEFINE s == Head(queue["uni"])
  <2>1. /\ main # "gone" /\ queue["uni"] # <<>> /\ reader' = [reader EXCEPT ![s] = "reading"]
        /\ requests' = requests
        /\ UNCHANGED <<route, receivers, net, sent, credited, chan, buffer, driver>>
    BY <1>1 DEF AcceptUni
  <2>2. s \in Streams /\ reader[s] = "queued"
    BY <2>1, Accepting
  <2> HIDE DEF s
  <2>3. \A x \in Streams : /\ reader'[x] \in Reading => reader[x] \in Reading
                           /\ reader'[x] = "none" => reader[x] = "none"
    BY <2>1, <2>2 DEF Reading, IInv, Types, StreamTypes
  <2> QED BY <2>1, <2>3, CountStill
<1>2. CASE AcceptNone \/ Abandon
  BY <1>2, CountLeaving DEF AcceptNone, Abandon
<1>3. CASE Resume
  <2>1. CASE main = "close" \/ (reply # "ok" /\ main \in {"open", "datagram"})
    BY <1>3, <2>1, CountLeaving, Constants DEF Resume
  <2>2. CASE ~(main = "close" \/ (reply # "ok" /\ main \in {"open", "datagram"}))
    <3>1. /\ UNCHANGED <<route, driver, receivers, net, sent, credited, chan, buffer, reader>>
          /\ requests' = IF out /\ ~out' THEN Sent(DropSend("out")) ELSE requests
      BY <1>3, <2>2 DEF Resume, streams
    <3>2. Told({}, Nothing)
      BY <3>1, ToldNothing, ToldQuietly, QuietDropSend DEF IInv
    <3>3. \A s \in Streams : /\ Unread(s)' = Unread(s) /\ Unread(s) \in Nat /\ Nothing[s] = 0
                             /\ Unread(s) = Unread(s)' + Nothing[s]
      BY <3>1, UnreadIs DEF Unread, Nothing, IInv
    <3> QED BY <3>1, <3>2, <3>3, CountKept
  <2> QED BY <2>1, <2>2
<1>4. CASE AcceptBidi \/ \E s \in Streams : ReaderLeaves(s)
  BY <1>4, CountReleased, Releases
<1>5. CASE \E s \in Streams : Read(s)
  BY <1>5, CountReleased, CountRead, Releases
<1>6. ASSUME NEW op \in Operations, Start(op) PROVE CountInv'
  <2>1. UNCHANGED <<route, driver, receivers, net, sent, credited, chan, buffer, reader>>
    BY <1>6 DEF Start, streams
  <2>2. requests' \in Seq(CommandRecords)
        /\ \A t \in Streams : Stopping(t)' = Stopping(t) /\ Returning(t)' = Returning(t)
    BY <1>6, AskStart
  <2>3. \A s \in Streams : Unread(s)' = Unread(s)
    BY <2>1 DEF Unread
  <2>4. ReceiverInv'
    BY <2>1, <2>2 DEF IInv, ReceiverInv
  <2>5. CreditConserved'
    BY <2>1, <2>2, <2>3 DEF IInv, CreditConserved
  <2> QED BY <2>2, <2>4, <2>5 DEF CountInv
<1>7. CASE \/ H3Deliver \/ H3Command \/ H3Ends \/ \E s \in Streams : H3Stream(s)
  <2>1. CASE Stop
    BY <2>1, CountStopped
  <2>2. CASE ~Stop
    <3>1. /\ route' # "ngtcp2"
          /\ requests' = requests \/ (requests # <<>> /\ requests' = Tail(requests))
      BY <1>7, <2>2 DEF H3Deliver, H3Command, H3Ends, H3Stream, Receive, H3, IInv, Types
    <3>2. /\ requests' \in Seq(CommandRecords)
          /\ \A s \in Streams : Stopping(s)' > 0 => Stopping(s) > 0
      <4>1. CASE requests' = requests
        BY <4>1 DEF Stopping, IInv, Types
      <4>2. CASE requests # <<>> /\ requests' = Tail(requests)
        BY <4>2, Taking DEF IInv
      <4> QED BY <3>1, <4>1, <4>2
    <3>3. \A s \in Streams : reader'[s] \in Reading \cup {"none"} => reader[s] \in Reading \cup {"none"}
      <4>1. CASE UNCHANGED reader
        BY <4>1
      <4>2. ASSUME NEW x \in Streams, H3Stream(x)
            PROVE  \A s \in Streams :
                     reader'[s] \in Reading \cup {"none"} => reader[s] \in Reading \cup {"none"}
        BY <4>2 DEF H3Stream, IInv, Types, StreamTypes, ReadInv, Exact
      <4> QED BY <1>7, <2>2, <4>1, <4>2 DEF H3Deliver, H3Command, H3Ends, streams
    <3> QED BY <3>1, <3>2, <3>3, CountH3
  <2> QED BY <2>1, <2>2
<1>8. ASSUME NEW s \in Uni, NEW n \in 0 .. MaxPeer, NEW end \in {None, "fin", "reset"}, H3Data(s, n, end)
      PROVE  CountInv'
  <2>1. route' # "ngtcp2" /\ requests' = requests /\ reader' = reader
    BY <1>8 DEF H3Data
  <2>2. requests' \in Seq(CommandRecords) /\ \A t \in Streams : Stopping(t)' = Stopping(t)
    BY <2>1 DEF Stopping, IInv, Types
  <2> QED BY <2>1, <2>2, CountH3
<1>9. CASE \/ UNCHANGED vars \/ Finished \/ RecvDatagrams \/ Timer \/ H3MaxStreams
           \/ H3Datagram \/ H3Writes \/ Drain \/ Pass
  <2>1. /\ requests' = requests /\ (driver' # "stopped" => driver # "stopped")
        /\ UNCHANGED <<route, receivers, net, sent, credited, chan, buffer, reader>>
    BY <1>9 DEF vars, Finished, RecvDatagrams, Timer, H3MaxStreams, H3Datagram, Receive, H3, H3Writes,
       Drain, Pass, streams, Selecting
  <2> QED BY <2>1, CountStill
<1>10. CASE Commands
  BY <1>10, CountCommands
<1>11. CASE Events
  BY <1>11, CountEvents
<1>12. CASE OwnerDropped
  BY <1>12, CountStopped DEF OwnerDropped
<1> QED BY <1>1, <1>2, <1>3, <1>4, <1>5, <1>6, <1>7, <1>8, <1>9, <1>10, <1>11, <1>12
     DEF Next, Session, Readers, H3Events, Turns

-----------------------------------------------------------------------------
(* Types.                                                                   *)

(* What of the types no other part of the invariant is about.               *)
Shapes ==
  /\ route \in {"wt_h3", "ngtcp2"} /\ main \in {"serving", "gone"} \cup Operations
  /\ reply \in {None, "ok", "failed", "stopped"}
  /\ driver \in {"pass", "select", "handing", "stopped"} /\ opens \in Nat
Flags == writes \in BOOLEAN /\ backlog \in BOOLEAN
Carries ==
  Handing => /\ route = "wt_h3" /\ handing \in [kind : Kinds, item : Things]
             /\ handing.kind = "datagram" => handing.item \in Nat
             /\ handing.kind # "datagram" =>
                  /\ handing.item \in Streams /\ KindOf(handing.item) = handing.kind
                  /\ net[handing.item] # "unseen"
Queues ==
  /\ queue \in [Kinds -> Seq(Things)] /\ arrived \in [Kinds -> Seq(Things)]
  /\ taken \in [Kinds -> Seq(Things)]

LEMMA TypesAre ==
  Types <=> /\ Shapes /\ Flags /\ Carries /\ Queues /\ StreamTypes
            /\ requests \in Seq(CommandRecords)
BY DEF Types, Shapes, Flags, Carries, Queues

LEMMA ShapesStep ==
  ASSUME IInv, [Next]_vars
  PROVE  Shapes'
<1>0. Shapes
  BY TypesAre DEF IInv
<1> USE DEF Shapes
<1>1. CASE Session \/ Abandon
  <2>1. CASE Leave
    BY <1>0, <1>1, <2>1 DEF Session, AcceptUni, AcceptBidi, RecvDatagrams, AcceptNone, Resume, Abandon,
       Leave, app, sending
  <2>2. CASE ~Leave
    BY <1>0, <1>1, <2>2 DEF Session, AcceptUni, AcceptBidi, RecvDatagrams, AcceptNone, Resume, Abandon,
       app, sending
  <2> QED BY <2>1, <2>2
<1>2. ASSUME NEW op \in Operations, Start(op) PROVE Shapes'
  BY <1>0, <1>2 DEF Start
<1>3. ASSUME NEW s \in Streams, Readers(s) PROVE Shapes'
  BY <1>0, <1>3 DEF Readers, Read, ReaderLeaves, app, sending
<1>4. CASE H3Events
  <2>1. UNCHANGED <<route, main, reply>> /\ (opens' = opens \/ opens' = 0)
    BY <1>4 DEF H3Events, H3Stream, H3Datagram, H3MaxStreams, H3Ends, H3Data, Receive, Stop, app, sending
  <2>2. driver' \in {driver, "handing", "stopped"}
    BY <1>4 DEF H3Events, H3Stream, H3Datagram, H3MaxStreams, H3Ends, H3Data, Receive, Stop
  <2> QED BY <1>0, <2>1, <2>2
<1>5. CASE H3Deliver \/ H3Command \/ H3Writes
  <2>1. CASE H3Deliver \/ H3Writes
    <3>1. UNCHANGED <<route, main>> /\ (opens' = opens \/ opens' = 0)
      BY <2>1 DEF H3Deliver, H3Writes, Stop, app, sending
    <3>2. reply' \in {reply, "ok", "failed"} /\ driver' \in {driver, "select", "stopped"}
      BY <2>1 DEF H3Deliver, H3Writes, Stop, app
    <3> QED BY <1>0, <3>1, <3>2
  <2>2. CASE H3Command
    <3>1. route' = route /\ main' = main /\ (opens' = opens \/ opens' = 0)
          /\ (driver' = driver \/ driver' = "stopped")
      BY <2>2 DEF H3Command, Stop
    <3>2. reply' \in {"ok", "failed"}
      BY <2>2 DEF H3Command
    <3> QED BY <1>0, <3>1, <3>2
  <2> QED BY <1>5, <2>1, <2>2
<1>6. CASE Pass \/ Timer \/ OwnerDropped \/ Drain
  BY <1>0, <1>6 DEF Pass, Timer, OwnerDropped, Drain, Stop, app, sending
<1>7. CASE Commands
  BY <1>0, <1>7 DEF Commands, CommandOpen, CommandWrite, CommandReset, CommandDatagram, CommandConsumed,
     CommandStop, CommandDrop, CommandClose, NextTurn, Answer, Stop, app, sending
<1>8. CASE Events
  <2>1. UNCHANGED <<route, main>> /\ (opens' = opens \/ opens' = 0)
    BY <1>8 DEF Events, ConnectionClosed, StreamOpened, StreamReset, StreamClosed, StreamData,
       StreamStopSending, Datagram, MaxStreams, Stop, app, sending
  <2>2. reply' \in {reply, "stopped"}
    BY <1>8 DEF Events, ConnectionClosed, StreamOpened, StreamReset, StreamClosed, StreamData,
       StreamStopSending, Datagram, MaxStreams, app
  <2>3. driver' \in {"pass", "select", "stopped"}
    BY <1>8 DEF Events, ConnectionClosed, NextTurn, Stop
  <2> QED BY <1>0, <2>1, <2>2, <2>3
<1>9. CASE Finished \/ UNCHANGED vars
  BY <1>0, <1>9 DEF Finished, vars, app, sending
<1> HIDE DEF Shapes
<1> QED BY <1>1, <1>2, <1>3, <1>4, <1>5, <1>6, <1>7, <1>8, <1>9 DEF Next, Turns

LEMMA FlagsStep ==
  ASSUME IInv, [Next]_vars
  PROVE  Flags'
<1>0. Flags
  BY TypesAre DEF IInv
<1> USE DEF Flags
<1>1. CASE Session \/ Abandon
  <2>1. CASE Leave
    BY ZenonT(30), <1>0, <1>1, <2>1 DEF Session, AcceptUni, AcceptBidi, RecvDatagrams, AcceptNone, Resume, Abandon,
       Leave, app, sending
  <2>2. CASE ~Leave
    BY ZenonT(30), <1>0, <1>1, <2>2 DEF Session, AcceptUni, AcceptBidi, RecvDatagrams, AcceptNone, Resume, Abandon,
       app, sending
  <2> QED BY <2>1, <2>2
<1>2. ASSUME NEW op \in Operations, Start(op) PROVE Flags'
  BY ZenonT(30), <1>0, <1>2 DEF Start
<1>3. ASSUME NEW s \in Streams, Readers(s) PROVE Flags'
  BY ZenonT(30), <1>0, <1>3 DEF Readers, Read, ReaderLeaves, app, sending
<1>4. CASE H3Events
  BY ZenonT(30), <1>0, <1>4 DEF H3Events, H3Stream, H3Datagram, H3MaxStreams, H3Ends, H3Data, Receive, Stop, app,
     sending
<1>5. CASE H3Deliver \/ H3Command \/ H3Writes
  BY ZenonT(30), <1>0, <1>5 DEF H3Deliver, H3Command, H3Writes, Stop, app, sending
<1>6. CASE Pass \/ Timer \/ OwnerDropped \/ Drain
  BY ZenonT(30), <1>0, <1>6 DEF Pass, Timer, OwnerDropped, Drain, Stop, app, sending
<1>7. CASE Commands
  BY ZenonT(30), <1>0, <1>7 DEF Commands, CommandOpen, CommandWrite, CommandReset, CommandDatagram, CommandConsumed,
     CommandStop, CommandDrop, CommandClose, NextTurn, Answer, Stop, app, sending
<1>8. CASE Events
  BY ZenonT(30), <1>0, <1>8 DEF Events, ConnectionClosed, StreamOpened, StreamReset, StreamClosed, StreamData,
     StreamStopSending, Datagram, MaxStreams, NextTurn, Stop, app, sending
<1>9. CASE Finished \/ UNCHANGED vars
  BY ZenonT(30), <1>0, <1>9 DEF Finished, vars, app, sending
<1> QED BY <1>1, <1>2, <1>3, <1>4, <1>5, <1>6, <1>7, <1>8, <1>9 DEF Next, Turns

(* Streams are seen once and for all.                                       *)
LEMMA CarriesStep ==
  ASSUME IInv, [Next]_vars
  PROVE  Carries'
<1>1. Carries /\ StreamTypes
  BY TypesAre DEF IInv
<1>2. ASSUME Handing' => Handing /\ handing' = handing, UNCHANGED <<route, net>>
      PROVE  Carries'
  BY <1>1, <1>2 DEF Carries
<1>3. ASSUME ~Handing'
      PROVE  Carries'
  BY <1>3 DEF Carries
<1>4. ASSUME NEW s \in Streams, H3Stream(s) PROVE Carries'
  <2>1. /\ route = "wt_h3" /\ route' = route /\ handing' = [kind |-> KindOf(s), item |-> s]
        /\ net' = [net EXCEPT ![s] = "open"]
    BY <1>4 DEF H3Stream, Receive, H3
  <2>2. KindOf(s) \in Kinds /\ KindOf(s) # "datagram" /\ s \in Things
    BY DEF KindOf, Kinds, Things
  <2>3. net'[s] # "unseen"
    BY <1>1, <2>1 DEF StreamTypes
  <2> QED BY <2>1, <2>2, <2>3 DEF Carries
<1>5. CASE H3Datagram
  <2> DEFINE x == Len(arrived["datagram"]) + 1
  <2>1. "datagram" \in Kinds /\ arrived["datagram"] \in Seq(Things)
    BY FlowTypes DEF Kinds
  <2>2. x \in Things /\ x \in Nat
    BY <2>1, LenProperties DEF Things
  <2>3. route = "wt_h3" /\ route' = route /\ handing' = [kind |-> "datagram", item |-> x]
    BY <1>5 DEF H3Datagram, Receive, H3
  <2> HIDE DEF x
  <2> QED BY <2>1, <2>2, <2>3 DEF Carries
<1>6. ASSUME NEW s \in Uni, NEW n \in 0 .. MaxPeer, NEW end \in {None, "fin", "reset"}, H3Data(s, n, end)
      PROVE  Carries'
  <2>1. /\ UNCHANGED <<route, driver, handing>> /\ s \in Streams /\ net[s] = "open"
        /\ net' = [net EXCEPT ![s] = IF end = None THEN @ ELSE end]
    BY <1>6, Constants DEF H3Data
  <2>2. ASSUME NEW x \in Streams, net[x] # "unseen" PROVE net'[x] # "unseen"
    <3>1. "unseen" # end \/ end = None
      OBVIOUS
    <3> QED BY <1>1, <2>1, <2>2, <3>1 DEF StreamTypes
  <2>3. Handing' <=> Handing
    BY <2>1 DEF Handing
  <2> QED BY <1>1, <2>1, <2>2, <2>3 DEF Carries
<1>7. CASE Session \/ Abandon \/ (\E op \in Operations : Start(op)) \/ (\E s \in Streams : Readers(s))
           \/ H3Writes \/ Drain \/ Finished \/ UNCHANGED vars
  <2>1. CASE Leave
    BY <1>2, <1>7, <2>1 DEF Leave, Handing, Session, AcceptUni, AcceptBidi, RecvDatagrams, AcceptNone,
       Resume, Abandon, Start, Readers, Read, ReaderLeaves, H3Writes, Drain, Finished, vars, streams
  <2>2. CASE ~Leave
    BY <1>2, <1>7, <2>2 DEF Handing, Session, AcceptUni, AcceptBidi, RecvDatagrams, AcceptNone,
       Resume, Abandon, Start, Readers, Read, ReaderLeaves, H3Writes, Drain, Finished, vars, streams
  <2> QED BY <2>1, <2>2
<1>8. CASE H3MaxStreams \/ H3Ends \/ H3Deliver \/ H3Command
  BY <1>3, <1>8 DEF H3MaxStreams, H3Ends, H3Deliver, H3Command, H3, Stop, Handing
<1>9. CASE Pass \/ Timer \/ OwnerDropped
  BY <1>3, <1>9 DEF Pass, Timer, OwnerDropped, Stop, Handing
<1>10. CASE Commands \/ Events
  BY <1>3, <1>10 DEF Commands, Events, CommandClose, ConnectionClosed, NextTurn, Stop, Handing
<1> QED BY <1>4, <1>5, <1>6, <1>7, <1>8, <1>9, <1>10 DEF Next, H3Events, Turns

LEMMA QueuesStep ==
  ASSUME IInv, [Next]_vars
  PROVE  Queues'
<1>1. Queues
  BY TypesAre DEF IInv
<1>2. Streams \subseteq Things /\ <<>> \in Seq(Things)
  BY EmptySeq DEF Things
<1>3. ASSUME NEW k \in Kinds, NEW c \in Seq(Things)
      PROVE  /\ [queue EXCEPT ![k] = c] \in [Kinds -> Seq(Things)]
             /\ [arrived EXCEPT ![k] = c] \in [Kinds -> Seq(Things)]
             /\ [taken EXCEPT ![k] = c] \in [Kinds -> Seq(Things)]
  BY <1>1 DEF Queues
<1>4. ASSUME NEW k \in Kinds, NEW x \in Things
      PROVE  /\ Append(queue[k], x) \in Seq(Things) /\ Append(arrived[k], x) \in Seq(Things)
             /\ Append(taken[k], x) \in Seq(Things)
  <2>1. queue[k] \in Seq(Things) /\ arrived[k] \in Seq(Things) /\ taken[k] \in Seq(Things)
    BY <1>1 DEF Queues
  <2> QED BY <2>1, AppendProperties
<1>5. ASSUME UNCHANGED <<queue, arrived, taken>> PROVE Queues'
  BY <1>1, <1>5 DEF Queues
<1>6. ASSUME NEW k \in {"uni", "bidi"}, main # "gone", queue[k] # <<>>, UNCHANGED arrived,
             queue' = [queue EXCEPT ![k] = Tail(@)],
             taken' = [taken EXCEPT ![k] = Append(@, Head(queue[k]))]
      PROVE  Queues'
  <2>1. Head(queue[k]) \in Things /\ Tail(queue[k]) \in Seq(Things) /\ k \in Kinds
    BY <1>2, <1>6, Accepting DEF Kinds
  <2>2. Append(taken[k], Head(queue[k])) \in Seq(Things)
    BY <1>4, <2>1
  <2> QED BY <1>1, <1>3, <1>6, <2>1, <2>2 DEF Queues
<1>7. CASE AcceptUni
  BY <1>6, <1>7 DEF AcceptUni
<1>8. CASE AcceptBidi
  BY <1>6, <1>8 DEF AcceptBidi
<1>9. CASE RecvDatagrams
  <2>1. /\ queue' = [queue EXCEPT !["datagram"] = <<>>] /\ arrived' = arrived
        /\ taken' = [taken EXCEPT !["datagram"] = @ \o queue["datagram"]]
    BY <1>9 DEF RecvDatagrams
  <2>2. "datagram" \in Kinds
    BY DEF Kinds
  <2>3. taken["datagram"] \o queue["datagram"] \in Seq(Things)
    <3>1. taken["datagram"] \in Seq(Things) /\ queue["datagram"] \in Seq(Things)
      BY <1>1, <2>2 DEF Queues
    <3> QED BY <3>1, ConcatProperties
  <2> QED BY <1>1, <1>2, <1>3, <2>1, <2>2, <2>3 DEF Queues
<1>10. CASE Leave
  BY <1>1, <1>2, <1>10 DEF Leave, Queues, flow
<1>11. ASSUME NEW k \in Kinds, NEW x \in Things, arrived' = [arrived EXCEPT ![k] = Append(@, x)],
              queue' \in {queue, [queue EXCEPT ![k] = Append(@, x)]}, taken' = taken
       PROVE  Queues'
  <2>1. Append(arrived[k], x) \in Seq(Things) /\ Append(queue[k], x) \in Seq(Things)
    BY <1>4
  <2> QED BY ZenonT(30), <1>1, <1>3, <1>11, <2>1 DEF Queues
<1>12. ASSUME NEW s \in Streams, H3Stream(s) \/ StreamOpened(s) PROVE Queues'
  <2>1. s \in Things /\ KindOf(s) \in Kinds
    BY <1>2 DEF KindOf, Kinds
  <2>2. /\ arrived' = [arrived EXCEPT ![KindOf(s)] = Append(@, s)] /\ taken' = taken
        /\ queue' \in {queue, [queue EXCEPT ![KindOf(s)] = Append(@, s)]}
    BY <1>12 DEF H3Stream, StreamOpened, Receive
  <2> QED BY <1>11, <2>1, <2>2
<1>13. CASE H3Datagram \/ Datagram
  <2> DEFINE x == Len(arrived["datagram"]) + 1
  <2>1. "datagram" \in Kinds /\ arrived["datagram"] \in Seq(Things)
    BY FlowTypes DEF Kinds
  <2>2. x \in Things
    BY <2>1, LenProperties DEF Things
  <2>3. /\ arrived' = [arrived EXCEPT !["datagram"] = Append(@, x)] /\ taken' = taken
        /\ queue' \in {queue, [queue EXCEPT !["datagram"] = Append(@, x)]}
    BY <1>13 DEF H3Datagram, Datagram, Receive
  <2> HIDE DEF x
  <2> QED BY <1>11, <2>1, <2>2, <2>3
<1>14. CASE H3Deliver
  <2>1. UNCHANGED <<arrived, taken>> /\ Handing
        /\ queue' \in {queue, [queue EXCEPT ![handing.kind] = Append(@, handing.item)]}
    BY <1>14 DEF H3Deliver, HandOver, flow
  <2>2. handing.kind \in Kinds /\ handing.item \in Things
    BY <2>1, TypesAre DEF IInv, Carries
  <2>3. Append(queue[handing.kind], handing.item) \in Seq(Things)
    BY <1>4, <2>2
  <2>4. [queue EXCEPT ![handing.kind] = Append(@, handing.item)] \in [Kinds -> Seq(Things)]
    BY <1>3, <2>2, <2>3
  <2> QED BY <1>1, <2>1, <2>4 DEF Queues
<1>15. CASE Resume /\ ~Leave
  BY <1>5, <1>15 DEF Resume, flow
<1>16. CASE (\E op \in Operations : Start(op)) \/ (\E s \in Streams : Readers(s))
            \/ H3Writes \/ Drain \/ Finished \/ UNCHANGED vars
            \/ H3MaxStreams \/ H3Ends \/ H3Command \/ Pass \/ Timer \/ OwnerDropped \/ Commands
  BY <1>5, <1>16 DEF Start, Readers, Read, ReaderLeaves, H3Writes, Drain, Finished, vars, H3MaxStreams,
     H3Ends, H3Command, Pass, Timer, OwnerDropped, Commands, CommandOpen, CommandWrite, CommandReset,
     CommandDatagram, CommandConsumed, CommandStop, CommandDrop, CommandClose, flow
<1>17. ASSUME NEW s \in Uni, NEW n \in 0 .. MaxPeer, NEW end \in {None, "fin", "reset"}, H3Data(s, n, end)
       PROVE  Queues'
  BY <1>5, <1>17 DEF H3Data, flow
<1>18. CASE \/ ConnectionClosed \/ StreamStopSending \/ MaxStreams
            \/ \E s \in Uni : StreamReset(s) \/ StreamClosed(s)
            \/ \E s \in Uni, n \in 0 .. MaxPeer, fin \in BOOLEAN : StreamData(s, n, fin)
  BY <1>5, <1>18 DEF ConnectionClosed, StreamReset, StreamClosed, StreamData, StreamStopSending,
     MaxStreams, flow
<1>19. CASE AcceptNone \/ Abandon
  BY <1>10, <1>19 DEF AcceptNone, Abandon
<1> QED BY <1>7, <1>8, <1>9, <1>10, <1>12, <1>13, <1>14, <1>15, <1>16, <1>17, <1>18, <1>19
     DEF Next, Session, H3Events, Turns, Events

-----------------------------------------------------------------------------
(* The invariant holds in every state.                                      *)

LEMMA InitInv == Init => IInv
<1> SUFFICES ASSUME Init PROVE IInv
  OBVIOUS
<1>1. /\ route \in {"wt_h3", "ngtcp2"} /\ main = "serving" /\ reply = None /\ driver = "select"
      /\ requests = <<>> /\ queue = [k \in Kinds |-> <<>>] /\ opens = 0 /\ writes = FALSE
      /\ backlog = FALSE /\ net = [s \in Streams |-> "unseen"] /\ sent = [s \in Streams |-> 0]
      /\ chan = [s \in Streams |-> <<>>] /\ buffer = [s \in Streams |-> Empty]
      /\ reader = [s \in Streams |-> "none"] /\ credited = [s \in Streams |-> 0]
      /\ got = [s \in Streams |-> <<>>] /\ arrived = [k \in Kinds |-> <<>>]
      /\ taken = [k \in Kinds |-> <<>>]
  BY TransportAssumption DEF Init
<1>2. Empty \in Chunks /\ Empty.size = 0 /\ \A S : <<>> \in Seq(S)
  BY EmptySeq DEF Empty, Chunk, Chunks
<1>3. \A w : Tally(w, <<>>) = 0
  BY TallyOfEmpty
<1>4. \A op \in Operations : Pending(op) = 0
  BY <1>1, <1>3 DEF Pending
<1>5. ASSUME NEW s \in Streams PROVE Stopping(s) = 0 /\ Returning(s) = 0 /\ Unread(s) = 0
  <2>1. Stopping(s) = 0
    BY <1>1, <1>3 DEF Stopping
  <2>2. chan[s] = <<>> /\ buffer[s] = Empty
    BY <1>1
  <2>3. requests \in Seq(CommandRecords) /\ chan[s] \in Seq(Chunks)
    BY <1>1, <1>2, <2>2
  <2>4. Returning(s) = 0
    BY <1>1, <1>3, <2>3, Counts
  <2>5. Total([i \in 1..Len(chan[s]) |-> chan[s][i].size]) = Tally(SizeWeight, chan[s])
    BY <2>3, SizesAreTally
  <2>6. Unread(s) = 0
    BY <1>2, <1>3, <2>2, <2>5 DEF Unread
  <2> QED BY <2>1, <2>4, <2>6
<1>6. Types
  <2>1. Shapes /\ Flags
    BY <1>1 DEF Shapes, Flags
  <2>2. Carries
    BY <1>1 DEF Carries, Handing
  <2>3. Queues
    BY <1>1, <1>2 DEF Queues
  <2>4. StreamTypes
    BY <1>1, <1>2 DEF StreamTypes
  <2> QED BY <1>1, <1>2, <2>1, <2>2, <2>3, <2>4, TypesAre
<1>7. AskInv
  BY <1>1, <1>4 DEF AskInv
<1>8. "uni" \in Kinds /\ "bidi" \in Kinds /\ Len(<<>>) = 0
  BY DEF Kinds
<1>9. QueueInv
  <2>1. LinedUp(<<>>, "uni", reader) /\ LinedUp(<<>>, "bidi", reader)
    BY <1>8 DEF LinedUp
  <2> QED BY <1>1, <1>8, <2>1 DEF QueueInv, Lined, Handing
<1>10. NothingLost
  <2>1. (<<>> \o <<>>) \o <<>> = <<>>
    BY <1>2, ConcatEmptySeq
  <2> QED BY <1>1, <2>1 DEF NothingLost, Handing
<1>11. ReadInv
  <2>1. ASSUME NEW s \in Streams PROVE Exact(s)
    BY <1>1, <1>2, <1>8 DEF Exact, Reading
  <2> QED BY <2>1 DEF ReadInv
<1>12. ReceiverInv
  BY <1>1, <1>5 DEF ReceiverInv
<1>13. CreditConserved
  BY <1>1, <1>5 DEF CreditConserved
<1>14. AckedIsSent
  BY <1>1 DEF AckedIsSent, Operations
<1> QED BY <1>6, <1>7, <1>9, <1>10, <1>11, <1>12, <1>13, <1>14 DEF IInv

LEMMA NextInv == IInv /\ [Next]_vars => IInv'
<1> SUFFICES ASSUME IInv, [Next]_vars PROVE IInv'
  OBVIOUS
<1>1. AskInv' /\ AckedIsSent'
  BY AskStep
<1>2. QueueInv' /\ NothingLost'
  BY FlowStep DEF FlowInv
<1>3. StreamTypes' /\ ReadInv'
  BY StreamStep DEF StreamInv
<1>4. (requests \in Seq(CommandRecords))' /\ ReceiverInv' /\ CreditConserved'
  BY CountStep DEF CountInv
<1>5. Shapes' /\ Flags' /\ Carries' /\ Queues'
  BY ShapesStep, FlagsStep, CarriesStep, QueuesStep
<1>6. Types'
  BY <1>3, <1>4, <1>5 DEF Types, Shapes, Flags, Carries, Queues
<1> QED BY <1>1, <1>2, <1>3, <1>4, <1>6 DEF IInv

LEMMA Invariance == Spec => []IInv
BY InitInv, NextInv, PTL DEF Spec

LEMMA InvImplies == IInv => ArrivesExactly /\ CreditConserved /\ AckedIsSent
<1> SUFFICES ASSUME IInv PROVE ArrivesExactly /\ CreditConserved /\ AckedIsSent
  OBVIOUS
<1>1. NothingLost /\ CreditConserved /\ AckedIsSent
  BY DEF IInv
<1>2. ASSUME NEW s \in Streams
      PROVE  /\ got[s] = [i \in 1..Len(got[s]) |-> i]
             /\ reader[s] = "fin" => Len(got[s]) = sent[s] /\ net[s] \in {"fin", "closed"}
  <2> DEFINE g == got[s]
  <2>1. g \in Seq(Nat) /\ \A i \in 1..Len(g) : g[i] = i
    BY DEF IInv, Types, StreamTypes, ReadInv, Exact
  <2>2. reader[s] = "fin" => Len(g) = sent[s] /\ net[s] \in {"fin", "closed"}
    BY DEF IInv, ReadInv, Exact
  <2> HIDE DEF g
  <2>3. DOMAIN g = 1..Len(g) /\ g \in [1..Len(g) -> Nat]
    BY <2>1, LenProperties
  <2>4. g = [i \in 1..Len(g) |-> i]
    BY <2>1, <2>3
  <2> QED BY <2>2, <2>4 DEF g
<1>3. ReadsAreExact
  BY <1>2 DEF ReadsAreExact
<1> QED BY <1>1, <1>3 DEF ArrivesExactly

(* What the peer sends reaches the session once, in order and complete.     *)
THEOREM StreamsArriveExactly == Spec => []ArrivesExactly
BY Invariance, InvImplies, PTL

(* Every byte received is unread, on its way back or credited, once.        *)
THEOREM EveryByteIsCredited == Spec => []CreditConserved
BY Invariance, InvImplies, PTL

(* What the session is told was written has left.                           *)
THEOREM AcknowledgedIsSent == Spec => []AckedIsSent
BY Invariance, InvImplies, PTL

-----------------------------------------------------------------------------
(* Connections: what a name resolves to and the state built from it.        *)

(* What a name resolves to is a sequence of one to MaxAddrs addresses.      *)
LEMMA ResolutionShape ==
  ASSUME NEW a \in Resolutions
  PROVE  a \in Seq(Families) /\ Len(a) \in 1 .. MaxAddrs /\ DOMAIN a = 1 .. Len(a)
<1>1. PICK n \in 1 .. MaxAddrs : a \in [1 .. n -> Families]
  BY DEF Resolutions
<1>2. n \in Nat /\ MaxAddrs \in Nat
  BY ConnectAssumption
<1>3. a \in Seq(Families)
  BY <1>1, <1>2, SeqDef
<1>4. Len(a) = n
  BY <1>1, <1>2, <1>3, LenProperties
<1> QED BY <1>1, <1>3, <1>4

LEMMA StateShape ==
  ASSUME NEW s, s \in Complete
  PROVE  /\ s # Missing /\ s.addrs \in Resolutions /\ s.addrs \in Seq(Families)
         /\ Len(s.addrs) \in 1 .. MaxAddrs /\ DOMAIN s.addrs = 1 .. Len(s.addrs)
         /\ \A j \in 1 .. Len(s.addrs) : s.addrs[j] \in s.clients
<1>1. s \in States /\ s.clients = {s.addrs[i] : i \in DOMAIN s.addrs}
  BY DEF Complete
<1>2. s.addrs \in Resolutions /\ s # Missing
  BY <1>1, MissingAssumption DEF States
<1>3. s.addrs \in Seq(Families) /\ Len(s.addrs) \in 1 .. MaxAddrs
      /\ DOMAIN s.addrs = 1 .. Len(s.addrs)
  BY <1>2, ResolutionShape
<1> QED BY <1>1, <1>2, <1>3

(* In a complete state no candidate is passed over.                         *)
LEMMA NextIs ==
  ASSUME NEW s, s \in Complete, NEW i \in 1 .. (Len(s.addrs) + 1)
  PROVE  NextCandidate(s, i) = i
<1> DEFINE n == Len(s.addrs)
           S == {j \in i .. n : s.addrs[j] \in s.clients} \cup {n + 1}
<1>1. n \in Nat /\ i \in Nat /\ \A j \in 1 .. n : s.addrs[j] \in s.clients
  BY StateShape, ConnectAssumption
<1>2. i \in S
  BY <1>1
<1>3. \A j \in S : j \in Nat /\ i <= j
  BY <1>1
<1> HIDE DEF S
<1>4. \A x \in S : (\A y \in S : x <= y) => x = i
  BY <1>1, <1>2, <1>3
<1>5. (CHOOSE x \in S : \A y \in S : x =< y) = i
  BY <1>2, <1>3, <1>4
<1> QED BY <1>5 DEF NextCandidate, Min, S

(* Dialling goes to the next candidate, or ends the call behind the last.   *)
LEMMA DialFacts ==
  ASSUME NEW s, s \in Complete, NEW i \in 1 .. (Len(s.addrs) + 1), NEW c \in Clients,
         Dial(c, s, NextCandidate(s, i))
  PROVE  /\ index' = [index EXCEPT ![c] = i]
         /\ i = Len(s.addrs) + 1 => pc' = [pc EXCEPT ![c] = "failed"] /\ left' = left
         /\ i # Len(s.addrs) + 1 => /\ pc' = [pc EXCEPT ![c] = "dialing"]
                                    /\ left' = [left EXCEPT ![c] = TimeoutOf(s, i)]
<1>1. NextCandidate(s, i) = i
  BY NextIs
<1>2. Len(s.addrs) \in Nat
  BY StateShape
<1> QED BY <1>1, <1>2 DEF Dial, Goto

(* A state just built is complete.                                          *)
LEMMA BuiltComplete ==
  ASSUME TypeOK, NEW c \in Clients, NEW a \in Resolutions
  PROVE  EndpointState(c, a) \in Complete /\ EndpointState(c, a).addrs = a
<1>1. a \in Seq(Families) /\ DOMAIN a = 1 .. Len(a)
  BY ResolutionShape
<1>2. {a[i] : i \in DOMAIN a} \in SUBSET Families
  BY <1>1
<1>3. connects[c] \in 0 .. MaxConnects
  BY DEF TypeOK
<1> QED BY <1>2, <1>3 DEF EndpointState, Complete, States

(* The products of the time bounds.                                         *)
LEMMA Products ==
  ASSUME NEW n \in Nat, NEW i \in 1 .. n
  PROVE  /\ (i - 1) * AttemptTimeout \in Nat /\ i * AttemptTimeout \in Nat
         /\ (n - 1) * AttemptTimeout \in Nat
         /\ (i - 1) * AttemptTimeout + AttemptTimeout = i * AttemptTimeout
         /\ i < n => i * AttemptTimeout <= (n - 1) * AttemptTimeout
         /\ 0 * AttemptTimeout = 0
<1>1. AttemptTimeout \in Nat
  BY ConnectAssumption
<1>2. \A j \in Nat : j * AttemptTimeout \in Nat
  BY <1>1
<1>3. i - 1 \in Nat /\ n - 1 \in Nat /\ i \in Nat
  OBVIOUS
<1>4. (i - 1) * AttemptTimeout + AttemptTimeout = i * AttemptTimeout
  BY <1>1, <1>3
<1>5. ASSUME i < n PROVE i * AttemptTimeout <= (n - 1) * AttemptTimeout
  <2>1. (n - 1) - i \in Nat
    BY <1>5
  <2>2. (n - 1) * AttemptTimeout = i * AttemptTimeout + ((n - 1) - i) * AttemptTimeout
    BY <1>1, <1>3, <2>1
  <2>3. ((n - 1) - i) * AttemptTimeout \in Nat
    BY <1>2, <2>1
  <2>4. i * AttemptTimeout \in Nat
    BY <1>2, <1>3
  <2> QED BY <2>2, <2>3, <2>4
<1>6. 0 * AttemptTimeout = 0
  BY <1>1
<1> QED BY <1>2, <1>3, <1>4, <1>5, <1>6

-----------------------------------------------------------------------------
(* The steps.                                                               *)

(* What a step of another client leaves as it was for d.                    *)
Same(d) ==
  /\ pc'[d] = pc[d] /\ target'[d] = target[d] /\ resolved'[d] = resolved[d] /\ index'[d] = index[d]
  /\ left'[d] = left[d] /\ elapsed'[d] = elapsed[d] /\ tried'[d] = tried[d]

ClientInv(c) == HoldsLock(c) /\ UsesCached(c) /\ InOrder(c) /\ InTime(c)

(* A client is not disturbed by what the others do: the mutex passes        *)
(* between others only, and an endpoint that is cached stays cached.        *)
LEMMA Undisturbed ==
  ASSUME ConnectInv, NEW d \in Clients, Same(d),
         (lock' = d) <=> (lock = d),
         \A k \in Hosts : endpoints[k] # Missing => endpoints'[k] = endpoints[k]
  PROVE  ClientInv(d)'
<1>1. HoldsLock(d)'
  BY DEF ConnectInv, HoldsLock, Same
<1>2. UsesCached(d)'
  <2>1. target[d].host \in Hosts
    BY DEF ConnectInv, TypeOK, Endpoints
  <2> QED BY <2>1 DEF ConnectInv, UsesCached, Same
<1>3. InOrder(d)'
  BY DEF ConnectInv, InOrder, Same
<1>4. InTime(d)'
  BY DEF ConnectInv, InTime, TimeoutOf, Same
<1> QED BY <1>1, <1>2, <1>3, <1>4 DEF ClientInv

(* The invariant after a step of c that only moves c.                       *)
LEMMA OneMoves ==
  ASSUME ConnectInv, TypeOK', CacheInv', NEW c \in Clients, ClientInv(c)',
         \A d \in Clients \ {c} : Same(d) /\ ((lock' = d) <=> (lock = d)),
         \A k \in Hosts : endpoints[k] # Missing => endpoints'[k] = endpoints[k]
  PROVE  ConnectInv'
<1>1. ASSUME NEW d \in Clients PROVE ClientInv(d)'
  BY Undisturbed
<1> QED BY <1>1 DEF ConnectInv, ClientInv

LEMMA ConnectInitInv == ConnectInit => ConnectInv
<1> SUFFICES ASSUME ConnectInit PROVE ConnectInv
  OBVIOUS
<1>1. PICK a \in Resolutions :
        endpoints = [k \in Hosts \cup {Missing} |->
                      IF k = Home THEN [by |-> <<Missing, 0>>, addrs |-> a,
                                        clients |-> {a[i] : i \in DOMAIN a}]
                      ELSE Missing]
  BY DEF ConnectInit
<1>2. [by |-> <<Missing, 0>>, addrs |-> a, clients |-> {a[i] : i \in DOMAIN a}] \in Complete
  <2>1. a \in Seq(Families) /\ DOMAIN a = 1 .. Len(a)
    BY ResolutionShape
  <2>2. {a[i] : i \in DOMAIN a} \in SUBSET Families
    BY <2>1
  <2>3. <<Missing, 0>> \in (Clients \cup {Missing}) \X (0 .. MaxConnects)
    BY ConnectAssumption
  <2> QED BY <2>2, <2>3 DEF Complete, States
<1>3. endpoints \in [Hosts \cup {Missing} -> States \cup {Missing}] /\ CacheInv
  BY <1>1, <1>2 DEF CacheInv, Complete
<1>4. TypeOK
  <2>1. {[host |-> Home, uppercase |-> FALSE, path |-> p] : p \in Paths} \subseteq Endpoints
    <3>1. ASSUME NEW p \in Paths
          PROVE  [host |-> Home, uppercase |-> FALSE, path |-> p] \in Endpoints
      BY ConnectAssumption, Zenon DEF Endpoints, ConnectAssumption
    <3> QED BY <3>1
  <2>2. target \in [Clients -> Endpoints]
    BY <2>1 DEF ConnectInit
  <2>3. 0 \in 0 .. MaxAddrs + 1 /\ 0 \in 0 .. MaxConnects
    BY ConnectAssumption
  <2>4. lock = Missing /\ pc = [c \in Clients |-> "idle"] /\ resolved = [c \in Clients |-> Missing]
    BY DEF ConnectInit
  <2>5. /\ index \in [Clients -> 0 .. MaxAddrs + 1] /\ left \in [Clients -> Nat]
        /\ connects \in [Clients -> 0 .. MaxConnects] /\ elapsed \in [Clients -> Nat]
        /\ tried \in [Clients -> SUBSET (1 .. MaxAddrs)]
    BY <2>3 DEF ConnectInit
  <2> QED BY <1>3, <2>2, <2>4, <2>5 DEF TypeOK
<1>5. ASSUME NEW c \in Clients PROVE HoldsLock(c) /\ UsesCached(c) /\ InOrder(c) /\ InTime(c)
  BY ConnectAssumption DEF ConnectInit, HoldsLock, UsesCached, InOrder, InTime
<1> QED BY <1>3, <1>4, <1>5 DEF ConnectInv

LEMMA CallInv ==
  ASSUME ConnectInv, NEW c \in Clients, NEW e \in Endpoints, Call(c, e)
  PROVE  ConnectInv'
<1> USE DEF Call, Goto
<1>1. TypeOK'
  BY ConnectAssumption DEF ConnectInv, TypeOK
<1>2. CacheInv'
  BY DEF ConnectInv, CacheInv
<1>3. \A d \in Clients \ {c} : Same(d) /\ ((lock' = d) <=> (lock = d))
  BY DEF ConnectInv, TypeOK, Same
<1>4. ClientInv(c)'
  BY DEF ConnectInv, TypeOK, ClientInv, HoldsLock, UsesCached, InOrder, InTime
<1> QED BY <1>1, <1>2, <1>3, <1>4, OneMoves

LEMMA LockStepInv ==
  ASSUME ConnectInv, NEW c \in Clients, Lock(c)
  PROVE  ConnectInv'
<1> USE DEF Lock, Goto, client
<1>1. TypeOK'
  BY DEF ConnectInv, TypeOK
<1>2. CacheInv'
  BY DEF ConnectInv, CacheInv
<1>3. \A d \in Clients \ {c} : Same(d) /\ ((lock' = d) <=> (lock = d))
  BY ConnectAssumption DEF ConnectInv, TypeOK, Same
<1>4. ClientInv(c)'
  BY DEF ConnectInv, TypeOK, ClientInv, HoldsLock, UsesCached, InOrder, InTime
<1> QED BY <1>1, <1>2, <1>3, <1>4, OneMoves

(* The first candidate is dialled with the state s, the mutex released: what *)
(* LookUp does when the endpoint is cached, and Register always.            *)
LEMMA DialingInv ==
  ASSUME ConnectInv, NEW c \in Clients, NEW s \in Complete,
         Dialing(c, s), lock = c, lock' = Missing,
         resolved' = [resolved EXCEPT ![c] = s], endpoints'[target[c].host] = s,
         endpoints' \in [Hosts \cup {Missing} -> States \cup {Missing}], CacheInv',
         \A k \in Hosts : endpoints[k] # Missing => endpoints'[k] = endpoints[k],
         UNCHANGED <<target, connects, elapsed, tried>>,
         tried[c] = {}, elapsed[c] <= ResolveTimeout
  PROVE  ConnectInv'
<1>1. 1 \in 1 .. Len(s.addrs) /\ Len(s.addrs) \in 1 .. MaxAddrs /\ s # Missing /\ s \in States
  BY StateShape, ConnectAssumption DEF Complete
<1>2. /\ index' = [index EXCEPT ![c] = 1] /\ pc' = [pc EXCEPT ![c] = "dialing"]
      /\ left' = [left EXCEPT ![c] = TimeoutOf(s, 1)]
  BY <1>1, DialFacts, ConnectAssumption DEF Dialing
<1>3. TimeoutOf(s, 1) \in Nat /\ MaxAddrs \in Nat
  BY ConnectAssumption DEF TimeoutOf
<1>4. TypeOK'
  BY <1>1, <1>2, <1>3 DEF ConnectInv, TypeOK
<1>5. \A d \in Clients \ {c} : Same(d) /\ ((lock' = d) <=> (lock = d))
  BY <1>2, ConnectAssumption DEF ConnectInv, TypeOK, Same
<1>6. /\ pc'[c] = "dialing" /\ resolved'[c] = s /\ index'[c] = 1 /\ left'[c] = TimeoutOf(s, 1)
      /\ elapsed'[c] = elapsed[c] /\ elapsed[c] \in Nat /\ tried'[c] = {} /\ target'[c] = target[c]
  BY <1>2 DEF ConnectInv, TypeOK
<1>7. HoldsLock(c)' /\ UsesCached(c)'
  BY <1>1, <1>6, ConnectAssumption DEF HoldsLock, UsesCached
<1>8. InOrder(c)'
  BY <1>1, <1>6, ConnectAssumption DEF InOrder
<1>9. InTime(c)'
  <2>1. (1 - 1) * AttemptTimeout = 0
    <3>1. AttemptTimeout \in Nat /\ 1 - 1 = 0
      BY ConnectAssumption
    <3> QED BY <3>1
  <2>2. elapsed[c] + TimeoutOf(s, 1) <= ResolveTimeout + (1 - 1) * AttemptTimeout + TimeoutOf(s, 1)
    BY <1>3, <1>6, <2>1, ConnectAssumption
  <2>3. TimeoutOf(s, 1)' = TimeoutOf(s, 1)
    BY DEF TimeoutOf
  <2> QED BY <1>6, <2>2 DEF InTime, TimeoutOf
<1> QED BY <1>4, <1>5, <1>7, <1>8, <1>9, OneMoves DEF ClientInv

LEMMA LookUpInv ==
  ASSUME ConnectInv, NEW c \in Clients, LookUp(c)
  PROVE  ConnectInv'
<1> DEFINE cached == endpoints[EndpointKey(target[c])]
<1>1. /\ target[c].host \in Hosts /\ cached = endpoints[target[c].host] /\ c # Missing
      /\ lock = c /\ resolved[c] = Missing /\ tried[c] = {} /\ elapsed[c] = 0 /\ pc[c] = "reading"
  BY ConnectAssumption
     DEF LookUp, ConnectInv, TypeOK, HoldsLock, UsesCached, InOrder, InTime, EndpointKey, Endpoints
<1>2. CacheInv'
  BY DEF LookUp, ConnectInv, CacheInv
<1>3. CASE cached # Missing
  <2>1. cached \in Complete /\ Dialing(c, cached) /\ resolved' = [resolved EXCEPT ![c] = cached]
    BY <1>1, <1>3 DEF LookUp, ConnectInv, CacheInv
  <2>2. UNCHANGED <<endpoints, target, connects, elapsed, tried>> /\ lock' = Missing
    BY DEF LookUp
  <2>3. /\ endpoints'[target[c].host] = cached
        /\ endpoints' \in [Hosts \cup {Missing} -> States \cup {Missing}]
        /\ elapsed[c] <= ResolveTimeout
    BY <1>1, <2>2, ConnectAssumption DEF ConnectInv, TypeOK
  <2> QED BY <1>1, <1>2, <2>1, <2>2, <2>3, DialingInv
<1>4. CASE cached = Missing
  <2>1. /\ pc' = [pc EXCEPT ![c] = "building"] /\ left' = [left EXCEPT ![c] = ResolveTimeout]
        /\ lock' = Missing /\ UNCHANGED <<endpoints, target, resolved, index, connects, elapsed, tried>>
    BY <1>4 DEF LookUp, Goto
  <2>2. TypeOK'
    BY <2>1, ConnectAssumption DEF ConnectInv, TypeOK
  <2>3. \A d \in Clients \ {c} : Same(d) /\ ((lock' = d) <=> (lock = d))
    BY <1>1, <2>1, ConnectAssumption DEF ConnectInv, TypeOK, Same
  <2>4. ClientInv(c)'
    BY <1>1, <2>1, ConnectAssumption
       DEF ConnectInv, TypeOK, ClientInv, HoldsLock, UsesCached, InOrder, InTime
  <2> QED BY <1>2, <2>1, <2>2, <2>3, <2>4, OneMoves
<1> QED BY <1>3, <1>4

LEMMA BuiltInv ==
  ASSUME ConnectInv, NEW c \in Clients, Built(c)
  PROVE  ConnectInv'
<1>1. PICK a \in Resolutions : resolved' = [resolved EXCEPT ![c] = EndpointState(c, a)]
  BY DEF Built
<1>2. EndpointState(c, a) \in Complete /\ EndpointState(c, a) \in States /\ EndpointState(c, a) # Missing
  BY BuiltComplete, StateShape DEF ConnectInv, Complete
<1> USE DEF Built, Goto
<1>3. TypeOK'
  BY <1>1, <1>2 DEF ConnectInv, TypeOK
<1>4. CacheInv'
  BY DEF ConnectInv, CacheInv
<1>5. \A d \in Clients \ {c} : Same(d) /\ ((lock' = d) <=> (lock = d))
  BY <1>1 DEF ConnectInv, TypeOK, Same
<1>6. resolved'[c] = EndpointState(c, a) /\ pc'[c] = "registering" /\ pc[c] = "building"
  BY <1>1 DEF ConnectInv, TypeOK
<1>7. ClientInv(c)'
  BY <1>2, <1>6, ConnectAssumption
     DEF ConnectInv, TypeOK, ClientInv, HoldsLock, UsesCached, InOrder, InTime
<1> QED BY <1>3, <1>4, <1>5, <1>7, OneMoves

LEMMA BuildFailsInv ==
  ASSUME ConnectInv, NEW c \in Clients, BuildFails(c)
  PROVE  ConnectInv'
<1> USE DEF BuildFails, Goto, client
<1>1. TypeOK'
  BY DEF ConnectInv, TypeOK
<1>2. CacheInv'
  BY DEF ConnectInv, CacheInv
<1>3. \A d \in Clients \ {c} : Same(d) /\ ((lock' = d) <=> (lock = d))
  BY DEF ConnectInv, TypeOK, Same
<1>4. ClientInv(c)'
  BY ConnectAssumption DEF ConnectInv, TypeOK, ClientInv, HoldsLock, UsesCached, InOrder, InTime
<1> QED BY <1>1, <1>2, <1>3, <1>4, OneMoves

LEMMA RegisterInv ==
  ASSUME ConnectInv, NEW c \in Clients, Register(c)
  PROVE  ConnectInv'
<1> DEFINE key == EndpointKey(target[c])
           state == IF endpoints[key] = Missing THEN resolved[c] ELSE endpoints[key]
<1>1. /\ target[c].host \in Hosts /\ key = target[c].host /\ c # Missing
      /\ lock = c /\ resolved[c] # Missing /\ resolved[c] \in Complete
      /\ tried[c] = {} /\ elapsed[c] <= ResolveTimeout
  BY ConnectAssumption
     DEF Register, ConnectInv, TypeOK, HoldsLock, UsesCached, InOrder, InTime, EndpointKey, Endpoints
<1>2. state \in Complete /\ state \in States
  BY <1>1 DEF ConnectInv, CacheInv, Complete
<1>3. /\ endpoints' = [endpoints EXCEPT ![key] = state] /\ resolved' = [resolved EXCEPT ![c] = state]
      /\ lock' = Missing /\ Dialing(c, state) /\ UNCHANGED <<target, connects, elapsed, tried>>
  BY DEF Register
<1> HIDE DEF state, key
<1>4. /\ endpoints'[target[c].host] = state
      /\ endpoints' \in [Hosts \cup {Missing} -> States \cup {Missing}]
  BY <1>1, <1>2, <1>3 DEF ConnectInv, TypeOK
<1>5. CacheInv'
  BY <1>1, <1>2, <1>3 DEF ConnectInv, TypeOK, CacheInv
<1>6. \A k \in Hosts : endpoints[k] # Missing => endpoints'[k] = endpoints[k]
  BY <1>1, <1>3 DEF ConnectInv, TypeOK, state, key
<1> QED BY <1>1, <1>2, <1>3, <1>4, <1>5, <1>6, DialingInv

LEMMA DroppedInv ==
  ASSUME ConnectInv, NEW c \in Clients, Dropped(c)
  PROVE  ConnectInv'
<1> USE DEF Dropped, Goto
<1>1. TypeOK'
  BY DEF ConnectInv, TypeOK
<1>2. CacheInv'
  BY DEF ConnectInv, CacheInv
<1>3. \A d \in Clients \ {c} : Same(d) /\ ((lock' = d) <=> (lock = d))
  BY DEF ConnectInv, TypeOK, Same
<1>4. ClientInv(c)'
  BY DEF ConnectInv, TypeOK, ClientInv, HoldsLock, UsesCached, InOrder, InTime
<1> QED BY <1>1, <1>2, <1>3, <1>4, OneMoves

(* What the invariant says of a client that dials.                          *)
LEMMA WhileDialing ==
  ASSUME ConnectInv, NEW c \in Clients, pc[c] = "dialing"
  PROVE  /\ resolved[c] \in Complete /\ resolved[c] # Missing /\ Len(resolved[c].addrs) \in 1 .. MaxAddrs
         /\ index[c] \in 1 .. Len(resolved[c].addrs) /\ tried[c] = 1 .. (index[c] - 1)
         /\ left[c] \in Nat /\ elapsed[c] \in Nat /\ lock # c
         /\ elapsed[c] <= ResolveTimeout + (index[c] - 1) * AttemptTimeout
                                         + TimeoutOf(resolved[c], index[c])
<1>1. /\ resolved[c] # Missing /\ resolved[c] \in Complete
      /\ index[c] \in 1 .. Len(resolved[c].addrs) /\ tried[c] = 1 .. (index[c] - 1)
      /\ left[c] \in Nat /\ elapsed[c] \in Nat /\ lock # c
  BY DEF ConnectInv, TypeOK, HoldsLock, UsesCached, InOrder
<1>2. Len(resolved[c].addrs) \in 1 .. MaxAddrs
  BY <1>1, StateShape
<1>3. (index[c] - 1) * AttemptTimeout \in Nat
  BY <1>1, <1>2, ConnectAssumption, Products
<1>4. elapsed[c] + left[c] <= ResolveTimeout + (index[c] - 1) * AttemptTimeout
                                + TimeoutOf(resolved[c], index[c])
  BY DEF ConnectInv, InTime
<1>5. TimeoutOf(resolved[c], index[c]) \in Nat /\ ResolveTimeout \in Nat
  BY ConnectAssumption DEF TimeoutOf
<1> HIDE DEF TimeoutOf
<1>6. elapsed[c] <= ResolveTimeout + (index[c] - 1) * AttemptTimeout + TimeoutOf(resolved[c], index[c])
  <2> DEFINE p == (index[c] - 1) * AttemptTimeout
             m == TimeoutOf(resolved[c], index[c])
  <2>1. p \in Nat /\ m \in Nat /\ elapsed[c] + left[c] <= ResolveTimeout + p + m
    BY <1>3, <1>4, <1>5
  <2> HIDE DEF p, m
  <2>2. elapsed[c] <= ResolveTimeout + p + m
    BY <1>1, <1>5, <2>1
  <2> QED BY <2>2 DEF p, m
<1> QED BY <1>1, <1>2, <1>6

(* What is spent when candidate i of n ends is within the time of them all. *)
LEMMA SpentWithinAll ==
  ASSUME NEW s \in Complete, NEW i \in 1 .. Len(s.addrs), NEW spent \in Nat,
         spent <= ResolveTimeout + (i - 1) * AttemptTimeout + TimeoutOf(s, i)
  PROVE  /\ spent <= ResolveTimeout + (Len(s.addrs) - 1) * AttemptTimeout + FinalTimeout
         /\ i # Len(s.addrs) => spent <= ResolveTimeout + i * AttemptTimeout
<1> DEFINE n == Len(s.addrs)
<1>1. n \in Nat /\ i \in Nat
  BY StateShape, ConnectAssumption
<1>2. ResolveTimeout \in Nat /\ AttemptTimeout \in Nat /\ FinalTimeout \in Nat
  BY ConnectAssumption
<1>3. /\ (i - 1) * AttemptTimeout \in Nat /\ i * AttemptTimeout \in Nat
      /\ (n - 1) * AttemptTimeout \in Nat
      /\ (i - 1) * AttemptTimeout + AttemptTimeout = i * AttemptTimeout
      /\ i < n => i * AttemptTimeout <= (n - 1) * AttemptTimeout
  BY <1>1, Products
<1>4. CASE i = n
  BY <1>2, <1>3, <1>4 DEF TimeoutOf
<1>5. CASE i # n
  <2>1. TimeoutOf(s, i) = AttemptTimeout /\ i < n
    BY <1>1, <1>5 DEF TimeoutOf
  <2>2. spent <= ResolveTimeout + i * AttemptTimeout
    BY <1>2, <1>3, <2>1
  <2> QED BY <1>2, <1>3, <2>1, <2>2
<1> QED BY <1>4, <1>5

LEMMA ConnectedInv ==
  ASSUME ConnectInv, NEW c \in Clients, Connected(c)
  PROVE  ConnectInv'
<1> USE DEF Connected, Goto, client
<1>1. TypeOK'
  BY DEF ConnectInv, TypeOK
<1>2. CacheInv'
  BY DEF ConnectInv, CacheInv
<1>3. \A d \in Clients \ {c} : Same(d) /\ ((lock' = d) <=> (lock = d))
  BY DEF ConnectInv, TypeOK, Same
<1>4. HoldsLock(c)' /\ UsesCached(c)' /\ InOrder(c)'
  BY DEF ConnectInv, TypeOK, HoldsLock, UsesCached, InOrder
<1>5. elapsed[c] <= ResolveTimeout + (Len(resolved[c].addrs) - 1) * AttemptTimeout + FinalTimeout
  BY WhileDialing, SpentWithinAll
<1>6. pc'[c] = "connected" /\ resolved'[c] # Missing /\ resolved'[c] = resolved[c] /\ elapsed'[c] = elapsed[c]
  BY WhileDialing DEF ConnectInv, TypeOK
<1>7. ResolveTimeout + (Len(resolved[c].addrs) - 1) * AttemptTimeout + FinalTimeout
        = ResolveTimeout + ((Len(resolved[c].addrs) - 1) * AttemptTimeout + FinalTimeout)
  <2>1. Len(resolved[c].addrs) \in Nat
    BY WhileDialing, ConnectAssumption
  <2>2. (Len(resolved[c].addrs) - 1) * AttemptTimeout \in Int
    BY <2>1, ConnectAssumption
  <2> QED BY <2>2, ConnectAssumption
<1>8. InTime(c)'
  BY <1>5, <1>6, <1>7 DEF InTime
<1> QED BY <1>1, <1>2, <1>3, <1>4, <1>8, OneMoves DEF ClientInv

LEMMA OneMore ==
  ASSUME NEW i \in Nat \ {0}
  PROVE  (1 .. (i - 1)) \cup {i} = 1 .. i
OBVIOUS

LEMMA CandidateFailsInv ==
  ASSUME ConnectInv, NEW c \in Clients, CandidateFails(c)
  PROVE  ConnectInv'
<1> DEFINE s == resolved[c]
           i == index[c]
           n == Len(s.addrs)
<1>1. /\ pc[c] = "dialing" /\ tried' = [tried EXCEPT ![c] = @ \cup {i}]
      /\ Dial(c, s, NextCandidate(s, i + 1))
      /\ UNCHANGED <<endpoints, lock, target, resolved, connects, elapsed>>
  BY DEF CandidateFails
<1>2. /\ s \in Complete /\ s # Missing /\ n \in 1 .. MaxAddrs /\ i \in 1 .. n
      /\ tried[c] = 1 .. (i - 1) /\ elapsed[c] \in Nat /\ lock # c
      /\ elapsed[c] <= ResolveTimeout + (i - 1) * AttemptTimeout + TimeoutOf(s, i)
  BY <1>1, WhileDialing
<1>3. MaxAddrs \in Nat /\ n \in Nat /\ i \in Nat /\ i + 1 \in 1 .. (n + 1)
  <2> HIDE DEF s, i, n
  <2>1. MaxAddrs \in Nat
    BY ConnectAssumption
  <2>2. n \in Nat /\ i \in Nat
    BY <1>2, <2>1
  <2> QED BY <1>2, <2>1, <2>2
<1>4. /\ index' = [index EXCEPT ![c] = i + 1]
      /\ i = n => pc' = [pc EXCEPT ![c] = "failed"] /\ left' = left
      /\ i # n => /\ pc' = [pc EXCEPT ![c] = "dialing"]
                  /\ left' = [left EXCEPT ![c] = TimeoutOf(s, i + 1)]
  <2> HIDE DEF s, i
  <2> QED BY <1>1, <1>2, <1>3, DialFacts
<1>5. /\ index'[c] = i + 1 /\ tried'[c] = 1 .. i /\ resolved'[c] = s /\ elapsed'[c] = elapsed[c]
      /\ i = n => pc'[c] = "failed"
      /\ i # n => pc'[c] = "dialing" /\ left'[c] = TimeoutOf(s, i + 1)
  <2>1. tried'[c] = (1 .. (i - 1)) \cup {i}
    BY <1>1, <1>2 DEF ConnectInv, TypeOK
  <2>2. i \in Nat \ {0}
    BY <1>2, <1>3
  <2>3. (1 .. (i - 1)) \cup {i} = 1 .. i
    BY <2>2, OneMore
  <2> QED BY <1>1, <1>4, <2>1, <2>3 DEF ConnectInv, TypeOK
<1>6. TimeoutOf(s, i + 1) \in Nat
  BY ConnectAssumption DEF TimeoutOf
<1> HIDE DEF s, i, n
<1>7. TypeOK'
  <2>1. /\ endpoints' \in [Hosts \cup {Missing} -> States \cup {Missing}]
        /\ lock' \in Clients \cup {Missing} /\ target' \in [Clients -> Endpoints]
        /\ resolved' \in [Clients -> States \cup {Missing}] /\ connects' \in [Clients -> 0 .. MaxConnects]
        /\ elapsed' \in [Clients -> Nat]
    BY <1>1 DEF ConnectInv, TypeOK
  <2>2. i + 1 \in 0 .. MaxAddrs + 1 /\ i \in 1 .. MaxAddrs
    BY <1>2, <1>3
  <2>3. index' \in [Clients -> 0 .. MaxAddrs + 1] /\ tried' \in [Clients -> SUBSET (1 .. MaxAddrs)]
    BY <1>1, <1>4, <2>2 DEF ConnectInv, TypeOK
  <2>4. /\ left' \in [Clients -> Nat]
        /\ pc' \in [Clients -> {"idle", "looking", "reading", "building", "registering",
                               "writing", "dialing", "connected", "failed", "dropped"}]
    BY <1>4, <1>6 DEF ConnectInv, TypeOK
  <2> QED BY <2>1, <2>3, <2>4 DEF TypeOK
<1>8. CacheInv'
  BY <1>1 DEF ConnectInv, CacheInv
<1>9. \A d \in Clients \ {c} : Same(d) /\ ((lock' = d) <=> (lock = d))
  BY <1>1, <1>4 DEF ConnectInv, TypeOK, Same
<1>10. resolved[c] = endpoints[target[c].host] /\ endpoints' = endpoints /\ target'[c] = target[c]
       /\ lock' = lock
  BY <1>1 DEF ConnectInv, UsesCached
<1>11. HoldsLock(c)' /\ UsesCached(c)'
  BY <1>2, <1>5, <1>10 DEF HoldsLock, UsesCached, s
<1>12. InOrder(c)'
  BY <1>2, <1>3, <1>5 DEF InOrder, n
<1>13. InTime(c)'
  <2>1. ResolveTimeout \in Nat /\ AttemptTimeout \in Nat /\ FinalTimeout \in Nat
    BY ConnectAssumption
  <2>2. CASE i = n
    <3>1. elapsed[c] <= ResolveTimeout + (n - 1) * AttemptTimeout + FinalTimeout
      BY <1>2, SpentWithinAll DEF n
    <3>2. (n - 1) * AttemptTimeout \in Int
      BY <1>3, <2>1
    <3>3. elapsed[c] <= ResolveTimeout + ((n - 1) * AttemptTimeout + FinalTimeout)
      BY <1>2, <2>1, <3>1, <3>2
    <3> QED BY <1>2, <1>5, <2>2, <3>3 DEF InTime, n
  <2>3. CASE i # n
    <3>1. elapsed[c] <= ResolveTimeout + i * AttemptTimeout
      BY <1>2, <2>3, SpentWithinAll DEF n
    <3>2. i * AttemptTimeout \in Nat /\ (i + 1) - 1 = i
      BY <1>3, <2>1
    <3>3. elapsed[c] + TimeoutOf(s, i + 1)
            <= ResolveTimeout + ((i + 1) - 1) * AttemptTimeout + TimeoutOf(s, i + 1)
      BY <1>2, <1>6, <2>1, <3>1, <3>2
    <3> QED BY <1>5, <2>3, <3>3 DEF InTime, TimeoutOf
  <2> QED BY <2>2, <2>3
<1> QED BY <1>1, <1>7, <1>8, <1>9, <1>11, <1>12, <1>13, OneMoves DEF ClientInv

(* While time passes nobody looks for the cache: either its mutex is free   *)
(* and they take it, or its holder goes on and releases it.                 *)
LEMMA NobodyQueues ==
  ASSUME ConnectInv, Tick, NEW c \in Clients
  PROVE  pc[c] \notin {"looking", "registering", "reading", "writing"}
<1>1. \A d \in Clients : ~CanRun(d)
  BY DEF Tick
<1>2. \A d \in Clients : pc[d] \notin {"reading", "writing"}
  BY <1>1 DEF CanRun
<1>3. lock = Missing
  BY <1>2 DEF ConnectInv, TypeOK, HoldsLock
<1> QED BY <1>1, <1>3 DEF CanRun

LEMMA TickInv ==
  ASSUME ConnectInv, Tick
  PROVE  ConnectInv'
<1> USE DEF Tick
<1>1. TypeOK'
  <2>1. /\ endpoints' \in [Hosts \cup {Missing} -> States \cup {Missing}]
        /\ lock' \in Clients \cup {Missing} /\ target' \in [Clients -> Endpoints]
        /\ pc' \in [Clients -> {"idle", "looking", "reading", "building", "registering",
                               "writing", "dialing", "connected", "failed", "dropped"}]
        /\ resolved' \in [Clients -> States \cup {Missing}] /\ connects' \in [Clients -> 0 .. MaxConnects]
        /\ index' \in [Clients -> 0 .. MaxAddrs + 1] /\ tried' \in [Clients -> SUBSET (1 .. MaxAddrs)]
    BY DEF ConnectInv, TypeOK
  <2>2. left' \in [Clients -> Nat] /\ elapsed' \in [Clients -> Nat]
    BY DEF ConnectInv, TypeOK
  <2> QED BY <2>1, <2>2 DEF TypeOK
<1>2. CacheInv'
  BY DEF ConnectInv, CacheInv
<1>3. ASSUME NEW d \in Clients PROVE ClientInv(d)'
  <2>1. pc[d] \notin {"looking", "registering", "reading", "writing"}
    BY NobodyQueues
  <2>2. HoldsLock(d)' /\ UsesCached(d)' /\ InOrder(d)'
    BY DEF ConnectInv, HoldsLock, UsesCached, InOrder
  <2>3. InTime(d)'
    <3>1. left[d] \in Nat /\ elapsed[d] \in Nat /\ pc'[d] = pc[d] /\ resolved'[d] = resolved[d] /\ index'[d] = index[d]
      BY DEF ConnectInv, TypeOK
    <3>2. /\ pc[d] \in {"building", "dialing"} =>
                /\ left'[d] = left[d] - 1 /\ elapsed'[d] = elapsed[d] + 1
                /\ elapsed'[d] + left'[d] = elapsed[d] + left[d]
          /\ pc[d] \notin {"building", "dialing"} => elapsed'[d] = elapsed[d]
      BY <2>1, <3>1 DEF InCall
    <3>3. InTime(d)
      BY DEF ConnectInv
    <3>4. TimeoutOf(resolved[d], index[d])' = TimeoutOf(resolved[d], index[d])
      BY <3>1 DEF TimeoutOf
    <3> QED BY <2>1, <3>1, <3>2, <3>3, <3>4 DEF InTime, TimeoutOf
  <2> QED BY <2>2, <2>3 DEF ClientInv
<1> QED BY <1>1, <1>2, <1>3 DEF ConnectInv, ClientInv

LEMMA ConnectNextInv == ConnectInv /\ [ConnectNext]_connectVars => ConnectInv'
<1> SUFFICES ASSUME ConnectInv, [ConnectNext]_connectVars PROVE ConnectInv'
  OBVIOUS
<1>1. ASSUME NEW c \in Clients, NEW e \in Endpoints, Call(c, e) PROVE ConnectInv'
  BY <1>1, CallInv
<1>2. ASSUME NEW c \in Clients,
             Lock(c) \/ LookUp(c) \/ Built(c) \/ BuildFails(c) \/ Register(c)
      PROVE  ConnectInv'
  BY <1>2, LockStepInv, LookUpInv, BuiltInv, BuildFailsInv, RegisterInv
<1>3. ASSUME NEW c \in Clients, Connected(c) \/ CandidateFails(c) \/ Dropped(c)
      PROVE  ConnectInv'
  BY <1>3, ConnectedInv, CandidateFailsInv, DroppedInv
<1>4. CASE Tick
  BY <1>4, TickInv
<1>5. CASE UNCHANGED connectVars
  BY <1>5 DEF connectVars, client, ConnectInv, TypeOK, CacheInv, HoldsLock, UsesCached, InOrder, InTime,
              TimeoutOf
<1> QED BY <1>1, <1>2, <1>3, <1>4, <1>5 DEF ConnectNext

LEMMA CallsAreBounded ==
  ASSUME ConnectInv
  PROVE  ConnectEnds
<1> SUFFICES ASSUME NEW c \in Clients
             PROVE  /\ pc[c] # "dropped" =>
                         elapsed[c] <= ResolveTimeout +
                           (IF resolved[c] = Missing THEN 0
                            ELSE (Len(resolved[c].addrs) - 1) * AttemptTimeout + FinalTimeout)
                    /\ pc[c] = "failed" /\ resolved[c] # Missing => tried[c] = DOMAIN resolved[c].addrs
  BY DEF ConnectEnds, ConnectBounded, FailsOnlyAfterAll
<1>1. /\ HoldsLock(c) /\ UsesCached(c) /\ InOrder(c) /\ InTime(c)
      /\ elapsed[c] \in Nat /\ left[c] \in Nat
  BY DEF ConnectInv, TypeOK
<1>2. resolved[c] # Missing =>
        /\ Len(resolved[c].addrs) \in Nat \ {0} /\ DOMAIN resolved[c].addrs = 1 .. Len(resolved[c].addrs)
        /\ (Len(resolved[c].addrs) - 1) * AttemptTimeout \in Nat
  <2> SUFFICES ASSUME resolved[c] # Missing
               PROVE  /\ Len(resolved[c].addrs) \in Nat \ {0}
                      /\ DOMAIN resolved[c].addrs = 1 .. Len(resolved[c].addrs)
                      /\ (Len(resolved[c].addrs) - 1) * AttemptTimeout \in Nat
    OBVIOUS
  <2>1. /\ Len(resolved[c].addrs) \in Nat \ {0}
        /\ DOMAIN resolved[c].addrs = 1 .. Len(resolved[c].addrs)
    BY <1>1, StateShape, ConnectAssumption DEF UsesCached
  <2> DEFINE n == Len(resolved[c].addrs)
  <2>2. n \in Nat /\ n \in 1 .. n
    BY <2>1
  <2> HIDE DEF n
  <2>3. (n - 1) * AttemptTimeout \in Nat
    BY <2>2, Products
  <2> QED BY <2>1, <2>3 DEF n
<1>3. pc[c] = "failed" /\ resolved[c] # Missing => tried[c] = DOMAIN resolved[c].addrs
  BY <1>1, <1>2 DEF InOrder
<1>4. CASE pc[c] \in {"connected", "failed"}
  BY <1>1, <1>3, <1>4 DEF InTime
<1>5. CASE pc[c] = "dialing"
  <2>1. /\ resolved[c] # Missing
        /\ elapsed[c] <= ResolveTimeout + (Len(resolved[c].addrs) - 1) * AttemptTimeout + FinalTimeout
    BY <1>5, WhileDialing, SpentWithinAll
  <2> QED BY <1>1, <1>2, <1>3, <2>1, ConnectAssumption
<1>6. CASE pc[c] \in {"idle", "looking", "reading", "building", "registering", "writing"}
  <2>1. elapsed[c] <= ResolveTimeout
    BY <1>1, <1>6, ConnectAssumption DEF InTime
  <2>2. ResolveTimeout \in Nat /\ FinalTimeout \in Nat
    BY ConnectAssumption
  <2>3. CASE resolved[c] = Missing
    BY <1>1, <2>1, <2>2, <2>3
  <2>4. CASE resolved[c] # Missing
    <3> DEFINE p == (Len(resolved[c].addrs) - 1) * AttemptTimeout
    <3>1. p \in Nat
      BY <1>2, <2>4
    <3> HIDE DEF p
    <3>2. elapsed[c] <= ResolveTimeout + (p + FinalTimeout)
      BY <1>1, <2>1, <2>2, <3>1
    <3> QED BY <1>3, <2>4, <3>2 DEF p
  <2> QED BY <2>3, <2>4
<1>7. pc[c] \in {"idle", "looking", "reading", "building", "registering", "writing",
                 "dialing", "connected", "failed", "dropped"}
  BY DEF ConnectInv, TypeOK
<1> QED BY <1>3, <1>4, <1>5, <1>6, <1>7

-----------------------------------------------------------------------------
(* Theorems.                                                                *)

(* The invariant holds of connect_to, whatever the clients call it with and *)
(* however their steps interleave.                                          *)
THEOREM ConnectInvariant == ConnectSpec => []ConnectInv
BY ConnectInitInv, ConnectNextInv, PTL DEF ConnectSpec

(* The cache, the mutex and the calls have their types.                     *)
THEOREM ConnectTypes == ConnectSpec => []TypeOK
<1>1. ConnectInv => TypeOK
  BY DEF ConnectInv
<1> QED BY <1>1, ConnectInvariant, PTL

(* The clients that dial a relay or are connected to it share one state:    *)
(* the one in the cache, which no later registration replaces.              *)
THEOREM SharedStates == ConnectSpec => []SharedState
<1>1. ConnectInv => SharedState
  BY DEF ConnectInv, UsesCached, SharedState
<1> QED BY <1>1, ConnectInvariant, PTL

(* A call of connect_to ends within its own timeouts, and fails after it    *)
(* dialled only when every address was tried.                               *)
THEOREM CallsBounded == ConnectSpec => []ConnectEnds
BY CallsAreBounded, ConnectInvariant, PTL

===============================================================================
