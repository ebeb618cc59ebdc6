----------------------------- MODULE ZakuroProofs -----------------------------
(***************************************************************************)
(* Theorems about what runs in zakuro's process: the virtual clients, the  *)
(* set-up of their media, the instance that plays it, and what the clients *)
(* say.                                                                    *)
(***************************************************************************)
EXTENDS VirtualClients, Zakuro, TotalsProofs

-----------------------------------------------------------------------------
(* The virtual clients, for every set of them, every mode, retry limit and *)
(* channel capacity.                                                        *)

(* Type correctness.                                                       *)

(* What the two ways of sending do to the channel, as alternatives.        *)
LEMMA SendCases ==
  ASSUME NEW e, Send(e)
  PROVE  \/ agg = "running" /\ Len(chan) < Capacity /\ chan' = Append(chan, e)
         \/ agg # "running" /\ chan' = chan
BY DEF Send

LEMMA TrySendCases ==
  ASSUME NEW e, TrySend(e)
  PROVE  /\ \/ agg = "running" /\ Len(chan) < Capacity /\ chan' = Append(chan, e)
            \/ chan' = chan
         /\ lost' \in {lost, lost + 1}
BY DEF TrySend

LEMMA AppendWithin ==
  ASSUME NEW S, NEW s \in Seq(S), NEW e \in S, NEW c \in Nat, Len(s) < c
  PROVE  Append(s, e) \in Seq(S) /\ Len(Append(s, e)) <= c
OBVIOUS

(* Sending leaves a channel of events within its capacity.                 *)
LEMMA SendType ==
  ASSUME TypeOK, NEW e \in Events, Send(e)
  PROVE  chan' \in Seq(Events) /\ Len(chan') <= Capacity
<1>1. chan \in Seq(Events) /\ Len(chan) <= Capacity /\ Capacity \in Nat
  BY BoundAssumption DEF TypeOK
<1>2. QED
  BY <1>1, SendCases, AppendWithin

LEMMA TrySendType ==
  ASSUME TypeOK, NEW e \in Events, TrySend(e)
  PROVE  chan' \in Seq(Events) /\ Len(chan') <= Capacity /\ lost' \in Nat
<1>1. chan \in Seq(Events) /\ Len(chan) <= Capacity /\ Capacity \in Nat /\ lost \in Nat
  BY BoundAssumption DEF TypeOK
<1>2. QED
  BY <1>1, TrySendCases, AppendWithin

LEMMA EventType == \A v \in VCs, k \in Kinds \ {"Ended"} : Event(k, v) \in Events
BY DEF Event, Events

LEMMA RecordType ==
  ASSUME TypeOK, NEW v \in VCs, NEW r \in Reasons, RecordLifecycle(v, r)
  PROVE  /\ chan' \in Seq(Events) /\ Len(chan') <= Capacity
         /\ lost' \in Nat /\ rows' \in [VCs -> Nat]
<1>1. rows' \in [VCs -> Nat]
  BY DEF RecordLifecycle, TypeOK
<1>2. PICK b \in BucketsOf(v, r) : TrySend([kind |-> "Ended", vc |-> v, bucket |-> b])
  BY DEF RecordLifecycle
<1>3. b \in Buckets
  BY BoundAssumption DEF BucketsOf, Buckets
<1>4. [kind |-> "Ended", vc |-> v, bucket |-> b] \in Events
  BY <1>3 DEF Events, Kinds, Buckets
<1>5. QED
  BY <1>1, <1>2, <1>4, TrySendType

LEMMA CountFailureType ==
  ASSUME TypeOK, NEW v \in VCs, CountFailure(v)
  PROVE  retry' \in [VCs -> Nat] /\ pc' \in [VCs -> Locations]
BY DEF CountFailure, Goto, TypeOK, Locations

LEMMA ApplyType ==
  ASSUME NEW s \in [connected : Nat, retrying : Nat, stopped : Nat], NEW k \in Kinds
  PROVE  Apply(s, k) \in [connected : Nat, retrying : Nat, stopped : Nat]
<1>1. \A n \in Nat : Minus1(n) \in Nat
  BY DEF Minus1
<1>2. s.connected \in Nat /\ s.retrying \in Nat /\ s.stopped \in Nat
  OBVIOUS
<1>. DEFINE a == Apply(s, k)
<1>3. (CASE k = "Connected" -> s.connected + 1
         [] k = "Disconnected" -> Minus1(s.connected)
         [] OTHER -> s.connected) \in Nat
  BY <1>1, <1>2
<1>4. (CASE k = "Retrying" -> s.retrying + 1
         [] k \in {"Connected", "Stopped"} -> Minus1(s.retrying)
         [] OTHER -> s.retrying) \in Nat
  BY <1>1, <1>2
<1>5. (IF k = "Stopped" THEN s.stopped + 1 ELSE s.stopped) \in Nat
  BY <1>2
<1>6. QED
  BY <1>3, <1>4, <1>5 DEF Apply

(* Every reachable state is well typed and the channel holds at most        *)
(* Capacity events.                                                        *)
THEOREM TypeCorrect == Spec => []TypeOK
<1>1. Init => TypeOK
  <2> SUFFICES ASSUME Init PROVE TypeOK
    OBVIOUS
  <2>1. chan \in Seq(Events) /\ Len(chan) <= Capacity
    BY BoundAssumption DEF Init
  <2>2. snap \in [connected : Nat, retrying : Nat, stopped : Nat]
    BY DEF Init
  <2>3. warm \in BOOLEAN
    BY BoundAssumption DEF Init
  <2>4. QED
    BY <2>1, <2>2, <2>3 DEF Init, TypeOK, Locations, Reasons
<1>2. TypeOK /\ [Next]_vars => TypeOK'
  <2> SUFFICES ASSUME TypeOK, [Next]_vars PROVE TypeOK'
    OBVIOUS
  <2> USE DEF clientVars, collectorVars
  <2>1. ASSUME NEW v \in VCs, Build(v) PROVE TypeOK'
    BY SMTT(30), <2>1 DEF Build, Goto, TypeOK, Locations
  <2>2. ASSUME NEW v \in VCs, BuildFails(v) PROVE TypeOK'
    <3>1. RecordLifecycle(v, "BuildFailed") /\ CountFailure(v)
      BY <2>2 DEF BuildFails
    <3>2. attempts' \in [VCs -> Nat]
      BY <2>2 DEF BuildFails, TypeOK
    <3>3. QED
      BY <2>2, <3>1, <3>2, RecordType, CountFailureType DEF BuildFails, TypeOK, Reasons
  <2>3. ASSUME NEW v \in VCs, Establishment(v) PROVE TypeOK'
    BY <2>3 DEF Establishment, Goto, TypeOK, Locations
  <2>4. ASSUME NEW v \in VCs, NoEstablishment(v) PROVE TypeOK'
    BY <2>4 DEF NoEstablishment, Goto, TypeOK, Locations
  <2>5. ASSUME NEW v \in VCs, EndOrderly(v) PROVE TypeOK'
    <3>1. OrderlyEnds(v) \subseteq Reasons
      BY DEF OrderlyEnds, Reasons
    <3>2. reason' \in [VCs -> Reasons] /\ pc' \in [VCs -> Locations]
      BY <2>5, <3>1 DEF EndOrderly, Goto, TypeOK, Locations
    <3>3. QED
      BY <2>5, <3>2 DEF EndOrderly, TypeOK
  <2>6. ASSUME NEW v \in VCs, EndUnexpected(v) PROVE TypeOK'
    <3>1. RecordLifecycle(v, "Unexpected")
      BY <2>6 DEF EndUnexpected
    <3>2. reason' \in [VCs -> Reasons] /\ pc' \in [VCs -> Locations]
      BY <2>6 DEF EndUnexpected, Goto, TypeOK, Locations, Reasons
    <3>3. QED
      BY <2>6, <3>1, <3>2, RecordType DEF EndUnexpected, TypeOK, Reasons
  <2>7. ASSUME NEW v \in VCs, Close(v) PROVE TypeOK'
    <3>1. RecordLifecycle(v, reason[v]) /\ reason[v] \in Reasons
      BY <2>7 DEF Close, TypeOK
    <3>2. pc' \in [VCs -> Locations]
      BY <2>7 DEF Close, Goto, TypeOK, Locations
    <3>3. QED
      BY <2>7, <3>1, <3>2, RecordType DEF Close, TypeOK
  <2>8. ASSUME NEW v \in VCs, Wake(v) PROVE TypeOK'
    BY <2>8 DEF Wake, Goto, TypeOK, Locations
  <2>9. ASSUME NEW v \in VCs, SendConnected(v) PROVE TypeOK'
    <3>1. chan' \in Seq(Events) /\ Len(chan') <= Capacity
      BY <2>9, SendType, EventType DEF SendConnected, Kinds
    <3>2. QED
      BY <2>9, <3>1 DEF SendConnected, Goto, TypeOK, Locations
  <2>10. ASSUME NEW v \in VCs, SendDisconnected(v) PROVE TypeOK'
    <3>1. chan' \in Seq(Events) /\ Len(chan') <= Capacity
      BY <2>10, SendType, EventType DEF SendDisconnected, Kinds
    <3>2. retry' \in [VCs -> Nat] /\ pc' \in [VCs -> Locations]
      <4>1. CASE CountFailure(v)
        BY <4>1, CountFailureType
      <4>2. CASE retry' = retry /\ Goto(v, "sendStopped")
        BY <4>2 DEF Goto, TypeOK, Locations
      <4>3. ASSUME retry' = [retry EXCEPT ![v] = 0],
                   NEW l \in Locations, Goto(v, l)
            PROVE  retry' \in [VCs -> Nat] /\ pc' \in [VCs -> Locations]
        BY <4>3 DEF Goto, TypeOK
      <4>4. {"build", "repeatWait", "sendStopped"} \subseteq Locations
        BY DEF Locations
      <4>5. QED
        BY <2>10, <4>1, <4>2, <4>3, <4>4 DEF SendDisconnected
    <3>3. established' \in [VCs -> BOOLEAN] /\ reason' \in [VCs -> Reasons]
      BY <2>10 DEF SendDisconnected, TypeOK, Reasons
    <3>4. QED
      BY <2>10, <3>1, <3>2, <3>3 DEF SendDisconnected, TypeOK
  <2>11. ASSUME NEW v \in VCs, SendRetrying(v) PROVE TypeOK'
    <3>1. chan' \in Seq(Events) /\ Len(chan') <= Capacity
      BY <2>11, SendType, EventType DEF SendRetrying, Kinds
    <3>2. QED
      BY <2>11, <3>1 DEF SendRetrying, Goto, TypeOK, Locations
  <2>12. ASSUME NEW v \in VCs, SendStopped(v) PROVE TypeOK'
    <3>1. chan' \in Seq(Events) /\ Len(chan') <= Capacity
      BY <2>12, SendType, EventType DEF SendStopped, Kinds
    <3>2. QED
      BY <2>12, <3>1 DEF SendStopped, Goto, TypeOK, Locations
  <2>13. CASE Aggregate
    <3>. DEFINE e == Head(chan)
    <3>1. e \in Events
      BY <2>13 DEF Aggregate, TypeOK
    <3>2. e.kind \in Kinds /\ e.vc \in VCs
      BY <3>1 DEF Events
    <3>3. snap' \in [connected : Nat, retrying : Nat, stopped : Nat]
      BY <2>13, <3>2, ApplyType DEF Aggregate, TypeOK
    <3>4. tally' \in [Buckets -> Nat]
      <4>1. tally \in [Buckets -> Nat]
        BY DEF TypeOK
      <4>2. tally' = tally \/ tally' = [tally EXCEPT ![e.bucket] = @ + 1]
        BY <2>13 DEF Aggregate
      <4>3. QED
        BY <4>1, <4>2
    <3>5. seenLive' \in SUBSET VCs
      BY <2>13, <3>2 DEF Aggregate, TypeOK
    <3>6. chan' \in Seq(Events) /\ Len(chan') <= Capacity
      BY <2>13, BoundAssumption DEF Aggregate, TypeOK
    <3>7. QED
      BY <2>13, <3>3, <3>4, <3>5, <3>6 DEF Aggregate, TypeOK
  <2>14. CASE AggregatorCancelled
    BY <2>14, BoundAssumption DEF AggregatorCancelled, TypeOK
  <2>15. CASE AggregatorClosed
    BY <2>15 DEF AggregatorClosed, TypeOK
  <2>16. CASE Cancel
    BY <2>16 DEF Cancel, TypeOK
  <2>17. CASE WarmupElapses
    BY <2>17 DEF WarmupElapses, TypeOK
  <2>18. CASE Terminated
    BY <2>18 DEF Terminated, vars, TypeOK
  <2>19. CASE UNCHANGED vars
    BY <2>19 DEF vars, TypeOK
  <2>20. QED
    BY <2>1, <2>2, <2>3, <2>4, <2>5, <2>6, <2>7, <2>8, <2>9, <2>10, <2>11, <2>12,
       <2>13, <2>14, <2>15, <2>16, <2>17, <2>18, <2>19 DEF Next, Client, Collector
<1>3. QED
  BY <1>1, <1>2, PTL DEF Spec

-----------------------------------------------------------------------------
(* The snapshot never counts more clients than are connected.              *)

(* Appending anything but a Connected keeps the alternation, and keeps      *)
(* every settled client settled.                                           *)
LEMMA AppendOther ==
  ASSUME NEW ch \in Seq(Events), NEW live, NEW e \in Events, e.kind # "Connected"
  PROVE  /\ Alternates(ch, live) => Alternates(Append(ch, e), live)
         /\ \A w \in VCs : Settled(ch, live, w) => Settled(Append(ch, e), live, w)
<1>. DEFINE c == Append(ch, e)
<1>1. /\ Len(c) = Len(ch) + 1 /\ Len(ch) \in Nat
      /\ \A i \in 1..Len(ch) : c[i] = ch[i]
      /\ c[Len(ch) + 1] = e
  OBVIOUS
<1>2. \A i \in 1..Len(c), v \in VCs : IsConnected(c[i], v) => i \in 1..Len(ch)
  BY <1>1 DEF IsConnected
<1>. HIDE DEF c
<1>3. ASSUME Alternates(ch, live) PROVE Alternates(c, live)
  <2>1. ASSUME NEW v \in VCs, NEW i \in 1..Len(c), IsConnected(c[i], v)
        PROVE  /\ v \in live => \E k \in 1..(i - 1) : IsDisconnected(c[k], v)
               /\ \A j \in 1..(i - 1) : IsConnected(c[j], v) =>
                    \E k \in (j + 1)..(i - 1) : IsDisconnected(c[k], v)
    <3>1. /\ i \in 1..Len(ch) /\ IsConnected(ch[i], v)
          /\ \A k \in 1..(i - 1) : k \in 1..Len(ch) /\ c[k] = ch[k]
      BY <1>1, <1>2, <2>1
    <3>2. v \in live => \E k \in 1..(i - 1) : IsDisconnected(ch[k], v)
      BY <1>3, <3>1 DEF Alternates
    <3>3. ASSUME NEW j \in 1..(i - 1), IsConnected(c[j], v)
          PROVE  \E k \in (j + 1)..(i - 1) : IsDisconnected(c[k], v)
      <4>1. IsConnected(ch[j], v)
        BY <3>1, <3>3
      <4>2. PICK k \in (j + 1)..(i - 1) : IsDisconnected(ch[k], v)
        BY <1>3, <3>1, <4>1 DEF Alternates
      <4>3. k \in 1..(i - 1)
        BY <4>2, <3>3
      <4>4. IsDisconnected(c[k], v)
        BY <3>1, <4>2, <4>3
      <4>5. QED
        BY <4>2, <4>4
    <3>4. QED
      BY <3>1, <3>2, <3>3
  <2>2. QED
    BY <2>1 DEF Alternates
<1>4. ASSUME NEW w \in VCs, Settled(ch, live, w) PROVE Settled(c, live, w)
  <2>1. ASSUME w \in live PROVE \E k \in 1..Len(c) : IsDisconnected(c[k], w)
    <3>1. PICK k \in 1..Len(ch) : IsDisconnected(ch[k], w)
      BY <1>4, <2>1 DEF Settled
    <3>2. k \in 1..Len(c) /\ IsDisconnected(c[k], w)
      BY <1>1, <3>1
    <3>3. QED
      BY <3>2
  <2>2. ASSUME NEW i \in 1..Len(c), IsConnected(c[i], w)
        PROVE  \E k \in (i + 1)..Len(c) : IsDisconnected(c[k], w)
    <3>1. i \in 1..Len(ch) /\ IsConnected(ch[i], w)
      BY <1>1, <1>2, <2>2
    <3>2. PICK k \in (i + 1)..Len(ch) : IsDisconnected(ch[k], w)
      BY <1>4, <3>1 DEF Settled
    <3>3. k \in (i + 1)..Len(c) /\ IsDisconnected(c[k], w)
      BY <1>1, <3>1, <3>2
    <3>4. QED
      BY <3>3
  <2>3. QED
    BY <2>1, <2>2 DEF Settled
<1>5. QED
  BY <1>3, <1>4 DEF c

(* Appending the Disconnected of a client settles it.                      *)
LEMMA AppendDisconnected ==
  ASSUME NEW ch \in Seq(Events), NEW live, NEW v \in VCs
  PROVE  Settled(Append(ch, Event("Disconnected", v)), live, v)
<1>. DEFINE e == Event("Disconnected", v)
            c == Append(ch, e)
            n == Len(ch) + 1
<1>0. e \in Events
  BY DEF Event, Events, Kinds
<1>1. Len(c) = n /\ n \in Nat /\ c[n] = e /\ n \in 1..n
  BY <1>0
<1>2. IsDisconnected(c[n], v) /\ ~IsConnected(c[n], v)
  BY <1>1 DEF Event, IsDisconnected, IsConnected
<1>. HIDE DEF c, n
<1>3. \A i \in 1..Len(c) : IsConnected(c[i], v) => n \in (i + 1)..Len(c)
  BY <1>1, <1>2
<1>4. QED
  BY <1>1, <1>2, <1>3 DEF Settled, c

(* Appending the Connected of a settled client keeps the alternation, and   *)
(* keeps every other client settled.                                       *)
LEMMA AppendConnected ==
  ASSUME NEW ch \in Seq(Events), NEW live, NEW v \in VCs,
         Alternates(ch, live), Settled(ch, live, v)
  PROVE  /\ Alternates(Append(ch, Event("Connected", v)), live)
         /\ \A w \in VCs \ {v} : Settled(ch, live, w) =>
              Settled(Append(ch, Event("Connected", v)), live, w)
<1>. DEFINE e == Event("Connected", v)
            c == Append(ch, e)
            n == Len(ch) + 1
<1>0. e \in Events
  BY DEF Event, Events, Kinds
<1>1. /\ Len(c) = n /\ n = Len(ch) + 1 /\ Len(ch) \in Nat
      /\ c[n] = e
      /\ \A i \in 1..Len(ch) : c[i] = ch[i]
  BY <1>0
<1>2. \A w \in VCs : IsConnected(c[n], w) => w = v
  BY <1>1 DEF Event, IsConnected
<1>. HIDE DEF c, n
<1>3. Alternates(c, live)
  <2> SUFFICES ASSUME NEW w \in VCs, NEW i \in 1..Len(c), IsConnected(c[i], w)
               PROVE /\ w \in live => \E k \in 1..(i - 1) : IsDisconnected(c[k], w)
                     /\ \A j \in 1..(i - 1) : IsConnected(c[j], w) =>
                          \E k \in (j + 1)..(i - 1) : IsDisconnected(c[k], w)
    BY DEF Alternates
  <2>1. CASE i = n
    <3>1. w = v
      BY <1>2, <2>1
    <3>2. i - 1 = Len(ch)
      BY <1>1, <2>1
    <3>3. QED
      BY <1>1, <3>1, <3>2 DEF Settled
  <2>2. CASE i # n
    <3>1. i \in 1..Len(ch) /\ IsConnected(ch[i], w)
      BY <1>1, <2>2
    <3>2. \A k \in 1..(i - 1) : c[k] = ch[k]
      BY <1>1, <3>1
    <3>3. QED
      BY <3>1, <3>2 DEF Alternates
  <2>3. QED
    BY <2>1, <2>2
<1>4. ASSUME NEW w \in VCs \ {v}, Settled(ch, live, w) PROVE Settled(c, live, w)
  <2>1. ASSUME NEW i \in 1..Len(c), IsConnected(c[i], w) PROVE i \in 1..Len(ch)
    BY <1>1, <1>2, <2>1
  <2>2. QED
    BY <1>1, <1>4, <2>1 DEF Settled
<1>5. QED
  BY <1>3, <1>4 DEF c

(* Taking the head: a Connected is of a client not seen live, and what is   *)
(* left alternates with respect to the clients seen live from then on.      *)
SeenAfter(live, e) ==
  CASE e.kind = "Connected" -> live \cup {e.vc}
    [] e.kind = "Disconnected" -> live \ {e.vc}
    [] OTHER -> live

LEMMA TakeHead ==
  ASSUME NEW ch \in Seq(Events), ch # <<>>, NEW live, Alternates(ch, live)
  PROVE  /\ IsConnected(Head(ch), Head(ch).vc) => Head(ch).vc \notin live
         /\ Alternates(Tail(ch), SeenAfter(live, Head(ch)))
         /\ \A w \in VCs : Settled(ch, live, w)
                           => Settled(Tail(ch), SeenAfter(live, Head(ch)), w)
<1>. DEFINE h == Head(ch)
            t == Tail(ch)
            after == SeenAfter(live, h)
<1>1. /\ Len(ch) \in Nat /\ Len(ch) >= 1 /\ Len(t) = Len(ch) - 1
      /\ h = ch[1] /\ h \in Events
      /\ \A i \in 1..Len(t) : t[i] = ch[i + 1]
  OBVIOUS
<1>2. h.vc \in VCs
  BY <1>1 DEF Events
<1>3. \A w : w \in after <=> \/ IsConnected(h, w)
                             \/ w \in live /\ ~IsDisconnected(h, w)
  BY DEF SeenAfter, IsConnected, IsDisconnected
<1>. HIDE DEF h, t, after
<1>4. IsConnected(h, h.vc) => h.vc \notin live
  BY <1>1, <1>2 DEF Alternates
<1>5. Alternates(t, after)
  <2> SUFFICES ASSUME NEW w \in VCs, NEW i \in 1..Len(t), IsConnected(t[i], w)
               PROVE /\ w \in after => \E k \in 1..(i - 1) : IsDisconnected(t[k], w)
                     /\ \A j \in 1..(i - 1) : IsConnected(t[j], w) =>
                          \E k \in (j + 1)..(i - 1) : IsDisconnected(t[k], w)
    BY DEF Alternates
  <2>1. i + 1 \in 1..Len(ch) /\ IsConnected(ch[i + 1], w)
    BY <1>1
  <2>2. ASSUME w \in after PROVE \E k \in 1..(i - 1) : IsDisconnected(t[k], w)
    <3>1. \E k \in 2..i : IsDisconnected(ch[k], w)
      <4>1. CASE IsConnected(h, w)
        <5>1. 1 \in 1..((i + 1) - 1) /\ IsConnected(ch[1], w)
          BY <1>1, <4>1
        <5>2. \E k \in (1 + 1)..((i + 1) - 1) : IsDisconnected(ch[k], w)
          BY <2>1, <5>1 DEF Alternates
        <5>3. QED
          BY <5>2
      <4>2. CASE w \in live /\ ~IsDisconnected(h, w)
        <5>1. PICK k \in 1..((i + 1) - 1) : IsDisconnected(ch[k], w)
          BY <2>1, <4>2 DEF Alternates
        <5>2. k # 1
          BY <1>1, <4>2, <5>1
        <5>3. k \in 2..i
          BY <5>1, <5>2
        <5>4. QED
          BY <5>1, <5>3
      <4>3. QED
        BY <1>3, <2>2, <4>1, <4>2
    <3>2. PICK k \in 2..i : IsDisconnected(ch[k], w)
      BY <3>1
    <3>3. k - 1 \in 1..(i - 1) /\ t[k - 1] = ch[k]
      BY <1>1
    <3>4. QED
      BY <3>2, <3>3
  <2>3. ASSUME NEW j \in 1..(i - 1), IsConnected(t[j], w)
        PROVE  \E k \in (j + 1)..(i - 1) : IsDisconnected(t[k], w)
    <3>1. j + 1 \in 1..((i + 1) - 1) /\ IsConnected(ch[j + 1], w)
      BY <1>1, <2>3
    <3>2. PICK k \in ((j + 1) + 1)..((i + 1) - 1) : IsDisconnected(ch[k], w)
      BY <2>1, <3>1 DEF Alternates
    <3>3. k - 1 \in (j + 1)..(i - 1) /\ t[k - 1] = ch[k]
      BY <1>1, <3>2
    <3>4. QED
      BY <3>2, <3>3
  <2>4. QED
    BY <2>2, <2>3
<1>6. ASSUME NEW w \in VCs, Settled(ch, live, w) PROVE Settled(t, after, w)
  <2>1. ASSUME NEW k \in 2..Len(ch), IsDisconnected(ch[k], w)
        PROVE  k - 1 \in 1..Len(t) /\ IsDisconnected(t[k - 1], w)
    BY <1>1, <2>1
  <2>2. ASSUME w \in after PROVE \E k \in 1..Len(t) : IsDisconnected(t[k], w)
    <3>1. \E k \in 2..Len(ch) : IsDisconnected(ch[k], w)
      <4>1. CASE IsConnected(h, w)
        <5>1. 1 \in 1..Len(ch) /\ IsConnected(ch[1], w)
          BY <1>1, <4>1
        <5>2. \E k \in (1 + 1)..Len(ch) : IsDisconnected(ch[k], w)
          BY <1>6, <5>1 DEF Settled
        <5>3. QED
          BY <5>2
      <4>2. CASE w \in live /\ ~IsDisconnected(h, w)
        <5>1. PICK k \in 1..Len(ch) : IsDisconnected(ch[k], w)
          BY <1>6, <4>2 DEF Settled
        <5>2. k # 1
          BY <1>1, <4>2, <5>1
        <5>3. k \in 2..Len(ch)
          BY <1>1, <5>1, <5>2
        <5>4. QED
          BY <5>1, <5>3
      <4>3. QED
        BY <1>3, <2>2, <4>1, <4>2
    <3>2. QED
      BY <2>1, <3>1
  <2>3. ASSUME NEW i \in 1..Len(t), IsConnected(t[i], w)
        PROVE  \E k \in (i + 1)..Len(t) : IsDisconnected(t[k], w)
    <3>1. i + 1 \in 1..Len(ch) /\ IsConnected(ch[i + 1], w)
      BY <1>1, <2>3
    <3>2. PICK k \in ((i + 1) + 1)..Len(ch) : IsDisconnected(ch[k], w)
      BY <1>6, <3>1 DEF Settled
    <3>3. k - 1 \in (i + 1)..Len(t) /\ t[k - 1] = ch[k]
      BY <1>1, <3>2
    <3>4. QED
      BY <3>2, <3>3
  <2>4. QED
    BY <2>2, <2>3 DEF Settled
<1>7. QED
  BY <1>4, <1>5, <1>6 DEF h, t, after

(* A step of a client that sends nothing, or anything but Connected and     *)
(* Disconnected, and takes no client out of LiveClients.                    *)
LEMMA QuietStep ==
  ASSUME TypeOK, CountInv,
         \/ chan' = chan
         \/ \E e \in Events : e.kind # "Connected" /\ chan' = Append(chan, e),
         agg' = agg, snap' = snap, seenLive' = seenLive,
         LiveClients \subseteq LiveClients'
  PROVE  agg' = "running" =>
           /\ snap'.connected <= Cardinality(seenLive')
           /\ Alternates(chan', seenLive')
           /\ \A w \in VCs \ LiveClients' : Settled(chan', seenLive', w)
<1> SUFFICES ASSUME agg = "running"
             PROVE  /\ Alternates(chan', seenLive)
                    /\ \A w \in VCs \ LiveClients : Settled(chan', seenLive, w)
  BY DEF CountInv
<1>1. chan \in Seq(Events)
  BY DEF TypeOK
<1>2. Alternates(chan, seenLive) /\ \A w \in VCs \ LiveClients : Settled(chan, seenLive, w)
  BY DEF CountInv
<1>3. QED
  BY <1>1, <1>2, AppendOther

LEMMA OtherEvent ==
  ASSUME NEW v \in VCs, NEW k \in Kinds \ {"Connected", "Ended"}
  PROVE  Event(k, v) \in Events /\ Event(k, v).kind # "Connected"
BY EventType DEF Event

(* What recording a lifecycle does to the channel.                         *)
LEMMA RecordQuiet ==
  ASSUME NEW v \in VCs, NEW r, RecordLifecycle(v, r)
  PROVE  \/ chan' = chan
         \/ \E e \in Events : e.kind # "Connected" /\ chan' = Append(chan, e)
<1>1. PICK b \in BucketsOf(v, r) : TrySend([kind |-> "Ended", vc |-> v, bucket |-> b])
  BY DEF RecordLifecycle
<1>2. b \in Buckets
  BY BoundAssumption DEF BucketsOf, Buckets
<1>. DEFINE e == [kind |-> "Ended", vc |-> v, bucket |-> b]
<1>3. e \in Events /\ e.kind # "Connected"
  BY <1>2 DEF Events, Kinds, Buckets
<1>4. chan' = chan \/ chan' = Append(chan, e)
  BY <1>1, TrySendCases
<1>5. QED
  BY <1>3, <1>4

LEMMA CountInvStep == TypeOK /\ CountInv /\ [Next]_vars => CountInv'
<1> SUFFICES ASSUME TypeOK, CountInv, [Next]_vars PROVE CountInv'
  OBVIOUS
<1> USE DEF clientVars, collectorVars
<1>. DEFINE Early == {"build", "establish", "sendRetrying", "retryWait", "repeatWait"}
<1>0. FlagsFit
  BY DEF CountInv
(* A client's step that moves it from one location to another.             *)
<1>a. ASSUME NEW v \in VCs, NEW l, Goto(v, l), established' = established,
             l \notin Early \/ pc[v] \in Early, pc[v] # "sendConnected",
             l # "sendConnected"
      PROVE  FlagsFit' /\ LiveClients \subseteq LiveClients'
  <2>1. pc' = [pc EXCEPT ![v] = l] /\ pc \in [VCs -> Locations]
    BY <1>a DEF Goto, TypeOK
  <2>2. FlagsFit'
    BY <1>0, <1>a, <2>1 DEF FlagsFit
  <2>3. LiveClients \subseteq LiveClients'
    BY <1>a, <2>1 DEF LiveClients
  <2>4. QED
    BY <2>2, <2>3
<1>b. ASSUME NEW v \in VCs, CountFailure(v)
      PROVE  \E l \in {"sendStopped", "sendRetrying"} : Goto(v, l)
  BY <1>b DEF CountFailure
<1>1. ASSUME NEW v \in VCs, Build(v) PROVE CountInv'
  <2>1. FlagsFit' /\ LiveClients \subseteq LiveClients'
    BY <1>1, <1>a DEF Build
  <2>2. QED
    BY <1>1, <2>1, QuietStep DEF Build, CountInv
<1>2. ASSUME NEW v \in VCs, BuildFails(v) PROVE CountInv'
  <2>1. FlagsFit' /\ LiveClients \subseteq LiveClients'
    BY <1>2, <1>a, <1>b DEF BuildFails
  <2>2. QED
    BY <1>2, <2>1, RecordQuiet, QuietStep DEF BuildFails, CountInv
<1>3. ASSUME NEW v \in VCs, Establishment(v) PROVE CountInv'
  <2>1. ~established[v]
    BY <1>0, <1>3 DEF Establishment, FlagsFit
  <2>2. FlagsFit' /\ LiveClients \subseteq LiveClients'
    BY <1>0, <1>3, <2>1 DEF Establishment, Goto, LiveClients, TypeOK, FlagsFit
  <2>3. QED
    BY <1>3, <2>2, QuietStep DEF Establishment, CountInv
<1>4. ASSUME NEW v \in VCs, NoEstablishment(v) PROVE CountInv'
  <2>1. FlagsFit' /\ LiveClients \subseteq LiveClients'
    BY <1>4, <1>a DEF NoEstablishment
  <2>2. QED
    BY <1>4, <2>1, QuietStep DEF NoEstablishment, CountInv
<1>5. ASSUME NEW v \in VCs, EndOrderly(v) PROVE CountInv'
  <2>1. FlagsFit' /\ LiveClients \subseteq LiveClients'
    BY <1>5, <1>a DEF EndOrderly
  <2>2. QED
    BY <1>5, <2>1, QuietStep DEF EndOrderly, CountInv
<1>6. ASSUME NEW v \in VCs, EndUnexpected(v) PROVE CountInv'
  <2>1. FlagsFit' /\ LiveClients \subseteq LiveClients'
    BY <1>6, <1>a DEF EndUnexpected
  <2>2. QED
    BY <1>6, <2>1, RecordQuiet, QuietStep DEF EndUnexpected, CountInv
<1>7. ASSUME NEW v \in VCs, Close(v) PROVE CountInv'
  <2>1. FlagsFit' /\ LiveClients \subseteq LiveClients'
    BY <1>7, <1>a DEF Close
  <2>2. QED
    BY <1>7, <2>1, RecordQuiet, QuietStep DEF Close, CountInv
<1>8. ASSUME NEW v \in VCs, Wake(v) PROVE CountInv'
  <2>1. FlagsFit' /\ LiveClients \subseteq LiveClients'
    BY <1>8, <1>a DEF Wake
  <2>2. QED
    BY <1>8, <2>1, QuietStep DEF Wake, CountInv
<1>9. ASSUME NEW v \in VCs, SendConnected(v) PROVE CountInv'
  <2>1. pc' = [pc EXCEPT ![v] = "run"] /\ pc[v] = "sendConnected"
        /\ established' = established /\ pc \in [VCs -> Locations]
    BY <1>9 DEF SendConnected, Goto, TypeOK
  <2>2. FlagsFit'
    BY <1>0, <2>1 DEF FlagsFit
  <2>3. v \notin LiveClients
    BY <2>1 DEF LiveClients
  <2>4. VCs \ LiveClients' \subseteq VCs \ LiveClients
    BY <2>1 DEF LiveClients
  <2>4a. established[v] => v \in LiveClients'
    BY <2>1 DEF LiveClients
  <2>5. ASSUME agg = "running", established[v]
        PROVE  /\ Alternates(chan', seenLive)
               /\ \A w \in VCs \ LiveClients' : Settled(chan', seenLive, w)
    <3>1. chan' = Append(chan, Event("Connected", v)) /\ chan \in Seq(Events)
      BY <1>9, <2>5, SendCases DEF SendConnected, TypeOK
    <3>2. Alternates(chan, seenLive) /\ \A w \in VCs \ LiveClients : Settled(chan, seenLive, w)
      BY <2>5 DEF CountInv
    <3>3. Settled(chan, seenLive, v)
      BY <2>3, <3>2
    <3>4. /\ Alternates(Append(chan, Event("Connected", v)), seenLive)
          /\ \A w \in VCs \ {v} : Settled(chan, seenLive, w)
                 => Settled(Append(chan, Event("Connected", v)), seenLive, w)
      BY <3>1, <3>2, <3>3, AppendConnected
    <3>5. QED
      BY <2>4, <2>4a, <2>5, <3>1, <3>2, <3>4
  <2>6. established[v]
    BY <1>0, <2>1 DEF FlagsFit
  <2>7. QED
    BY <1>9, <2>2, <2>5, <2>6 DEF SendConnected, CountInv
<1>10. ASSUME NEW v \in VCs, SendDisconnected(v) PROVE CountInv'
  <2>1. established' = [established EXCEPT ![v] = FALSE] /\ pc[v] = "sendDisconnected"
        /\ established \in [VCs -> BOOLEAN] /\ pc \in [VCs -> Locations]
    BY <1>10 DEF SendDisconnected, TypeOK
  <2>2. \A w \in VCs \ {v} : pc'[w] = pc[w]
    BY <1>10, <2>1 DEF SendDisconnected, CountFailure, Goto
  <2>3. FlagsFit'
    <3>1. pc'[v] \in {"sendStopped", "sendRetrying", "repeatWait", "build"}
      BY <1>10, <2>1 DEF SendDisconnected, CountFailure, Goto
    <3>2. QED
      BY <1>0, <2>1, <2>2, <3>1 DEF FlagsFit
  <2>4. VCs \ LiveClients' \subseteq (VCs \ LiveClients) \cup {v}
    BY <2>1, <2>2 DEF LiveClients
  <2>5. ASSUME agg = "running"
        PROVE  /\ Alternates(chan', seenLive)
               /\ \A w \in VCs \ LiveClients' : Settled(chan', seenLive, w)
    <3>1. chan' = Append(chan, Event("Disconnected", v)) /\ chan \in Seq(Events)
      BY <1>10, <2>5, SendCases DEF SendDisconnected, TypeOK
    <3>2. Alternates(chan, seenLive) /\ \A w \in VCs \ LiveClients : Settled(chan, seenLive, w)
      BY <2>5 DEF CountInv
    <3>3. Event("Disconnected", v) \in Events /\ Event("Disconnected", v).kind # "Connected"
      BY OtherEvent DEF Kinds
    <3>4. Alternates(chan', seenLive) /\ \A w \in VCs \ LiveClients : Settled(chan', seenLive, w)
      BY <3>1, <3>2, <3>3, AppendOther
    <3>5. Settled(chan', seenLive, v)
      BY <3>1, AppendDisconnected
    <3>6. QED
      BY <2>4, <3>4, <3>5
  <2>6. QED
    BY <1>10, <2>3, <2>5 DEF SendDisconnected, CountInv
<1>11. ASSUME NEW v \in VCs, SendRetrying(v) PROVE CountInv'
  <2>1. FlagsFit' /\ LiveClients \subseteq LiveClients'
    BY <1>11, <1>a DEF SendRetrying
  <2>2. Event("Retrying", v) \in Events /\ Event("Retrying", v).kind # "Connected"
    BY OtherEvent DEF Kinds
  <2>3. QED
    BY <1>11, <2>1, <2>2, SendCases, QuietStep DEF SendRetrying, CountInv
<1>12. ASSUME NEW v \in VCs, SendStopped(v) PROVE CountInv'
  <2>1. FlagsFit' /\ LiveClients \subseteq LiveClients'
    BY <1>12, <1>a DEF SendStopped
  <2>2. Event("Stopped", v) \in Events /\ Event("Stopped", v).kind # "Connected"
    BY OtherEvent DEF Kinds
  <2>3. QED
    BY <1>12, <2>1, <2>2, SendCases, QuietStep DEF SendStopped, CountInv
<1>13. CASE Aggregate
  <2>. DEFINE e == Head(chan)
  <2>1. /\ agg = "running" /\ chan # <<>> /\ chan \in Seq(Events)
        /\ snap' = Apply(snap, e.kind) /\ seenLive' = SeenAfter(seenLive, e)
        /\ chan' = Tail(chan) /\ UNCHANGED <<pc, established, agg>>
    BY <1>13 DEF Aggregate, SeenAfter, TypeOK
  <2>2. /\ Alternates(chan, seenLive) /\ snap.connected <= Cardinality(seenLive)
        /\ \A w \in VCs \ LiveClients : Settled(chan, seenLive, w)
    BY <2>1 DEF CountInv
  <2>3. /\ IsConnected(e, e.vc) => e.vc \notin seenLive
        /\ Alternates(chan', seenLive')
        /\ \A w \in VCs : Settled(chan, seenLive, w) => Settled(chan', seenLive', w)
    BY <2>1, <2>2, TakeHead
  <2>4. snap'.connected <= Cardinality(seenLive')
    <3>0. e \in Events
      BY <2>1
    <3>1. e.kind \in Kinds /\ e.vc \in VCs
      BY <3>0 DEF Events
    <3>2. IsFiniteSet(seenLive) /\ Cardinality(seenLive) \in Nat /\ snap.connected \in Nat
      BY ModeAssumption, FS_Subset, FS_CardinalityType DEF TypeOK
    <3>3. CASE e.kind = "Connected"
      <4>1. snap'.connected = snap.connected + 1
        BY <2>1, <3>3 DEF Apply
      <4>2. seenLive' = seenLive \cup {e.vc} /\ e.vc \notin seenLive
        BY <2>1, <2>3, <3>3 DEF SeenAfter, IsConnected
      <4>3. Cardinality(seenLive') = Cardinality(seenLive) + 1
        BY <3>2, <4>2, FS_AddElement
      <4>4. QED
        BY <2>2, <3>2, <4>1, <4>3
    <3>4. CASE e.kind = "Disconnected"
      <4>1. snap'.connected = Minus1(snap.connected)
        BY <2>1, <3>4 DEF Apply
      <4>2. seenLive' = seenLive \ {e.vc}
        BY <2>1, <3>4 DEF SeenAfter
      <4>3. Cardinality(seenLive') \in Nat /\ Cardinality(seenLive) - 1 <= Cardinality(seenLive')
        <5>1. /\ IsFiniteSet(seenLive')
              /\ Cardinality(seenLive') = IF e.vc \in seenLive THEN Cardinality(seenLive) - 1
                                          ELSE Cardinality(seenLive)
          BY <3>2, <4>2, FS_RemoveElement
        <5>2. Cardinality(seenLive') \in Nat
          BY <5>1, FS_CardinalityType
        <5>3. QED
          BY <3>2, <5>1, <5>2
      <4>4. QED
        BY <2>2, <3>2, <4>1, <4>3 DEF Minus1
    <3>5. CASE e.kind \notin {"Connected", "Disconnected"}
      <4>1. snap'.connected = snap.connected /\ seenLive' = seenLive
        BY <2>1, <3>5 DEF Apply, SeenAfter
      <4>2. QED
        BY <2>2, <4>1
    <3>6. QED
      BY <3>3, <3>4, <3>5
  <2>5. FlagsFit' /\ LiveClients' = LiveClients
    BY <1>0, <2>1 DEF LiveClients, FlagsFit
  <2>6. QED
    BY <2>2, <2>3, <2>4, <2>5 DEF CountInv
<1>14. CASE AggregatorCancelled
  BY <1>14 DEF AggregatorCancelled, CountInv, FlagsFit
<1>15. CASE AggregatorClosed
  BY <1>15 DEF AggregatorClosed, CountInv, FlagsFit
<1>16. CASE UNCHANGED <<pc, established, chan, collectorVars>>
  BY <1>16 DEF CountInv, LiveClients, FlagsFit
<1>17. CASE UNCHANGED vars
  BY <1>16, <1>17 DEF vars
<1>18. CASE Cancel \/ WarmupElapses \/ Terminated
  BY <1>16, <1>17, <1>18 DEF Cancel, WarmupElapses, Terminated
<1>19. QED
  BY <1>1, <1>2, <1>3, <1>4, <1>5, <1>6, <1>7, <1>8, <1>9, <1>10, <1>11, <1>12,
     <1>13, <1>14, <1>15, <1>17, <1>18 DEF Next, Client, Collector

(* The counting invariant holds in every reachable state.                  *)
THEOREM CountCorrect == Spec => []CountInv
<1>1. Init => CountInv
  <2> SUFFICES ASSUME Init PROVE CountInv
    OBVIOUS
  <2>1. Len(chan) = 0 /\ seenLive = {} /\ Cardinality(seenLive) = 0
    BY FS_EmptySet DEF Init
  <2>2. snap.connected = 0 /\ FlagsFit
    BY DEF Init, FlagsFit
  <2>3. Alternates(chan, seenLive) /\ \A v \in VCs : Settled(chan, seenLive, v)
    BY <2>1 DEF Alternates, Settled
  <2>4. QED
    BY <2>1, <2>2, <2>3 DEF CountInv
<1>2. QED
  BY <1>1, CountInvStep, TypeCorrect, PTL DEF Spec

(* Whatever the number of clients, their modes, their retry limits and the  *)
(* capacity of the channel: when the collector has caught up, it counts no  *)
(* more clients as connected than there are (StatsSnapshot.connected).      *)
THEOREM NeverOvercounts == Spec => []ConnectedNeverOvercounts
<1>1. TypeOK /\ CountInv => ConnectedNeverOvercounts
  <2> SUFFICES ASSUME TypeOK, CountInv, agg = "running", chan = <<>>
               PROVE  snap.connected <= Cardinality(LiveClients)
    BY DEF ConnectedNeverOvercounts
  <2>1. Len(chan) = 0
    OBVIOUS
  <2>2. seenLive \subseteq LiveClients
    BY <2>1 DEF CountInv, Settled, TypeOK
  <2>3. IsFiniteSet(LiveClients)
    BY ModeAssumption, FS_Subset DEF LiveClients
  <2>4. /\ Cardinality(seenLive) <= Cardinality(LiveClients)
        /\ Cardinality(LiveClients) \in Nat /\ Cardinality(seenLive) \in Nat
    BY <2>2, <2>3, FS_Subset, FS_CardinalityType
  <2>5. snap.connected <= Cardinality(seenLive) /\ snap.connected \in Nat
    BY DEF CountInv, TypeOK
  <2>6. QED
    BY <2>4, <2>5
<1>2. QED
  BY <1>1, CountCorrect, TypeCorrect, PTL

-----------------------------------------------------------------------------
(* The loop implements the contract.                                       *)

(* Each step of the loop is a step of the contract or leaves it alone.      *)
LEMMA StepSimulation ==
  TypeOK /\ [Next]_vars
    => [Contract!Next]_<<PhaseMap, rows>>
<1> SUFFICES ASSUME TypeOK, [Next]_vars
             PROVE  [Contract!Next]_<<PhaseMap, rows>>
  OBVIOUS
<1> USE DEF clientVars, collectorVars
(* One client's move, in terms of the contract.                            *)
<1>a. ASSUME NEW v \in VCs, NEW n \in {0, 1}, rows' = [rows EXCEPT ![v] = @ + n],
             \A w \in VCs \ {v} : PhaseOf(w)' = PhaseOf(w),
             NEW p, NEW q, PhaseOf(v) = p, PhaseOf(v)' = q,
             <<p, q, n>> \in {<<"idle", "attempt", 0>>, <<"attempt", "live", 0>>,
                              <<"idle", "idle", 1>>, <<"attempt", "idle", 1>>,
                              <<"live", "idle", 1>>, <<"idle", "over", 0>>}
      PROVE  [Contract!Next]_<<PhaseMap, rows>>
  <2>1. PhaseMap' = [PhaseMap EXCEPT ![v] = q] /\ PhaseMap[v] = p
    BY <1>a DEF PhaseMap
  <2>2. QED
    BY <1>a, <2>1 DEF Contract!Next, Contract!Begin, Contract!Establish,
       Contract!FailToBegin, Contract!Close, Contract!Leave, Contract!Move,
       Contract!RowsGrowBy
(* A move that the contract does not see.                                  *)
<1>b. ASSUME rows' = rows, \A w \in VCs : PhaseOf(w)' = PhaseOf(w)
      PROVE  [Contract!Next]_<<PhaseMap, rows>>
  BY <1>b DEF PhaseMap
(* The other clients stay where they are.                                  *)
<1>c. ASSUME NEW v \in VCs, NEW l, pc' = [pc EXCEPT ![v] = l],
             \A w \in VCs \ {v} : established'[w] = established[w]
      PROVE  \A w \in VCs \ {v} : PhaseOf(w)' = PhaseOf(w)
  BY <1>c DEF PhaseOf, TypeOK
<1>d. ASSUME NEW v \in VCs, rows' = rows
      PROVE  rows' = [rows EXCEPT ![v] = @ + 0]
  BY <1>d DEF TypeOK
<1>1. ASSUME NEW v \in VCs, Build(v) PROVE [Contract!Next]_<<PhaseMap, rows>>
  <2>1. PhaseOf(v) = "idle" /\ PhaseOf(v)' = "attempt"
    BY <1>1 DEF Build, Goto, PhaseOf, TypeOK
  <2>2. QED
    BY <1>1, <1>a, <1>c, <1>d, <2>1 DEF Build, Goto
<1>2. ASSUME NEW v \in VCs, BuildFails(v) PROVE [Contract!Next]_<<PhaseMap, rows>>
  <2>1. PICK l \in {"sendStopped", "sendRetrying"} : Goto(v, l)
    BY <1>2 DEF BuildFails, CountFailure
  <2>2. PhaseOf(v) = "idle" /\ PhaseOf(v)' = "idle"
    BY <1>2, <2>1 DEF BuildFails, Goto, PhaseOf, TypeOK
  <2>3. rows' = [rows EXCEPT ![v] = @ + 1]
    BY <1>2 DEF BuildFails, RecordLifecycle
  <2>4. QED
    BY <1>2, <1>a, <1>c, <2>1, <2>2, <2>3 DEF BuildFails, Goto
<1>3. ASSUME NEW v \in VCs, Establishment(v) PROVE [Contract!Next]_<<PhaseMap, rows>>
  <2>1. PhaseOf(v)' = PhaseOf(v)
    BY <1>3 DEF Establishment, Goto, PhaseOf, TypeOK
  <2>2. \A w \in VCs \ {v} : established'[w] = established[w]
    BY <1>3 DEF Establishment, TypeOK
  <2>3. QED
    BY <1>3, <1>b, <1>c, <2>1, <2>2 DEF Establishment, Goto
<1>4. ASSUME NEW v \in VCs, NoEstablishment(v) \/ SendConnected(v)
      PROVE  [Contract!Next]_<<PhaseMap, rows>>
  <2>1. Goto(v, "run") /\ UNCHANGED <<established, rows>>
        /\ pc[v] \in {"establish", "sendConnected"}
    BY <1>4 DEF NoEstablishment, SendConnected
  <2>2. PhaseOf(v) = "attempt" /\ PhaseOf(v)' = IF established[v] THEN "live" ELSE "attempt"
    BY <2>1 DEF Goto, PhaseOf, TypeOK
  <2>3. \A w \in VCs \ {v} : PhaseOf(w)' = PhaseOf(w)
    BY <2>1, <1>c DEF Goto
  <2>4. CASE established[v]
    BY <1>a, <1>d, <2>1, <2>2, <2>3, <2>4
  <2>5. CASE ~established[v]
    BY <1>b, <2>1, <2>2, <2>3, <2>5
  <2>6. QED
    BY <2>4, <2>5
<1>5. ASSUME NEW v \in VCs, EndOrderly(v) PROVE [Contract!Next]_<<PhaseMap, rows>>
  <2>1. PhaseOf(v)' = PhaseOf(v)
    BY <1>5 DEF EndOrderly, Goto, PhaseOf, TypeOK
  <2>2. QED
    BY <1>5, <1>b, <1>c, <2>1 DEF EndOrderly, Goto
<1>6. ASSUME NEW v \in VCs, EndUnexpected(v) PROVE [Contract!Next]_<<PhaseMap, rows>>
  <2>1. PhaseOf(v) \in {"attempt", "live"} /\ PhaseOf(v)' = "idle"
    BY <1>6 DEF EndUnexpected, Goto, PhaseOf, TypeOK
  <2>2. rows' = [rows EXCEPT ![v] = @ + 1]
    BY <1>6 DEF EndUnexpected, RecordLifecycle
  <2>3. QED
    BY <1>6, <1>a, <1>c, <2>1, <2>2 DEF EndUnexpected, Goto
<1>7. ASSUME NEW v \in VCs, Close(v) PROVE [Contract!Next]_<<PhaseMap, rows>>
  <2>1. PICK l \in {"sendStopped", "sendDisconnected"} : Goto(v, l)
    BY <1>7 DEF Close
  <2>2. PhaseOf(v) \in {"attempt", "live"} /\ PhaseOf(v)' = "idle"
    BY <1>7, <2>1 DEF Close, Goto, PhaseOf, TypeOK
  <2>3. rows' = [rows EXCEPT ![v] = @ + 1]
    BY <1>7 DEF Close, RecordLifecycle
  <2>4. QED
    BY <1>7, <1>a, <1>c, <2>1, <2>2, <2>3 DEF Close, Goto
<1>8. ASSUME NEW v \in VCs, Wake(v) \/ SendRetrying(v) PROVE [Contract!Next]_<<PhaseMap, rows>>
  <2>1. PICK l \in {"sendStopped", "build", "retryWait"} : Goto(v, l)
    BY <1>8 DEF Wake, SendRetrying
  <2>2. PhaseOf(v)' = PhaseOf(v)
    BY <1>8, <2>1 DEF Wake, SendRetrying, Goto, PhaseOf, TypeOK
  <2>3. QED
    BY <1>8, <1>b, <1>c, <2>1, <2>2 DEF Wake, SendRetrying, Goto
<1>9. ASSUME NEW v \in VCs, SendDisconnected(v) PROVE [Contract!Next]_<<PhaseMap, rows>>
  <2>1. PICK l \in {"sendStopped", "sendRetrying", "repeatWait", "build"} : Goto(v, l)
    BY <1>9 DEF SendDisconnected, CountFailure
  <2>2. PhaseOf(v)' = PhaseOf(v)
    BY <1>9, <2>1 DEF SendDisconnected, Goto, PhaseOf, TypeOK
  <2>3. \A w \in VCs \ {v} : established'[w] = established[w]
    BY <1>9 DEF SendDisconnected, TypeOK
  <2>4. rows' = rows
    BY <1>9 DEF SendDisconnected
  <2>5. QED
    BY <1>b, <1>c, <2>1, <2>2, <2>3, <2>4 DEF Goto
<1>10. ASSUME NEW v \in VCs, SendStopped(v) PROVE [Contract!Next]_<<PhaseMap, rows>>
  <2>1. PhaseOf(v) = "idle" /\ PhaseOf(v)' = "over"
    BY <1>10 DEF SendStopped, Goto, PhaseOf, TypeOK
  <2>2. QED
    BY <1>10, <1>a, <1>c, <1>d, <2>1 DEF SendStopped, Goto
<1>11. CASE UNCHANGED <<pc, established, rows>>
  BY <1>b, <1>11 DEF PhaseOf
<1>12. CASE Collector \/ Cancel \/ WarmupElapses \/ Terminated \/ UNCHANGED vars
  BY <1>11, <1>12 DEF Collector, Aggregate, AggregatorCancelled, AggregatorClosed,
     Cancel, WarmupElapses, Terminated, vars
<1>13. QED
  BY <1>1, <1>2, <1>3, <1>4, <1>5, <1>6, <1>7, <1>8, <1>9, <1>10, <1>12 DEF Next, Client

(* The connection loop implements the contract: one lifecycle row for every *)
(* attempt on every path, and nothing after the client is over.             *)
THEOREM ImplementsContract == Spec => OneRowPerAttempt
<1>1. Init => Contract!Init
  <2> SUFFICES ASSUME Init PROVE Contract!Init
    OBVIOUS
  <2>1. \A v \in VCs : PhaseOf(v) = "idle"
    BY DEF Init, PhaseOf
  <2>2. QED
    BY <2>1 DEF Init, Contract!Init, PhaseMap
<1>2. QED
  BY <1>1, StepSimulation, TypeCorrect, PTL DEF Spec, OneRowPerAttempt, Contract!Spec

-----------------------------------------------------------------------------
(* The summary of a test that ended by itself.                             *)

(* How many events of a kind are in the channel.                           *)
Weight(k) == [e \in Events |-> IF e.kind = k THEN 1 ELSE 0]
Queued(k) == Tally(Weight(k), chan)

LEMMA Queue ==
  ASSUME chan \in Seq(Events), NEW k
  PROVE  Queued(k) \in Nat /\ (chan = <<>> => Queued(k) = 0)
<1>1. Weight(k) \in [Events -> Nat]
  BY DEF Weight
<1>2. Tally(Weight(k), chan) \in Nat
  BY <1>1, TallyOfConcat
<1>3. Tally(Weight(k), <<>>) = 0
  BY TallyOfEmpty
<1> QED BY <1>2, <1>3 DEF Queued

LEMMA QueueAppend ==
  ASSUME chan \in Seq(Events), NEW e \in Events, chan' = Append(chan, e), NEW k
  PROVE  Queued(k)' = Queued(k) + (IF e.kind = k THEN 1 ELSE 0)
<1>1. Weight(k) \in [Events -> Nat] /\ Weight(k)[e] = IF e.kind = k THEN 1 ELSE 0
  BY DEF Weight
<1>2. <<e>> \in Seq(Events) /\ Tally(Weight(k), <<e>>) = Weight(k)[e]
  BY <1>1, TallyOfOne
<1>3. chan' = chan \o <<e>>
  OBVIOUS
<1>4. Tally(Weight(k), chan \o <<e>>) = Tally(Weight(k), chan) + Tally(Weight(k), <<e>>)
  BY <1>1, <1>2, TallyOfConcat
<1> QED BY <1>1, <1>2, <1>3, <1>4 DEF Queued

LEMMA QueueTake ==
  ASSUME chan \in Seq(Events), chan # <<>>, chan' = Tail(chan), NEW k
  PROVE  /\ Head(chan) \in Events
         /\ Queued(k) = (IF Head(chan).kind = k THEN 1 ELSE 0) + Queued(k)'
<1>1. Weight(k) \in [Events -> Nat]
  BY DEF Weight
<1>2. /\ Head(chan) \in Events
      /\ Tally(Weight(k), chan) = Weight(k)[Head(chan)] + Tally(Weight(k), Tail(chan))
  BY <1>1, TallyOfTail
<1>3. Weight(k)[Head(chan)] = IF Head(chan).kind = k THEN 1 ELSE 0
  BY <1>2 DEF Weight
<1> QED BY <1>2, <1>3 DEF Queued

(* Each attempt but the one under way has its row; while the test was not   *)
(* cancelled nobody shuts down, and a client that gave up is not            *)
(* established.                                                             *)
Attempting(v) == pc[v] \in {"establish", "sendConnected", "run", "close"}

PathInv ==
  \A v \in VCs :
    /\ attempts[v] = rows[v] + (IF Attempting(v) THEN 1 ELSE 0)
    /\ established[v] /\ pc[v] \in {"sendStopped", "done"} => cancelled
    /\ reason[v] = "Shutdown" => cancelled

(* The events of the channel are what the summary lacks.                    *)
Over == {v \in VCs : pc[v] = "done"}

SumInv ==
  /\ agg # "cancelled" =>
       /\ snap.stopped + Queued("Stopped") = Cardinality(Over)
       /\ TotalOver(Buckets, tally) + Queued("Ended") + lost = TotalOver(VCs, rows)
  /\ agg = "closed" => chan = <<>> /\ Over = VCs /\ snap.connected = 0

LEMMA PathNext == TypeOK /\ FlagsFit /\ PathInv /\ [Next]_vars => PathInv'
<1> SUFFICES ASSUME TypeOK, FlagsFit, PathInv, [Next]_vars PROVE PathInv'
  OBVIOUS
<1> USE DEF PathInv, Attempting
<1>1. ASSUME NEW v \in VCs, Build(v) \/ Establishment(v) \/ NoEstablishment(v) \/ EndOrderly(v)
                            \/ SendConnected(v)
      PROVE  PathInv'
  <2>1. CASE Build(v)
    BY SMTT(30), <2>1 DEF Build, Goto, TypeOK
  <2>2. CASE Establishment(v) \/ NoEstablishment(v) \/ SendConnected(v)
    BY <2>2 DEF Establishment, NoEstablishment, SendConnected, Goto, TypeOK
  <2>3. CASE EndOrderly(v)
    BY <2>3 DEF EndOrderly, OrderlyEnds, Goto, TypeOK
  <2> QED BY <1>1, <2>1, <2>2, <2>3
<1>2. ASSUME NEW v \in VCs, Wake(v) \/ SendRetrying(v) \/ SendStopped(v)
      PROVE  PathInv'
  BY SMTT(30), <1>2 DEF Wake, SendRetrying, SendStopped, Goto, TypeOK, FlagsFit
<1>3. ASSUME NEW v \in VCs, BuildFails(v) \/ EndUnexpected(v) \/ Close(v)
      PROVE  PathInv'
  BY SMTT(30), <1>3 DEF BuildFails, EndUnexpected, Close, RecordLifecycle, CountFailure, Goto, TypeOK, FlagsFit
<1>4. ASSUME NEW v \in VCs, SendDisconnected(v)
      PROVE  PathInv'
  BY <1>4 DEF SendDisconnected, CountFailure, Goto, TypeOK
<1>5. CASE Collector \/ Cancel \/ WarmupElapses \/ Terminated \/ UNCHANGED vars
  BY <1>5 DEF Collector, Aggregate, AggregatorCancelled, AggregatorClosed, Cancel, WarmupElapses,
              Terminated, vars, clientVars
<1> QED BY <1>1, <1>2, <1>3, <1>4, <1>5 DEF Next, Client

LEMMA BucketsFinite == IsFiniteSet(Buckets)
<1>1. Buckets = {"success"} \cup {"failure"} \cup {"unjudged"} \cup {"warmup"}
  BY DEF Buckets
<1> QED BY <1>1, FS_Singleton, FS_Union

(* What the sums are made of.                                               *)
LEMMA SumNat ==
  ASSUME TypeOK
  PROVE  /\ \A k : Queued(k) \in Nat
         /\ TotalOver(Buckets, tally) \in Nat /\ TotalOver(VCs, rows) \in Nat
         /\ lost \in Nat /\ snap.stopped \in Nat
         /\ IsFiniteSet(Over) /\ Cardinality(Over) \in Nat
<1>1. TotalOver(Buckets, tally) \in Nat
  BY BucketsFinite, TotalOverIsNat DEF TypeOK
<1>2. TotalOver(VCs, rows) \in Nat
  BY ModeAssumption, TotalOverIsNat DEF TypeOK
<1>3. IsFiniteSet(Over) /\ Cardinality(Over) \in Nat
  BY ModeAssumption, FS_Subset, FS_CardinalityType DEF Over
<1>4. \A k : Queued(k) \in Nat
  BY Queue DEF TypeOK
<1> QED BY <1>1, <1>2, <1>3, <1>4 DEF TypeOK

LEMMA SumInit == Init => SumInv /\ PathInv
<1> SUFFICES ASSUME Init PROVE SumInv /\ PathInv
  OBVIOUS
<1>1. chan \in Seq(Events) /\ Over = {}
  BY DEF Init, Over
<1>2. Queued("Stopped") = 0 /\ Queued("Ended") = 0
  BY <1>1, Queue DEF Init
<1>3. TotalOver(Buckets, tally) = 0
  BY BucketsFinite, TotalOverZeros DEF Init
<1>4. TotalOver(VCs, rows) = 0
  BY ModeAssumption, TotalOverZeros DEF Init
<1>5. Cardinality(Over) = 0
  BY <1>1, FS_EmptySet
<1>6. PathInv
  BY DEF Init, PathInv, Attempting
<1> QED BY <1>2, <1>3, <1>4, <1>5, <1>6 DEF Init, SumInv

LEMMA StaysOver ==
  ASSUME TypeOK, NEW v \in VCs, pc[v] # "done", NEW l, l # "done", Goto(v, l)
  PROVE  Over' = Over /\ v \notin Over
BY DEF TypeOK, Goto, Over

LEMMA SumQuiet ==
  ASSUME SumInv, Over' = Over, UNCHANGED <<chan, agg, snap, tally, lost, rows>>
  PROVE  SumInv'
<1>1. Queued("Stopped")' = Queued("Stopped") /\ Queued("Ended")' = Queued("Ended")
  BY DEF Queued
<1> QED BY <1>1 DEF SumInv

(* An event that the sums are not about.                                    *)
LEMMA SumOther ==
  ASSUME TypeOK, SumInv, Over' = Over, NEW v \in VCs, v \notin Over,
         NEW k \in Kinds \ {"Stopped", "Ended"}, Send(Event(k, v)),
         UNCHANGED <<agg, snap, tally, lost, rows>>
  PROVE  SumInv'
<1>1. agg # "closed"
  BY DEF SumInv
<1>2. CASE agg = "cancelled"
  BY <1>2 DEF SumInv
<1>3. CASE agg = "running"
  <2>1. chan' = Append(chan, Event(k, v)) /\ Event(k, v) \in Events /\ Event(k, v).kind = k
    BY <1>3, EventType DEF Send, Event
  <2>2. chan \in Seq(Events)
    BY DEF TypeOK
  <2>3. Queued("Stopped")' = Queued("Stopped") + 0 /\ Queued("Ended")' = Queued("Ended") + 0
    BY <2>1, <2>2, QueueAppend
  <2> QED BY <1>3, <2>3, SumNat DEF SumInv
<1> QED BY <1>1, <1>2, <1>3 DEF TypeOK

(* The lifecycle row, and its outcome in the channel or lost.               *)
LEMMA SumRecord ==
  ASSUME TypeOK, SumInv, Over' = Over, NEW v \in VCs, v \notin Over,
         NEW r, RecordLifecycle(v, r), UNCHANGED <<agg, snap, tally>>
  PROVE  SumInv'
<1>1. agg # "closed"
  BY DEF SumInv
<1>2. CASE agg = "cancelled"
  BY <1>2 DEF SumInv
<1>3. CASE agg = "running"
  <2>1. PICK b \in BucketsOf(v, r) : TrySend([kind |-> "Ended", vc |-> v, bucket |-> b])
    BY DEF RecordLifecycle
  <2>2. b \in Buckets
    BY BoundAssumption DEF BucketsOf, Buckets
  <2> DEFINE e == [kind |-> "Ended", vc |-> v, bucket |-> b]
  <2>3. e \in Events /\ e.kind = "Ended"
    BY <2>2 DEF Events, Kinds, Buckets
  <2>4. chan \in Seq(Events) /\ rows \in [VCs -> Nat] /\ rows[v] \in Nat
    BY DEF TypeOK
  <2>5. TotalOver(VCs, rows') = TotalOver(VCs, rows) + 1
    <3> DEFINE T == TotalOver(VCs, rows)
               U == TotalOver(VCs, rows')
               n == rows[v]
    <3>1. rows' = [rows EXCEPT ![v] = rows[v] + 1] /\ rows[v] + 1 \in Nat
      BY <2>4 DEF RecordLifecycle
    <3>2. \A g \in [VCs -> Nat], y \in VCs, k \in Nat :
            TotalOver(VCs, [g EXCEPT ![y] = k]) + g[y] = TotalOver(VCs, g) + k
      <4>1. IsFiniteSet(VCs)
        BY ModeAssumption
      <4> QED BY <4>1, TotalOverExcept
    <3>3. TotalOver(VCs, [rows EXCEPT ![v] = rows[v] + 1]) + rows[v] = TotalOver(VCs, rows) + (rows[v] + 1)
      BY <2>4, <3>1, <3>2
    <3>4. rows' \in [VCs -> Nat]
      BY <2>4, <3>1
    <3>5. U \in Nat /\ T \in Nat /\ n \in Nat
      BY <2>4, <3>4, ModeAssumption, TotalOverIsNat
    <3>6. U + n = T + (n + 1)
      <4>1. TotalOver(VCs, rows') = TotalOver(VCs, [rows EXCEPT ![v] = rows[v] + 1])
        BY <3>1, Zenon
      <4> QED BY <3>3, <4>1
    <3> HIDE DEF T, U, n
    <3>7. U = T + 1
      BY <3>5, <3>6
    <3> QED BY <3>7 DEF T, U
  <2>6. \/ /\ lost' = lost
           /\ Queued("Stopped")' = Queued("Stopped") + 0 /\ Queued("Ended")' = Queued("Ended") + 1
        \/ lost' = lost + 1 /\ chan' = chan
    <3> HIDE DEF e
    <3>1. CASE chan' = Append(chan, e) /\ lost' = lost
      BY <2>3, <2>4, <3>1, QueueAppend
    <3> QED BY <1>3, <2>1, <3>1 DEF TrySend, e
  <2>7. CASE lost' = lost + 1 /\ chan' = chan
    <3>1. Queued("Stopped")' = Queued("Stopped") /\ Queued("Ended")' = Queued("Ended")
      BY <2>7 DEF Queued
    <3> QED BY <1>3, <2>5, <2>7, <3>1, SumNat DEF SumInv
  <2>8. CASE /\ lost' = lost
             /\ Queued("Stopped")' = Queued("Stopped") + 0 /\ Queued("Ended")' = Queued("Ended") + 1
    BY <1>3, <2>5, <2>8, SumNat DEF SumInv
  <2> QED BY <2>6, <2>7, <2>8
<1> QED BY <1>1, <1>2, <1>3 DEF TypeOK

(* The last event of a client.                                              *)
LEMMA SumStopped ==
  ASSUME TypeOK, SumInv, NEW v \in VCs, SendStopped(v)
  PROVE  SumInv'
<1>1. v \notin Over /\ Over' = Over \cup {v}
  BY DEF SendStopped, Goto, Over, TypeOK
<1>2. UNCHANGED <<agg, snap, tally, lost, rows>> /\ agg # "closed"
  BY <1>1 DEF SendStopped, SumInv, collectorVars
<1>3. CASE agg = "cancelled"
  BY <1>2, <1>3 DEF SumInv
<1>4. CASE agg = "running"
  <2>1. chan' = Append(chan, Event("Stopped", v)) /\ Event("Stopped", v).kind = "Stopped"
        /\ Event("Stopped", v) \in Events
    BY <1>4, EventType DEF SendStopped, Send, Event, Kinds
  <2>2. chan \in Seq(Events)
    BY DEF TypeOK
  <2>3. Queued("Stopped")' = Queued("Stopped") + 1 /\ Queued("Ended")' = Queued("Ended") + 0
    BY <2>1, <2>2, QueueAppend
  <2>4. Cardinality(Over') = Cardinality(Over) + 1
    BY <1>1, SumNat, FS_AddElement
  <2> QED BY <1>2, <1>4, <2>3, <2>4, SumNat DEF SumInv
<1> QED BY <1>2, <1>3, <1>4 DEF TypeOK

(* The collector applies an event.                                          *)
LEMMA SumApplied ==
  ASSUME TypeOK, SumInv, Aggregate
  PROVE  SumInv'
<1> DEFINE e == Head(chan)
<1>1. /\ agg = "running" /\ agg' = agg /\ UNCHANGED <<rows, lost>> /\ Over' = Over
      /\ chan \in Seq(Events) /\ chan # <<>> /\ chan' = Tail(chan)
      /\ snap'.stopped = snap.stopped + (IF e.kind = "Stopped" THEN 1 ELSE 0)
  BY DEF Aggregate, Apply, TypeOK, clientVars, Over
<1>2. e \in Events
  BY <1>1, QueueTake
<1>3. /\ Queued("Stopped") = (IF e.kind = "Stopped" THEN 1 ELSE 0) + Queued("Stopped")'
      /\ Queued("Ended") = (IF e.kind = "Ended" THEN 1 ELSE 0) + Queued("Ended")'
  BY <1>1, QueueTake
<1>4. Queued("Stopped")' \in Nat /\ Queued("Ended")' \in Nat
  <2>1. chan' \in Seq(Events)
    BY <1>1
  <2>2. \A c \in Seq(Events), w \in [Events -> Nat] : Tally(w, c) \in Nat
    BY TallyOfConcat
  <2>3. Weight("Stopped") \in [Events -> Nat] /\ Weight("Ended") \in [Events -> Nat]
    BY DEF Weight
  <2> QED BY <2>1, <2>2, <2>3 DEF Queued
<1>5. TotalOver(Buckets, tally') = TotalOver(Buckets, tally) + (IF e.kind = "Ended" THEN 1 ELSE 0)
  <2>1. CASE e.kind # "Ended"
    <3>1. tally' = tally
      BY <2>1 DEF Aggregate
    <3> QED BY <2>1, <3>1, SumNat
  <2>2. CASE e.kind = "Ended" /\ e.bucket \in Buckets
    <3> DEFINE b == e.bucket
               T == TotalOver(Buckets, tally)
               U == TotalOver(Buckets, tally')
               m == tally[b]
    <3>1. tally \in [Buckets -> Nat] /\ tally[b] \in Nat /\ tally[b] + 1 \in Nat
      BY <2>2 DEF TypeOK
    <3>2. tally' = [tally EXCEPT ![b] = tally[b] + 1]
      BY <2>2 DEF Aggregate
    <3>3. \A g \in [Buckets -> Nat], y \in Buckets, k \in Nat :
            TotalOver(Buckets, [g EXCEPT ![y] = k]) + g[y] = TotalOver(Buckets, g) + k
      BY BucketsFinite, TotalOverExcept
    <3>4. TotalOver(Buckets, [tally EXCEPT ![b] = tally[b] + 1]) + tally[b]
            = TotalOver(Buckets, tally) + (tally[b] + 1)
      BY <2>2, <3>1, <3>3
    <3>5. tally' \in [Buckets -> Nat]
      BY <3>1, <3>2
    <3>6. U \in Nat /\ T \in Nat /\ m \in Nat
      BY <3>1, <3>5, BucketsFinite, TotalOverIsNat
    <3>7. U + m = T + (m + 1)
      <4>1. TotalOver(Buckets, tally') = TotalOver(Buckets, [tally EXCEPT ![b] = tally[b] + 1])
        BY <3>2, Zenon
      <4> QED BY <3>4, <4>1
    <3> HIDE DEF T, U, m
    <3>8. U = T + 1
      BY <3>6, <3>7
    <3> QED BY <2>2, <3>8 DEF T, U
  <2>3. e.kind = "Ended" => e.bucket \in Buckets
    BY <1>2 DEF Events
  <2> QED BY <2>1, <2>2, <2>3
<1>6. agg' = "running" /\ Cardinality(Over') = Cardinality(Over)
  BY <1>1
<1>7. /\ snap.stopped + Queued("Stopped") = Cardinality(Over)
      /\ TotalOver(Buckets, tally) + Queued("Ended") + lost = TotalOver(VCs, rows)
  BY <1>1 DEF SumInv
<1>8. snap'.stopped + Queued("Stopped")' = snap.stopped + Queued("Stopped")
  BY <1>1, <1>3, <1>4, SumNat
<1>9. TotalOver(Buckets, tally') + Queued("Ended")' + lost'
        = TotalOver(Buckets, tally) + Queued("Ended") + lost
  BY <1>1, <1>3, <1>4, <1>5, SumNat
<1> HIDE DEF e
<1> QED BY <1>1, <1>6, <1>7, <1>8, <1>9 DEF SumInv

(* When the channel is drained and every client is over, what is left of    *)
(* the connected count is nothing.                                          *)
LEMMA SumClosed ==
  ASSUME TypeOK, CountInv, PathInv, SumInv, AggregatorClosed
  PROVE  SumInv'
<1>1. /\ agg = "running" /\ ~cancelled /\ chan = <<>> /\ agg' = "closed" /\ Over = VCs /\ Over' = Over
      /\ UNCHANGED <<chan, snap, tally, lost, rows>>
  BY DEF AggregatorClosed, clientVars, Over
<1>2. LiveClients = {}
  BY <1>1 DEF PathInv, LiveClients, Over
<1>3. seenLive = {}
  <2>1. Len(chan) = 0
    BY <1>1
  <2>2. \A v \in VCs : v \notin seenLive
    BY <1>1, <1>2, <2>1 DEF CountInv, Settled
  <2> QED BY <2>2 DEF TypeOK
<1>4. snap.connected = 0
  BY <1>1, <1>3, FS_EmptySet DEF CountInv, TypeOK
<1>5. Queued("Stopped")' = Queued("Stopped") /\ Queued("Ended")' = Queued("Ended")
  BY <1>1 DEF Queued
<1> QED BY <1>1, <1>4, <1>5 DEF SumInv

LEMMA SumNext == TypeOK /\ CountInv /\ PathInv /\ SumInv /\ [Next]_vars => SumInv'
<1> SUFFICES ASSUME TypeOK, CountInv, PathInv, SumInv, [Next]_vars PROVE SumInv'
  OBVIOUS
<1> USE DEF collectorVars
<1>1. ASSUME NEW v \in VCs, Build(v) \/ Establishment(v) \/ NoEstablishment(v) \/ EndOrderly(v) \/ Wake(v)
      PROVE  SumInv'
  <2>1. PICK l \in Locations \ {"done"} : Goto(v, l) /\ pc[v] # "done"
    BY <1>1 DEF Build, Establishment, NoEstablishment, EndOrderly, Wake, Locations
  <2> QED BY <1>1, <2>1, StaysOver, SumQuiet
          DEF Build, Establishment, NoEstablishment, EndOrderly, Wake
<1>2. ASSUME NEW v \in VCs, BuildFails(v) \/ EndUnexpected(v) \/ Close(v)
      PROVE  SumInv'
  <2>1. PICK l \in Locations \ {"done"} : Goto(v, l) /\ pc[v] # "done"
    BY <1>2 DEF BuildFails, EndUnexpected, Close, CountFailure, Locations
  <2>2. PICK r : RecordLifecycle(v, r)
    BY <1>2 DEF BuildFails, EndUnexpected, Close
  <2>3. Over' = Over /\ v \notin Over
    BY <2>1, StaysOver
  <2> QED BY <1>2, <2>2, <2>3, SumRecord DEF BuildFails, EndUnexpected, Close
<1>3. ASSUME NEW v \in VCs, SendConnected(v) \/ SendDisconnected(v) \/ SendRetrying(v)
      PROVE  SumInv'
  <2>1. PICK l \in Locations \ {"done"} : Goto(v, l) /\ pc[v] # "done"
    BY <1>3 DEF SendConnected, SendDisconnected, SendRetrying, CountFailure, Locations
  <2>2. PICK k \in Kinds \ {"Stopped", "Ended"} : Send(Event(k, v))
    BY <1>3 DEF SendConnected, SendDisconnected, SendRetrying, Kinds
  <2>3. Over' = Over /\ v \notin Over
    BY <2>1, StaysOver
  <2> QED BY <1>3, <2>2, <2>3, SumOther DEF SendConnected, SendDisconnected, SendRetrying
<1>4. CASE AggregatorCancelled
  <2>1. agg' = "cancelled"
    BY <1>4 DEF AggregatorCancelled
  <2> QED BY <2>1 DEF SumInv
<1>5. CASE Cancel \/ WarmupElapses \/ Terminated \/ UNCHANGED vars
  BY <1>5, SumQuiet DEF Cancel, WarmupElapses, Terminated, vars, clientVars, Over
<1> QED BY <1>1, <1>2, <1>3, <1>4, <1>5, SumStopped, SumApplied, SumClosed DEF Next, Client, Collector

(* SummarySettled: when a test ends by itself every client was counted as   *)
(* stopped once and none as connected, and every attempt has its row and    *)
(* its outcome in one bucket or in the lost ones (StatsCollector).          *)
THEOREM SettledSummary == Spec => []SummarySettled
<1>1. TypeOK /\ PathInv /\ SumInv => SummarySettled
  <2> SUFFICES ASSUME TypeOK, PathInv, SumInv, agg = "closed"
               PROVE  SummarySettled
    BY DEF SummarySettled, SettledAtClose, OutcomesAccounted
  <2>1. chan = <<>> /\ Over = VCs /\ snap.connected = 0
    BY DEF SumInv
  <2>2. Queued("Stopped") = 0 /\ Queued("Ended") = 0
    BY <2>1, Queue DEF TypeOK
  <2>3. snap.stopped = Cardinality(VCs)
    BY <2>1, <2>2, SumNat DEF SumInv
  <2>4. TotalOver(Buckets, tally) + lost = TotalOver(VCs, rows)
    BY <2>2, SumNat DEF SumInv
  <2>5. \A v \in VCs : rows[v] = attempts[v]
    <3> SUFFICES ASSUME NEW v \in VCs PROVE rows[v] = attempts[v]
      OBVIOUS
    <3>1. pc[v] = "done" /\ rows[v] \in Nat
      BY <2>1 DEF Over, TypeOK
    <3>2. attempts[v] = rows[v] + 0
      BY <3>1 DEF PathInv, Attempting
    <3> QED BY <3>1, <3>2
  <2> QED BY <2>1, <2>3, <2>4, <2>5 DEF SummarySettled, SettledAtClose, OutcomesAccounted
<1>2. TypeOK /\ CountInv /\ PathInv /\ [Next]_vars => PathInv'
  BY PathNext DEF CountInv
<1> QED BY <1>1, <1>2, SumInit, SumNext, TypeCorrect, CountCorrect, PTL DEF Spec

-----------------------------------------------------------------------------
(* The set-up: what its steps keep of the media settings it was given.      *)

PlayInv ==
  /\ phase \in {"peek", "parse"} => instances = <<>>
  /\ input \in LayerInputs \/ input \in MediaInputs
  /\ \A n \in DOMAIN input.media : Media(n) \in MediaSettings
  /\ \A n \in DOMAIN instances :
       /\ n \in DOMAIN input.media
       /\ parse_instance_args(Media(n), Audio(n))
       /\ AgreesWithCommon(Media(n), input.openh264)
       /\ phase = "run" /\ input.program = "zakuro" => Verified(n)

(* What the instance n has once it is set up.                               *)
Played(n) ==
  LET m == Media(n)
      i == instances[n]
  IN  /\ i # None => i.failed # "encoder"
      /\ i # None /\ i.failed = None =>
        /\ SendingRole(m.role) => \A v \in m.inputs \cap VideoInputs : i.video = v
        /\ SendingRole(m.role) /\ "wav" \in m.inputs /\ "device" \notin m.inputs => i.audio = "wav"
        /\ "mp4" \in m.inputs => /\ i.encoders[m.file.codec] = "mp4"
                                 /\ i.offer.codec = m.file.codec
        /\ m.encoder # None => i.encoders[m.encoder.codec] = m.encoder.impl
        /\ "video" \in m.no => i.video = None /\ i.offer.codec = None
        /\ ~Audio(n) \/ "audio" \in m.no => i.audio = None

LEMMA PlayedByAll == InputsArePlayed <=> \A n \in DOMAIN instances : Played(n)
BY Zenon DEF InputsArePlayed, Played

(* An accepted file has media settings for each instance.                   *)
LEMMA InstancesParsed ==
  ASSUME NEW program, NEW file, NEW cli, parse_args(program, file, cli).ok
  PROVE  DOMAIN parse_args(program, file, cli).instances \subseteq {1} \cup DOMAIN file.instances
<1> DEFINE argvs == expand_instances(program, file)
           read == [n \in DOMAIN argvs |->
                      Parsed(dedupe_argv_last_wins(argvs[n] \o split_cli_argv(program, cli).instance),
                             InstanceOptions)]
<1>1. DOMAIN argvs \subseteq {1} \cup DOMAIN file.instances
  BY DEF expand_instances
<1>2. parse_args(program, file, cli).instances = [n \in DOMAIN read |-> read[n].settings]
  BY Zenon DEF parse_args, Rejected
<1>3. DOMAIN parse_args(program, file, cli).instances = DOMAIN read /\ DOMAIN read = DOMAIN argvs
  BY <1>2
<1> QED BY <1>1, <1>3

(* The video input of accepted settings is the only one.                    *)
LEMMA OneVideoInput ==
  ASSUME NEW m \in MediaSettings, Alone(m), NEW v \in m.inputs \cap VideoInputs
  PROVE  m.inputs \cap VideoInputs = {v} /\ "video" \notin m.no
<1> DEFINE S == m.inputs \cap VideoInputs
<1>1. IsFiniteSet(VideoInputs)
  <2>1. \A x : IsFiniteSet({x})
    BY FS_Singleton
  <2>2. IsFiniteSet({"sandstorm"} \cup {"y4m"}) /\ IsFiniteSet({"device"} \cup {"mp4"})
    BY <2>1, FS_Union
  <2>3. VideoInputs = ({"sandstorm"} \cup {"y4m"}) \cup ({"device"} \cup {"mp4"})
    BY DEF VideoInputs
  <2> QED BY <2>2, <2>3, FS_Union
<1>2. IsFiniteSet(S) /\ Cardinality(S) \in Nat /\ Cardinality(S) <= 1
  BY <1>1, FS_Subset, FS_CardinalityType DEF Alone
<1>3. Cardinality({v}) = 1 /\ {v} \subseteq S
  BY FS_Singleton
<1>4. S = {v}
  BY <1>2, <1>3, FS_Subset
<1> QED BY <1>4 DEF Alone

(* Setting up an instance whose settings were accepted and verified.        *)
LEMMA SetUpPlays ==
  ASSUME PlayInv, NEW n \in DOMAIN instances, SetUp(n)
  PROVE  Played(n)'
<1> DEFINE m == Media(n)
           i == instances'[n]
<1>1. /\ phase = "run" /\ input.program = "zakuro" /\ UNCHANGED <<input, phase, logLevel, args>>
      /\ i = IF Failure(n) # None THEN [failed |-> Failure(n)]
             ELSE [failed |-> None, audio |-> AudioSource(n), video |-> VideoSource(n),
                   encoders |-> [c \in Codecs |-> PreferenceOf(m, input.openh264, c)],
                   offer |-> build_video(m)]
  BY DEF SetUp
<1>2. /\ m \in MediaSettings /\ parse_instance_args(m, Audio(n))
      /\ AgreesWithCommon(m, input.openh264) /\ Verified(n)
  BY <1>1 DEF PlayInv
<1>3. Media(n)' = m /\ Audio(n)' = Audio(n)
  BY <1>1 DEF Media, Audio
<1>4. Failure(n) # "encoder"
  BY <1>2, StartupAssumption DEF Failure, Verified
<1>5. CASE Failure(n) # None
  <2>1. i.failed = Failure(n)
    BY <1>1, <1>5
  <2> HIDE DEF i
  <2> QED BY <1>4, <1>5, <2>1 DEF Played, i
<1>6. CASE Failure(n) = None
  <2>1. /\ i.failed = None /\ i.audio = AudioSource(n) /\ i.video = VideoSource(n)
        /\ i.encoders = [c \in Codecs |-> PreferenceOf(m, input.openh264, c)]
        /\ i.offer = build_video(m)
    BY <1>1, <1>6
  <2> HIDE DEF i
  <2>2. "mp4" \in m.inputs => m.file.codec = m.codec
    BY <1>6, StartupAssumption DEF Failure
  <2>3. ASSUME SendingRole(m.role), NEW v \in m.inputs \cap VideoInputs PROVE i.video = v
    <3>1. m.inputs \cap VideoInputs = {v} /\ "video" \notin m.no
      BY <1>2, OneVideoInput DEF parse_instance_args
    <3> QED BY <2>1, <2>3, <3>1 DEF VideoSource, VideoInputs
  <2>4. ASSUME SendingRole(m.role), "wav" \in m.inputs, "device" \notin m.inputs
        PROVE  i.audio = "wav"
    <3>1. "mp4" \notin m.inputs /\ "audio" \notin m.no /\ Audio(n)
      BY <1>2, <2>4 DEF parse_instance_args, ValidMp4, ValidWav
    <3>2. UseFakeAudio(n)
      BY <2>4, <3>1 DEF UseFakeAudio, WantsSendAudio
    <3> QED BY <2>1, <2>4, <3>2 DEF AudioSource
  <2>5. ASSUME "mp4" \in m.inputs
        PROVE  i.encoders[m.file.codec] = "mp4" /\ i.offer.codec = m.file.codec
    <3>1. /\ m.codec # None /\ m.encoder = None /\ ~input.openh264
          /\ m.file.codec = m.codec /\ m.codec \in Codecs
      BY <1>2, <2>2, <2>5 DEF parse_instance_args, ValidMp4, AgreesWithCommon, MediaSettings
    <3>2. "mp4" \in m.inputs \cap VideoInputs
      BY <2>5 DEF VideoInputs
    <3>3. "video" \notin m.no
      BY <1>2, <3>2, OneVideoInput DEF parse_instance_args
    <3>4. i.encoders[m.file.codec] = PreferenceOf(m, input.openh264, m.file.codec)
      BY <2>1, <3>1
    <3> QED BY <2>1, <2>5, <3>1, <3>3, <3>4 DEF PreferenceOf, build_video
  <2>6. ASSUME m.encoder # None
        PROVE  i.encoders[m.encoder.codec] = m.encoder.impl
    <3>1. m.encoder \in Encoders
      BY <1>2, <2>6 DEF MediaSettings
    <3>2. m.encoder.codec \in Codecs
      BY <3>1 DEF Encoders
    <3> QED BY <2>1, <2>6, <3>2 DEF PreferenceOf
  <2>7. ASSUME "video" \in m.no PROVE i.video = None /\ i.offer.codec = None
    BY <2>1, <2>7 DEF VideoSource, build_video
  <2>8. ASSUME ~Audio(n) \/ "audio" \in m.no PROVE i.audio = None
    BY <2>1, <2>8 DEF AudioSource, UseFakeAudio, WantsSendAudio
  <2>9. i.failed # "encoder"
    BY <1>4, <1>6, <2>1
  <2> HIDE DEF m
  <2>10. input' = input /\ Media(n)' = m
    BY <1>1, <1>3 DEF m
  <2> QED BY <1>3, <2>3, <2>4, <2>5, <2>6, <2>7, <2>8, <2>9, <2>10 DEF Played, i
<1> QED BY <1>5, <1>6

LEMMA PlayInit == StartupInit => PlayInv /\ InputsArePlayed
BY DEF StartupInit, PlayInv, InputsArePlayed, Media

(* The parse gives instances whose settings agree.                          *)
LEMMA ParseStep ==
  ASSUME PlayInv, ParseArgs
  PROVE  PlayInv' /\ InputsArePlayed'
<1> DEFINE parsed == parse_args(input.program, input.file, input.cli)
           accepted == parsed.ok /\ \A n \in DOMAIN parsed.instances :
             /\ parse_instance_args(input.media[n], parsed.instances[n]["audio"] # "false")
             /\ AgreesWithCommon(input.media[n], input.openh264)
<1>1. /\ args' = IF accepted THEN parsed ELSE Rejected
      /\ phase' = IF ~accepted THEN "stopped"
                  ELSE IF input.program = "zakuro" THEN "load" ELSE "run"
      /\ instances' = [n \in DOMAIN args'.instances |-> None]
      /\ UNCHANGED <<input, logLevel>>
  BY DEF ParseArgs
<1>2. DOMAIN instances' = DOMAIN args'.instances /\ \A n \in DOMAIN instances' : instances'[n] = None
  BY <1>1
<1>3. MediaGiven(input)
  BY StartupAssumption DEF PlayInv
<1>4. \A n \in DOMAIN parsed.instances : parsed.ok => n \in DOMAIN input.media
  <2>1. parsed.ok => DOMAIN parsed.instances \subseteq {1} \cup DOMAIN input.file.instances
    BY InstancesParsed
  <2> QED BY <1>3, <2>1 DEF MediaGiven
<1>5. InputsArePlayed'
  BY <1>2 DEF InputsArePlayed
<1>6. CASE ~accepted
  <2>1. args'.instances = <<>>
    BY <1>1, <1>6 DEF Rejected
  <2>2. DOMAIN instances' = {} /\ instances' = <<>>
    BY <1>1, <2>1
  <2> QED BY <1>1, <1>5, <2>2 DEF PlayInv, Media
<1>7. CASE accepted
  <2> HIDE DEF parsed
  <2>1. args' = parsed /\ DOMAIN instances' = DOMAIN parsed.instances
    BY <1>1, <1>2, <1>7
  <2>2. \A n \in DOMAIN instances' :
          /\ n \in DOMAIN input.media
          /\ parse_instance_args(Media(n)', Audio(n)')
          /\ AgreesWithCommon(Media(n)', input.openh264)
    BY <1>1, <1>4, <1>7, <2>1 DEF Media, Audio
  <2>3. phase' \notin {"peek", "parse"} /\ (phase' = "run" => input.program # "zakuro")
    BY <1>1, <1>7
  <2>4. \A n : Media(n)' = Media(n)
    BY <1>1 DEF Media
  <2> QED BY <1>1, <1>5, <2>2, <2>3, <2>4 DEF PlayInv
<1> QED BY <1>6, <1>7

LEMMA PlayStep == PlayInv /\ InputsArePlayed /\ [StartupNext]_startupVars => PlayInv' /\ InputsArePlayed'
<1> SUFFICES ASSUME PlayInv, InputsArePlayed, [StartupNext]_startupVars
             PROVE  PlayInv' /\ InputsArePlayed'
  OBVIOUS
<1>1. CASE UNCHANGED startupVars
  <2>1. \A n : Media(n)' = Media(n) /\ Audio(n)' = Audio(n) /\ (Played(n)' <=> Played(n))
                /\ (Verified(n)' <=> Verified(n))
    BY <1>1 DEF startupVars, Media, Audio, Played, Verified
  <2> QED BY <1>1, <2>1, PlayedByAll DEF startupVars, PlayInv, InputsArePlayed, Played
<1>2. CASE ParseArgs
  BY <1>2, ParseStep
<1>3. ASSUME UNCHANGED <<input, args, instances>>,
             phase' \in {"parse", "load", "verify", "stopped"} \/ Verify,
             phase \notin {"peek", "parse"} => phase' \notin {"peek", "parse"}
      PROVE  PlayInv' /\ InputsArePlayed'
  <2>1. \A n : Media(n)' = Media(n) /\ Audio(n)' = Audio(n) /\ (Played(n)' <=> Played(n))
                /\ (Verified(n)' <=> Verified(n))
    BY <1>3 DEF Media, Audio, Played, Verified
  <2>2. phase' = "run" => \A n \in DOMAIN instances : Verified(n)
    BY <1>3 DEF Verify
  <2>3. InputsArePlayed'
    BY <1>3, <2>1, PlayedByAll DEF InputsArePlayed, Played
  <2> QED BY <1>3, <2>1, <2>2, <2>3 DEF PlayInv
<1>4. CASE PeekLogConfig \/ LoadLibrary \/ LoadFails \/ Verify \/ VerifyFails \/ CommonFails
  BY <1>3, <1>4 DEF PeekLogConfig, LoadLibrary, LoadFails, Verify, VerifyFails, CommonFails, Stop
<1>5. ASSUME NEW n \in DOMAIN instances, SetUp(n) \/ InputFails(n)
      PROVE  PlayInv' /\ InputsArePlayed'
  <2>1. /\ UNCHANGED <<input, phase, logLevel, args>> /\ phase = "run"
        /\ DOMAIN instances' = DOMAIN instances
        /\ \A k \in DOMAIN instances : k # n => instances'[k] = instances[k]
    BY <1>5 DEF SetUp, InputFails
  <2>2. \A k : Media(k)' = Media(k) /\ Audio(k)' = Audio(k) /\ (Verified(k)' <=> Verified(k))
    BY <2>1 DEF Media, Audio, Verified
  <2>3. PlayInv'
    BY <2>1, <2>2 DEF PlayInv
  <2>4. Played(n)'
    <3>1. CASE SetUp(n)
      BY <3>1, SetUpPlays
    <3>2. CASE InputFails(n)
      <4>1. instances'[n] = [failed |-> "input"]
        BY <3>2 DEF InputFails
      <4>2. instances'[n].failed = "input"
        BY <4>1
      <4> QED BY <4>2, StartupAssumption DEF Played
    <3> QED BY <1>5, <3>1, <3>2
  <2>5. ASSUME NEW k \in DOMAIN instances, k # n PROVE Played(k)'
    BY <2>1, <2>2, <2>5, PlayedByAll DEF Played
  <2>6. \A k \in DOMAIN instances' : Played(k)'
    BY <2>1, <2>4, <2>5
  <2> QED BY <2>3, <2>6 DEF InputsArePlayed, Played
<1> QED BY <1>1, <1>2, <1>4, <1>5 DEF StartupNext

(* Every input that was named is played, and what was verified first is     *)
(* what the instances build, whatever layers and media settings are given.  *)
THEOREM InputsPlayed == StartupSpec => []InputsArePlayed
BY PlayInit, PlayStep, PTL DEF StartupSpec

-----------------------------------------------------------------------------
(* The process is its set-up, an instance and a client's messages: each is  *)
(* started as its own module says, and keeps to its own steps.              *)

ChosenInv ==
  \A n \in DOMAIN instances : IsSetUp(n) =>
    /\ instances[n].audio \in {None, "wav", "generated", "mp4"}
    /\ instances[n].video \in {None, "y4m", "sandstorm", "generated", "device", "mp4"}

LEMMA ChosenStep == ChosenInv /\ [StartupNext]_startupVars => ChosenInv'
<1> SUFFICES ASSUME ChosenInv, [StartupNext]_startupVars PROVE ChosenInv'
  OBVIOUS
<1>1. CASE UNCHANGED instances
  BY <1>1 DEF ChosenInv, IsSetUp
<1>2. CASE ParseArgs
  <2>1. \A n \in DOMAIN instances' : instances'[n] = None
    BY <1>2 DEF ParseArgs
  <2> QED BY <2>1 DEF ChosenInv, IsSetUp
<1>3. ASSUME NEW n \in DOMAIN instances, SetUp(n) \/ InputFails(n) PROVE ChosenInv'
  <2> DEFINE Chosen(i) == /\ i.audio \in {None, "wav", "generated", "mp4"}
                          /\ i.video \in {None, "y4m", "sandstorm", "generated", "device", "mp4"}
             made == [failed |-> None, audio |-> AudioSource(n), video |-> VideoSource(n),
                      encoders |-> [c \in Codecs |-> PreferenceOf(Media(n), input.openh264, c)],
                      offer |-> build_video(Media(n))]
  <2>1. instances'[n].failed = None => Chosen(instances'[n])
    <3>1. CASE InputFails(n)
      <4>1. instances'[n] = [failed |-> "input"]
        BY <3>1 DEF InputFails
      <4> QED BY <4>1, StartupAssumption
    <3>2. CASE SetUp(n)
      <4>1. instances'[n] = IF Failure(n) # None THEN [failed |-> Failure(n)] ELSE made
        BY <3>2 DEF SetUp
      <4>2. Chosen(made)
        BY DEF AudioSource, VideoSource
      <4>3. Failure(n) # None => [failed |-> Failure(n)].failed # None
        OBVIOUS
      <4> HIDE DEF made, Chosen
      <4> QED BY <4>1, <4>2, <4>3
    <3> QED BY <1>3, <3>1, <3>2
  <2>2. DOMAIN instances' = DOMAIN instances /\ \A k \in DOMAIN instances : k # n => instances'[k] = instances[k]
    BY <1>3 DEF SetUp, InputFails
  <2> QED BY <2>1, <2>2 DEF ChosenInv, IsSetUp
<1> QED
  BY <1>1, <1>2, <1>3 DEF StartupNext, startupVars, PeekLogConfig, LoadLibrary, LoadFails, Verify,
     VerifyFails, CommonFails, Stop

LEMMA ComposedStep ==
  ASSUME PlayInv, ChosenInv, [ZakuroNext]_zakuroVars
  PROVE  /\ [StartupNext]_startupVars
         /\ [I!SetUp \/ (stage # "idle" /\ I!Next)]_(I!vars)
         /\ [C!SetUp \/ (connection.at # "idle" /\ C!Next)]_(C!vars)
<1>1. UNCHANGED playing => UNCHANGED I!vars
  BY DEF playing, I!vars, I!sources, I!playing, I!device, I!coding
<1>2. UNCHANGED talking => UNCHANGED C!vars
  BY DEF talking, C!vars
<1>3. Launch => I!SetUp
  BY DEF Launch, ChosenInv, IsSetUp, I!SetUp
<1>4. ASSUME Talk PROVE C!SetUp
  <2>1. PICK t \in Talks : C!Start(Media(1).channels, t.scenario)
    BY <1>4 DEF Talk
  <2>2. Media(1) \in MediaSettings
    BY <1>4 DEF Talk, IsSetUp, PlayInv
  <2>3. Media(1).channels \in Descriptions
    BY <2>2 DEF MediaSettings
  <2>4. Media(1).channels \in Seq(C!Described) /\ t.scenario \in Seq(C!Operations)
    BY <2>3, ZakuroAssumption
  <2> QED BY <2>1, <2>4 DEF C!SetUp
<1> QED BY <1>1, <1>2, <1>3, <1>4, Zenon DEF ZakuroNext, zakuroVars, Launch, Talk

(* Composition: a process of zakuro does what the modules of its parts say, *)
(* so that what is proved of a part holds in the whole: what the parse and  *)
(* the set-up hand on is what an instance and its clients may start with.   *)
THEOREM Composition == ZakuroSpec => StartupSpec /\ I!Spec /\ C!Spec
<1> DEFINE StepI == I!SetUp \/ (stage # "idle" /\ I!Next)
           StepC == C!SetUp \/ (connection.at # "idle" /\ C!Next)
           Inv == PlayInv /\ InputsArePlayed /\ ChosenInv
<1>1. ZakuroInit => StartupInit /\ I!Init /\ C!Init
  BY DEF ZakuroInit
<1>2. StartupInit => Inv
  BY PlayInit DEF StartupInit, ChosenInv
<1>3. Inv /\ [ZakuroNext]_zakuroVars => [StartupNext]_startupVars /\ [StepI]_(I!vars) /\ [StepC]_(C!vars)
  BY ComposedStep
<1>4. Inv /\ [StartupNext]_startupVars => Inv'
  BY PlayStep, ChosenStep
<1>5. I!Init /\ [][StepI]_(I!vars) => I!Spec
  BY DEF I!Spec
<1>6. C!Init /\ [][StepC]_(C!vars) => C!Spec
  BY DEF C!Spec
<1> HIDE DEF StepI, StepC, Inv
<1> QED BY <1>1, <1>2, <1>3, <1>4, <1>5, <1>6, PTL DEF ZakuroSpec, StartupSpec

-----------------------------------------------------------------------------
(* The instance that plays what was set up: of any files, sizes and rates,  *)
(* and for any number of turns.                                             *)

-----------------------------------------------------------------------------
(* The reader of the Y4M file.                                              *)

Readers == [at : 0 .. Frames + 1, frame : Nat, previous : Int, cut : BOOLEAN]
InPlace(r) == r.at < Frames => r.at = r.frame % Frames

LEMMA AdvancedReader ==
  ASSUME I!InstanceAssumption, NEW r \in Readers, InPlace(r)
  PROVE  LET s == I!Advanced(r)
         IN  /\ s \in Readers /\ InPlace(s) /\ s.previous = r.previous /\ s.cut = r.cut
             /\ r.at < Frames => s.frame = r.frame + 1
             /\ r.at >= Frames => s.frame = r.frame /\ s.at >= Frames
<1> DEFINE s == I!Advanced(r)
<1>1. Frames \in Nat \ {0} /\ r.at \in 0 .. Frames + 1 /\ r.frame \in Nat /\ r.previous \in Int
      /\ r.cut \in BOOLEAN
  BY DEF I!InstanceAssumption, Readers
<1>2. CASE r.at >= Frames
  <2>1. s = [r EXCEPT !.at = Frames + 1]
    BY <1>2 DEF I!Advanced, I!Past
  <2>2. s.at = Frames + 1 /\ s.frame = r.frame /\ s.previous = r.previous /\ s.cut = r.cut
        /\ s \in Readers
    BY <1>1, <2>1 DEF Readers
  <2> HIDE DEF s
  <2> QED BY <1>1, <1>2, <2>2 DEF InPlace, s
<1>3. CASE r.at < Frames
  <2> DEFINE a == IF r.at + 1 = Frames /\ ~r.cut THEN 0 ELSE r.at + 1
  <2>1. s = [at |-> a, frame |-> r.frame + 1, previous |-> r.previous, cut |-> r.cut]
    BY <1>1, <1>3 DEF I!Advanced
  <2>2. s.at = a /\ s.frame = r.frame + 1 /\ s.previous = r.previous /\ s.cut = r.cut
    BY <2>1
  <2>3. a \in 0 .. Frames + 1 /\ s \in Readers
    BY <1>1, <1>3, <2>1 DEF Readers
  <2>4. r.at = r.frame % Frames
    BY <1>3 DEF InPlace
  <2>5. (r.frame + 1) % Frames = IF (r.frame % Frames) + 1 = Frames THEN 0 ELSE (r.frame % Frames) + 1
    <3> DEFINE x == r.frame
    <3>1. x \in Int
      BY <1>1
    <3> HIDE DEF x
    <3>2. (x + 1) % Frames = IF (x % Frames) + 1 = Frames THEN 0 ELSE (x % Frames) + 1
      BY <1>1, <3>1, RemainderOfNext
    <3> QED BY <3>2 DEF x
  <2>6. a < Frames => a = (r.frame + 1) % Frames
    BY <1>1, <1>3, <2>4, <2>5
  <2> HIDE DEF s
  <2> QED BY <1>1, <1>3, <2>2, <2>3, <2>6 DEF InPlace, s
<1> QED BY <1>1, <1>2, <1>3

(* Frames are skipped until a cut one is met.                               *)
LEMMA SkippedReader ==
  ASSUME I!InstanceAssumption, NEW r \in Readers, InPlace(r), NEW k \in Nat
  PROVE  LET s == I!Skipped(r, k)
         IN  /\ s \in Readers /\ InPlace(s) /\ s.previous = r.previous /\ s.frame <= r.frame + k
             /\ s.at < Frames => s.frame = r.frame + k
<1> DEFINE S == {s \in Readers : InPlace(s)}
           F == [n \in 1..k |-> [s \in S |-> I!Advanced(s)]]
           Is(f) == f = [n \in 0 .. k |-> IF n = 0 THEN r ELSE I!skip_frame(f[n - 1])]
<1>1. \A s \in S : I!Advanced(s) \in S
  BY AdvancedReader
<1>2. r \in S /\ F \in [1..k -> [S -> S]]
  <2> HIDE DEF S
  <2>1. [s \in S |-> I!Advanced(s)] \in [S -> S]
    BY <1>1
  <2>2. r \in S
    BY DEF S
  <2> QED BY <2>1, <2>2
<1>3. PICK f : Iterates(f, F, k, S, r)
  <2>1. StepsOf(F, k, S)
    BY <1>2 DEF StepsOf
  <2> HIDE DEF S, F
  <2> QED BY <1>2, <2>1, RecursionExists
<1>4. \A n \in 1..k : n - 1 \in 0..k /\ f[n - 1] \in S /\ f[n] = I!Advanced(f[n - 1])
  <2> SUFFICES ASSUME NEW n \in 1..k PROVE n - 1 \in 0..k /\ f[n - 1] \in S /\ f[n] = I!Advanced(f[n - 1])
    OBVIOUS
  <2>1. n - 1 \in 0..k /\ f \in [0..k -> S] /\ f[n] = F[n][f[n - 1]]
    <3> HIDE DEF S, F
    <3> QED BY <1>3 DEF Iterates
  <2> QED BY <2>1
<1>5. Is(f)
  <2>1. \A n \in 0..k : f[n] = IF n = 0 THEN r ELSE I!skip_frame(f[n - 1])
    BY <1>3, <1>4 DEF I!skip_frame, Iterates
  <2>2. f \in [0..k -> S]
    <3> HIDE DEF S, F
    <3> QED BY <1>3 DEF Iterates
  <2> QED BY <2>1, <2>2
<1> DEFINE g == CHOOSE g : Is(g)
<1>6. Is(g)
  BY <1>5
<1>7. I!Skipped(r, k) = g[k]
  BY DEF I!Skipped
<1> HIDE DEF g
<1>8. g[0] = r /\ \A n \in 1..k : g[n] = I!Advanced(g[n - 1])
  BY <1>6 DEF I!skip_frame
<1> DEFINE P(n) == /\ g[n] \in S /\ g[n].previous = r.previous /\ g[n].frame <= r.frame + n
                   /\ g[n].at < Frames => g[n].frame = r.frame + n
           T == {n \in Nat : n <= k => P(n)}
<1>9. 0 \in T
  BY <1>2, <1>8 DEF Readers
<1>10. ASSUME NEW n \in Nat, n \in T PROVE n + 1 \in T
  <2> SUFFICES ASSUME n + 1 <= k PROVE P(n + 1)
    OBVIOUS
  <2>1. P(n) /\ n + 1 \in 1..k /\ (n + 1) - 1 = n
    BY <1>10
  <2>2. g[n + 1] = I!Advanced(g[n])
    BY <1>8, <2>1
  <2> DEFINE s == g[n]
             t == g[n + 1]
  <2>3. s \in Readers /\ InPlace(s) /\ t = I!Advanced(s)
    BY <2>1, <2>2
  <2> HIDE DEF s, t
  <2>4. /\ t \in Readers /\ InPlace(t) /\ t.previous = s.previous
        /\ s.at < Frames => t.frame = s.frame + 1
        /\ s.at >= Frames => t.frame = s.frame /\ t.at >= Frames
    BY <2>3, AdvancedReader
  <2>5. /\ s.previous = r.previous /\ s.frame <= r.frame + n
        /\ s.at < Frames => s.frame = r.frame + n
    BY <2>1 DEF s
  <2>6. r.frame \in Nat /\ s.frame \in Nat /\ t.frame \in Nat /\ s.at \in Int /\ t.at \in Int
        /\ Frames \in Int
    BY <2>3, <2>4 DEF Readers, I!InstanceAssumption
  <2>7. t.at < Frames => s.at < Frames /\ t.frame = s.frame + 1
    BY <2>4, <2>6
  <2>8. t.frame <= s.frame + 1
    BY <2>4, <2>6
  <2> DEFINE u == s.frame
             v == t.frame
             w == r.frame
  <2>9. u \in Nat /\ v \in Nat /\ w \in Nat /\ u <= w + n /\ v <= u + 1
    BY <2>5, <2>6, <2>8
  <2>10. t.at < Frames => v = u + 1 /\ u = w + n
    BY <2>5, <2>7
  <2>11. t \in S
    BY <2>4
  <2> HIDE DEF u, v, w
  <2>12. v <= w + (n + 1) /\ (t.at < Frames => v = w + (n + 1))
    BY <2>9, <2>10
  <2>13. t.previous = r.previous
    BY <2>4, <2>5
  <2> QED BY <2>11, <2>12, <2>13 DEF t, v, w
<1> HIDE DEF T
<1>11. k \in T
  BY <1>9, <1>10, Induction
<1>12. P(k)
  BY <1>11 DEF T
<1> QED BY <1>7, <1>12

-----------------------------------------------------------------------------
(* What is sent is the frame of its time.                                   *)

ReadInv ==
  /\ clock \in Nat
  /\ y4m \in Readers /\ InPlace(y4m)
  /\ y4m.previous <= I!FrameOf(clock)
  /\ y4m.frame <= I!FrameOf(clock) \/ y4m.frame = y4m.previous + 1
  /\ stage = "idle" => shown = None /\ y4m.at = 0 /\ y4m.frame = 0

LEMMA FrameOfTime ==
  ASSUME I!InstanceAssumption, NEW t \in Nat
  PROVE  I!FrameOf(t) \in Nat /\ I!FrameOf(t) <= I!FrameOf(t + 1)
<1>1. FpsNum \in Nat \ {0} /\ FpsDen \in Nat \ {0}
  BY DEF I!InstanceAssumption
<1>2. t * FpsNum \in Nat /\ (t + 1) * FpsNum = t * FpsNum + FpsNum
  BY <1>1
<1> DEFINE m == t * FpsNum
           n == (t + 1) * FpsNum
<1>3. m \in Int /\ n \in Int /\ m <= n /\ 0 <= m
  BY <1>1, <1>2
<1> HIDE DEF m, n
<1>4. m \div FpsDen <= n \div FpsDen /\ 0 \div FpsDen <= m \div FpsDen
  BY <1>1, <1>3, QuotientIsMonotone
<1>5. 0 \div FpsDen = 0 /\ m \div FpsDen \in Int
  BY <1>1, <1>3
<1> QED BY <1>4, <1>5 DEF I!FrameOf, m, n

LEMMA ReadInit ==
  ASSUME I!InstanceAssumption, I!Init
  PROVE  ReadInv /\ I!FramesFollowTime
<1>1. /\ clock = 0 /\ y4m = [at |-> 0, frame |-> 0, previous |-> -1, cut |-> FALSE]
      /\ shown = None
  BY DEF I!Init
<1>2. Frames \in Nat \ {0} /\ I!FrameOf(0) \in Nat
  BY FrameOfTime DEF I!InstanceAssumption
<1>3. y4m \in Readers /\ y4m.at = 0 /\ y4m.frame = 0 /\ y4m.previous = -1
  BY <1>1, <1>2 DEF Readers
<1>4. 0 % Frames = 0
  BY <1>2
<1> QED BY <1>1, <1>2, <1>3, <1>4 DEF ReadInv, InPlace, I!FramesFollowTime

(* A turn of the video thread that plays the file.                          *)
LEMMA TickStep ==
  ASSUME I!InstanceAssumption, ReadInv, I!FramesFollowTime, I!tick_y4m, UNCHANGED clock
  PROVE  /\ y4m' \in Readers /\ InPlace(y4m')
         /\ y4m'.previous <= I!FrameOf(clock)
         /\ y4m'.frame <= I!FrameOf(clock) \/ y4m'.frame = y4m'.previous + 1
         /\ shown' = shown \/ shown'.at = I!FrameOf(shown'.time) % Frames
<1> DEFINE frame == I!FrameOf(clock)
           there == I!SkippedTo(y4m, frame)
           got == I!get_frame(y4m, clock)
<1>1. /\ y4m' = got.reader
      /\ shown' = IF got.result = "frame" THEN [time |-> clock, at |-> there.at] ELSE shown
  BY DEF I!tick_y4m
<1>2. frame \in Nat /\ y4m \in Readers /\ InPlace(y4m) /\ y4m.frame \in Nat /\ y4m.previous \in Int
  BY FrameOfTime DEF ReadInv, Readers
<1>3. CASE frame = y4m.previous
  <2>1. got = [result |-> "same", reader |-> y4m]
    BY <1>3 DEF I!get_frame
  <2> HIDE DEF got
  <2>2. got.result = "same" /\ got.reader = y4m
    BY <2>1
  <2> QED BY <1>1, <2>2 DEF ReadInv
<1>4. CASE frame # y4m.previous
  <2> DEFINE k == frame - y4m.frame
  <2>1. k \in Nat
    BY <1>2, <1>4 DEF ReadInv
  <2>2. there = I!Skipped(y4m, k)
    BY DEF I!SkippedTo
  <2> HIDE DEF there
  <2>3. /\ there \in Readers /\ InPlace(there) /\ there.previous = y4m.previous
        /\ there.frame <= y4m.frame + k
        /\ there.at < Frames => there.frame = y4m.frame + k
    BY <1>2, <2>1, <2>2, SkippedReader
  <2>4. y4m.frame + k = frame
    BY <1>2
  <2> DEFINE next == I!Advanced(there)
  <2>5. /\ next \in Readers /\ InPlace(next) /\ next.previous = there.previous
        /\ there.at < Frames => next.frame = there.frame + 1
        /\ there.at >= Frames => next.frame = there.frame
    BY <2>3, AdvancedReader
  <2> HIDE DEF next
  <2>6. there.at \in Int /\ Frames \in Int /\ there.frame \in Nat /\ next.frame \in Nat
    BY <2>3, <2>5 DEF Readers, I!InstanceAssumption
  <2>7. CASE there.at >= Frames
    <3>1. got = [result |-> "error", reader |-> next]
      BY <1>4, <2>7 DEF I!get_frame, there, next
    <3> HIDE DEF got
    <3>2. got.result = "error" /\ got.reader = next
      BY <3>1
    <3>3. next.frame <= frame /\ next.previous = y4m.previous
      BY <2>3, <2>4, <2>5, <2>7
    <3> QED BY <1>1, <2>5, <3>2, <3>3 DEF ReadInv
  <2>8. CASE there.at < Frames
    <3>1. got = [result |-> "frame", reader |-> [next EXCEPT !.previous = frame]]
      BY <1>4, <2>6, <2>8 DEF I!get_frame, there, next
    <3> HIDE DEF got, frame
    <3>2. got.result = "frame" /\ got.reader = [next EXCEPT !.previous = frame]
      BY <3>1
    <3>3. /\ got.reader \in Readers /\ got.reader.previous = frame
          /\ got.reader.at = next.at /\ got.reader.frame = next.frame
      BY <1>2, <2>5, <3>2 DEF Readers
    <3>4. next.frame = frame + 1
      BY <2>3, <2>4, <2>5, <2>8
    <3>5. InPlace(got.reader)
      BY <2>5, <3>3 DEF InPlace
    <3>6. there.at = frame % Frames
      BY <2>3, <2>4, <2>8 DEF InPlace
    <3>7. shown'.at = there.at /\ shown'.time = clock
      BY <1>1, <3>2
    <3>8. shown'.at = I!FrameOf(shown'.time) % Frames
      BY <3>6, <3>7 DEF frame
    <3>9. got.reader.previous <= frame
      BY <1>2, <3>3
    <3> QED BY <1>1, <3>3, <3>4, <3>5, <3>8, <3>9 DEF frame
  <2> QED BY <2>6, <2>7, <2>8
<1> QED BY <1>3, <1>4

(* The steps that touch neither the reader nor the time.                    *)
LEMMA ReadStep ==
  ASSUME I!InstanceAssumption, ReadInv, I!FramesFollowTime,
         [I!SetUp \/ (stage # "idle" /\ I!Next)]_I!vars
  PROVE  ReadInv' /\ I!FramesFollowTime'
<1> DEFINE Still == UNCHANGED <<clock, y4m, shown, video>> /\ (stage' = "idle" => stage = "idle")
<1>1. ASSUME Still PROVE ReadInv' /\ I!FramesFollowTime'
  BY <1>1 DEF ReadInv, I!FramesFollowTime, InPlace, I!FrameOf
<1>2. CASE UNCHANGED I!vars
  BY <1>1, <1>2 DEF I!vars, I!playing, I!sources
<1>3. ASSUME NEW a, NEW v, NEW codec, I!Start(a, v, codec)
      PROVE  ReadInv' /\ I!FramesFollowTime'
  <2>1. /\ stage = "idle" /\ stage' = "hatching" /\ UNCHANGED <<clock, shown>>
        /\ \E cut \in BOOLEAN : y4m' = [y4m EXCEPT !.cut = cut]
    BY <1>3 DEF I!Start
  <2>2. /\ y4m' \in Readers /\ y4m'.at = y4m.at /\ y4m'.frame = y4m.frame
        /\ y4m'.previous = y4m.previous
    BY <2>1 DEF ReadInv, Readers
  <2> QED BY <2>1, <2>2 DEF ReadInv, I!FramesFollowTime, InPlace, I!FrameOf
<1>4. ASSUME stage # "idle", I!Passes PROVE ReadInv' /\ I!FramesFollowTime'
  <2>1. clock' = clock + 1 /\ UNCHANGED <<stage, y4m, shown, video>>
    BY <1>4 DEF I!Passes, I!sources
  <2>2. clock \in Nat /\ I!FrameOf(clock) \in Nat /\ I!FrameOf(clock + 1) \in Nat
        /\ I!FrameOf(clock) <= I!FrameOf(clock + 1)
    BY FrameOfTime DEF ReadInv
  <2>3. I!FrameOf(clock') = I!FrameOf(clock + 1)
    BY <2>1
  <2>4. y4m.previous \in Int /\ y4m.frame \in Int
    BY DEF ReadInv, Readers
  <2>5. /\ y4m'.previous <= I!FrameOf(clock')
        /\ y4m'.frame <= I!FrameOf(clock') \/ y4m'.frame = y4m'.previous + 1
    BY <2>1, <2>2, <2>3, <2>4 DEF ReadInv
  <2> QED BY <1>4, <2>1, <2>2, <2>5 DEF ReadInv, I!FramesFollowTime, InPlace, I!FrameOf
<1>5. ASSUME stage # "idle", I!VideoTurn PROVE ReadInv' /\ I!FramesFollowTime'
  <2>1. UNCHANGED <<clock, stage, video>>
    BY <1>5 DEF I!VideoTurn, I!sources
  <2>2. CASE video = "y4m"
    <3>1. I!tick_y4m
      BY <1>5, <2>2 DEF I!VideoTurn
    <3>2. /\ y4m' \in Readers /\ InPlace(y4m')
          /\ y4m'.previous <= I!FrameOf(clock)
          /\ y4m'.frame <= I!FrameOf(clock) \/ y4m'.frame = y4m'.previous + 1
          /\ shown' = shown \/ shown'.at = I!FrameOf(shown'.time) % Frames
      BY <2>1, <3>1, TickStep
    <3> QED BY <1>5, <2>1, <3>2 DEF ReadInv, I!FramesFollowTime, InPlace, I!FrameOf
  <2>3. CASE video # "y4m"
    <3>1. UNCHANGED y4m
      BY <1>5, <2>3 DEF I!VideoTurn, I!tick_drawn
    <3> QED BY <1>5, <2>1, <2>3, <3>1 DEF ReadInv, I!FramesFollowTime, InPlace, I!FrameOf
  <2> QED BY <2>2, <2>3
<1>6. ASSUME stage # "idle", I!DeviceFrame PROVE ReadInv' /\ I!FramesFollowTime'
  <2>1. UNCHANGED <<clock, stage, video, y4m>> /\ video = "device"
    BY <1>6 DEF I!DeviceFrame, I!sources
  <2> QED BY <1>6, <2>1 DEF ReadInv, I!FramesFollowTime, InPlace, I!FrameOf
<1>7. ASSUME stage # "idle", I!AudioTurn \/ I!Deliver \/ I!AdmCall PROVE Still
  BY <1>7 DEF I!AudioTurn, I!Deliver, I!AdmCall, I!sources, I!playing
<1>8. ASSUME stage # "idle", I!init_encode \/ I!encode \/ I!set_rates \/ I!release PROVE Still
  BY <1>8 DEF I!init_encode, I!encode, I!set_rates, I!release, I!EncoderCall, I!sources, I!playing
<1>9. ASSUME stage # "idle", NEW t, I!ThreadEnds(t) PROVE Still
  BY <1>9 DEF I!ThreadEnds, I!sources, I!playing
<1>10. ASSUME stage # "idle", NEW c, I!Hatch(c) \/ I!HatchFails(c) \/ I!ClientEnds(c) PROVE Still
  BY <1>10 DEF I!Hatch, I!HatchFails, I!ClientEnds, I!sources, I!playing
<1>11. ASSUME stage # "idle", I!Hatched \/ I!Joined \/ I!Drop PROVE Still
  BY <1>11 DEF I!Hatched, I!Joined, I!Drop, I!DropsInOrder, I!sources, I!playing
<1> HIDE DEF Still
<1> QED
  BY <1>1, <1>2, <1>3, <1>4, <1>5, <1>6, <1>7, <1>8, <1>9, <1>10, <1>11 DEF I!Next, I!SetUp

-----------------------------------------------------------------------------
(* The encoder, and what it was told.                                       *)

Formats == [size : Sizes, rate : Rates]
CodeInv ==
  /\ encoder # None =>
       /\ encoder = [told |-> encoder.told, made |-> encoder.made, failed |-> encoder.failed]
       /\ encoder.told \in Formats /\ encoder.told = asked
       /\ encoder.made # None => encoder.made \in Formats
       /\ encoder.made # None /\ ~encoder.failed => encoder.made = encoder.told

LEMMA CallStep ==
  ASSUME CodeInv, I!init_encode \/ I!encode \/ I!set_rates \/ I!release
  PROVE  CodeInv'
<1>1. ASSUME NEW told \in Formats, encoder' = I!init_or_reconfigure(told), asked' = told
      PROVE  CodeInv'
  <2>1. encoder'.told = told /\ encoder'.made = told /\ encoder'.failed = FALSE
        /\ encoder' = [told |-> told, made |-> told, failed |-> FALSE]
    BY <1>1 DEF I!init_or_reconfigure
  <2> QED BY <1>1, <2>1 DEF CodeInv
<1>2. ASSUME NEW told \in Formats, encoder' = I!MakingFails(told), asked' = told
      PROVE  CodeInv'
  <2> DEFINE made == IF encoder = None THEN None ELSE encoder.made
  <2>1. encoder'.told = told /\ encoder'.made = made /\ encoder'.failed = TRUE
        /\ encoder' = [told |-> told, made |-> made, failed |-> TRUE]
    BY <1>2 DEF I!MakingFails
  <2>2. made # None => made \in Formats
    BY DEF CodeInv
  <2> HIDE DEF made
  <2> QED BY <1>2, <2>1, <2>2 DEF CodeInv
<1>3. CASE I!init_encode
  <2>1. PICK size \in Sizes, rate \in Rates :
          /\ encoder' \in {I!init_or_reconfigure([size |-> size, rate |-> rate]),
                           I!MakingFails([size |-> size, rate |-> rate])}
          /\ asked' = [size |-> size, rate |-> rate]
    BY <1>3 DEF I!init_encode
  <2> DEFINE told == [size |-> size, rate |-> rate]
  <2>2. told \in Formats /\ asked' = told
        /\ (encoder' = I!init_or_reconfigure(told) \/ encoder' = I!MakingFails(told))
    BY <2>1 DEF Formats
  <2> HIDE DEF told
  <2> QED BY <1>1, <1>2, <2>2
<1>4. CASE I!encode
  <2>1. encoder # None /\ encoder.told \in Formats /\ asked = encoder.told
    BY <1>4 DEF I!encode, I!Encoding, CodeInv
  <2>2. PICK size \in Sizes :
          /\ IF size = encoder.told.size THEN UNCHANGED encoder
             ELSE encoder' \in {I!init_or_reconfigure([encoder.told EXCEPT !.size = size]),
                                I!MakingFails([encoder.told EXCEPT !.size = size])}
          /\ asked' = [asked EXCEPT !.size = size]
    BY <1>4 DEF I!encode
  <2> DEFINE told == [encoder.told EXCEPT !.size = size]
  <2>3. told \in Formats /\ asked' = told
        /\ (size = encoder.told.size => told = encoder.told)
    BY <2>1, <2>2 DEF Formats
  <2>4. CASE size = encoder.told.size
    BY <2>1, <2>2, <2>3, <2>4 DEF CodeInv
  <2>5. CASE size # encoder.told.size
    <3>1. encoder' = I!init_or_reconfigure(told) \/ encoder' = I!MakingFails(told)
      BY <2>2, <2>5
    <3> HIDE DEF told
    <3> QED BY <1>1, <1>2, <2>3, <3>1
  <2> QED BY <2>4, <2>5
<1>5. CASE I!set_rates
  <2>1. encoder # None /\ encoder.told \in Formats /\ asked = encoder.told
        /\ encoder.made # None /\ encoder.made \in Formats
        /\ (~encoder.failed => encoder.made = encoder.told)
    BY <1>5 DEF I!set_rates, I!Encoding, CodeInv
  <2> DEFINE Told(rate) == [encoder.told EXCEPT !.rate = rate]
             Made(rate) == [encoder.made EXCEPT !.rate = rate]
  <2>2. PICK rate \in Rates :
          /\ \/ rate = encoder.told.rate /\ UNCHANGED encoder
             \/ encoder' = [told |-> Told(rate), made |-> Made(rate), failed |-> encoder.failed]
             \/ encoder' = [told |-> Told(rate), made |-> encoder.made, failed |-> TRUE]
          /\ asked' = [asked EXCEPT !.rate = rate]
    BY <1>5 DEF I!set_rates
  <2> DEFINE told == Told(rate)
             made == Made(rate)
  <2>3. told \in Formats /\ asked' = told /\ made \in Formats
        /\ (rate = encoder.told.rate => told = encoder.told)
        /\ (~encoder.failed => made = told)
    BY <2>1, <2>2 DEF Formats
  <2>4. CASE rate = encoder.told.rate /\ UNCHANGED encoder
    BY <2>1, <2>2, <2>3, <2>4 DEF CodeInv
  <2>5. CASE encoder' = [told |-> told, made |-> made, failed |-> encoder.failed]
    <3> HIDE DEF told, made
    <3>1. encoder'.told = told /\ encoder'.made = made /\ encoder'.failed = encoder.failed
      BY <2>5
    <3> QED BY <2>3, <2>5, <3>1 DEF CodeInv
  <2>6. CASE encoder' = [told |-> told, made |-> encoder.made, failed |-> TRUE]
    <3> HIDE DEF told, made
    <3>1. encoder'.told = told /\ encoder'.made = encoder.made /\ encoder'.failed = TRUE
      BY <2>6
    <3> QED BY <2>1, <2>3, <2>6, <3>1 DEF CodeInv
  <2> QED BY <2>2, <2>4, <2>5, <2>6
<1>6. CASE I!release
  <2>1. encoder # None /\ encoder' = [encoder EXCEPT !.made = None] /\ asked' = asked
    BY <1>6 DEF I!release, I!Encoding
  <2>2. encoder = [told |-> encoder.told, made |-> encoder.made, failed |-> encoder.failed]
    BY <2>1 DEF CodeInv
  <2>3. encoder' = [told |-> encoder.told, made |-> None, failed |-> encoder.failed]
    BY <2>1, <2>2
  <2>4. encoder'.told = encoder.told /\ encoder'.made = None /\ encoder'.failed = encoder.failed
    BY <2>3
  <2> QED BY <2>1, <2>3, <2>4 DEF CodeInv
<1> QED BY <1>3, <1>4, <1>5, <1>6

LEMMA CodeStep ==
  ASSUME CodeInv, [I!SetUp \/ (stage # "idle" /\ I!Next)]_I!vars
  PROVE  CodeInv'
<1>1. ASSUME UNCHANGED I!coding PROVE CodeInv'
  BY <1>1 DEF CodeInv, I!coding
<1>2. CASE I!init_encode \/ I!encode \/ I!set_rates \/ I!release
  BY <1>2, CallStep
<1>3. CASE UNCHANGED I!vars \/ I!SetUp
  BY <1>1, <1>3 DEF I!vars, I!SetUp, I!Start
<1>4. CASE I!Passes \/ I!VideoTurn \/ I!DeviceFrame \/ I!AudioTurn \/ I!Deliver \/ I!AdmCall
  BY <1>1, <1>4 DEF I!Passes, I!VideoTurn, I!DeviceFrame, I!AudioTurn, I!Deliver, I!AdmCall
<1>5. CASE \E thread \in {"audio", "video"} : I!ThreadEnds(thread)
  BY <1>1, <1>5 DEF I!ThreadEnds
<1>6. CASE \E c \in 1 .. Vcs : I!Hatch(c) \/ I!HatchFails(c) \/ I!ClientEnds(c)
  BY <1>1, <1>6 DEF I!Hatch, I!HatchFails, I!ClientEnds
<1>7. CASE I!Hatched \/ I!Joined \/ I!Drop
  BY <1>1, <1>7 DEF I!Hatched, I!Joined, I!Drop
<1> QED BY <1>2, <1>3, <1>4, <1>5, <1>6, <1>7 DEF I!Next

-----------------------------------------------------------------------------
(* The threads, and the context they deliver to.                            *)

ThreadInv ==
  /\ held => "audio" \in threads
  /\ "audio" \in threads => stage \in {"hatching", "joining", "video", "audio"}
  /\ stage = "idle" => threads = {}

LEMMA ThreadStep ==
  ASSUME ThreadInv, [I!SetUp \/ (stage # "idle" /\ I!Next)]_I!vars
  PROVE  ThreadInv'
<1>1. CASE I!SetUp
  BY <1>1 DEF ThreadInv, I!SetUp, I!Start, I!device
<1>2. CASE I!AudioTurn \/ I!Deliver
  BY <1>2 DEF ThreadInv, I!AudioTurn, I!Deliver
<1>3. CASE \E thread \in {"audio", "video"} : I!ThreadEnds(thread)
  BY <1>3 DEF ThreadInv, I!ThreadEnds, I!device
<1>4. CASE UNCHANGED <<held, threads, stage>>
  BY <1>4 DEF ThreadInv
<1>5. CASE \E c \in 1 .. Vcs : I!Hatch(c) \/ I!ClientEnds(c)
  BY <1>4, <1>5 DEF I!Hatch, I!ClientEnds, I!device
<1>6. CASE \E c \in 1 .. Vcs : I!HatchFails(c)
  BY <1>6 DEF ThreadInv, I!HatchFails, I!device
<1>7. CASE I!Hatched \/ I!Joined
  BY <1>7 DEF ThreadInv, I!Hatched, I!Joined, I!device
<1>8. CASE I!Drop
  BY <1>8 DEF ThreadInv, I!Drop, I!DropsInOrder, I!device
<1>9. CASE I!Passes \/ I!VideoTurn \/ I!DeviceFrame \/ I!AdmCall
  BY <1>4, <1>9 DEF I!Passes, I!VideoTurn, I!DeviceFrame, I!AdmCall, I!device
<1>10. CASE I!init_encode \/ I!encode \/ I!set_rates \/ I!release
  BY <1>4, <1>10 DEF I!init_encode, I!encode, I!set_rates, I!release, I!EncoderCall, I!device
<1>11. CASE UNCHANGED I!vars
  BY <1>4, <1>11 DEF I!vars, I!device
<1> QED BY <1>1, <1>2, <1>3, <1>5, <1>6, <1>7, <1>8, <1>9, <1>10, <1>11 DEF I!Next

LEMMA InstanceServes == I!Spec => []I!LibraryServed
<1> DEFINE Step == I!SetUp \/ (stage # "idle" /\ I!Next)
           Inv == CodeInv /\ ThreadInv
<1>1. I!Init => Inv
  BY DEF I!Init, CodeInv, ThreadInv
<1>2. Inv /\ [Step]_I!vars => Inv'
  BY CodeStep, ThreadStep
<1>3. I!Spec => I!Init /\ [][Step]_I!vars
  BY DEF I!Spec
<1>4. Inv => I!LibraryServed
  BY DEF I!LibraryServed, CodeInv, ThreadInv, I!EncoderKeepsUp, I!DeliveredAlive, I!Encoding, I!HasContext
<1> HIDE DEF Step, Inv
<1> QED BY <1>1, <1>2, <1>3, <1>4, PTL

(* ServedLibrary: the audio thread never uses a transport whose context is   *)
(* gone, and the encoder in use has the size and rate last asked for.        *)
THEOREM ServedLibrary == ZakuroSpec => []LibraryServed
<1>1. LibraryServed <=> I!LibraryServed
  BY DEF LibraryServed
<1> QED BY <1>1, Composition, InstanceServes, PTL

-----------------------------------------------------------------------------
(* The packets of the audio track, and where each begins.                   *)

Places == Nat \X Nat
Parts == [p \in DOMAIN Packets |-> [i \in 1 .. Packets[p] |-> <<p, i>>]]
AllSounds == FlattenSeq(Parts)
Flat == CHOOSE g : IsFlattening(g, Parts) /\ FlattenSeq(Parts) = g[Len(Parts)]
Before(p) == IF p = 1 THEN 0 ELSE Len(Flat[p - 1])
Opus == SubSeq(AllSounds, PreSkip + 1, Len(AllSounds))

LEMMA PartsOf ==
  ASSUME I!InstanceAssumption
  PROVE  /\ Len(Packets) \in Nat \ {0} /\ Len(Parts) = Len(Packets)
         /\ \A p \in 1 .. Len(Packets) :
              /\ Packets[p] \in Nat /\ Parts[p] \in Seq(Places) /\ Len(Parts[p]) = Packets[p]
              /\ \A i \in 1 .. Packets[p] : Parts[p][i] = <<p, i>>
         /\ IsFlattening(Flat, Parts) /\ AllSounds = Flat[Len(Packets)]
<1>1. Packets \in Seq(Nat) /\ Packets # <<>>
  BY DEF I!InstanceAssumption
<1>2. Len(Packets) \in Nat \ {0} /\ DOMAIN Packets = 1 .. Len(Packets)
      /\ \A p \in 1 .. Len(Packets) : Packets[p] \in Nat
  BY <1>1
<1>3. Len(Parts) = Len(Packets)
  <2>1. Parts = [p \in 1 .. Len(Packets) |-> [i \in 1 .. Packets[p] |-> <<p, i>>]]
    BY <1>2 DEF Parts
  <2> QED BY <1>2, <2>1
<1>4. ASSUME NEW p \in 1 .. Len(Packets)
      PROVE  /\ Parts[p] \in Seq(Places) /\ Len(Parts[p]) = Packets[p]
             /\ \A i \in 1 .. Packets[p] : Parts[p][i] = <<p, i>>
  <2>1. Parts[p] = [i \in 1 .. Packets[p] |-> <<p, i>>]
    BY <1>2 DEF Parts
  <2>2. p \in Nat /\ Packets[p] \in Nat
    BY <1>2
  <2>3. \A i \in 1 .. Packets[p] : <<p, i>> \in Places
    BY <2>2 DEF Places
  <2> QED BY <2>1, <2>2, <2>3
<1>5. \E g : IsFlattening(g, Parts) /\ FlattenSeq(Parts) = g[Len(Parts)]
  BY <1>2, <1>3, FlatteningExists
<1>6. IsFlattening(Flat, Parts) /\ FlattenSeq(Parts) = Flat[Len(Parts)]
  BY <1>5 DEF Flat
<1> QED BY <1>2, <1>3, <1>4, <1>6 DEF AllSounds

LEMMA FlatPlaces ==
  ASSUME I!InstanceAssumption
  PROVE  \A p \in 1 .. Len(Packets) :
           /\ Flat[p] \in Seq(Places) /\ Before(p) \in Nat
           /\ Len(Flat[p]) = Before(p) + Packets[p]
           /\ \A i \in 1 .. Packets[p] : Flat[p][Before(p) + i] = <<p, i>>
           /\ p > 1 => \A i \in 1 .. Before(p) : Flat[p][i] = Flat[p - 1][i]
<1> DEFINE Q(p) == /\ Flat[p] \in Seq(Places) /\ Before(p) \in Nat
                   /\ Len(Flat[p]) = Before(p) + Packets[p]
                   /\ \A i \in 1 .. Packets[p] : Flat[p][Before(p) + i] = <<p, i>>
                   /\ p > 1 => \A i \in 1 .. Before(p) : Flat[p][i] = Flat[p - 1][i]
           T == {n \in Nat : n + 1 <= Len(Packets) => Q(n + 1)}
<1>1. Len(Packets) \in Nat \ {0} /\ Len(Parts) = Len(Packets)
  BY PartsOf
<1>2. \A p \in 1 .. Len(Packets) : Flat[p] = IF p = 1 THEN Parts[p] ELSE Flat[p - 1] \o Parts[p]
  BY <1>1, PartsOf DEF IsFlattening
<1>3. 0 \in T
  <2>1. 1 \in 1 .. Len(Packets) /\ Flat[1] = Parts[1] /\ Before(1) = 0
    BY <1>1, <1>2 DEF Before
  <2>2. Packets[1] \in Nat /\ Parts[1] \in Seq(Places) /\ Len(Parts[1]) = Packets[1]
        /\ \A i \in 1 .. Packets[1] : Parts[1][i] = <<1, i>>
    BY <2>1, PartsOf
  <2>3. Q(1)
    BY <2>1, <2>2
  <2> QED BY <2>3
<1>4. ASSUME NEW n \in Nat, n \in T PROVE n + 1 \in T
  <2> HIDE DEF Q
  <2> SUFFICES ASSUME (n + 1) + 1 <= Len(Packets) PROVE Q((n + 1) + 1)
    OBVIOUS
  <2> USE DEF Q
  <2> DEFINE p == (n + 1) + 1
             q == n + 1
  <2>1. p \in 1 .. Len(Packets) /\ p # 1 /\ p - 1 = q /\ q \in 1 .. Len(Packets) /\ Q(q) /\ p > 1
    BY <1>4, <1>1
  <2>2. Flat[p] = Flat[q] \o Parts[p] /\ Before(p) = Len(Flat[q])
    BY <1>2, <2>1 DEF Before
  <2> HIDE DEF p, q
  <2>3. Packets[p] \in Nat /\ Parts[p] \in Seq(Places) /\ Len(Parts[p]) = Packets[p]
        /\ \A i \in 1 .. Packets[p] : Parts[p][i] = <<p, i>>
    BY <2>1, PartsOf
  <2>4. Flat[q] \in Seq(Places)
    BY <2>1
  <2> DEFINE u == Flat[q]
             v == Parts[p]
             w == Flat[p]
  <2>5. u \in Seq(Places) /\ v \in Seq(Places) /\ w = u \o v
        /\ Before(p) = Len(u) /\ Len(v) = Packets[p]
    BY <2>2, <2>3, <2>4
  <2> HIDE DEF u, v, w
  <2>6. /\ w \in Seq(Places) /\ Len(u) \in Nat /\ Len(v) \in Nat
        /\ Len(w) = Len(u) + Len(v)
        /\ \A i \in 1 .. Len(u) : w[i] = u[i]
        /\ \A i \in 1 .. Len(v) : w[Len(u) + i] = v[i]
    <3>1. u \in Seq(Places) /\ v \in Seq(Places) /\ w = u \o v
      BY <2>5
    <3>2. w \in Seq(Places) /\ Len(w) = Len(u) + Len(v) /\ Len(u) \in Nat /\ Len(v) \in Nat
      BY ONLY <3>1, ConcatParts
    <3>3. \A i \in 1 .. Len(u) : w[i] = u[i]
      BY ONLY <3>1, ConcatParts
    <3>4. \A i \in 1 .. Len(v) : w[Len(u) + i] = v[i]
      BY ONLY <3>1, ConcatParts
    <3> QED BY ONLY <3>2, <3>3, <3>4
  <2>7. /\ w \in Seq(Places) /\ Before(p) \in Nat
        /\ Len(w) = Before(p) + Packets[p]
        /\ \A i \in 1 .. Packets[p] : w[Before(p) + i] = <<p, i>>
        /\ \A i \in 1 .. Before(p) : w[i] = u[i]
    BY <2>3, <2>5, <2>6 DEF v
  <2>8. Q(p)
    BY <2>1, <2>7 DEF u, w
  <2> QED BY <2>8 DEF p
<1> HIDE DEF Q
<1>5. T \subseteq Nat
  OBVIOUS
<1>6. \A n \in Nat : n \in T => n + 1 \in T
  BY <1>4
<1> HIDE DEF T
<1>7. ASSUME NEW p \in 1 .. Len(Packets) PROVE Q(p)
  <2> DEFINE n == p - 1
  <2>1. n \in Nat /\ n + 1 = p /\ n + 1 <= Len(Packets)
    BY <1>1
  <2> HIDE DEF n
  <2>2. n \in T
    BY <1>3, <1>6, <2>1, Induction
  <2> QED BY <2>1, <2>2 DEF T
<1> QED BY <1>7 DEF Q

(* What one part holds is where it was also in the end.                     *)
LEMMA PartsStay ==
  ASSUME I!InstanceAssumption, NEW p \in 1 .. Len(Packets)
  PROVE  /\ Len(Flat[p]) <= Len(AllSounds)
         /\ \A i \in 1 .. Len(Flat[p]) : AllSounds[i] = Flat[p][i]
<1> DEFINE m == Len(Packets)
           Q(r) == /\ Len(Flat[p]) <= Len(Flat[r])
                   /\ \A i \in 1 .. Len(Flat[p]) : Flat[r][i] = Flat[p][i]
           T == {n \in Nat : p + n <= m => Q(p + n)}
<1>1. m \in Nat \ {0} /\ AllSounds = Flat[m]
  BY PartsOf
<1>2. \A r \in 1 .. m : Flat[r] \in Seq(Places) /\ Len(Flat[r]) \in Nat
  BY FlatPlaces
<1>3. 0 \in T
  BY <1>1, <1>2
<1>4. ASSUME NEW n \in Nat, n \in T PROVE n + 1 \in T
  <2> SUFFICES ASSUME p + (n + 1) <= m PROVE Q(p + (n + 1))
    OBVIOUS
  <2> DEFINE r == p + (n + 1)
             q == p + n
  <2>1. r \in 1 .. m /\ q \in 1 .. m /\ r > 1 /\ r - 1 = q /\ Q(q)
    BY <1>1, <1>4
  <2> HIDE DEF r, q
  <2>2. /\ Before(r) \in Nat /\ Len(Flat[r]) = Before(r) + Packets[r]
        /\ \A i \in 1 .. Before(r) : Flat[r][i] = Flat[q][i]
    BY <2>1, FlatPlaces
  <2>3. Before(r) = Len(Flat[q]) /\ Packets[r] \in Nat
    BY <2>1, PartsOf DEF Before
  <2>4. Len(Flat[p]) \in Nat /\ Len(Flat[q]) \in Nat /\ Len(Flat[r]) \in Nat
    BY <1>2, <2>1
  <2>5. Q(r)
    BY SMTT(30), <2>1, <2>2, <2>3, <2>4
  <2> QED BY <2>5 DEF r
<1> HIDE DEF Q, m
<1>5. \A n \in Nat : n \in T => n + 1 \in T
  BY <1>4
<1> HIDE DEF T
<1> DEFINE d == m - p
<1>6. d \in Nat /\ p + d = m /\ p + d <= m
  BY <1>1 DEF m
<1> HIDE DEF d
<1>7. d \in T
  BY <1>3, <1>5, <1>6, Induction
<1>8. Q(m)
  BY <1>6, <1>7 DEF T
<1> QED BY <1>1, <1>8 DEF Q

(* The samples of the track, by where their packets begin.                  *)
LEMMA TrackPlaces ==
  ASSUME I!InstanceAssumption
  PROVE  /\ Len(Packets) \in Nat \ {0} /\ AllSounds \in Seq(Places) /\ Len(AllSounds) \in Nat
         /\ Before(1) = 0 /\ Before(Len(Packets) + 1) = Len(AllSounds)
         /\ \A p \in 1 .. Len(Packets) :
              /\ Packets[p] \in Nat /\ Before(p) \in Nat
              /\ Before(p + 1) = Before(p) + Packets[p] /\ Before(p + 1) <= Len(AllSounds)
              /\ \A i \in 1 .. Packets[p] : AllSounds[Before(p) + i] = <<p, i>>
<1>1. Len(Packets) \in Nat \ {0} /\ AllSounds = Flat[Len(Packets)]
  BY PartsOf
<1>2. AllSounds \in Seq(Places) /\ Len(AllSounds) \in Nat
  BY <1>1, FlatPlaces
<1>3. \A p \in 1 .. Len(Packets) : Before(p + 1) = Len(Flat[p])
  BY <1>1 DEF Before
<1>4. Before(1) = 0 /\ Before(Len(Packets) + 1) = Len(AllSounds)
  BY <1>1, <1>3 DEF Before
<1>5. ASSUME NEW p \in 1 .. Len(Packets)
      PROVE  /\ Packets[p] \in Nat /\ Before(p) \in Nat
             /\ Before(p + 1) = Before(p) + Packets[p] /\ Before(p + 1) <= Len(AllSounds)
             /\ \A i \in 1 .. Packets[p] : AllSounds[Before(p) + i] = <<p, i>>
  <2>1. /\ Packets[p] \in Nat /\ Before(p) \in Nat
        /\ Len(Flat[p]) = Before(p) + Packets[p]
        /\ \A i \in 1 .. Packets[p] : Flat[p][Before(p) + i] = <<p, i>>
    BY FlatPlaces, PartsOf
  <2>2. /\ Len(Flat[p]) <= Len(AllSounds)
        /\ \A i \in 1 .. Len(Flat[p]) : AllSounds[i] = Flat[p][i]
    BY PartsStay
  <2>3. \A i \in 1 .. Packets[p] : Before(p) + i \in 1 .. Len(Flat[p])
    BY <2>1
  <2> QED BY <1>3, <2>1, <2>2, <2>3
<1> QED BY <1>1, <1>2, <1>4, <1>5

LEMMA OpusPlaces ==
  ASSUME I!InstanceAssumption
  PROVE  /\ Opus \in Seq(Places)
         /\ Len(Opus) = IF Len(AllSounds) > PreSkip THEN Len(AllSounds) - PreSkip ELSE 0
         /\ \A i \in 1 .. Len(Opus) : Opus[i] = AllSounds[PreSkip + i]
<1>1. AllSounds \in Seq(Places) /\ Len(AllSounds) \in Nat /\ PreSkip \in Nat
  BY TrackPlaces DEF I!InstanceAssumption
<1>2. Opus = [i \in 1 .. (Len(AllSounds) - (PreSkip + 1)) + 1 |-> AllSounds[i + (PreSkip + 1) - 1]]
  BY <1>1 DEF Opus
<1> DEFINE L == IF Len(AllSounds) > PreSkip THEN Len(AllSounds) - PreSkip ELSE 0
<1>3. L \in Nat /\ 1 .. (Len(AllSounds) - (PreSkip + 1)) + 1 = 1 .. L
  BY <1>1
<1>4. \A i \in 1 .. L : i + (PreSkip + 1) - 1 = PreSkip + i /\ PreSkip + i \in 1 .. Len(AllSounds)
  BY <1>1
<1>5. Opus = [i \in 1 .. L |-> AllSounds[PreSkip + i]]
  BY <1>2, <1>3, <1>4
<1>6. \A i \in 1 .. L : AllSounds[PreSkip + i] \in Places
  BY <1>1, <1>4
<1> HIDE DEF L
<1>7. Opus \in Seq(Places) /\ Len(Opus) = L /\ \A i \in 1 .. L : Opus[i] = AllSounds[PreSkip + i]
  BY <1>3, <1>5, <1>6
<1> QED BY <1>7 DEF L

-----------------------------------------------------------------------------
(* The source of the track: what is left of it is the track from the place  *)
(* after what was taken.                                                    *)

Sources == [cursor : 1 .. Len(Packets) + 1, skip : Nat, fifo : Seq(Places)]
Made(c) == IF Before(c) > PreSkip THEN Before(c) - PreSkip ELSE 0
Missing(c) == IF Before(c) < PreSkip THEN PreSkip - Before(c) ELSE 0
OpusAt(j) == Opus[((j - 1) % Len(Opus)) + 1]

Follows(s, n, t) ==
  /\ s \in Sources /\ s.skip = Missing(s.cursor)
  /\ n + Len(s.fifo) = Len(Opus) * t + Made(s.cursor)
  /\ \A i \in 1 .. Len(s.fifo) : s.fifo[i] = OpusAt(n + i)

LEMMA MadeOf ==
  ASSUME I!InstanceAssumption
  PROVE  /\ Len(Packets) \in Nat \ {0} /\ PreSkip \in Nat /\ Len(Opus) \in Nat
         /\ \A c \in 1 .. Len(Packets) + 1 : Made(c) \in 0 .. Len(Opus) /\ Missing(c) \in Nat
         /\ \A c \in 1 .. Len(Packets) : Made(c) <= Made(c + 1)
         /\ Made(1) = 0 /\ Missing(1) = PreSkip /\ Made(Len(Packets) + 1) = Len(Opus)
<1>1. /\ Len(Packets) \in Nat \ {0} /\ Len(AllSounds) \in Nat
      /\ Before(1) = 0 /\ Before(Len(Packets) + 1) = Len(AllSounds)
      /\ \A p \in 1 .. Len(Packets) :
           /\ Packets[p] \in Nat /\ Before(p) \in Nat
           /\ Before(p + 1) = Before(p) + Packets[p] /\ Before(p + 1) <= Len(AllSounds)
  BY TrackPlaces
<1>2. PreSkip \in Nat /\ Len(Opus) = IF Len(AllSounds) > PreSkip THEN Len(AllSounds) - PreSkip ELSE 0
  BY OpusPlaces DEF I!InstanceAssumption
<1>3. Made(1) = 0 /\ Missing(1) = PreSkip /\ Made(Len(Packets) + 1) = Len(Opus)
  BY <1>1, <1>2 DEF Made, Missing
<1>4. ASSUME NEW c \in 1 .. Len(Packets) + 1
      PROVE  Made(c) \in 0 .. Len(Opus) /\ Missing(c) \in Nat
  <2>1. Before(c) \in Nat /\ Before(c) <= Len(AllSounds)
    <3>1. CASE c = Len(Packets) + 1
      BY <1>1, <3>1
    <3>2. CASE c # Len(Packets) + 1
      <4>1. c \in 1 .. Len(Packets)
        BY <1>1, <3>2
      <4> QED BY <1>1, <4>1
    <3> QED BY <3>1, <3>2
  <2> QED BY <1>1, <1>2, <2>1 DEF Made, Missing
<1>5. ASSUME NEW c \in 1 .. Len(Packets) PROVE Made(c) <= Made(c + 1)
  <2>1. Before(c) \in Nat /\ Packets[c] \in Nat /\ Before(c + 1) = Before(c) + Packets[c]
    BY <1>1
  <2> QED BY <1>2, <2>1 DEF Made
<1>6. Len(Opus) \in Nat
  BY <1>1, <1>2
<1> QED BY <1>1, <1>2, <1>3, <1>4, <1>5, <1>6

(* A sample of a turn through the track.                                    *)
LEMMA OpusTurn ==
  ASSUME I!InstanceAssumption, NEW t \in Nat, NEW i \in 1 .. Len(Opus)
  PROVE  OpusAt(Len(Opus) * t + i) = Opus[i]
<1> DEFINE L == Len(Opus)
           m == L * t
<1>1. L \in Nat \ {0} /\ i \in 1 .. L
  BY MadeOf
<1>2. m \in Int /\ m = L * t
  BY <1>1
<1> HIDE DEF L, m
<1> DEFINE x == m + i - 1
           r == i - 1
<1>3. x \in Int /\ r \in 0 .. L - 1 /\ x = m + r /\ r + 1 = i
  BY <1>1, <1>2
<1> HIDE DEF x, r
<1>4. x = L * t + r
  BY <1>1, <1>2, <1>3
<1>5. x % L = r
  <2>1. t \in Int /\ L \in Nat \ {0} /\ x \in Int /\ r \in 0 .. L - 1
    BY <1>1, <1>3
  <2> QED BY <1>4, <2>1, DivisionIs
<1> QED BY <1>3, <1>5 DEF OpusAt, L, m, x

LEMMA DecodeWithin ==
  ASSUME I!InstanceAssumption, NEW n \in Nat, NEW t \in Nat, NEW s, Follows(s, n, t),
         s.cursor <= Len(Packets)
  PROVE  /\ Follows(I!decode_next_packet(s), n, t)
         /\ I!decode_next_packet(s).cursor = s.cursor + 1
<1> DEFINE c == s.cursor
           u == s.fifo
           b == Before(c)
           length == Packets[c]
           dropped == IF s.skip < length THEN s.skip ELSE length
           v == [i \in 1 .. length - dropped |-> <<c, dropped + i>>]
           d == I!decode_next_packet(s)
           L == Len(Opus)
<1>1. s \in Sources /\ c \in 1 .. Len(Packets) /\ u \in Seq(Places) /\ s.skip \in Nat
      /\ s.skip = Missing(c) /\ Len(Packets) \in Nat /\ Len(u) \in Nat
  BY MadeOf DEF Follows, Sources
<1>2. d = [cursor |-> c + 1, skip |-> s.skip - dropped, fifo |-> u \o v]
  <2>1. ~(s.cursor > Len(Packets))
    BY <1>1
  <2> QED BY <2>1 DEF I!decode_next_packet
<1>3. /\ length \in Nat /\ b \in Nat /\ Before(c + 1) = b + length /\ b + length <= Len(AllSounds)
      /\ \A i \in 1 .. length : AllSounds[b + i] = <<c, i>>
  BY <1>1, TrackPlaces
<1>4. /\ PreSkip \in Nat /\ L \in Nat /\ Len(AllSounds) \in Nat
      /\ L = IF Len(AllSounds) > PreSkip THEN Len(AllSounds) - PreSkip ELSE 0
      /\ \A i \in 1 .. L : Opus[i] = AllSounds[PreSkip + i]
  BY OpusPlaces, TrackPlaces DEF I!InstanceAssumption
<1>5. s.skip = (IF b < PreSkip THEN PreSkip - b ELSE 0)
  BY <1>1 DEF Missing
<1> DEFINE l == Len(u)
           a == Made(c)
           z == Made(c + 1)
           w == s.skip
<1> HIDE DEF b, length
<1>6. /\ dropped \in Nat /\ length - dropped \in Nat /\ s.skip - dropped \in Nat
      /\ s.skip - dropped = Missing(c + 1)
      /\ Made(c + 1) = Made(c) + (length - dropped)
      /\ Made(c) \in Nat /\ Made(c + 1) <= L
      /\ length - dropped > 0 => b + dropped = PreSkip + Made(c)
  <2> DEFINE y == Missing(c + 1)
             e == Before(c + 1)
             all == Len(AllSounds)
  <2>1. a = IF b > PreSkip THEN b - PreSkip ELSE 0
    BY DEF Made, b
  <2>2. z = IF e > PreSkip THEN e - PreSkip ELSE 0
    BY DEF Made
  <2>3. y = IF e < PreSkip THEN PreSkip - e ELSE 0
    BY DEF Missing
  <2>4. length \in Nat /\ b \in Nat /\ e = b + length /\ b + length <= all
    BY <1>3
  <2>5. PreSkip \in Nat /\ L \in Nat /\ all \in Nat
        /\ L = IF all > PreSkip THEN all - PreSkip ELSE 0
    BY <1>4
  <2>6. dropped = (IF w < length THEN w ELSE length) /\ w = IF b < PreSkip THEN PreSkip - b ELSE 0
    BY <1>5
  <2> HIDE DEF a, z, y, e, all, w, dropped, L
  <2>7. dropped \in Nat /\ length - dropped \in Nat /\ w - dropped \in Nat /\ w - dropped = y
    BY <2>3, <2>4, <2>5, <2>6
  <2>8. a \in Nat /\ z <= L /\ (length - dropped > 0 => b + dropped = PreSkip + a)
    BY <2>1, <2>2, <2>4, <2>5, <2>6
  <2>9. z = a + (length - dropped)
    BY <2>1, <2>2, <2>4, <2>5, <2>6
  <2> QED BY <2>7, <2>8, <2>9 DEF a, z, w, y
<1> HIDE DEF dropped
<1>7. v \in Seq(Places) /\ Len(v) = length - dropped
      /\ \A i \in 1 .. Len(v) : v[i] = <<c, dropped + i>>
  <2>1. \A i \in 1 .. length - dropped : <<c, dropped + i>> \in Places
    <3>1. c \in Nat /\ dropped \in Nat
      BY <1>1, <1>6
    <3>2. \A i \in 1 .. length - dropped : dropped + i \in Nat
      BY ONLY <1>6
    <3> QED BY ONLY <3>1, <3>2 DEF Places
  <2>2. PICK k \in Nat : k = length - dropped
    BY <1>6
  <2>3. v = [i \in 1 .. k |-> <<c, dropped + i>>] /\ \A i \in 1 .. k : <<c, dropped + i>> \in Places
    BY <2>1, <2>2
  <2>4. v \in Seq(Places) /\ Len(v) = k /\ \A i \in 1 .. k : v[i] = <<c, dropped + i>>
    BY ONLY <2>2, <2>3
  <2> QED BY <2>2, <2>4
<1> HIDE DEF v
<1>8. /\ u \o v \in Seq(Places) /\ Len(u \o v) = Len(u) + Len(v)
      /\ \A i \in 1 .. Len(u) : (u \o v)[i] = u[i]
      /\ \A i \in 1 .. Len(v) : (u \o v)[Len(u) + i] = v[i]
      /\ \A i \in 1 .. Len(u \o v) : i \in 1 .. Len(u) \/ \E j \in 1 .. Len(v) : i = Len(u) + j
  <2>1. u \in Seq(Places) /\ v \in Seq(Places)
    BY <1>1, <1>7
  <2> HIDE DEF u
  <2>2. u \o v \in Seq(Places) /\ Len(u \o v) = Len(u) + Len(v)
    BY <2>1, ConcatElements
  <2>3. \A i \in 1 .. Len(u) : (u \o v)[i] = u[i]
    BY <2>1, ConcatElements
  <2>4. \A i \in 1 .. Len(v) : (u \o v)[Len(u) + i] = v[i]
    BY <2>1, ConcatElements
  <2>5. \A i \in 1 .. Len(u \o v) : i \in 1 .. Len(u) \/ \E j \in 1 .. Len(v) : i = Len(u) + j
    BY <2>1, ConcatElements
  <2> QED BY <2>2, <2>3, <2>4, <2>5
<1>9. d.cursor = c + 1 /\ d.skip = s.skip - dropped /\ d.fifo = u \o v /\ d \in Sources
  <2>1. d.cursor = c + 1 /\ d.skip = s.skip - dropped /\ d.fifo = u \o v
    BY <1>2
  <2>2. c + 1 \in 1 .. Len(Packets) + 1 /\ s.skip - dropped \in Nat
    <3>1. c + 1 \in 1 .. Len(Packets) + 1
      BY ONLY <1>1
    <3> QED BY ONLY <1>6, <3>1
  <2>3. u \o v \in Seq(Places)
    BY <1>8
  <2> HIDE DEF u, c
  <2> QED BY ONLY <1>2, <2>1, <2>2, <2>3 DEF Sources
<1> DEFINE m == L * t
           g == Len(v)
<1>10. m \in Nat /\ n + Len(u) = m + Made(c)
  BY <1>1, <1>4 DEF Follows
<1>11. n + Len(d.fifo) = L * t + Made(d.cursor)
  <2>0. l \in Nat /\ g = length - dropped /\ length - dropped \in Nat /\ z = a + (length - dropped)
        /\ a \in Nat /\ m \in Nat /\ n + l = m + a
    BY <1>1, <1>6, <1>7, <1>10
  <2> HIDE DEF m, l, g, a, z
  <2>1. n + (l + g) = m + z
    <3>1. n \in Nat
      OBVIOUS
    <3> QED BY ONLY <2>0, <3>1
  <2> USE DEF l, g, a, z
  <2> QED BY <1>8, <1>9, <2>1 DEF m
<1>12. ASSUME NEW i \in 1 .. Len(v) PROVE v[i] = OpusAt(n + (Len(u) + i))
  <2> DEFINE k == a + i
             e == dropped + i
  <2>1. /\ i \in Nat /\ i >= 1 /\ i <= length - dropped
        /\ dropped \in Nat /\ length \in Nat /\ b \in Nat /\ L \in Nat /\ PreSkip \in Nat
        /\ z = a + (length - dropped) /\ a \in Nat /\ z <= L
        /\ length - dropped > 0 => b + dropped = PreSkip + a
        /\ m \in Nat /\ l \in Nat /\ n + l = m + a
    BY <1>1, <1>3, <1>4, <1>6, <1>7, <1>10
  <2>2. k \in 1 .. L /\ e \in 1 .. length /\ PreSkip + k = b + e
    <3> HIDE DEF a, z, L, m, l
    <3> QED BY <2>1
  <2>3. Opus[k] = AllSounds[b + e]
    BY <1>4, <2>2
  <2>4. Opus[k] = v[i]
    BY <1>3, <1>7, <2>2, <2>3
  <2> HIDE DEF k
  <2>5. OpusAt(L * t + k) = Opus[k]
    BY <2>2, OpusTurn
  <2>6. n + (Len(u) + i) = m + k
    <3> HIDE DEF a, z, L, m, l
    <3>1. n + (l + i) = m + k
      BY <2>1 DEF k
    <3> QED BY <3>1 DEF l
  <2> QED BY <2>4, <2>5, <2>6
<1>13. ASSUME NEW i \in 1 .. Len(d.fifo) PROVE d.fifo[i] = OpusAt(n + i)
  <2>1. CASE i \in 1 .. Len(u)
    <3>1. d.fifo[i] = u[i]
      BY <1>8, <1>9, <2>1
    <3> QED BY <2>1, <3>1 DEF Follows
  <2>2. CASE i \notin 1 .. Len(u)
    <3>1. PICK j \in 1 .. Len(v) : i = Len(u) + j
      BY <1>8, <1>9, <2>2
    <3>2. d.fifo[i] = v[j]
      BY <1>8, <1>9, <3>1
    <3> QED BY <1>12, <3>1, <3>2
  <2> QED BY <2>1, <2>2
<1> HIDE DEF d
<1>14. Follows(d, n, t)
  BY <1>6, <1>9, <1>11, <1>13 DEF Follows
<1> QED BY <1>9, <1>14 DEF d

LEMMA DecodeFromStart ==
  ASSUME I!InstanceAssumption, NEW n \in Nat, NEW t \in Nat, NEW s, Follows(s, n, t),
         s.cursor = Len(Packets) + 1
  PROVE  /\ Follows(I!decode_next_packet(s), n, t + 1)
         /\ I!decode_next_packet(s).cursor = 2
<1> DEFINE r == I!reset_decoder_for_loop(s)
           L == Len(Opus)
<1>1. s \in Sources /\ Len(Packets) \in Nat \ {0} /\ L \in Nat /\ PreSkip \in Nat
  <2>1. s \in Sources
    BY DEF Follows
  <2>2. Len(Packets) \in Nat \ {0}
    BY MadeOf
  <2>3. L \in Nat /\ PreSkip \in Nat
    BY MadeOf
  <2> QED BY <2>1, <2>2, <2>3
<1>2. r = [cursor |-> 1, skip |-> PreSkip, fifo |-> s.fifo]
  BY <1>1 DEF I!reset_decoder_for_loop, Sources
<1>3. r.cursor = 1 /\ r.skip = PreSkip /\ r.fifo = s.fifo /\ r \in Sources
  BY <1>1, <1>2 DEF Sources
<1>4. n + Len(s.fifo) = L * t + L
  BY <1>1, MadeOf DEF Follows
<1>5. L * (t + 1) = L * t + L
  BY <1>1
<1>6. Made(1) = 0 /\ Missing(1) = PreSkip
  BY MadeOf
<1>7. L * (t + 1) \in Int
  BY <1>1
<1>8. n + Len(r.fifo) = L * (t + 1) + Made(1)
  BY <1>3, <1>4, <1>5, <1>6, <1>7
<1>9. I!decode_next_packet(s) = I!decode_next_packet(r)
  <2>1. s.cursor > Len(Packets) /\ ~(r.cursor > Len(Packets))
    BY <1>1, <1>3
  <2> HIDE DEF r
  <2> QED BY <2>1 DEF I!decode_next_packet, r
<1> HIDE DEF r, L
<1>10. Follows(r, n, t + 1)
  BY <1>3, <1>6, <1>8 DEF Follows, L
<1>11. t + 1 \in Nat /\ r.cursor <= Len(Packets)
  BY <1>1, <1>3
<1>12. Follows(I!decode_next_packet(r), n, t + 1) /\ I!decode_next_packet(r).cursor = r.cursor + 1
  <2> DEFINE x == t + 1
  <2> HIDE DEF x
  <2>1. x \in Nat /\ Follows(r, n, x)
    BY <1>10, <1>11 DEF x
  <2>2. Follows(I!decode_next_packet(r), n, x) /\ I!decode_next_packet(r).cursor = r.cursor + 1
    BY <1>11, <2>1, DecodeWithin
  <2> QED BY <2>2 DEF x
<1> QED BY <1>3, <1>9, <1>12

(* Where a source is after k more packets than at place c in turn t.        *)
Later(c, t, k, d, u) ==
  \/ c + k <= Len(Packets) + 1 /\ d = c + k /\ u = t
  \/ c + k > Len(Packets) + 1 /\ c + k <= 2 * Len(Packets) + 1 /\ d = c + k - Len(Packets) /\ u = t + 1
  \/ c + k = 2 * Len(Packets) + 2 /\ d = 2 /\ u = t + 2

LEMMA NextPacket ==
  ASSUME I!InstanceAssumption, NEW n \in Nat, NEW t \in Nat, NEW u \in Nat, NEW k \in Nat,
         NEW c \in 1 .. Len(Packets) + 1, k <= Len(Packets),
         NEW s, Follows(s, n, u), Later(c, t, k, s.cursor, u)
  PROVE  \E w \in Nat : /\ Follows(I!decode_next_packet(s), n, w)
                        /\ Later(c, t, k + 1, I!decode_next_packet(s).cursor, w)
<1> DEFINE P == Len(Packets)
           d == s.cursor
           e == I!decode_next_packet(s)
<1>1. P \in Nat \ {0}
  BY MadeOf
<1>2. d \in 1 .. P + 1
  BY DEF Follows, Sources
<1>3. CASE d <= P
  <2>1. Follows(e, n, u) /\ e.cursor = d + 1
    BY <1>3, DecodeWithin
  <2> HIDE DEF P, d, e
  <2>2. Later(c, t, k + 1, e.cursor, u)
    BY SMTT(30), <1>1, <1>2, <1>3, <2>1 DEF Later, P, d
  <2> QED BY <2>1, <2>2 DEF e
<1>4. CASE d = P + 1
  <2>1. Follows(e, n, u + 1) /\ e.cursor = 2
    BY <1>4, DecodeFromStart
  <2> HIDE DEF P, d, e
  <2>2. Later(c, t, k + 1, e.cursor, u + 1)
    BY <1>1, <1>2, <1>4, <2>1 DEF Later, P, d
  <2>3. u + 1 \in Nat
    OBVIOUS
  <2> QED BY <2>1, <2>2, <2>3 DEF e
<1> QED BY <1>1, <1>2, <1>3, <1>4

(* After as many packets as there are and one, a whole turn more is there.  *)
LEMMA WholeTurn ==
  ASSUME I!InstanceAssumption, NEW n \in Nat, NEW t \in Nat, NEW u \in Nat,
         NEW s, Follows(s, n, t), NEW e, Follows(e, n, u),
         Later(s.cursor, t, Len(Packets) + 1, e.cursor, u)
  PROVE  Len(Opus) <= Len(e.fifo)
<1> DEFINE P == Len(Packets)
           L == Len(Opus)
           c == s.cursor
           d == e.cursor
           a == Made(c)
           b == Made(d)
           x == L * t
           y == L * u
           f == Len(s.fifo)
           g == Len(e.fifo)
<1>1. P \in Nat \ {0} /\ L \in Nat
  BY MadeOf
<1>2. c \in 1 .. P + 1 /\ d \in 1 .. P + 1 /\ f \in Nat /\ g \in Nat
  BY DEF Follows, Sources
<1>3. n + f = x + a /\ n + g = y + b
  BY DEF Follows
<1>4. a \in 0 .. L /\ b \in 0 .. L /\ (c = P + 1 => a = L)
  BY <1>2, MadeOf
<1>5. c <= P /\ d = c + 1 => a <= b
  <2>1. c <= P => Made(c) <= Made(c + 1)
    BY <1>1, <1>2, MadeOf
  <2> QED BY <2>1
<1>6. L * (t + 1) = L * t + L /\ L * (t + 2) = L * t + 2 * L /\ L * t \in Nat /\ L * u \in Nat
  BY <1>1
<1>7. /\ u = t + 1 => y = x + L
      /\ u = t + 2 => y = x + 2 * L
      /\ x \in Nat /\ y \in Nat
  BY <1>6
<1> HIDE DEF a, b, x, y, L, f, g
<1>8. \/ c <= P /\ d = c + 1 /\ u = t + 1
      \/ c = P + 1 /\ u = t + 2
  <2> HIDE DEF c, d, P
  <2> QED BY <1>1, <1>2 DEF Later, c, d, P
<1>9. CASE c <= P /\ d = c + 1 /\ u = t + 1
  <2>1. y = x + L /\ a <= b
    BY <1>5, <1>7, <1>9
  <2>2. L <= g
    BY <1>1, <1>2, <1>3, <1>4, <1>7, <2>1
  <2> QED BY <2>2 DEF L, g
<1>10. CASE c = P + 1 /\ u = t + 2
  <2>1. y = x + 2 * L /\ a = L
    BY <1>4, <1>7, <1>10
  <2>2. L <= g
    BY <1>1, <1>2, <1>3, <1>4, <1>7, <2>1
  <2> QED BY <2>2 DEF L, g
<1> QED BY <1>8, <1>9, <1>10

FillStep(s, w) == IF Len(s.fifo) < w THEN I!decode_next_packet(s) ELSE s
IsFilling(f, s, w) ==
  f = [k \in 0 .. Len(Packets) + 1 |->
         IF k = 0 THEN s
         ELSE LET r == f[k - 1] IN IF Len(r.fifo) < w THEN I!decode_next_packet(r) ELSE r]
Filled(s, w) == (CHOOSE f : IsFilling(f, s, w))[Len(Packets) + 1]

LEMMA FillingExists ==
  ASSUME I!InstanceAssumption, NEW n \in Nat, NEW t \in Nat, NEW w \in Nat,
         NEW s, Follows(s, n, t)
  PROVE  \E f : IsFilling(f, s, w)
<1> DEFINE S == {r \in Sources : \E u \in Nat : Follows(r, n, u)}
           N == Len(Packets) + 1
           F == [k \in 1 .. N |-> [r \in S |-> FillStep(r, w)]]
<1>1. N \in Nat /\ Len(Packets) \in Nat
  BY MadeOf
<1>2. ASSUME NEW r \in S PROVE FillStep(r, w) \in S
  <2>1. PICK u \in Nat : Follows(r, n, u)
    OBVIOUS
  <2> DEFINE d == I!decode_next_packet(r)
  <2>2. \E v \in Nat : Follows(d, n, v)
    <3>1. CASE r.cursor <= Len(Packets)
      BY <2>1, <3>1, DecodeWithin
    <3>2. CASE ~(r.cursor <= Len(Packets))
      <4>1. r.cursor = Len(Packets) + 1
        BY <1>1, <3>2 DEF Sources
      <4>2. Follows(d, n, u + 1) /\ u + 1 \in Nat
        BY <2>1, <4>1, DecodeFromStart
      <4> QED BY <4>2
    <3> QED BY <3>1, <3>2
  <2> HIDE DEF d
  <2>3. d \in S
    BY <2>2 DEF Follows
  <2> QED BY <2>3 DEF FillStep, d
<1>3. s \in S
  BY DEF Follows
<1> HIDE DEF S
<1>4. [r \in S |-> FillStep(r, w)] \in [S -> S]
  BY <1>2
<1>5. StepsOf(F, N, S)
  BY <1>4 DEF StepsOf
<1>6. PICK f : Iterates(f, F, N, S, s)
  <2> HIDE DEF F, N
  <2> QED BY <1>1, <1>3, <1>5, RecursionExists
<1>7. f \in [0 .. N -> S] /\ f[0] = s /\ \A k \in 1 .. N : f[k] = F[k][f[k - 1]]
  <2> HIDE DEF F, N
  <2> QED BY <1>6 DEF Iterates
<1>8. ASSUME NEW k \in 1 .. N PROVE f[k] = FillStep(f[k - 1], w)
  <2>1. k - 1 \in 0 .. N /\ f[k - 1] \in S
    BY <1>1, <1>7
  <2> QED BY <1>7, <2>1
<1>9. f = [k \in 0 .. N |-> IF k = 0 THEN s ELSE FillStep(f[k - 1], w)]
  <2>1. \A k \in 0 .. N : f[k] = IF k = 0 THEN s ELSE FillStep(f[k - 1], w)
    BY <1>1, <1>7, <1>8
  <2> HIDE DEF N
  <2> QED BY <1>7, <2>1
<1>10. IsFilling(f, s, w)
  BY <1>9 DEF IsFilling, FillStep
<1> QED BY <1>10

LEMMA FilledSource ==
  ASSUME I!InstanceAssumption, NEW n \in Nat, NEW t \in Nat, NEW w \in Nat,
         NEW s, Follows(s, n, t)
  PROVE  /\ \E u \in Nat : Follows(Filled(s, w), n, u)
         /\ Len(Filled(s, w).fifo) < w => Len(Opus) < w
<1> DEFINE f == CHOOSE f : IsFilling(f, s, w)
           P == Len(Packets)
           c == s.cursor
           Q(k) == \E u \in Nat : /\ Follows(f[k], n, u)
                                  /\ Len(f[k].fifo) < w => Later(c, t, k, f[k].cursor, u)
           T == {k \in Nat : k <= P + 1 => Q(k)}
<1>1. IsFilling(f, s, w)
  BY FillingExists
<1>2. P \in Nat \ {0} /\ c \in 1 .. P + 1
  BY MadeOf DEF Follows, Sources
<1> HIDE DEF f
<1>3. f[0] = s /\ \A k \in 1 .. P + 1 : f[k] = FillStep(f[k - 1], w)
  <2>1. f = [k \in 0 .. P + 1 |-> IF k = 0 THEN s ELSE FillStep(f[k - 1], w)]
    BY <1>1 DEF IsFilling, FillStep
  <2> HIDE DEF P
  <2>2. \A k \in 0 .. P + 1 : f[k] = IF k = 0 THEN s ELSE FillStep(f[k - 1], w)
    BY <2>1
  <2> QED BY <1>2, <2>2
<1>4. 0 \in T
  <2>1. Later(c, t, 0, c, t)
    BY <1>2 DEF Later
  <2>2. Q(0)
    BY <1>3, <2>1
  <2> QED BY <2>2
<1>5. ASSUME NEW k \in Nat, k \in T PROVE k + 1 \in T
  <2> SUFFICES ASSUME k + 1 <= P + 1 PROVE Q(k + 1)
    OBVIOUS
  <2>1. k <= P /\ k + 1 \in 1 .. P + 1 /\ (k + 1) - 1 = k /\ Q(k)
    BY <1>2, <1>5
  <2>2. f[k + 1] = FillStep(f[k], w)
    BY <1>3, <2>1
  <2>3. PICK u \in Nat : /\ Follows(f[k], n, u)
                         /\ Len(f[k].fifo) < w => Later(c, t, k, f[k].cursor, u)
    BY <2>1
  <2> DEFINE r == f[k]
             e == f[k + 1]
  <2>4. CASE Len(r.fifo) < w
    <3>1. e = I!decode_next_packet(r)
      BY <2>2, <2>4 DEF FillStep
    <3> HIDE DEF r, e, c, P
    <3>2. Follows(r, n, u) /\ Later(c, t, k, r.cursor, u)
      BY <2>3, <2>4 DEF r
    <3>3. k <= Len(Packets) /\ c \in 1 .. Len(Packets) + 1
      BY <1>2, <2>1 DEF P
    <3>4. \E v \in Nat : Follows(e, n, v) /\ Later(c, t, k + 1, e.cursor, v)
      BY <3>1, <3>2, <3>3, NextPacket
    <3> QED BY <3>4 DEF e, c
  <2>5. CASE ~(Len(r.fifo) < w)
    <3>1. e = r
      BY <2>2, <2>5 DEF FillStep
    <3> QED BY <2>3, <2>5, <3>1
  <2> QED BY <2>4, <2>5
<1>6. \A k \in Nat : k \in T => k + 1 \in T
  BY <1>5
<1> HIDE DEF T
<1>7. P + 1 \in T
  <2>1. P + 1 \in Nat
    BY <1>2
  <2> HIDE DEF P
  <2> QED BY <1>4, <1>6, <2>1, Induction
<1>8. Q(P + 1)
  BY <1>2, <1>7 DEF T
<1> DEFINE e == f[P + 1]
<1>9. PICK u \in Nat : /\ Follows(e, n, u)
                       /\ Len(e.fifo) < w => Later(c, t, P + 1, e.cursor, u)
  BY <1>8
<1>10. e = Filled(s, w)
  BY DEF Filled, f
<1> HIDE DEF e
<1>11. ASSUME Len(e.fifo) < w PROVE Len(Opus) < w
  <2>1. Later(s.cursor, t, Len(Packets) + 1, e.cursor, u)
    BY <1>9, <1>11
  <2>2. Len(Opus) <= Len(e.fifo)
    BY <1>9, <2>1, WholeTurn
  <2>3. Len(Opus) \in Nat /\ Len(e.fifo) \in Nat
    <3>1. e.fifo \in Seq(Places)
      BY <1>9 DEF Follows, Sources
    <3> QED BY <3>1, MadeOf
  <2> DEFINE x == Len(e.fifo)
             y == Len(Opus)
  <2>4. y <= x /\ x < w /\ x \in Nat /\ y \in Nat
    BY <1>11, <2>2, <2>3
  <2> HIDE DEF x, y
  <2>5. y < w
    BY <2>4
  <2> QED BY <2>5 DEF y
<1> QED BY <1>9, <1>10, <1>11

-----------------------------------------------------------------------------
(* What was heard.                                                          *)

Samples == Nat \cup Places \cup {Silence}
Sounding(h, n) == {j \in 1 .. n : h[j] # Silence}
Number(h) == Cardinality(Sounding(h, Len(h)))
TrackAt(track, j) == track[((j - 1) % Len(track)) + 1]
InOrder(h, track) ==
  \A i \in 1 .. Len(h) : h[i] # Silence => h[i] = TrackAt(track, Cardinality(Sounding(h, i)))

(* The next w samples of a track of which n were taken, k of them sounds.   *)
Takes(g, w, track, n, k) ==
  /\ k \in 0 .. w /\ g \in Seq(Samples) /\ Len(g) = w
  /\ \A i \in 1 .. k : g[i] # Silence /\ g[i] = TrackAt(track, n + i)
  /\ \A i \in 1 .. w : i > k => g[i] = Silence

LEMMA SoundingFinite ==
  ASSUME NEW h, NEW n \in Nat
  PROVE  IsFiniteSet(Sounding(h, n)) /\ Cardinality(Sounding(h, n)) \in Nat
<1>1. IsFiniteSet(1 .. n)
  BY FS_Interval
<1>2. Sounding(h, n) \subseteq 1 .. n
  BY DEF Sounding
<1>3. IsFiniteSet(Sounding(h, n))
  BY <1>1, <1>2, FS_Subset
<1> QED BY <1>3, FS_CardinalityType

CountsOn(hg, h, k) ==
  \A i \in 0 .. k : Cardinality(Sounding(hg, Len(h) + i)) = Number(h) + i

LEMMA SoundingMore ==
  ASSUME NEW w \in Nat, NEW track, NEW h \in Seq(Samples), NEW g, NEW n, NEW k, Takes(g, w, track, n, k)
  PROVE  /\ \A i \in 1 .. Len(h) : Sounding(h \o g, i) = Sounding(h, i)
         /\ CountsOn(h \o g, h, k)
         /\ Number(h \o g) = Number(h) + k
<1> DEFINE hg == h \o g
           l == Len(h)
<1>1. g \in Seq(Samples) /\ Len(g) = w /\ k \in 0 .. w /\ l \in Nat
  BY DEF Takes
<1>2. /\ Len(hg) = l + w
      /\ \A i \in 1 .. l : hg[i] = h[i]
      /\ \A i \in 1 .. w : hg[l + i] = g[i]
  <2>1. Len(hg) = l + w
    BY <1>1, ConcatElements
  <2>2. \A i \in 1 .. l : hg[i] = h[i]
    BY <1>1, ConcatElements
  <2>3. \A i \in 1 .. Len(g) : hg[l + i] = g[i]
    BY <1>1, ConcatElements
  <2> QED BY <1>1, <2>1, <2>2, <2>3
<1> HIDE DEF hg, l
<1>3. ASSUME NEW i \in 0 .. l PROVE Sounding(hg, i) = Sounding(h, i)
  BY <1>1, <1>2 DEF Sounding
<1>4. ASSUME NEW i \in 0 .. w, NEW m \in 0 .. k, i <= k => m = i, i > k => m = k
      PROVE  Cardinality(Sounding(hg, l + i)) = Number(h) + m
  <2> DEFINE A == Sounding(h, l)
             B == (l + 1) .. (l + m)
  <2>1. \A j \in B : j - l \in 1 .. w /\ j - l \in 1 .. k /\ j = l + (j - l)
    BY <1>1, <1>4
  <2>2. \A j \in B : hg[j] # Silence
    BY <1>2, <2>1 DEF Takes
  <2>3. \A j \in 1 .. (l + i) : j \in 1 .. l \/ j \in B \/ (j - l \in 1 .. w /\ j - l > k /\ j = l + (j - l))
    BY <1>1, <1>4
  <2>4. \A j \in 1 .. (l + i) : hg[j] # Silence => j \in 1 .. l \/ j \in B
    BY <1>2, <2>3 DEF Takes
  <2>5. \A j \in B : j \in 1 .. (l + i) /\ j \notin 1 .. l
    BY <1>1, <1>4
  <2>6. \A j \in 1 .. l : j \in 1 .. (l + i) /\ hg[j] = h[j]
    BY <1>1, <1>2, <1>4
  <2> HIDE DEF B
  <2>7. Sounding(hg, l + i) = A \cup B
    BY <2>2, <2>4, <2>5, <2>6 DEF Sounding
  <2>8. A \cap B = {}
    BY <2>5 DEF Sounding
  <2>9. IsFiniteSet(A) /\ Cardinality(A) \in Nat
    BY <1>1, SoundingFinite
  <2>10. IsFiniteSet(B) /\ Cardinality(B) = m
    <3>1. l + 1 \in Int /\ l + m \in Int
      BY <1>1
    <3> DEFINE x == l + 1
               y == l + m
    <3>2. x \in Int /\ y \in Int /\ m = IF x > y THEN 0 ELSE y - x + 1
      BY <1>1, <1>4, <3>1
    <3> HIDE DEF x, y
    <3>3. IsFiniteSet(x .. y) /\ Cardinality(x .. y) = IF x > y THEN 0 ELSE y - x + 1
      BY <3>2, FS_Interval
    <3> QED BY <3>2, <3>3 DEF x, y, B
  <2> HIDE DEF A
  <2>11. Cardinality(A \cup B) = Cardinality(A) + Cardinality(B) - Cardinality(A \cap B)
    BY <2>9, <2>10, FS_Union
  <2>12. Cardinality(A \cap B) = 0
    BY <2>8, FS_EmptySet
  <2>13. Cardinality(Sounding(hg, l + i)) = Cardinality(A) + m
    <3> DEFINE x == Cardinality(A)
               y == Cardinality(B)
               z == Cardinality(A \cap B)
    <3>1. x \in Nat /\ y = m /\ z = 0 /\ Cardinality(A \cup B) = x + y - z
      BY <2>9, <2>10, <2>11, <2>12
    <3> HIDE DEF x, y, z
    <3>2. Cardinality(A \cup B) = x + m
      BY <1>4, <3>1
    <3> QED BY <2>7, <3>2 DEF x
  <2>14. Cardinality(A) = Number(h)
    BY DEF Number, A, l
  <2> QED BY <2>13, <2>14
<1>5. ASSUME NEW i \in 0 .. k PROVE Cardinality(Sounding(hg, l + i)) = Number(h) + i
  <2>1. i \in 0 .. w /\ (i <= k => i = i) /\ (i > k => i = k)
    BY <1>1
  <2> QED BY <1>4, <2>1
<1>6. Number(hg) = Number(h) + k
  <2>1. w \in 0 .. w /\ k \in 0 .. k /\ (w <= k => k = w) /\ (w > k => k = k)
    BY <1>1
  <2>2. Cardinality(Sounding(hg, l + w)) = Number(h) + k
    BY <1>4, <2>1
  <2> QED BY <1>2, <2>2 DEF Number
<1>7. CountsOn(hg, h, k)
  BY <1>5 DEF CountsOn, l
<1>8. \A i \in 1 .. l : Sounding(hg, i) = Sounding(h, i)
  BY <1>1, <1>3
<1> QED BY <1>6, <1>7, <1>8 DEF hg, l

LEMMA HeardMore ==
  ASSUME NEW w \in Nat, NEW track, NEW h \in Seq(Samples), NEW g, NEW k,
         Takes(g, w, track, Number(h), k), InOrder(h, track)
  PROVE  /\ h \o g \in Seq(Samples) /\ InOrder(h \o g, track)
         /\ Silence \in Range(h \o g) => Silence \in Range(h) \/ k < w
<1> DEFINE hg == h \o g
           l == Len(h)
           n == Number(h)
<1>1. g \in Seq(Samples) /\ Len(g) = w /\ k \in 0 .. w /\ l \in Nat
  BY DEF Takes
<1>2. /\ hg \in Seq(Samples) /\ Len(hg) = l + w
      /\ \A i \in 1 .. l : hg[i] = h[i]
      /\ \A i \in 1 .. w : hg[l + i] = g[i]
  <2>1. hg \in Seq(Samples) /\ Len(hg) = l + w
    BY <1>1, ConcatElements
  <2>2. \A i \in 1 .. l : hg[i] = h[i]
    BY <1>1, ConcatElements
  <2>3. \A i \in 1 .. Len(g) : hg[l + i] = g[i]
    BY <1>1, ConcatElements
  <2> QED BY <1>1, <2>1, <2>2, <2>3
<1>3. \A i \in 1 .. l : Sounding(hg, i) = Sounding(h, i)
  BY SoundingMore
<1>4. \A i \in 0 .. k : Cardinality(Sounding(hg, l + i)) = n + i
  <2>1. CountsOn(h \o g, h, k)
    BY SoundingMore
  <2> QED BY <2>1 DEF CountsOn
<1>5. \A i \in 1 .. k : g[i] # Silence /\ g[i] = TrackAt(track, n + i)
  BY DEF Takes
<1>6. \A i \in 1 .. w : i > k => g[i] = Silence
  BY DEF Takes
<1> HIDE DEF hg, l, n
<1>7. \A i \in 1 .. l : h[i] # Silence => h[i] = TrackAt(track, Cardinality(Sounding(h, i)))
  BY DEF InOrder, l
<1>8. ASSUME NEW i \in 1 .. Len(hg), hg[i] # Silence
      PROVE  hg[i] = TrackAt(track, Cardinality(Sounding(hg, i)))
  <2>1. CASE i \in 1 .. l
    BY <1>2, <1>3, <1>7, <1>8, <2>1
  <2>2. CASE i \notin 1 .. l
    <3> DEFINE j == i - l
    <3>1. j \in 1 .. w /\ i = l + j
      BY <1>1, <1>2, <2>2
    <3> HIDE DEF j
    <3>2. hg[i] = g[j]
      BY <1>2, <3>1
    <3>3. j \in 1 .. k
      BY <1>1, <1>6, <1>8, <3>1, <3>2
    <3>4. j \in 0 .. k
      BY <1>1, <3>3
    <3> QED BY <1>4, <1>5, <3>1, <3>2, <3>3, <3>4
  <2> QED BY <2>1, <2>2
<1>9. ASSUME Silence \in Range(hg) PROVE Silence \in Range(h) \/ k < w
  <2>1. PICK i \in 1 .. Len(hg) : hg[i] = Silence
    BY <1>2, <1>9 DEF Range
  <2>2. CASE i \in 1 .. l
    BY <1>2, <2>1, <2>2 DEF Range, l
  <2>3. CASE i \notin 1 .. l
    <3> DEFINE j == i - l
    <3>1. j \in 1 .. w /\ i = l + j
      BY <1>1, <1>2, <2>1, <2>3
    <3> HIDE DEF j
    <3>2. g[j] = Silence
      BY <1>2, <2>1, <3>1
    <3>3. ~(j \in 1 .. k)
      BY <1>5, <3>2
    <3> QED BY <1>1, <3>1, <3>3
  <2> QED BY <2>2, <2>3
<1> QED BY <1>2, <1>8, <1>9 DEF hg, InOrder

-----------------------------------------------------------------------------
(* What is read: of the track of a file, and of samples in memory.          *)

LEMMA ReadsTrack ==
  ASSUME I!InstanceAssumption, NEW n \in Nat, NEW t \in Nat, NEW w \in Nat,
         NEW s, Follows(s, n, t)
  PROVE  \E k \in 0 .. w, u \in Nat :
           /\ Takes(I!read_samples(s, w).given, w, Opus, n, k)
           /\ Follows(I!read_samples(s, w).source, n + k, u)
           /\ k < w => Len(Opus) < w
<1> DEFINE e == Filled(s, w)
           q == e.fifo
           l == Len(q)
           k == IF w < l THEN w ELSE l
           rest == IF w < l THEN SubSeq(q, w + 1, l) ELSE <<>>
           given == [i \in 1 .. w |-> IF i <= l THEN q[i] ELSE Silence]
           r == I!read_samples(s, w)
<1>1. r = [given |-> given, source |-> [e EXCEPT !.fifo = rest]]
  BY DEF I!read_samples, Filled, IsFilling
<1>2. PICK u \in Nat : Follows(e, n, u)
  BY FilledSource
<1>3. l < w => Len(Opus) < w
  BY FilledSource
<1> HIDE DEF e
<1>4. /\ e \in Sources /\ q \in Seq(Places) /\ l \in Nat /\ e.skip = Missing(e.cursor)
      /\ n + l = Len(Opus) * u + Made(e.cursor)
      /\ \A i \in 1 .. l : q[i] = OpusAt(n + i)
  BY <1>2 DEF Follows, Sources
<1> DEFINE c == [e EXCEPT !.fifo = rest]
<1>5. rest \in Seq(Places) /\ Len(rest) = l - k /\ \A i \in 1 .. l - k : rest[i] = q[k + i]
  <2> HIDE DEF q
  <2>1. CASE w < l
    <3>1. SubSeq(q, w + 1, l) = [i \in 1 .. (l - (w + 1)) + 1 |-> q[i + (w + 1) - 1]]
      BY DEF l
    <3>2. (l - (w + 1)) + 1 = l - w /\ l - w \in Nat
      BY <1>4, <2>1
    <3>3. \A i \in 1 .. l - w : i + (w + 1) - 1 = w + i /\ w + i \in 1 .. l
      BY <1>4, <2>1
    <3>4. rest = [i \in 1 .. l - w |-> q[w + i]]
      BY <2>1, <3>1, <3>2, <3>3
    <3>5. \A i \in 1 .. l - w : q[w + i] \in Places
      BY <1>4, <3>3
    <3>6. rest \in Seq(Places) /\ Len(rest) = l - w /\ \A i \in 1 .. l - w : rest[i] = q[w + i]
      <4> HIDE DEF rest, l
      <4> QED BY <3>2, <3>4, <3>5
    <3> QED BY <2>1, <3>6
  <2>2. CASE ~(w < l)
    <3>1. rest = <<>> /\ l - k = 0
      BY <1>4, <2>2
    <3> HIDE DEF rest, k
    <3> QED BY <3>1
  <2> QED BY <2>1, <2>2
<1>6. /\ k \in 0 .. w /\ k <= l /\ k \in Nat
      /\ \A i \in 1 .. w : i <= l <=> i <= k
  BY <1>4
<1> HIDE DEF rest, q, k
<1>7. c.fifo = rest /\ c.cursor = e.cursor /\ c.skip = e.skip /\ c \in Sources
  BY <1>4, <1>5 DEF Sources
<1>8. \A i \in 1 .. Len(rest) : rest[i] = OpusAt((n + k) + i)
  <2> TAKE i \in 1 .. Len(rest)
  <2>1. i \in Nat /\ k + i \in 1 .. l /\ n + (k + i) = (n + k) + i
    BY <1>4, <1>5, <1>6
  <2> DEFINE x == k + i
  <2>2. rest[i] = q[x]
    BY <1>5
  <2>3. x \in 1 .. l /\ n + x = (n + k) + i
    BY <2>1
  <2> HIDE DEF x
  <2>4. q[x] = OpusAt(n + x)
    BY <1>4, <2>3
  <2> QED BY <2>2, <2>3, <2>4
<1>9. (n + k) + Len(rest) = n + l
  BY <1>4, <1>5, <1>6
<1>10. Follows(c, n + k, u)
  BY <1>4, <1>7, <1>8, <1>9 DEF Follows
<1>11. Silence \notin Places
  BY DEF I!InstanceAssumption, Places
<1>12. Takes(given, w, Opus, n, k)
  <2>1. \A i \in 1 .. k : i \in 1 .. w /\ i \in 1 .. l /\ i <= l
    BY <1>4, <1>6
  <2>2. \A i \in 1 .. k : given[i] = q[i]
    BY <2>1
  <2>3. \A i \in 1 .. k : given[i] # Silence /\ given[i] = TrackAt(Opus, n + i)
    BY <1>4, <1>11, <2>1, <2>2 DEF OpusAt, TrackAt
  <2>4. \A i \in 1 .. w : i > k => given[i] = Silence
    BY <1>6
  <2>5. \A i \in 1 .. w : given[i] \in Samples
    <3> TAKE i \in 1 .. w
    <3>1. CASE i <= l
      <4>1. i \in 1 .. l
        BY <1>4, <3>1
      <4>2. q[i] \in Places
        BY <1>4, <4>1
      <4> QED BY <3>1, <4>2 DEF Samples
    <3>2. CASE ~(i <= l)
      BY <3>2 DEF Samples
    <3> QED BY <3>1, <3>2
  <2>6. given \in Seq(Samples) /\ Len(given) = w
    BY <2>5
  <2> HIDE DEF given
  <2> QED BY <1>6, <2>3, <2>4, <2>6 DEF Takes
<1>13. k < w => Len(Opus) < w
  <2>1. k < w => l < w
    BY <1>4 DEF k
  <2> QED BY <1>3, <2>1
<1>14. r.given = given /\ r.source = c
  BY <1>1
<1> HIDE DEF r, given, c
<1> QED BY <1>6, <1>10, <1>12, <1>13, <1>14 DEF r

LEMMA RemainderOfSum ==
  ASSUME NEW a \in Int, NEW b \in Int, NEW f \in Nat \ {0}
  PROVE  ((a % f) + b) % f = (a + b) % f
<1> DEFINE q == a \div f
           r == a % f
           x == r + b
           p == x \div f
           s == x % f
<1>1. q \in Int /\ r \in 0 .. f - 1 /\ a = f * q + r
  BY DivisionOf
<1>2. x \in Int
  BY <1>1
<1> HIDE DEF q, r
<1>3. p \in Int /\ s \in 0 .. f - 1 /\ x = f * p + s
  BY <1>2, DivisionOf
<1>4. f * (q + p) = f * q + f * p /\ f * q \in Int /\ f * p \in Int
  BY <1>1, <1>3
<1> HIDE DEF p, s
<1> DEFINE u == f * q
           v == f * p
           w == f * (q + p)
           y == a + b
<1>5. w = u + v /\ u \in Int /\ v \in Int /\ a = u + r /\ x = v + s /\ x = r + b
  BY <1>1, <1>3, <1>4
<1> HIDE DEF u, v, w, x
<1>6. y = w + s /\ y \in Int
  BY <1>1, <1>3, <1>5
<1> HIDE DEF y
<1>7. y = f * (q + p) + s /\ q + p \in Int
  BY <1>1, <1>3, <1>6 DEF w
<1>8. y % f = s
  BY <1>3, <1>6, <1>7, DivisionIs
<1> QED BY <1>8 DEF y, s, x, r

(* What a WAV file is resampled to.                                         *)
LEMMA ResampledSounds ==
  ASSUME I!InstanceAssumption
  PROVE  I!WavSamples \in Seq(Nat)
<1> DEFINE m == (WavFrames * SampleRate) \div WavRate
           From(i) == ((i - 1) * WavRate) \div SampleRate
<1>1. WavFrames \in Nat /\ WavRate \in Nat \ {0} /\ SampleRate \in Nat \ {0}
  BY DEF I!InstanceAssumption
<1>2. ASSUME NEW x \in Nat, NEW f \in Nat \ {0} PROVE x \div f \in Nat
  <2>1. 0 \div f <= x \div f
    BY QuotientIsMonotone
  <2>2. 0 \div f = 0 /\ x \div f \in Int
    OBVIOUS
  <2> QED BY <2>1, <2>2
<1>3. WavFrames * SampleRate \in Nat
  BY <1>1
<1>4. m \in Nat
  <2> DEFINE x == WavFrames * SampleRate
  <2>1. x \in Nat
    BY <1>3
  <2> HIDE DEF x
  <2> QED BY <1>1, <1>2, <2>1 DEF x
<1>5. ASSUME NEW i \in 1 .. m PROVE From(i) \in Nat
  <2> DEFINE x == (i - 1) * WavRate
  <2>1. i - 1 \in Nat
    BY <1>4
  <2>2. x \in Nat
    BY <1>1, <2>1
  <2> HIDE DEF x, m
  <2> QED BY <1>1, <1>2, <2>2 DEF x
<1>6. I!WavSamples = [i \in 1 .. m |-> IF From(i) >= WavFrames - 1 THEN WavFrames ELSE From(i) + 1]
  BY DEF I!WavSamples, I!resample
<1> HIDE DEF m
<1>7. ASSUME NEW i \in 1 .. m
      PROVE  (IF From(i) >= WavFrames - 1 THEN WavFrames ELSE From(i) + 1) \in Nat
  <2> DEFINE x == From(i)
  <2>1. x \in Nat
    BY <1>5
  <2> HIDE DEF x
  <2>2. (IF x >= WavFrames - 1 THEN WavFrames ELSE x + 1) \in Nat
    BY <1>1, <2>1
  <2> QED BY <2>2 DEF x
<1> QED BY <1>4, <1>6, <1>7

LEMMA ReadsMemory ==
  ASSUME I!InstanceAssumption, NEW n \in Nat, NEW w \in Nat, NEW s,
         Len(I!WavSamples) > 0, s.cursor = (n % Len(I!WavSamples)) + 1
  PROVE  /\ Takes(I!read_looped(s, w).given, w, I!WavSamples, n, w)
         /\ I!read_looped(s, w).source
              = [s EXCEPT !.cursor = ((n + w) % Len(I!WavSamples)) + 1]
<1> DEFINE W == I!WavSamples
           L == Len(W)
           c == s.cursor
           given == [i \in 1 .. w |-> W[((c + i - 2) % L) + 1]]
           source == [s EXCEPT !.cursor = ((c + w - 1) % L) + 1]
           r == I!read_looped(s, w)
<1>1. W \in Seq(Nat) /\ L \in Nat \ {0}
  BY ResampledSounds
<1>2. r.given = given /\ r.source = source
  BY DEF I!read_looped
<1> DEFINE m == n % L
<1>0. c = m + 1
  OBVIOUS
<1> HIDE DEF W, r, L
<1>14. m \in 0 .. L - 1 /\ n \in Int
  <2>1. n \in Int
    OBVIOUS
  <2>2. n % L \in 0 .. L - 1
    BY <1>1, <2>1, DivisionOf DEF L
  <2> QED BY <2>1, <2>2
<1>3. ASSUME NEW b \in Int PROVE (c + b - 1) % L = (n + b) % L
  <2>1. ((n % L) + b) % L = (n + b) % L
    BY <1>1, <1>14, RemainderOfSum
  <2>2. (m + b) % L = (n + b) % L
    BY <2>1
  <2> HIDE DEF m, c
  <2>3. c + b - 1 = m + b
    BY <1>0, <1>14
  <2> QED BY <2>2, <2>3
<1>4. source = [s EXCEPT !.cursor = ((n + w) % L) + 1]
  <2>1. (c + w - 1) % L = (n + w) % L
    <3> HIDE DEF c
    <3> QED BY <1>3
  <2> QED BY <2>1
<1>5. ASSUME NEW i \in 1 .. w PROVE W[((c + i - 2) % L) + 1] = TrackAt(W, n + i)
  <2> DEFINE b == i - 1
  <2> HIDE DEF m, c
  <2>2. b \in Int /\ c + i - 2 = c + b - 1 /\ n + b = n + i - 1
    BY <1>0, <1>14
  <2> HIDE DEF b
  <2>3. (c + b - 1) % L = (n + b) % L
    BY <1>3, <2>2
  <2>4. TrackAt(W, n + i) = W[((n + b) % L) + 1]
    BY <2>2 DEF TrackAt, L
  <2> QED BY ONLY <2>2, <2>3, <2>4
<1>6. ASSUME NEW j \in Int PROVE TrackAt(W, j) \in Nat
  <2> DEFINE y == (j - 1) % L
  <2>1. y \in 0 .. L - 1
    <3> DEFINE x == j - 1
    <3>1. x \in Int
      OBVIOUS
    <3> HIDE DEF x, L
    <3> QED BY <1>1, <3>1, DivisionOf DEF x
  <2> HIDE DEF y
  <2>2. y + 1 \in 1 .. L
    BY <1>1, <2>1
  <2>3. W[y + 1] \in Nat
    BY <1>1, <2>2 DEF L
  <2> QED BY <2>3 DEF TrackAt, y, L
<1>7. Silence \notin Nat
  BY DEF I!InstanceAssumption
<1>8. \A i \in 1 .. w : given[i] = TrackAt(W, n + i) /\ given[i] \in Nat
  <2> TAKE i \in 1 .. w
  <2>1. given[i] = W[((c + i - 2) % L) + 1]
    OBVIOUS
  <2>2. n + i \in Int
    OBVIOUS
  <2> HIDE DEF given
  <2> QED BY <1>5, <1>6, <2>1, <2>2
<1>9. given = [i \in 1 .. w |-> given[i]]
  OBVIOUS
<1> HIDE DEF given, c
<1>10. \A i \in 1 .. w : given[i] \in Samples
  BY <1>8 DEF Samples
<1>11. given \in Seq(Samples) /\ Len(given) = w
  BY <1>9, <1>10
<1>12. \A i \in 1 .. w : ~(i > w)
  OBVIOUS
<1>13. Takes(given, w, W, n, w)
  BY <1>7, <1>8, <1>11, <1>12 DEF Takes
<1> QED BY <1>2, <1>4, <1>13 DEF r, W, L

-----------------------------------------------------------------------------
SoundInv ==
  /\ heard \in Seq(Samples) /\ sound \in [cursor : Nat, skip : Nat, fifo : Seq(Places)]
  /\ audio = "mp4" =>
       /\ InOrder(heard, Opus) /\ \E t \in Nat : Follows(sound, Number(heard), t)
       /\ Silence \in Range(heard) => Len(Opus) < SamplesPer10ms
  /\ audio # "mp4" =>
       /\ InOrder(heard, I!WavSamples) /\ Silence \notin Range(heard)
       /\ "audio" \in threads =>
            Len(I!WavSamples) > 0 /\ sound.cursor = (Number(heard) % Len(I!WavSamples)) + 1
  /\ stage = "idle" =>
       heard = <<>> /\ threads = {} /\ sound = [cursor |-> 1, skip |-> PreSkip, fifo |-> <<>>]

LEMMA FirstSource ==
  ASSUME I!InstanceAssumption
  PROVE  /\ Follows([cursor |-> 1, skip |-> PreSkip, fifo |-> <<>>], 0, 0)
         /\ \A track : InOrder(<<>>, track)
         /\ Number(<<>>) = 0 /\ Silence \notin Range(<<>>) /\ <<>> \in Seq(Samples)
         /\ [cursor |-> 1, skip |-> PreSkip, fifo |-> <<>>] \in [cursor : Nat, skip : Nat, fifo : Seq(Places)]
<1> DEFINE s == [cursor |-> 1, skip |-> PreSkip, fifo |-> <<>>]
<1>1. s.cursor = 1 /\ s.skip = PreSkip /\ s.fifo = <<>> /\ Len(s.fifo) = 0
  OBVIOUS
<1>2. Len(Packets) \in Nat \ {0} /\ PreSkip \in Nat /\ Len(Opus) \in Nat
  BY MadeOf
<1>3. Made(1) = 0 /\ Missing(1) = PreSkip
  BY MadeOf
<1>4. s \in Sources
  BY <1>2 DEF Sources
<1>5. Len(Opus) * 0 = 0
  BY <1>2
<1>6. s \in [cursor : Nat, skip : Nat, fifo : Seq(Places)]
  BY <1>2
<1> HIDE DEF s
<1>7. Follows(s, 0, 0)
  BY <1>1, <1>3, <1>4, <1>5 DEF Follows
<1>8. \A track : InOrder(<<>>, track)
  BY DEF InOrder
<1>9. Number(<<>>) = 0
  <2>1. Sounding(<<>>, Len(<<>>)) = {}
    BY DEF Sounding
  <2> QED BY <2>1, FS_EmptySet DEF Number
<1>10. Silence \notin Range(<<>>) /\ <<>> \in Seq(Samples)
  BY DEF Range
<1> QED BY <1>6, <1>7, <1>8, <1>9, <1>10 DEF s

LEMMA SoundInit ==
  ASSUME I!InstanceAssumption, I!Init
  PROVE  SoundInv
<1>1. heard = <<>> /\ threads = {} /\ sound = [cursor |-> 1, skip |-> PreSkip, fifo |-> <<>>]
  BY DEF I!Init
<1>2. 0 \in Nat
  OBVIOUS
<1> QED BY <1>1, <1>2, FirstSource DEF SoundInv

LEMMA SoundStart ==
  ASSUME I!InstanceAssumption, SoundInv, NEW a, NEW v, NEW codec, I!Start(a, v, codec),
         a \in {None, "wav", "generated", "mp4"}
  PROVE  SoundInv'
<1>1. /\ stage' # "idle" /\ audio' = a /\ heard' = heard /\ sound' = sound
      /\ "audio" \in threads' => a # None
      /\ a \in {"wav", "generated"} => I!WavSamples # <<>>
      /\ heard = <<>> /\ sound = [cursor |-> 1, skip |-> PreSkip, fifo |-> <<>>]
  BY DEF I!Start, SoundInv
<1>2. heard' = <<>> /\ Number(heard') = 0 /\ Silence \notin Range(heard')
      /\ (\A track : InOrder(heard', track))
  BY <1>1, FirstSource
<1>3. audio' = "mp4" => \E t \in Nat : Follows(sound', Number(heard'), t)
  BY <1>1, <1>2, FirstSource
<1>4. ASSUME audio' # "mp4", "audio" \in threads'
      PROVE  Len(I!WavSamples) > 0 /\ sound'.cursor = (Number(heard') % Len(I!WavSamples)) + 1
  <2>1. I!WavSamples # <<>> /\ I!WavSamples \in Seq(Nat)
    BY <1>1, <1>4, ResampledSounds
  <2>2. Len(I!WavSamples) \in Nat \ {0}
    BY <2>1
  <2>3. 0 % Len(I!WavSamples) = 0 /\ sound'.cursor = 1
    BY <1>1, <2>2
  <2> QED BY <1>2, <2>2, <2>3
<1>5. heard' \in Seq(Samples) /\ sound' \in [cursor : Nat, skip : Nat, fifo : Seq(Places)]
  BY <1>1 DEF SoundInv
<1> QED BY <1>1, <1>2, <1>3, <1>4, <1>5 DEF SoundInv, I!WavSamples, I!resample

LEMMA NumberMore ==
  ASSUME NEW h \in Seq(Samples), NEW w \in Nat, NEW track, NEW g, NEW k,
         Takes(g, w, track, Number(h), k)
  PROVE  Number(h \o g) = Number(h) + k
BY SoundingMore

LEMMA SoundTurn ==
  ASSUME I!InstanceAssumption, SoundInv, I!AudioTurn, stage # "idle"
  PROVE  SoundInv'
<1> DEFINE w == SamplesPer10ms
           n == Number(heard)
<1>1. w \in Nat \ {0} /\ heard \in Seq(Samples) /\ n \in Nat
  <2>1. heard \in Seq(Samples)
    BY DEF SoundInv
  <2>2. n \in Nat
    BY <2>1, SoundingFinite DEF Number
  <2> QED BY <2>1, <2>2 DEF I!InstanceAssumption
<1>2. UNCHANGED <<audio, stage, threads>> /\ "audio" \in threads
  BY DEF I!AudioTurn, I!sources
<1>3. CASE audio = "mp4"
  <2> DEFINE r == I!read_samples(sound, w)
  <2>1. sound' = r.source /\ heard' = heard \o r.given
    BY <1>3 DEF I!AudioTurn
  <2>2. PICK t \in Nat : Follows(sound, n, t)
    BY <1>3 DEF SoundInv
  <2>3. \E k \in 0 .. w, u \in Nat :
           /\ Takes(r.given, w, Opus, n, k)
           /\ Follows(r.source, n + k, u)
           /\ k < w => Len(Opus) < w
    <3>1. w \in Nat
      BY <1>1
    <3> HIDE DEF n, w, r
    <3> QED BY <1>1, <2>2, <3>1, ReadsTrack DEF r
  <2>4. PICK k \in 0 .. w, u \in Nat :
           /\ Takes(r.given, w, Opus, n, k)
           /\ Follows(r.source, n + k, u)
           /\ k < w => Len(Opus) < w
    BY <2>3
  <2> DEFINE g == r.given
             hg == heard \o g
  <2>5. InOrder(heard, Opus) /\ (Silence \in Range(heard) => Len(Opus) < w)
    BY <1>3 DEF SoundInv
  <2>6. w \in Nat /\ Takes(g, w, Opus, Number(heard), k)
    BY <1>1, <2>4
  <2> HIDE DEF r, g
  <2>7. hg \in Seq(Samples) /\ InOrder(hg, Opus)
        /\ (Silence \in Range(hg) => Silence \in Range(heard) \/ k < w)
    BY <1>1, <2>5, <2>6, HeardMore
  <2>8. Number(hg) = n + k
    BY SMTT(30), <1>1, <2>6, SoundingMore
  <2>9. heard' = hg /\ Follows(sound', Number(heard'), u)
    BY <2>1, <2>4, <2>8 DEF g
  <2>10. sound' \in [cursor : Nat, skip : Nat, fifo : Seq(Places)]
    <3>1. sound' \in Sources
      BY <2>9 DEF Follows
    <3>2. \A c \in 1 .. Len(Packets) + 1 : c \in Nat
      BY MadeOf
    <3> QED BY <3>1, <3>2 DEF Sources
  <2>11. Silence \in Range(heard') => Len(Opus) < w
    BY <2>4, <2>5, <2>7, <2>9
  <2>12. InOrder(heard', Opus) /\ heard' \in Seq(Samples) /\ audio' = "mp4" /\ stage' # "idle"
    BY <1>2, <1>3, <2>7, <2>9
  <2> HIDE DEF hg, n
  <2> QED BY <2>9, <2>10, <2>11, <2>12 DEF SoundInv
<1>4. CASE audio # "mp4"
  <2> DEFINE r == I!read_looped(sound, w)
             W == I!WavSamples
             c == ((n + w) % Len(W)) + 1
  <2>1. sound' = r.source /\ heard' = heard \o r.given
    BY <1>4 DEF I!AudioTurn
  <2>2. /\ Len(W) > 0 /\ sound.cursor = (n % Len(W)) + 1
        /\ InOrder(heard, W) /\ Silence \notin Range(heard)
        /\ sound \in [cursor : Nat, skip : Nat, fifo : Seq(Places)]
    BY <1>2, <1>4 DEF SoundInv
  <2>3. w \in Nat
    BY <1>1
  <2>4. Takes(r.given, w, W, n, w) /\ r.source = [sound EXCEPT !.cursor = c]
    <3> HIDE DEF n, w
    <3> QED BY <1>1, <2>2, <2>3, ReadsMemory
  <2> DEFINE g == r.given
             hg == heard \o g
  <2>5. Takes(g, w, W, Number(heard), w)
    BY <2>4
  <2> HIDE DEF r, g
  <2>6. hg \in Seq(Samples) /\ InOrder(hg, W)
        /\ (Silence \in Range(hg) => Silence \in Range(heard) \/ w < w)
    <3> HIDE DEF W
    <3> QED BY <1>1, <2>2, <2>3, <2>5, HeardMore
  <2>7. Number(hg) = n + w
    <3>1. w \in Nat /\ Takes(g, w, W, Number(heard), w)
      BY <1>1, <2>5
    <3> HIDE DEF W, w
    <3>2. Number(heard \o g) = Number(heard) + w
      BY <1>1, <3>1, NumberMore
    <3> QED BY <3>2
  <2>8. ~(w < w)
    BY <1>1
  <2>9. c \in Nat
    <3> DEFINE x == n + w
    <3>1. x \in Int /\ Len(W) \in Nat \ {0}
      BY <1>1, <2>2, ResampledSounds
    <3> HIDE DEF x, W
    <3>2. x % Len(W) \in 0 .. Len(W) - 1
      BY <3>1, DivisionOf
    <3>3. (x % Len(W)) + 1 \in Nat
      BY <3>1, <3>2
    <3> QED BY <3>3 DEF x
  <2>10. heard' = hg /\ sound' = [sound EXCEPT !.cursor = c]
    BY <2>1, <2>4 DEF g
  <2> HIDE DEF c, W
  <2>11. sound' \in [cursor : Nat, skip : Nat, fifo : Seq(Places)] /\ sound'.cursor = c
    BY <2>2, <2>9, <2>10
  <2>12. c = (Number(heard') % Len(W)) + 1
    BY <2>7, <2>10 DEF c
  <2> HIDE DEF hg, n
  <2>13. /\ heard' \in Seq(Samples) /\ InOrder(heard', W) /\ Silence \notin Range(heard')
         /\ audio' # "mp4" /\ stage' # "idle" /\ Len(W) > 0
    BY <1>2, <1>4, <2>2, <2>6, <2>8, <2>10
  <2> QED BY <2>11, <2>12, <2>13 DEF SoundInv, W, I!WavSamples, I!resample
<1> QED BY <1>3, <1>4

LEMMA SoundStep ==
  ASSUME I!InstanceAssumption, SoundInv, [I!SetUp \/ (stage # "idle" /\ I!Next)]_I!vars
  PROVE  SoundInv'
<1> DEFINE Still == /\ UNCHANGED <<audio, heard, sound>> /\ threads' \subseteq threads
                    /\ stage' = "idle" => stage = "idle"
<1>1. ASSUME Still PROVE SoundInv'
  BY <1>1 DEF SoundInv, I!WavSamples, I!resample
<1>2. CASE UNCHANGED I!vars
  BY <1>1, <1>2 DEF I!vars, I!playing, I!sources
<1>3. CASE I!SetUp
  BY <1>3, SoundStart DEF I!SetUp
<1>4. ASSUME stage # "idle", I!AudioTurn PROVE SoundInv'
  BY <1>4, SoundTurn
<1>5. ASSUME stage # "idle", I!Passes \/ I!VideoTurn \/ I!DeviceFrame \/ I!Deliver \/ I!AdmCall PROVE Still
  BY <1>5 DEF I!Passes, I!VideoTurn, I!DeviceFrame, I!Deliver, I!AdmCall, I!sources, I!playing
<1>6. ASSUME stage # "idle", I!init_encode \/ I!encode \/ I!set_rates \/ I!release PROVE Still
  BY <1>6 DEF I!init_encode, I!encode, I!set_rates, I!release, I!EncoderCall, I!sources, I!playing
<1>7. ASSUME stage # "idle", NEW t, I!ThreadEnds(t) PROVE Still
  BY <1>7 DEF I!ThreadEnds, I!sources, I!playing
<1>8. ASSUME stage # "idle", NEW c, I!Hatch(c) \/ I!HatchFails(c) \/ I!ClientEnds(c) PROVE Still
  BY <1>8 DEF I!Hatch, I!HatchFails, I!ClientEnds, I!sources, I!playing
<1>9. ASSUME stage # "idle", I!Hatched \/ I!Joined \/ I!Drop PROVE Still
  BY <1>9 DEF I!Hatched, I!Joined, I!Drop, I!DropsInOrder, I!sources, I!playing
<1> HIDE DEF Still
<1> QED
  BY <1>1, <1>2, <1>3, <1>4, <1>5, <1>6, <1>7, <1>8, <1>9 DEF I!Next

(* The instance has the operators of the library under names of its own.    *)
LEMMA SameOperators ==
  /\ \A q : I!FlattenSeq(q) = FlattenSeq(q)
  /\ \A S : I!Cardinality(S) = Cardinality(S)
  /\ \A f : I!Range(f) = Range(f)
<1>1. \A q : I!FlattenSeq(q) = FlattenSeq(q)
  BY DEF I!FlattenSeq, FlattenSeq
<1>2. \A S : I!Cardinality(S) = Cardinality(S)
  BY DEF I!Cardinality, Cardinality
<1>3. \A f : I!Range(f) = Range(f)
  BY DEF I!Range, Range
<1> QED BY <1>1, <1>2, <1>3

LEMMA SoundHeard ==
  ASSUME SoundInv
  PROVE  I!SoundFollowsTrack
<1>1. heard \in Seq(Samples)
  BY DEF SoundInv
<1>2. DOMAIN heard = 1 .. Len(heard)
  BY <1>1
<1>3. \A n : I!SoundsTo(n) = Sounding(heard, n)
  BY DEF I!SoundsTo, Sounding
<1>4. I!Track = IF audio # "mp4" THEN I!WavSamples ELSE Opus
  <2>1. CASE audio # "mp4"
    BY <2>1 DEF I!Track
  <2>2. CASE audio = "mp4"
    BY <2>2, SameOperators DEF I!Track, Opus, AllSounds, Parts
  <2> QED BY <2>1, <2>2
<1>5. InOrder(heard, I!Track) /\ (Silence \in Range(heard) => Len(I!Track) < SamplesPer10ms)
  BY <1>4 DEF SoundInv
<1> HIDE DEF I!Track
<1>6. \A i \in DOMAIN heard : heard[i] # Silence =>
         heard[i] = I!Track[((I!Cardinality(I!SoundsTo(i)) - 1) % Len(I!Track)) + 1]
  BY <1>2, <1>3, <1>5, SameOperators DEF InOrder, TrackAt
<1> QED BY <1>5, <1>6, SameOperators DEF I!SoundFollowsTrack

LEMMA InstanceKeepsTime == I!Spec => []I!MediaKeepTime
<1> DEFINE Step == I!SetUp \/ (stage # "idle" /\ I!Next)
           Inv == ReadInv /\ I!FramesFollowTime /\ SoundInv
<1>1. I!Init => Inv
  BY ReadInit, SoundInit, ZakuroAssumption
<1>2. Inv /\ [Step]_(I!vars) => Inv'
  BY ReadStep, SoundStep, ZakuroAssumption
<1>3. I!Spec => I!Init /\ [][Step]_(I!vars)
  BY DEF I!Spec
<1>4. Inv => I!MediaKeepTime
  BY SoundHeard DEF I!MediaKeepTime
<1> HIDE DEF Step, Inv
<1> QED BY <1>1, <1>2, <1>3, <1>4, PTL

(* MediaKeepsTime: whatever the file, its rate and its packets, each frame   *)
(* sent is the one of its time, and the sound is the track over and over.   *)
THEOREM MediaKeepsTime == ZakuroSpec => []MediaKeepTime
<1>1. MediaKeepTime <=> I!MediaKeepTime
  BY DEF MediaKeepTime
<1> QED BY <1>1, Composition, InstanceKeepsTime, PTL

-----------------------------------------------------------------------------
(* What a client says. First the channels that were parsed, the earliest of *)
(* several times, and the size of a message.                                *)

MessageChannels == [label : Labels, interval : Nat, min : Int, max : Int]
SizesInOrder(cs) == \A i \in DOMAIN cs : cs[i].min <= cs[i].max

LEMMA ChannelOf ==
  ASSUME NEW d \in C!Described
  PROVE  C!MessageChannel(d) \in MessageChannels /\ C!MessageChannel(d).min <= C!MessageChannel(d).max
<1>1. d.label \in Labels /\ d.interval \in Nat \cup {-1} /\ d.min \in Int /\ d.max \in Int
  BY DEF C!Described, C!Absent
<1>2. /\ C!Given(d.interval, 500) \in Nat
      /\ C!Given(d.min, 48) \in Int /\ C!Given(d.max, 48) \in Int
  BY <1>1 DEF C!Given, C!Absent
<1> DEFINE a == C!Given(d.min, 48)
           b == C!Given(d.max, 48)
           top == IF b < a THEN a ELSE b
<1>3. C!MessageChannel(d)
        = [label |-> d.label, interval |-> C!Given(d.interval, 500), min |-> a, max |-> top]
  BY DEF C!MessageChannel, C!Sized, C!MESSAGE_SIZE_MIN
<1>4. top \in Int /\ a <= top
  BY <1>2
<1> DEFINE t == C!Given(d.interval, 500)
           e == C!MessageChannel(d)
<1>5. a \in Int /\ t \in Nat /\ e = [label |-> d.label, interval |-> t, min |-> a, max |-> top]
  BY <1>2, <1>3
<1> HIDE DEF a, top, t, e
<1>6. e \in MessageChannels /\ e.min = a /\ e.max = top
  BY <1>1, <1>4, <1>5 DEF MessageChannels
<1> QED BY <1>4, <1>6 DEF e

LEMMA ParsedChannels ==
  ASSUME NEW described \in Seq(C!Described)
  PROVE  /\ C!parse_data_channels(described) \in Seq(MessageChannels)
         /\ SizesInOrder(C!parse_data_channels(described))
<1> DEFINE S == {q \in Seq(MessageChannels) : SizesInOrder(q)}
           N == Len(described)
           Longer(n, q) == IF C!Carries(described[n]) THEN Append(q, C!MessageChannel(described[n])) ELSE q
           F == [n \in 1 .. N |-> [q \in S |-> Longer(n, q)]]
           Is(f) == f = [n \in 0 .. N |-> IF n = 0 THEN <<>> ELSE Longer(n, f[n - 1])]
<1>1. N \in Nat /\ \A n \in 1 .. N : described[n] \in C!Described
  OBVIOUS
<1>2. ASSUME NEW n \in 1 .. N, NEW q \in S PROVE Longer(n, q) \in S
  <2> DEFINE e == C!MessageChannel(described[n])
  <2>1. e \in MessageChannels /\ e.min <= e.max
    BY <1>1, ChannelOf
  <2> HIDE DEF e
  <2>2. Append(q, e) \in Seq(MessageChannels) /\ Len(Append(q, e)) = Len(q) + 1
        /\ \A i \in 1 .. Len(q) + 1 : Append(q, e)[i] = IF i = Len(q) + 1 THEN e ELSE q[i]
    BY <2>1
  <2>3. SizesInOrder(Append(q, e))
    BY <2>1, <2>2 DEF SizesInOrder
  <2> QED BY <2>2, <2>3 DEF e
<1>3. <<>> \in S
  BY DEF SizesInOrder
<1> HIDE DEF S, Longer
<1>4. StepsOf(F, N, S)
  BY <1>2 DEF StepsOf
<1>5. PICK f : Iterates(f, F, N, S, <<>>)
  BY <1>1, <1>3, <1>4, RecursionExists
<1>6. f \in [0 .. N -> S] /\ f[0] = <<>> /\ \A n \in 1 .. N : f[n] = Longer(n, f[n - 1])
  <2>1. f \in [0 .. N -> S] /\ f[0] = <<>> /\ \A n \in 1 .. N : f[n] = F[n][f[n - 1]]
    BY <1>5 DEF Iterates
  <2>2. \A n \in 1 .. N : n - 1 \in 0 .. N
    BY <1>1
  <2> QED BY <2>1, <2>2
<1>7. Is(f)
  <2> DEFINE g == [n \in 0 .. N |-> IF n = 0 THEN <<>> ELSE Longer(n, f[n - 1])]
  <2> HIDE DEF N
  <2>1. \A n \in 0 .. N : f[n] = g[n]
    BY <1>1, <1>6
  <2> QED BY <1>6, <2>1
<1> DEFINE parsed == CHOOSE g : Is(g)
<1>8. Is(parsed)
  BY <1>7
<1>9. C!parse_data_channels(described) = parsed[N]
  BY Zenon DEF C!parse_data_channels, Longer
<1> HIDE DEF parsed
<1>10. \A n \in 0 .. N : parsed[n] = IF n = 0 THEN <<>> ELSE Longer(n, parsed[n - 1])
  <2> HIDE DEF N
  <2> QED BY <1>8
<1> DEFINE T == {n \in Nat : n <= N => parsed[n] \in S}
<1> HIDE DEF N
<1>11. 0 \in T
  BY <1>1, <1>3, <1>10
<1>12. ASSUME NEW n \in Nat, n \in T PROVE n + 1 \in T
  <2> SUFFICES ASSUME n + 1 <= N PROVE parsed[n + 1] \in S
    OBVIOUS
  <2>1. parsed[n] \in S /\ n + 1 \in 1 .. N /\ n + 1 \in 0 .. N /\ n + 1 # 0 /\ (n + 1) - 1 = n
    BY <1>1, <1>12
  <2>2. parsed[n + 1] = Longer(n + 1, parsed[n])
    BY <1>10, <2>1
  <2> QED BY <1>2, <2>1, <2>2
<1> HIDE DEF T
<1>13. N \in T
  BY <1>1, <1>11, <1>12, Induction
<1> QED BY <1>1, <1>9, <1>13 DEF T, S

(* A set of natural numbers has a least one.                                *)
LEMMA LeastExists ==
  ASSUME NEW S \in SUBSET Nat, S # {}
  PROVE  \E m \in S : \A n \in S : m <= n
<1> DEFINE T == {k \in Nat : (\E n \in S : n <= k) => \E m \in S : \A n \in S : m <= n}
<1>1. 0 \in T
  OBVIOUS
<1>2. ASSUME NEW k \in Nat, k \in T PROVE k + 1 \in T
  <2>1. CASE \E n \in S : n <= k
    BY <1>2, <2>1
  <2>2. CASE ~ \E n \in S : n <= k
    <3>1. \A n \in S : n > k
      BY <2>2
    <3>2. \A n \in S : k + 1 <= n
      BY <3>1
    <3>3. ASSUME NEW n \in S, n <= k + 1 PROVE \E m \in S : \A j \in S : m <= j
      <4>1. n = k + 1
        BY <3>2, <3>3
      <4> QED BY <3>2, <4>1
    <3> QED BY <3>3
  <2> QED BY <2>1, <2>2
<1> HIDE DEF T
<1>3. \A k \in Nat : k \in T
  BY <1>1, <1>2, Induction
<1>4. PICK n \in S : TRUE
  OBVIOUS
<1> QED BY <1>3, <1>4 DEF T

LEMMA EarliestIsOne ==
  ASSUME NEW n \in Nat \ {0}, NEW task, task.next \in [1 .. n -> Nat]
  PROVE  C!Earliest(task) \in 1 .. n
<1> DEFINE next == task.next
           V == {v \in Nat : \E i \in 1 .. n : next[i] = v}
           A == {i \in 1 .. n : \A j \in 1 .. n : next[i] <= next[j]}
<1>1. \A i \in 1 .. n : next[i] \in Nat
  OBVIOUS
<1>2. V # {}
  <2>1. 1 \in 1 .. n
    OBVIOUS
  <2> QED BY <1>1, <2>1
<1>3. PICK v \in V : \A w \in V : v <= w
  BY <1>2, LeastExists
<1>4. A # {}
  BY SMTT(30), <1>1, <1>3
<1>5. A \in SUBSET Nat
  OBVIOUS
<1>6. C!Earliest(task) = CHOOSE x \in A : \A y \in A : x <= y
  BY DEF C!Earliest, C!Min
<1> HIDE DEF A
<1>7. \E x \in A : \A y \in A : x <= y
  BY <1>4, <1>5, LeastExists
<1>8. C!Earliest(task) \in A
  BY <1>6, <1>7
<1> QED BY <1>8 DEF A

LEMMA SizeFits ==
  ASSUME NEW low \in Int, NEW high \in Int, low <= high, NEW random \in Nat
  PROVE  48 + C!payload_size_from(low, high, random) \in low .. high
<1> DEFINE width == high - low + 1
           r == random % width
<1>1. width \in Nat \ {0}
  OBVIOUS
<1> HIDE DEF width
<1>2. r \in 0 .. width - 1
  BY <1>1, DivisionOf
<1>3. C!payload_size_from(low, high, random) = (low - 48) + r
  BY DEF C!payload_size_from, C!MESSAGE_SIZE_MIN, width
<1> HIDE DEF r
<1> QED BY <1>2, <1>3 DEF width

(* What the peer got, and what one more message does to it.                 *)
Entries == [by : 0 .. MaxConnections, time : Nat, channel : Nat, label : Labels, number : Nat,
            size : Int]
Messages == [channel : Nat, label : Labels, number : Nat, size : Int]
Labelled(c, l) == {i \in DOMAIN sent : sent[i].by = c /\ sent[i].label = l}
Ahead(j) == {i \in 1 .. j - 1 : C!SameLabel(i, j)}

(* The entry j: numbered in turn, of a size that its channel allows, and    *)
(* an interval after those before it.                                       *)
EntryInv(j) ==
  /\ IF sent[j].by = 0 THEN \A i \in Ahead(j) : sent[i].number < sent[j].number
     ELSE sent[j].number = Cardinality(Ahead(j))
  /\ sent[j].by # 0 =>
       /\ sent[j].channel \in DOMAIN channels
       /\ sent[j].size \in channels[sent[j].channel].min .. channels[sent[j].channel].max
       /\ \A i \in 1 .. j - 1 : sent[i].by = sent[j].by /\ sent[i].channel = sent[j].channel =>
            sent[i].time + channels[sent[j].channel].interval <= sent[j].time
SentInv == sent \in Seq(Entries) /\ \A j \in DOMAIN sent : EntryInv(j)

(* The next entry, by what was sent before.                                 *)
Fits(e) ==
  /\ IF e.by = 0 THEN \A i \in Labelled(0, e.label) : sent[i].number < e.number
     ELSE e.number = Cardinality(Labelled(e.by, e.label))
  /\ e.by # 0 =>
       /\ e.channel \in DOMAIN channels
       /\ e.size \in channels[e.channel].min .. channels[e.channel].max
       /\ \A i \in DOMAIN sent : sent[i].by = e.by /\ sent[i].channel = e.channel =>
            sent[i].time + channels[e.channel].interval <= e.time

LEMMA EntryAppended ==
  ASSUME sent \in Seq(Entries), NEW e \in Entries, sent' = Append(sent, e)
  PROVE  /\ Len(sent) \in Nat /\ DOMAIN sent = 1 .. Len(sent)
         /\ sent' \in Seq(Entries) /\ DOMAIN sent' = 1 .. Len(sent) + 1
         /\ \A i \in 1 .. Len(sent) : sent'[i] = sent[i] /\ sent[i] \in Entries
         /\ sent'[Len(sent) + 1] = e
OBVIOUS

LEMMA LabelledMore ==
  ASSUME sent \in Seq(Entries), NEW e \in Entries, sent' = Append(sent, e), NEW c, NEW l
  PROVE  /\ IsFiniteSet(Labelled(c, l)) /\ Cardinality(Labelled(c, l)) \in Nat
         /\ e.by = c /\ e.label = l => Cardinality(Labelled(c, l)') = Cardinality(Labelled(c, l)) + 1
         /\ ~(e.by = c /\ e.label = l) => Labelled(c, l)' = Labelled(c, l)
<1>1. PICK n \in Nat :
        /\ DOMAIN sent = 1 .. n /\ DOMAIN sent' = 1 .. n + 1
        /\ \A i \in 1 .. n : sent'[i] = sent[i]
        /\ sent'[n + 1] = e
  BY EntryAppended
<1>2. IsFiniteSet(1 .. n)
  BY FS_Interval
<1>3. Labelled(c, l) \subseteq 1 .. n
  BY <1>1 DEF Labelled
<1>4. IsFiniteSet(Labelled(c, l)) /\ Cardinality(Labelled(c, l)) \in Nat
  BY <1>2, <1>3, FS_Subset, FS_CardinalityType
<1>5. Labelled(c, l)' = Labelled(c, l) \cup (IF e.by = c /\ e.label = l THEN {n + 1} ELSE {})
  BY <1>1 DEF Labelled
<1>6. n + 1 \notin Labelled(c, l)
  BY <1>1, <1>3
<1>7. Cardinality(Labelled(c, l) \cup {n + 1}) = Cardinality(Labelled(c, l)) + 1
  BY <1>4, <1>6, FS_AddElement
<1> QED BY <1>4, <1>5, <1>7

LEMMA SentMore ==
  ASSUME SentInv, NEW e \in Entries, Fits(e), sent' = Append(sent, e), UNCHANGED channels
  PROVE  SentInv'
<1>1. PICK n \in Nat :
        /\ DOMAIN sent = 1 .. n /\ DOMAIN sent' = 1 .. n + 1 /\ sent' \in Seq(Entries)
        /\ \A i \in 1 .. n : sent'[i] = sent[i]
        /\ sent'[n + 1] = e
  BY EntryAppended DEF SentInv
<1>2. ASSUME NEW j \in 1 .. n PROVE EntryInv(j)'
  <2>1. EntryInv(j) /\ j \in 1 .. n + 1 /\ sent'[j] = sent[j]
    BY <1>1 DEF SentInv
  <2>2. \A i \in 1 .. j - 1 : sent'[i] = sent[i]
    BY <1>1
  <2>3. Ahead(j)' = Ahead(j) /\ \A i \in Ahead(j) : sent'[i] = sent[i]
    BY <2>1, <2>2 DEF Ahead, C!SameLabel
  <2> QED BY <2>1, <2>2, <2>3 DEF EntryInv
<1>3. EntryInv(n + 1)'
  <2>1. (n + 1) - 1 = n
    BY <1>1
  <2>2. Ahead(n + 1)' = Labelled(e.by, e.label)
    BY <1>1, <2>1 DEF Ahead, Labelled, C!SameLabel
  <2>3. \A i \in Labelled(e.by, e.label) : sent'[i] = sent[i]
    BY <1>1 DEF Labelled
  <2>4. sent'[n + 1] = e /\ \A i \in 1 .. (n + 1) - 1 : sent'[i] = sent[i] /\ i \in DOMAIN sent
    BY <1>1, <2>1
  <2> QED BY <2>2, <2>3, <2>4 DEF EntryInv, Fits
<1>4. \A j \in 1 .. n + 1 : j \in 1 .. n \/ j = n + 1
  BY <1>1
<1> QED BY <1>1, <1>2, <1>3, <1>4 DEF SentInv

LEMMA SentStays ==
  ASSUME SentInv, UNCHANGED <<sent, channels>>
  PROVE  SentInv'
BY DEF SentInv, EntryInv, Ahead, C!SameLabel

LEMMA InSequence ==
  ASSUME SentInv, channels \in Seq(MessageChannels)
  PROVE  C!MessagesInSequence
<1>1. \A S : C!Cardinality(S) = Cardinality(S)
  BY DEF C!Cardinality, Cardinality
<1>2. DOMAIN sent = 1 .. Len(sent) /\ Len(sent) \in Nat /\ \A j \in DOMAIN sent : sent[j] \in Entries
  BY DEF SentInv
<1>3. ASSUME NEW j \in DOMAIN sent
      PROVE  IF sent[j].by = C!Player THEN \A i \in Ahead(j) : sent[i].number < sent[j].number
             ELSE sent[j].number = C!Cardinality(Ahead(j))
  BY <1>1 DEF SentInv, EntryInv, C!Player
<1>4. ASSUME NEW j \in DOMAIN sent, NEW i \in DOMAIN sent, i < j, sent[i].by = sent[j].by,
             sent[i].by # C!Player, sent[i].channel = sent[j].channel
      PROVE  sent[j].time - sent[i].time >= channels[sent[j].channel].interval
  <2>1. i \in 1 .. j - 1 /\ sent[j].by # 0 /\ sent[i].time \in Nat /\ sent[j].time \in Nat
    BY <1>2, <1>4 DEF C!Player, Entries
  <2>3. sent[j].channel \in DOMAIN channels
    BY <2>1 DEF SentInv, EntryInv
  <2>4. channels[sent[j].channel].interval \in Nat
    <3>1. \A k \in DOMAIN channels : channels[k] \in MessageChannels
      OBVIOUS
    <3>2. channels[sent[j].channel] \in MessageChannels
      BY <2>3, <3>1
    <3> QED BY <3>2 DEF MessageChannels
  <2>2. sent[i].time + channels[sent[j].channel].interval <= sent[j].time
    BY <1>4, <2>1 DEF SentInv, EntryInv
  <2> QED BY <2>1, <2>2, <2>4
<1>5. ASSUME NEW j \in DOMAIN sent, sent[j].by # C!Player
      PROVE  sent[j].size \in channels[sent[j].channel].min .. channels[sent[j].channel].max
  BY <1>5 DEF SentInv, EntryInv, C!Player
<1> QED BY <1>3, <1>4, <1>5 DEF C!MessagesInSequence, Ahead

-----------------------------------------------------------------------------
(* The client: its connections, its player, and the tasks, each of which    *)
(* counts what it sent and knows when it may send again.                    *)

Live(t) == t.at \in {"waiting", "sending"}
Counters == [Labels -> Nat]
Waits == [at : {"waiting"}, stop : BOOLEAN, numbers : Counters, next : [DOMAIN channels -> Nat]]
SendsNow == [at : {"sending"}, stop : BOOLEAN, numbers : Counters, next : [DOMAIN channels -> Nat],
             message : Messages]

(* The message a task is about to send.                                     *)
Due(t) ==
  LET m == t.message
  IN  /\ m.channel \in DOMAIN channels /\ t.next[m.channel] <= now
      /\ m.number = t.numbers[m.label]
      /\ m.size \in channels[m.channel].min .. channels[m.channel].max

TaskInv(c) ==
  LET t == tasks[c]
  IN  /\ t.at \in {"none", "waiting", "sending", "ended"}
      /\ t.at = "none" => \A i \in DOMAIN sent : sent[i].by # c
      /\ t.at = "waiting" => t \in Waits
      /\ t.at = "sending" => t \in SendsNow /\ Due(t)
      /\ Live(t) =>
           /\ channels # <<>>
           /\ \A l \in Labels : t.numbers[l] = Cardinality(Labelled(c, l))
           /\ \A i \in DOMAIN sent : sent[i].by = c =>
                sent[i].time + channels[sent[i].channel].interval <= t.next[sent[i].channel]

(* Of what the player said, nothing has the number that comes next.         *)
PlayerInv ==
  /\ player.numbers \in Counters
  /\ \A l \in Labels : \A i \in Labelled(0, l) : sent[i].number < player.numbers[l]
  /\ player.at = "sending" =>
       LET m == player.message
       IN  /\ m \in Messages /\ m.number < player.numbers[m.label]
           /\ \A i \in Labelled(0, m.label) : sent[i].number < m.number

ClientInv ==
  /\ now \in Nat /\ channels \in Seq(MessageChannels) /\ SizesInOrder(channels)
  /\ scenario \in Seq(C!Operations)
  /\ connection = [number |-> connection.number, at |-> connection.at]
  /\ connection.number \in 0 .. MaxConnections
  /\ connection.at \in {"idle", "opening", "open", "closing", "over"}
  /\ player = [op |-> player.op, at |-> player.at, until |-> player.until,
               numbers |-> player.numbers, message |-> player.message]
  /\ player.at \in {"idle", "ready", "asleep", "sending", "exited"}
  /\ player.at # "idle" => scenario # <<>>
  /\ scenario # <<>> => player.op \in 1 .. Len(scenario)
  /\ connection.at = "idle" =>
       connection.number = 0 /\ sent = <<>> /\ player.op = 1 /\ player.at = "idle"
  /\ connection.at # "idle" => connection.number # 0
  /\ DOMAIN tasks = 1 .. MaxConnections
  /\ \A c \in 1 .. MaxConnections :
       c > connection.number \/ (c = connection.number /\ connection.at = "opening") =>
         tasks[c].at = "none"

SaidInv == ClientInv /\ PlayerInv /\ SentInv /\ \A c \in 1 .. MaxConnections : TaskInv(c)

LEMMA SaidInit == C!Init => SaidInv
<1> SUFFICES ASSUME C!Init PROVE SaidInv
  OBVIOUS
<1>1. MaxConnections \in Nat \ {0}
  BY ZakuroAssumption DEF C!MessagingAssumption
<1>2. DOMAIN sent = {} /\ sent \in Seq(Entries) /\ sent = <<>> /\ Len(sent) = 0
  BY DEF C!Init
<1>3. SentInv
  BY <1>2 DEF SentInv
<1>4. /\ channels = <<>> /\ scenario = <<>> /\ now = 0
      /\ connection = [number |-> 0, at |-> "idle"]
      /\ player = [op |-> 1, at |-> "idle", numbers |-> C!Zero, until |-> 0, message |-> C!Nothing]
      /\ tasks = [c \in 1 .. MaxConnections |-> C!Nothing]
  BY DEF C!Init
<1>5. C!Zero \in Counters
  BY DEF C!Zero, Counters
<1>6. PlayerInv
  BY <1>2, <1>4, <1>5 DEF PlayerInv, Labelled
<1>7. \A c \in 1 .. MaxConnections : tasks[c].at = "none"
  BY <1>4 DEF C!Nothing
<1>8. \A c \in 1 .. MaxConnections : TaskInv(c)
  BY <1>2, <1>7 DEF TaskInv, Live
<1>9. connection.number = 0 /\ connection.at = "idle" /\ player.op = 1 /\ player.at = "idle"
      /\ player.until = 0 /\ player.numbers = C!Zero /\ player.message = C!Nothing
  BY <1>4
<1>10. SizesInOrder(channels)
  BY <1>4 DEF SizesInOrder
<1> HIDE DEF C!Init
<1>11. ClientInv
  BY <1>1, <1>2, <1>4, <1>7, <1>9, <1>10 DEF ClientInv
<1> QED BY <1>3, <1>6, <1>8, <1>11 DEF SaidInv

(* A task that does not send in a step: it stays, is told to stop, or ends. *)
SaysNothing(c) ==
  \/ UNCHANGED sent
  \/ \E e \in Entries : e.by # c /\ sent' = Append(sent, e)
Keeps(c) ==
  \/ tasks'[c] = tasks[c]
  \/ Live(tasks[c]) /\ tasks'[c] = [tasks[c] EXCEPT !.stop = TRUE]
  \/ tasks'[c] = [at |-> "ended"]

LEMMA SaysNothingMore ==
  ASSUME sent \in Seq(Entries), NEW c, SaysNothing(c)
  PROVE  /\ \A l : Labelled(c, l)' = Labelled(c, l)
         /\ \A i \in DOMAIN sent' : sent'[i].by = c => i \in DOMAIN sent /\ sent'[i] = sent[i]
<1>1. CASE UNCHANGED sent
  BY <1>1 DEF Labelled
<1>2. CASE \E e \in Entries : e.by # c /\ sent' = Append(sent, e)
  <2>1. PICK e \in Entries : e.by # c /\ sent' = Append(sent, e)
    BY <1>2
  <2>2. \A l : Labelled(c, l)' = Labelled(c, l)
    BY <2>1, LabelledMore
  <2>3. PICK n \in Nat :
          /\ DOMAIN sent = 1 .. n /\ DOMAIN sent' = 1 .. n + 1
          /\ \A i \in 1 .. n : sent'[i] = sent[i]
          /\ sent'[n + 1] = e
    BY <2>1, EntryAppended
  <2> QED BY <2>1, <2>2, <2>3
<1> QED BY <1>1, <1>2 DEF SaysNothing

LEMMA TaskStays ==
  ASSUME sent \in Seq(Entries), now \in Nat, now' \in Nat, now <= now', UNCHANGED channels,
         NEW c, TaskInv(c), SaysNothing(c), Keeps(c)
  PROVE  TaskInv(c)'
<1> DEFINE t == tasks[c]
<1>1. /\ \A l : Labelled(c, l)' = Labelled(c, l)
      /\ \A i \in DOMAIN sent' : sent'[i].by = c => i \in DOMAIN sent /\ sent'[i] = sent[i]
  BY SaysNothingMore
<1>2. Waits' = Waits /\ SendsNow' = SendsNow
  BY DEF Waits, SendsNow
<1>3. CASE tasks'[c] = [at |-> "ended"]
  <2>1. tasks'[c].at = "ended"
    BY <1>3
  <2> QED BY <2>1 DEF TaskInv, Live
<1>4. ASSUME NEW u, u = tasks'[c], u.at = t.at,
             Live(t) => /\ u.numbers = t.numbers /\ u.next = t.next
                        /\ (t \in Waits => u \in Waits) /\ (t \in SendsNow => u \in SendsNow)
                        /\ (t.at = "sending" => u.message = t.message)
      PROVE  TaskInv(c)'
  <2>1. u.at = "sending" => u \in SendsNow /\ Due(u)'
    <3> SUFFICES ASSUME u.at = "sending" PROVE u \in SendsNow /\ Due(u)'
      OBVIOUS
    <3>1. t \in SendsNow /\ Due(t) /\ u \in SendsNow /\ u.message = t.message
          /\ u.numbers = t.numbers /\ u.next = t.next
      BY <1>4 DEF TaskInv, Live
    <3>2. t.next[t.message.channel] \in Nat
      BY <3>1 DEF SendsNow, Due
    <3> QED BY <3>1, <3>2 DEF Due
  <2>2. u.at = "waiting" => u \in Waits
    BY <1>4 DEF TaskInv, Live
  <2>3. u.at = "none" => \A i \in DOMAIN sent' : sent'[i].by # c
    BY <1>1, <1>4 DEF TaskInv
  <2>4. Live(u) => /\ channels # <<>>
                   /\ \A l \in Labels : u.numbers[l] = Cardinality(Labelled(c, l)')
                   /\ \A i \in DOMAIN sent' : sent'[i].by = c =>
                        sent'[i].time + channels[sent'[i].channel].interval <= u.next[sent'[i].channel]
    <3> SUFFICES ASSUME Live(u)
                 PROVE  /\ channels # <<>>
                        /\ \A l \in Labels : u.numbers[l] = Cardinality(Labelled(c, l)')
                        /\ \A i \in DOMAIN sent' : sent'[i].by = c =>
                             sent'[i].time + channels[sent'[i].channel].interval <= u.next[sent'[i].channel]
      OBVIOUS
    <3>1. Live(t)
      BY <1>4 DEF Live
    <3>2. u.numbers = t.numbers /\ u.next = t.next
      BY <1>4, <3>1
    <3>3. /\ channels # <<>> /\ \A l \in Labels : t.numbers[l] = Cardinality(Labelled(c, l))
          /\ \A i \in DOMAIN sent : sent[i].by = c =>
               sent[i].time + channels[sent[i].channel].interval <= t.next[sent[i].channel]
      BY <3>1 DEF TaskInv
    <3> QED BY <1>1, <3>2, <3>3
  <2>5. u.at \in {"none", "waiting", "sending", "ended"}
    BY <1>4 DEF TaskInv
  <2> QED BY <1>2, <1>4, <2>1, <2>2, <2>3, <2>4, <2>5 DEF TaskInv, Live
<1>5. CASE tasks'[c] = tasks[c]
  <2>1. PICK u : u = tasks'[c]
    OBVIOUS
  <2> QED BY <1>4, <1>5, <2>1
<1>6. CASE Live(tasks[c]) /\ tasks'[c] = [tasks[c] EXCEPT !.stop = TRUE]
  <2>1. PICK u : u = [t EXCEPT !.stop = TRUE]
    OBVIOUS
  <2>2. t \in Waits => u \in Waits /\ u.at = t.at /\ u.numbers = t.numbers /\ u.next = t.next
    BY <2>1 DEF Waits
  <2>3. t \in SendsNow => u \in SendsNow /\ u.at = t.at /\ u.numbers = t.numbers /\ u.next = t.next
                          /\ u.message = t.message
    BY <2>1 DEF SendsNow
  <2>4. (t.at = "waiting" /\ t \in Waits) \/ (t.at = "sending" /\ t \in SendsNow)
    BY <1>6 DEF TaskInv, Live
  <2>5. u.at = t.at /\ u.numbers = t.numbers /\ u.next = t.next
        /\ (t \in Waits => u \in Waits) /\ (t \in SendsNow => u \in SendsNow)
        /\ (t.at = "sending" => u.message = t.message)
    BY <2>2, <2>3, <2>4
  <2> HIDE DEF t
  <2>6. u = tasks'[c]
    BY <1>6, <2>1 DEF t
  <2> QED BY <1>4, <2>5, <2>6
<1> QED BY <1>3, <1>5, <1>6 DEF Keeps

(* A message of the player that was under way may have gone or not.         *)
LEMMA PlayerSays ==
  ASSUME SaidInv, UNCHANGED channels,
         \/ sent' = sent
         \/ player.at = "sending" /\ sent' = C!Got(C!Player, player.message),
         player'.numbers = player.numbers, player'.at # "sending"
  PROVE  SentInv' /\ PlayerInv' /\ \A c \in 1 .. MaxConnections : SaysNothing(c)
<1>1. CASE sent' = sent
  <2>1. \A l : Labelled(0, l)' = Labelled(0, l)
    BY <1>1 DEF Labelled
  <2>2. PlayerInv'
    BY <1>1, <2>1 DEF SaidInv, PlayerInv
  <2>3. SentInv'
    BY <1>1, SentStays DEF SaidInv
  <2> QED BY <1>1, <2>2, <2>3 DEF SaysNothing
<1>2. CASE player.at = "sending" /\ sent' = C!Got(C!Player, player.message)
  <2> DEFINE m == player.message
  <2>1. /\ m \in Messages /\ m.number < player.numbers[m.label] /\ player.numbers \in Counters
        /\ \A i \in Labelled(0, m.label) : sent[i].number < m.number
        /\ \A l \in Labels : \A i \in Labelled(0, l) : sent[i].number < player.numbers[l]
        /\ now \in Nat /\ sent \in Seq(Entries)
    BY <1>2 DEF SaidInv, PlayerInv, ClientInv, SentInv
  <2>2. MaxConnections \in Nat
    BY ZakuroAssumption DEF C!MessagingAssumption
  <2> HIDE DEF m
  <2>3. PICK e : e = [by |-> 0, time |-> now, channel |-> m.channel, label |-> m.label,
                      number |-> m.number, size |-> m.size]
    OBVIOUS
  <2>4. e.by = 0 /\ e.label = m.label /\ e.number = m.number /\ e \in Entries
    BY <2>1, <2>2, <2>3 DEF Messages, Entries
  <2>5. sent' = Append(sent, e)
    BY <1>2, <2>3 DEF C!Got, C!Player, m
  <2>6. SentInv'
    <3>1. Fits(e)
      BY <2>1, <2>4 DEF Fits
    <3> QED BY <2>4, <2>5, <3>1, SentMore DEF SaidInv
  <2>7. ASSUME NEW l \in Labels, NEW i \in Labelled(0, l)' PROVE sent'[i].number < player.numbers[l]
    <3>1. PICK n \in Nat :
            /\ DOMAIN sent = 1 .. n /\ DOMAIN sent' = 1 .. n + 1
            /\ \A k \in 1 .. n : sent'[k] = sent[k]
            /\ sent'[n + 1] = e
      BY <2>1, <2>4, <2>5, EntryAppended
    <3>2. i \in 1 .. n + 1 /\ sent'[i].by = 0 /\ sent'[i].label = l
      BY <2>7, <3>1 DEF Labelled
    <3>3. CASE i = n + 1
      BY <2>1, <2>4, <3>1, <3>2, <3>3
    <3>4. CASE i \in 1 .. n
      <4>1. i \in Labelled(0, l) /\ sent'[i] = sent[i]
        BY <3>1, <3>2, <3>4 DEF Labelled
      <4> QED BY <2>1, <4>1
    <3> QED BY <3>1, <3>2, <3>3, <3>4
  <2>8. PlayerInv'
    BY <2>1, <2>7 DEF PlayerInv
  <2>9. \A c \in 1 .. MaxConnections : SaysNothing(c)
    <3>1. \A c \in 1 .. MaxConnections : e.by # c
      BY <2>4
    <3> QED BY <2>4, <2>5, <3>1 DEF SaysNothing
  <2> QED BY <2>6, <2>8, <2>9
<1> QED BY <1>1, <1>2

LEMMA TasksStay ==
  ASSUME SaidInv, UNCHANGED channels, now' \in Nat, now <= now',
         \A c \in 1 .. MaxConnections : SaysNothing(c) /\ Keeps(c)
  PROVE  \A c \in 1 .. MaxConnections : TaskInv(c)'
<1> TAKE c \in 1 .. MaxConnections
<1>1. sent \in Seq(Entries) /\ now \in Nat /\ TaskInv(c) /\ SaysNothing(c) /\ Keeps(c)
  BY DEF SaidInv, SentInv, ClientInv
<1> QED BY <1>1, TaskStays

(* The client as a whole, when its channels and its scenario stay.          *)
ClientKept ==
  /\ UNCHANGED <<channels, scenario>> /\ now' \in Nat
  /\ connection' = [number |-> connection'.number, at |-> connection'.at]
  /\ connection'.number \in 1 .. MaxConnections
  /\ connection'.at \in {"opening", "open", "closing", "over"}
  /\ player' = [op |-> player'.op, at |-> player'.at, until |-> player'.until,
                numbers |-> player'.numbers, message |-> player'.message]
  /\ player'.at \in {"idle", "ready", "asleep", "sending", "exited"}
  /\ player'.at # "idle" => scenario # <<>>
  /\ scenario # <<>> => player'.op \in 1 .. Len(scenario)
  /\ DOMAIN tasks' = DOMAIN tasks
  /\ connection.number <= connection'.number
  /\ connection'.at = "opening" => connection' = connection \/ connection.number < connection'.number
  /\ \A c \in 1 .. MaxConnections :
       tasks'[c] # tasks[c] => Live(tasks[c]) \/ (c = connection.number /\ connection'.at # "opening")

LEMMA ClientStays ==
  ASSUME ClientInv, ClientKept
  PROVE  ClientInv'
<1>1. MaxConnections \in Nat /\ connection.number \in Nat /\ connection'.number \in Nat
  BY ZakuroAssumption DEF C!MessagingAssumption, ClientInv, ClientKept
<1>2. ASSUME NEW c \in 1 .. MaxConnections,
             c > connection'.number \/ (c = connection'.number /\ connection'.at = "opening")
      PROVE  tasks'[c].at = "none"
  <2>1. c > connection.number \/ (c = connection.number /\ connection.at = "opening" /\ connection' = connection)
    BY <1>1, <1>2 DEF ClientKept
  <2>2. tasks[c].at = "none"
    BY <2>1 DEF ClientInv
  <2>3. ~Live(tasks[c])
    BY <2>2 DEF Live
  <2>4. ~(c = connection.number /\ connection'.at # "opening")
    BY <1>1, <2>1
  <2>5. tasks'[c] = tasks[c]
    BY <2>3, <2>4 DEF ClientKept
  <2> QED BY <2>2, <2>5
<1>3. connection'.number # 0 /\ connection'.at # "idle" /\ connection'.number \in 0 .. MaxConnections
  BY <1>1 DEF ClientKept
<1> QED BY <1>2, <1>3 DEF ClientInv, ClientKept, SizesInOrder

LEMMA PlayerAt ==
  ASSUME ClientInv, NEW x, player' = [player EXCEPT !.at = x]
  PROVE  /\ player' = [op |-> player'.op, at |-> player'.at, until |-> player'.until,
                       numbers |-> player'.numbers, message |-> player'.message]
         /\ player'.at = x /\ player'.op = player.op /\ player'.numbers = player.numbers
<1>1. player = [op |-> player.op, at |-> player.at, until |-> player.until,
                numbers |-> player.numbers, message |-> player.message]
  BY DEF ClientInv
<1>2. PICK a, b, d, e, f : player = [op |-> a, at |-> b, until |-> d, numbers |-> e, message |-> f]
  BY <1>1
<1>3. player' = [op |-> a, at |-> x, until |-> d, numbers |-> e, message |-> f]
  BY <1>2
<1> QED BY <1>2, <1>3

LEMMA ConnectionAt ==
  ASSUME ClientInv, NEW x
  PROVE  [connection EXCEPT !.at = x] = [number |-> connection.number, at |-> x]
<1>1. connection = [number |-> connection.number, at |-> connection.at]
  BY DEF ClientInv
<1>2. PICK a, b : connection = [number |-> a, at |-> b]
  BY <1>1
<1> QED BY <1>2

LEMMA PlayerStays ==
  ASSUME SaidInv, UNCHANGED player, SaysNothing(0)
  PROVE  PlayerInv'
<1>1. sent \in Seq(Entries)
  BY DEF SaidInv, SentInv
<1>2. /\ \A l : Labelled(0, l)' = Labelled(0, l)
      /\ \A i \in DOMAIN sent' : sent'[i].by = 0 => i \in DOMAIN sent /\ sent'[i] = sent[i]
  BY <1>1, SaysNothingMore
<1>3. \A l : \A i \in Labelled(0, l) : sent'[i] = sent[i]
  <2> SUFFICES ASSUME NEW l, NEW i \in Labelled(0, l) PROVE sent'[i] = sent[i]
    OBVIOUS
  <2>1. i \in Labelled(0, l)'
    BY <1>2
  <2>2. i \in DOMAIN sent' /\ sent'[i].by = 0
    BY <2>1 DEF Labelled
  <2> QED BY <1>2, <2>2
<1> QED BY <1>2, <1>3 DEF SaidInv, PlayerInv

LEMMA SaidKept ==
  ASSUME SaidInv, ClientKept, now <= now', SentInv', PlayerInv',
         \A c \in 1 .. MaxConnections : SaysNothing(c) /\ Keeps(c)
  PROVE  SaidInv'
<1>1. ClientInv'
  BY ClientStays DEF SaidInv
<1>2. UNCHANGED channels /\ now' \in Nat
  BY DEF ClientKept
<1>3. \A c \in 1 .. MaxConnections : TaskInv(c)'
  BY <1>2, TasksStay
<1>4. UNCHANGED MaxConnections
  OBVIOUS
<1> QED BY <1>1, <1>3 DEF SaidInv

LEMMA SaidStart ==
  ASSUME SaidInv, C!SetUp
  PROVE  SaidInv'
<1>1. PICK described \in Seq(C!Described), s \in Seq(C!Operations) : C!Start(described, s)
  BY DEF C!SetUp
<1>2. /\ connection.at = "idle" /\ scenario' = s
      /\ channels' = C!parse_data_channels(described)
      /\ connection' = [number |-> 1, at |-> "opening"]
      /\ UNCHANGED <<now, player, tasks, sent>>
  BY <1>1 DEF C!Start
<1>3. channels' \in Seq(MessageChannels) /\ SizesInOrder(channels')
  BY <1>2, ParsedChannels
<1>4. /\ connection.number = 0 /\ sent = <<>> /\ player.op = 1 /\ player.at = "idle" /\ ClientInv
      /\ PlayerInv
  BY <1>2 DEF SaidInv, ClientInv
<1>5. MaxConnections \in Nat \ {0}
  BY ZakuroAssumption DEF C!MessagingAssumption
<1>6. \A c \in 1 .. MaxConnections : tasks'[c].at = "none"
  BY <1>2, <1>4, <1>5 DEF ClientInv
<1>7. sent' = <<>> /\ DOMAIN sent' = {} /\ sent' \in Seq(Entries)
  BY <1>2, <1>4
<1>8. SentInv'
  BY <1>7 DEF SentInv
<1>9. PlayerInv'
  BY <1>2, <1>4, <1>7 DEF PlayerInv, Labelled
<1>10. \A c \in 1 .. MaxConnections : TaskInv(c)'
  BY <1>6, <1>7 DEF TaskInv, Live
<1>11. connection'.number = 1 /\ connection'.at = "opening"
  BY <1>2
<1>12. s # <<>> => 1 \in 1 .. Len(s)
  <2>1. Len(s) \in Nat /\ (Len(s) = 0 => s = <<>>)
    OBVIOUS
  <2> QED BY <2>1
<1>13. SizesInOrder(channels)'
  BY <1>3 DEF SizesInOrder
<1>14. ClientInv'
  BY <1>2, <1>3, <1>4, <1>5, <1>6, <1>11, <1>12, <1>13 DEF ClientInv
<1> QED BY <1>8, <1>9, <1>10, <1>14 DEF SaidInv

(* The task of a connection starts from nothing, as nothing was sent by it. *)
LEMMA SaidOpened ==
  ASSUME SaidInv, NEW b \in BOOLEAN, C!Opened(b)
  PROVE  SaidInv'
<1> DEFINE c == connection.number
           starts == b /\ channels # <<>>
<1>1. /\ connection.at = "opening" /\ connection' = [connection EXCEPT !.at = "open"]
      /\ tasks' = IF starts THEN [tasks EXCEPT ![c] = C!run_messaging] ELSE tasks
      /\ player' = IF scenario # <<>> THEN [player EXCEPT !.at = "ready"] ELSE player
      /\ UNCHANGED <<channels, scenario, now, sent>>
  BY DEF C!Opened
<1>2. /\ ClientInv /\ now \in Nat /\ sent \in Seq(Entries) /\ DOMAIN tasks = 1 .. MaxConnections
      /\ MaxConnections \in Nat /\ connection.number \in 1 .. MaxConnections
      /\ tasks[connection.number].at = "none"
      /\ connection' = [number |-> connection.number, at |-> "open"]
  <2>1. ClientInv /\ MaxConnections \in Nat
    BY ZakuroAssumption DEF C!MessagingAssumption, SaidInv
  <2>2. connection' = [number |-> connection.number, at |-> "open"]
    BY <1>1, <2>1, ConnectionAt
  <2>3. connection.number \in 0 .. MaxConnections /\ connection.number # 0
    BY <1>1, <2>1 DEF ClientInv
  <2> QED BY <1>1, <2>1, <2>2, <2>3 DEF ClientInv, SaidInv, SentInv
<1>3. /\ player' = [op |-> player'.op, at |-> player'.at, until |-> player'.until,
                    numbers |-> player'.numbers, message |-> player'.message]
      /\ player'.at \in {"idle", "ready"} /\ (player'.at # "idle" => scenario # <<>>)
      /\ player'.op = player.op /\ player'.numbers = player.numbers
  <2>1. CASE scenario # <<>>
    BY <1>1, <1>2, <2>1, PlayerAt
  <2>2. CASE scenario = <<>>
    BY <1>1, <1>2, <2>2 DEF ClientInv
  <2> QED BY <2>1, <2>2
<1>4. SentInv' /\ PlayerInv' /\ \A d \in 1 .. MaxConnections : SaysNothing(d)
  BY <1>1, <1>3, PlayerSays
<1>5. connection'.number = connection.number /\ connection'.at = "open"
  BY <1>2
<1>6. /\ DOMAIN tasks' = DOMAIN tasks
      /\ \A d \in 1 .. MaxConnections : tasks'[d] # tasks[d] => d = connection.number
  BY <1>1, <1>2
<1>7. scenario # <<>> => player.op \in 1 .. Len(scenario)
  BY <1>2 DEF ClientInv
<1>8. ClientKept
  <2>1. /\ UNCHANGED <<channels, scenario>> /\ now' \in Nat
        /\ connection' = [number |-> connection'.number, at |-> connection'.at]
        /\ connection'.number \in 1 .. MaxConnections /\ connection.number <= connection'.number
    <3>1. UNCHANGED <<channels, scenario>> /\ now' \in Nat
      BY <1>1, <1>2
    <3>2. connection' = [number |-> connection'.number, at |-> connection'.at]
      BY <1>2, <1>5
    <3>3. connection'.number \in 1 .. MaxConnections /\ connection.number <= connection'.number
      BY <1>2, <1>5
    <3> QED BY <3>1, <3>2, <3>3
  <2>2. connection'.at \in {"opening", "open", "closing", "over"} /\ connection'.at # "opening"
    BY <1>5
  <2>3. player'.at \in {"idle", "ready", "asleep", "sending", "exited"}
        /\ (scenario # <<>> => player'.op \in 1 .. Len(scenario))
    BY <1>3, <1>7
  <2>4. \A d \in 1 .. MaxConnections :
          tasks'[d] # tasks[d] => d = connection.number /\ connection'.at # "opening"
    BY <1>6, <2>2
  <2> QED BY <1>3, <1>6, <2>1, <2>2, <2>3, <2>4, Zenon DEF ClientKept
<1>9. ClientInv'
  BY <1>2, <1>8, ClientStays
<1>10. ASSUME NEW d \in 1 .. MaxConnections PROVE TaskInv(d)'
  <2>1. CASE tasks'[d] = tasks[d]
    <3>1. now' \in Nat /\ now <= now' /\ UNCHANGED channels
      BY <1>1, <1>2
    <3>2. TaskInv(d) /\ SaysNothing(d) /\ Keeps(d)
      BY <1>4, <2>1 DEF SaidInv, Keeps
    <3> QED BY <1>2, <3>1, <3>2, TaskStays
  <2>2. CASE tasks'[d] # tasks[d]
    <3>1. /\ d = connection.number /\ starts
          /\ tasks'[d] = [at |-> "waiting", stop |-> FALSE, numbers |-> C!Zero,
                          next |-> [i \in DOMAIN channels |-> now]]
      BY <1>1, <1>2, <1>6, <2>2 DEF C!run_messaging
    <3>2. /\ tasks'[d].at = "waiting" /\ tasks'[d].numbers = [l \in Labels |-> 0]
          /\ tasks'[d].next = [i \in DOMAIN channels |-> now]
      BY <3>1 DEF C!Zero
    <3>3. tasks'[d] \in Waits'
      <4>1. [i \in DOMAIN channels |-> now] \in [DOMAIN channels -> Nat] /\ C!Zero \in Counters
        BY <1>2 DEF Counters, C!Zero
      <4>2. Waits' = Waits
        BY <1>1 DEF Waits
      <4>3. tasks'[d] \in Waits
        BY <3>1, <4>1 DEF Waits
      <4> QED BY <4>2, <4>3
    <3>4. \A i \in DOMAIN sent : sent[i].by # d
      BY <1>2, <3>1 DEF SaidInv, TaskInv
    <3>5. \A l : Labelled(d, l)' = {}
      BY <1>1, <3>4 DEF Labelled
    <3>6. Cardinality({}) = 0
      BY FS_EmptySet
    <3>7. /\ tasks'[d].at = "waiting" /\ channels' # <<>>
          /\ \A l \in Labels : tasks'[d].numbers[l] = 0
      BY <1>1, <3>1 DEF C!Zero
    <3>8. \A i \in DOMAIN sent' : sent'[i].by # d
      BY <1>1, <3>4
    <3> QED BY <3>3, <3>5, <3>6, <3>7, <3>8 DEF TaskInv, Live
  <2> QED BY <2>1, <2>2
<1> QED BY <1>4, <1>9, <1>10 DEF SaidInv

(* Time passes, or the process is told to stop.                             *)
LEMMA SaidPasses ==
  ASSUME SaidInv, C!Passes \/ C!Cancel, connection.at # "idle"
  PROVE  SaidInv'
<1>1. /\ UNCHANGED <<channels, scenario, connection, player, tasks, sent>>
      /\ now' = now \/ now' = now + 1
  BY DEF C!Passes, C!Cancel
<1>2. ClientInv /\ now \in Nat /\ MaxConnections \in Nat
  BY ZakuroAssumption DEF C!MessagingAssumption, SaidInv, ClientInv
<1>3. now' \in Nat /\ now <= now'
  BY <1>1, <1>2
<1>4. \A c \in 0 .. MaxConnections : SaysNothing(c) /\ Keeps(c)
  BY <1>1 DEF SaysNothing, Keeps
<1>5. 0 \in 0 .. MaxConnections /\ \A c \in 1 .. MaxConnections : c \in 0 .. MaxConnections
  BY <1>2
<1>6. SentInv' /\ PlayerInv'
  BY <1>1, <1>4, <1>5, SentStays, PlayerStays DEF SaidInv
<1>7. ClientInv'
  BY <1>1, <1>2, <1>3 DEF ClientInv, SizesInOrder
<1>8. \A c \in 1 .. MaxConnections : TaskInv(c)'
  BY <1>1, <1>3, <1>4, <1>5, TasksStay
<1> QED BY <1>6, <1>7, <1>8 DEF SaidInv

(* The connection ends, which tells its task, and the future of the player  *)
(* is dropped with what it was about to send.                               *)
LEMMA ToldKeeps ==
  ASSUME ClientInv, tasks' = C!Told(connection.number), connection.number \in 1 .. MaxConnections
  PROVE  /\ DOMAIN tasks' = DOMAIN tasks
         /\ \A c \in 1 .. MaxConnections : Keeps(c) /\ (tasks'[c] # tasks[c] => Live(tasks[c]))
<1>1. DOMAIN tasks = 1 .. MaxConnections
  BY DEF ClientInv
<1>2. CASE tasks' = tasks
  BY <1>2 DEF Keeps
<1>3. CASE Live(tasks[connection.number]) /\ tasks' = [tasks EXCEPT ![connection.number].stop = TRUE]
  <2> DEFINE d == connection.number
  <2>1. tasks'[d] = [tasks[d] EXCEPT !.stop = TRUE] /\ DOMAIN tasks' = DOMAIN tasks
        /\ \A c \in 1 .. MaxConnections : c # d => tasks'[c] = tasks[c]
    BY <1>1, <1>3
  <2> HIDE DEF d
  <2> QED BY <1>3, <2>1 DEF Keeps, d
<1> QED BY <1>2, <1>3 DEF C!Told, Live

LEMMA AnotherConnection ==
  ASSUME ClientInv, C!Another, connection.number \in 1 .. MaxConnections, MaxConnections \in Nat
  PROVE  /\ connection' = [number |-> connection'.number, at |-> connection'.at]
         /\ connection'.number \in 1 .. MaxConnections /\ connection.number <= connection'.number
         /\ connection'.at \in {"opening", "over"}
         /\ connection'.at = "opening" => connection.number < connection'.number
<1>1. CASE connection.number < MaxConnections
           /\ connection' = [number |-> connection.number + 1, at |-> "opening"]
  <2>1. connection'.number = connection.number + 1 /\ connection'.at = "opening"
    BY <1>1
  <2>2. connection' = [number |-> connection'.number, at |-> connection'.at]
    BY <1>1, <2>1
  <2> QED BY <1>1, <2>1, <2>2
<1>2. CASE connection' = [connection EXCEPT !.at = "over"]
  <2>1. connection' = [number |-> connection.number, at |-> "over"]
    BY <1>2, ConnectionAt
  <2>2. connection'.number = connection.number /\ connection'.at = "over"
    BY <2>1
  <2>3. connection' = [number |-> connection'.number, at |-> connection'.at]
    BY <2>1, <2>2
  <2> QED BY <2>2, <2>3
<1> QED BY <1>1, <1>2 DEF C!Another

LEMMA SaidEnds ==
  ASSUME SaidInv, C!Ends \/ C!Closed \/ C!Shutdown
  PROVE  SaidInv'
<1>1. /\ ClientInv /\ now \in Nat /\ MaxConnections \in Nat /\ connection.at # "idle"
      /\ connection.number \in 1 .. MaxConnections /\ UNCHANGED <<channels, scenario, now>>
      /\ scenario # <<>> => player.op \in 1 .. Len(scenario)
  <2>1. ClientInv /\ MaxConnections \in Nat
    BY ZakuroAssumption DEF C!MessagingAssumption, SaidInv
  <2>2. connection.at # "idle" /\ UNCHANGED <<channels, scenario, now>>
    BY DEF C!Ends, C!Closed, C!Shutdown
  <2> QED BY <2>1, <2>2 DEF ClientInv
<1>2. C!Dropped => sent' = sent \/ (player.at = "sending" /\ sent' = C!Got(C!Player, player.message))
  BY DEF C!Dropped
<1>3. /\ player' = [op |-> player'.op, at |-> player'.at, until |-> player'.until,
                    numbers |-> player'.numbers, message |-> player'.message]
      /\ player'.at \in {"idle", "ready", "asleep", "sending", "exited"}
      /\ player'.at # "idle" => scenario # <<>>
      /\ player'.op = player.op
  <2>1. CASE player' = player
    BY <1>1, <2>1 DEF ClientInv
  <2>2. CASE player' = [player EXCEPT !.at = "idle"]
    BY <1>1, <2>2, PlayerAt
  <2> QED BY <2>1, <2>2 DEF C!Ends, C!Closed, C!Shutdown
<1>4. SentInv' /\ PlayerInv' /\ \A c \in 1 .. MaxConnections : SaysNothing(c)
  <2>1. CASE C!Closed
    <3>1. sent' = sent /\ player' = player
      BY <2>1 DEF C!Closed
    <3>2. \A c : SaysNothing(c)
      BY <3>1 DEF SaysNothing
    <3> QED BY <1>1, <3>1, <3>2, SentStays, PlayerStays DEF SaidInv
  <2>2. CASE C!Ends \/ C!Shutdown
    <3>1. player' = [player EXCEPT !.at = "idle"] /\ C!Dropped
      BY <2>2 DEF C!Ends, C!Shutdown
    <3>2. player'.at # "sending" /\ player'.numbers = player.numbers
      BY <1>1, <3>1, PlayerAt
    <3> QED BY <1>1, <1>2, <3>1, <3>2, PlayerSays
  <2> QED BY <2>1, <2>2
<1>5. /\ DOMAIN tasks' = DOMAIN tasks
      /\ \A c \in 1 .. MaxConnections : Keeps(c) /\ (tasks'[c] # tasks[c] => Live(tasks[c]))
  <2>1. CASE tasks' = C!Told(connection.number)
    BY <1>1, <2>1, ToldKeeps
  <2>2. CASE tasks' = tasks
    BY <2>2 DEF Keeps
  <2> QED BY <2>1, <2>2 DEF C!Ends, C!Closed, C!Shutdown
<1>6. /\ connection' = [number |-> connection'.number, at |-> connection'.at]
      /\ connection'.number \in 1 .. MaxConnections /\ connection.number <= connection'.number
      /\ connection'.at \in {"opening", "over", "closing"}
      /\ connection'.at = "opening" => connection.number < connection'.number
  <2>1. CASE C!Another
    BY <1>1, <2>1, AnotherConnection
  <2>2. ASSUME NEW x \in {"over", "closing"}, connection' = [connection EXCEPT !.at = x]
        PROVE  /\ connection' = [number |-> connection'.number, at |-> connection'.at]
               /\ connection'.number = connection.number /\ connection'.at = x
    <3>1. connection' = [number |-> connection.number, at |-> x]
      BY <1>1, <2>2, ConnectionAt
    <3>2. connection'.number = connection.number /\ connection'.at = x
      BY <3>1
    <3>3. connection' = [number |-> connection'.number, at |-> connection'.at]
      BY <3>1, <3>2
    <3> QED BY <3>2, <3>3
  <2>3. \/ C!Another \/ connection' = [connection EXCEPT !.at = "over"]
        \/ connection' = [connection EXCEPT !.at = "closing"]
    BY DEF C!Ends, C!Closed, C!Shutdown
  <2>4. ASSUME NEW x \in {"over", "closing"}, connection' = [connection EXCEPT !.at = x]
        PROVE  /\ connection'.number \in 1 .. MaxConnections /\ connection.number <= connection'.number
               /\ connection'.at \in {"over", "closing"} /\ connection'.at # "opening"
    BY <1>1, <2>2, <2>4
  <2> QED BY <2>1, <2>2, <2>3, <2>4
<1>7. ClientKept
  <2>1. UNCHANGED <<channels, scenario>> /\ now' \in Nat
    BY <1>1
  <2>2. connection'.at \in {"opening", "open", "closing", "over"}
    BY <1>6
  <2>3. scenario # <<>> => player'.op \in 1 .. Len(scenario)
    BY <1>1, <1>3
  <2> QED BY <1>3, <1>5, <1>6, <2>1, <2>2, <2>3, Zenon DEF ClientKept
<1>8. now <= now' /\ \A c \in 1 .. MaxConnections : SaysNothing(c) /\ Keeps(c)
  BY <1>1, <1>4, <1>5
<1> QED BY <1>4, <1>7, <1>8, SaidKept

(* The steps of the player, which keep the place in its scenario.           *)
LEMMA SaidByPlayer ==
  ASSUME SaidInv, connection.at = "open", UNCHANGED <<channels, scenario, now, tasks>>,
         \/ connection' = connection
         \/ connection' = [connection EXCEPT !.at = "closing"],
         SentInv', PlayerInv', \A c \in 1 .. MaxConnections : SaysNothing(c),
         player' = [op |-> player'.op, at |-> player'.at, until |-> player'.until,
                    numbers |-> player'.numbers, message |-> player'.message],
         player'.at \in {"idle", "ready", "asleep", "sending", "exited"}, scenario # <<>>,
         player'.op = player.op \/ player'.op = C!advance
  PROVE  SaidInv'
<1>1. /\ ClientInv /\ now \in Nat /\ MaxConnections \in Nat
      /\ connection.number \in 1 .. MaxConnections
      /\ player.op \in 1 .. Len(scenario) /\ Len(scenario) \in Nat
  <2>1. ClientInv /\ MaxConnections \in Nat
    BY ZakuroAssumption DEF C!MessagingAssumption, SaidInv
  <2>2. scenario \in Seq(C!Operations)
    BY <2>1 DEF ClientInv
  <2> QED BY <2>1, <2>2 DEF ClientInv
<1>2. player'.op \in 1 .. Len(scenario)
  BY <1>1 DEF C!advance
<1>3. /\ connection' = [number |-> connection'.number, at |-> connection'.at]
      /\ connection'.number = connection.number /\ connection'.at \in {"open", "closing"}
  <2>1. CASE connection' = connection
    BY <1>1, <2>1 DEF ClientInv
  <2>2. CASE connection' = [connection EXCEPT !.at = "closing"]
    <3>1. connection' = [number |-> connection.number, at |-> "closing"]
      BY <1>1, <2>2, ConnectionAt
    <3>2. connection'.number = connection.number /\ connection'.at = "closing"
      BY <3>1
    <3>3. connection' = [number |-> connection'.number, at |-> connection'.at]
      BY <3>1, <3>2
    <3> QED BY <3>2, <3>3
  <2> QED BY <2>1, <2>2
<1>4. ClientKept
  <2>1. UNCHANGED <<channels, scenario>> /\ now' \in Nat
    BY <1>1
  <2>2. connection'.at \in {"opening", "open", "closing", "over"} /\ connection'.at # "opening"
    BY <1>3
  <2>3. connection'.number \in 1 .. MaxConnections /\ connection.number <= connection'.number
    BY <1>1, <1>3
  <2> QED BY <1>2, <1>3, <2>1, <2>2, <2>3, Zenon DEF ClientKept
<1>5. now <= now' /\ \A c \in 1 .. MaxConnections : SaysNothing(c) /\ Keeps(c)
  BY <1>1 DEF Keeps
<1> QED BY <1>4, <1>5, SaidKept

LEMMA SaidPlays ==
  ASSUME SaidInv, C!Sleeps \/ C!Wakes \/ C!Leaves \/ C!Sent
  PROVE  SaidInv'
<1>1. /\ connection.at = "open" /\ UNCHANGED <<channels, scenario, now, tasks>>
      /\ connection' = connection \/ connection' = [connection EXCEPT !.at = "closing"]
      /\ player.at \in {"ready", "asleep", "sending"}
      /\ sent' = sent \/ (player.at = "sending" /\ sent' = C!Got(C!Player, player.message))
  BY DEF C!Sleeps, C!Wakes, C!Leaves, C!Sent, C!Playing
<1>2. PICK at, op, until :
        /\ at \in {"idle", "ready", "asleep", "exited"}
        /\ C!Plays(at, op, until) /\ (op = player.op \/ op = C!advance)
  BY DEF C!Sleeps, C!Wakes, C!Leaves, C!Sent
<1>3. player' = [op |-> op, at |-> at, until |-> until, numbers |-> player.numbers,
                 message |-> player.message]
  BY <1>2 DEF C!Plays
<1>4. player'.op = op /\ player'.at = at /\ player'.until = until
      /\ player'.numbers = player.numbers /\ player'.message = player.message
  BY <1>3
<1>5. player' = [op |-> player'.op, at |-> player'.at, until |-> player'.until,
                 numbers |-> player'.numbers, message |-> player'.message]
  BY <1>3, <1>4
<1>6. player'.at # "sending" /\ player'.at \in {"idle", "ready", "asleep", "sending", "exited"}
  BY <1>2, <1>4
<1>7. SentInv' /\ PlayerInv' /\ \A c \in 1 .. MaxConnections : SaysNothing(c)
  BY <1>1, <1>4, <1>6, PlayerSays
<1>8. scenario # <<>>
  BY <1>1 DEF SaidInv, ClientInv
<1>9. player'.op = player.op \/ player'.op = C!advance
  BY <1>2, <1>4
<1> QED BY <1>1, <1>5, <1>6, <1>7, <1>8, <1>9, SaidByPlayer

(* The number of the message that is begun is used up at once.              *)
LEMMA SaidSends ==
  ASSUME SaidInv, C!Sends
  PROVE  SaidInv'
<1> DEFINE op == C!Op
           numbers == player.numbers
           l == C!Op.label
<1>1. /\ connection.at = "open" /\ UNCHANGED <<channels, scenario, now, connection, tasks, sent>>
      /\ player.at = "ready" /\ op.op = "SendDataChannelMessage"
  BY DEF C!Sends, C!Playing
<1>2. PICK random \in Randoms :
        player' = [op |-> player.op, at |-> "sending", until |-> player.until,
                   numbers |-> C!NumberedFrom(numbers, l),
                   message |-> C!Message(0, l, numbers,
                                 C!payload_size_from(C!Sized(op.min, op.max).min,
                                                     C!Sized(op.min, op.max).max, random))]
  BY DEF C!Sends
<1>3. scenario # <<>> /\ op \in C!Operations
  <2>1. ClientInv /\ scenario # <<>>
    BY <1>1 DEF SaidInv, ClientInv
  <2>2. player.op \in 1 .. Len(scenario) /\ scenario \in Seq(C!Operations)
    BY <2>1 DEF ClientInv
  <2> QED BY <2>1, <2>2 DEF C!Op
<1>4. l \in Labels /\ op.min \in Int /\ op.max \in Int
  BY <1>1, <1>3 DEF C!Operations
<1> DEFINE size == 48 + C!payload_size_from(C!Sized(op.min, op.max).min,
                                            C!Sized(op.min, op.max).max, random)
<1>5. size \in Int
  <2> DEFINE top == IF op.max < op.min THEN op.min ELSE op.max
  <2>1. C!Sized(op.min, op.max).min = op.min /\ C!Sized(op.min, op.max).max = top
    BY DEF C!Sized
  <2>2. top \in Int /\ op.min <= top
    BY <1>4
  <2>3. random \in Nat
    BY ZakuroAssumption DEF C!MessagingAssumption
  <2> HIDE DEF op, top
  <2>4. 48 + C!payload_size_from(op.min, top, random) \in op.min .. top
    BY <1>4, <2>2, <2>3, SizeFits
  <2> QED BY <1>4, <2>1, <2>2, <2>4
<1>6. player' = [op |-> player.op, at |-> "sending", until |-> player.until,
                 numbers |-> [numbers EXCEPT ![l] = @ + 1],
                 message |-> [channel |-> 0, label |-> l, number |-> numbers[l], size |-> size]]
  BY <1>2 DEF C!NumberedFrom, C!Message, C!build_message, C!MESSAGE_SIZE_MIN
<1> HIDE DEF op, l, size, numbers
<1>7. /\ player'.op = player.op /\ player'.at = "sending" /\ player'.until = player.until
      /\ player'.numbers = [numbers EXCEPT ![l] = @ + 1]
      /\ player'.message = [channel |-> 0, label |-> l, number |-> numbers[l], size |-> size]
  BY <1>6
<1>8. player' = [op |-> player'.op, at |-> player'.at, until |-> player'.until,
                 numbers |-> player'.numbers, message |-> player'.message]
  BY <1>6, <1>7
<1>9. PlayerInv'
  <2>1. /\ numbers \in Counters
        /\ \A k \in Labels : \A i \in Labelled(0, k) : sent[i].number < numbers[k]
    BY DEF SaidInv, PlayerInv, numbers
  <2>2. PICK next : next = [numbers EXCEPT ![l] = @ + 1]
    OBVIOUS
  <2>3. next \in Counters /\ next[l] = numbers[l] + 1 /\ numbers[l] \in Nat
        /\ \A k \in Labels : next[k] \in Nat /\ numbers[k] \in Nat /\ numbers[k] <= next[k]
    BY <1>4, <2>1, <2>2 DEF Counters
  <2>4. PICK m : m = [channel |-> 0, label |-> l, number |-> numbers[l], size |-> size]
    OBVIOUS
  <2>5. m \in Messages /\ m.label = l /\ m.number = numbers[l]
    BY <1>4, <1>5, <2>3, <2>4 DEF Messages
  <2>6. \A k : Labelled(0, k)' = Labelled(0, k)
    BY <1>1 DEF Labelled
  <2>7. \A k \in Labels : \A i \in Labelled(0, k) : sent[i].number \in Nat
    <3>1. \A i \in DOMAIN sent : sent[i] \in Entries
      BY DEF SaidInv, SentInv
    <3>2. \A i \in DOMAIN sent : sent[i].number \in Nat
      BY <3>1 DEF Entries
    <3> QED BY <3>2 DEF Labelled
  <2>8. \A k \in Labels : \A i \in Labelled(0, k) : sent[i].number < next[k]
    BY <2>1, <2>3, <2>7
  <2>9. player'.numbers = next /\ player'.message = m
    BY <1>7, <2>2, <2>4
  <2> QED BY <1>1, <1>4, <2>1, <2>3, <2>5, <2>6, <2>8, <2>9 DEF PlayerInv
<1>10. SentInv'
  BY <1>1, SentStays DEF SaidInv
<1>11. \A c \in 1 .. MaxConnections : SaysNothing(c)
  BY <1>1 DEF SaysNothing
<1> QED BY <1>1, <1>3, <1>7, <1>8, <1>9, <1>10, <1>11, SaidByPlayer

(* The steps of one task.                                                   *)
LEMMA SaidByTask ==
  ASSUME SaidInv, NEW c \in 1 .. MaxConnections, NEW u, Live(tasks[c]),
         tasks' = [tasks EXCEPT ![c] = u],
         UNCHANGED <<channels, scenario, now, connection, player>>, SentInv', TaskInv(c)',
         \A d \in 0 .. MaxConnections : d # c => SaysNothing(d)
  PROVE  SaidInv'
<1>1. /\ ClientInv /\ now \in Nat /\ MaxConnections \in Nat
      /\ connection.number \in 0 .. MaxConnections /\ sent \in Seq(Entries)
      /\ DOMAIN tasks = 1 .. MaxConnections
  BY ZakuroAssumption DEF C!MessagingAssumption, SaidInv, ClientInv, SentInv
<1>2. tasks[c].at # "none"
  BY DEF Live
<1>3. connection.at # "idle" /\ connection.number # 0
  <2>1. ~(c > connection.number)
    BY <1>1, <1>2 DEF ClientInv
  <2> QED BY <1>1, <2>1 DEF ClientInv
<1>4. \A d \in 1 .. MaxConnections : d # c => tasks'[d] = tasks[d]
  BY <1>1
<1>5. DOMAIN tasks' = DOMAIN tasks
  OBVIOUS
<1>6. ~(c > connection.number \/ (c = connection.number /\ connection.at = "opening"))
  BY <1>1, <1>2 DEF ClientInv
<1>7. ClientInv'
  <2>1. \A d \in 1 .. MaxConnections :
          d > connection.number \/ (d = connection.number /\ connection.at = "opening") =>
            tasks'[d].at = "none"
    BY <1>1, <1>4, <1>6 DEF ClientInv
  <2> QED BY <1>1, <1>3, <1>5, <2>1 DEF ClientInv, SizesInOrder
<1>8. ASSUME NEW d \in 1 .. MaxConnections PROVE TaskInv(d)'
  <2>1. CASE d = c
    BY <2>1
  <2>2. CASE d # c
    <3>1. TaskInv(d) /\ SaysNothing(d) /\ Keeps(d)
      BY <1>1, <1>4, <2>2 DEF SaidInv, Keeps
    <3>2. now' \in Nat /\ now <= now' /\ UNCHANGED channels
      BY <1>1
    <3> QED BY <1>1, <3>1, <3>2, TaskStays
  <2> QED BY <2>1, <2>2
<1>9. SaysNothing(0)
  BY <1>1
<1>10. PlayerInv'
  BY <1>9, PlayerStays
<1> QED BY <1>7, <1>8, <1>10 DEF SaidInv

LEMMA SaidTaskEnds ==
  ASSUME SaidInv, NEW c \in 1 .. MaxConnections, C!TaskStops(c) \/ C!TaskFails(c)
  PROVE  SaidInv'
<1>1. /\ Live(tasks[c]) /\ tasks' = [tasks EXCEPT ![c] = [at |-> "ended"]]
      /\ UNCHANGED <<channels, scenario, now, connection, player, sent>>
  BY DEF C!TaskStops, C!TaskFails, C!Waiting, Live
<1>2. DOMAIN tasks = 1 .. MaxConnections
  BY DEF SaidInv, ClientInv
<1>3. tasks'[c].at = "ended"
  BY <1>1, <1>2
<1>4. TaskInv(c)'
  BY <1>3 DEF TaskInv, Live
<1>5. SentInv' /\ \A d \in 0 .. MaxConnections : SaysNothing(d)
  BY <1>1, SentStays DEF SaidInv, SaysNothing
<1> QED BY <1>1, <1>4, <1>5, SaidByTask

(* The earliest channel is due, and its size is one that it allows.         *)
LEMMA SaidTaskSends ==
  ASSUME SaidInv, NEW c \in 1 .. MaxConnections, C!TaskSends(c)
  PROVE  SaidInv'
<1> DEFINE t == tasks[c]
           ch == C!Earliest(t)
<1>1. /\ t.at = "waiting" /\ now >= t.next[ch]
      /\ UNCHANGED <<channels, scenario, now, connection, player, sent>>
  BY DEF C!TaskSends, C!Waiting
<1>2. PICK random \in Randoms :
        tasks' = [tasks EXCEPT ![c] =
          [at |-> "sending", stop |-> t.stop, numbers |-> t.numbers, next |-> t.next,
           message |-> C!Message(ch, channels[ch].label, t.numbers,
                         C!payload_size_from(channels[ch].min, channels[ch].max, random))]]
  BY DEF C!TaskSends
<1>3. /\ t \in Waits /\ Live(t) /\ channels # <<>>
      /\ \A l \in Labels : t.numbers[l] = Cardinality(Labelled(c, l))
      /\ \A i \in DOMAIN sent : sent[i].by = c =>
           sent[i].time + channels[sent[i].channel].interval <= t.next[sent[i].channel]
  BY <1>1 DEF SaidInv, TaskInv, Live
<1>4. channels \in Seq(MessageChannels) /\ SizesInOrder(channels) /\ now \in Nat
      /\ DOMAIN tasks = 1 .. MaxConnections /\ random \in Nat
  BY ZakuroAssumption DEF C!MessagingAssumption, SaidInv, ClientInv
<1>5. Len(channels) \in Nat \ {0} /\ DOMAIN channels = 1 .. Len(channels)
  BY <1>3, <1>4, EmptySeq
<1>6. t.next \in [1 .. Len(channels) -> Nat] /\ t.numbers \in Counters /\ t.stop \in BOOLEAN
  BY <1>3, <1>5 DEF Waits
<1>7. ch \in DOMAIN channels
  BY <1>5, <1>6, EarliestIsOne
<1>8. channels[ch] \in MessageChannels /\ channels[ch].min <= channels[ch].max
  BY <1>4, <1>7 DEF SizesInOrder
<1>9. channels[ch].label \in Labels /\ channels[ch].min \in Int /\ channels[ch].max \in Int
      /\ channels[ch].interval \in Nat
  BY <1>8 DEF MessageChannels
<1> DEFINE size == 48 + C!payload_size_from(channels[ch].min, channels[ch].max, random)
           l == channels[ch].label
<1>10. size \in channels[ch].min .. channels[ch].max
  BY <1>4, <1>8, <1>9, SizeFits
<1>11. PICK m : m = [channel |-> ch, label |-> l, number |-> t.numbers[l], size |-> size]
  OBVIOUS
<1>12. PICK u : u = [at |-> "sending", stop |-> t.stop, numbers |-> t.numbers, next |-> t.next,
                     message |-> m]
  OBVIOUS
<1>13. tasks' = [tasks EXCEPT ![c] = u]
  BY <1>2, <1>11, <1>12 DEF C!Message, C!build_message, C!MESSAGE_SIZE_MIN
<1>14. t.numbers[l] \in Nat /\ ch \in Nat /\ size \in Int
  BY <1>5, <1>6, <1>7, <1>9, <1>10 DEF Counters
<1> HIDE DEF t, ch, size, l
<1>15. m \in Messages /\ m.channel = ch /\ m.label = l /\ m.number = t.numbers[l] /\ m.size = size
  BY <1>9, <1>11, <1>14 DEF Messages, l
<1>16. /\ u.at = "sending" /\ u.numbers = t.numbers /\ u.next = t.next /\ u.message = m
       /\ u \in SendsNow /\ Live(u)
  BY <1>5, <1>6, <1>12, <1>15 DEF SendsNow, Live
<1>17. Due(u)'
  BY <1>1, <1>7, <1>10, <1>15, <1>16 DEF Due
<1>18. tasks'[c] = u
  BY <1>4, <1>13
<1>19. \A k : Labelled(c, k)' = Labelled(c, k)
  BY <1>1 DEF Labelled
<1>20. SendsNow' = SendsNow
  BY <1>1 DEF SendsNow
<1>21. TaskInv(c)'
  BY <1>1, <1>3, <1>16, <1>17, <1>18, <1>19, <1>20 DEF TaskInv
<1>22. SentInv' /\ \A d \in 0 .. MaxConnections : SaysNothing(d)
  BY <1>1, SentStays DEF SaidInv, SaysNothing
<1> QED BY <1>1, <1>3, <1>13, <1>21, <1>22, SaidByTask DEF t

(* What was sent has the next number, and an interval goes by from now.     *)
LEMMA SaidTaskSent ==
  ASSUME SaidInv, NEW c \in 1 .. MaxConnections, C!TaskSent(c)
  PROVE  SaidInv'
<1> DEFINE t == tasks[c]
           m == tasks[c].message
<1>1. /\ t.at = "sending" /\ UNCHANGED <<channels, scenario, now, connection, player>>
      /\ sent' = C!Got(c, m)
      /\ tasks' = [tasks EXCEPT ![c] =
           [at |-> "waiting", stop |-> t.stop, numbers |-> C!NumberedFrom(t.numbers, m.label),
            next |-> [t.next EXCEPT ![m.channel] = C!Due(t)]]]
  BY DEF C!TaskSent
<1>2. /\ t \in SendsNow /\ Due(t) /\ Live(t) /\ channels # <<>>
      /\ \A l \in Labels : t.numbers[l] = Cardinality(Labelled(c, l))
      /\ \A i \in DOMAIN sent : sent[i].by = c =>
           sent[i].time + channels[sent[i].channel].interval <= t.next[sent[i].channel]
  BY <1>1 DEF SaidInv, TaskInv, Live
<1>3. /\ channels \in Seq(MessageChannels) /\ now \in Nat /\ DOMAIN tasks = 1 .. MaxConnections
      /\ sent \in Seq(Entries) /\ MaxConnections \in Nat
  BY ZakuroAssumption DEF C!MessagingAssumption, SaidInv, ClientInv, SentInv
<1>4. /\ m \in Messages /\ t.next \in [DOMAIN channels -> Nat] /\ t.numbers \in Counters
      /\ t.stop \in BOOLEAN
  BY <1>2 DEF SendsNow
<1>5. /\ m.channel \in DOMAIN channels /\ t.next[m.channel] <= now
      /\ m.number = t.numbers[m.label]
      /\ m.size \in channels[m.channel].min .. channels[m.channel].max
  BY <1>2 DEF Due
<1> DEFINE interval == channels[m.channel].interval
           numbers == t.numbers
           next == t.next
<1>6. interval \in Nat /\ C!Due(t) = now + interval
  <2>1. channels[m.channel] \in MessageChannels
    BY <1>3, <1>5
  <2> QED BY <2>1 DEF MessageChannels, C!Due
<1>7. PICK e : e = [by |-> c, time |-> now, channel |-> m.channel, label |-> m.label,
                    number |-> m.number, size |-> m.size]
  OBVIOUS
<1>8. PICK u : u = [at |-> "waiting", stop |-> t.stop,
                    numbers |-> [numbers EXCEPT ![m.label] = @ + 1],
                    next |-> [next EXCEPT ![m.channel] = now + interval]]
  OBVIOUS
<1>9. sent' = Append(sent, e)
  BY <1>1, <1>7 DEF C!Got
<1>10. tasks' = [tasks EXCEPT ![c] = u]
  BY <1>1, <1>6, <1>8 DEF C!NumberedFrom
<1>11. tasks'[c] = u
  BY <1>3, <1>10
<1>12. \A l \in Labels : numbers[l] = Cardinality(Labelled(c, l))
  BY <1>2
<1>13. \A i \in DOMAIN sent : sent[i].by = c =>
          sent[i].time + channels[sent[i].channel].interval <= next[sent[i].channel]
  BY <1>2
<1>14. m.label \in Labels /\ m.channel \in Nat /\ m.number \in Nat /\ m.size \in Int
  BY <1>4 DEF Messages
<1> HIDE DEF t, m, interval, numbers, next
<1>15. /\ e.by = c /\ e.time = now /\ e.channel = m.channel /\ e.label = m.label
       /\ e.number = m.number /\ e.size = m.size /\ e \in Entries
  <2>1. c \in 0 .. MaxConnections
    BY <1>3
  <2> QED BY <1>3, <1>7, <1>14, <2>1 DEF Entries
<1>16. PICK n \in Nat :
         /\ DOMAIN sent = 1 .. n /\ DOMAIN sent' = 1 .. n + 1
         /\ \A i \in 1 .. n : sent'[i] = sent[i] /\ sent[i] \in Entries
         /\ sent'[n + 1] = e
  BY <1>3, <1>9, <1>15, EntryAppended
<1>17. next[m.channel] <= now /\ m.number = numbers[m.label]
  BY <1>5 DEF next, numbers
<1>18. Fits(e)
  <2>1. e.by # 0 /\ e.number = Cardinality(Labelled(e.by, e.label))
    BY <1>12, <1>14, <1>15, <1>17
  <2>2. ASSUME NEW i \in DOMAIN sent, sent[i].by = e.by, sent[i].channel = e.channel
        PROVE  sent[i].time + channels[e.channel].interval <= e.time
    <3>1. sent[i].time + channels[sent[i].channel].interval <= next[sent[i].channel]
      BY <1>13, <1>15, <2>2
    <3>2. sent[i].time + interval <= next[m.channel]
      BY <1>15, <2>2, <3>1 DEF interval
    <3>3. sent[i].time \in Nat
      BY <1>16, <2>2 DEF Entries
    <3>4. next[m.channel] \in Nat
      BY <1>4, <1>5 DEF next
    <3>5. sent[i].time + interval <= now
      BY SMTT(30), <1>3, <1>6, <1>17, <3>2, <3>3, <3>4
    <3> QED BY <1>15, <3>5 DEF interval
  <2>3. e.channel \in DOMAIN channels
        /\ e.size \in channels[e.channel].min .. channels[e.channel].max
    BY <1>5, <1>15
  <2> QED BY <2>1, <2>2, <2>3 DEF Fits
<1>19. SentInv'
  BY <1>1, <1>9, <1>15, <1>18, SentMore DEF SaidInv
<1>20. /\ u.at = "waiting" /\ u.numbers = [numbers EXCEPT ![m.label] = @ + 1]
       /\ u.next = [next EXCEPT ![m.channel] = now + interval]
  BY <1>8
<1>21. numbers \in Counters /\ next \in [DOMAIN channels -> Nat]
  BY <1>4 DEF numbers, next
<1>22. u \in Waits'
  <2>1. [numbers EXCEPT ![m.label] = @ + 1] \in Counters
    BY <1>14, <1>21 DEF Counters
  <2>2. [next EXCEPT ![m.channel] = now + interval] \in [DOMAIN channels -> Nat]
    <3>1. now + interval \in Nat
      BY ONLY <1>3, <1>6
    <3> HIDE DEF Counters
    <3> QED BY ONLY <3>1, <1>21, ZenonT(30)
  <2>3. u \in Waits
    BY <1>4, <1>8, <2>1, <2>2 DEF Waits
  <2> QED BY <1>1, <2>3 DEF Waits
<1>23. ASSUME NEW l \in Labels PROVE u.numbers[l] = Cardinality(Labelled(c, l)')
  <2>1. numbers[l] \in Nat /\ numbers[l] = Cardinality(Labelled(c, l))
    BY <1>12, <1>21 DEF Counters
  <2>2. u.numbers[l] = IF l = m.label THEN numbers[l] + 1 ELSE numbers[l]
    BY <1>20, <1>21 DEF Counters
  <2>3. CASE l = m.label
    <3>1. Cardinality(Labelled(c, l)') = Cardinality(Labelled(c, l)) + 1
      BY <1>3, <1>9, <1>15, <2>3, LabelledMore
    <3> QED BY <2>1, <2>2, <2>3, <3>1
  <2>4. CASE l # m.label
    <3>1. Labelled(c, l)' = Labelled(c, l)
      BY <1>3, <1>9, <1>15, <2>4, LabelledMore
    <3> QED BY <2>1, <2>2, <2>4, <3>1
  <2> QED BY <2>3, <2>4
<1>24. ASSUME NEW i \in DOMAIN sent', sent'[i].by = c
       PROVE  sent'[i].time + channels[sent'[i].channel].interval <= u.next[sent'[i].channel]
  <2>1. u.next[m.channel] = now + interval
    BY <1>5, <1>20, <1>21
  <2>2. CASE i = n + 1
    <3>1. sent'[i].time = now /\ sent'[i].channel = m.channel
      BY <1>15, <1>16, <2>2
    <3>2. now + interval \in Nat
      BY ONLY <1>3, <1>6
    <3>3. now + interval <= now + interval
      BY ONLY <3>2
    <3> QED BY <2>1, <3>1, <3>3 DEF interval
  <2>3. CASE i # n + 1
    <3>1. i \in 1 .. n /\ sent'[i] = sent[i] /\ i \in DOMAIN sent /\ sent[i] \in Entries
      BY <1>16, <2>3
    <3>2. sent[i].by # 0 /\ sent[i].by = c
      BY <1>24, <3>1
    <3>3. sent[i].channel \in DOMAIN channels /\ sent[i].time \in Nat
      BY <3>1, <3>2 DEF SaidInv, SentInv, EntryInv, Entries
    <3>4. sent[i].time + channels[sent[i].channel].interval <= next[sent[i].channel]
      BY <1>13, <3>1, <3>2
    <3>5. CASE sent[i].channel = m.channel
      <4>1. sent[i].time + interval <= next[m.channel]
        BY <3>4, <3>5 DEF interval
      <4>2. next[m.channel] \in Nat
        BY <1>5, <1>21
      <4>3. sent[i].time + interval <= now + interval
        BY SMTT(30), <1>3, <1>6, <1>17, <3>3, <4>1, <4>2
      <4> QED BY <2>1, <3>1, <3>5, <4>3 DEF interval
    <3>6. CASE sent[i].channel # m.channel
      <4>1. u.next[sent[i].channel] = next[sent[i].channel]
        BY <1>20, <1>21, <3>3, <3>6
      <4> QED BY <3>1, <3>4, <4>1
    <3> QED BY <3>5, <3>6
  <2> QED BY <2>2, <2>3
<1>25. TaskInv(c)'
  BY <1>1, <1>2, <1>11, <1>20, <1>22, <1>23, <1>24 DEF TaskInv, Live
<1>26. \A d \in 0 .. MaxConnections : d # c => SaysNothing(d)
  BY <1>9, <1>15 DEF SaysNothing
<1>27. Live(tasks[c])
  BY <1>2 DEF t
<1> QED BY <1>1, <1>10, <1>19, <1>25, <1>26, <1>27, SaidByTask

LEMMA SaidStep ==
  SaidInv /\ [C!SetUp \/ (connection.at # "idle" /\ C!Next)]_(C!vars) => SaidInv'
<1> SUFFICES ASSUME SaidInv, [C!SetUp \/ (connection.at # "idle" /\ C!Next)]_(C!vars) PROVE SaidInv'
  OBVIOUS
<1>1. CASE UNCHANGED C!vars
  <2>1. UNCHANGED <<channels, scenario, now, connection, player, tasks, sent>>
    BY <1>1 DEF C!vars
  <2>2. \A c, l : Labelled(c, l)' = Labelled(c, l)
    BY <2>1 DEF Labelled
  <2>3. ClientInv' /\ PlayerInv' /\ SentInv'
    BY <2>1, <2>2, SentStays DEF SaidInv, ClientInv, PlayerInv, SizesInOrder
  <2>4. \A c \in 1 .. MaxConnections : SaysNothing(c) /\ Keeps(c)
    BY <2>1 DEF SaysNothing, Keeps
  <2>5. now' \in Nat /\ now <= now'
    BY <2>1 DEF SaidInv, ClientInv
  <2>6. \A c \in 1 .. MaxConnections : TaskInv(c)'
    BY <2>1, <2>4, <2>5, TasksStay
  <2> QED BY <2>3, <2>6 DEF SaidInv
<1>2. CASE connection.at # "idle" /\ C!Next
  <2>1. ASSUME NEW b \in BOOLEAN, C!Opened(b) PROVE SaidInv'
    BY <2>1, SaidOpened
  <2>2. CASE C!Passes \/ C!Cancel
    BY <1>2, <2>2, SaidPasses
  <2>3. CASE C!Ends \/ C!Closed \/ C!Shutdown
    BY <2>3, SaidEnds
  <2>4. CASE C!Sleeps \/ C!Wakes \/ C!Leaves \/ C!Sent
    BY <2>4, SaidPlays
  <2>5. CASE C!Sends
    BY <2>5, SaidSends
  <2>6. ASSUME NEW c \in 1 .. MaxConnections,
               C!TaskStops(c) \/ C!TaskSends(c) \/ C!TaskSent(c) \/ C!TaskFails(c)
        PROVE  SaidInv'
    BY <2>6, SaidTaskEnds, SaidTaskSends, SaidTaskSent
  <2> QED BY <1>2, <2>1, <2>2, <2>3, <2>4, <2>5, <2>6, Zenon DEF C!Next
<1> QED BY <1>1, <1>2, SaidStart

LEMMA ClientSpeaksInSequence == C!Spec => []C!MessagesInSequence
<1> DEFINE Step == C!SetUp \/ (connection.at # "idle" /\ C!Next)
<1>1. SaidInv /\ [Step]_(C!vars) => SaidInv'
  BY SaidStep
<1>2. C!Spec => C!Init /\ [][Step]_(C!vars)
  BY DEF C!Spec
<1>3. SaidInv => C!MessagesInSequence
  BY InSequence DEF SaidInv, ClientInv
<1> HIDE DEF Step
<1> QED BY <1>1, <1>2, <1>3, SaidInit, PTL

(* SpeaksInSequence: for any channels, scenario, number of connections and   *)
(* end of them, what the peer gets from a task is numbered without a gap,    *)
(* what it gets from the player is never numbered twice, and messages of one *)
(* channel are an interval apart and of a size that the channel allows.      *)
THEOREM SpeaksInSequence == ZakuroSpec => []MessagesInSequence
<1>1. MessagesInSequence <=> C!MessagesInSequence
  BY DEF MessagesInSequence
<1> QED BY <1>1, Composition, ClientSpeaksInSequence, PTL

-----------------------------------------------------------------------------
(* The layers of the settings, for every command line and every file. What  *)
(* a list of tokens says of an option is what its last mention says; each   *)
(* step of the parse that takes lists apart, joins them or drops from them  *)
(* keeps what the list says, when every option has its value and no word is *)
(* left over, which the last step verifies.                                 *)

(* A token that takes the next one for its value; a list in which all do.   *)
Valued(t) == t.form = "key" /\ ~is_flag(t.key)
PairedUp(a) ==
  \A i \in 1 .. Len(a) : Valued(a[i]) => i + 1 \in 1 .. Len(a) /\ ~Dashed(a[i + 1])

(* A word that no option takes.                                             *)
Stray(a, i) == i \in 1 .. Len(a) /\ ~Dashed(a[i]) /\ (i = 1 \/ ~Valued(a[i - 1]))
NoStrays(a) == \A i \in 1 .. Len(a) : ~Stray(a, i)

(* Where a list has an option, and what it says of it: what the last says.  *)
IsAt(a, k, i) == i \in 1 .. Len(a) /\ Dashed(a[i]) /\ a[i].key = k
Has(a, k) == \E i \in 1 .. Len(a) : IsAt(a, k, i)
Once(a, k) == \A i, j \in 1 .. Len(a) : IsAt(a, k, i) /\ IsAt(a, k, j) => i = j
Says(a, k, i) ==
  IF is_flag(k) THEN "on" ELSE IF a[i].form = "eq" THEN a[i].value ELSE a[i + 1].value
IsLast(a, k, i) == IsAt(a, k, i) /\ \A j \in 1 .. Len(a) : IsAt(a, k, j) => j <= i
Reads(a, k, v) ==
  IF Has(a, k) THEN \E i \in 1 .. Len(a) : IsLast(a, k, i) /\ v = Says(a, k, i) ELSE v = Nothing

(* Two lists, one after the other.                                          *)
LEMMA BothPaired ==
  ASSUME NEW S, NEW a \in Seq(S), NEW b \in Seq(S), PairedUp(a), PairedUp(b)
  PROVE  PairedUp(a \o b) /\ (NoStrays(a \o b) => NoStrays(a) /\ NoStrays(b))
<1> DEFINE c == a \o b
<1>1. /\ c \in Seq(S) /\ Len(c) = Len(a) + Len(b) /\ Len(a) \in Nat /\ Len(b) \in Nat
      /\ \A i \in 1 .. Len(a) : c[i] = a[i]
      /\ \A i \in 1 .. Len(b) : c[Len(a) + i] = b[i]
      /\ \A i \in 1 .. Len(c) : i \in 1 .. Len(a) \/ \E j \in 1 .. Len(b) : i = Len(a) + j
  BY ConcatElements
<1> HIDE DEF c
<1>2. PairedUp(c)
  <2> SUFFICES ASSUME NEW i \in 1 .. Len(c), Valued(c[i])
               PROVE  i + 1 \in 1 .. Len(c) /\ ~Dashed(c[i + 1])
    BY DEF PairedUp
  <2>1. CASE i \in 1 .. Len(a)
    <3>1. i + 1 \in 1 .. Len(a) /\ ~Dashed(a[i + 1])
      BY <1>1, <2>1 DEF PairedUp
    <3> QED BY <1>1, <3>1
  <2>2. ASSUME NEW j \in 1 .. Len(b), i = Len(a) + j PROVE i + 1 \in 1 .. Len(c) /\ ~Dashed(c[i + 1])
    <3>1. j + 1 \in 1 .. Len(b) /\ ~Dashed(b[j + 1])
      BY <1>1, <2>2 DEF PairedUp
    <3>2. i + 1 = Len(a) + (j + 1) /\ i + 1 \in 1 .. Len(c)
      BY <1>1, <2>2, <3>1
    <3> QED BY <1>1, <3>1, <3>2
  <2> QED BY <1>1, <2>1, <2>2
<1>3. ASSUME NoStrays(c) PROVE NoStrays(a)
  <2> SUFFICES ASSUME NEW i \in 1 .. Len(a), Stray(a, i) PROVE FALSE
    BY DEF NoStrays
  <2>1. i \in 1 .. Len(c) /\ c[i] = a[i] /\ (i # 1 => i - 1 \in 1 .. Len(a))
    BY <1>1
  <2>2. Stray(c, i)
    BY <1>1, <2>1 DEF Stray
  <2> QED BY <1>3, <2>1, <2>2 DEF NoStrays
<1>4. ASSUME NoStrays(c) PROVE NoStrays(b)
  <2> SUFFICES ASSUME NEW i \in 1 .. Len(b), Stray(b, i) PROVE FALSE
    BY DEF NoStrays
  <2> DEFINE n == Len(a)
  <2>1. n + i \in 1 .. Len(c) /\ c[n + i] = b[i] /\ n \in Nat
    BY <1>1
  <2>2. ~Dashed(c[n + i]) /\ (i = 1 \/ ~Valued(b[i - 1]))
    BY <2>1 DEF Stray
  <2>3. CASE i # 1
    <3>1. i - 1 \in 1 .. Len(b) /\ (n + i) - 1 = n + (i - 1)
      BY <1>1, <2>1, <2>3
    <3>2. c[(n + i) - 1] = b[i - 1]
      BY <1>1, <3>1
    <3>3. Stray(c, n + i)
      BY <2>1, <2>2, <2>3, <3>2 DEF Stray
    <3> QED BY <1>4, <2>1, <3>3 DEF NoStrays
  <2>4. CASE i = 1 /\ n = 0
    <3>1. Stray(c, n + i)
      BY <2>1, <2>2, <2>4 DEF Stray
    <3> QED BY <1>4, <2>1, <3>1 DEF NoStrays
  <2>5. CASE i = 1 /\ n # 0
    <3>1. n \in 1 .. Len(a) /\ (n + i) - 1 = n /\ c[n] = a[n] /\ ~(n + 1 \in 1 .. Len(a))
      BY <1>1, <2>1, <2>5
    <3>2. ~Valued(a[n])
      BY <3>1 DEF PairedUp
    <3>3. Stray(c, n + i)
      BY <2>1, <2>2, <3>1, <3>2 DEF Stray
    <3> QED BY <1>4, <2>1, <3>3 DEF NoStrays
  <2> QED BY <2>3, <2>4, <2>5
<1> QED BY <1>2, <1>3, <1>4 DEF c

LEMMA PlacesInBoth ==
  ASSUME NEW S, NEW a \in Seq(S), NEW b \in Seq(S), NEW k
  PROVE  /\ \A i \in 1 .. Len(a) : IsAt(a \o b, k, i) <=> IsAt(a, k, i)
         /\ \A i \in 1 .. Len(b) : IsAt(a \o b, k, Len(a) + i) <=> IsAt(b, k, i)
         /\ \A i \in 1 .. Len(a \o b) :
              i \in 1 .. Len(a) \/ \E j \in 1 .. Len(b) : i = Len(a) + j
         /\ Len(a \o b) = Len(a) + Len(b) /\ Len(a) \in Nat /\ Len(b) \in Nat
<1> DEFINE c == a \o b
<1>1. /\ c \in Seq(S) /\ Len(c) = Len(a) + Len(b) /\ Len(a) \in Nat /\ Len(b) \in Nat
      /\ \A i \in 1 .. Len(a) : c[i] = a[i]
      /\ \A i \in 1 .. Len(b) : c[Len(a) + i] = b[i]
      /\ \A i \in 1 .. Len(c) : i \in 1 .. Len(a) \/ \E j \in 1 .. Len(b) : i = Len(a) + j
  BY ConcatElements
<1> HIDE DEF c
<1>2. \A i \in 1 .. Len(a) : IsAt(c, k, i) <=> IsAt(a, k, i)
  BY <1>1 DEF IsAt
<1>3. \A i \in 1 .. Len(b) : Len(a) + i \in 1 .. Len(c)
  BY <1>1
<1>4. \A i \in 1 .. Len(b) : IsAt(c, k, Len(a) + i) <=> IsAt(b, k, i)
  BY <1>1, <1>3 DEF IsAt
<1> QED BY <1>1, <1>2, <1>4 DEF c

LEMMA BothHave ==
  ASSUME NEW S, NEW a \in Seq(S), NEW b \in Seq(S), NEW k
  PROVE  /\ Has(a \o b, k) <=> Has(a, k) \/ Has(b, k)
         /\ Once(a, k) /\ ~Has(b, k) => Once(a \o b, k)
         /\ Once(b, k) /\ ~Has(a, k) => Once(a \o b, k)
<1>0. /\ \A i \in 1 .. Len(a) : IsAt(a \o b, k, i) <=> IsAt(a, k, i)
      /\ \A i \in 1 .. Len(b) : IsAt(a \o b, k, Len(a) + i) <=> IsAt(b, k, i)
      /\ \A i \in 1 .. Len(a \o b) : i \in 1 .. Len(a) \/ \E j \in 1 .. Len(b) : i = Len(a) + j
      /\ Len(a \o b) = Len(a) + Len(b) /\ Len(a) \in Nat /\ Len(b) \in Nat
  BY PlacesInBoth
<1> DEFINE c == a \o b
<1> HIDE DEF c
<1>1. /\ \A i \in 1 .. Len(a) : i \in 1 .. Len(c) /\ (IsAt(c, k, i) <=> IsAt(a, k, i))
      /\ \A i \in 1 .. Len(b) : Len(a) + i \in 1 .. Len(c) /\ (IsAt(c, k, Len(a) + i) <=> IsAt(b, k, i))
      /\ \A i \in 1 .. Len(c) : i \in 1 .. Len(a) \/ \E j \in 1 .. Len(b) : i = Len(a) + j
  <2>1. \A i \in 1 .. Len(a) : i \in 1 .. Len(c)
    BY ONLY <1>0 DEF c
  <2>2. \A i \in 1 .. Len(b) : Len(a) + i \in 1 .. Len(c)
    BY ONLY <1>0 DEF c
  <2> QED BY ONLY <1>0, <2>1, <2>2 DEF c
<1>2. Has(c, k) <=> Has(a, k) \/ Has(b, k)
  BY <1>1 DEF Has
<1>3. ASSUME Once(a, k), ~Has(b, k) PROVE Once(c, k)
  <2> SUFFICES ASSUME NEW i \in 1 .. Len(c), NEW j \in 1 .. Len(c), IsAt(c, k, i), IsAt(c, k, j)
               PROVE  i = j
    BY DEF Once
  <2>1. ASSUME NEW x \in 1 .. Len(b) PROVE ~IsAt(c, k, Len(a) + x)
    BY ONLY <1>1, <1>3 DEF Has
  <2>2. i \in 1 .. Len(a) /\ j \in 1 .. Len(a)
    BY <1>1, <2>1
  <2>3. IsAt(a, k, i) /\ IsAt(a, k, j)
    BY <1>1, <2>2
  <2> QED BY ONLY <1>3, <2>2, <2>3 DEF Once
<1>4. ASSUME Once(b, k), ~Has(a, k) PROVE Once(c, k)
  <2> SUFFICES ASSUME NEW i \in 1 .. Len(c), NEW j \in 1 .. Len(c), IsAt(c, k, i), IsAt(c, k, j)
               PROVE  i = j
    BY DEF Once
  <2>1. PICK x \in 1 .. Len(b) : i = Len(a) + x
    BY <1>1, <1>4 DEF Has
  <2>2. PICK y \in 1 .. Len(b) : j = Len(a) + y
    BY <1>1, <1>4 DEF Has
  <2>3. IsAt(b, k, x) /\ IsAt(b, k, y)
    BY <1>1, <2>1, <2>2
  <2>4. x = y
    BY ONLY <1>4, <2>3 DEF Once
  <2> QED BY ONLY <2>1, <2>2, <2>4
<1> QED BY <1>2, <1>3, <1>4 DEF c

(* The later list is believed, the earlier where that says nothing.         *)
LEMMA LaterIsRead ==
  ASSUME NEW S, NEW a \in Seq(S), NEW b \in Seq(S), NEW k, NEW v, PairedUp(a), PairedUp(b),
         IF Has(b, k) THEN Reads(b, k, v) ELSE Reads(a, k, v)
  PROVE  Reads(a \o b, k, v)
<1>0. /\ \A i \in 1 .. Len(a) : IsAt(a \o b, k, i) <=> IsAt(a, k, i)
      /\ \A i \in 1 .. Len(b) : IsAt(a \o b, k, Len(a) + i) <=> IsAt(b, k, i)
      /\ \A i \in 1 .. Len(a \o b) : i \in 1 .. Len(a) \/ \E j \in 1 .. Len(b) : i = Len(a) + j
      /\ Len(a \o b) = Len(a) + Len(b) /\ Len(a) \in Nat /\ Len(b) \in Nat
  BY PlacesInBoth
<1>1. /\ \A i \in 1 .. Len(a) : (a \o b)[i] = a[i]
      /\ \A i \in 1 .. Len(b) : (a \o b)[Len(a) + i] = b[i]
  BY ConcatElements
<1>2. Has(a \o b, k) <=> Has(a, k) \/ Has(b, k)
  BY BothHave
<1> DEFINE c == a \o b
           n == Len(a)
<1>3. /\ n \in Nat /\ Len(b) \in Nat /\ Len(c) = n + Len(b)
      /\ \A i \in 1 .. n : i \in 1 .. Len(c) /\ c[i] = a[i] /\ (IsAt(c, k, i) <=> IsAt(a, k, i))
      /\ \A i \in 1 .. Len(b) : /\ n + i \in 1 .. Len(c) /\ c[n + i] = b[i]
                                /\ IsAt(c, k, n + i) <=> IsAt(b, k, i)
      /\ \A i \in 1 .. Len(c) : i \in 1 .. n \/ \E j \in 1 .. Len(b) : i = n + j
      /\ Has(c, k) <=> Has(a, k) \/ Has(b, k)
  <2>1. n \in Nat /\ Len(b) \in Nat /\ Len(c) = n + Len(b)
    BY ONLY <1>0
  <2>2. \A i \in 1 .. n : i \in 1 .. Len(c)
    BY ONLY <2>1
  <2>3. \A i \in 1 .. Len(b) : n + i \in 1 .. Len(c)
    BY ONLY <2>1
  <2> HIDE DEF n
  <2>4. \A i \in 1 .. n : c[i] = a[i] /\ (IsAt(c, k, i) <=> IsAt(a, k, i))
    BY ONLY <1>0, <1>1 DEF n
  <2>5. \A i \in 1 .. Len(b) : c[n + i] = b[i] /\ (IsAt(c, k, n + i) <=> IsAt(b, k, i))
    BY ONLY <1>0, <1>1 DEF n
  <2>6. \A i \in 1 .. Len(c) : i \in 1 .. n \/ \E j \in 1 .. Len(b) : i = n + j
    BY ONLY <1>0 DEF n
  <2> HIDE DEF c
  <2> QED BY <1>2, <2>1, <2>2, <2>3, <2>4, <2>5, <2>6 DEF c
<1> HIDE DEF c
<1>4. CASE Has(b, k)
  <2>1. PICK i \in 1 .. Len(b) : IsLast(b, k, i) /\ v = Says(b, k, i)
    BY <1>4 DEF Reads
  <2>2. IsAt(c, k, n + i) /\ n + i \in 1 .. Len(c) /\ c[n + i] = b[i]
    BY <1>3, <2>1 DEF IsLast
  <2>3. ASSUME NEW j \in 1 .. Len(c), IsAt(c, k, j) PROVE j <= n + i
    <3>1. CASE j \in 1 .. n
      BY <1>3, <3>1
    <3>2. ASSUME NEW x \in 1 .. Len(b), j = n + x PROVE j <= n + i
      <4>1. IsAt(b, k, x)
        BY <1>3, <2>3, <3>2
      <4>2. x <= i
        BY <2>1, <4>1 DEF IsLast
      <4> QED BY <1>3, <3>2, <4>2
    <3> QED BY <1>3, <3>1, <3>2
  <2>4. Says(c, k, n + i) = Says(b, k, i)
    <3>1. CASE is_flag(k) \/ b[i].form = "eq"
      BY <2>2, <3>1 DEF Says
    <3>2. CASE ~is_flag(k) /\ b[i].form # "eq"
      <4>1. Valued(b[i])
        BY <2>1, <3>2 DEF IsLast, IsAt, Dashed, Valued
      <4>2. i + 1 \in 1 .. Len(b)
        BY <4>1 DEF PairedUp
      <4>3. c[n + (i + 1)] = b[i + 1] /\ n + (i + 1) = (n + i) + 1
        BY <1>3, <4>2
      <4> QED BY <2>2, <3>2, <4>3 DEF Says
    <3> QED BY <3>1, <3>2
  <2>5. IsLast(c, k, n + i)
    BY <2>2, <2>3 DEF IsLast
  <2>6. Has(c, k)
    BY <1>3, <1>4
  <2>7. Reads(c, k, v)
    BY <2>1, <2>2, <2>4, <2>5, <2>6 DEF Reads
  <2> QED BY <2>7 DEF c
<1>5. CASE ~Has(b, k) /\ Has(a, k)
  <2>1. PICK i \in 1 .. n : IsLast(a, k, i) /\ v = Says(a, k, i)
    BY <1>5 DEF Reads
  <2>2. IsAt(c, k, i) /\ i \in 1 .. Len(c) /\ c[i] = a[i]
    BY <1>3, <2>1 DEF IsLast
  <2>3. ASSUME NEW j \in 1 .. Len(c), IsAt(c, k, j) PROVE j <= i
    <3>1. CASE j \in 1 .. n
      BY <1>3, <2>1, <2>3, <3>1 DEF IsLast
    <3>2. ASSUME NEW x \in 1 .. Len(b), j = n + x PROVE FALSE
      BY <1>3, <1>5, <2>3, <3>2 DEF Has
    <3> QED BY <1>3, <3>1, <3>2
  <2>4. Says(c, k, i) = Says(a, k, i)
    <3>1. CASE is_flag(k) \/ a[i].form = "eq"
      BY <2>2, <3>1 DEF Says
    <3>2. CASE ~is_flag(k) /\ a[i].form # "eq"
      <4>1. Valued(a[i])
        BY <2>1, <3>2 DEF IsLast, IsAt, Dashed, Valued
      <4>2. i + 1 \in 1 .. n
        BY <4>1 DEF PairedUp
      <4>3. c[i + 1] = a[i + 1]
        BY <1>3, <4>2
      <4> QED BY <2>2, <3>2, <4>3 DEF Says
    <3> QED BY <3>1, <3>2
  <2>5. IsLast(c, k, i)
    BY <2>2, <2>3 DEF IsLast
  <2>6. Has(c, k)
    BY <1>3, <1>5
  <2>7. Reads(c, k, v)
    BY <2>1, <2>2, <2>4, <2>5, <2>6 DEF Reads
  <2> QED BY <2>7 DEF c
<1>6. CASE ~Has(b, k) /\ ~Has(a, k)
  <2>1. v = Nothing /\ ~Has(c, k)
    BY <1>3, <1>6 DEF Reads
  <2>2. Reads(c, k, v)
    BY <2>1 DEF Reads
  <2> QED BY <2>2 DEF c
<1> QED BY <1>4, <1>5, <1>6

(* The beginnings of pieces that are joined.                                *)
Begins(g, s, S) ==
  /\ g[0] = <<>> /\ \A i \in 0 .. Len(s) : g[i] \in Seq(S)
  /\ \A i \in 1 .. Len(s) : g[i] = g[i - 1] \o s[i]
  /\ FlattenSeq(s) = g[Len(s)]

LEMMA BeginningsExist ==
  ASSUME NEW S, NEW s \in Seq(Seq(S))
  PROVE  \E g : Begins(g, s, S)
<1> DEFINE n == Len(s)
<1>1. n \in Nat /\ \A i \in 1 .. n : s[i] \in Seq(S)
  OBVIOUS
<1>2. CASE n = 0
  <2>1. s = <<>>
    BY <1>2
  <2>2. FlattenSeq(s) = <<>>
    BY <2>1 DEF FlattenSeq
  <2> DEFINE g == [i \in 0 .. 0 |-> <<>>]
  <2>3. g[0] = <<>> /\ \A i \in 0 .. Len(s) : g[i] \in Seq(S)
    BY <1>2
  <2>4. Begins(g, s, S)
    BY <1>2, <2>2, <2>3 DEF Begins
  <2> QED BY <2>4
<1>3. CASE n # 0
  <2>1. PICK g : IsFlattening(g, s) /\ FlattenSeq(s) = g[n]
    BY <1>1, <1>3, FlatteningExists
  <2> DEFINE h == [i \in 0 .. n |-> IF i = 0 THEN <<>> ELSE g[i]]
  <2>2. h[0] = <<>> /\ h[n] = g[n] /\ \A i \in 1 .. n : h[i] = g[i]
    BY <1>1, <1>3
  <2>3. \A i \in 1 .. n : g[i] = IF i = 1 THEN s[i] ELSE g[i - 1] \o s[i]
    BY <2>1 DEF IsFlattening
  <2> HIDE DEF h
  <2>4. \A i \in 1 .. n : h[i] = h[i - 1] \o s[i]
    <3> TAKE i \in 1 .. n
    <3>1. CASE i = 1
      <4>1. h[i] = s[i] /\ h[i - 1] = <<>> /\ s[i] \in Seq(S)
        BY <1>1, <2>2, <2>3, <3>1
      <4> QED BY <4>1
    <3>2. CASE i # 1
      <4>1. i - 1 \in 1 .. n
        BY <1>1, <3>2
      <4> QED BY <2>2, <2>3, <3>2, <4>1
    <3> QED BY <3>1, <3>2
  <2>5. \A i \in 0 .. n : h[i] \in Seq(S)
    <3> DEFINE U == {m \in Nat : m <= n => h[m] \in Seq(S)}
    <3>0. h[0] \in Seq(S)
      BY <2>2
    <3>1. 0 \in U
      BY <3>0
    <3>2. ASSUME NEW m \in Nat, m \in U PROVE m + 1 \in U
      <4> SUFFICES ASSUME m + 1 <= n PROVE h[m + 1] \in Seq(S)
        OBVIOUS
      <4>1. m <= n /\ m + 1 \in 1 .. n /\ (m + 1) - 1 = m
        BY <1>1
      <4>2. h[m + 1] = h[m] \o s[m + 1] /\ h[m] \in Seq(S) /\ s[m + 1] \in Seq(S)
        BY <1>1, <2>4, <3>2, <4>1
      <4> QED BY <4>2
    <3> HIDE DEF U
    <3>3. \A m \in Nat : m \in U
      BY <3>1, <3>2, Induction
    <3> QED BY <1>1, <3>3 DEF U
  <2>6. Begins(h, s, S)
    BY <2>1, <2>2, <2>4, <2>5 DEF Begins
  <2> QED BY <2>6
<1> QED BY <1>2, <1>3

LEMMA PiecesPaired ==
  ASSUME NEW S, NEW s \in Seq(Seq(S)), \A i \in 1 .. Len(s) : PairedUp(s[i])
  PROVE  /\ FlattenSeq(s) \in Seq(S) /\ PairedUp(FlattenSeq(s))
         /\ NoStrays(FlattenSeq(s)) => \A i \in 1 .. Len(s) : NoStrays(s[i])
<1> DEFINE n == Len(s)
<1>0. n \in Nat /\ n \in 0 .. n /\ \A i \in 1 .. n : s[i] \in Seq(S)
  OBVIOUS
<1>1. PICK g : Begins(g, s, S)
  BY BeginningsExist
<1>2. /\ g[0] = <<>> /\ \A i \in 0 .. n : g[i] \in Seq(S)
      /\ \A i \in 1 .. n : g[i] = g[i - 1] \o s[i]
      /\ FlattenSeq(s) = g[n]
  BY <1>1 DEF Begins
<1> DEFINE P(m) == /\ PairedUp(g[m])
                   /\ NoStrays(g[m]) => \A i \in 1 .. m : NoStrays(s[i])
           U == {m \in Nat : m <= n => P(m)}
<1>3. 0 \in U
  <2>1. PairedUp(<<>>)
    BY DEF PairedUp
  <2> QED BY <1>2, <2>1
<1>4. ASSUME NEW m \in Nat, m \in U PROVE m + 1 \in U
  <2> SUFFICES ASSUME m + 1 <= n PROVE P(m + 1)
    OBVIOUS
  <2>1. m \in 0 .. n /\ m <= n /\ m + 1 \in 1 .. n /\ (m + 1) - 1 = m
    BY <1>0
  <2>2. P(m)
    BY <1>4, <2>1
  <2>3. g[m + 1] = g[m] \o s[m + 1] /\ g[m] \in Seq(S) /\ s[m + 1] \in Seq(S) /\ PairedUp(s[m + 1])
    BY <1>0, <1>2, <2>1
  <2>4. /\ PairedUp(g[m + 1])
        /\ NoStrays(g[m + 1]) => NoStrays(g[m]) /\ NoStrays(s[m + 1])
    BY <2>2, <2>3, BothPaired
  <2>5. \A i \in 1 .. (m + 1) : i \in 1 .. m \/ i = m + 1
    OBVIOUS
  <2> QED BY <2>2, <2>4, <2>5
<1> HIDE DEF U, P
<1>5. \A m \in Nat : m \in U
  BY <1>3, <1>4, Induction
<1>6. P(n)
  BY <1>0, <1>5 DEF U
<1> QED BY <1>0, <1>2, <1>6 DEF P

(* What joined pieces say of an option is what the last one that has it     *)
(* says.                                                                    *)
LEMMA PiecesRead ==
  ASSUME NEW S, NEW s \in Seq(Seq(S)), \A i \in 1 .. Len(s) : PairedUp(s[i]), NEW k
  PROVE  /\ Has(FlattenSeq(s), k) <=> \E i \in 1 .. Len(s) : Has(s[i], k)
         /\ \A i \in 1 .. Len(s) : \A v :
              Has(s[i], k) /\ Reads(s[i], k, v) /\ (\A j \in 1 .. Len(s) : j > i => ~Has(s[j], k))
                => Reads(FlattenSeq(s), k, v)
         /\ \A i \in 1 .. Len(s) :
              Once(s[i], k) /\ (\A j \in 1 .. Len(s) : j # i => ~Has(s[j], k))
                => Once(FlattenSeq(s), k)
<1> DEFINE n == Len(s)
<1>0. n \in Nat /\ n \in 0 .. n /\ \A i \in 1 .. n : s[i] \in Seq(S)
  OBVIOUS
<1>1. PICK g : Begins(g, s, S)
  BY BeginningsExist
<1>2. /\ g[0] = <<>> /\ \A i \in 0 .. n : g[i] \in Seq(S)
      /\ \A i \in 1 .. n : g[i] = g[i - 1] \o s[i]
      /\ FlattenSeq(s) = g[n]
  BY <1>1 DEF Begins
<1> DEFINE Had(m) == Has(g[m], k) <=> \E i \in 1 .. m : Has(s[i], k)
           Read(m) == \A i \in 1 .. m : \A v :
             Has(s[i], k) /\ Reads(s[i], k, v) /\ (\A j \in 1 .. m : j > i => ~Has(s[j], k))
               => Reads(g[m], k, v)
           Single(m) == \A i \in 1 .. m :
             Once(s[i], k) /\ (\A j \in 1 .. m : j # i => ~Has(s[j], k)) => Once(g[m], k)
           P(m) == PairedUp(g[m]) /\ Had(m) /\ Read(m) /\ Single(m)
           U == {m \in Nat : m <= n => P(m)}
<1>3. 0 \in U
  <2>1. PairedUp(<<>>) /\ ~Has(<<>>, k)
    BY DEF PairedUp, Has
  <2> QED BY <1>2, <2>1
<1>4. ASSUME NEW m \in Nat, m \in U PROVE m + 1 \in U
  <2> HIDE DEF P
  <2> SUFFICES ASSUME m + 1 <= n PROVE P(m + 1)
    OBVIOUS
  <2>1. m \in 0 .. n /\ m <= n /\ m + 1 \in 1 .. n /\ (m + 1) - 1 = m
    BY <1>0
  <2>2. P(m)
    BY <1>4, <2>1
  <2> USE DEF P
  <2>3. g[m + 1] = g[m] \o s[m + 1] /\ g[m] \in Seq(S) /\ s[m + 1] \in Seq(S) /\ PairedUp(s[m + 1])
    BY <1>0, <1>2, <2>1
  <2>4. PairedUp(g[m + 1])
    BY <2>2, <2>3, BothPaired
  <2>5. \A i \in 1 .. (m + 1) : i \in 1 .. m \/ i = m + 1
    OBVIOUS
  <2>6. \A i \in 1 .. m : i \in 1 .. (m + 1) /\ i # m + 1 /\ m + 1 > i
    OBVIOUS
  <2>7. m + 1 \in 1 .. (m + 1)
    OBVIOUS
  <2>8. /\ Has(g[m + 1], k) <=> Has(g[m], k) \/ Has(s[m + 1], k)
        /\ Once(g[m], k) /\ ~Has(s[m + 1], k) => Once(g[m + 1], k)
        /\ Once(s[m + 1], k) /\ ~Has(g[m], k) => Once(g[m + 1], k)
    BY <2>3, BothHave
  <2>9. Had(m + 1)
    BY <2>2, <2>5, <2>6, <2>7, <2>8
  <2>10. Single(m + 1)
    <3> SUFFICES ASSUME NEW i \in 1 .. (m + 1), Once(s[i], k),
                        \A j \in 1 .. (m + 1) : j # i => ~Has(s[j], k)
                 PROVE  Once(g[m + 1], k)
      OBVIOUS
    <3>1. CASE i = m + 1
      <4>1. ~Has(g[m], k)
        BY <2>2, <2>6, <3>1
      <4> QED BY <2>8, <3>1, <4>1
    <3>2. CASE i \in 1 .. m
      <4>1. Once(g[m], k)
        BY <2>2, <2>6, <3>2
      <4>2. ~Has(s[m + 1], k)
        BY <2>6, <2>7, <3>2
      <4> QED BY <2>8, <4>1, <4>2
    <3> QED BY <2>5, <3>1, <3>2
  <2>11. Read(m + 1)
    <3> SUFFICES ASSUME NEW i \in 1 .. (m + 1), NEW v, Has(s[i], k), Reads(s[i], k, v),
                        \A j \in 1 .. (m + 1) : j > i => ~Has(s[j], k)
                 PROVE  Reads(g[m + 1], k, v)
      OBVIOUS
    <3>1. IF Has(s[m + 1], k) THEN Reads(s[m + 1], k, v) ELSE Reads(g[m], k, v)
      <4>1. CASE i = m + 1
        BY <4>1
      <4>2. CASE i \in 1 .. m
        <5>1. ~Has(s[m + 1], k)
          BY <2>6, <2>7, <4>2
        <5>2. Reads(g[m], k, v)
          BY <2>2, <2>6, <4>2
        <5> QED BY <5>1, <5>2
      <4> QED BY <2>5, <4>1, <4>2
    <3>2. PairedUp(g[m]) /\ PairedUp(s[m + 1]) /\ g[m] \in Seq(S) /\ s[m + 1] \in Seq(S)
      BY <2>2, <2>3
    <3>3. Reads(g[m] \o s[m + 1], k, v)
      BY ONLY <3>1, <3>2, LaterIsRead
    <3> QED BY <2>3, <3>3
  <2> QED BY <2>4, <2>9, <2>10, <2>11
<1> HIDE DEF U, P
<1>5. \A m \in Nat : m \in U
  BY <1>3, <1>4, Induction
<1>6. P(n)
  BY <1>0, <1>5 DEF U
<1> QED BY <1>0, <1>2, <1>6 DEF P

(* What joined pieces end with.                                             *)
LEMMA PiecesEnd ==
  ASSUME NEW S, NEW s \in Seq(Seq(S)), NEW i \in 1 .. Len(s),
         \A j \in 1 .. Len(s) : j > i => s[j] = <<>>
  PROVE  \E p \in Seq(S) :
           /\ FlattenSeq(s) = p \o s[i]
           /\ (\A j \in 1 .. Len(s) : j < i => s[j] = <<>>) => p = <<>>
<1> DEFINE n == Len(s)
<1>0. n \in Nat /\ n \in 0 .. n /\ \A j \in 1 .. n : s[j] \in Seq(S)
  OBVIOUS
<1>1. PICK g : Begins(g, s, S)
  BY BeginningsExist
<1>2. /\ g[0] = <<>> /\ \A j \in 0 .. n : g[j] \in Seq(S)
      /\ \A j \in 1 .. n : g[j] = g[j - 1] \o s[j]
      /\ FlattenSeq(s) = g[n]
  BY <1>1 DEF Begins
<1> DEFINE P(m) == (\A j \in 1 .. m : s[j] = <<>>) => g[m] = <<>>
           U == {m \in Nat : m <= n => P(m)}
<1>3. 0 \in U
  BY <1>2
<1>4. ASSUME NEW m \in Nat, m \in U PROVE m + 1 \in U
  <2> SUFFICES ASSUME m + 1 <= n PROVE P(m + 1)
    OBVIOUS
  <2>1. m \in 0 .. n /\ m <= n /\ m + 1 \in 1 .. n /\ (m + 1) - 1 = m
    BY <1>0
  <2>2. P(m)
    BY <1>4, <2>1
  <2> DEFINE a == g[m]
             b == s[m + 1]
  <2>3. g[m + 1] = a \o b /\ a \in Seq(S) /\ b \in Seq(S)
    BY <1>0, <1>2, <2>1
  <2>4. \A j \in 1 .. m : j \in 1 .. (m + 1)
    OBVIOUS
  <2>5. m + 1 \in 1 .. (m + 1)
    OBVIOUS
  <2>6. (\A j \in 1 .. (m + 1) : s[j] = <<>>) => a = <<>> /\ b = <<>>
    BY <2>2, <2>4, <2>5
  <2> HIDE DEF a, b
  <2>7. a = <<>> /\ b = <<>> => a \o b = <<>>
    BY <2>3
  <2> QED BY <2>3, <2>6, <2>7
<1> HIDE DEF P
<1>5. \A m \in 0 .. n : P(m)
  <2> HIDE DEF U
  <2>1. \A m \in Nat : m \in U
    BY <1>3, <1>4, Induction
  <2> QED BY <1>0, <2>1 DEF U
<1>6. ASSUME NEW m \in Nat, m >= i, m <= n PROVE g[m] = g[i]
  <2> DEFINE W == {x \in Nat : i + x <= n => g[i + x] = g[i]}
  <2>0. i \in Nat
    BY <1>0
  <2>1. 0 \in W
    BY <2>0
  <2>2. ASSUME NEW x \in Nat, x \in W PROVE x + 1 \in W
    <3> SUFFICES ASSUME i + (x + 1) <= n PROVE g[i + (x + 1)] = g[i]
      OBVIOUS
    <3>1. /\ i + x <= n /\ i + x \in 0 .. n /\ i + (x + 1) \in 1 .. n /\ i + (x + 1) > i
          /\ (i + (x + 1)) - 1 = i + x
      BY <1>0
    <3>2. g[i + (x + 1)] = g[i + x] \o s[i + (x + 1)] /\ s[i + (x + 1)] = <<>>
      BY <1>2, <3>1
    <3>3. g[i + x] \in Seq(S) /\ g[i + x] = g[i]
      BY <1>2, <2>2, <3>1
    <3>4. g[i + x] \o <<>> = g[i + x]
      BY <3>3
    <3> QED BY <3>2, <3>3, <3>4
  <2> HIDE DEF W
  <2>3. m - i \in W
    <3>1. \A x \in Nat : x \in W
      BY <2>1, <2>2, Induction
    <3> QED BY <1>6, <2>0, <3>1
  <2> QED BY <1>0, <1>6, <2>0, <2>3 DEF W
<1>7. /\ i - 1 \in 0 .. n /\ g[i] = g[i - 1] \o s[i] /\ g[n] = g[i] /\ g[i - 1] \in Seq(S)
      /\ \A j \in 1 .. (i - 1) : j \in 1 .. n /\ j < i
  <2>1. i - 1 \in 0 .. n /\ n >= i /\ n <= n /\ \A j \in 1 .. (i - 1) : j \in 1 .. n /\ j < i
    BY <1>0
  <2>2. g[n] = g[i]
    BY <1>0, <1>6, <2>1
  <2> QED BY <1>2, <2>1, <2>2
<1>8. P(i - 1)
  BY <1>5, <1>7
<1>9. (\A j \in 1 .. n : j < i => s[j] = <<>>) => g[i - 1] = <<>>
  BY <1>7, <1>8 DEF P
<1> QED BY <1>2, <1>7, <1>9

LEMMA NoPieces ==
  ASSUME NEW S, NEW s \in Seq(Seq(S)), \A j \in 1 .. Len(s) : s[j] = <<>>
  PROVE  FlattenSeq(s) = <<>>
<1>1. CASE Len(s) = 0
  <2>1. s = <<>>
    BY <1>1
  <2> QED BY <2>1 DEF FlattenSeq
<1>2. CASE Len(s) # 0
  <2>1. Len(s) \in 1 .. Len(s)
    BY <1>2
  <2>2. PICK p \in Seq(S) : FlattenSeq(s) = p \o s[Len(s)] /\ p = <<>>
    BY <2>1, PiecesEnd
  <2>3. s[Len(s)] = <<>>
    BY <2>1
  <2> QED BY <2>2, <2>3
<1> QED BY <1>1, <1>2

(* The least and the greatest of some numbers.                              *)
LEMMA LeastOf ==
  ASSUME NEW N \in SUBSET Nat, N # {}
  PROVE  Min(N) \in N /\ \A y \in N : Min(N) <= y
<1>1. \E x \in N : \A y \in N : x <= y
  <2> SUFFICES ASSUME \A x \in N : \E y \in N : ~(x <= y) PROVE FALSE
    OBVIOUS
  <2> DEFINE T == {n \in Nat : \A y \in N : n <= y}
  <2>1. 0 \in T
    OBVIOUS
  <2>2. ASSUME NEW n \in Nat, n \in T PROVE n + 1 \in T
    <3>1. \A y \in N : n <= y /\ y \in Nat
      BY <2>2
    <3>2. n \notin N
      BY <3>1
    <3>3. \A y \in N : y # n
      BY <3>2
    <3>4. \A y \in N : n + 1 <= y
      BY <3>1, <3>3
    <3> QED BY <3>4
  <2> HIDE DEF T
  <2>3. \A n \in Nat : n \in T
    BY <2>1, <2>2, Induction
  <2>4. PICK y \in N : TRUE
    OBVIOUS
  <2>5. y + 1 \in T /\ y \in Nat
    BY <2>3
  <2> QED BY <2>5 DEF T
<1> QED BY <1>1 DEF Min

LEMMA GreatestOf ==
  ASSUME NEW n \in Nat, NEW N \in SUBSET (1 .. n), N # {}
  PROVE  Max(N) \in N /\ \A y \in N : Max(N) >= y
<1> DEFINE U == {n - x : x \in N}
<1>1. U \in SUBSET Nat /\ U # {}
  <2>1. \A x \in N : n - x \in Nat
    OBVIOUS
  <2>2. PICK x \in N : TRUE
    OBVIOUS
  <2>3. n - x \in U
    OBVIOUS
  <2> QED BY <2>1, <2>3
<1>2. Min(U) \in U /\ \A y \in U : Min(U) <= y
  BY <1>1, LeastOf
<1>3. PICK x \in N : Min(U) = n - x
  BY <1>2
<1>4. \A y \in N : n - y \in U /\ y \in Nat /\ y <= n
  OBVIOUS
<1>5. \A y \in N : n - x <= n - y
  BY <1>2, <1>3, <1>4
<1> HIDE DEF U
<1>6. \A y \in N : x >= y
  BY <1>4, <1>5
<1> QED BY <1>6 DEF Max

(* Where units start.                                                       *)
LEMMA WhereUnitsStart ==
  ASSUME NEW argv, Len(argv) \in Nat, NEW size
  PROVE  /\ Starts(argv, size) \subseteq 1 .. Len(argv)
         /\ \A i \in 1 .. Len(argv) :
              i \in Starts(argv, size) <=> i = 1 \/ ~(i - 1 \in Starts(argv, size) /\ size[i - 1] = 2)
<1> DEFINE n == Len(argv)
           B == BOOLEAN
           F == [i \in 1 .. n |-> [b \in B |-> ~(b /\ size[i - 1] = 2)]]
           Is(start) == start = [i \in 1 .. n |-> i = 1 \/ ~(start[i - 1] /\ size[i - 1] = 2)]
<1>1. StepsOf(F, n, B)
  BY DEF StepsOf
<1>2. PICK f : Iterates(f, F, n, B, FALSE)
  <2>1. n \in Nat /\ FALSE \in B
    OBVIOUS
  <2> HIDE DEF F, n, B
  <2> QED BY <1>1, <2>1, RecursionExists
<1>3. f \in [0 .. n -> BOOLEAN] /\ f[0] = FALSE /\ \A i \in 1 .. n : f[i] = ~(f[i - 1] /\ size[i - 1] = 2)
  <2>1. f \in [0 .. n -> BOOLEAN] /\ f[0] = FALSE /\ \A i \in 1 .. n : f[i] = F[i][f[i - 1]]
    BY <1>2 DEF Iterates
  <2>2. \A i \in 1 .. n : i - 1 \in 0 .. n
    OBVIOUS
  <2> QED BY <2>1, <2>2
<1> HIDE DEF F
<1> DEFINE h == [i \in 1 .. n |-> f[i]]
<1>4. \A i \in 1 .. n : h[i] = (i = 1 \/ ~(h[i - 1] /\ size[i - 1] = 2))
  <2> TAKE i \in 1 .. n
  <2>1. CASE i = 1
    <3>1. h[i] = f[1] /\ f[1] = ~(f[1 - 1] /\ size[1 - 1] = 2) /\ 1 - 1 = 0
      BY <1>3, <2>1
    <3> QED BY <1>3, <2>1, <3>1
  <2>2. CASE i # 1
    <3>1. i - 1 \in 1 .. n
      BY <2>2
    <3> QED BY <1>3, <2>2, <3>1
  <2> QED BY <2>1, <2>2
<1>5. Is(h)
  <2>1. h = [i \in 1 .. n |-> h[i]]
    OBVIOUS
  <2> HIDE DEF h
  <2> QED BY <1>4, <2>1
<1> HIDE DEF h
<1> DEFINE start == CHOOSE start : Is(start)
<1>6. Is(start)
  BY <1>5
<1>7. Starts(argv, size) = {i \in 1 .. n : start[i]}
  BY DEF Starts
<1> HIDE DEF start
<1>8. \A i \in 1 .. n : start[i] <=> i = 1 \/ ~(start[i - 1] /\ size[i - 1] = 2)
  BY <1>6
<1>9. \A i \in 1 .. n : i # 1 => i - 1 \in 1 .. n
  OBVIOUS
<1> QED BY <1>7, <1>8, <1>9

(* The sizes of units, where each option has its value.                     *)
Sizes2(argv, size) == \A i \in 1 .. Len(argv) : size[i] = 2 <=> Valued(argv[i])

LEMMA PairedStarts ==
  ASSUME NEW S, NEW argv \in Seq(S), NEW size, PairedUp(argv), Sizes2(argv, size)
  PROVE  /\ Starts(argv, size) \subseteq 1 .. Len(argv)
         /\ \A i \in 1 .. Len(argv) :
              i \in Starts(argv, size) <=> i = 1 \/ ~Valued(argv[i - 1])
         /\ \A i \in 1 .. Len(argv) : Dashed(argv[i]) => i \in Starts(argv, size)
<1>1. Len(argv) \in Nat
  OBVIOUS
<1>2. /\ Starts(argv, size) \subseteq 1 .. Len(argv)
      /\ \A i \in 1 .. Len(argv) :
           i \in Starts(argv, size) <=> i = 1 \/ ~(i - 1 \in Starts(argv, size) /\ size[i - 1] = 2)
  BY <1>1, WhereUnitsStart
<1>3. \A i \in 1 .. Len(argv) : i # 1 => i - 1 \in 1 .. Len(argv) /\ (i - 1) + 1 = i
  BY <1>1
<1>4. \A i \in 1 .. Len(argv) : i # 1 /\ Valued(argv[i - 1]) => ~Dashed(argv[i])
  BY <1>3 DEF PairedUp
<1>5. \A i \in 1 .. Len(argv) : Valued(argv[i]) => Dashed(argv[i])
  BY DEF Valued, Dashed
<1>6. ASSUME NEW i \in 1 .. Len(argv) PROVE i \in Starts(argv, size) <=> i = 1 \/ ~Valued(argv[i - 1])
  <2>1. CASE i = 1
    BY <1>2, <2>1
  <2>2. CASE i # 1 /\ ~Valued(argv[i - 1])
    BY <1>2, <1>3, <2>2 DEF Sizes2
  <2>3. CASE i # 1 /\ Valued(argv[i - 1])
    <3>1. i - 1 \in 1 .. Len(argv) /\ size[i - 1] = 2 /\ Dashed(argv[i - 1])
      BY <1>3, <1>5, <2>3 DEF Sizes2
    <3>2. i - 1 = 1 \/ ~Valued(argv[(i - 1) - 1])
      BY <1>4, <3>1
    <3>3. i - 1 = 1 \/ ~(size[(i - 1) - 1] = 2)
      BY <1>3, <3>1, <3>2 DEF Sizes2
    <3>4. i - 1 \in Starts(argv, size)
      BY <1>2, <3>1, <3>3
    <3> QED BY <1>2, <2>3, <3>1, <3>4
  <2> QED BY <2>1, <2>2, <2>3
<1> QED BY <1>2, <1>4, <1>6

(* What is gathered, as pieces.                                             *)
Pieces(argv, size, positions) ==
  [i \in 1 .. Len(argv) |->
    IF i \in positions THEN (IF size[i] = 2 THEN <<argv[i], argv[i + 1]>> ELSE <<argv[i]>>) ELSE <<>>]

LEMMA GatheredIsPieces ==
  ASSUME NEW S, NEW argv \in Seq(S), NEW size, NEW positions,
         \A i \in 1 .. Len(argv) : size[i] = 2 => i + 1 \in 1 .. Len(argv)
  PROVE  /\ Gathered(UnitAt(argv, size), positions) = FlattenSeq(Pieces(argv, size, positions))
         /\ Pieces(argv, size, positions) \in Seq(Seq(S))
         /\ Len(Pieces(argv, size, positions)) = Len(argv)
<1>1. Len(argv) \in Nat /\ DOMAIN argv = 1 .. Len(argv) /\ \A i \in 1 .. Len(argv) : argv[i] \in S
  OBVIOUS
<1> DEFINE p == Pieces(argv, size, positions)
           u == UnitAt(argv, size)
<1>2. DOMAIN u = 1 .. Len(argv)
  BY <1>1 DEF UnitAt
<1>3. [i \in DOMAIN u |-> IF i \in positions THEN u[i] ELSE <<>>] = p
  BY <1>1, <1>2 DEF UnitAt, Pieces
<1>4. p \in [1 .. Len(argv) -> Seq(S)]
  <2> SUFFICES ASSUME NEW i \in 1 .. Len(argv) PROVE p[i] \in Seq(S)
    BY DEF Pieces
  <2>1. argv[i] \in S /\ (size[i] = 2 => argv[i + 1] \in S)
    BY <1>1
  <2>2. <<argv[i]>> \in Seq(S) /\ <<>> \in Seq(S) /\ (size[i] = 2 => <<argv[i], argv[i + 1]>> \in Seq(S))
    BY <2>1
  <2> QED BY <2>2 DEF Pieces
<1> HIDE DEF p
<1>5. p \in Seq(Seq(S)) /\ Len(p) = Len(argv)
  BY <1>1, <1>4, FunctionIsSequence
<1>6. Gathered(u, positions) = FlattenSeq(p)
  BY <1>3 DEF Gathered
<1> QED BY <1>5, <1>6 DEF p

(* What a unit says, and what units gathered from a list say.               *)
LEMMA UnitSays ==
  ASSUME NEW S, NEW argv \in Seq(S), NEW size, PairedUp(argv), Sizes2(argv, size), NEW positions,
         NEW i \in 1 .. Len(argv), NEW p, p = Pieces(argv, size, positions)[i]
  PROVE  /\ PairedUp(p)
         /\ \A k : Has(p, k) <=> i \in positions /\ IsAt(argv, k, i)
         /\ \A k : Once(p, k)
         /\ \A k : i \in positions /\ IsAt(argv, k, i) => Reads(p, k, Says(argv, k, i))
         /\ i \in positions /\ ~Dashed(argv[i]) => ~NoStrays(p)
<1>1. p = IF i \in positions
          THEN (IF Valued(argv[i]) THEN <<argv[i], argv[i + 1]>> ELSE <<argv[i]>>) ELSE <<>>
  BY DEF Pieces, Sizes2
<1>2. CASE i \notin positions
  <2>1. p = <<>> /\ Len(p) = 0
    BY <1>1, <1>2
  <2> QED BY <1>2, <2>1 DEF PairedUp, Has, Once
<1>3. CASE i \in positions /\ ~Valued(argv[i])
  <2>1. p = <<argv[i]>> /\ Len(p) = 1 /\ p[1] = argv[i]
    BY <1>1, <1>3
  <2>2. PairedUp(p)
    BY <1>3, <2>1 DEF PairedUp
  <2>3. \A k : IsAt(p, k, 1) <=> IsAt(argv, k, i)
    BY <2>1 DEF IsAt
  <2>4. \A k : Has(p, k) <=> IsAt(argv, k, i)
    BY <2>1, <2>3 DEF Has
  <2>5. \A k : Once(p, k)
    BY <2>1 DEF Once
  <2>6. ASSUME NEW k, IsAt(argv, k, i) PROVE Reads(p, k, Says(argv, k, i))
    <3>1. Has(p, k) /\ IsLast(p, k, 1)
      BY <2>1, <2>3, <2>4, <2>6 DEF IsLast
    <3>2. Says(p, k, 1) = Says(argv, k, i)
      BY <1>3, <2>1, <2>6 DEF Says, IsAt, Valued, Dashed
    <3> QED BY <2>1, <3>1, <3>2 DEF Reads
  <2>7. ~Dashed(argv[i]) => ~NoStrays(p)
    BY <2>1 DEF NoStrays, Stray
  <2> QED BY <1>3, <2>2, <2>4, <2>5, <2>6, <2>7
<1>4. CASE i \in positions /\ Valued(argv[i])
  <2>1. p = <<argv[i], argv[i + 1]>> /\ Len(p) = 2 /\ p[1] = argv[i] /\ p[2] = argv[i + 1]
    BY <1>1, <1>4
  <2>2. Dashed(p[1]) /\ ~Dashed(p[2]) /\ ~Valued(p[2]) /\ \A j \in 1 .. Len(p) : j = 1 \/ j = 2
    BY <1>4, <2>1 DEF PairedUp, Valued, Dashed
  <2>3. PairedUp(p)
    BY <2>1, <2>2 DEF PairedUp
  <2>4. \A k : (IsAt(p, k, 1) <=> IsAt(argv, k, i)) /\ ~IsAt(p, k, 2)
    BY <2>1, <2>2 DEF IsAt
  <2>5. \A k : Has(p, k) <=> IsAt(argv, k, i)
    BY <2>1, <2>2, <2>4 DEF Has
  <2>6. \A k : Once(p, k)
    BY <2>2, <2>4 DEF Once
  <2>7. ASSUME NEW k, IsAt(argv, k, i) PROVE Reads(p, k, Says(argv, k, i))
    <3>1. Has(p, k) /\ IsLast(p, k, 1)
      BY <2>2, <2>4, <2>5, <2>7 DEF IsLast
    <3>2. Says(p, k, 1) = Says(argv, k, i)
      BY <2>1 DEF Says
    <3> QED BY <2>1, <3>1, <3>2 DEF Reads
  <2>8. Dashed(argv[i])
    BY <1>4 DEF Valued, Dashed
  <2> QED BY <1>4, <2>3, <2>5, <2>6, <2>7, <2>8
<1> QED BY <1>2, <1>3, <1>4

LEMMA GatheredSays ==
  ASSUME NEW S, NEW argv \in Seq(S), NEW size, PairedUp(argv), Sizes2(argv, size), NEW positions,
         NEW D, D = Gathered(UnitAt(argv, size), positions)
  PROVE  /\ D \in Seq(S) /\ PairedUp(D)
         /\ NoStrays(D) => \A i \in 1 .. Len(argv) : i \in positions => Dashed(argv[i])
         /\ \A k : Has(D, k) <=> \E i \in 1 .. Len(argv) : i \in positions /\ IsAt(argv, k, i)
         /\ \A k : \A i \in 1 .. Len(argv) :
              i \in positions /\ IsLast(argv, k, i) => Reads(D, k, Says(argv, k, i))
         /\ \A k : \A i \in 1 .. Len(argv) :
              (\A j \in 1 .. Len(argv) : j \in positions /\ IsAt(argv, k, j) => j = i) => Once(D, k)
<1>0. Len(argv) \in Nat
  OBVIOUS
<1> DEFINE s == Pieces(argv, size, positions)
<1>1. D = FlattenSeq(s) /\ s \in Seq(Seq(S)) /\ Len(s) = Len(argv)
  <2>1. \A i \in 1 .. Len(argv) : size[i] = 2 => i + 1 \in 1 .. Len(argv)
    BY DEF PairedUp, Sizes2
  <2> QED BY <2>1, GatheredIsPieces
<1>2. ASSUME NEW i \in 1 .. Len(argv)
      PROVE  /\ PairedUp(s[i])
             /\ \A k : Has(s[i], k) <=> i \in positions /\ IsAt(argv, k, i)
             /\ \A k : Once(s[i], k)
             /\ \A k : i \in positions /\ IsAt(argv, k, i) => Reads(s[i], k, Says(argv, k, i))
             /\ i \in positions /\ ~Dashed(argv[i]) => ~NoStrays(s[i])
  BY UnitSays
<1> HIDE DEF s
<1>3. \A i \in 1 .. Len(s) : PairedUp(s[i])
  BY <1>1, <1>2
<1>4. D \in Seq(S) /\ PairedUp(D) /\ (NoStrays(D) => \A i \in 1 .. Len(s) : NoStrays(s[i]))
  BY <1>1, <1>3, PiecesPaired
<1>5. NoStrays(D) => \A i \in 1 .. Len(argv) : i \in positions => Dashed(argv[i])
  BY <1>1, <1>2, <1>4
<1>6. ASSUME NEW k
      PROVE  /\ Has(D, k) <=> \E i \in 1 .. Len(argv) : i \in positions /\ IsAt(argv, k, i)
             /\ \A i \in 1 .. Len(argv) :
                  i \in positions /\ IsLast(argv, k, i) => Reads(D, k, Says(argv, k, i))
             /\ \A i \in 1 .. Len(argv) :
                  (\A j \in 1 .. Len(argv) : j \in positions /\ IsAt(argv, k, j) => j = i) => Once(D, k)
  <2>1. /\ Has(D, k) <=> \E i \in 1 .. Len(s) : Has(s[i], k)
        /\ \A i \in 1 .. Len(s) : \A v :
             Has(s[i], k) /\ Reads(s[i], k, v) /\ (\A j \in 1 .. Len(s) : j > i => ~Has(s[j], k))
               => Reads(D, k, v)
        /\ \A i \in 1 .. Len(s) :
             Once(s[i], k) /\ (\A j \in 1 .. Len(s) : j # i => ~Has(s[j], k)) => Once(D, k)
    BY <1>1, <1>3, PiecesRead
  <2>2. Has(D, k) <=> \E i \in 1 .. Len(argv) : i \in positions /\ IsAt(argv, k, i)
    BY <1>1, <1>2, <2>1
  <2>3. ASSUME NEW i \in 1 .. Len(argv), i \in positions, IsLast(argv, k, i)
        PROVE  Reads(D, k, Says(argv, k, i))
    <3>1. IsAt(argv, k, i) /\ \A j \in 1 .. Len(argv) : j > i => ~IsAt(argv, k, j)
      BY <1>0, <2>3 DEF IsLast
    <3>2. Has(s[i], k) /\ Reads(s[i], k, Says(argv, k, i)) /\ \A j \in 1 .. Len(s) : j > i => ~Has(s[j], k)
      BY <1>1, <1>2, <2>3, <3>1
    <3> QED BY <1>1, <2>1, <3>2
  <2>4. ASSUME NEW i \in 1 .. Len(argv), \A j \in 1 .. Len(argv) : j \in positions /\ IsAt(argv, k, j) => j = i
        PROVE  Once(D, k)
    <3>1. Once(s[i], k) /\ \A j \in 1 .. Len(s) : j # i => ~Has(s[j], k)
      BY <1>1, <1>2, <2>4
    <3> QED BY <1>1, <2>1, <3>1
  <2> QED BY <2>2, <2>3, <2>4
<1> QED BY <1>4, <1>5, <1>6

(* The last of the units with one key is what remains.                      *)
LEMMA DedupedSays ==
  ASSUME NEW S, NEW argv \in Seq(S), PairedUp(argv), NEW D, D = dedupe_argv_last_wins(argv)
  PROVE  /\ D \in Seq(S) /\ PairedUp(D) /\ (NoStrays(D) => NoStrays(argv))
         /\ \A k : Once(D, k) /\ \A v : Reads(argv, k, v) => Reads(D, k, v)
<1> DEFINE n == Len(argv)
           size == [i \in DOMAIN argv |->
                      IF argv[i].form = "key" /\ ~is_flag(argv[i].key) /\ i < Len(argv) THEN 2 ELSE 1]
           starts == Starts(argv, size)
           over == {p \in (DOMAIN argv) \X (DOMAIN argv) : p[1] < p[2]}
           kept == {i \in starts : ~ \E j \in starts :
                      /\ <<i, j>> \in over /\ Dashed(argv[i]) /\ Dashed(argv[j])
                      /\ argv[i].key = argv[j].key}
<1>0. n \in Nat /\ DOMAIN argv = 1 .. n
  OBVIOUS
<1>1. D = Gathered(UnitAt(argv, size), kept)
  BY DEF dedupe_argv_last_wins, Deduped
<1>2. Sizes2(argv, size)
  <2> SUFFICES ASSUME NEW i \in 1 .. n PROVE size[i] = 2 <=> Valued(argv[i])
    BY DEF Sizes2
  <2>1. Valued(argv[i]) => i < n
    BY <1>0 DEF PairedUp
  <2> QED BY <1>0, <2>1 DEF Valued
<1> HIDE DEF size
<1>3. /\ starts \subseteq 1 .. n /\ \A i \in 1 .. n : i \in starts <=> i = 1 \/ ~Valued(argv[i - 1])
      /\ \A i \in 1 .. n : Dashed(argv[i]) => i \in starts
  BY <1>2, PairedStarts
<1> HIDE DEF starts
<1>4. \A i \in 1 .. n : \A j \in 1 .. n : <<i, j>> \in over <=> i < j
  BY <1>0
<1> HIDE DEF over
<1>5. \A i \in 1 .. n : ~Dashed(argv[i]) /\ i \in starts => i \in kept
  OBVIOUS
<1>6. ASSUME NEW k, NEW i \in 1 .. n, IsAt(argv, k, i), i \in kept PROVE IsLast(argv, k, i)
  <2> SUFFICES ASSUME NEW j \in 1 .. n, IsAt(argv, k, j), j > i PROVE FALSE
    BY <1>0, <1>6 DEF IsLast
  <2>1. /\ Dashed(argv[i]) /\ Dashed(argv[j]) /\ argv[i].key = argv[j].key
        /\ i \in starts /\ j \in starts /\ <<i, j>> \in over
    BY <1>0, <1>3, <1>4, <1>6 DEF IsAt
  <2> QED BY <1>6, <2>1
<1>7. ASSUME NEW k, NEW i \in 1 .. n, IsLast(argv, k, i) PROVE i \in kept
  <2> SUFFICES ASSUME i \notin kept PROVE FALSE
    OBVIOUS
  <2>1. Dashed(argv[i]) /\ argv[i].key = k /\ i \in starts
    BY <1>3, <1>7 DEF IsLast, IsAt
  <2>2. PICK j \in starts : <<i, j>> \in over /\ Dashed(argv[j]) /\ argv[i].key = argv[j].key
    BY <2>1
  <2>3. j \in 1 .. n /\ i < j /\ IsAt(argv, k, j)
    BY <1>3, <1>4, <2>1, <2>2 DEF IsAt
  <2> QED BY <1>0, <1>7, <2>3 DEF IsLast
<1> HIDE DEF kept
<1>8. /\ D \in Seq(S) /\ PairedUp(D)
      /\ NoStrays(D) => \A i \in 1 .. n : i \in kept => Dashed(argv[i])
      /\ \A k : Has(D, k) <=> \E i \in 1 .. n : i \in kept /\ IsAt(argv, k, i)
      /\ \A k : \A i \in 1 .. n : i \in kept /\ IsLast(argv, k, i) => Reads(D, k, Says(argv, k, i))
      /\ \A k : \A i \in 1 .. n :
           (\A j \in 1 .. n : j \in kept /\ IsAt(argv, k, j) => j = i) => Once(D, k)
  BY <1>1, <1>2, GatheredSays
<1>9. NoStrays(D) => NoStrays(argv)
  BY <1>3, <1>5, <1>8 DEF NoStrays, Stray
<1>10. ASSUME NEW k PROVE Once(D, k) /\ \A v : Reads(argv, k, v) => Reads(D, k, v)
  <2>1. CASE Has(D, k)
    <3>1. PICK i \in 1 .. n : i \in kept /\ IsAt(argv, k, i)
      BY <1>8, <2>1
    <3>2. IsLast(argv, k, i)
      BY <1>6, <3>1
    <3>3. ASSUME NEW j \in 1 .. n, IsLast(argv, k, j) PROVE j = i
      BY <1>0, <3>2, <3>3 DEF IsLast
    <3>4. Once(D, k)
      BY <1>6, <1>8, <3>3
    <3>5. Has(argv, k)
      BY <3>1 DEF Has
    <3>6. ASSUME NEW v, Reads(argv, k, v) PROVE Reads(D, k, v)
      <4>1. v = Says(argv, k, i)
        BY <3>3, <3>5, <3>6 DEF Reads
      <4> QED BY <1>8, <3>1, <3>2, <4>1
    <3> QED BY <3>4, <3>6
  <2>2. CASE ~Has(D, k)
    <3>1. Once(D, k)
      BY <2>2 DEF Once, Has
    <3>2. ASSUME NEW v, Reads(argv, k, v) PROVE Reads(D, k, v)
      <4>1. ~Has(argv, k)
        BY <1>7, <1>8, <2>2, <3>2 DEF Reads, IsLast
      <4> QED BY <2>2, <3>2, <4>1 DEF Reads
    <3> QED BY <3>1, <3>2
  <2> QED BY <2>1, <2>2
<1> QED BY <1>8, <1>9, <1>10

(* What the parser takes of an option that stands once.                     *)
LEMMA TakenAre ==
  ASSUME NEW S, NEW D \in Seq(S), PairedUp(D), NEW k, NEW i \in Taken(D, k)
  PROVE  /\ i \in 1 .. Len(D)
         /\ \/ IsAt(D, k, i) /\ (D[i].form = "key" \/ ~is_flag(k))
            \/ i # 1 /\ Valued(D[i - 1]) /\ ~Dashed(D[i])
<1> DEFINE is == {x \in Occurrences(D, k) : D[x].form = "key" \/ ~is_flag(k)}
           m == Min(is)
<1>0. Len(D) \in Nat /\ DOMAIN D = 1 .. Len(D)
  OBVIOUS
<1>1. is # {} /\ (i = m \/ (~is_flag(k) /\ D[m].form # "eq" /\ i = m + 1))
  BY DEF Taken
<1>2. is \in SUBSET Nat /\ \A x \in is : IsAt(D, k, x) /\ (D[x].form = "key" \/ ~is_flag(k))
  BY <1>0 DEF Occurrences, IsAt
<1> HIDE DEF is
<1>3. m \in is
  BY <1>1, <1>2, LeastOf
<1>4. IsAt(D, k, m) /\ (D[m].form = "key" \/ ~is_flag(k))
  BY <1>2, <1>3
<1> HIDE DEF m
<1>5. CASE i = m
  BY <1>4, <1>5 DEF IsAt
<1>6. CASE ~is_flag(k) /\ D[m].form # "eq" /\ i = m + 1
  <2>1. Valued(D[m]) /\ m \in 1 .. Len(D)
    BY <1>4, <1>6 DEF IsAt, Dashed, Valued
  <2>2. i \in 1 .. Len(D) /\ ~Dashed(D[i]) /\ i # 1 /\ i - 1 = m
    BY <1>0, <1>6, <2>1 DEF PairedUp
  <2> QED BY <2>1, <2>2
<1> QED BY <1>1, <1>5, <1>6

LEMMA ValueRead ==
  ASSUME NEW S, NEW D \in Seq(S), PairedUp(D), NEW k, Once(D, k),
         \A i \in 1 .. Len(D) : IsAt(D, k, i) => D[i].form = "key" \/ ~is_flag(k)
  PROVE  Reads(D, k, ValueOf(D, k))
<1> DEFINE is == {x \in Occurrences(D, k) : D[x].form = "key" \/ ~is_flag(k)}
<1>0. Len(D) \in Nat /\ DOMAIN D = 1 .. Len(D)
  OBVIOUS
<1>1. is = {x \in 1 .. Len(D) : IsAt(D, k, x)}
  BY <1>0 DEF Occurrences, IsAt
<1>2. CASE Has(D, k)
  <2>1. PICK i \in 1 .. Len(D) : IsAt(D, k, i)
    BY <1>2 DEF Has
  <2>2. is = {i} /\ IsLast(D, k, i)
    BY <1>0, <1>1, <2>1 DEF Once, IsLast
  <2>3. Min({i}) = i
    <3>1. {i} \in SUBSET Nat /\ {i} # {}
      BY <1>0
    <3> QED BY <3>1, LeastOf
  <2>4. Taken(D, k) = IF is_flag(k) \/ D[i].form = "eq" THEN {i} ELSE {i, i + 1}
    BY <2>2, <2>3 DEF Taken
  <2>5. Min(Taken(D, k)) = i /\ Taken(D, k) # {}
    <3>1. Min({i, i + 1}) = i
      <4>1. {i, i + 1} \in SUBSET Nat /\ {i, i + 1} # {} /\ ~(i + 1 <= i) /\ i \in Nat
        BY <1>0
      <4> DEFINE N == {i, i + 1}
      <4> HIDE DEF N
      <4>2. Min(N) \in N /\ \A y \in N : Min(N) <= y
        BY <4>1, LeastOf DEF N
      <4>3. i \in N /\ (Min(N) = i \/ Min(N) = i + 1)
        BY <4>2 DEF N
      <4> QED BY <4>1, <4>2, <4>3 DEF N
    <3> QED BY <2>3, <2>4, <3>1
  <2>6. ValueOf(D, k) = Says(D, k, i)
    <3>1. CASE is_flag(k)
      BY <2>5, <3>1 DEF ValueOf, Says
    <3>2. CASE ~is_flag(k) /\ D[i].form = "eq"
      BY <2>5, <3>2 DEF ValueOf, Says
    <3>3. CASE ~is_flag(k) /\ D[i].form # "eq"
      <4>1. Valued(D[i])
        BY <2>1, <3>3 DEF IsAt, Dashed, Valued
      <4>2. i < Len(D) /\ ~Dashed(D[i + 1])
        BY <1>0, <4>1 DEF PairedUp
      <4> QED BY <2>5, <3>3, <4>2 DEF ValueOf, Says
    <3> QED BY <3>1, <3>2, <3>3
  <2> QED BY <1>2, <2>2, <2>6 DEF Reads
<1>3. CASE ~Has(D, k)
  <2>1. is = {}
    BY <1>1, <1>3 DEF Has
  <2>2. Taken(D, k) = {}
    BY <2>1 DEF Taken
  <2>3. ValueOf(D, k) = Nothing
    BY <2>2 DEF ValueOf
  <2> QED BY <1>3, <2>3 DEF Reads
<1> QED BY <1>2, <1>3

(* An accepted list: every word belongs to an option, and the setting of    *)
(* each is what the list says.                                              *)
LEMMA ParsedReads ==
  ASSUME NEW S, NEW D \in Seq(S), PairedUp(D), NEW options, Parsed(D, options).ok
  PROVE  /\ NoStrays(D)
         /\ \A k \in options : /\ Once(D, k) => Reads(D, k, Parsed(D, options).settings[k])
                               /\ Parsed(D, options).settings[k] \in Accepts[k] \cup {Nothing}
<1>0. Len(D) \in Nat /\ DOMAIN D = 1 .. Len(D)
  OBVIOUS
<1>1. /\ \A i \in 1 .. Len(D) : \E k \in options : i \in Taken(D, k)
      /\ \A k \in options : ValueOf(D, k) \in Accepts[k] \cup {Nothing}
      /\ \A k \in options : Parsed(D, options).settings[k] = ValueOf(D, k)
  BY <1>0 DEF Parsed
<1>2. ASSUME NEW k, NEW i \in Taken(D, k)
      PROVE  /\ i \in 1 .. Len(D)
             /\ \/ IsAt(D, k, i) /\ (D[i].form = "key" \/ ~is_flag(k))
                \/ i # 1 /\ Valued(D[i - 1]) /\ ~Dashed(D[i])
  BY TakenAre
<1>3. NoStrays(D)
  <2> SUFFICES ASSUME NEW i \in 1 .. Len(D), Stray(D, i) PROVE FALSE
    BY DEF NoStrays
  <2>1. PICK k \in options : i \in Taken(D, k)
    BY <1>1
  <2>2. (IsAt(D, k, i)) \/ (i # 1 /\ Valued(D[i - 1]))
    BY <1>2, <2>1
  <2> QED BY <2>2 DEF Stray, IsAt
<1>4. ASSUME NEW k \in options, Once(D, k) PROVE Reads(D, k, ValueOf(D, k))
  <2>1. ASSUME NEW i \in 1 .. Len(D), IsAt(D, k, i) PROVE D[i].form = "key" \/ ~is_flag(k)
    <3>1. PICK x \in options : i \in Taken(D, x)
      BY <1>1
    <3>2. \/ IsAt(D, x, i) /\ (D[i].form = "key" \/ ~is_flag(x))
          \/ ~Dashed(D[i])
      BY <1>2, <3>1
    <3> QED BY <2>1, <3>2 DEF IsAt
  <2> QED BY <1>4, <2>1, ValueRead
<1> QED BY <1>1, <1>3, <1>4

LEMMA ReadsOne ==
  ASSUME NEW a, Len(a) \in Nat, NEW k, NEW v, NEW w, Reads(a, k, v), Reads(a, k, w)
  PROVE  v = w
<1>1. CASE Has(a, k)
  <2>1. PICK i \in 1 .. Len(a) : IsLast(a, k, i) /\ v = Says(a, k, i)
    BY <1>1 DEF Reads
  <2>2. PICK j \in 1 .. Len(a) : IsLast(a, k, j) /\ w = Says(a, k, j)
    BY <1>1 DEF Reads
  <2>3. i = j
    BY <2>1, <2>2 DEF IsLast
  <2> QED BY <2>1, <2>2, <2>3
<1>2. CASE ~Has(a, k)
  BY <1>2 DEF Reads
<1> QED BY <1>1, <1>2

LEMMA TokensAre ==
  ASSUME NEW t \in Tokens
  PROVE  /\ t.form \in {"key", "eq", "word"}
         /\ t.form # "key" => t.value \in Values
         /\ Dashed(t) => t.key \in Keys
BY DEF Tokens, Key, Eq, Word, Dashed

(* What is said is something.                                               *)
LEMMA SaysSomething ==
  ASSUME NEW a \in Seq(Tokens), PairedUp(a), NEW k, NEW v, Reads(a, k, v)
  PROVE  Has(a, k) <=> v # Nothing
<1>1. CASE Has(a, k)
  <2>1. PICK i \in 1 .. Len(a) : IsLast(a, k, i) /\ v = Says(a, k, i)
    BY <1>1 DEF Reads
  <2>2. a[i] \in Tokens /\ IsAt(a, k, i)
    BY <2>1 DEF IsLast
  <2>3. CASE is_flag(k)
    BY <1>1, <2>1, <2>3 DEF Says, Nothing
  <2>4. CASE ~is_flag(k) /\ a[i].form = "eq"
    <3>1. v \in Values
      BY <2>1, <2>2, <2>4, TokensAre DEF Says
    <3> QED BY <1>1, <3>1, ArgumentsAssumption
  <2>5. CASE ~is_flag(k) /\ a[i].form # "eq"
    <3>1. Valued(a[i])
      BY <2>2, <2>5 DEF IsAt, Dashed, Valued
    <3>2. i + 1 \in 1 .. Len(a) /\ ~Dashed(a[i + 1])
      BY <3>1 DEF PairedUp
    <3>3. a[i + 1] \in Tokens
      BY <3>2
    <3>4. a[i + 1].value \in Values
      BY <3>2, <3>3, TokensAre DEF Dashed
    <3>5. v \in Values
      BY <2>1, <2>5, <3>4 DEF Says
    <3> QED BY <1>1, <3>5, ArgumentsAssumption
  <2> QED BY <2>3, <2>4, <2>5
<1>2. CASE ~Has(a, k)
  BY <1>2 DEF Reads
<1> QED BY <1>1, <1>2

(* The operator's reading of the command line.                              *)
LEMMA CommandLineReads ==
  ASSUME Len(input.cli) \in Nat, DOMAIN input.cli = 1 .. Len(input.cli), NEW k
  PROVE  Reads(input.cli, k, OnCommandLine(k))
<1> DEFINE a == input.cli
           is == Occurrences(a, k)
<1>1. is = {i \in 1 .. Len(a) : IsAt(a, k, i)}
  BY DEF Occurrences, IsAt
<1>2. CASE is = {}
  <2>1. ~Has(a, k) /\ OnCommandLine(k) = Nothing
    BY <1>1, <1>2 DEF Has, OnCommandLine
  <2> QED BY <2>1 DEF Reads
<1>3. CASE is # {}
  <2>1. is \in SUBSET (1 .. Len(a))
    BY <1>1
  <2> DEFINE m == Max(is)
  <2>2. m \in is /\ \A j \in is : m >= j
    BY <1>3, <2>1, GreatestOf
  <2>3. OnCommandLine(k) = IF is_flag(k) THEN "on" ELSE IF a[m].form = "eq" THEN a[m].value
                           ELSE a[m + 1].value
    BY <1>3 DEF OnCommandLine
  <2>4. OnCommandLine(k) = Says(a, k, m)
    BY <2>3 DEF Says
  <2> HIDE DEF m
  <2>5. m \in 1 .. Len(a) /\ IsAt(a, k, m) /\ Has(a, k)
    BY <1>1, <2>2 DEF Has
  <2>6. IsLast(a, k, m)
    <3>1. \A j \in 1 .. Len(a) : IsAt(a, k, j) => j <= m
      <4> TAKE j \in 1 .. Len(a)
      <4> HAVE IsAt(a, k, j)
      <4>1. j \in is
        BY <1>1
      <4> QED BY <2>2, <2>5, <4>1
    <3> QED BY <2>5, <3>1 DEF IsLast
  <2> QED BY <2>4, <2>5, <2>6 DEF Reads
<1> QED BY <1>2, <1>3

(* An option and a word.                                                    *)
LEMMA KeyAndWord ==
  ASSUME NEW k \in Keys, NEW w \in Values, NEW p, p = <<Key(k), Word(w)>>
  PROVE  /\ p \in Seq(Tokens) /\ PairedUp(p) /\ \A x : Has(p, x) <=> x = k
         /\ ~is_flag(k) => Reads(p, k, w)
         /\ is_flag(k) => ~NoStrays(p)
<1>1. Key(k) \in Tokens /\ Word(w) \in Tokens
  BY DEF Tokens
<1>2. /\ p \in Seq(Tokens) /\ Len(p) = 2 /\ p[1] = Key(k) /\ p[2] = Word(w)
      /\ \A i \in 1 .. Len(p) : i = 1 \/ i = 2
      /\ 1 \in 1 .. Len(p) /\ 2 \in 1 .. Len(p) /\ 1 + 1 = 2 /\ 2 - 1 = 1 /\ 2 # 1
  BY <1>1
<1>3. /\ Dashed(p[1]) /\ p[1].form = "key" /\ p[1].key = k
      /\ ~Dashed(p[2]) /\ ~Valued(p[2]) /\ p[2].value = w
  BY <1>2 DEF Key, Word, Dashed, Valued
<1>4. PairedUp(p)
  BY <1>2, <1>3 DEF PairedUp
<1>5. \A x : (IsAt(p, x, 1) <=> x = k) /\ ~IsAt(p, x, 2)
  BY <1>2, <1>3 DEF IsAt
<1>6. \A x : Has(p, x) <=> x = k
  BY <1>2, <1>5 DEF Has
<1>7. ~is_flag(k) => Reads(p, k, w)
  <2> HAVE ~is_flag(k)
  <2>1. Says(p, k, 1) = w
    BY <1>2, <1>3 DEF Says
  <2>2. IsLast(p, k, 1)
    BY <1>2, <1>5 DEF IsLast
  <2> QED BY <1>2, <1>6, <2>1, <2>2 DEF Reads
<1>8. is_flag(k) => ~NoStrays(p)
  BY <1>2, <1>3 DEF NoStrays, Stray, Valued
<1> QED BY <1>2, <1>4, <1>6, <1>7, <1>8

LEMMA FlagAlone ==
  ASSUME NEW k \in Keys, is_flag(k), NEW p, p = <<Key(k)>>
  PROVE  p \in Seq(Tokens) /\ PairedUp(p) /\ (\A x : Has(p, x) <=> x = k) /\ Reads(p, k, "on")
<1>1. Key(k) \in Tokens
  BY DEF Tokens
<1>2. p \in Seq(Tokens) /\ Len(p) = 1 /\ p[1] = Key(k) /\ 1 \in 1 .. Len(p) /\ \A i \in 1 .. Len(p) : i = 1
  BY <1>1
<1>3. Dashed(p[1]) /\ p[1].key = k /\ ~Valued(p[1])
  BY <1>2 DEF Key, Dashed, Valued
<1>4. PairedUp(p)
  BY <1>2, <1>3 DEF PairedUp
<1>5. \A x : IsAt(p, x, 1) <=> x = k
  BY <1>2, <1>3 DEF IsAt
<1>6. \A x : Has(p, x) <=> x = k
  BY <1>2, <1>5 DEF Has
<1>7. IsLast(p, k, 1) /\ Says(p, k, 1) = "on"
  BY <1>2, <1>5 DEF IsLast, Says
<1> QED BY <1>2, <1>4, <1>6, <1>7 DEF Reads

(* What a member of the file becomes.                                       *)
LEMMA PushedSays ==
  ASSUME NEW program \in Programs, NEW k \in Keys, NEW v \in Values,
         program = "zakuro" => ~(IsBoolean(v) /\ ~is_flag(k)), NEW p, p = push_kv(program, k, v)
  PROVE  /\ p \in Seq(Tokens) /\ PairedUp(p) /\ \A x : Has(p, x) => x = k
         /\ NoStrays(p) => Reads(p, k, Value(k, v))
<1>1. CASE IsBoolean(v) /\ is_flag(k)
  <2>1. p = (IF v = "yes" THEN <<Key(k)>> ELSE <<>>) /\ Value(k, v) = (IF v = "yes" THEN "on" ELSE Nothing)
    BY <1>1 DEF push_kv, PushZakuro, PushMoq, Value
  <2>2. CASE v = "yes"
    BY <1>1, <2>1, <2>2, FlagAlone
  <2>3. CASE v # "yes"
    <3>1. p = <<>> /\ Value(k, v) = Nothing
      BY <2>1, <2>3
    <3> QED BY <3>1 DEF PairedUp, Has, Reads
  <2> QED BY <2>2, <2>3
<1>2. CASE IsBoolean(v) /\ ~is_flag(k)
  <2> DEFINE w == IF v = "yes" THEN "true" ELSE "false"
  <2>1. p = <<Key(k), Word(w)>> /\ Value(k, v) = w
    BY <1>2 DEF push_kv, PushMoq, Value, IsBoolean
  <2>2. w \in Values
    BY ArgumentsAssumption
  <2> HIDE DEF w
  <2> QED BY <1>2, <2>1, <2>2, KeyAndWord
<1>3. CASE ~IsBoolean(v)
  <2>1. p = <<Key(k), Word(v)>> /\ Value(k, v) = v
    BY <1>3 DEF push_kv, PushZakuro, PushMoq, Value, IsBoolean
  <2> QED BY <2>1, KeyAndWord
<1> QED BY <1>1, <1>2, <1>3

(* What an object of the file becomes.                                      *)
LEMMA ObjectSays ==
  ASSUME NEW program \in Programs, NEW members \in Objects, NEW common \in BOOLEAN,
         program = "zakuro" => ~ValuedBoolean(members), NEW P, P = Push(program, members, common)
  PROVE  /\ P \in Seq(Tokens) /\ PairedUp(P)
         /\ \A k \in Options : is_common_key(k) = common /\ NoStrays(P) => Reads(P, k, Written(members, k))
         /\ \A k : is_common_key(k) # common => ~Has(P, k)
<1> DEFINE n == Len(members)
           s == [i \in 1 .. n |->
                  IF Ignored(program, members[i]) \/ is_common_key(members[i].key) # common THEN <<>>
                  ELSE push_kv(program, members[i].key, members[i].value)]
<1>0. /\ n \in Nat /\ DOMAIN members = 1 .. n
      /\ \A i \in 1 .. n : /\ members[i] \in Members /\ members[i].key \in Keys
                           /\ members[i].value \in Values
      /\ \A i, j \in 1 .. n : members[i].key = members[j].key => i = j
  <2>1. members \in Seq(Members) /\ \A i, j \in DOMAIN members : members[i].key = members[j].key => i = j
    BY DEF Objects
  <2>2. \A i \in 1 .. n : members[i] \in Members
    BY <2>1
  <2>3. \A m \in Members : m.key \in Keys /\ m.value \in Values
    BY DEF Members
  <2> QED BY <2>1, <2>2, <2>3
<1>1. P = FlattenSeq(s)
  BY <1>0 DEF Push
<1>2. ASSUME NEW i \in 1 .. n
      PROVE  /\ s[i] \in Seq(Tokens) /\ PairedUp(s[i])
             /\ \A k : Has(s[i], k) => k = members[i].key /\ is_common_key(k) = common
             /\ \A k : /\ NoStrays(s[i]) /\ members[i].key = k /\ k # "name" /\ is_common_key(k) = common
                       => Reads(s[i], k, Value(k, members[i].value))
  <2>1. CASE Ignored(program, members[i]) \/ is_common_key(members[i].key) # common
    <3>1. s[i] = <<>>
      BY <2>1
    <3>2. PairedUp(<<>>) /\ <<>> \in Seq(Tokens) /\ \A k : ~Has(<<>>, k)
      BY DEF PairedUp, Has
    <3>3. members[i].key = "name" \/ is_common_key(members[i].key) # common
      BY <2>1 DEF Ignored
    <3> HIDE DEF s
    <3> QED BY <3>1, <3>2, <3>3
  <2>2. CASE ~(Ignored(program, members[i]) \/ is_common_key(members[i].key) # common)
    <3>1. s[i] = push_kv(program, members[i].key, members[i].value)
      BY <2>2
    <3>2. program = "zakuro" => ~(IsBoolean(members[i].value) /\ ~is_flag(members[i].key))
      BY <1>0 DEF ValuedBoolean
    <3> HIDE DEF s
    <3>3. /\ s[i] \in Seq(Tokens) /\ PairedUp(s[i]) /\ \A x : Has(s[i], x) => x = members[i].key
          /\ NoStrays(s[i]) => Reads(s[i], members[i].key, Value(members[i].key, members[i].value))
      BY <1>0, <3>1, <3>2, PushedSays
    <3> QED BY <2>2, <3>3
  <2> QED BY <2>1, <2>2
<1>3. s \in Seq(Seq(Tokens)) /\ Len(s) = n
  <2>1. s \in [1 .. n -> Seq(Tokens)]
    BY <1>2
  <2> HIDE DEF s
  <2> QED BY <1>0, <2>1, FunctionIsSequence
<1> HIDE DEF s
<1>4. \A i \in 1 .. Len(s) : PairedUp(s[i])
  BY <1>2, <1>3
<1>5. P \in Seq(Tokens) /\ PairedUp(P) /\ (NoStrays(P) => \A i \in 1 .. n : NoStrays(s[i]))
  BY <1>1, <1>3, <1>4, PiecesPaired
<1>6. ASSUME NEW k
      PROVE  /\ Has(P, k) <=> \E i \in 1 .. n : Has(s[i], k)
             /\ \A i \in 1 .. n : \A v :
                  Has(s[i], k) /\ Reads(s[i], k, v) /\ (\A j \in 1 .. n : j > i => ~Has(s[j], k))
                    => Reads(P, k, v)
  BY <1>1, <1>3, <1>4, PiecesRead
<1>7. \A k : is_common_key(k) # common => ~Has(P, k)
  BY <1>2, <1>6
<1>8. ASSUME NEW k \in Options, is_common_key(k) = common, NoStrays(P)
      PROVE  Reads(P, k, Written(members, k))
  <2> DEFINE values == {Value(k, members[i].value) : i \in {j \in DOMAIN members : members[j].key = k}}
  <2>1. CASE \A i \in 1 .. n : members[i].key # k
    <3>1. values = {}
      BY <1>0, <2>1
    <3>2. Written(members, k) = Nothing
      BY <3>1 DEF Written
    <3>3. ~Has(P, k)
      BY <1>2, <1>6, <2>1
    <3> QED BY <3>2, <3>3 DEF Reads
  <2>2. ASSUME NEW i \in 1 .. n, members[i].key = k PROVE Reads(P, k, Written(members, k))
    <3> DEFINE v == Value(k, members[i].value)
    <3>1. {j \in DOMAIN members : members[j].key = k} = {i}
      BY <1>0, <2>2
    <3>2. values = {v}
      BY <3>1
    <3>3. Written(members, k) = v
      BY <3>2 DEF Written
    <3> HIDE DEF v
    <3>4. k # "name"
      BY DEF Options
    <3>5. Reads(s[i], k, v)
      BY <1>2, <1>5, <1>8, <2>2, <3>4 DEF v
    <3>6. \A j \in 1 .. n : j # i => ~Has(s[j], k)
      BY <1>0, <1>2, <2>2
    <3>7. CASE Has(s[i], k)
      <4>1. \A j \in 1 .. n : j > i => ~Has(s[j], k)
        BY <1>0, <3>6
      <4> QED BY <1>6, <3>3, <3>5, <3>7, <4>1
    <3>8. CASE ~Has(s[i], k)
      <4>1. ~Has(P, k) /\ v = Nothing
        BY <1>6, <3>5, <3>6, <3>8 DEF Reads
      <4> QED BY <3>3, <4>1 DEF Reads
    <3> QED BY <3>7, <3>8
  <2> QED BY <2>1, <2>2
<1> QED BY <1>5, <1>7, <1>8

(* What parts of a command line say, when all of one option is in the part. *)
LEMMA PartSays ==
  ASSUME NEW argv \in Seq(Tokens), PairedUp(argv), NEW size, Sizes2(argv, size), NEW positions,
         NEW D, D = Gathered(UnitAt(argv, size), positions)
  PROVE  /\ D \in Seq(Tokens) /\ PairedUp(D)
         /\ \A k : \A v : /\ Reads(argv, k, v)
                          /\ \A i \in 1 .. Len(argv) : IsAt(argv, k, i) => i \in positions
                          => Reads(D, k, v)
<1>1. /\ D \in Seq(Tokens) /\ PairedUp(D)
      /\ \A k : Has(D, k) <=> \E i \in 1 .. Len(argv) : i \in positions /\ IsAt(argv, k, i)
      /\ \A k : \A i \in 1 .. Len(argv) :
           i \in positions /\ IsLast(argv, k, i) => Reads(D, k, Says(argv, k, i))
  BY GatheredSays
<1>2. ASSUME NEW k, NEW v, Reads(argv, k, v),
             \A i \in 1 .. Len(argv) : IsAt(argv, k, i) => i \in positions
      PROVE  Reads(D, k, v)
  <2>1. CASE Has(argv, k)
    <3>1. PICK i \in 1 .. Len(argv) : IsLast(argv, k, i) /\ v = Says(argv, k, i)
      BY <1>2, <2>1 DEF Reads
    <3>2. i \in positions
      BY <1>2, <3>1 DEF IsLast
    <3> QED BY <1>1, <3>1, <3>2
  <2>2. CASE ~Has(argv, k)
    <3>1. ~Has(D, k) /\ v = Nothing
      BY <1>1, <1>2, <2>2 DEF Has, Reads
    <3> QED BY <3>1 DEF Reads
  <2> QED BY <2>1, <2>2
<1> QED BY <1>1, <1>2

LEMMA ZakuroSplitSays ==
  ASSUME NEW cli \in Seq(Tokens), PairedUp(cli), NEW part, NEW common \in BOOLEAN,
         part = IF common THEN SplitZakuro(cli).common ELSE SplitZakuro(cli).instance
  PROVE  /\ part \in Seq(Tokens) /\ PairedUp(part)
         /\ \A k, v : is_common_key(k) = common /\ Reads(cli, k, v) => Reads(part, k, v)
<1> DEFINE n == Len(cli)
           size == [i \in DOMAIN cli |->
                      IF cli[i].form = "key" /\ ~is_flag(cli[i].key) /\ i < Len(cli) THEN 2 ELSE 1]
           starts == Starts(cli, size)
           positions == {i \in starts : IsCommon(cli[i]) = common}
<1>0. n \in Nat /\ DOMAIN cli = 1 .. n
  OBVIOUS
<1>1. part = Gathered(UnitAt(cli, size), positions)
  BY DEF SplitZakuro
<1>2. Sizes2(cli, size)
  <2> SUFFICES ASSUME NEW i \in 1 .. n PROVE size[i] = 2 <=> Valued(cli[i])
    BY DEF Sizes2
  <2>1. Valued(cli[i]) => i < n
    BY <1>0 DEF PairedUp
  <2> QED BY <1>0, <2>1 DEF Valued
<1> HIDE DEF size
<1>3. \A i \in 1 .. n : Dashed(cli[i]) => i \in starts
  BY <1>2, PairedStarts
<1>4. ASSUME NEW k, is_common_key(k) = common, NEW i \in 1 .. n, IsAt(cli, k, i) PROVE i \in positions
  BY <1>3, <1>4 DEF IsAt, IsCommon, is_common_key
<1> HIDE DEF positions
<1>5. /\ part \in Seq(Tokens) /\ PairedUp(part)
      /\ \A k : \A v : /\ Reads(cli, k, v)
                       /\ \A i \in 1 .. n : IsAt(cli, k, i) => i \in positions
                       => Reads(part, k, v)
  BY <1>1, <1>2, PartSays
<1> QED BY <1>4, <1>5

(* zakuro-moq takes --key=value of a common option apart.                   *)
LEMMA MoqSplitSays ==
  ASSUME NEW cli \in Seq(Tokens), PairedUp(cli), NEW part, NEW common \in BOOLEAN,
         part = IF common THEN SplitMoq(cli).common ELSE SplitMoq(cli).instance
  PROVE  /\ part \in Seq(Tokens) /\ PairedUp(part)
         /\ \A k, v : is_common_key(k) = common /\ Reads(cli, k, v) => Reads(part, k, v)
<1> DEFINE n == Len(cli)
           size == [i \in DOMAIN cli |->
                      IF /\ cli[i].form = "key" /\ ~is_flag(cli[i].key)
                         /\ i < Len(cli) /\ ~Dashed(cli[i + 1]) THEN 2 ELSE 1]
           starts == Starts(cli, size)
           units == UnitAt(cli, size)
           apart == [i \in DOMAIN cli |->
                       IF cli[i].form = "eq" THEN <<Key(cli[i].key), Word(cli[i].value)>> ELSE units[i]]
           commons == {i \in starts : IsCommon(cli[i])}
           others == {i \in starts : ~IsCommon(cli[i])}
<1>0. n \in Nat /\ DOMAIN cli = 1 .. n /\ \A i \in 1 .. n : cli[i] \in Tokens
  OBVIOUS
<1>1. part = IF common THEN Gathered(apart, commons) ELSE Gathered(units, others)
  BY DEF SplitMoq
<1>2. Sizes2(cli, size)
  <2> SUFFICES ASSUME NEW i \in 1 .. n PROVE size[i] = 2 <=> Valued(cli[i])
    BY DEF Sizes2
  <2>1. Valued(cli[i]) => i < n /\ ~Dashed(cli[i + 1])
    BY <1>0 DEF PairedUp
  <2> QED BY <1>0, <2>1 DEF Valued
<1> HIDE DEF size
<1>3. starts \subseteq 1 .. n /\ \A i \in 1 .. n : Dashed(cli[i]) => i \in starts
  BY <1>2, PairedStarts
<1> HIDE DEF starts
<1>4. CASE ~common
  <2>1. ASSUME NEW k, ~is_common_key(k), NEW i \in 1 .. n, IsAt(cli, k, i) PROVE i \in others
    BY <1>3, <2>1 DEF IsAt, IsCommon
  <2> HIDE DEF others
  <2>2. /\ part \in Seq(Tokens) /\ PairedUp(part)
        /\ \A k : \A v : /\ Reads(cli, k, v)
                         /\ \A i \in 1 .. n : IsAt(cli, k, i) => i \in others
                         => Reads(part, k, v)
    BY <1>1, <1>2, <1>4, PartSays
  <2>3. \A k : is_common_key(k) = common => ~is_common_key(k)
    BY <1>4
  <2> QED BY <2>1, <2>2, <2>3
<1>5. CASE common
  <2> DEFINE s == [i \in 1 .. n |-> IF i \in commons THEN apart[i] ELSE <<>>]
             p == Pieces(cli, size, commons)
  <2>1. DOMAIN units = 1 .. n /\ DOMAIN apart = 1 .. n
    BY <1>0 DEF UnitAt
  <2>2. part = FlattenSeq(s)
    BY <1>1, <1>5, <2>1 DEF Gathered
  <2>3. /\ p \in Seq(Seq(Tokens)) /\ Len(p) = n
        /\ \A i \in 1 .. n : /\ PairedUp(p[i])
                             /\ \A k : Has(p[i], k) <=> i \in commons /\ IsAt(cli, k, i)
                             /\ \A k : i \in commons /\ IsAt(cli, k, i) => Reads(p[i], k, Says(cli, k, i))
    <3> HIDE DEF commons
    <3>1. \A i \in 1 .. n : size[i] = 2 => i + 1 \in 1 .. n
      BY <1>2 DEF PairedUp, Sizes2
    <3>2. p \in Seq(Seq(Tokens)) /\ Len(p) = n
      BY <3>1, GatheredIsPieces
    <3>3. ASSUME NEW i \in 1 .. n
          PROVE  /\ PairedUp(p[i])
                 /\ \A k : Has(p[i], k) <=> i \in commons /\ IsAt(cli, k, i)
                 /\ \A k : i \in commons /\ IsAt(cli, k, i) => Reads(p[i], k, Says(cli, k, i))
      BY <1>2, UnitSays
    <3> QED BY <3>2, <3>3
  <2>4. ASSUME NEW i \in 1 .. n
        PROVE  s[i] = IF i \in commons /\ cli[i].form = "eq" THEN <<Key(cli[i].key), Word(cli[i].value)>>
                      ELSE p[i]
    BY <1>0 DEF Pieces, UnitAt
  <2>5. \A i \in commons : i \in 1 .. n /\ Dashed(cli[i]) /\ ~is_flag(cli[i].key)
    BY <1>3 DEF IsCommon, is_common_key, is_flag
  <2>6. ASSUME NEW k, is_common_key(k), NEW i \in 1 .. n, IsAt(cli, k, i) PROVE i \in commons
    BY <1>3, <2>6 DEF IsAt, IsCommon
  <2> HIDE DEF commons, s, p
  <2>7. ASSUME NEW i \in 1 .. n
        PROVE  /\ s[i] \in Seq(Tokens) /\ PairedUp(s[i])
               /\ \A k : Has(s[i], k) <=> i \in commons /\ IsAt(cli, k, i)
               /\ \A k : i \in commons /\ IsAt(cli, k, i) => Reads(s[i], k, Says(cli, k, i))
    <3>1. CASE ~(i \in commons /\ cli[i].form = "eq")
      <4>1. s[i] = p[i]
        BY <2>4, <3>1
      <4>2. p[i] \in Seq(Tokens)
        BY ONLY <2>3, i \in 1 .. n
      <4> QED BY <2>3, <4>1, <4>2
    <3>2. CASE i \in commons /\ cli[i].form = "eq"
      <4> DEFINE x == cli[i].key
                 w == cli[i].value
      <4>1. s[i] = <<Key(x), Word(w)>> /\ x \in Keys /\ w \in Values /\ ~is_flag(x)
        BY <1>0, <2>4, <2>5, <3>2, TokensAre
      <4>2. \A k : IsAt(cli, k, i) <=> k = x
        BY <2>5, <3>2 DEF IsAt
      <4>3. Says(cli, x, i) = w
        BY <3>2, <4>1 DEF Says
      <4> HIDE DEF x, w
      <4>4. s[i] \in Seq(Tokens) /\ PairedUp(s[i]) /\ (\A k : Has(s[i], k) <=> k = x) /\ Reads(s[i], x, w)
        BY <4>1, KeyAndWord
      <4> QED BY <3>2, <4>2, <4>3, <4>4
    <3> QED BY <3>1, <3>2
  <2>8. s \in Seq(Seq(Tokens)) /\ Len(s) = n
    <3>1. s \in [1 .. n -> Seq(Tokens)]
      BY <2>7 DEF s
    <3> QED BY <1>0, <3>1, FunctionIsSequence
  <2>9. \A i \in 1 .. Len(s) : PairedUp(s[i])
    BY <2>7, <2>8
  <2>10. part \in Seq(Tokens) /\ PairedUp(part)
    BY <2>2, <2>8, <2>9, PiecesPaired
  <2>11. ASSUME NEW k, NEW v, is_common_key(k), Reads(cli, k, v) PROVE Reads(part, k, v)
    <3>1. /\ Has(part, k) <=> \E i \in 1 .. n : Has(s[i], k)
          /\ \A i \in 1 .. n : \A y :
               Has(s[i], k) /\ Reads(s[i], k, y) /\ (\A j \in 1 .. n : j > i => ~Has(s[j], k))
                 => Reads(part, k, y)
      BY <2>2, <2>8, <2>9, PiecesRead
    <3>2. CASE Has(cli, k)
      <4>1. PICK i \in 1 .. n : IsLast(cli, k, i) /\ v = Says(cli, k, i)
        BY <2>11, <3>2 DEF Reads
      <4>2. IsAt(cli, k, i) /\ i \in commons /\ \A j \in 1 .. n : j > i => ~IsAt(cli, k, j)
        BY <1>0, <2>6, <2>11, <4>1 DEF IsLast
      <4>3. Has(s[i], k) /\ Reads(s[i], k, v) /\ \A j \in 1 .. n : j > i => ~Has(s[j], k)
        BY <2>7, <4>1, <4>2
      <4> QED BY <3>1, <4>3
    <3>3. CASE ~Has(cli, k)
      <4>1. ~Has(part, k) /\ v = Nothing
        BY <2>7, <2>11, <3>1, <3>3 DEF Has, Reads
      <4> QED BY <4>1 DEF Reads
    <3> QED BY <3>2, <3>3
  <2>12. \A k : is_common_key(k) = common => is_common_key(k)
    BY <1>5
  <2> QED BY <2>10, <2>11, <2>12
<1> QED BY <1>4, <1>5

LEMMA SplitSays ==
  ASSUME NEW program \in Programs, NEW cli \in Seq(Tokens), PairedUp(cli), NEW part, NEW common \in BOOLEAN,
         part = IF common THEN split_cli_argv(program, cli).common ELSE split_cli_argv(program, cli).instance
  PROVE  /\ part \in Seq(Tokens) /\ PairedUp(part)
         /\ \A k, v : is_common_key(k) = common /\ Reads(cli, k, v) => Reads(part, k, v)
<1>1. CASE program = "zakuro"
  <2>1. part = IF common THEN SplitZakuro(cli).common ELSE SplitZakuro(cli).instance
    BY <1>1 DEF split_cli_argv
  <2> QED BY <2>1, ZakuroSplitSays
<1>2. CASE program # "zakuro"
  <2>1. part = IF common THEN SplitMoq(cli).common ELSE SplitMoq(cli).instance
    BY <1>2 DEF split_cli_argv
  <2> QED BY <2>1, MoqSplitSays
<1> QED BY <1>1, <1>2

(* A list that is accepted when repeated options are removed says what the  *)
(* settings are.                                                            *)
LEMMA AcceptedSays ==
  ASSUME NEW a \in Seq(Tokens), PairedUp(a), NEW options, NEW parsed,
         parsed = Parsed(dedupe_argv_last_wins(a), options), parsed.ok
  PROVE  NoStrays(a) /\ \A k \in options : \A v : Reads(a, k, v) => parsed.settings[k] = v
<1> DEFINE D == dedupe_argv_last_wins(a)
<1>1. /\ D \in Seq(Tokens) /\ PairedUp(D) /\ (NoStrays(D) => NoStrays(a))
      /\ \A k : Once(D, k) /\ \A v : Reads(a, k, v) => Reads(D, k, v)
  BY DedupedSays
<1> HIDE DEF D
<1>2. Parsed(D, options).ok /\ parsed = Parsed(D, options)
  BY DEF D
<1>3. NoStrays(D) /\ \A k \in options : Once(D, k) => Reads(D, k, parsed.settings[k])
  BY <1>1, <1>2, ParsedReads
<1>4. ASSUME NEW k \in options, NEW v, Reads(a, k, v) PROVE parsed.settings[k] = v
  <2>1. Reads(D, k, v) /\ Reads(D, k, parsed.settings[k]) /\ Len(D) \in Nat
    BY <1>1, <1>3, <1>4
  <2> QED BY <2>1, ReadsOne
<1> QED BY <1>1, <1>3, <1>4

(* The later of what two layers ask.                                        *)
Latest(later, earlier) == IF later # Nothing THEN later ELSE earlier

LEMMA LayersSay ==
  ASSUME NEW a \in Seq(Tokens), NEW b \in Seq(Tokens), PairedUp(a), PairedUp(b), NEW k, NEW v, NEW w,
         Reads(a, k, v), Reads(b, k, w)
  PROVE  Reads(a \o b, k, Latest(w, v))
<1>1. Has(b, k) <=> w # Nothing
  BY SaysSomething
<1>2. IF Has(b, k) THEN Reads(b, k, Latest(w, v)) ELSE Reads(a, k, Latest(w, v))
  BY <1>1 DEF Latest
<1> QED BY <1>2, LaterIsRead

LEMMA AskedIs ==
  ASSUME NEW k, NEW n, NEW w,
         w = IF n \in DOMAIN input.file.instances THEN Written(input.file.instances[n], k) ELSE Nothing
  PROVE  Asked(k, n) = Latest(OnCommandLine(k), Latest(w, Written(input.file.top, k)))
<1> DEFINE layers == <<OnCommandLine(k), w, Written(input.file.top, k)>>
           given == {i \in DOMAIN layers : layers[i] # Nothing}
<1>1. Asked(k, n) = IF given = {} THEN Nothing ELSE layers[Min(given)]
  BY DEF Asked
<1>2. /\ DOMAIN layers = 1 .. 3 /\ layers[1] = OnCommandLine(k) /\ layers[2] = w
      /\ layers[3] = Written(input.file.top, k)
  OBVIOUS
<1> HIDE DEF layers
<1>3. CASE given = {}
  <2>1. layers[1] = Nothing /\ layers[2] = Nothing /\ layers[3] = Nothing
    BY <1>2, <1>3
  <2> QED BY <1>1, <1>2, <1>3, <2>1 DEF Latest
<1>4. CASE given # {}
  <2>1. given \in SUBSET Nat /\ \A i \in given : i = 1 \/ i = 2 \/ i = 3
    BY <1>2
  <2>2. Min(given) \in given /\ \A y \in given : Min(given) <= y
    BY <1>4, <2>1, LeastOf
  <2>3. \A i \in 1 .. 3 : i \in given <=> layers[i] # Nothing
    BY <1>2
  <2> DEFINE m == Min(given)
  <2>10. m \in given /\ (\A y \in given : m <= y) /\ (m = 1 \/ m = 2 \/ m = 3)
    BY <2>1, <2>2
  <2> HIDE DEF given, m
  <2>4. CASE layers[1] # Nothing
    <3>1. 1 \in given
      BY <2>3, <2>4
    <3>2. m <= 1
      BY <2>10, <3>1
    <3>3. m = 1
      BY <2>10, <3>2
    <3> QED BY <1>1, <1>2, <1>4, <2>4, <3>3 DEF Latest, m
  <2>5. CASE layers[1] = Nothing /\ layers[2] # Nothing
    <3>1. 1 \notin given /\ 2 \in given
      BY <2>3, <2>5
    <3>2. m # 1 /\ m <= 2
      BY <2>10, <3>1
    <3>3. m = 2
      BY <2>10, <3>2
    <3> QED BY <1>1, <1>2, <1>4, <2>5, <3>3 DEF Latest, m
  <2>6. CASE layers[1] = Nothing /\ layers[2] = Nothing
    <3>1. 1 \notin given /\ 2 \notin given
      BY <2>3, <2>6
    <3>2. m = 3
      BY <2>10, <3>1
    <3> QED BY <1>1, <1>2, <1>4, <2>6, <3>2 DEF Latest, m
  <2> QED BY <2>4, <2>5, <2>6
<1> QED BY <1>3, <1>4

(* What parse_args returns, when it accepts, is what the layers ask for.    *)
LEMMA ParseIsAsked ==
  ASSUME LayersGiven(input), PairedUp(input.cli),
         input.program = "zakuro" => ~HasValuedBoolean,
         NEW parsed, parsed = parse_args(input.program, input.file, input.cli), parsed.ok
  PROVE  /\ \A k \in CommonOptions : parsed.common[k] = Asked(k, 0)
         /\ \A n \in DOMAIN parsed.instances : \A k \in InstanceOptions :
              parsed.instances[n][k] = Asked(k, n)
<1> DEFINE program == input.program
           file == input.file
           cli == input.cli
           split == split_cli_argv(program, cli)
           commonArgv == Push(program, file.top, TRUE) \o split.common
           common == Parsed(dedupe_argv_last_wins(commonArgv), CommonOptions)
           argvs == expand_instances(program, file)
           each == [n \in DOMAIN argvs |->
                      Parsed(dedupe_argv_last_wins(argvs[n] \o split.instance), InstanceOptions)]
<1>1. /\ program \in Programs /\ cli \in Seq(Tokens) /\ file.top \in Objects /\ file.instances \in Seq(Objects)
      /\ Len(cli) \in Nat /\ DOMAIN cli = 1 .. Len(cli)
  BY DEF LayersGiven
<1>2. /\ common.ok /\ parsed.common = common.settings
      /\ \A n \in DOMAIN each : each[n].ok
      /\ parsed.instances = [n \in DOMAIN each |-> each[n].settings]
  <2>1. ~(FileRejected(program, file) \/ ~split.ok \/ ~common.ok \/ \E n \in DOMAIN each : ~each[n].ok)
    BY DEF parse_args, Rejected
  <2>2. parsed = [ok |-> TRUE, common |-> common.settings,
                  instances |-> [n \in DOMAIN each |-> each[n].settings]]
    BY <2>1 DEF parse_args
  <2> HIDE DEF common, each
  <2> QED BY <2>1, <2>2
<1>3. /\ split.common \in Seq(Tokens) /\ PairedUp(split.common)
      /\ split.instance \in Seq(Tokens) /\ PairedUp(split.instance)
      /\ \A k, v : is_common_key(k) /\ Reads(cli, k, v) => Reads(split.common, k, v)
      /\ \A k, v : ~is_common_key(k) /\ Reads(cli, k, v) => Reads(split.instance, k, v)
  <2>1. /\ split.common \in Seq(Tokens) /\ PairedUp(split.common)
        /\ \A k, v : is_common_key(k) = TRUE /\ Reads(cli, k, v) => Reads(split.common, k, v)
    <3> DEFINE part == IF TRUE THEN split.common ELSE split.instance
    <3>1. /\ part \in Seq(Tokens) /\ PairedUp(part)
          /\ \A k, v : is_common_key(k) = TRUE /\ Reads(cli, k, v) => Reads(part, k, v)
      BY <1>1, SplitSays
    <3> QED BY <3>1
  <2>2. /\ split.instance \in Seq(Tokens) /\ PairedUp(split.instance)
        /\ \A k, v : is_common_key(k) = FALSE /\ Reads(cli, k, v) => Reads(split.instance, k, v)
    <3> DEFINE part == IF FALSE THEN split.common ELSE split.instance
    <3>1. /\ part \in Seq(Tokens) /\ PairedUp(part)
          /\ \A k, v : is_common_key(k) = FALSE /\ Reads(cli, k, v) => Reads(part, k, v)
      BY <1>1, SplitSays
    <3> QED BY <3>1
  <2> QED BY <2>1, <2>2 DEF is_common_key
<1> HIDE DEF split, common, each
<1>4. \A k : Reads(cli, k, OnCommandLine(k))
  BY <1>1, CommandLineReads
<1>5. /\ program = "zakuro" => ~ValuedBoolean(file.top)
      /\ \A n \in DOMAIN file.instances : program = "zakuro" => ~ValuedBoolean(file.instances[n])
  BY DEF HasValuedBoolean
<1>6. ASSUME NEW k \in CommonOptions PROVE parsed.common[k] = Asked(k, 0)
  <2> DEFINE P == Push(program, file.top, TRUE)
  <2>1. k \in Options /\ is_common_key(k) = TRUE
    BY DEF CommonOptions, is_common_key
  <2>2. /\ P \in Seq(Tokens) /\ PairedUp(P)
        /\ NoStrays(P) => Reads(P, k, Written(file.top, k))
    BY <1>1, <1>5, <2>1, ObjectSays
  <2> HIDE DEF P
  <2>3. commonArgv = P \o split.common /\ commonArgv \in Seq(Tokens)
    <3>1. commonArgv = P \o split.common
      BY DEF P
    <3> HIDE DEF commonArgv
    <3> QED BY <1>3, <2>2, <3>1
  <2>4. PairedUp(commonArgv) /\ (NoStrays(commonArgv) => NoStrays(P))
    BY <1>3, <2>2, <2>3, BothPaired
  <2>11. common = Parsed(dedupe_argv_last_wins(commonArgv), CommonOptions)
    BY DEF common
  <2> HIDE DEF commonArgv
  <2>5. NoStrays(commonArgv) /\ \A v : Reads(commonArgv, k, v) => common.settings[k] = v
    <3>1. common.ok /\ commonArgv \in Seq(Tokens) /\ PairedUp(commonArgv)
      BY <1>2, <2>3, <2>4
    <3> QED BY ONLY <2>11, <3>1, AcceptedSays
  <2>6. Reads(split.common, k, OnCommandLine(k))
    BY <1>3, <1>4, <2>1
  <2>7. Reads(commonArgv, k, Latest(OnCommandLine(k), Written(file.top, k)))
    BY <1>3, <2>2, <2>3, <2>4, <2>5, <2>6, LayersSay
  <2>8. 0 \notin DOMAIN file.instances
    BY <1>1
  <2>9. Asked(k, 0) = Latest(OnCommandLine(k), Latest(Nothing, Written(file.top, k)))
    BY <2>8, AskedIs
  <2>10. Asked(k, 0) = Latest(OnCommandLine(k), Written(file.top, k))
    BY <2>9 DEF Latest
  <2> QED BY <1>2, <2>5, <2>7, <2>10
<1>7. ASSUME NEW n \in DOMAIN parsed.instances, NEW k \in InstanceOptions
      PROVE  parsed.instances[n][k] = Asked(k, n)
  <2> DEFINE P == Push(program, file.top, FALSE)
  <2>1. k \in Options /\ is_common_key(k) = FALSE
    BY DEF InstanceOptions, CommonOptions, is_common_key
  <2>2. /\ P \in Seq(Tokens) /\ PairedUp(P)
        /\ NoStrays(P) => Reads(P, k, Written(file.top, k))
    BY <1>1, <1>5, <2>1, ObjectSays
  <2>3. n \in DOMAIN argvs /\ n \in DOMAIN each
    BY <1>2 DEF each
  <2>4. Reads(split.instance, k, OnCommandLine(k))
    BY <1>3, <1>4, <2>1
  <2> DEFINE w == IF n \in DOMAIN file.instances THEN Written(file.instances[n], k) ELSE Nothing
  <2>5. /\ argvs[n] \in Seq(Tokens) /\ PairedUp(argvs[n])
        /\ NoStrays(argvs[n]) => Reads(argvs[n], k, Latest(w, Written(file.top, k)))
    <3>1. CASE file.instances = <<>>
      <4>1. argvs = <<P>>
        BY <3>1 DEF expand_instances
      <4> HIDE DEF argvs, P
      <4>2. argvs[n] = P /\ n \notin DOMAIN file.instances
        BY <2>3, <3>1, <4>1
      <4>3. Latest(w, Written(file.top, k)) = Written(file.top, k)
        BY <4>2 DEF Latest
      <4> QED BY <2>2, <4>2, <4>3
    <3>2. CASE file.instances # <<>>
      <4> DEFINE own == Push(program, file.instances[n], FALSE)
      <4>1. n \in DOMAIN file.instances /\ argvs[n] = P \o own
        BY <2>3, <3>2 DEF expand_instances
      <4>2. file.instances[n] \in Objects
        BY <1>1, <4>1
      <4>3. /\ own \in Seq(Tokens) /\ PairedUp(own)
            /\ NoStrays(own) => Reads(own, k, Written(file.instances[n], k))
        BY <1>1, <1>5, <2>1, <4>1, <4>2, ObjectSays
      <4> HIDE DEF argvs, P, own
      <4>4. /\ argvs[n] \in Seq(Tokens) /\ PairedUp(argvs[n])
            /\ NoStrays(argvs[n]) => NoStrays(P) /\ NoStrays(own)
        BY <2>2, <4>1, <4>3, BothPaired
      <4>5. w = Written(file.instances[n], k)
        BY <4>1
      <4> HIDE DEF w
      <4>6. NoStrays(argvs[n]) => Reads(argvs[n], k, Latest(w, Written(file.top, k)))
        BY <2>2, <4>1, <4>3, <4>4, <4>5, LayersSay
      <4> QED BY <4>4, <4>6
    <3> QED BY <3>1, <3>2
  <2> DEFINE a == argvs[n] \o split.instance
  <2>6. each[n].ok /\ each[n] = Parsed(dedupe_argv_last_wins(a), InstanceOptions)
    BY <1>2, <2>3 DEF each
  <2>7. parsed.instances[n] = each[n].settings
    BY <1>2, <2>3
  <2> HIDE DEF argvs, P
  <2>8. a \in Seq(Tokens) /\ PairedUp(a) /\ (NoStrays(a) => NoStrays(argvs[n]))
    BY <1>3, <2>5, BothPaired
  <2> HIDE DEF a
  <2>9. NoStrays(a) /\ \A v : Reads(a, k, v) => each[n].settings[k] = v
    BY <2>6, <2>8, AcceptedSays
  <2> HIDE DEF w
  <2>10. Reads(a, k, Latest(OnCommandLine(k), Latest(w, Written(file.top, k))))
    BY <1>3, <2>4, <2>5, <2>8, <2>9, LayersSay DEF a
  <2>11. Asked(k, n) = Latest(OnCommandLine(k), Latest(w, Written(file.top, k)))
    BY AskedIs DEF w
  <2> QED BY <2>7, <2>9, <2>10, <2>11
<1> QED BY <1>6, <1>7

LEMMA LastOfBoth ==
  ASSUME NEW S, NEW a \in Seq(S), NEW b \in Seq(S), b # <<>>
  PROVE  /\ a \o b # <<>> /\ Last(a \o b) = Last(b) /\ Last(b) \in S
         /\ Len(a \o b) = Len(a) + Len(b)
<1>1. Len(b) \in 1 .. Len(b) /\ Len(a \o b) = Len(a) + Len(b) /\ Len(a) \in Nat
  OBVIOUS
<1>2. (a \o b)[Len(a) + Len(b)] = b[Len(b)] /\ b[Len(b)] \in S
  BY <1>1
<1>3. a \o b # <<>>
  BY <1>1
<1> QED BY <1>1, <1>2, <1>3 DEF Last

(* Units without gaps or overlaps: each ends where the next starts.         *)
LEMMA LastUnit ==
  ASSUME NEW S, NEW argv \in Seq(S), argv # <<>>, NEW size,
         \A i \in 1 .. Len(argv) : size[i] = 2 => i < Len(argv)
  PROVE  \E i \in Starts(argv, size) :
           /\ i \in 1 .. Len(argv) /\ \A j \in Starts(argv, size) : j <= i
           /\ IF size[i] = 2 THEN i + 1 = Len(argv) ELSE i = Len(argv)
<1> DEFINE n == Len(argv)
           starts == Starts(argv, size)
<1>0. n \in Nat /\ n # 0
  OBVIOUS
<1>1. /\ starts \subseteq 1 .. n
      /\ \A i \in 1 .. n : i \in starts <=> i = 1 \/ ~(i - 1 \in starts /\ size[i - 1] = 2)
  BY <1>0, WhereUnitsStart
<1> HIDE DEF starts
<1>2. 1 \in starts
  BY <1>0, <1>1
<1> DEFINE m == Max(starts)
<1>3. m \in starts /\ \A j \in starts : m >= j
  BY <1>0, <1>1, <1>2, GreatestOf
<1> HIDE DEF m, n
<1>4. m \in 1 .. n /\ m \in Nat /\ \A j \in starts : j <= m /\ j \in Nat
  BY <1>0, <1>1, <1>3
<1>5. CASE size[m] = 2
  <2>1. m + 1 \in 1 .. n
    BY <1>0, <1>4, <1>5 DEF n
  <2>2. m + 1 \notin starts
    BY <1>4
  <2>3. m + 1 = n
    <3> SUFFICES ASSUME m + 1 # n PROVE FALSE
      OBVIOUS
    <3>1. m + 2 \in 1 .. n /\ (m + 2) - 1 = m + 1
      BY <1>0, <1>4, <2>1
    <3>2. m + 2 \in starts
      BY <1>1, <2>2, <3>1
    <3> QED BY <1>4, <3>2
  <2> QED BY <1>3, <1>4, <1>5, <2>3 DEF n, starts
<1>6. CASE size[m] # 2
  <2>1. m = n
    <3> SUFFICES ASSUME m # n PROVE FALSE
      OBVIOUS
    <3>1. m + 1 \in 1 .. n /\ (m + 1) - 1 = m
      BY <1>0, <1>4
    <3>2. m + 1 \in starts
      BY <1>1, <1>6, <3>1
    <3> QED BY <1>4, <3>2
  <2> QED BY <1>3, <1>4, <1>6, <2>1 DEF n, starts
<1> QED BY <1>5, <1>6

(* What is taken of a list of which the parser takes everything.            *)
LEMMA AllTaken ==
  ASSUME NEW D \in Seq(Tokens), D # <<>>, NEW k, ~is_flag(k), Nothing \notin Accepts[k],
         "missing" \notin Accepts[k], Parsed(D, {k}).ok
  PROVE  \/ Len(D) = 1 /\ ~Valued(D[1]) /\ D[1].form = "eq"
            /\ ValueOf(D, k) = D[1].value /\ D[1].value \in Accepts[k]
         \/ Len(D) = 2 /\ Valued(D[1]) /\ ~Dashed(D[2])
            /\ ValueOf(D, k) = D[2].value /\ D[2].value \in Accepts[k]
<1> DEFINE is == {x \in Occurrences(D, k) : D[x].form = "key" \/ ~is_flag(k)}
           m == Min(is)
<1>0. Len(D) \in Nat /\ DOMAIN D = 1 .. Len(D) /\ Len(D) # 0 /\ 1 \in 1 .. Len(D)
      /\ \A i \in 1 .. Len(D) : D[i] \in Tokens
  OBVIOUS
<1>1. Taken(D, k) = 1 .. Len(D) /\ ValueOf(D, k) \in Accepts[k] \cup {Nothing}
  BY <1>0 DEF Parsed
<1>2. is # {} /\ Taken(D, k) = IF D[m].form = "eq" THEN {m} ELSE {m, m + 1}
  BY <1>0, <1>1 DEF Taken
<1>3. is \in SUBSET (1 .. Len(D)) /\ \A x \in is : Dashed(D[x]) /\ D[x].key = k
  BY <1>0 DEF Occurrences
<1> HIDE DEF is
<1>4. m \in is
  <2>1. is \in SUBSET Nat
    BY <1>0, <1>3
  <2> QED BY <1>2, <2>1, LeastOf
<1> HIDE DEF m
<1>5. m \in 1 .. Len(D) /\ Dashed(D[m]) /\ D[m].key = k
  BY <1>3, <1>4
<1>6. m = 1
  BY <1>0, <1>1, <1>2, <1>5
<1>7. CASE D[1].form = "eq"
  <2>1. Taken(D, k) = {1}
    BY <1>2, <1>6, <1>7
  <2>2. Len(D) = 1
    BY <1>0, <1>1, <2>1
  <2>3. Min(Taken(D, k)) = 1
    <3>1. {1} \in SUBSET Nat /\ {1} # {}
      OBVIOUS
    <3> QED BY <2>1, <3>1, LeastOf
  <2>4. ValueOf(D, k) = D[1].value
    BY <1>7, <2>1, <2>3 DEF ValueOf
  <2>5. D[1].value # Nothing
    BY <1>0, <1>7, TokensAre, ArgumentsAssumption
  <2> QED BY <1>1, <1>7, <2>2, <2>4, <2>5 DEF Valued
<1>8. CASE D[1].form # "eq"
  <2>1. Taken(D, k) = {1, 2}
    BY <1>2, <1>6, <1>8
  <2>2. Len(D) = 2 /\ D[2] \in Tokens
    <3>1. Len(D) = 2
      BY <1>0, <1>1, <2>1
    <3> QED BY <1>0, <3>1
  <2>3. Valued(D[1])
    BY <1>5, <1>6, <1>8 DEF Dashed, Valued
  <2>4. Min(Taken(D, k)) = 1
    <3>1. {1, 2} \in SUBSET Nat /\ {1, 2} # {}
      OBVIOUS
    <3>2. Min({1, 2}) \in {1, 2} /\ \A y \in {1, 2} : Min({1, 2}) <= y
      BY <3>1, LeastOf
    <3> QED BY <2>1, <3>2
  <2>5. ValueOf(D, k) = IF ~Dashed(D[2]) THEN D[2].value ELSE "missing"
    BY <1>8, <2>1, <2>2, <2>4 DEF ValueOf
  <2>6. ~Dashed(D[2])
    BY <1>1, <2>5 DEF Nothing
  <2>7. D[2].value # Nothing
    BY <2>2, <2>6, TokensAre, ArgumentsAssumption DEF Dashed
  <2> QED BY <1>1, <2>2, <2>3, <2>5, <2>6, <2>7
<1> QED BY <1>7, <1>8

(* Of a list with one option, accepted when repetitions are removed, the    *)
(* last token is the value.                                                 *)
LEMMA AcceptedEnds ==
  ASSUME NEW argv \in Seq(Tokens), NEW k, ~is_flag(k), Nothing \notin Accepts[k],
         "missing" \notin Accepts[k], NEW parsed,
         parsed = Parsed(dedupe_argv_last_wins(argv), {k}), parsed.ok
  PROVE  IF argv = <<>> THEN parsed.settings[k] = Nothing
         ELSE /\ Last(argv).form # "key" /\ Last(argv).value \in Accepts[k]
              /\ parsed.settings[k] = Last(argv).value
<1> DEFINE n == Len(argv)
           D == dedupe_argv_last_wins(argv)
           size == [i \in DOMAIN argv |->
                      IF argv[i].form = "key" /\ ~is_flag(argv[i].key) /\ i < Len(argv) THEN 2 ELSE 1]
           starts == Starts(argv, size)
           over == {p \in (DOMAIN argv) \X (DOMAIN argv) : p[1] < p[2]}
           kept == {i \in starts : ~ \E j \in starts :
                      /\ <<i, j>> \in over /\ Dashed(argv[i]) /\ Dashed(argv[j])
                      /\ argv[i].key = argv[j].key}
           s == Pieces(argv, size, kept)
<1>0. n \in Nat /\ DOMAIN argv = 1 .. n /\ \A i \in 1 .. n : argv[i] \in Tokens
  OBVIOUS
<1>1. D = Gathered(UnitAt(argv, size), kept)
  BY DEF dedupe_argv_last_wins, Deduped
<1>2. \A i \in 1 .. n : size[i] = 2 <=> Valued(argv[i]) /\ i < n
  BY <1>0 DEF Valued
<1> HIDE DEF size
<1>3. starts \subseteq 1 .. n
  BY <1>0, WhereUnitsStart
<1> HIDE DEF starts
<1>4. \A i \in 1 .. n : \A j \in 1 .. n : <<i, j>> \in over <=> i < j
  BY <1>0
<1>5. kept \subseteq starts
  OBVIOUS
<1>6. \A i \in 1 .. n : i \in starts /\ (\A j \in starts : j <= i) => i \in kept
  <2> SUFFICES ASSUME NEW i \in 1 .. n, i \in starts, \A j \in starts : j <= i, NEW j \in starts,
                      <<i, j>> \in over
               PROVE  FALSE
    OBVIOUS
  <2>1. j \in 1 .. n /\ i < j /\ j <= i
    BY <1>3, <1>4
  <2> HIDE DEF over
  <2> QED BY <1>0, <2>1
<1> HIDE DEF over, kept
<1>7. D = FlattenSeq(s) /\ s \in Seq(Seq(Tokens)) /\ Len(s) = n
  <2>1. \A i \in 1 .. n : size[i] = 2 => i + 1 \in 1 .. n
    BY <1>0, <1>2
  <2> QED BY <1>1, <2>1, GatheredIsPieces
<1>8. \A i \in 1 .. n : s[i] = IF i \in kept
                        THEN (IF size[i] = 2 THEN <<argv[i], argv[i + 1]>> ELSE <<argv[i]>>) ELSE <<>>
  BY DEF Pieces
<1>9. Parsed(D, {k}).ok /\ parsed.settings[k] = ValueOf(D, k)
  BY DEF Parsed
<1> HIDE DEF D, s
<1>10. CASE argv = <<>>
  <2>1. D = <<>>
    <3>1. \A j \in 1 .. Len(s) : s[j] = <<>>
      BY <1>7, <1>10
    <3> QED BY ONLY <1>7, <3>1, NoPieces
  <2>2. Occurrences(D, k) = {}
    BY <2>1 DEF Occurrences
  <2>3. Taken(D, k) = {}
    BY <2>2 DEF Taken
  <2>4. ValueOf(D, k) = Nothing
    BY <2>3 DEF ValueOf
  <2> QED BY <1>9, <1>10, <2>4
<1>11. CASE argv # <<>>
  <2>1. PICK i \in starts : /\ i \in 1 .. n /\ \A j \in starts : j <= i
                            /\ IF size[i] = 2 THEN i + 1 = n ELSE i = n
    <3>1. \A i \in 1 .. n : size[i] = 2 => i < n
      BY <1>2
    <3> QED BY <1>11, <3>1, LastUnit DEF starts
  <2>2. i \in kept /\ i \in 1 .. Len(s)
    BY <1>6, <1>7, <2>1
  <2>3. \A j \in 1 .. Len(s) : j > i => s[j] = <<>>
    <3>1. n \in Nat /\ i \in 1 .. n
      BY ONLY <1>0, <2>1, Zenon
    <3>3. Len(s) = n
      BY ONLY <1>7
    <3> HIDE DEF n
    <3>2. ASSUME NEW j \in 1 .. n, j > i PROVE s[j] = <<>>
      <4>1. ~(j <= i)
        BY ONLY <3>1, <3>2
      <4>2. j \notin starts
        BY ONLY <2>1, <4>1
      <4>3. j \notin kept
        BY ONLY <1>5, <4>2
      <4> QED BY ONLY <1>8, <3>2, <4>3
    <3> QED BY ONLY <3>2, <3>3
  <2>4. PICK p \in Seq(Tokens) : D = p \o s[i]
    <3>1. i \in 1 .. Len(s) /\ s \in Seq(Seq(Tokens))
      BY ONLY <1>7, <2>2
    <3>2. \E p \in Seq(Tokens) : FlattenSeq(s) = p \o s[i]
      BY ONLY <2>3, <3>1, PiecesEnd
    <3> QED BY ONLY <1>7, <3>2
  <2> DEFINE u == s[i]
  <2>7. u = IF size[i] = 2 THEN <<argv[i], argv[i + 1]>> ELSE <<argv[i]>>
    BY <1>8, <2>1, <2>2
  <2>8. u \in Seq(Tokens) /\ u # <<>> /\ Last(u) = argv[n] /\ Len(u) \in {1, 2}
    <3>1. CASE size[i] = 2
      <4>1. u = <<argv[i], argv[n]>> /\ argv[i] \in Tokens /\ argv[n] \in Tokens
        BY <1>0, <1>11, <2>1, <2>7, <3>1
      <4> HIDE DEF u
      <4> QED BY <4>1 DEF Last
    <3>2. CASE size[i] # 2
      <4>1. u = <<argv[n]>> /\ argv[n] \in Tokens
        BY <1>0, <1>11, <2>1, <2>7, <3>2
      <4> HIDE DEF u
      <4> QED BY <4>1 DEF Last
    <3> QED BY <3>1, <3>2
  <2>9. D = p \o u
    BY <2>4
  <2> HIDE DEF u
  <2>10. D \in Seq(Tokens) /\ D # <<>> /\ Last(D) = argv[n] /\ Len(D) = Len(p) + Len(u)
    BY <2>8, <2>9, LastOfBoth
  <2>11. \/ Len(D) = 1 /\ ~Valued(D[1]) /\ D[1].form = "eq"
            /\ ValueOf(D, k) = D[1].value /\ D[1].value \in Accepts[k]
         \/ Len(D) = 2 /\ Valued(D[1]) /\ ~Dashed(D[2])
            /\ ValueOf(D, k) = D[2].value /\ D[2].value \in Accepts[k]
    BY <1>9, <2>10, AllTaken
  <2>12. Last(D) = D[Len(D)] /\ Last(argv) = argv[n]
    BY DEF Last
  <2>13. Last(argv).form # "key" /\ Last(argv).value \in Accepts[k] /\ ValueOf(D, k) = Last(argv).value
    BY <2>10, <2>11, <2>12 DEF Dashed
  <2> QED BY <1>9, <1>11, <2>13
<1> QED BY <1>10, <1>11

(* The scan of the command line and the part of it the parse gets for the   *)
(* process: the value found is the last token of that part.                 *)
LEMMA ScanFindsLast ==
  ASSUME NEW cli \in Seq(Tokens), SplitZakuro(cli).ok, NEW c, c = SplitZakuro(cli).common
  PROVE  /\ c \in Seq(Tokens)
         /\ IF c = <<>> THEN peek_option_value(cli) = Nothing
            ELSE Last(c).form # "key" => peek_option_value(cli) = Last(c).value
<1> DEFINE n == Len(cli)
           size == [i \in DOMAIN cli |->
                      IF cli[i].form = "key" /\ ~is_flag(cli[i].key) /\ i < Len(cli) THEN 2 ELSE 1]
           starts == Starts(cli, size)
           positions == {i \in starts : IsCommon(cli[i]) = TRUE}
           s == Pieces(cli, size, positions)
           valued == {i \in DOMAIN cli :
                        /\ cli[i].key = "log-level"
                        /\ \/ cli[i].form = "eq"
                           \/ /\ cli[i].form = "key" /\ i < Len(cli)
                              /\ ~Dashed(cli[i + 1])}
<1>0. n \in Nat /\ DOMAIN cli = 1 .. n /\ \A i \in 1 .. n : cli[i] \in Tokens
  OBVIOUS
<1>1. c = Gathered(UnitAt(cli, size), positions)
  BY DEF SplitZakuro
<1>2. \A i \in starts : size[i] = 2 => ~Dashed(cli[i + 1])
  BY DEF SplitZakuro
<1>3. \A i \in 1 .. n : size[i] = 2 <=> Valued(cli[i]) /\ i < n
  BY <1>0 DEF Valued
<1> HIDE DEF size
<1>4. /\ starts \subseteq 1 .. n
      /\ \A i \in 1 .. n : i \in starts <=> i = 1 \/ ~(i - 1 \in starts /\ size[i - 1] = 2)
  BY <1>0, WhereUnitsStart
<1> HIDE DEF starts
<1>5. \A i \in 1 .. n : Dashed(cli[i]) => i \in starts
  <2> SUFFICES ASSUME NEW i \in 1 .. n, i \notin starts PROVE ~Dashed(cli[i])
    OBVIOUS
  <2>1. i - 1 \in starts /\ size[i - 1] = 2 /\ (i - 1) + 1 = i
    BY <1>0, <1>4
  <2> QED BY <1>2, <2>1
<1>6. /\ positions \subseteq 1 .. n
      /\ \A i \in 1 .. n : i \in positions <=> Dashed(cli[i]) /\ cli[i].key = "log-level"
  BY <1>4, <1>5 DEF IsCommon, is_common_key
<1>7. \A i \in positions : i \in starts
  OBVIOUS
<1> HIDE DEF positions
<1>8. valued \subseteq positions
  BY <1>0, <1>6 DEF Dashed
<1>9. c = FlattenSeq(s) /\ s \in Seq(Seq(Tokens)) /\ Len(s) = n
  <2>1. \A i \in 1 .. n : size[i] = 2 => i + 1 \in 1 .. n
    BY <1>0, <1>3
  <2> QED BY <1>1, <2>1, GatheredIsPieces
<1>10. \A i \in 1 .. n : s[i] = IF i \in positions
                         THEN (IF size[i] = 2 THEN <<cli[i], cli[i + 1]>> ELSE <<cli[i]>>) ELSE <<>>
  BY DEF Pieces
<1> HIDE DEF s
<1>11. peek_option_value(cli) =
         IF valued = {} THEN Nothing
         ELSE IF cli[Max(valued)].form = "eq" THEN cli[Max(valued)].value ELSE cli[Max(valued) + 1].value
  BY DEF peek_option_value
<1>12. CASE positions = {}
  <2>1. \A j \in 1 .. Len(s) : s[j] = <<>>
    BY <1>9, <1>10, <1>12
  <2>2. c = <<>>
    BY <1>9, <2>1, NoPieces
  <2>3. valued = {}
    BY <1>8, <1>12
  <2>4. c \in Seq(Tokens)
    BY <2>2
  <2> QED BY <1>11, <2>2, <2>3, <2>4
<1>13. CASE positions # {}
  <2> DEFINE m == Max(positions)
  <2>1. m \in positions /\ \A j \in positions : m >= j
    BY <1>0, <1>6, <1>13, GreatestOf
  <2> HIDE DEF m
  <2>2. m \in 1 .. n /\ m \in starts /\ Dashed(cli[m]) /\ cli[m].key = "log-level"
    BY <1>6, <1>7, <2>1
  <2>3. \A j \in 1 .. Len(s) : j > m => s[j] = <<>>
    <3>1. n \in Nat /\ m \in 1 .. n
      BY ONLY <1>0, <2>2
    <3>3. Len(s) = n
      BY ONLY <1>9
    <3> HIDE DEF n
    <3>2. ASSUME NEW j \in 1 .. n, j > m PROVE s[j] = <<>>
      <4>1. ~(m >= j)
        BY ONLY <3>1, <3>2
      <4>2. j \notin positions
        BY ONLY <2>1, <4>1
      <4> QED BY ONLY <1>10, <3>2, <4>2
    <3> QED BY ONLY <3>2, <3>3
  <2>4. PICK p \in Seq(Tokens) : c = p \o s[m]
    <3>1. m \in 1 .. Len(s)
      BY <1>9, <2>2
    <3>2. s \in Seq(Seq(Tokens))
      BY ONLY <1>9
    <3>3. \E p \in Seq(Tokens) : FlattenSeq(s) = p \o s[m]
      BY ONLY <2>3, <3>1, <3>2, PiecesEnd
    <3> QED BY ONLY <1>9, <3>3
  <2> DEFINE u == s[m]
             t == IF size[m] = 2 THEN cli[m + 1] ELSE cli[m]
  <2>5. u = IF size[m] = 2 THEN <<cli[m], cli[m + 1]>> ELSE <<cli[m]>>
    BY <1>10, <2>1, <2>2
  <2>6. u \in Seq(Tokens) /\ u # <<>> /\ Last(u) = t
    <3>1. CASE size[m] = 2
      <4>1. m + 1 \in 1 .. n
        BY <1>0, <1>3, <2>2, <3>1
      <4>2. u = <<cli[m], t>> /\ cli[m] \in Tokens /\ t \in Tokens
        BY <1>0, <2>2, <2>5, <3>1, <4>1
      <4> HIDE DEF u, t
      <4> QED BY <4>2 DEF Last
    <3>2. CASE size[m] # 2
      <4>1. u = <<t>> /\ t \in Tokens
        BY <1>0, <2>2, <2>5, <3>2
      <4> HIDE DEF u, t
      <4> QED BY <4>1 DEF Last
    <3> QED BY <3>1, <3>2
  <2>7. c = p \o u
    BY <2>4
  <2> HIDE DEF u
  <2>8. c \in Seq(Tokens) /\ c # <<>> /\ Last(c) = t
    BY <2>6, <2>7, LastOfBoth
  <2>9. ASSUME m \in valued PROVE Max(valued) = m
    <3> DEFINE x == Max(valued)
    <3>1. valued \in SUBSET (1 .. n) /\ valued # {}
      BY <1>6, <1>8, <2>9
    <3> HIDE DEF valued
    <3>2. x \in valued /\ \A j \in valued : x >= j
      BY <1>0, <3>1, GreatestOf
    <3>3. x >= m /\ m >= x /\ x \in 1 .. n
      BY <1>8, <2>1, <2>9, <3>1, <3>2
    <3> HIDE DEF x
    <3>4. x = m
      BY <1>0, <2>2, <3>3
    <3> QED BY <3>4 DEF x
  <2>10. ASSUME t.form # "key" PROVE peek_option_value(cli) = t.value
    <3>1. CASE size[m] = 2
      <4>1. Valued(cli[m]) /\ m < n /\ ~Dashed(cli[m + 1])
        BY <1>2, <1>3, <2>2, <3>1
      <4>2. m \in valued
        BY <1>0, <2>2, <4>1 DEF Valued
      <4> HIDE DEF valued
      <4>3. Max(valued) = m /\ valued # {}
        BY <2>9, <4>2
      <4>4. cli[m].form # "eq" /\ t = cli[m + 1]
        BY <3>1, <4>1 DEF Valued
      <4> QED BY <1>11, <4>3, <4>4
    <3>2. CASE size[m] # 2
      <4>1. t = cli[m] /\ cli[m].form = "eq"
        BY <2>2, <2>10, <3>2 DEF Dashed
      <4>2. m \in valued
        BY <1>0, <2>2, <4>1
      <4> HIDE DEF valued
      <4>3. Max(valued) = m /\ valued # {}
        BY <2>9, <4>2
      <4> QED BY <1>11, <4>1, <4>3
    <3> QED BY <3>1, <3>2
  <2> QED BY <2>8, <2>10
<1> QED BY <1>12, <1>13

(* The scan of the file, likewise.                                          *)
LEMMA FileScanFinds ==
  ASSUME NEW file, file.top \in Objects, NEW f, f = Push("zakuro", file.top, TRUE)
  PROVE  /\ f \in Seq(Tokens)
         /\ IF f = <<>> THEN peek_jsonc_option_value(file) = Nothing
            ELSE Last(f).form # "key" => peek_jsonc_option_value(file) = Last(f).value
<1> DEFINE members == file.top
           n == Len(members)
           s == [i \in 1 .. n |->
                  IF Ignored("zakuro", members[i]) \/ is_common_key(members[i].key) # TRUE THEN <<>>
                  ELSE push_kv("zakuro", members[i].key, members[i].value)]
           is == {i \in DOMAIN members : members[i].key = "log-level"}
<1>0. /\ n \in Nat /\ DOMAIN members = 1 .. n
      /\ \A i \in 1 .. n : members[i].key \in Keys /\ members[i].value \in Values
      /\ \A i, j \in 1 .. n : members[i].key = members[j].key => i = j
  <2>1. members \in Seq(Members) /\ \A i, j \in DOMAIN members : members[i].key = members[j].key => i = j
    BY DEF Objects
  <2>2. \A i \in 1 .. n : members[i] \in Members
    BY <2>1
  <2>3. \A m \in Members : m.key \in Keys /\ m.value \in Values
    BY DEF Members
  <2> QED BY <2>1, <2>2, <2>3
<1>1. f = FlattenSeq(s)
  BY <1>0 DEF Push
<1>2. ASSUME NEW i \in 1 .. n
      PROVE  s[i] = IF members[i].key # "log-level" THEN <<>>
                    ELSE IF IsBoolean(members[i].value)
                         THEN (IF members[i].value = "yes" THEN <<Key("log-level")>> ELSE <<>>)
                    ELSE <<Key("log-level"), Word(members[i].value)>>
  BY DEF Ignored, is_common_key, push_kv, PushZakuro
<1> HIDE DEF s
<1>3. \A i \in 1 .. n : s[i] \in Seq(Tokens)
  <2> TAKE i \in 1 .. n
  <2>0. <<>> \in Seq(Tokens)
    BY ONLY TRUE
  <2>1. CASE members[i].key # "log-level"
    <3>1. s[i] = <<>>
      BY <1>2, <2>1
    <3> QED BY <2>0, <3>1
  <2>2. CASE members[i].key = "log-level"
    <3>1. Key("log-level") \in Tokens /\ Word(members[i].value) \in Tokens
      BY <1>0, <2>2 DEF Tokens
    <3>2. s[i] = <<>> \/ s[i] = <<Key("log-level")>> \/ s[i] = <<Key("log-level"), Word(members[i].value)>>
      BY <1>2, <2>2
    <3>3. /\ <<Key("log-level")>> \in Seq(Tokens)
          /\ <<Key("log-level"), Word(members[i].value)>> \in Seq(Tokens)
      BY ONLY <3>1
    <3> QED BY <2>0, <3>2, <3>3
  <2> QED BY <2>1, <2>2
<1>4. s \in Seq(Seq(Tokens)) /\ Len(s) = n
  <2>1. s \in [1 .. n -> Seq(Tokens)]
    BY <1>3 DEF s
  <2> QED BY <1>0, <2>1, FunctionIsSequence
<1>5. peek_jsonc_option_value(file) =
        IF is = {} \/ IsBoolean(members[Min(is)].value) THEN Nothing ELSE members[Min(is)].value
  BY DEF peek_jsonc_option_value
<1>6. CASE is = {}
  <2>1. \A j \in 1 .. Len(s) : s[j] = <<>>
    BY <1>0, <1>2, <1>4, <1>6
  <2>2. f = <<>>
    BY <1>1, <1>4, <2>1, NoPieces
  <2>3. f \in Seq(Tokens)
    <3>1. <<>> \in Seq(Tokens)
      BY ONLY TRUE
    <3> QED BY <2>2, <3>1
  <2> QED BY <1>5, <1>6, <2>2, <2>3
<1>7. ASSUME NEW i \in is
      PROVE  /\ f \in Seq(Tokens)
             /\ IF f = <<>> THEN peek_jsonc_option_value(file) = Nothing
                ELSE Last(f).form # "key" => peek_jsonc_option_value(file) = Last(f).value
  <2>1. i \in 1 .. n /\ members[i].key = "log-level"
    BY <1>0
  <2>2. is = {i}
    BY <1>0, <2>1
  <2>3. Min(is) = i
    <3>1. {i} \in SUBSET Nat /\ {i} # {}
      BY <1>0, <2>1
    <3> QED BY <2>2, <3>1, LeastOf
  <2>4. \A j \in 1 .. Len(s) : j # i => s[j] = <<>>
    BY <1>0, <1>2, <1>4, <2>1
  <2>5. f = s[i]
    <3>1. i \in 1 .. Len(s) /\ i \in Nat /\ (\A j \in 1 .. Len(s) : j > i => j # i)
          /\ (\A j \in 1 .. Len(s) : j < i => j # i)
      BY <1>0, <1>4, <2>1
    <3>2. (\A j \in 1 .. Len(s) : j > i => s[j] = <<>>) /\ (\A j \in 1 .. Len(s) : j < i => s[j] = <<>>)
      BY <2>4, <3>1
    <3>3. PICK p \in Seq(Tokens) : f = p \o s[i] /\ p = <<>>
      BY <1>1, <1>4, <3>1, <3>2, PiecesEnd
    <3>4. s[i] \in Seq(Tokens)
      BY <1>3, <2>1
    <3>5. <<>> \o s[i] = s[i]
      BY ONLY <3>4
    <3> QED BY <3>3, <3>5
  <2>6. f \in Seq(Tokens)
    BY <1>3, <2>1, <2>5
  <2> DEFINE v == members[i].value
  <2>7. peek_jsonc_option_value(file) = IF IsBoolean(v) THEN Nothing ELSE v
    BY <1>5, <2>2, <2>3
  <2>8. f = IF IsBoolean(v) THEN (IF v = "yes" THEN <<Key("log-level")>> ELSE <<>>)
            ELSE <<Key("log-level"), Word(v)>>
    BY <1>2, <2>1, <2>5
  <2> HIDE DEF v, s, is
  <2>9. CASE IsBoolean(v) /\ v = "yes"
    <3>1. f = <<Key("log-level")>>
      BY <2>8, <2>9
    <3>2. f # <<>> /\ Len(f) = 1 /\ f[1] = Key("log-level")
      BY ONLY <3>1
    <3>3. Last(f).form = "key"
      BY ONLY <3>2 DEF Last, Key
    <3> QED BY <2>6, <3>2, <3>3
  <2>10. CASE IsBoolean(v) /\ v # "yes"
    <3>1. f = <<>> /\ peek_jsonc_option_value(file) = Nothing
      BY <2>7, <2>8, <2>10
    <3> QED BY <2>6, <3>1
  <2>11. CASE ~IsBoolean(v)
    <3>1. f = <<Key("log-level"), Word(v)>> /\ peek_jsonc_option_value(file) = v
      BY <2>7, <2>8, <2>11
    <3>2. f # <<>> /\ Len(f) = 2 /\ f[2] = Word(v)
      BY ONLY <3>1
    <3>3. Last(f).value = v
      BY ONLY <3>2 DEF Last, Word
    <3> QED BY <2>6, <3>1, <3>2, <3>3
  <2> QED BY <2>9, <2>10, <2>11
<1> QED BY <1>6, <1>7

(* What is read early is what an accepted parse reads.                      *)
LEMMA PeekIsParsed ==
  ASSUME NEW file, file.top \in Objects, NEW cli \in Seq(Tokens),
         NEW parsed, parsed = parse_args("zakuro", file, cli), parsed.ok
  PROVE  peek_log_config(file, cli) =
           IF parsed.common["log-level"] = Nothing THEN "info" ELSE parsed.common["log-level"]
<1> DEFINE k == "log-level"
           split == split_cli_argv("zakuro", cli)
           argv == Push("zakuro", file.top, TRUE) \o split.common
           common == Parsed(dedupe_argv_last_wins(argv), CommonOptions)
           argvs == expand_instances("zakuro", file)
           each == [n \in DOMAIN argvs |->
                      Parsed(dedupe_argv_last_wins(argvs[n] \o split.instance), InstanceOptions)]
           f == Push("zakuro", file.top, TRUE)
           c == split.common
           level == parsed.common[k]
<1>1. split.ok /\ common.ok /\ parsed.common = common.settings
  <2>1. ~(FileRejected("zakuro", file) \/ ~split.ok \/ ~common.ok \/ \E n \in DOMAIN each : ~each[n].ok)
    BY DEF parse_args, Rejected
  <2>2. parsed = [ok |-> TRUE, common |-> common.settings,
                  instances |-> [n \in DOMAIN each |-> each[n].settings]]
    BY <2>1 DEF parse_args
  <2> HIDE DEF common, each, split
  <2> QED BY <2>1, <2>2
<1>2. CommonOptions = {k} /\ k \in Options
  BY DEF CommonOptions, Options, is_common_key
<1>3. Accepts[k] = {"info", "error"}
  BY <1>2 DEF Accepts
<1>4. ~is_flag(k) /\ Nothing \notin Accepts[k] /\ "missing" \notin Accepts[k]
  BY <1>3 DEF is_flag, Nothing
<1>5. SplitZakuro(cli).ok /\ c = SplitZakuro(cli).common
  BY <1>1 DEF split_cli_argv
<1>6. /\ c \in Seq(Tokens)
      /\ IF c = <<>> THEN peek_option_value(cli) = Nothing
         ELSE Last(c).form # "key" => peek_option_value(cli) = Last(c).value
  BY <1>5, ScanFindsLast
<1>7. /\ f \in Seq(Tokens)
      /\ IF f = <<>> THEN peek_jsonc_option_value(file) = Nothing
         ELSE Last(f).form # "key" => peek_jsonc_option_value(file) = Last(f).value
  BY FileScanFinds
<1>8. argv = f \o c /\ common = Parsed(dedupe_argv_last_wins(argv), {k})
  BY <1>2
<1>9. level = common.settings[k]
  BY <1>1
<1> HIDE DEF split, common, f, c, level
<1>10. argv \in Seq(Tokens)
  <2>1. f \in Seq(Tokens) /\ c \in Seq(Tokens)
    BY <1>6, <1>7
  <2>2. f \o c \in Seq(Tokens)
    BY ONLY <2>1
  <2> HIDE DEF argv
  <2> QED BY <1>8, <2>2
<1> HIDE DEF argv, k
<1>11. IF argv = <<>> THEN common.settings[k] = Nothing
       ELSE /\ Last(argv).form # "key" /\ Last(argv).value \in Accepts[k]
            /\ common.settings[k] = Last(argv).value
  BY ONLY ZenonT(30), <1>1, <1>4, <1>8, <1>10, AcceptedEnds
<1>12. \A v : Readable(v) = IF v \in Accepts[k] THEN v ELSE Nothing
  BY DEF Readable, k
<1>13. peek_log_config(file, cli) =
         IF Readable(peek_option_value(cli)) # Nothing THEN Readable(peek_option_value(cli))
         ELSE IF Readable(peek_jsonc_option_value(file)) # Nothing THEN Readable(peek_jsonc_option_value(file))
         ELSE "info"
  BY DEF peek_log_config
<1>14. CASE c # <<>>
  <2>1. argv # <<>> /\ Last(argv) = Last(c)
    BY <1>6, <1>7, <1>8, <1>14, LastOfBoth
  <2>2. peek_option_value(cli) = level /\ level \in Accepts[k]
    BY <1>6, <1>9, <1>11, <1>14, <2>1
  <2>3. peek_log_config(file, cli) = level /\ level # Nothing
    BY <1>4, <1>12, <1>13, <2>2
  <2> QED BY <2>3 DEF level, k
<1>15. CASE c = <<>>
  <2>1. peek_option_value(cli) = Nothing /\ Readable(Nothing) = Nothing
    BY <1>4, <1>6, <1>12, <1>15
  <2>2. argv = f
    BY <1>7, <1>8, <1>15
  <2>3. CASE f = <<>>
    <3>1. level = Nothing /\ peek_jsonc_option_value(file) = Nothing
      BY <1>7, <1>9, <1>11, <2>2, <2>3
    <3>2. peek_log_config(file, cli) = "info"
      BY <1>13, <2>1, <3>1
    <3> QED BY <3>1, <3>2 DEF level, k
  <2>4. CASE f # <<>>
    <3>1. level \in Accepts[k] /\ peek_jsonc_option_value(file) = level
      BY <1>7, <1>9, <1>11, <2>2, <2>4
    <3>2. peek_log_config(file, cli) = level /\ level # Nothing
      BY <1>4, <1>12, <1>13, <2>1, <3>1
    <3> QED BY <3>2 DEF level, k
  <2> QED BY <2>3, <2>4
<1> QED BY <1>14, <1>15

-----------------------------------------------------------------------------
(* What the phases of the start know of the layers.                         *)
LayersRead ==
  /\ LayersGiven(input)
  /\ input.program = "zakuro" /\ phase # "peek" => logLevel = peek_log_config(input.file, input.cli)
  /\ phase \notin {"peek", "parse"} /\ args.ok => args = parse_args(input.program, input.file, input.cli)

LEMMA LayersReadHolds == StartupSpec => []LayersRead
<1>1. StartupInit => LayersRead
  BY LayersAssumption DEF StartupInit, LayersRead
<1>2. LayersRead /\ [StartupNext]_startupVars => LayersRead'
  <2> SUFFICES ASSUME LayersRead, [StartupNext]_startupVars PROVE LayersRead'
    OBVIOUS
  <2> USE DEF LayersRead
  <2>1. CASE PeekLogConfig
    BY <2>1 DEF PeekLogConfig, LayersGiven
  <2>2. CASE ParseArgs
    <3>1. args' = parse_args(input.program, input.file, input.cli) \/ args' = Rejected
      BY <2>2 DEF ParseArgs
    <3>2. input' = input /\ logLevel' = logLevel /\ phase = "parse"
      BY <2>2 DEF ParseArgs
    <3>3. ~Rejected.ok
      BY DEF Rejected
    <3> QED BY <3>1, <3>2, <3>3 DEF LayersGiven
  <2>3. ASSUME phase \notin {"peek", "parse"},
               input' = input /\ logLevel' = logLevel /\ args' = args
        PROVE  LayersRead'
    BY <2>3 DEF LayersGiven
  <2>4. CASE LoadLibrary \/ LoadFails \/ Verify \/ VerifyFails \/ CommonFails
    BY <2>3, <2>4 DEF LoadLibrary, LoadFails, Verify, VerifyFails, CommonFails, Stop
  <2>5. CASE \E n \in DOMAIN instances : SetUp(n) \/ InputFails(n)
    BY <2>3, <2>5 DEF SetUp, InputFails
  <2>6. CASE UNCHANGED startupVars
    BY <2>6 DEF startupVars, LayersGiven
  <2> QED BY <2>1, <2>2, <2>4, <2>5, <2>6 DEF StartupNext
<1> QED BY <1>1, <1>2, PTL DEF StartupSpec

(* LayersAgreed: for any command line and any file, in either program, the  *)
(* settings of an accepted parse are what the latest layer asks for         *)
(* (parse_args, dedupe_argv_last_wins), and the log level that zakuro reads *)
(* ahead of the parse (peek_log_config) is the one the parse accepts.       *)
THEOREM LayersAgreed == StartupSpec => []LayersAgree
<1>1. LayersRead => LayersAgree
  <2> SUFFICES ASSUME LayersRead PROVE LayersAgree
    OBVIOUS
  <2>1. ASSUME phase \notin {"peek", "parse"}, args.ok
        PROVE  args = parse_args(input.program, input.file, input.cli)
    BY <2>1 DEF LayersRead
  <2>2. LaterLayersWin
    <3> SUFFICES ASSUME input.program = "zakuro" => ~HasValuedBoolean,
                        Paired, phase \notin {"peek", "parse"}, args.ok
                 PROVE  /\ \A k \in CommonOptions : args.common[k] = Asked(k, 0)
                        /\ \A n \in DOMAIN args.instances : \A k \in InstanceOptions :
                             args.instances[n][k] = Asked(k, n)
      BY DEF LaterLayersWin, SettingsAreAsked
    <3>1. LayersGiven(input)
      BY DEF LayersRead
    <3>2. PairedUp(input.cli)
      <4>1. input.cli \in Seq(Tokens)
        BY <3>1 DEF LayersGiven
      <4>2. Len(input.cli) \in Nat /\ DOMAIN input.cli = 1 .. Len(input.cli)
        BY <4>1
      <4> QED BY <4>2 DEF Paired, PairedUp, Valued
    <3> QED BY <2>1, <3>1, <3>2, ParseIsAsked
  <2>3. PeekAgrees
    <3> SUFFICES ASSUME input.program = "zakuro", phase \notin {"peek", "parse"}, args.ok
                 PROVE  logLevel = IF args.common["log-level"] = Nothing THEN "info"
                                   ELSE args.common["log-level"]
      BY DEF PeekAgrees
    <3>1. args = parse_args("zakuro", input.file, input.cli)
      BY <2>1
    <3>2. logLevel = peek_log_config(input.file, input.cli)
      BY DEF LayersRead
    <3>3. input.file.top \in Objects /\ input.cli \in Seq(Tokens)
      BY DEF LayersRead, LayersGiven
    <3> QED BY <3>1, <3>2, <3>3, PeekIsParsed
  <2> QED BY <2>2, <2>3 DEF LayersAgree
<1> QED BY <1>1, LayersReadHolds, PTL

===============================================================================
