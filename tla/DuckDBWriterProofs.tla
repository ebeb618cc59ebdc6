--------------------------- MODULE DuckDBWriterProofs ---------------------------
(***************************************************************************)
(* Theorems about DuckDBWriter, for any connections, any reports and any   *)
(* limits of the channel and of the errors.                                *)
(***************************************************************************)
EXTENDS DuckDBWriter, TotalsProofs

-----------------------------------------------------------------------------
(* The inductive invariant.                                                 *)

(* The rows a connection or the orchestrator may send.                      *)
Rows == {ConnectionRow, LifecycleRow, StopRow}
        \cup UNION {UNION {Identities(r) : r \in Reports[c]} : c \in Clients}

Types ==
  /\ TypeOK
  /\ sent \in [Clients \cup {"main"} -> Seq(Rows)]
  /\ seen \in [Clients -> SUBSET Rows] /\ shown \in [Clients -> SUBSET Rows]
  /\ DOMAIN todo = Clients /\ \A c \in Clients : todo[c] \in Reports[c] \cup {<<>>}
  /\ pending \in [DOMAIN pending -> Nat]

(* The handshake: who still holds a handle, and what the writer has seen of *)
(* the end of its command channel.                                          *)
HandshakeInv ==
  /\ main = "running" => {"main", "self"} \subseteq senders /\ sent["main"] = <<>>
  /\ main # "running" => senders \subseteq {"self"} /\ sent["main"] = <<StopRow>>
  /\ main \in {"joining", "joined"} => senders = {}
  /\ main = "joined" => wpc = "stopped"
  /\ ~controlOpen => senders = {} /\ control = <<>>
  /\ wpc = "recv" => controls = <<>>
  /\ wpc = "stopped" /\ ~failed => ~controlOpen /\ controls = <<>>
  /\ wpc # "stopped" => errors < MaxErrors
  /\ \A c \in Clients : todo[c] # <<>> => c \in senders

(* The commands on their way, the committed ones first.                     *)
Commands == (db \o controls) \o control

Ordered(q) ==
  \A i, j \in 1..Len(q) : i < j /\ q[i][1] = q[j][1] => q[i][2] < q[j][2]

(* Every command on its way was sent, and is behind the earlier ones of its *)
(* sender; without a failure none is missing, and nothing follows the stop.  *)
QueueInv ==
  /\ Ordered(Commands)
  /\ \A i \in 1..Len(Commands) : Commands[i][2] \in 1..Len(sent[Commands[i][1]])
  /\ ~failed => \A s \in Clients \cup {"main"} : \A n \in 1..Len(sent[s]) :
                  \E i \in 1..Len(Commands) : Commands[i] = <<s, n>>
  /\ ~failed /\ main # "running" => Commands[Len(Commands)] = <<"main", 1>>

(* What a connection showed is sent or at hand, and sent once.              *)
ReportInv ==
  \A c \in Clients :
    /\ shown[c] \subseteq seen[c] \cup Identities(todo[c])
    /\ \A x \in seen[c] : \E n \in 1..Len(sent[c]) : sent[c][n] = x
    /\ \A n \in 1..Len(sent[c]) : sent[c][n] \in seen[c] \cup {ConnectionRow, LifecycleRow}
    /\ \A m, n \in 1..Len(sent[c]) :
         sent[c][m] \in seen[c] /\ sent[c][m] = sent[c][n] => m = n
    /\ ConnectionRow \notin seen[c] /\ LifecycleRow \notin seen[c]

(* The samples of a connection grow along the way: committed, gathered, in  *)
(* the channel, sent.                                                       *)
SampleInv ==
  /\ \A c \in Clients : lastSample[c] <= newest[c] /\ newest[c] <= samples[c]
  /\ \A c \in DOMAIN pending : pending[c] = newest[c] /\ lastSample[c] < newest[c]
  /\ \A i \in 1..Len(stats) :
       newest[stats[i][1]] < stats[i][2] /\ stats[i][2] <= samples[stats[i][1]]
  /\ \A i, j \in 1..Len(stats) :
       i < j /\ stats[i][1] = stats[j][1] => stats[i][2] < stats[j][2]

IInv == Types /\ HandshakeInv /\ QueueInv /\ ReportInv /\ SampleInv

-----------------------------------------------------------------------------
(* Commands in a row.                                                       *)

(* A command that goes from one queue to the one before stays where it is.  *)
LEMMA MoveHead ==
  ASSUME NEW a \in Seq(Numbered), NEW b \in Seq(Numbered), NEW c \in Seq(Numbered), c # <<>>
  PROVE  (a \o Append(b, Head(c))) \o Tail(c) = (a \o b) \o c
<1> DEFINE h == <<Head(c)>>
<1>1. Head(c) \in Numbered /\ Tail(c) \in Seq(Numbered) /\ h \in Seq(Numbered)
  BY HeadTailProperties
<1>2. c = h \o Tail(c)
  <2>1. Len(h \o Tail(c)) = Len(c) /\ h \o Tail(c) \in Seq(Numbered)
    BY <1>1, HeadTailProperties, ConcatProperties, LenProperties
  <2>2. \A i \in 1..Len(c) : (h \o Tail(c))[i] = c[i]
    BY <1>1, HeadTailProperties, ConcatProperties, LenProperties
  <2> QED BY <2>1, <2>2, SeqEqual
<1>3. Append(b, Head(c)) = b \o h
  BY <1>1, AppendIsConcat
<1>4. a \o (b \o h) = (a \o b) \o h /\ (a \o b) \in Seq(Numbered)
  BY <1>1, ConcatAssociative, ConcatProperties
<1>5. ((a \o b) \o h) \o Tail(c) = (a \o b) \o (h \o Tail(c))
  BY SMTT(30), <1>1, <1>4, ConcatAssociative
<1> HIDE DEF h
<1> QED BY <1>2, <1>3, <1>4, <1>5

(* A command that is sent is the last one.                                  *)
LEMMA AppendLast ==
  ASSUME NEW a \in Seq(Numbered), NEW b \in Seq(Numbered), NEW c \in Seq(Numbered), NEW e \in Numbered
  PROVE  (a \o b) \o Append(c, e) = Append((a \o b) \o c, e)
<1>1. <<e>> \in Seq(Numbered) /\ a \o b \in Seq(Numbered) /\ (a \o b) \o c \in Seq(Numbered)
  BY ConcatProperties
<1>2. Append(c, e) = c \o <<e>> /\ Append((a \o b) \o c, e) = ((a \o b) \o c) \o <<e>>
  BY <1>1, AppendIsConcat
<1> QED BY SMTT(30), <1>1, <1>2, ConcatAssociative

(* A transaction that is rolled back takes its commands out of the row.     *)
LEMMA DropMiddle ==
  ASSUME NEW a \in Seq(Numbered), NEW b \in Seq(Numbered), NEW c \in Seq(Numbered), Ordered((a \o b) \o c)
  PROVE  LET q == (a \o <<>>) \o c IN
         /\ Ordered(q)
         /\ \A i \in 1..Len(q) : \E k \in 1..Len((a \o b) \o c) : q[i] = ((a \o b) \o c)[k]
<1> DEFINE p == (a \o b) \o c
           q == (a \o <<>>) \o c
           At(i) == IF i <= Len(a) THEN i ELSE i + Len(b)
<1>1. Len(a) \in Nat /\ Len(b) \in Nat /\ Len(c) \in Nat
  BY LenProperties
<1>2. a \o b \in Seq(Numbered) /\ Len(a \o b) = Len(a) + Len(b)
      /\ \A i \in 1..(Len(a) + Len(b)) : (a \o b)[i] = IF i <= Len(a) THEN a[i] ELSE b[i - Len(a)]
  BY ConcatProperties
<1>3. Len(p) = Len(a) + Len(b) + Len(c)
      /\ \A i \in 1..(Len(a) + Len(b) + Len(c)) :
           p[i] = IF i <= Len(a) + Len(b) THEN (a \o b)[i] ELSE c[i - (Len(a) + Len(b))]
  BY <1>2, ConcatProperties
<1>4. q = a \o c
  BY ConcatEmptySeq
<1>5. Len(q) = Len(a) + Len(c)
      /\ \A i \in 1..(Len(a) + Len(c)) : q[i] = IF i <= Len(a) THEN a[i] ELSE c[i - Len(a)]
  BY <1>4, ConcatProperties
<1>6. Ordered(p)
  OBVIOUS
<1> HIDE DEF p, q
<1>7. \A i \in 1..Len(q) : At(i) \in 1..Len(p) /\ q[i] = p[At(i)]
  <2> SUFFICES ASSUME NEW i \in 1..Len(q) PROVE At(i) \in 1..Len(p) /\ q[i] = p[At(i)]
    OBVIOUS
  <2>1. CASE i <= Len(a)
    BY <1>1, <1>2, <1>3, <1>5, <2>1
  <2>2. CASE ~(i <= Len(a))
    <3>1. At(i) = i + Len(b) /\ At(i) \in 1..Len(p) /\ ~(At(i) <= Len(a) + Len(b))
      BY <1>1, <1>3, <1>5, <2>2
    <3>2. p[At(i)] = c[At(i) - (Len(a) + Len(b))] /\ q[i] = c[i - Len(a)]
      BY <1>3, <1>5, <2>2, <3>1
    <3>3. At(i) - (Len(a) + Len(b)) = i - Len(a)
      BY <1>1, <1>5, <3>1
    <3> QED BY <3>1, <3>2, <3>3
  <2> QED BY <2>1, <2>2
<1>8. \A i, j \in 1..Len(q) : i < j => At(i) < At(j)
  BY <1>1, <1>5
<1> HIDE DEF At
<1>9. Ordered(q)
  BY <1>6, <1>7, <1>8 DEF Ordered
<1> QED BY <1>7, <1>9 DEF p, q

-----------------------------------------------------------------------------
(* The initial states.                                                      *)

LEMMA RowTypes ==
  /\ ConnectionRow \in Rows /\ LifecycleRow \in Rows /\ StopRow \in Rows
  /\ \A c \in Clients : \A r \in Reports[c] : Identities(r) \subseteq Rows
BY DEF Rows

LEMMA InitInv == Init => IInv
<1> SUFFICES ASSUME Init PROVE IInv
  OBVIOUS
<1> USE WriterAssumption DEF Init
<1>1. /\ <<>> \in Seq(Rows) /\ <<>> \in Seq(Numbered) /\ <<>> \in Seq(Samples)
      /\ Len(<<>>) = 0
  BY EmptySeq
<1>2. Types
  <2>1. sent \in [Clients \cup {"main"} -> Seq(Rows)]
    BY <1>1, Zenon
  <2>2. seen \in [Clients -> SUBSET Rows] /\ shown \in [Clients -> SUBSET Rows]
    OBVIOUS
  <2>3. DOMAIN todo = Clients /\ \A c \in Clients : todo[c] \in Reports[c] \cup {<<>>}
    OBVIOUS
  <2>4. pending \in [DOMAIN pending -> Nat] /\ DOMAIN pending = {}
    BY DEF Nothing
  <2>5. /\ samples \in [Clients -> Nat] /\ newest \in [Clients -> Nat]
        /\ lastSample \in [Clients -> Nat]
    OBVIOUS
  <2>6. 0 \in 0..MaxErrors /\ 0 <= StatsCapacity
    OBVIOUS
  <2>7. TypeOK
    BY <1>1, <2>1, <2>4, <2>5, <2>6 DEF TypeOK
  <2> QED BY <2>1, <2>2, <2>3, <2>4, <2>7 DEF Types
<1>3. HandshakeInv
  BY DEF HandshakeInv, Senders
<1>4. QueueInv
  <2>1. Commands = <<>> /\ Len(Commands) = 0
    BY <1>1, ConcatEmptySeq DEF Commands
  <2>2. \A t \in Clients \cup {"main"} : sent[t] = <<>>
    OBVIOUS
  <2> QED BY <1>1, <2>1, <2>2 DEF QueueInv, Ordered
<1>5. ReportInv
  BY <1>1 DEF ReportInv
<1>6. SampleInv
  BY <1>1 DEF SampleInv, Nothing
<1> QED BY <1>2, <1>3, <1>4, <1>5, <1>6 DEF IInv

-----------------------------------------------------------------------------
(* A command is sent.                                                       *)

LEMMA QueueTypes ==
  ASSUME Types
  PROVE  /\ db \in Seq(Numbered) /\ controls \in Seq(Numbered) /\ control \in Seq(Numbered)
         /\ Commands \in Seq(Numbered) /\ Len(Commands) \in Nat
         /\ \A i \in 1..Len(Commands) : Commands[i] \in Numbered
<1>1. db \in Seq(Numbered) /\ controls \in Seq(Numbered) /\ control \in Seq(Numbered)
  BY DEF Types, TypeOK
<1>2. Commands \in Seq(Numbered)
  BY <1>1, ConcatProperties DEF Commands
<1> QED BY <1>1, <1>2, LenProperties, ElementOfSeq

(* The channel takes it unless the writer has stopped, which it only does   *)
(* before its senders are gone when a transaction failed.                   *)
LEMMA CommandSent ==
  ASSUME Types, HandshakeInv, QueueInv, NEW s \in Clients \cup {"main"}, s \in senders,
         NEW row \in Rows, SendControl(s, row), UNCHANGED <<db, controls, wpc, failed>>
  PROVE  /\ sent' \in [Clients \cup {"main"} -> Seq(Rows)]
         /\ \A t \in Clients \cup {"main"} : sent'[t] = IF t = s THEN Append(sent[s], row) ELSE sent[t]
         /\ DOMAIN sent' = Clients \cup {"main"} /\ control' \in Seq(Numbered)
         /\ Ordered(Commands)'
         /\ \A i \in 1..Len(Commands') : Commands'[i][2] \in 1..Len(sent'[Commands'[i][1]])
         /\ ~failed => \A t \in Clients \cup {"main"} : \A n \in 1..Len(sent'[t]) :
                         \E i \in 1..Len(Commands') : Commands'[i] = <<t, n>>
         /\ ~failed => Commands'[Len(Commands')] = <<s, Len(sent[s]) + 1>>
<1> DEFINE n == Len(sent[s]) + 1
           e == <<s, n>>
           T == Clients \cup {"main"}
<1>1. sent \in [T -> Seq(Rows)] /\ sent[s] \in Seq(Rows) /\ Len(sent[s]) \in Nat
  BY LenProperties DEF Types
<1>2. Append(sent[s], row) \in Seq(Rows) /\ Len(Append(sent[s], row)) = n
  BY <1>1, AppendProperties
<1>3. sent' = [sent EXCEPT ![s] = Append(sent[s], row)]
      /\ control' = IF Receiving THEN Append(control, e) ELSE control
  BY DEF SendControl
<1>4. /\ sent' \in [T -> Seq(Rows)] /\ DOMAIN sent' = T
      /\ \A t \in T : sent'[t] = IF t = s THEN Append(sent[s], row) ELSE sent[t]
  BY <1>1, <1>2, <1>3
<1>5. /\ n \in Nat /\ e \in Numbered
      /\ \A t \in T : Len(sent[t]) \in Nat
      /\ \A t \in T : Len(sent'[t]) = IF t = s THEN n ELSE Len(sent[t])
  <2>1. \A t \in T : Len(sent[t]) \in Nat
    BY <1>1, LenProperties
  <2>2. n \in Nat /\ e \in Numbered
    BY <1>1 DEF Numbered
  <2>3. \A t \in T : Len(sent'[t]) = IF t = s THEN n ELSE Len(sent[t])
    <3> HIDE DEF n
    <3> QED BY <1>2, <1>4
  <2> QED BY <2>1, <2>2, <2>3
<1>6. /\ Commands \in Seq(Numbered) /\ Len(Commands) \in Nat
      /\ \A i \in 1..Len(Commands) : Commands[i] \in Numbered
      /\ control \in Seq(Numbered) /\ controls \in Seq(Numbered) /\ db \in Seq(Numbered)
  BY QueueTypes
<1>0. Len(sent[s]) \in Nat /\ n = Len(sent[s]) + 1
  BY <1>1
<1> HIDE DEF e, n, T
<1>7. /\ Ordered(Commands)
      /\ \A i \in 1..Len(Commands) : Commands[i][2] \in 1..Len(sent[Commands[i][1]])
      /\ ~failed => \A t \in T : \A m \in 1..Len(sent[t]) :
                      \E i \in 1..Len(Commands) : Commands[i] = <<t, m>>
  BY DEF QueueInv, T
<1>8. \A i \in 1..Len(Commands) : /\ Commands[i][1] \in T /\ Commands[i][2] \in Nat
                                  /\ Commands[i] = <<Commands[i][1], Commands[i][2]>>
  BY <1>6 DEF Numbered, T
<1>9. CASE Receiving
  <2>1. control' = Append(control, e) /\ control' \in Seq(Numbered)
    BY <1>3, <1>5, <1>6, <1>9, AppendProperties
  <2>2. Commands' = Append(Commands, e)
    <3>1. (db \o controls) \o Append(control, e) = Append((db \o controls) \o control, e)
      BY SMTT(30), <1>5, <1>6, AppendLast
    <3> QED BY <2>1, <3>1 DEF Commands
  <2>3. /\ Len(Commands') = Len(Commands) + 1 /\ Commands'[Len(Commands) + 1] = e
        /\ \A i \in 1..Len(Commands) : Commands'[i] = Commands[i]
    BY <1>5, <1>6, <2>2, AppendProperties
  <2>4. e[1] = s /\ e[2] = n /\ s \in T
    BY DEF e, T
  <2>5. Ordered(Commands')
    <3> SUFFICES ASSUME NEW i \in 1..Len(Commands'), NEW j \in 1..Len(Commands'),
                        i < j, Commands'[i][1] = Commands'[j][1]
                 PROVE  Commands'[i][2] < Commands'[j][2]
      BY DEF Ordered
    <3>1. i \in 1..Len(Commands) /\ Commands'[i] = Commands[i]
      BY <1>6, <2>3
    <3>2. CASE j \in 1..Len(Commands)
      BY <1>7, <2>3, <3>1, <3>2 DEF Ordered
    <3>3. CASE j = Len(Commands) + 1
      <4>1. Commands[i][1] = s /\ Commands'[j][2] = n
        BY <2>3, <2>4, <3>1, <3>3
      <4>2. Commands[i][2] \in 1..Len(sent[s])
        BY <1>7, <3>1, <4>1
      <4>3. Commands[i][2] < n
        BY <1>0, <4>2
      <4> QED BY <3>1, <4>1, <4>3
    <3>4. j \in 1..Len(Commands) \/ j = Len(Commands) + 1
      BY <1>6, <2>3
    <3> QED BY <3>2, <3>3, <3>4
  <2>6. \A i \in 1..Len(Commands') : Commands'[i][2] \in 1..Len(sent'[Commands'[i][1]])
    <3> SUFFICES ASSUME NEW i \in 1..Len(Commands')
                 PROVE  Commands'[i][2] \in 1..Len(sent'[Commands'[i][1]])
      OBVIOUS
    <3>1. CASE i \in 1..Len(Commands)
      <4>1. Commands[i][1] \in T /\ Commands[i][2] \in 1..Len(sent[Commands[i][1]])
        BY <1>7, <1>8, <3>1
      <4>2. Commands[i][2] \in 1..Len(sent'[Commands[i][1]])
        BY SMTT(30), <1>0, <1>5, <4>1
      <4> QED BY <2>3, <3>1, <4>2
    <3>2. CASE i = Len(Commands) + 1
      <4>1. Commands'[i][1] = s /\ Commands'[i][2] = n /\ Len(sent'[s]) = n
        BY <1>5, <2>3, <2>4, <3>2
      <4> QED BY <1>0, <4>1
    <3> QED BY <1>6, <2>3, <3>1, <3>2
  <2>7. ~failed => \A t \in T : \A m \in 1..Len(sent'[t]) :
                     \E i \in 1..Len(Commands') : Commands'[i] = <<t, m>>
    <3> SUFFICES ASSUME ~failed, NEW t \in T, NEW m \in 1..Len(sent'[t])
                 PROVE  \E i \in 1..Len(Commands') : Commands'[i] = <<t, m>>
      OBVIOUS
    <3>1. CASE m \in 1..Len(sent[t])
      <4>1. PICK i \in 1..Len(Commands) : Commands[i] = <<t, m>>
        BY <1>7, <3>1
      <4>2. i \in 1..Len(Commands') /\ Commands'[i] = <<t, m>>
        BY SMTT(30), <1>6, <2>3, <4>1
      <4> QED BY <4>2
    <3>2. CASE t = s /\ m = n
      <4>1. Commands'[Len(Commands) + 1] = <<t, m>> /\ Len(Commands) + 1 \in 1..Len(Commands')
        BY <1>6, <2>3, <3>2 DEF e
      <4> QED BY <4>1
    <3> QED BY <1>0, <1>5, <3>1, <3>2
  <2> QED BY <1>4, <2>1, <2>3, <2>5, <2>6, <2>7 DEF T, e, n
<1>10. CASE ~Receiving
  <2>1. failed
    BY <1>10 DEF HandshakeInv, Receiving
  <2>2. control' = control /\ Commands' = Commands
    BY <1>3, <1>10 DEF Commands
  <2>3. \A i \in 1..Len(Commands) : Commands[i][2] \in 1..Len(sent'[Commands[i][1]])
    <3> SUFFICES ASSUME NEW i \in 1..Len(Commands)
                 PROVE  Commands[i][2] \in 1..Len(sent'[Commands[i][1]])
      OBVIOUS
    <3>1. Commands[i][1] \in T /\ Commands[i][2] \in 1..Len(sent[Commands[i][1]])
      BY <1>7, <1>8
    <3> QED BY SMTT(30), <1>0, <1>5, <3>1
  <2> QED BY <1>4, <1>6, <1>7, <2>1, <2>2, <2>3 DEF T
<1> QED BY <1>9, <1>10

-----------------------------------------------------------------------------
(* What a step leaves alone.                                                *)

LEMMA QueueKept ==
  ASSUME QueueInv, UNCHANGED <<sent, failed>>, Commands' = Commands,
         main' # "running" => main # "running"
  PROVE  QueueInv'
BY DEF QueueInv

LEMMA ReportKept ==
  ASSUME ReportInv, UNCHANGED <<sent, seen, shown, todo>>
  PROVE  ReportInv'
BY DEF ReportInv

LEMMA SampleKept ==
  ASSUME SampleInv, UNCHANGED <<samples, newest, lastSample, pending, stats>>
  PROVE  SampleInv'
BY DEF SampleInv

(* Types of what a step of the senders leaves alone.                        *)
LEMMA SenderTypes ==
  ASSUME Types, UNCHANGED WriterState,
         senders' \subseteq Senders, main' \in {"running", "stopSent", "joining", "joined"},
         offered' \subseteq Clients,
         sent' \in [Clients \cup {"main"} -> Seq(Rows)], control' \in Seq(Numbered),
         samples' \in [Clients -> Nat], stats' \in Seq(Samples), Len(stats') <= StatsCapacity,
         dropped' \in Nat,
         seen' \in [Clients -> SUBSET Rows], shown' \in [Clients -> SUBSET Rows],
         DOMAIN todo' = Clients, \A c \in Clients : todo'[c] \in Reports[c] \cup {<<>>}
  PROVE  Types'
<1>1. UNCHANGED <<wpc, windowed, controlOpen, statsOpen, controls, pending, replaced, newest,
                  errors, db, lastSample, written, failed>>
  BY DEF WriterState, gathered, storage
<1>2. DOMAIN sent' = Clients \cup {"main"}
  OBVIOUS
<1>3. TypeOK'
  BY <1>1, <1>2 DEF Types, TypeOK
<1> QED BY <1>1, <1>3 DEF Types

-----------------------------------------------------------------------------
(* The connections.                                                         *)

(* A connection's command, whatever it is.                                  *)
LEMMA ConnectionSends ==
  ASSUME IInv, NEW c \in Clients, c \in senders, NEW row \in Rows, SendControl(c, row),
         UNCHANGED <<main, samples, stats, dropped, WriterState>>,
         senders' \in {senders, senders \ {c}}, offered' \subseteq Clients,
         seen' \in [Clients -> SUBSET Rows], shown' \in [Clients -> SUBSET Rows],
         DOMAIN todo' = Clients, \A d \in Clients : todo'[d] \in Reports[d] \cup {<<>>},
         \A d \in Clients : todo'[d] # <<>> => d \in senders'
  PROVE  Types' /\ HandshakeInv' /\ QueueInv' /\ SampleInv'
<1>1. UNCHANGED <<wpc, windowed, controlOpen, statsOpen, controls, pending, replaced, newest,
                  errors, db, lastSample, written, failed>>
  BY DEF WriterState, gathered, storage
<1>2. c # "main" /\ c # "self"
  BY WriterAssumption
<1>3. /\ sent' \in [Clients \cup {"main"} -> Seq(Rows)] /\ control' \in Seq(Numbered)
      /\ \A t \in Clients \cup {"main"} :
           sent'[t] = IF t = c THEN Append(sent[c], row) ELSE sent[t]
      /\ Ordered(Commands)'
      /\ \A i \in 1..Len(Commands') : Commands'[i][2] \in 1..Len(sent'[Commands'[i][1]])
      /\ ~failed => \A t \in Clients \cup {"main"} : \A n \in 1..Len(sent'[t]) :
                      \E i \in 1..Len(Commands') : Commands'[i] = <<t, n>>
  BY <1>1, CommandSent DEF IInv
<1>4. main = "running" /\ controlOpen
  BY <1>2 DEF IInv, Types, TypeOK, HandshakeInv
<1>5. Types'
  <2>1. /\ senders' \subseteq Senders /\ main' \in {"running", "stopSent", "joining", "joined"}
        /\ samples' \in [Clients -> Nat] /\ stats' \in Seq(Samples)
        /\ Len(stats') <= StatsCapacity /\ dropped' \in Nat
    BY DEF IInv, Types, TypeOK
  <2> QED BY <1>3, <2>1, SenderTypes DEF IInv
<1>6. HandshakeInv'
  <2>1. sent'["main"] = sent["main"]
    BY <1>2, <1>3
  <2>2. {"main", "self"} \subseteq senders'
    BY <1>2, <1>4 DEF IInv, HandshakeInv
  <2> QED BY <1>1, <1>4, <2>1, <2>2 DEF IInv, HandshakeInv
<1>7. QueueInv'
  BY <1>1, <1>3, <1>4 DEF QueueInv
<1>8. SampleInv'
  BY <1>1, SampleKept DEF IInv
<1> QED BY <1>5, <1>6, <1>7, <1>8

(* The rows of a connection after one more: earlier ones stay.              *)
LEMMA RowAppended ==
  ASSUME Types, NEW c \in Clients, NEW row \in Rows,
         sent' = [sent EXCEPT ![c] = Append(sent[c], row)]
  PROVE  /\ \A d \in Clients : d # c => sent'[d] = sent[d]
         /\ Len(sent[c]) \in Nat /\ Len(sent'[c]) = Len(sent[c]) + 1
         /\ sent'[c][Len(sent[c]) + 1] = row
         /\ \A n \in 1..Len(sent[c]) : sent'[c][n] = sent[c][n]
<1>1. sent \in [Clients \cup {"main"} -> Seq(Rows)] /\ sent[c] \in Seq(Rows)
  BY DEF Types
<1>2. sent'[c] = Append(sent[c], row) /\ \A d \in Clients : d # c => sent'[d] = sent[d]
  BY <1>1
<1> QED BY <1>1, <1>2, AppendProperties, LenProperties

(* A row that is sent with every connection is no static one.               *)
LEMMA LifeRowSent ==
  ASSUME Types, ReportInv, NEW c \in Clients, NEW row \in {ConnectionRow, LifecycleRow},
         sent' = [sent EXCEPT ![c] = Append(sent[c], row)], UNCHANGED <<seen, shown, todo>>
  PROVE  ReportInv'
<1>1. /\ \A d \in Clients : d # c => sent'[d] = sent[d]
      /\ Len(sent[c]) \in Nat /\ Len(sent'[c]) = Len(sent[c]) + 1
      /\ sent'[c][Len(sent[c]) + 1] = row
      /\ \A n \in 1..Len(sent[c]) : sent'[c][n] = sent[c][n]
  BY RowTypes, RowAppended
<1>2. row \notin seen[c]
  BY DEF ReportInv
<1> SUFFICES ASSUME NEW d \in Clients
             PROVE  /\ shown'[d] \subseteq seen'[d] \cup Identities(todo'[d])
                    /\ \A x \in seen'[d] : \E n \in 1..Len(sent'[d]) : sent'[d][n] = x
                    /\ \A n \in 1..Len(sent'[d]) :
                         sent'[d][n] \in seen'[d] \cup {ConnectionRow, LifecycleRow}
                    /\ \A m, n \in 1..Len(sent'[d]) :
                         sent'[d][m] \in seen'[d] /\ sent'[d][m] = sent'[d][n] => m = n
                    /\ ConnectionRow \notin seen'[d] /\ LifecycleRow \notin seen'[d]
  BY DEF ReportInv
<1>3. CASE d # c
  BY <1>1, <1>3 DEF ReportInv
<1>4. CASE d = c
  <2>1. \A n \in 1..Len(sent'[c]) : n \in 1..Len(sent[c]) \/ n = Len(sent[c]) + 1
    BY <1>1
  <2>2. \A n \in 1..Len(sent[c]) : n \in 1..Len(sent'[c])
    BY <1>1
  <2> HIDE DEF ConnectionRow, LifecycleRow
  <2>3. \A x \in seen[c] : \E n \in 1..Len(sent'[c]) : sent'[c][n] = x
    BY <1>1, <2>2 DEF ReportInv
  <2>4. \A n \in 1..Len(sent'[c]) : sent'[c][n] \in seen[c] \cup {ConnectionRow, LifecycleRow}
    BY <1>1, <2>1 DEF ReportInv
  <2>5. \A m, n \in 1..Len(sent'[c]) :
          sent'[c][m] \in seen[c] /\ sent'[c][m] = sent'[c][n] => m = n
    BY <1>1, <1>2, <2>1 DEF ReportInv
  <2> QED BY <1>4, <2>3, <2>4, <2>5 DEF ReportInv
<1> QED BY <1>3, <1>4

(* A report's static rows are its entries' identities, which are no rows of *)
(* the connection itself.                                                   *)
LEMMA StaticIdentity ==
  ASSUME NEW r, NEW i \in DOMAIN r, IsStatic(r[i])
  PROVE  /\ Identity(r[i]) \in Identities(r)
         /\ Identity(r[i]) # ConnectionRow /\ Identity(r[i]) # LifecycleRow
<1>1. r[i] \in Range(r)
  BY DEF Range
<1>2. Identity(r[i]) \in Identities(r)
  BY <1>1 DEF Identities
<1>3. r[i].type \in {"codec", "local-candidate", "remote-candidate", "certificate"}
  BY DEF IsStatic, StaticTypes
<1>4. Identity(r[i])[1] = r[i].type
  BY DEF Identity
<1>5. ConnectionRow[1] = "connection" /\ LifecycleRow[1] = "lifecycle"
  BY DEF ConnectionRow, LifecycleRow
<1>6. Identity(r[i])[1] # ConnectionRow[1] /\ Identity(r[i])[1] # LifecycleRow[1]
  BY <1>3, <1>4, <1>5
<1> QED BY <1>2, <1>6

LEMMA NoneUnseen ==
  ASSUME NEW r, NEW s, Unseen(r, s) = {}
  PROVE  Identities(r) \subseteq s
BY DEF Unseen, Identities, Range

LEMMA EmptyReport == Identities(<<>>) = {}
BY DEF Identities, Range

(* What is at hand is the report or, when nothing of it is left, nothing.   *)
LEMMA ReportAtHand ==
  ASSUME NEW r, NEW s
  PROVE  /\ Remaining(r, s) \in {r, <<>>}
         /\ Identities(r) \subseteq s \cup Identities(Remaining(r, s))
BY NoneUnseen, EmptyReport DEF Remaining

(* A row that is sent for the first time is sent once.                      *)
LEMMA StaticRowSent ==
  ASSUME Types, ReportInv, NEW c \in Clients, NEW i \in Unseen(todo[c], seen[c]),
         sent' = [sent EXCEPT ![c] = Append(sent[c], Identity(todo[c][i]))],
         seen' = [seen EXCEPT ![c] = seen[c] \cup {Identity(todo[c][i])}],
         todo' = [todo EXCEPT ![c] = Remaining(todo[c], seen'[c])],
         UNCHANGED shown
  PROVE  /\ ReportInv' /\ Identity(todo[c][i]) \in Rows /\ seen' \in [Clients -> SUBSET Rows]
         /\ DOMAIN todo' = Clients
         /\ \A d \in Clients : todo'[d] \in {todo[d], <<>>}
<1> DEFINE row == Identity(todo[c][i])
<1>1. i \in DOMAIN todo[c] /\ IsStatic(todo[c][i]) /\ row \notin seen[c]
  BY DEF Unseen
<1>2. /\ row \in Identities(todo[c]) /\ row # ConnectionRow /\ row # LifecycleRow
  BY <1>1, StaticIdentity
<1>3. row \in Rows
  BY <1>2, RowTypes, EmptyReport DEF Types
<1>4. /\ seen' \in [Clients -> SUBSET Rows] /\ seen'[c] = seen[c] \cup {row}
      /\ \A d \in Clients : d # c => seen'[d] = seen[d]
  <2> HIDE DEF row
  <2> QED BY <1>3 DEF Types, row
<1>5. /\ DOMAIN todo' = Clients /\ todo'[c] = Remaining(todo[c], seen'[c])
      /\ \A d \in Clients : d # c => todo'[d] = todo[d]
  BY DEF Types
<1>6. /\ todo'[c] \in {todo[c], <<>>}
      /\ Identities(todo[c]) \subseteq seen'[c] \cup Identities(todo'[c])
  BY <1>5, ReportAtHand
<1>7. /\ \A d \in Clients : d # c => sent'[d] = sent[d]
      /\ Len(sent[c]) \in Nat /\ Len(sent'[c]) = Len(sent[c]) + 1
      /\ sent'[c][Len(sent[c]) + 1] = row
      /\ \A n \in 1..Len(sent[c]) : sent'[c][n] = sent[c][n]
  BY <1>3, RowAppended
<1> HIDE DEF row
<1>8. ReportInv'
  <2> SUFFICES ASSUME NEW d \in Clients
               PROVE  /\ shown'[d] \subseteq seen'[d] \cup Identities(todo'[d])
                      /\ \A x \in seen'[d] : \E n \in 1..Len(sent'[d]) : sent'[d][n] = x
                      /\ \A n \in 1..Len(sent'[d]) :
                           sent'[d][n] \in seen'[d] \cup {ConnectionRow, LifecycleRow}
                      /\ \A m, n \in 1..Len(sent'[d]) :
                           sent'[d][m] \in seen'[d] /\ sent'[d][m] = sent'[d][n] => m = n
                      /\ ConnectionRow \notin seen'[d] /\ LifecycleRow \notin seen'[d]
    BY DEF ReportInv
  <2>1. CASE d # c
    <3>1. /\ shown'[d] = shown[d] /\ seen'[d] = seen[d] /\ todo'[d] = todo[d]
          /\ sent'[d] = sent[d]
      BY <1>4, <1>5, <1>7, <2>1
    <3> QED BY <2>1, <3>1 DEF ReportInv
  <2>2. CASE d = c
    <3>1. \A n \in 1..Len(sent'[c]) : n \in 1..Len(sent[c]) \/ n = Len(sent[c]) + 1
      BY <1>7
    <3>2. /\ \A n \in 1..Len(sent[c]) : n \in 1..Len(sent'[c])
          /\ Len(sent[c]) + 1 \in 1..Len(sent'[c])
      BY <1>7
    <3>3. shown'[c] \subseteq seen'[c] \cup Identities(todo'[c])
      BY <1>4, <1>6 DEF ReportInv
    <3>4. \A x \in seen'[c] : \E n \in 1..Len(sent'[c]) : sent'[c][n] = x
      BY <1>4, <1>7, <3>2 DEF ReportInv
    <3>5. \A n \in 1..Len(sent'[c]) : sent'[c][n] \in seen'[c] \cup {ConnectionRow, LifecycleRow}
      BY <1>4, <1>7, <3>1 DEF ReportInv
    <3>6. \A n \in 1..Len(sent[c]) : sent[c][n] # row
      BY <1>1, <1>2 DEF ReportInv, row
    <3>7. \A m, n \in 1..Len(sent'[c]) :
            sent'[c][m] \in seen'[c] /\ sent'[c][m] = sent'[c][n] => m = n
      BY <1>4, <1>7, <3>1, <3>6 DEF ReportInv
    <3>8. ConnectionRow \notin seen'[c] /\ LifecycleRow \notin seen'[c]
      BY <1>2, <1>4 DEF ReportInv, row
    <3> QED BY <2>2, <3>3, <3>4, <3>5, <3>7, <3>8
  <2> QED BY <2>1, <2>2
<1> QED BY <1>3, <1>4, <1>5, <1>6, <1>8 DEF row

(* A tick of the statistics task.                                           *)
LEMMA TickStep ==
  ASSUME IInv, NEW c \in Clients, Tick(c)
  PROVE  IInv'
<1>1. PICK r \in Reports[c] :
        /\ todo' = [todo EXCEPT ![c] = Remaining(r, seen[c])]
        /\ shown' = [shown EXCEPT ![c] = shown[c] \cup Identities(r)]
  BY DEF Tick
<1>2. /\ c \in senders /\ UNCHANGED <<senders, main, sent, samples, offered, seen, control, stats,
                                      dropped, WriterState>>
  BY DEF Tick
<1>3. Identities(r) \subseteq Rows
  BY RowTypes
<1>4. Remaining(r, seen[c]) \in {r, <<>>}
      /\ Identities(r) \subseteq seen[c] \cup Identities(Remaining(r, seen[c]))
  BY ReportAtHand
<1>5. /\ DOMAIN todo' = Clients /\ todo'[c] = Remaining(r, seen[c])
      /\ \A d \in Clients : d # c => todo'[d] = todo[d]
  BY <1>1 DEF IInv, Types
<1>6. /\ shown' \in [Clients -> SUBSET Rows] /\ shown'[c] = shown[c] \cup Identities(r)
      /\ \A d \in Clients : d # c => shown'[d] = shown[d]
  BY <1>1, <1>3 DEF IInv, Types
<1>7. \A d \in Clients : todo'[d] \in Reports[d] \cup {<<>>}
  BY <1>4, <1>5 DEF IInv, Types
<1>8. Types'
  BY <1>2, <1>5, <1>6, <1>7, SenderTypes DEF IInv, Types, TypeOK
<1>9. UNCHANGED <<wpc, controlOpen, controls, pending, newest, errors, db, lastSample, failed>>
  BY <1>2 DEF WriterState, gathered, storage
<1>10. HandshakeInv'
  BY <1>2, <1>5, <1>9 DEF IInv, HandshakeInv
<1>11. QueueInv'
  BY <1>2, <1>9, QueueKept DEF IInv, Commands
<1>12. SampleInv'
  BY <1>2, <1>9, SampleKept DEF IInv
<1>13. ReportInv'
  <2> SUFFICES ASSUME NEW d \in Clients
               PROVE  shown'[d] \subseteq seen[d] \cup Identities(todo'[d])
    BY <1>2 DEF IInv, ReportInv
  <2>1. CASE d # c
    BY <1>5, <1>6, <2>1 DEF IInv, ReportInv
  <2>2. CASE d = c
    <3>1. shown[c] \subseteq seen[c] \cup Identities(todo[c]) /\ todo[c] = <<>>
      BY DEF IInv, ReportInv, Tick
    <3> QED BY <1>4, <1>5, <1>6, <2>2, <3>1, EmptyReport
  <2> QED BY <2>1, <2>2
<1> QED BY <1>8, <1>10, <1>11, <1>12, <1>13 DEF IInv

(* try_send_stats: what is in the channel is newer than what was taken.     *)
LEMMA SampleStep ==
  ASSUME IInv, NEW c \in Clients, SendSample(c)
  PROVE  IInv'
<1> DEFINE n == samples[c] + 1
           e == <<c, n>>
<1>1. /\ todo[c] # <<>> /\ Unseen(todo[c], seen[c]) = {}
      /\ samples' = [samples EXCEPT ![c] = n] /\ todo' = [todo EXCEPT ![c] = <<>>]
      /\ UNCHANGED <<senders, main, sent, offered, seen, shown, control, WriterState>>
  BY DEF SendSample
<1>2. LET fits == Receiving /\ Len(stats) < StatsCapacity IN
      /\ stats' = IF fits THEN Append(stats, e) ELSE stats
      /\ dropped' = IF fits THEN dropped ELSE dropped + 1
  BY DEF SendSample, TrySendStats
<1>3. /\ stats \in Seq(Samples) /\ samples \in [Clients -> Nat] /\ Len(stats) \in Nat
      /\ Len(stats) <= StatsCapacity /\ dropped \in Nat /\ newest \in [Clients -> Nat]
      /\ lastSample \in [Clients -> Nat] /\ DOMAIN pending \subseteq Clients
      /\ StatsCapacity \in Nat
  BY WriterAssumption, LenProperties DEF IInv, Types, TypeOK
<1>4. n \in Nat /\ e \in Samples /\ e[1] = c /\ e[2] = n /\ samples[c] < n
  BY <1>3 DEF Samples
<1>5. UNCHANGED <<wpc, controlOpen, controls, pending, newest, errors, db, lastSample, failed>>
  BY <1>1 DEF WriterState, gathered, storage
<1> HIDE DEF e, n
<1>6. /\ samples' \in [Clients -> Nat]
      /\ \A d \in Clients : samples'[d] = IF d = c THEN n ELSE samples[d]
  BY <1>1, <1>3, <1>4
<1>7. \A d \in Clients : samples[d] \in Nat /\ samples'[d] \in Nat /\ samples[d] <= samples'[d]
  <2> SUFFICES ASSUME NEW d \in Clients
               PROVE  samples[d] \in Nat /\ samples'[d] \in Nat /\ samples[d] <= samples'[d]
    OBVIOUS
  <2>1. samples[d] \in Nat /\ samples[c] \in Nat /\ samples[c] <= n
    BY <1>3, <1>4
  <2> QED BY <1>4, <1>6, <2>1
<1>8. \/ stats' = stats /\ dropped' \in Nat
      \/ /\ stats' \in Seq(Samples) /\ Len(stats') = Len(stats) + 1 /\ dropped' = dropped
         /\ stats'[Len(stats) + 1] = e /\ \A i \in 1..Len(stats) : stats'[i] = stats[i]
         /\ Len(stats') <= StatsCapacity
  BY <1>2, <1>3, <1>4, AppendProperties
<1>9. /\ DOMAIN todo' = Clients /\ todo'[c] = <<>>
      /\ \A d \in Clients : d # c => todo'[d] = todo[d]
  BY <1>1 DEF IInv, Types
<1>10. Types'
  <2>1. stats' \in Seq(Samples) /\ Len(stats') <= StatsCapacity /\ dropped' \in Nat
    BY <1>3, <1>8
  <2>2. \A d \in Clients : todo'[d] \in Reports[d] \cup {<<>>}
    BY <1>9 DEF IInv, Types
  <2> QED BY <1>1, <1>6, <1>9, <2>1, <2>2, SenderTypes DEF IInv, Types, TypeOK
<1>11. HandshakeInv'
  BY <1>1, <1>5, <1>9 DEF IInv, HandshakeInv
<1>12. QueueInv'
  BY <1>1, <1>5, QueueKept DEF IInv, Commands
<1>13. ReportInv'
  <2> SUFFICES ASSUME NEW d \in Clients
               PROVE  shown[d] \subseteq seen[d] \cup Identities(todo'[d])
    BY <1>1 DEF IInv, ReportInv
  <2>1. CASE d # c
    BY <1>9, <2>1 DEF IInv, ReportInv
  <2>2. CASE d = c
    BY <1>1, <1>9, <2>2, NoneUnseen, EmptyReport DEF IInv, ReportInv
  <2> QED BY <2>1, <2>2
<1>14. SampleInv'
  <2>1. \A i \in 1..Len(stats) :
          /\ stats[i][1] \in Clients /\ stats[i][2] \in Nat /\ newest[stats[i][1]] < stats[i][2]
          /\ stats[i][2] <= samples[stats[i][1]]
    <3>1. \A i \in 1..Len(stats) : stats[i] \in Samples
      BY <1>3, ElementOfSeq
    <3>2. \A i \in 1..Len(stats) : /\ newest[stats[i][1]] < stats[i][2]
                                   /\ stats[i][2] <= samples[stats[i][1]]
      BY DEF IInv, SampleInv
    <3> QED BY <3>1, <3>2 DEF Samples
  <2>2. \A d \in Clients : lastSample[d] <= newest[d] /\ newest[d] <= samples[d]
                           /\ newest[d] \in Nat
    BY <1>3 DEF IInv, SampleInv
  <2>3. \A d \in Clients : lastSample[d] <= newest[d] /\ newest[d] <= samples'[d]
    BY <1>7, <2>2
  <2>4. \A d \in DOMAIN pending : pending[d] = newest[d] /\ lastSample[d] < newest[d]
    BY DEF IInv, SampleInv
  <2>5. /\ \A i \in 1..Len(stats) : newest[stats[i][1]] < stats[i][2]
                                    /\ stats[i][2] <= samples'[stats[i][1]]
        /\ \A i, j \in 1..Len(stats) :
             i < j /\ stats[i][1] = stats[j][1] => stats[i][2] < stats[j][2]
    BY <1>7, <2>1 DEF IInv, SampleInv
  <2>6. CASE stats' = stats
    BY <1>5, <2>3, <2>4, <2>5, <2>6 DEF SampleInv
  <2>7. CASE /\ Len(stats') = Len(stats) + 1 /\ stats'[Len(stats) + 1] = e
             /\ \A i \in 1..Len(stats) : stats'[i] = stats[i]
    <3>1. \A i \in 1..Len(stats') : i \in 1..Len(stats) \/ i = Len(stats) + 1
      BY <1>3, <2>7
    <3>2. newest[c] < n /\ n <= samples'[c]
      BY <1>4, <1>6, <1>7, <2>2
    <3>3. \A i \in 1..Len(stats') : newest[stats'[i][1]] < stats'[i][2]
                                    /\ stats'[i][2] <= samples'[stats'[i][1]]
      BY <1>4, <2>5, <2>7, <3>1, <3>2
    <3>4. \A i \in 1..Len(stats) : stats[i][1] = c => stats[i][2] < n
      BY <1>3, <1>4, <2>1
    <3>5. \A i, j \in 1..Len(stats') :
            i < j /\ stats'[i][1] = stats'[j][1] => stats'[i][2] < stats'[j][2]
      BY SMTT(30), <1>3, <1>4, <2>5, <2>7, <3>1, <3>4
    <3> QED BY <1>5, <2>3, <2>4, <3>3, <3>5 DEF SampleInv
  <2> QED BY <1>8, <2>6, <2>7
<1> QED BY <1>10, <1>11, <1>12, <1>13, <1>14 DEF IInv

LEMMA ConnectionStep ==
  ASSUME IInv, NEW c \in Clients,
         Offer(c) \/ Tick(c) \/ SendStatic(c) \/ SendSample(c) \/ Drop(c)
  PROVE  IInv'
<1>1. CASE Offer(c) \/ Drop(c)
  <2>1. PICK row \in {ConnectionRow, LifecycleRow} : SendControl(c, row)
    BY <1>1 DEF Offer, Drop
  <2>2. /\ c \in senders /\ UNCHANGED <<main, samples, stats, dropped, WriterState, seen, shown, todo>>
        /\ senders' \in {senders, senders \ {c}} /\ offered' \subseteq Clients
        /\ (senders' # senders => todo[c] = <<>>)
    BY <1>1 DEF Offer, Drop, reportVars, IInv, Types, TypeOK
  <2>3. \A d \in Clients : todo'[d] # <<>> => d \in senders'
    BY <2>2 DEF IInv, HandshakeInv
  <2>4. Types' /\ HandshakeInv' /\ QueueInv' /\ SampleInv'
    BY <2>1, <2>2, <2>3, ConnectionSends, RowTypes DEF IInv, Types
  <2>5. ReportInv'
    BY <2>1, <2>2, LifeRowSent DEF IInv, SendControl
  <2> QED BY <2>4, <2>5 DEF IInv
<1>2. CASE SendStatic(c)
  <2>1. PICK i \in Unseen(todo[c], seen[c]) :
          /\ SendControl(c, Identity(todo[c][i]))
          /\ seen' = [seen EXCEPT ![c] = seen[c] \cup {Identity(todo[c][i])}]
    BY <1>2 DEF SendStatic
  <2>2. /\ todo' = [todo EXCEPT ![c] = Remaining(todo[c], seen'[c])]
        /\ UNCHANGED <<senders, main, samples, offered, shown, stats, dropped, WriterState>>
    BY <1>2 DEF SendStatic
  <2>3. /\ ReportInv' /\ Identity(todo[c][i]) \in Rows /\ seen' \in [Clients -> SUBSET Rows]
        /\ DOMAIN todo' = Clients
        /\ \A d \in Clients : todo'[d] \in {todo[d], <<>>}
    BY <2>1, <2>2, StaticRowSent DEF IInv, SendControl
  <2>4. /\ \A d \in Clients : todo'[d] \in Reports[d] \cup {<<>>}
        /\ \A d \in Clients : todo'[d] # <<>> => d \in senders
    BY <2>3 DEF IInv, Types, HandshakeInv
  <2>5. c \in senders
    <3>1. todo[c] # <<>>
      BY DEF Unseen
    <3> QED BY <3>1 DEF IInv, HandshakeInv
  <2>6. Types' /\ HandshakeInv' /\ QueueInv' /\ SampleInv'
    BY <2>1, <2>2, <2>3, <2>4, <2>5, ConnectionSends DEF IInv, Types, TypeOK
  <2> QED BY <2>3, <2>6 DEF IInv
<1> QED BY <1>1, <1>2, TickStep, SampleStep

-----------------------------------------------------------------------------
(* The orchestrator.                                                        *)

LEMMA MainStep ==
  ASSUME IInv, SendStop \/ Join \/ Joined
  PROVE  IInv'
<1>1. /\ UNCHANGED <<samples, offered, seen, todo, shown, stats, dropped, WriterState>>
      /\ UNCHANGED <<wpc, windowed, controlOpen, statsOpen, controls, pending, replaced, newest,
                     errors, db, lastSample, written, failed>>
  BY DEF SendStop, Join, Joined, reportVars, WriterState, gathered, storage
<1>2. /\ senders' \subseteq Senders /\ main' \in {"running", "stopSent", "joining", "joined"}
      /\ main' # "running"
  BY DEF SendStop, Join, Joined, Senders, IInv, Types, TypeOK
<1>3. \A c \in Clients : todo[c] = <<>>
  BY WriterAssumption DEF SendStop, Join, Joined, IInv, HandshakeInv
<1>4. SampleInv'
  BY <1>1, SampleKept DEF IInv
<1>5. CASE SendStop
  <2>1. /\ main = "running" /\ senders = {"main", "self"} /\ main' = "stopSent"
        /\ senders' = {"self"} /\ SendControl("main", StopRow) /\ sent["main"] = <<>>
    BY <1>5 DEF SendStop, IInv, HandshakeInv
  <2>2. /\ sent' \in [Clients \cup {"main"} -> Seq(Rows)] /\ control' \in Seq(Numbered)
        /\ DOMAIN sent' = Clients \cup {"main"}
        /\ \A t \in Clients \cup {"main"} :
             sent'[t] = IF t = "main" THEN Append(sent["main"], StopRow) ELSE sent[t]
        /\ Ordered(Commands)'
        /\ \A i \in 1..Len(Commands') : Commands'[i][2] \in 1..Len(sent'[Commands'[i][1]])
        /\ ~failed => \A t \in Clients \cup {"main"} : \A n \in 1..Len(sent'[t]) :
                        \E i \in 1..Len(Commands') : Commands'[i] = <<t, n>>
        /\ ~failed => Commands'[Len(Commands')] = <<"main", Len(sent["main"]) + 1>>
    BY <1>1, <2>1, CommandSent, RowTypes DEF IInv
  <2>3. Len(sent["main"]) + 1 = 1 /\ sent'["main"] = <<StopRow>>
    BY <2>1, <2>2
  <2>4. Types'
    BY <1>1, <1>2, <2>2, SenderTypes DEF IInv, Types, TypeOK
  <2>5. HandshakeInv'
    <3>1. controlOpen
      BY <2>1 DEF IInv, HandshakeInv, Types, TypeOK
    <3> QED BY <1>1, <1>3, <2>1, <2>3, <3>1 DEF IInv, HandshakeInv
  <2>6. QueueInv'
    BY <1>1, <2>2, <2>3 DEF QueueInv
  <2>7. ReportInv'
    <3>1. \A c \in Clients : sent'[c] = sent[c]
      BY <2>2, WriterAssumption
    <3> QED BY <1>1, <3>1 DEF IInv, ReportInv
  <2> QED BY <1>4, <2>4, <2>5, <2>6, <2>7 DEF IInv
<1>6. CASE Join \/ Joined
  <2>1. UNCHANGED <<sent, control>> /\ main # "running" /\ senders' = {}
        /\ (main' = "joined" => wpc = "stopped")
    BY <1>6 DEF Join, Joined, IInv, HandshakeInv
  <2>2. Types'
    BY <1>1, <1>2, <2>1, SenderTypes DEF IInv, Types, TypeOK
  <2>3. HandshakeInv'
    BY <1>1, <1>2, <1>3, <2>1 DEF IInv, HandshakeInv
  <2>4. QueueInv'
    BY <1>1, <2>1, QueueKept DEF IInv, Commands
  <2>5. ReportInv'
    BY <1>1, <2>1, ReportKept DEF IInv
  <2> QED BY <1>4, <2>2, <2>3, <2>4, <2>5 DEF IInv
<1> QED BY <1>5, <1>6

-----------------------------------------------------------------------------
(* The writer.                                                              *)

(* One move of the loop before it writes: something is taken, the end of a  *)
(* channel is seen, or neither.  Only an idle writer that saw both ends     *)
(* stops.                                                                   *)
LEMMA LoopMoves ==
  ASSUME IInv, Recv \/ DrainControls \/ DrainSamples \/ Window \/ WindowEnds \/ Stop
  PROVE  /\ wpc # "stopped" /\ windowed' \in BOOLEAN
         /\ \/ /\ TakeCommand \/ TakeSample
               /\ wpc' \in {"drainControls", "drainSamples", "window", "flush"}
            \/ /\ SeeControlEnd \/ SeeStatsEnd \/ Stay
               /\ wpc' \in {"recv", "drainControls", "drainSamples", "window", "flush", "stopped"}
               /\ wpc' = "recv" => wpc = "recv"
               /\ wpc' = "stopped" => wpc = "recv" /\ ~controlOpen /\ Stay
<1>1. windowed \in BOOLEAN
  BY DEF IInv, Types, TypeOK
<1>2. CASE Recv
  BY <1>1, <1>2 DEF Recv, TakeCommand, TakeSample, SeeControlEnd, SeeStatsEnd
<1>3. CASE DrainControls
  BY <1>1, <1>3 DEF DrainControls, TakeCommand, SeeControlEnd
<1>4. CASE Window \/ WindowEnds \/ Stop
  BY <1>1, <1>4 DEF Window, WindowEnds, Stop, TakeCommand, TakeSample, SeeControlEnd, SeeStatsEnd
<1>5. CASE DrainSamples
  <2>1. AfterDrain(controlOpen) \in {"window", "flush"}
        /\ AfterDrain(controlOpen \/ statsOpen) \in {"window", "flush"}
    BY DEF AfterDrain
  <2> QED BY <1>1, <1>5, <2>1 DEF DrainSamples, TakeSample, SeeStatsEnd
<1> QED BY <1>2, <1>3, <1>4, <1>5

(* What the writer's steps leave of the senders.                            *)
LEMMA WriterTypes ==
  ASSUME Types, UNCHANGED clientVars,
         control' \in Seq(Numbered), controls' \in Seq(Numbered), db' \in Seq(Numbered),
         stats' \in Seq(Samples), Len(stats') <= StatsCapacity,
         wpc' \in {"recv", "drainControls", "drainSamples", "window", "flush", "stopped"},
         windowed' \in BOOLEAN, controlOpen' \in BOOLEAN, statsOpen' \in BOOLEAN,
         replaced' \in Nat, newest' \in [Clients -> Nat],
         DOMAIN pending' \subseteq Clients, pending' \in [DOMAIN pending' -> Nat],
         errors' \in 0..MaxErrors, dropped' \in Nat, lastSample' \in [Clients -> Nat],
         written' \in Nat, failed' \in BOOLEAN
  PROVE  Types'
<1>1. UNCHANGED <<senders, main, sent, samples, offered, seen, todo, shown>>
  BY DEF clientVars, reportVars
<1>2. \A c \in DOMAIN pending' : pending'[c] \in Nat
  OBVIOUS
<1>3. TypeOK'
  BY <1>1, <1>2 DEF Types, TypeOK
<1> QED BY <1>1, <1>3 DEF Types

(* The next command goes from the channel to what is gathered.              *)
LEMMA CommandTaken ==
  ASSUME IInv, TakeCommand, wpc # "stopped",
         wpc' \in {"drainControls", "drainSamples", "window", "flush"}
  PROVE  IInv'
<1>1. /\ control # <<>> /\ controls' = Append(controls, Head(control)) /\ control' = Tail(control)
      /\ UNCHANGED <<clientVars, stats, windowed, controlOpen, statsOpen, pending, replaced, newest,
                     dropped, errors, db, lastSample, written, failed>>
  BY DEF TakeCommand, storage
<1>2. UNCHANGED <<senders, main, sent, samples, seen, todo, shown>>
  BY <1>1 DEF clientVars, reportVars
<1>3. control \in Seq(Numbered) /\ controls \in Seq(Numbered) /\ db \in Seq(Numbered)
  BY DEF IInv, Types, TypeOK
<1>4. control' \in Seq(Numbered) /\ controls' \in Seq(Numbered)
  BY <1>1, <1>3, HeadTailProperties, AppendProperties
<1>5. Types'
  BY <1>1, <1>4, WriterTypes DEF IInv, Types, TypeOK
<1>6. HandshakeInv'
  <2>1. controlOpen
    BY <1>1 DEF IInv, HandshakeInv, Types, TypeOK
  <2>2. main # "joined"
    BY DEF IInv, HandshakeInv
  <2> QED BY <1>1, <1>2, <2>1, <2>2 DEF IInv, HandshakeInv
<1>7. QueueInv'
  <2>1. (db \o Append(controls, Head(control))) \o Tail(control) = (db \o controls) \o control
    <3>1. control # <<>>
      BY <1>1
    <3> QED BY <1>3, <3>1, MoveHead
  <2>2. Commands' = Commands
    BY <1>1, <2>1 DEF Commands
  <2> QED BY <1>1, <1>2, <2>2, QueueKept DEF IInv
<1>8. ReportInv' /\ SampleInv'
  BY <1>1, <1>2, ReportKept, SampleKept DEF IInv
<1> QED BY <1>5, <1>6, <1>7, <1>8 DEF IInv

(* absorb_sample: what is taken is newer than all that was taken before.    *)
LEMMA SampleTaken ==
  ASSUME IInv, TakeSample, wpc # "stopped",
         wpc' \in {"drainControls", "drainSamples", "window", "flush"}
  PROVE  IInv'
<1> DEFINE c == Head(stats)[1]
           n == Head(stats)[2]
<1>1. /\ stats # <<>> /\ stats' = Tail(stats)
      /\ pending' = [d \in DOMAIN pending \cup {c} |-> IF d = c THEN n ELSE pending[d]]
      /\ replaced' = IF c \in DOMAIN pending THEN replaced + 1 ELSE replaced
      /\ newest' = [newest EXCEPT ![c] = IF newest[c] > n THEN newest[c] ELSE n]
      /\ UNCHANGED <<clientVars, control, windowed, controlOpen, statsOpen, controls, dropped,
                     errors, db, lastSample, written, failed>>
  BY DEF TakeSample, Absorb, storage
<1>2. UNCHANGED <<senders, main, sent, samples, seen, todo, shown>>
  BY <1>1 DEF clientVars, reportVars
<1>3. /\ stats \in Seq(Samples) /\ Len(stats) \in Nat /\ Len(stats) <= StatsCapacity
      /\ newest \in [Clients -> Nat] /\ lastSample \in [Clients -> Nat]
      /\ DOMAIN pending \subseteq Clients /\ pending \in [DOMAIN pending -> Nat]
      /\ replaced \in Nat /\ samples \in [Clients -> Nat] /\ StatsCapacity \in Nat
  BY LenProperties, WriterAssumption DEF IInv, Types, TypeOK
<1>4. /\ Head(stats) \in Samples /\ Tail(stats) \in Seq(Samples) /\ Head(stats) = stats[1]
      /\ Len(Tail(stats)) = Len(stats) - 1 /\ Len(stats) > 0
      /\ \A i \in 1..Len(Tail(stats)) : Tail(stats)[i] = stats[i + 1]
  BY <1>1, <1>3, HeadTailProperties, EmptySeq
<1>5. c \in Clients /\ n \in Nat /\ stats[1][1] = c /\ stats[1][2] = n
  BY <1>4 DEF Samples
<1> HIDE DEF c, n
<1>6. /\ \A i \in 1..Len(stats) : newest[stats[i][1]] < stats[i][2]
                                 /\ stats[i][2] <= samples[stats[i][1]]
      /\ \A i, j \in 1..Len(stats) :
           i < j /\ stats[i][1] = stats[j][1] => stats[i][2] < stats[j][2]
      /\ \A d \in Clients : lastSample[d] <= newest[d] /\ newest[d] <= samples[d]
      /\ \A d \in DOMAIN pending : pending[d] = newest[d] /\ lastSample[d] < newest[d]
  BY DEF IInv, SampleInv
<1>7. newest[c] < n /\ n <= samples[c] /\ newest[c] \in Nat /\ lastSample[c] \in Nat
  <2>1. 1 \in 1..Len(stats)
    BY <1>3, <1>4
  <2>2. newest[stats[1][1]] < stats[1][2] /\ stats[1][2] <= samples[stats[1][1]]
    BY <1>6, <2>1
  <2>3. newest[c] < n /\ n <= samples[c]
    BY <1>5, <2>2
  <2> QED BY <1>3, <1>5, <2>3
<1>8. /\ newest' \in [Clients -> Nat]
      /\ \A d \in Clients : newest'[d] = IF d = c THEN n ELSE newest[d]
  <2>1. (IF newest[c] > n THEN newest[c] ELSE n) = n
    BY <1>5, <1>7
  <2> QED BY <1>1, <1>3, <1>5, <2>1
<1>9. /\ DOMAIN pending' = DOMAIN pending \cup {c} /\ pending' \in [DOMAIN pending' -> Nat]
      /\ \A d \in DOMAIN pending' : pending'[d] = IF d = c THEN n ELSE pending[d]
  BY <1>1, <1>3, <1>5
<1>10. Types'
  <2>1. Len(stats') <= StatsCapacity /\ stats' \in Seq(Samples)
    BY <1>1, <1>3, <1>4
  <2>2. replaced' \in Nat /\ DOMAIN pending' \subseteq Clients
    BY SMTT(30), <1>1, <1>3, <1>5, <1>9
  <2> QED BY <1>1, <1>8, <1>9, <2>1, <2>2, WriterTypes DEF IInv, Types, TypeOK
<1>11. HandshakeInv'
  BY <1>1, <1>2 DEF IInv, HandshakeInv
<1>12. QueueInv' /\ ReportInv'
  BY <1>1, <1>2, QueueKept, ReportKept DEF IInv, Commands
<1>13. SampleInv'
  <2>1. \A d \in Clients : lastSample[d] <= newest'[d] /\ newest'[d] <= samples[d]
    <3> SUFFICES ASSUME NEW d \in Clients
                 PROVE  lastSample[d] <= newest'[d] /\ newest'[d] <= samples[d]
      OBVIOUS
    <3>1. lastSample[c] <= n
      BY <1>5, <1>6, <1>7
    <3> QED BY <1>6, <1>7, <1>8, <3>1
  <2>2. \A d \in DOMAIN pending' : pending'[d] = newest'[d] /\ lastSample[d] < newest'[d]
    <3> SUFFICES ASSUME NEW d \in DOMAIN pending'
                 PROVE  pending'[d] = newest'[d] /\ lastSample[d] < newest'[d]
      OBVIOUS
    <3>1. lastSample[c] < n
      BY <1>5, <1>6, <1>7
    <3>2. d \in Clients
      BY <1>3, <1>5, <1>9
    <3> QED BY <1>6, <1>8, <1>9, <3>1, <3>2
  <2>3. \A i \in 1..Len(stats') : /\ i + 1 \in 1..Len(stats) /\ 1 < i + 1
                                  /\ stats'[i] = stats[i + 1]
    BY <1>1, <1>3, <1>4
  <2>4. 1 \in 1..Len(stats) /\ \A i \in 1..Len(stats) : stats[i][1] \in Clients
    BY <1>3, <1>4, ElementOfSeq DEF Samples
  <2>5. \A i \in 1..Len(stats') : newest'[stats'[i][1]] < stats'[i][2]
                                 /\ stats'[i][2] <= samples[stats'[i][1]]
    <3> SUFFICES ASSUME NEW i \in 1..Len(stats')
                 PROVE  newest'[stats[i + 1][1]] < stats[i + 1][2]
                        /\ stats[i + 1][2] <= samples[stats[i + 1][1]]
      BY <2>3
    <3>1. i + 1 \in 1..Len(stats) /\ 1 < i + 1 /\ stats[i + 1][1] \in Clients
      BY <2>3, <2>4
    <3>2. stats[i + 1][1] = c => n < stats[i + 1][2]
      BY <1>5, <1>6, <2>4, <3>1
    <3> QED BY <1>6, <1>8, <3>1, <3>2
  <2>6. \A i, j \in 1..Len(stats') :
          i < j /\ stats'[i][1] = stats'[j][1] => stats'[i][2] < stats'[j][2]
    <3> SUFFICES ASSUME NEW i \in 1..Len(stats'), NEW j \in 1..Len(stats'), i < j,
                        stats[i + 1][1] = stats[j + 1][1]
                 PROVE  stats[i + 1][2] < stats[j + 1][2]
      BY <2>3
    <3>1. i + 1 \in 1..Len(stats) /\ j + 1 \in 1..Len(stats) /\ i + 1 < j + 1
      BY <2>3
    <3> QED BY <1>6, <3>1
  <2> QED BY <1>1, <1>2, <2>1, <2>2, <2>5, <2>6 DEF SampleInv
<1> QED BY <1>10, <1>11, <1>12, <1>13 DEF IInv

(* The end of a channel, the end of the window, the end of the loop.        *)
LEMMA EndSeen ==
  ASSUME IInv, SeeControlEnd \/ SeeStatsEnd \/ Stay,
         wpc # "stopped", windowed' \in BOOLEAN,
         wpc' \in {"recv", "drainControls", "drainSamples", "window", "flush", "stopped"},
         wpc' = "recv" => wpc = "recv",
         wpc' = "stopped" => wpc = "recv" /\ ~controlOpen /\ Stay
  PROVE  IInv'
<1>1. /\ UNCHANGED <<clientVars, control, stats, gathered, dropped, storage>>
      /\ controlOpen' \in BOOLEAN /\ statsOpen' \in BOOLEAN
      /\ ~controlOpen' => ~controlOpen \/ (senders = {} /\ control = <<>>)
      /\ (wpc' = "stopped" => ~controlOpen')
  <2>1. controlOpen \in BOOLEAN /\ statsOpen \in BOOLEAN
    BY DEF IInv, Types, TypeOK
  <2>2. CASE SeeControlEnd
    BY <2>1, <2>2 DEF SeeControlEnd
  <2>3. CASE SeeStatsEnd
    BY <2>1, <2>3 DEF SeeStatsEnd, Stay
  <2>4. CASE Stay
    BY <2>1, <2>4 DEF Stay
  <2> QED BY <2>2, <2>3, <2>4
<1>2. UNCHANGED <<senders, main, sent, samples, seen, todo, shown, controls, pending, replaced, newest,
                  errors, db, lastSample, written, failed>>
  BY <1>1 DEF clientVars, reportVars, gathered, storage
<1>3. Types'
  BY <1>1, <1>2, WriterTypes DEF IInv, Types, TypeOK
<1>4. HandshakeInv'
  BY <1>1, <1>2 DEF IInv, HandshakeInv
<1>5. QueueInv' /\ ReportInv' /\ SampleInv'
  BY <1>1, <1>2, QueueKept, ReportKept, SampleKept DEF IInv, Commands
<1> QED BY <1>3, <1>4, <1>5 DEF IInv

(* What is written or counted as dropped is a number.                       *)
LEMMA PendingFinite ==
  ASSUME Types
  PROVE  Cardinality(DOMAIN pending) \in Nat
<1>1. IsFiniteSet(DOMAIN pending)
  BY WriterAssumption, FS_Subset DEF Types, TypeOK
<1> QED BY <1>1, FS_CardinalityType

(* A transaction was committed.                                             *)
LEMMA FlushStep ==
  ASSUME IInv, Flush
  PROVE  IInv'
<1>1. /\ wpc = "flush" /\ wpc' = "recv" /\ db' = db \o controls /\ controls' = <<>>
      /\ lastSample' = [c \in Clients |-> IF c \in DOMAIN pending THEN pending[c] ELSE lastSample[c]]
      /\ written' = written + Cardinality(DOMAIN pending)
      /\ errors' = 0 /\ dropped' = dropped + replaced
      /\ pending' = Nothing /\ replaced' = 0 /\ windowed' = FALSE
      /\ UNCHANGED <<clientVars, control, stats, newest, controlOpen, statsOpen, failed>>
  BY DEF Flush, Restart
<1>2. UNCHANGED <<senders, main, sent, samples, seen, todo, shown>>
  BY <1>1 DEF clientVars, reportVars
<1>3. /\ db \in Seq(Numbered) /\ controls \in Seq(Numbered) /\ control \in Seq(Numbered)
      /\ lastSample \in [Clients -> Nat] /\ pending \in [DOMAIN pending -> Nat]
      /\ written \in Nat /\ dropped \in Nat /\ replaced \in Nat
  BY DEF IInv, Types, TypeOK
<1>4. DOMAIN pending' = {} /\ pending' \in [DOMAIN pending' -> Nat]
  BY <1>1 DEF Nothing
<1>5. lastSample' \in [Clients -> Nat]
      /\ \A c \in Clients : lastSample'[c] = IF c \in DOMAIN pending THEN pending[c] ELSE lastSample[c]
  BY <1>1, <1>3
<1>6. Types'
  <2>1. db' \in Seq(Numbered) /\ controls' \in Seq(Numbered)
    BY <1>1, <1>3, ConcatProperties, EmptySeq
  <2>2. errors' \in 0..MaxErrors /\ written' \in Nat /\ dropped' \in Nat /\ replaced' \in Nat
    BY <1>1, <1>3, PendingFinite, WriterAssumption DEF IInv
  <2> QED BY <1>1, <1>4, <1>5, <2>1, <2>2, WriterTypes DEF IInv, Types, TypeOK
<1>7. HandshakeInv'
  <2>1. 0 < MaxErrors
    BY WriterAssumption
  <2> QED BY <1>1, <1>2, <2>1 DEF IInv, HandshakeInv
<1>8. QueueInv'
  <2>1. ((db \o controls) \o <<>>) \o control = (db \o controls) \o control
    BY <1>3, ConcatProperties, ConcatEmptySeq
  <2>2. Commands' = Commands
    BY <1>1, <2>1 DEF Commands
  <2> QED BY <1>1, <1>2, <2>2, QueueKept DEF IInv
<1>9. ReportInv'
  BY <1>2, ReportKept DEF IInv
<1>10. SampleInv'
  <2>1. \A c \in Clients : lastSample'[c] <= newest[c] /\ newest[c] <= samples[c]
    <3> SUFFICES ASSUME NEW c \in Clients
                 PROVE  lastSample'[c] <= newest[c] /\ newest[c] <= samples[c]
      OBVIOUS
    <3>1. newest[c] \in Nat
      BY DEF IInv, Types, TypeOK
    <3> QED BY <1>5, <3>1 DEF IInv, SampleInv
  <2> QED BY <1>1, <1>2, <1>4, <2>1 DEF IInv, SampleInv
<1> QED BY <1>6, <1>7, <1>8, <1>9, <1>10 DEF IInv

(* A transaction was rolled back.                                           *)
LEMMA FailStep ==
  ASSUME IInv, FlushFails
  PROVE  IInv'
<1>1. /\ wpc = "flush" /\ failed' = TRUE /\ errors' = errors + 1
      /\ UNCHANGED <<clientVars, control, stats, newest, controlOpen, statsOpen, db, lastSample,
                     written>>
      /\ \/ errors + 1 >= MaxErrors /\ wpc' = "stopped"
            /\ UNCHANGED <<controls, pending, replaced, windowed>>
            /\ dropped' = dropped + Cardinality(DOMAIN pending)
         \/ ~(errors + 1 >= MaxErrors) /\ wpc' = "recv" /\ controls' = <<>> /\ pending' = Nothing
            /\ replaced' = 0 /\ windowed' = FALSE
            /\ dropped' = dropped + Cardinality(DOMAIN pending) + replaced
  BY DEF FlushFails, Restart
<1>2. UNCHANGED <<senders, main, sent, samples, seen, todo, shown>>
  BY <1>1 DEF clientVars, reportVars
<1>3. /\ db \in Seq(Numbered) /\ controls \in Seq(Numbered) /\ control \in Seq(Numbered)
      /\ dropped \in Nat /\ replaced \in Nat /\ errors \in Nat /\ errors < MaxErrors
      /\ Cardinality(DOMAIN pending) \in Nat /\ MaxErrors \in Nat
  BY SMTT(30), <1>1, PendingFinite, WriterAssumption DEF IInv, Types, TypeOK, HandshakeInv
<1>4. /\ DOMAIN pending' \subseteq Clients /\ pending' \in [DOMAIN pending' -> Nat]
      /\ \A c \in DOMAIN pending' : c \in DOMAIN pending /\ pending' = pending
  BY <1>1 DEF Nothing, IInv, Types, TypeOK
<1>5. Types'
  <2>1. controls' \in Seq(Numbered)
    BY <1>1, <1>3, EmptySeq
  <2>2. errors' \in 0..MaxErrors /\ dropped' \in Nat /\ replaced' \in Nat
    BY <1>1, <1>3
  <2> QED BY <1>1, <1>4, <2>1, <2>2, WriterTypes DEF IInv, Types, TypeOK
<1>6. HandshakeInv'
  <2>1. wpc' # "stopped" => errors' < MaxErrors
    BY <1>1, <1>3
  <2>2. main # "joined"
    BY <1>1 DEF IInv, HandshakeInv
  <2> QED BY <1>1, <1>2, <2>1, <2>2 DEF IInv, HandshakeInv
<1>7. QueueInv'
  <2>1. CASE UNCHANGED controls
    BY <1>1, <1>2, <2>1 DEF IInv, QueueInv, Commands
  <2>2. CASE controls' = <<>>
    <3>1. Commands' = (db \o <<>>) \o control
      BY <1>1, <2>2 DEF Commands
    <3>2. /\ Ordered(Commands')
          /\ \A i \in 1..Len(Commands') : \E k \in 1..Len(Commands) : Commands'[i] = Commands[k]
      <4>1. Ordered((db \o controls) \o control)
        BY DEF IInv, QueueInv, Commands
      <4> QED BY <1>3, <3>1, <4>1, DropMiddle DEF Commands
    <3>3. \A i \in 1..Len(Commands') : Commands'[i][2] \in 1..Len(sent[Commands'[i][1]])
      BY <3>2 DEF IInv, QueueInv
    <3> QED BY <1>1, <1>2, <3>2, <3>3 DEF QueueInv
  <2> QED BY <1>1, <2>1, <2>2
<1>8. ReportInv'
  BY <1>2, ReportKept DEF IInv
<1>9. SampleInv'
  BY <1>1, <1>2, <1>4 DEF IInv, SampleInv
<1> QED BY <1>5, <1>6, <1>7, <1>8, <1>9 DEF IInv

LEMMA NextInv == IInv /\ [Next]_vars => IInv'
<1> SUFFICES ASSUME IInv, [Next]_vars PROVE IInv'
  OBVIOUS
<1>1. CASE UNCHANGED vars
  <2>1. UNCHANGED <<clientVars, control, stats, wpc, windowed, controlOpen, statsOpen, gathered,
                    dropped, storage>>
    BY <1>1 DEF vars
  <2>2. UNCHANGED <<senders, main, sent, samples, seen, todo, shown, controls, pending, replaced,
                    newest, errors, db, lastSample, written, failed>>
    BY <2>1 DEF clientVars, reportVars, gathered, storage
  <2>3. Types'
    BY <2>1, <2>2, WriterTypes DEF IInv, Types, TypeOK
  <2>4. HandshakeInv'
    BY <2>1, <2>2 DEF IInv, HandshakeInv
  <2>5. QueueInv' /\ ReportInv' /\ SampleInv'
    BY <2>1, <2>2, QueueKept, ReportKept, SampleKept DEF IInv, Commands
  <2> QED BY <2>3, <2>4, <2>5 DEF IInv
<1>2. CASE Recv \/ DrainControls \/ DrainSamples \/ Window \/ WindowEnds \/ Stop
  <2>1. CASE /\ TakeCommand \/ TakeSample
             /\ wpc' \in {"drainControls", "drainSamples", "window", "flush"}
    BY <1>2, <2>1, LoopMoves, CommandTaken, SampleTaken
  <2>2. CASE /\ SeeControlEnd \/ SeeStatsEnd \/ Stay
             /\ wpc' \in {"recv", "drainControls", "drainSamples", "window", "flush", "stopped"}
             /\ wpc' = "recv" => wpc = "recv"
             /\ wpc' = "stopped" => wpc = "recv" /\ ~controlOpen /\ Stay
    BY <1>2, <2>2, LoopMoves, EndSeen
  <2> QED BY <1>2, <2>1, <2>2, LoopMoves
<1>3. CASE SendStop \/ Join \/ Joined
  BY <1>3, MainStep
<1>4. CASE Flush \/ FlushFails
  BY <1>4, FlushStep, FailStep
<1>5. CASE Terminated
  BY <1>1, <1>5 DEF Terminated
<1>6. CASE \E c \in Clients : Offer(c) \/ Tick(c) \/ SendStatic(c) \/ SendSample(c) \/ Drop(c)
  BY <1>6, ConnectionStep
<1> QED BY <1>1, <1>2, <1>3, <1>4, <1>5, <1>6 DEF Next, Writer

LEMMA Invariance == Spec => []IInv
<1> QED BY InitInv, NextInv, PTL DEF Spec
-----------------------------------------------------------------------------
(* The record of the test.                                                  *)

(* What is committed is the beginning of the row of commands.               *)
LEMMA Committed ==
  ASSUME Types
  PROVE  /\ Len(db) \in Nat /\ Len(db) <= Len(Commands)
         /\ \A i \in 1..Len(db) : Commands[i] = db[i] /\ i \in 1..Len(Commands)
<1>1. /\ db \in Seq(Numbered) /\ controls \in Seq(Numbered) /\ control \in Seq(Numbered)
      /\ Len(db) \in Nat /\ Len(controls) \in Nat /\ Len(control) \in Nat
  BY LenProperties DEF Types, TypeOK
<1>2. db \o controls \in Seq(Numbered) /\ Len(db \o controls) = Len(db) + Len(controls)
      /\ \A i \in 1..Len(db) : (db \o controls)[i] = db[i]
  BY <1>1, ConcatProperties
<1>3. /\ Len(Commands) = Len(db) + Len(controls) + Len(control)
      /\ \A i \in 1..Len(db) : Commands[i] = (db \o controls)[i]
  BY <1>1, <1>2, ConcatProperties DEF Commands
<1> QED BY <1>1, <1>2, <1>3

(* After a shutdown without a failure everything is committed.              *)
LEMMA AllCommitted ==
  ASSUME IInv, main = "joined", ~failed
  PROVE  Commands = db /\ senders = {} /\ \A c \in Clients : todo[c] = <<>>
<1>1. controls = <<>> /\ control = <<>> /\ senders = {} /\ \A c \in Clients : todo[c] = <<>>
  BY DEF IInv, HandshakeInv
<1>2. db \in Seq(Numbered)
  BY DEF IInv, Types, TypeOK
<1> QED BY <1>1, <1>2, ConcatEmptySeq DEF Commands

LEMMA StaticRowOnce ==
  ASSUME IInv, main = "joined", ~failed, NEW c \in Clients, NEW x \in shown[c]
  PROVE  Cardinality({k \in 1..Len(db) : db[k][1] = c /\ sent[c][db[k][2]] = x}) = 1
<1> DEFINE S == {k \in 1..Len(db) : db[k][1] = c /\ sent[c][db[k][2]] = x}
<1>1. Commands = db /\ todo[c] = <<>>
  BY AllCommitted
<1>2. Identities(todo[c]) = {}
  BY <1>1 DEF Identities, Range
<1>3. x \in seen[c]
  BY <1>2 DEF IInv, ReportInv
<1>4. PICK n \in 1..Len(sent[c]) : sent[c][n] = x
  BY <1>3 DEF IInv, ReportInv
<1>5. PICK k \in 1..Len(db) : db[k] = <<c, n>>
  BY <1>1 DEF IInv, QueueInv
<1>6. k \in S
  BY <1>4, <1>5
<1>7. \A m \in S : m = k
  <2> SUFFICES ASSUME NEW m \in S PROVE m = k
    OBVIOUS
  <2>1. m \in 1..Len(db) /\ db[m][1] = c /\ sent[c][db[m][2]] = x
    OBVIOUS
  <2>2. db[m][2] \in 1..Len(sent[c])
    BY <1>1, <2>1 DEF IInv, QueueInv
  <2>3. db[m][2] = n
    BY SMTT(30), <1>3, <1>4, <2>1, <2>2 DEF IInv, ReportInv
  <2>4. db[m][1] = db[k][1] /\ db[m][2] = db[k][2] /\ db[k][2] \in Nat
    BY <1>5, <2>1, <2>3
  <2>5. ~(m < k) /\ ~(k < m)
    BY SMTT(30), <1>1, <2>1, <2>4 DEF IInv, QueueInv, Ordered
  <2>6. m \in Int /\ k \in Int
    BY <2>1
  <2> QED BY <2>5, <2>6
<1>8. S = {k}
  BY <1>6, <1>7
<1> QED BY <1>8, FS_Singleton

LEMMA RecordedInv == IInv => CommandsRecorded
<1> SUFFICES ASSUME IInv PROVE CommandsRecorded
  OBVIOUS
<1>1. TypeOK
  BY DEF IInv, Types
<1>2. CommandsInOrder
  <2>1. \A i \in 1..Len(db) : Commands[i] = db[i] /\ i \in 1..Len(Commands)
    BY Committed DEF IInv
  <2> QED BY <2>1 DEF IInv, QueueInv, Ordered, CommandsInOrder
<1>3. CompleteAtJoin
  <2> SUFFICES ASSUME main = "joined", ~failed
               PROVE  /\ \A s \in DOMAIN sent : \A n \in DOMAIN sent[s] :
                           \E i \in 1..Len(db) : db[i] = <<s, n>>
                      /\ db[Len(db)] = <<"main", 1>>
    BY DEF CompleteAtJoin
  <2>1. Commands = db
    BY AllCommitted
  <2>2. DOMAIN sent = Clients \cup {"main"} /\ \A s \in DOMAIN sent : DOMAIN sent[s] = 1..Len(sent[s])
    BY LenProperties DEF IInv, Types
  <2> QED BY <2>1, <2>2 DEF IInv, QueueInv
<1>4. StaticsOnce
  BY StaticRowOnce DEF StaticsOnce
<1> QED BY <1>1, <1>2, <1>3, <1>4 DEF CommandsRecorded

(* Commands reach the database in the order of their senders, and unless a  *)
(* transaction failed join returns with all of them there, each static row  *)
(* once and the stop time last (shutdown_after_workers, drain_available,    *)
(* flush_writes): for any number of connections and any reports.            *)
THEOREM CommandsAreRecorded == Spec => []CommandsRecorded
BY Invariance, RecordedInv, PTL

-----------------------------------------------------------------------------
(* The newest sample.                                                       *)

LEMMA CommitsNewest ==
  IInv /\ [Next]_vars =>
    [\A c \in Clients : lastSample'[c] # lastSample[c] =>
       lastSample'[c] > lastSample[c] /\ lastSample'[c] = newest[c]]_vars
<1> SUFFICES ASSUME IInv, [Next]_vars, NEW c \in Clients, lastSample'[c] # lastSample[c]
             PROVE  lastSample'[c] > lastSample[c] /\ lastSample'[c] = newest[c]
  OBVIOUS
<1>1. Flush
  <2>1. CASE UNCHANGED vars
    BY <2>1 DEF vars, storage
  <2>2. CASE Recv \/ DrainControls \/ DrainSamples \/ Window \/ WindowEnds \/ Stop
    BY <2>2, LoopMoves DEF TakeCommand, TakeSample, SeeControlEnd, SeeStatsEnd, Stay, storage
  <2>3. CASE SendStop \/ Join \/ Joined
    BY <2>3 DEF SendStop, Join, Joined, WriterState, storage
  <2>4. CASE \E d \in Clients : Offer(d) \/ Tick(d) \/ SendStatic(d) \/ SendSample(d) \/ Drop(d)
    BY <2>4 DEF Offer, Tick, SendStatic, SendSample, Drop, WriterState, storage
  <2>5. CASE FlushFails
    BY <2>5 DEF FlushFails
  <2> QED BY <2>1, <2>2, <2>3, <2>4, <2>5 DEF Next, Writer, Terminated
<1>2. lastSample' = [d \in Clients |-> IF d \in DOMAIN pending THEN pending[d] ELSE lastSample[d]]
  BY <1>1 DEF Flush
<1>3. c \in DOMAIN pending /\ lastSample'[c] = pending[c]
  BY <1>2
<1>4. pending[c] = newest[c] /\ lastSample[c] < newest[c]
  BY <1>3 DEF IInv, SampleInv
<1>5. lastSample[c] \in Nat /\ newest[c] \in Nat
  BY DEF IInv, Types, TypeOK
<1> QED BY <1>3, <1>4, <1>5

(* What is committed of a connection is the newest sample the writer has    *)
(* taken of it, and never older than what was there: absorb_sample replaces *)
(* within a cycle, and a rolled back transaction leaves nothing behind.     *)
THEOREM NewestCommitted == Spec => NewestIsCommitted
<1>1. Spec => [][Next]_vars
  BY PTL DEF Spec
<1> QED BY <1>1, Invariance, CommitsNewest, PTL DEF NewestIsCommitted

-----------------------------------------------------------------------------
(* Where the samples are.                                                   *)

LEMMA PlacedNat ==
  ASSUME Types
  PROVE  /\ Len(stats) \in Nat /\ Cardinality(DOMAIN pending) \in Nat /\ replaced \in Nat
         /\ written \in Nat /\ dropped \in Nat /\ TotalOver(Clients, samples) \in Nat
         /\ IsFiniteSet(DOMAIN pending)
<1>1. IsFiniteSet(DOMAIN pending) /\ Cardinality(DOMAIN pending) \in Nat
  BY WriterAssumption, FS_Subset, PendingFinite DEF Types, TypeOK
<1>2. TotalOver(Clients, samples) \in Nat
  BY WriterAssumption, TotalOverIsNat DEF Types, TypeOK
<1>3. Len(stats) \in Nat
  BY LenProperties DEF Types, TypeOK
<1> QED BY <1>1, <1>2, <1>3 DEF Types, TypeOK

LEMMA SamplesInit == Init => SamplesAccounted
<1> SUFFICES ASSUME Init PROVE SamplesAccounted
  OBVIOUS
<1>1. TotalOver(Clients, samples) = 0
  BY WriterAssumption, TotalOverZeros DEF Init
<1>2. Cardinality(DOMAIN pending) = 0
  BY FS_EmptySet DEF Init, Nothing
<1> QED BY <1>1, <1>2 DEF Init, SamplesAccounted

(* A sample is sent: it is in the channel, or counted as dropped.           *)
LEMMA SampleIsPlaced ==
  ASSUME IInv, SamplesAccounted, NEW c \in Clients, SendSample(c)
  PROVE  SamplesAccounted'
<1>1. /\ samples' = [samples EXCEPT ![c] = @ + 1]
      /\ UNCHANGED <<wpc, pending, replaced, written>>
      /\ wpc # "stopped" =>
           \/ Len(stats') = Len(stats) + 1 /\ dropped' = dropped
           \/ stats' = stats /\ dropped' = dropped + 1
  <2>1. wpc # "stopped" /\ Len(stats) < StatsCapacity => Len(stats') = Len(stats) + 1
    <3>1. stats \in Seq(Samples) /\ <<c, samples[c] + 1>> \in Samples
      BY SMTT(30) DEF IInv, Types, TypeOK, Samples
    <3> QED BY <3>1, AppendProperties DEF SendSample, TrySendStats, Receiving
  <2> QED BY <2>1 DEF SendSample, TrySendStats, Receiving, WriterState, gathered, storage
<1>2. samples \in [Clients -> Nat] /\ samples[c] \in Nat /\ samples' = [samples EXCEPT ![c] = samples[c] + 1]
  BY <1>1 DEF IInv, Types, TypeOK
<1>3. TotalOver(Clients, samples') = TotalOver(Clients, samples) + 1
  <2>1. TotalOver(Clients, [samples EXCEPT ![c] = samples[c] + 1]) + samples[c]
          = TotalOver(Clients, samples) + (samples[c] + 1)
    <3>1. \A g \in [Clients -> Nat], y \in Clients, k \in Nat :
            TotalOver(Clients, [g EXCEPT ![y] = k]) + g[y] = TotalOver(Clients, g) + k
      <4>1. IsFiniteSet(Clients)
        BY WriterAssumption
      <4> QED BY <4>1, TotalOverExcept
    <3>2. samples[c] + 1 \in Nat
      BY <1>2
    <3> QED BY <1>2, <3>1, <3>2
  <2>2. samples' \in [Clients -> Nat]
    BY <1>2
  <2>3. TotalOver(Clients, samples') \in Nat
    BY <2>2, WriterAssumption, TotalOverIsNat
  <2>4. TotalOver(Clients, samples) \in Nat
    BY PlacedNat DEF IInv
  <2> DEFINE T == TotalOver(Clients, samples)
             U == TotalOver(Clients, samples')
             n == samples[c]
  <2>5. n \in Nat /\ T \in Nat /\ U \in Nat
    BY <1>2, <2>3, <2>4
  <2>6. U + n = T + (n + 1)
    <3>1. TotalOver(Clients, samples') = TotalOver(Clients, [samples EXCEPT ![c] = samples[c] + 1])
      BY <1>2, Zenon
    <3> QED BY <2>1, <3>1 DEF U, T, n
  <2> HIDE DEF T, U, n
  <2>7. U = T + 1
    BY <2>5, <2>6
  <2> QED BY <2>7 DEF T, U
<1>4. Len(stats) + Cardinality(DOMAIN pending) + replaced + written + dropped + 1
        = Len(stats') + Cardinality(DOMAIN pending') + replaced' + written' + dropped'
      \/ wpc = "stopped"
  <2> DEFINE L == Len(stats)
             M == Len(stats')
             P == Cardinality(DOMAIN pending)
  <2>1. L \in Nat /\ P \in Nat /\ replaced \in Nat /\ written \in Nat /\ dropped \in Nat
    BY PlacedNat DEF IInv
  <2>2. wpc # "stopped" => (M = L + 1 /\ dropped' = dropped) \/ (M = L /\ dropped' = dropped + 1)
    BY <1>1
  <2>3. Cardinality(DOMAIN pending') = P /\ replaced' = replaced /\ written' = written
    BY <1>1
  <2> HIDE DEF L, P, M
  <2>4. wpc # "stopped" => L + P + replaced + written + dropped + 1
                             = M + P + replaced + written + dropped'
    BY <2>1, <2>2
  <2> QED BY <2>3, <2>4 DEF L, P, M
<1>5. wpc' = wpc
  BY <1>1
<1> QED BY <1>3, <1>4, <1>5 DEF SamplesAccounted, Receiving

(* A sample is taken: it is gathered, and may replace one.                  *)
LEMMA SampleIsGathered ==
  ASSUME IInv, SamplesAccounted, TakeSample, wpc # "stopped"
  PROVE  SamplesAccounted'
<1> DEFINE c == Head(stats)[1]
<1>1. /\ stats # <<>> /\ stats' = Tail(stats)
      /\ DOMAIN pending' = DOMAIN pending \cup {c}
      /\ replaced' = IF c \in DOMAIN pending THEN replaced + 1 ELSE replaced
      /\ UNCHANGED <<samples, dropped, written>>
  BY DEF TakeSample, Absorb, clientVars, storage
<1>2. Len(stats') = Len(stats) - 1
  BY <1>1, HeadTailProperties DEF IInv, Types, TypeOK
<1>3. Cardinality(DOMAIN pending') =
        IF c \in DOMAIN pending THEN Cardinality(DOMAIN pending) ELSE Cardinality(DOMAIN pending) + 1
  BY <1>1, PlacedNat, FS_AddElement DEF IInv
<1> HIDE DEF c
<1> QED BY <1>1, <1>2, <1>3, PlacedNat DEF IInv, SamplesAccounted, Receiving

(* A transaction: the gathered samples are committed or dropped, and those  *)
(* that were replaced are dropped.                                          *)
LEMMA SamplesAreSettled ==
  ASSUME IInv, SamplesAccounted, Flush \/ FlushFails
  PROVE  SamplesAccounted'
<1>1. Receiving /\ UNCHANGED <<samples, stats>>
  BY DEF Flush, FlushFails, Receiving, clientVars
<1>2. CASE wpc' = "stopped"
  BY <1>2 DEF SamplesAccounted, Receiving
<1>3. CASE wpc' # "stopped"
  <2> DEFINE T == TotalOver(Clients, samples)
             L == Len(stats)
             P == Cardinality(DOMAIN pending)
  <2>1. T \in Nat /\ L \in Nat /\ P \in Nat /\ replaced \in Nat /\ written \in Nat /\ dropped \in Nat
    BY PlacedNat DEF IInv
  <2>2. T = L + P + replaced + written + dropped
    BY <1>1 DEF SamplesAccounted
  <2>3. pending' = Nothing /\ replaced' = 0
    BY <1>3 DEF Flush, FlushFails, Restart
  <2>4. \/ written' = written + P /\ dropped' = dropped + replaced
        \/ written' = written /\ dropped' = dropped + P + replaced
    BY <1>3 DEF Flush, FlushFails, storage
  <2>5. Cardinality(DOMAIN pending') = 0
    BY <2>3, FS_EmptySet DEF Nothing
  <2>6. SUFFICES T = L + 0 + 0 + written' + dropped'
    BY <1>1, <2>3, <2>5 DEF SamplesAccounted
  <2> HIDE DEF T, L, P
  <2> QED BY <2>1, <2>2, <2>4
<1> QED BY <1>2, <1>3

LEMMA SamplesNext == IInv /\ SamplesAccounted /\ [Next]_vars => SamplesAccounted'
<1> SUFFICES ASSUME IInv, SamplesAccounted, [Next]_vars PROVE SamplesAccounted'
  OBVIOUS
<1>1. CASE /\ UNCHANGED <<samples, stats, pending, replaced, written, dropped>>
           /\ Receiving' => Receiving
  BY <1>1 DEF SamplesAccounted
<1>2. CASE Recv \/ DrainControls \/ DrainSamples \/ Window \/ WindowEnds \/ Stop
  <2>1. wpc # "stopped"
    BY <1>2 DEF Recv, DrainControls, DrainSamples, Window, WindowEnds, Stop
  <2>2. CASE TakeSample
    BY <2>1, <2>2, SampleIsGathered
  <2>3. CASE TakeCommand \/ SeeControlEnd \/ SeeStatsEnd \/ Stay
    BY <1>1, <2>1, <2>3 DEF TakeCommand, SeeControlEnd, SeeStatsEnd, Stay, clientVars, gathered,
                            storage, Receiving
  <2> QED BY <1>2, <2>2, <2>3 DEF Recv, DrainControls, DrainSamples, Window, WindowEnds, Stop
<1>3. CASE Flush \/ FlushFails
  BY <1>3, SamplesAreSettled
<1>4. ASSUME NEW c \in Clients, Offer(c) \/ Tick(c) \/ SendStatic(c) \/ SendSample(c) \/ Drop(c)
      PROVE  SamplesAccounted'
  <2>1. CASE SendSample(c)
    BY <2>1, SampleIsPlaced
  <2> QED BY <1>1, <1>4, <2>1 DEF Offer, Tick, SendStatic, Drop, reportVars, WriterState, gathered,
                                  storage, Receiving
<1>5. CASE SendStop \/ Join \/ Joined
  BY <1>1, <1>5 DEF SendStop, Join, Joined, reportVars, WriterState, gathered, storage, Receiving
<1>6. CASE Terminated \/ UNCHANGED vars
  BY <1>1, <1>6 DEF Terminated, vars, clientVars, gathered, storage, Receiving
<1> QED BY <1>2, <1>3, <1>4, <1>5, <1>6 DEF Next, Writer

(* SamplesAccounted: try_send_stats, absorb_sample and flush_writes lose no *)
(* sample without counting it and count none twice, for any number of       *)
(* connections and any capacity.                                            *)
THEOREM SamplesAreAccounted == Spec => []SamplesAccounted
<1>1. IInv /\ SamplesAccounted /\ [Next]_vars => SamplesAccounted'
  BY SamplesNext
<1> QED BY Invariance, SamplesInit, <1>1, PTL DEF Spec
===============================================================================
