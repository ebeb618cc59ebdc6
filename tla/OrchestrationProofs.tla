-------------------------- MODULE OrchestrationProofs --------------------------
(***************************************************************************)
(* Theorems about a test by either program: Orchestration, for any number  *)
(* of instances and workers; the percentile its verdict compares           *)
(* (Thresholds), for any number of values, and the verdict itself (Summary);*)
(* and the process of zakuro-moq (MoqProcess), for any number of instances *)
(* and clients, with the tracks it accepts (MoqSettings).                  *)
(***************************************************************************)
EXTENDS LoadTest, TotalsProofs, SequenceTheorems

IInv == TypeOK /\ JoinInv /\ QueueInv /\ CoverInv

(* Every instance has a worker.                                             *)
LEMMA WorkerType == \A i \in Instances : WorkerOf(i) \in Workers
<1>1. W \in Nat \ {0} /\ N \in Nat
  BY OrchestrationAssumption
<1>2. \A i \in Nat : i % W \in 0..(W - 1)
  BY <1>1
<1> QED BY <1>1, <1>2 DEF Instances, WorkerOf, Workers

(* Taking the head of a queue.                                              *)
LEMMA TailProperties ==
  ASSUME NEW S, NEW q \in Seq(S), q # <<>>
  PROVE  /\ Head(q) \in S /\ Head(q) = q[1] /\ 1 \in 1..Len(q)
         /\ Tail(q) \in Seq(S) /\ Len(Tail(q)) = Len(q) - 1
         /\ \A k \in 1..Len(Tail(q)) : k + 1 \in 1..Len(q) /\ Tail(q)[k] = q[k + 1]
BY HeadTailProperties, EmptySeq, LenProperties

LEMMA AppendAtEnd ==
  ASSUME NEW S, NEW q \in Seq(S), NEW e \in S
  PROVE  /\ Append(q, e) \in Seq(S) /\ Len(Append(q, e)) = Len(q) + 1 /\ Len(q) \in Nat
         /\ \A k \in 1..Len(q) : Append(q, e)[k] = q[k]
         /\ Append(q, e)[Len(q) + 1] = e
BY AppendProperties, LenProperties

LEMMA InitInv == Init => IInv
<1> USE OrchestrationAssumption
<1>1. ASSUME Init PROVE TypeOK
  <2>1. 0 \in 0..W /\ 0 \in 0..N /\ 0 \in 0..0 /\ 0 \in Nat
    OBVIOUS
  <2>2. <<>> \in Seq(Instances)
    BY EmptySeq
  <2>3. queue \in [Workers -> Seq(Instances)]
    BY <1>1, <2>2 DEF Init
  <2>4. /\ spawned \in 0..W /\ next \in 0..N /\ dispatched \in 0..next
        /\ received \in 0..dispatched /\ joined \in 0..W /\ results \in Nat
    BY <1>1, <2>1 DEF Init
  <2> QED BY <1>1, <2>3, <2>4 DEF Init, TypeOK, MainPlaces
<1>2. ASSUME Init PROVE JoinInv
  BY <1>2 DEF Init, JoinInv, Shutting, Workers
<1>3. ASSUME Init PROVE QueueInv
  <2>1. \A w \in Workers : Len(queue[w]) = 0
    BY <1>3, EmptySeq DEF Init
  <2> QED BY <1>3, <2>1 DEF Init, QueueInv, Instances
<1>4. ASSUME Init PROVE CoverInv
  BY <1>4 DEF Init, CoverInv, Shutting, StatsHandles, DuckHandles
<1> QED BY <1>1, <1>2, <1>3, <1>4 DEF IInv

(* The steps of the dispatch and of the workers, which change the queues.   *)
LEMMA DispatchStep ==
  ASSUME IInv, Dispatch
  PROVE  IInv'
<1> USE OrchestrationAssumption
<1> DEFINE v == WorkerOf(next)
<1>1. /\ next \in Instances /\ v \in Workers /\ next < N /\ next \in Nat /\ N \in Nat
      /\ inst[next] = "waiting" /\ dispatched \in 0..next
      /\ queue \in [Workers -> Seq(Instances)]
      /\ main = "dispatching" /\ ~cancelled /\ next' = next + 1
      /\ inst \in [Instances -> {"waiting", "queued", "refused", "running", "finished", "lost"}]
  BY WorkerType DEF Dispatch, IInv, TypeOK, QueueInv, Instances
<1>2. CASE Alive(v)
  <2> DEFINE q == Append(queue[v], next)
  <2>1. /\ queue' = [queue EXCEPT ![v] = q]
        /\ inst' = [inst EXCEPT ![next] = "queued"] /\ dispatched' = dispatched + 1
    BY <1>2 DEF Dispatch
  <2>2. /\ q \in Seq(Instances) /\ Len(q) = Len(queue[v]) + 1 /\ Len(queue[v]) \in Nat
        /\ \A k \in 1..Len(queue[v]) : q[k] = queue[v][k]
        /\ q[Len(queue[v]) + 1] = next
    BY <1>1, AppendAtEnd
  <2> HIDE DEF v, q
  <2>3. /\ queue' \in [Workers -> Seq(Instances)] /\ queue'[v] = q
        /\ \A w \in Workers : w # v => queue'[w] = queue[w]
        /\ inst' \in [Instances -> {"waiting", "queued", "refused", "running", "finished", "lost"}]
        /\ inst'[next] = "queued" /\ \A i \in Instances : i # next => inst'[i] = inst[i]
    BY <1>1, <2>1, <2>2
  <2>4. TypeOK'
    <3>1. next' \in 0..N /\ dispatched' \in 0..next' /\ received \in 0..dispatched'
      BY <1>1, <2>1 DEF IInv, TypeOK
    <3> QED BY <2>3, <3>1 DEF IInv, TypeOK, Dispatch
  <2>5. JoinInv'
    BY DEF Dispatch, IInv, JoinInv
  <2>6. QueueInv'
    <3>1. \A i \in Instances : i < next' <=> inst'[i] # "waiting"
      BY <1>1, <2>3 DEF IInv, QueueInv, Instances
    <3>2. ASSUME NEW w \in Workers, NEW k \in 1..Len(queue'[w])
          PROVE  WorkerOf(queue'[w][k]) = w /\ inst'[queue'[w][k]] = "queued"
      <4>1. CASE w # v
        <5>1. /\ queue'[w] = queue[w] /\ k \in 1..Len(queue[w])
              /\ queue[w] \in Seq(Instances)
          BY <1>1, <2>3, <3>2, <4>1
        <5>2. queue[w][k] \in Instances
          BY <5>1, ElementOfSeq
        <5>3. WorkerOf(queue[w][k]) = w /\ inst[queue[w][k]] = "queued"
          BY <5>1 DEF IInv, QueueInv
        <5> QED BY <5>1, <5>2, <5>3, <2>3
      <4>2. CASE w = v /\ k = Len(queue[v]) + 1
        BY <2>2, <2>3, <4>2 DEF v
      <4>3. CASE w = v /\ k # Len(queue[v]) + 1
        <5>1. k \in 1..Len(queue[v]) /\ queue'[w][k] = queue[v][k]
          BY <2>2, <2>3, <3>2, <4>3
        <5>2. queue[v][k] \in Instances
          BY <1>1, <5>1, ElementOfSeq DEF v
        <5>3. WorkerOf(queue[v][k]) = v /\ inst[queue[v][k]] = "queued"
          BY <1>1, <5>1 DEF IInv, QueueInv, v
        <5> QED BY <5>1, <5>2, <5>3, <2>3, <4>3
      <4> QED BY <4>1, <4>2, <4>3
    <3>3. ASSUME NEW w \in Workers, NEW j \in 1..Len(queue'[w]), NEW k \in 1..Len(queue'[w]),
                 queue'[w][j] = queue'[w][k]
          PROVE  j = k
      <4>1. CASE w # v
        BY <2>3, <3>3, <4>1 DEF IInv, QueueInv
      <4>2. CASE w = v
        <5>1. \A l \in 1..Len(queue[v]) : queue[v][l] # next
          BY <1>1 DEF IInv, QueueInv, v
        <5>2. \A a, b \in 1..Len(queue[v]) : queue[v][a] = queue[v][b] => a = b
          BY <1>1 DEF IInv, QueueInv, v
        <5> DEFINE L == Len(queue[v])
        <5>3. /\ L \in Nat /\ j \in 1..(L + 1) /\ k \in 1..(L + 1) /\ q[j] = q[k]
              /\ q[L + 1] = next
              /\ \A l \in 1..L : q[l] = queue[v][l] /\ q[l] # next
          BY <2>2, <2>3, <3>3, <4>2, <5>1
        <5> HIDE DEF L
        <5>4. CASE j \in 1..L /\ k \in 1..L
          <6>1. queue[v][j] = queue[v][k]
            BY <5>3, <5>4
          <6> QED BY <5>2, <5>4, <6>1 DEF L
        <5>5. CASE j = L + 1 \/ k = L + 1
          <6>1. j = L + 1 /\ k = L + 1
            BY <5>3, <5>5
          <6> QED BY <6>1
        <5> QED BY <5>3, <5>4, <5>5
      <4> QED BY <4>1, <4>2
    <3>4. ASSUME NEW i \in Instances, inst'[i] = "queued"
          PROVE  \E k \in 1..Len(queue'[WorkerOf(i)]) : queue'[WorkerOf(i)][k] = i
      <4>1. CASE i = next
        BY <2>2, <2>3, <4>1 DEF v
      <4>2. CASE i # next
        <5>1. PICK k \in 1..Len(queue[WorkerOf(i)]) : queue[WorkerOf(i)][k] = i
          BY <2>3, <3>4, <4>2 DEF IInv, QueueInv
        <5>2. CASE WorkerOf(i) = v
          <6>1. k \in 1..Len(q) /\ q[k] = i
            BY <2>2, <5>1, <5>2
          <6> QED BY <2>3, <5>2, <6>1
        <5>3. CASE WorkerOf(i) # v
          BY <2>3, <5>1, <5>3, WorkerType
        <5> QED BY <5>2, <5>3
      <4> QED BY <4>1, <4>2
    <3>5. ASSUME NEW i \in Instances, inst'[i] = "queued"
          PROVE  Alive(WorkerOf(i))'
      BY <1>2, <2>3, <3>5 DEF v, IInv, QueueInv, Alive, Dispatch
    <3>6. ASSUME NEW i \in Instances, inst'[i] = "running"
          PROVE  worker'[WorkerOf(i)] = "running"
      BY <2>3, <3>6 DEF IInv, QueueInv, Dispatch
    <3> QED BY <1>1, <3>1, <3>2, <3>3, <3>4, <3>5, <3>6 DEF QueueInv, Dispatch
  <2>7. CoverInv'
    BY <1>1 DEF Dispatch, IInv, CoverInv, Shutting
  <2> QED BY <2>4, <2>5, <2>6, <2>7 DEF IInv
<1>3. CASE ~Alive(v)
  <2>1. /\ queue' = queue /\ inst' = [inst EXCEPT ![next] = "refused"]
        /\ dispatched' = dispatched
    BY <1>3 DEF Dispatch
  <2> HIDE DEF v
  <2>2. /\ inst' \in [Instances -> {"waiting", "queued", "refused", "running", "finished", "lost"}]
        /\ inst'[next] = "refused" /\ \A i \in Instances : i # next => inst'[i] = inst[i]
    BY <1>1, <2>1
  <2>3. TypeOK'
    <3>1. next' \in 0..N /\ dispatched' \in 0..next'
      BY <1>1, <2>1 DEF IInv, TypeOK
    <3> QED BY <2>1, <2>2, <3>1 DEF IInv, TypeOK, Dispatch
  <2>4. JoinInv'
    BY DEF Dispatch, IInv, JoinInv
  <2>5. QueueInv'
    <3>1. \A i \in Instances : i < next' <=> inst'[i] # "waiting"
      BY <1>1, <2>2 DEF IInv, QueueInv, Instances
    <3>2. ASSUME NEW w \in Workers, NEW k \in 1..Len(queue[w])
          PROVE  WorkerOf(queue[w][k]) = w /\ inst'[queue[w][k]] = "queued"
      <4>1. queue[w][k] \in Instances
        BY <1>1, ElementOfSeq
      <4>2. WorkerOf(queue[w][k]) = w /\ inst[queue[w][k]] = "queued"
        BY DEF IInv, QueueInv
      <4> QED BY <1>1, <2>2, <4>1, <4>2
    <3>3. \A i \in Instances : inst'[i] = "queued" =>
            \E k \in 1..Len(queue[WorkerOf(i)]) : queue[WorkerOf(i)][k] = i
      BY <2>2 DEF IInv, QueueInv
    <3>4. \A i \in Instances : inst'[i] = "queued" => Alive(WorkerOf(i))'
      BY <2>2 DEF IInv, QueueInv, Alive, Dispatch
    <3>5. \A i \in Instances : inst'[i] = "running" => worker'[WorkerOf(i)] = "running"
      BY <2>2 DEF IInv, QueueInv, Dispatch
    <3> QED BY <1>1, <2>1, <3>1, <3>2, <3>3, <3>4, <3>5 DEF IInv, QueueInv, Dispatch
  <2>6. CoverInv'
    BY <1>1 DEF Dispatch, IInv, CoverInv, Shutting
  <2> QED BY <2>3, <2>4, <2>5, <2>6 DEF IInv
<1> QED BY <1>2, <1>3

LEMMA TakeJobStep ==
  ASSUME IInv, NEW v \in Workers, TakeJob(v)
  PROVE  IInv'
<1> DEFINE h == Head(queue[v])
           q == Tail(queue[v])
<1>1. /\ worker[v] = "running" /\ queue[v] # <<>> /\ queue[v] \in Seq(Instances)
      /\ queue' = [queue EXCEPT ![v] = q] /\ inst' = [inst EXCEPT ![h] = "running"]
      /\ queue \in [Workers -> Seq(Instances)]
      /\ inst \in [Instances -> {"waiting", "queued", "refused", "running", "finished", "lost"}]
  BY DEF TakeJob, IInv, TypeOK
<1>2. /\ h \in Instances /\ h = queue[v][1] /\ 1 \in 1..Len(queue[v])
      /\ q \in Seq(Instances) /\ Len(q) = Len(queue[v]) - 1 /\ Len(queue[v]) \in Nat
      /\ \A k \in 1..Len(q) : k + 1 \in 1..Len(queue[v]) /\ q[k] = queue[v][k + 1]
  BY <1>1, TailProperties, LenProperties
<1>3. WorkerOf(h) = v /\ inst[h] = "queued"
  BY <1>2 DEF IInv, QueueInv
<1> HIDE DEF h, q
<1>4. /\ queue' \in [Workers -> Seq(Instances)] /\ queue'[v] = q
      /\ \A w \in Workers : w # v => queue'[w] = queue[w]
      /\ inst' \in [Instances -> {"waiting", "queued", "refused", "running", "finished", "lost"}]
      /\ inst'[h] = "running" /\ \A i \in Instances : i # h => inst'[i] = inst[i]
  BY <1>1, <1>2
<1>5. TypeOK'
  BY <1>4 DEF IInv, TypeOK, TakeJob, mainVars
<1>6. JoinInv'
  BY DEF TakeJob, IInv, JoinInv, mainVars
<1>7. QueueInv'
  <2>1. \A i \in Instances : i < next' <=> inst'[i] # "waiting"
    BY <1>2, <1>3, <1>4 DEF IInv, QueueInv, TakeJob, mainVars
  <2>2. ASSUME NEW w \in Workers, NEW k \in 1..Len(queue'[w])
        PROVE  WorkerOf(queue'[w][k]) = w /\ inst'[queue'[w][k]] = "queued"
    <3>1. PICK j \in 1..Len(queue[w]) : queue'[w][k] = queue[w][j] /\ (w = v => j = k + 1)
      BY <1>2, <1>4, <2>2
    <3>2. queue[w][j] \in Instances
      BY <1>1, <3>1, ElementOfSeq
    <3>3. WorkerOf(queue[w][j]) = w /\ inst[queue[w][j]] = "queued"
      BY DEF IInv, QueueInv
    <3>4. queue[w][j] # h
      <4>1. CASE w = v
        <5>1. \A a, b \in 1..Len(queue[v]) : queue[v][a] = queue[v][b] => a = b
          BY DEF IInv, QueueInv
        <5>2. k \in Nat /\ j = k + 1 /\ k \in 1..Len(q)
          BY <1>4, <2>2, <3>1, <4>1
        <5>3. j # 1 /\ j \in 1..Len(queue[v])
          BY <1>2, <5>2
        <5> QED BY <1>2, <4>1, <5>1, <5>3
      <4>2. CASE w # v
        BY <1>3, <3>3, <4>2
      <4> QED BY <4>1, <4>2
    <3> QED BY <1>4, <3>1, <3>2, <3>3, <3>4
  <2>3. ASSUME NEW w \in Workers, NEW j \in 1..Len(queue'[w]), NEW k \in 1..Len(queue'[w]),
               queue'[w][j] = queue'[w][k]
        PROVE  j = k
    <3>1. CASE w # v
      <4>1. queue'[w] = queue[w]
        BY <1>4, <3>1
      <4> QED BY <2>3, <4>1 DEF IInv, QueueInv
    <3>2. CASE w = v
      <4>1. /\ j + 1 \in 1..Len(queue[v]) /\ k + 1 \in 1..Len(queue[v])
            /\ queue[v][j + 1] = queue[v][k + 1]
        BY <1>2, <1>4, <2>3, <3>2
      <4>2. j + 1 = k + 1
        BY <4>1 DEF IInv, QueueInv
      <4> QED BY <1>2, <1>4, <2>3, <3>2, <4>2
    <3> QED BY <3>1, <3>2
  <2>4. ASSUME NEW i \in Instances, inst'[i] = "queued"
        PROVE  \E k \in 1..Len(queue'[WorkerOf(i)]) : queue'[WorkerOf(i)][k] = i
    <3>1. i # h /\ inst[i] = "queued" /\ WorkerOf(i) \in Workers
      BY <1>4, <2>4, WorkerType
    <3>2. PICK k \in 1..Len(queue[WorkerOf(i)]) : queue[WorkerOf(i)][k] = i
      BY <3>1 DEF IInv, QueueInv
    <3>3. CASE WorkerOf(i) # v
      BY <1>4, <3>1, <3>2, <3>3
    <3>4. CASE WorkerOf(i) = v
      <4>1. k # 1
        BY <1>2, <3>1, <3>2, <3>4
      <4>2. k - 1 \in 1..Len(q) /\ q[k - 1] = i
        BY <1>2, <3>2, <3>4, <4>1
      <4> QED BY <1>4, <3>4, <4>2
    <3> QED BY <3>3, <3>4
  <2>5. ASSUME NEW i \in Instances, inst'[i] = "queued"
        PROVE  Alive(WorkerOf(i))'
    BY <1>4, <2>5 DEF IInv, QueueInv, Alive, TakeJob
  <2>6. ASSUME NEW i \in Instances, inst'[i] = "running"
        PROVE  worker'[WorkerOf(i)] = "running"
    BY <1>1, <1>3, <1>4, <2>6 DEF IInv, QueueInv, TakeJob
  <2>7. main' = "spawning" => next' = 0
    BY DEF IInv, QueueInv, TakeJob, mainVars
  <2> QED BY <2>1, <2>2, <2>3, <2>4, <2>5, <2>6, <2>7 DEF QueueInv
<1>8. CoverInv'
  <2>1. agg # "closed"
    BY <1>1 DEF IInv, CoverInv, Alive
  <2> QED BY <2>1 DEF IInv, CoverInv, TakeJob, mainVars
<1> QED BY <1>5, <1>6, <1>7, <1>8 DEF IInv

LEMMA RuntimeFailsStep ==
  ASSUME IInv, NEW v \in Workers, RuntimeFails(v)
  PROVE  IInv'
<1>1. /\ worker[v] = "starting" /\ worker' = [worker EXCEPT ![v] = "exited"]
      /\ queue' = [queue EXCEPT ![v] = <<>>]
      /\ \A i \in Instances : inst'[i] = IF inst[i] = "queued" /\ WorkerOf(i) = v
                                         THEN "lost" ELSE inst[i]
      /\ inst' \in [Instances -> {"waiting", "queued", "refused", "running", "finished", "lost"}]
      /\ queue \in [Workers -> Seq(Instances)] /\ Len(<<>>) = 0 /\ <<>> \in Seq(Instances)
      /\ worker \in [Workers -> {"none", "starting", "running", "exited"}]
  BY EmptySeq DEF RuntimeFails, IInv, TypeOK
<1>2. TypeOK'
  BY <1>1 DEF IInv, TypeOK, RuntimeFails, mainVars
<1>3. JoinInv'
  BY <1>1 DEF RuntimeFails, IInv, JoinInv, mainVars
<1>4. QueueInv'
  <2>1. \A i \in Instances : i < next' <=> inst'[i] # "waiting"
    BY <1>1 DEF IInv, QueueInv, RuntimeFails, mainVars
  <2>2. ASSUME NEW w \in Workers, NEW k \in 1..Len(queue'[w])
        PROVE  WorkerOf(queue'[w][k]) = w /\ inst'[queue'[w][k]] = "queued"
    <3>1. w # v /\ queue'[w] = queue[w]
      BY <1>1, <2>2
    <3>2. queue[w][k] \in Instances
      BY <1>1, <2>2, <3>1, ElementOfSeq
    <3>3. WorkerOf(queue[w][k]) = w /\ inst[queue[w][k]] = "queued"
      BY <2>2, <3>1 DEF IInv, QueueInv
    <3> QED BY <1>1, <3>1, <3>2, <3>3
  <2>3. ASSUME NEW i \in Instances, inst'[i] = "queued"
        PROVE  \E k \in 1..Len(queue'[WorkerOf(i)]) : queue'[WorkerOf(i)][k] = i
    <3>1. inst[i] = "queued" /\ WorkerOf(i) # v /\ WorkerOf(i) \in Workers
      BY <1>1, <2>3, WorkerType
    <3> QED BY <1>1, <3>1 DEF IInv, QueueInv
  <2>4. ASSUME NEW i \in Instances, inst'[i] = "queued"
        PROVE  Alive(WorkerOf(i))'
    <3>1. inst[i] = "queued" /\ WorkerOf(i) # v /\ WorkerOf(i) \in Workers
      BY <1>1, <2>4, WorkerType
    <3> QED BY <1>1, <3>1 DEF IInv, QueueInv, Alive
  <2>5. ASSUME NEW i \in Instances, inst'[i] = "running"
        PROVE  worker'[WorkerOf(i)] = "running"
    <3>1. inst[i] = "running" /\ WorkerOf(i) \in Workers
      BY <1>1, <2>5, WorkerType
    <3>2. worker[WorkerOf(i)] = "running"
      BY <3>1 DEF IInv, QueueInv
    <3> QED BY <1>1, <3>1, <3>2
  <2>6. main' = "spawning" => next' = 0
    BY DEF IInv, QueueInv, RuntimeFails, mainVars
  <2>7. \A w \in Workers : \A j, k \in 1..Len(queue'[w]) : queue'[w][j] = queue'[w][k] => j = k
    <3>1. \A w \in Workers : queue'[w] = queue[w] \/ Len(queue'[w]) = 0
      BY <1>1
    <3> QED BY <3>1 DEF IInv, QueueInv
  <2> QED BY <2>1, <2>2, <2>3, <2>4, <2>5, <2>6, <2>7 DEF QueueInv
<1>5. CoverInv'
  <2>1. agg # "closed"
    BY <1>1 DEF IInv, CoverInv, Alive
  <2> QED BY <2>1 DEF IInv, CoverInv, RuntimeFails, mainVars
<1> QED BY <1>2, <1>3, <1>4, <1>5 DEF IInv

(* The other steps of the worker threads, which leave the queues alone.    *)
LEMMA BuildRuntimeStep ==
  ASSUME IInv, NEW v \in Workers, BuildRuntime(v)
  PROVE  IInv'
<1>1. /\ worker[v] = "starting" /\ worker' = [worker EXCEPT ![v] = "running"]
      /\ worker \in [Workers -> {"none", "starting", "running", "exited"}]
  BY DEF BuildRuntime, IInv, TypeOK
<1>2. TypeOK'
  BY <1>1 DEF IInv, TypeOK, BuildRuntime, mainVars
<1>3. JoinInv'
  BY <1>1 DEF BuildRuntime, IInv, JoinInv, mainVars
<1>4. QueueInv'
  <2>1. \A w \in Workers : /\ Alive(w) => Alive(w)'
                           /\ worker[w] = "running" => worker'[w] = "running"
    BY <1>1 DEF Alive
  <2> QED BY <2>1, WorkerType DEF IInv, QueueInv, BuildRuntime, mainVars
<1>5. CoverInv'
  <2>1. agg # "closed"
    BY <1>1 DEF IInv, CoverInv, Alive
  <2> QED BY <2>1 DEF IInv, CoverInv, BuildRuntime, mainVars
<1> QED BY <1>2, <1>3, <1>4, <1>5 DEF IInv

LEMMA FinishStep ==
  ASSUME IInv, NEW j \in Instances, Finish(j)
  PROVE  IInv'
<1>1. /\ inst[j] = "running" /\ inst' = [inst EXCEPT ![j] = "finished"]
      /\ results' = results + 1 /\ results \in Nat
      /\ inst \in [Instances -> {"waiting", "queued", "refused", "running", "finished", "lost"}]
      /\ queue \in [Workers -> Seq(Instances)]
  BY DEF Finish, IInv, TypeOK
<1>2. TypeOK'
  <2>1. results' \in Nat
    BY <1>1
  <2>2. inst' \in [Instances -> {"waiting", "queued", "refused", "running", "finished", "lost"}]
    BY <1>1
  <2> QED BY <2>1, <2>2 DEF IInv, TypeOK, Finish, mainVars
<1>3. JoinInv'
  BY DEF Finish, IInv, JoinInv, mainVars
<1>4. QueueInv'
  <2>1. inst'[j] = "finished" /\ \A i \in Instances : i # j => inst'[i] = inst[i]
    BY <1>1
  <2>2. ASSUME NEW w \in Workers, NEW k \in 1..Len(queue[w])
        PROVE  WorkerOf(queue[w][k]) = w /\ inst'[queue[w][k]] = "queued"
    <3>1. queue[w][k] \in Instances
      BY <1>1, ElementOfSeq
    <3> QED BY <1>1, <2>1, <3>1 DEF IInv, QueueInv
  <2> QED BY <1>1, <2>1, <2>2 DEF IInv, QueueInv, Finish, mainVars, Alive
<1>5. CoverInv'
  <2>1. worker[WorkerOf(j)] = "running" /\ WorkerOf(j) \in Workers
    BY <1>1, WorkerType DEF IInv, QueueInv
  <2>2. agg # "closed"
    BY <2>1 DEF IInv, CoverInv, Alive
  <2> QED BY <2>2 DEF IInv, CoverInv, Finish, mainVars
<1> QED BY <1>2, <1>3, <1>4, <1>5 DEF IInv

LEMMA WorkerEndsStep ==
  ASSUME IInv, NEW v \in Workers, WorkerEnds(v)
  PROVE  IInv'
<1>1. /\ worker[v] = "running" /\ worker' = [worker EXCEPT ![v] = "exited"]
      /\ queue[v] = <<>> /\ RunningOn(v) = {}
      /\ worker \in [Workers -> {"none", "starting", "running", "exited"}]
  BY DEF WorkerEnds, IInv, TypeOK
<1>2. TypeOK'
  BY <1>1 DEF IInv, TypeOK, WorkerEnds, mainVars
<1>3. JoinInv'
  BY <1>1 DEF WorkerEnds, IInv, JoinInv, mainVars
<1>4. QueueInv'
  <2>1. ASSUME NEW i \in Instances, inst[i] \in {"queued", "running"}
        PROVE  WorkerOf(i) # v /\ WorkerOf(i) \in Workers
    <3>1. CASE inst[i] = "running"
      BY <1>1, <3>1, WorkerType DEF RunningOn
    <3>2. CASE inst[i] = "queued"
      <4>1. Len(queue[v]) = 0
        BY <1>1, EmptySeq
      <4>2. PICK k \in 1..Len(queue[WorkerOf(i)]) : queue[WorkerOf(i)][k] = i
        BY <3>2 DEF IInv, QueueInv
      <4> QED BY <4>1, <4>2, WorkerType
    <3> QED BY <2>1, <3>1, <3>2
  <2>2. \A i \in Instances : inst[i] = "queued" => Alive(WorkerOf(i))'
    BY <1>1, <2>1 DEF IInv, QueueInv, Alive
  <2>3. \A i \in Instances : inst[i] = "running" => worker'[WorkerOf(i)] = "running"
    BY <1>1, <2>1 DEF IInv, QueueInv
  <2> QED BY <2>2, <2>3 DEF IInv, QueueInv, WorkerEnds, mainVars
<1>5. CoverInv'
  <2>1. agg # "closed"
    BY <1>1 DEF IInv, CoverInv, Alive
  <2> QED BY <2>1 DEF IInv, CoverInv, WorkerEnds, mainVars
<1> QED BY <1>2, <1>3, <1>4, <1>5 DEF IInv

(* The steps of main that leave the workers and their jobs alone: what is   *)
(* left to show is the types, and what main's place says of the others.     *)
LEMMA WorkersKept ==
  ASSUME QueueInv, UNCHANGED <<worker, queue, inst, next>>, main' = "spawning" => main = "spawning"
  PROVE  QueueInv'
BY DEF QueueInv, Alive

LEMMA SpawnWorkerStep ==
  ASSUME IInv, SpawnWorker
  PROVE  IInv'
<1> USE OrchestrationAssumption
<1>1. /\ main = "spawning" /\ spawned \in Workers /\ joined = 0 /\ next = 0
      /\ worker' = [worker EXCEPT ![spawned] = "starting"]
      /\ worker \in [Workers -> {"none", "starting", "running", "exited"}]
      /\ \A i \in Instances : inst[i] = "waiting"
  BY DEF SpawnWorker, IInv, TypeOK, JoinInv, QueueInv, Workers, Instances
<1>2. TypeOK'
  <2>1. /\ worker' \in [Workers -> {"none", "starting", "running", "exited"}]
        /\ main' \in MainPlaces
    BY <1>1 DEF SpawnWorker, MainPlaces
  <2>2. open' \in [Workers -> BOOLEAN]
    BY DEF SpawnWorker, IInv, TypeOK
  <2>3. spawned' \in 0..W
    BY DEF SpawnWorker, IInv, TypeOK
  <2> QED BY <2>1, <2>2, <2>3 DEF IInv, TypeOK, SpawnWorker
<1>3. JoinInv'
  BY <1>1 DEF SpawnWorker, IInv, JoinInv, Shutting, Workers
<1>4. QueueInv'
  BY <1>1 DEF SpawnWorker, IInv, QueueInv
<1>5. CoverInv'
  BY <1>1 DEF SpawnWorker, IInv, CoverInv, Shutting
<1> QED BY <1>2, <1>3, <1>4, <1>5 DEF IInv

LEMMA MainStep ==
  ASSUME IInv,
         SpawnFails \/ Dispatched \/ ReceiveResult \/ ResultsOver \/ CloseWorker
         \/ JoinWorker \/ Finalize \/ Finalized \/ CloseWriter \/ WriterJoined
  PROVE  IInv'
<1> USE OrchestrationAssumption DEF Shutting, mainVars, workerVars
<1>1. CASE SpawnFails
  <2>1. TypeOK'
    BY <1>1 DEF SpawnFails, IInv, TypeOK, MainPlaces
  <2>2. JoinInv'
    BY <1>1 DEF SpawnFails, IInv, TypeOK, JoinInv, Workers
  <2>3. QueueInv'
    BY <1>1, WorkersKept DEF SpawnFails, IInv
  <2>4. CoverInv'
    BY <1>1 DEF SpawnFails, IInv, CoverInv, Alive
  <2> QED BY <2>1, <2>2, <2>3, <2>4 DEF IInv
<1>2. CASE Dispatched
  <2>1. TypeOK'
    BY <1>2 DEF Dispatched, IInv, TypeOK, MainPlaces
  <2>2. JoinInv'
    BY <1>2 DEF Dispatched, IInv, TypeOK, JoinInv, Workers
  <2>3. QueueInv'
    BY <1>2, WorkersKept DEF Dispatched, IInv
  <2>4. CoverInv'
    BY <1>2 DEF Dispatched, IInv, CoverInv, Alive
  <2> QED BY <2>1, <2>2, <2>3, <2>4 DEF IInv
<1>3. CASE ReceiveResult
  <2>1. TypeOK'
    <3>1. received' \in 0..dispatched' /\ results' \in Nat
      BY <1>3 DEF ReceiveResult, IInv, TypeOK
    <3> QED BY <1>3, <3>1 DEF ReceiveResult, IInv, TypeOK
  <2>2. JoinInv'
    BY <1>3 DEF ReceiveResult, IInv, TypeOK, JoinInv, Workers
  <2>3. QueueInv'
    BY <1>3, WorkersKept DEF ReceiveResult, IInv
  <2>4. CoverInv'
    BY <1>3 DEF ReceiveResult, IInv, CoverInv, Alive
  <2> QED BY <2>1, <2>2, <2>3, <2>4 DEF IInv
<1>4. CASE ResultsOver
  <2>1. TypeOK'
    BY <1>4 DEF ResultsOver, IInv, TypeOK, MainPlaces
  <2>2. JoinInv'
    BY <1>4 DEF ResultsOver, IInv, TypeOK, JoinInv, Workers
  <2>3. QueueInv'
    BY <1>4, WorkersKept DEF ResultsOver, IInv
  <2>4. CoverInv'
    BY <1>4 DEF ResultsOver, IInv, CoverInv, Alive
  <2> QED BY <2>1, <2>2, <2>3, <2>4 DEF IInv
<1>5. CASE CloseWorker
  <2>1. TypeOK'
    <3>1. open' \in [Workers -> BOOLEAN]
      BY <1>5 DEF CloseWorker, IInv, TypeOK
    <3> QED BY <1>5, <3>1 DEF CloseWorker, IInv, TypeOK
  <2>2. JoinInv'
    BY <1>5 DEF CloseWorker, IInv, TypeOK, JoinInv, Workers
  <2>3. QueueInv'
    BY <1>5, WorkersKept DEF CloseWorker, IInv
  <2>4. CoverInv'
    BY <1>5 DEF CloseWorker, IInv, CoverInv, Alive
  <2> QED BY <2>1, <2>2, <2>3, <2>4 DEF IInv
<1>6. CASE JoinWorker
  <2>1. TypeOK'
    <3>1. joined' \in 0..W
      BY <1>6 DEF JoinWorker, IInv, TypeOK
    <3> QED BY <1>6, <3>1 DEF JoinWorker, IInv, TypeOK
  <2>2. JoinInv'
    BY <1>6 DEF JoinWorker, IInv, TypeOK, JoinInv, Workers
  <2>3. QueueInv'
    BY <1>6, WorkersKept DEF JoinWorker, IInv
  <2>4. CoverInv'
    BY <1>6 DEF JoinWorker, IInv, CoverInv, Alive
  <2> QED BY <2>1, <2>2, <2>3, <2>4 DEF IInv
<1>7. CASE Finalize
  <2>1. TypeOK'
    BY <1>7 DEF Finalize, IInv, TypeOK, MainPlaces
  <2>2. JoinInv'
    BY <1>7 DEF Finalize, IInv, TypeOK, JoinInv, Workers
  <2>3. QueueInv'
    BY <1>7, WorkersKept DEF Finalize, IInv
  <2>4. CoverInv'
    BY <1>7 DEF Finalize, IInv, CoverInv, Alive
  <2> QED BY <2>1, <2>2, <2>3, <2>4 DEF IInv
<1>8. CASE Finalized
  <2>1. TypeOK'
    BY <1>8 DEF Finalized, IInv, TypeOK, MainPlaces
  <2>2. JoinInv'
    BY <1>8 DEF Finalized, IInv, TypeOK, JoinInv, Workers
  <2>3. QueueInv'
    BY <1>8, WorkersKept DEF Finalized, IInv
  <2>4. CoverInv'
    BY <1>8 DEF Finalized, IInv, CoverInv, Alive
  <2> QED BY <2>1, <2>2, <2>3, <2>4 DEF IInv
<1>9. CASE CloseWriter
  <2>1. TypeOK'
    BY <1>9 DEF CloseWriter, IInv, TypeOK, MainPlaces
  <2>2. JoinInv'
    BY <1>9 DEF CloseWriter, IInv, TypeOK, JoinInv, Workers
  <2>3. QueueInv'
    BY <1>9, WorkersKept DEF CloseWriter, IInv
  <2>4. CoverInv'
    BY <1>9 DEF CloseWriter, IInv, CoverInv, Alive
  <2> QED BY <2>1, <2>2, <2>3, <2>4 DEF IInv
<1>10. CASE WriterJoined
  <2>1. TypeOK'
    BY <1>10 DEF WriterJoined, IInv, TypeOK, MainPlaces
  <2>2. JoinInv'
    BY <1>10 DEF WriterJoined, IInv, TypeOK, JoinInv, Workers
  <2>3. QueueInv'
    BY <1>10, WorkersKept DEF WriterJoined, IInv
  <2>4. CoverInv'
    BY <1>10 DEF WriterJoined, IInv, CoverInv, Alive
  <2> QED BY <2>1, <2>2, <2>3, <2>4 DEF IInv
<1> QED BY <1>1, <1>2, <1>3, <1>4, <1>5, <1>6, <1>7, <1>8, <1>9, <1>10

(* The aggregator sees its channel closed only when the template and the    *)
(* collector are dropped, that is after the dispatch, and when no worker is *)
(* alive, so that no instance is queued or running either.                  *)
LEMMA SinkStep ==
  ASSUME IInv, AggregatorCancelled \/ AggregatorClosed \/ WriterEnds \/ CtrlC \/ UNCHANGED vars
  PROVE  IInv'
<1> USE OrchestrationAssumption DEF mainVars, workerVars, vars
<1>1. QueueInv'
  BY WorkersKept DEF IInv, AggregatorCancelled, AggregatorClosed, WriterEnds, CtrlC
<1>2. JoinInv'
  BY DEF IInv, JoinInv, AggregatorCancelled, AggregatorClosed, WriterEnds, CtrlC
<1>3. TypeOK'
  BY DEF IInv, TypeOK, AggregatorCancelled, AggregatorClosed, WriterEnds, CtrlC
<1>4. CoverInv'
  <2>1. CASE AggregatorClosed
    <3>1. /\ main \in Shutting \cup {"aborted"} /\ \A w \in Workers : ~Alive(w)
          /\ next = N \/ main = "aborted"
      BY <2>1 DEF AggregatorClosed, NobodyHolds, StatsHandles, IInv, CoverInv, Shutting
    <3>2. ASSUME NEW i \in Instances, main # "aborted"
          PROVE  inst[i] \in {"finished", "lost", "refused"}
      <4>1. inst[i] \notin {"queued", "running"}
        BY <3>1, WorkerType DEF IInv, QueueInv, Alive
      <4>2. inst[i] # "waiting"
        BY <3>1, <3>2 DEF IInv, QueueInv, Instances
      <4> QED BY <4>1, <4>2 DEF IInv, TypeOK
    <3> QED BY <2>1, <3>1, <3>2 DEF AggregatorClosed, IInv, CoverInv, Alive
  <2>2. CASE AggregatorCancelled \/ WriterEnds \/ CtrlC \/ UNCHANGED vars
    BY <2>2 DEF IInv, CoverInv, Alive, AggregatorCancelled, WriterEnds, CtrlC
  <2> QED BY <2>1, <2>2
<1> QED BY <1>1, <1>2, <1>3, <1>4 DEF IInv

LEMMA IInvStep == IInv /\ [Next]_vars => IInv'
<1> SUFFICES ASSUME IInv, [Next]_vars PROVE IInv'
  OBVIOUS
<1>1. CASE SpawnWorker
  BY <1>1, SpawnWorkerStep
<1>2. CASE Dispatch
  BY <1>2, DispatchStep
<1>3. CASE SpawnFails \/ Dispatched \/ ReceiveResult \/ ResultsOver \/ CloseWorker
           \/ JoinWorker \/ Finalize \/ Finalized \/ CloseWriter \/ WriterJoined
  BY <1>3, MainStep
<1>4. ASSUME NEW w \in Workers, BuildRuntime(w) \/ RuntimeFails(w) \/ TakeJob(w) \/ WorkerEnds(w)
      PROVE  IInv'
  BY <1>4, BuildRuntimeStep, RuntimeFailsStep, TakeJobStep, WorkerEndsStep
<1>5. ASSUME NEW i \in Instances, Finish(i)
      PROVE  IInv'
  BY <1>5, FinishStep
<1>6. CASE AggregatorCancelled \/ AggregatorClosed \/ WriterEnds \/ CtrlC \/ UNCHANGED vars
  BY <1>6, SinkStep
<1>7. CASE Over
  BY <1>7, <1>6 DEF Over
<1> QED BY <1>1, <1>2, <1>3, <1>4, <1>5, <1>6, <1>7 DEF Next, Main

LEMMA IInvHolds == Spec => []IInv
BY InitInv, IInvStep, PTL DEF Spec

(* The variables keep their types, and no result is counted that no         *)
(* dispatched instance sent.                                                *)
THEOREM TypeCorrect == Spec => []TypeOK
<1>1. IInv => TypeOK
  BY DEF IInv
<1> QED BY <1>1, IInvHolds, PTL

(* When shutdown_after_workers sends the stop time of the test, the thread  *)
(* of every worker has ended, and with it every sender to the DuckDB writer *)
(* but main's own.                                                          *)
THEOREM SoleHandle == Spec => []SoleHandleAtStop
<1>1. IInv => SoleHandleAtStop
  <2> SUFFICES ASSUME IInv, main \in {"stopping", "closing", "done"}, NEW w \in Workers
               PROVE  worker[w] = "exited"
    BY DEF SoleHandleAtStop
  <2>1. joined = W
    BY DEF IInv, JoinInv, Shutting
  <2>2. w < W
    BY OrchestrationAssumption DEF Workers
  <2> QED BY <2>1, <2>2 DEF IInv, JoinInv
<1> QED BY <1>1, IInvHolds, PTL

(* When the aggregator ends because every sender is dropped, and not        *)
(* because the test was cancelled, no instance is still to run.             *)
THEOREM SummaryCovers == Spec => []SummaryCoversTest
<1>1. IInv => SummaryCoversTest
  BY DEF IInv, CoverInv, SummaryCoversTest
<1> QED BY <1>1, IInvHolds, PTL

(* The accounts of the results.  Two sets of instances are counted.         *)
Accepted == InState({"queued", "running", "finished", "lost"})
Finished == InState({"finished"})

LEMMA InStatesFinite ==
  IsFiniteSet(Accepted) /\ IsFiniteSet(Finished)
<1>1. IsFiniteSet(Instances)
  BY OrchestrationAssumption, FS_Interval DEF Instances
<1>2. Accepted \in SUBSET Instances /\ Finished \in SUBSET Instances
  BY DEF Accepted, Finished, InState
<1> QED BY <1>1, <1>2, FS_Subset

LEMMA InitAccounts == Init => ResultsAccounted
<1> SUFFICES ASSUME Init PROVE ResultsAccounted
  OBVIOUS
<1>1. Accepted = {} /\ Finished = {}
  BY DEF Init, Accepted, Finished, InState
<1>2. Cardinality({}) = 0
  BY FS_EmptySet
<1>3. dispatched = 0 /\ received = 0 /\ results = 0
  BY DEF Init
<1> QED BY <1>1, <1>2, <1>3 DEF ResultsAccounted, Accepted, Finished

(* A dispatch adds the instance to the accepted ones, an instance that ends *)
(* is added to the finished ones; every other step keeps both sets.         *)
LEMMA AccountsStep ==
  ASSUME IInv, ResultsAccounted, [Next]_vars
  PROVE  ResultsAccounted'
<1> DEFINE States == {"waiting", "queued", "refused", "running", "finished", "lost"}
<1>1. /\ dispatched = Cardinality(Accepted) /\ received + results = Cardinality(Finished)
      /\ received \in Nat /\ results \in Nat /\ dispatched \in Nat
      /\ inst \in [Instances -> States]
  BY OrchestrationAssumption DEF ResultsAccounted, Accepted, Finished, IInv, TypeOK
<1>2. SUFFICES /\ dispatched' = Cardinality(Accepted')
               /\ received' + results' = Cardinality(Finished')
  BY DEF ResultsAccounted, Accepted, Finished
<1>3. ASSUME UNCHANGED <<inst, dispatched>>, received' + results' = received + results
      PROVE  /\ dispatched' = Cardinality(Accepted')
             /\ received' + results' = Cardinality(Finished')
  <2>1. Accepted' = Accepted /\ Finished' = Finished
    BY <1>3 DEF Accepted, Finished, InState
  <2> QED BY <1>1, <1>3, <2>1
<1>4. ASSUME NEW i \in Instances, UNCHANGED <<dispatched, received, results>>,
             \A l \in Instances : inst'[l] = inst[l]
                                  \/ (inst[l] = "queued" /\ inst'[l] \in {"running", "lost"})
      PROVE  /\ dispatched' = Cardinality(Accepted')
             /\ received' + results' = Cardinality(Finished')
  <2>1. Accepted' = Accepted /\ Finished' = Finished
    BY <1>4 DEF Accepted, Finished, InState
  <2> QED BY <1>1, <1>4, <2>1
<1>5. CASE Dispatch
  <2>1. next \in Instances /\ inst[next] = "waiting"
    BY <1>5, OrchestrationAssumption DEF Dispatch, IInv, TypeOK, QueueInv, Instances
  <2>2. received' = received /\ results' = results
    BY <1>5 DEF Dispatch
  <2>3. CASE Alive(WorkerOf(next))
    <3>1. inst' = [inst EXCEPT ![next] = "queued"] /\ dispatched' = dispatched + 1
      BY <1>5, <2>3 DEF Dispatch
    <3>2. \A l \in Instances : inst'[l] = IF l = next THEN "queued" ELSE inst[l]
      BY <1>1, <3>1
    <3>3. Accepted' = Accepted \cup {next} /\ next \notin Accepted
      BY <2>1, <3>2 DEF Accepted, InState
    <3>4. Finished' = Finished
      BY <2>1, <3>2 DEF Finished, InState
    <3>5. Cardinality(Accepted \cup {next}) = Cardinality(Accepted) + 1
      BY <3>3, InStatesFinite, FS_AddElement
    <3> QED BY <1>1, <2>2, <3>1, <3>3, <3>4, <3>5
  <2>4. CASE ~Alive(WorkerOf(next))
    <3>1. inst' = [inst EXCEPT ![next] = "refused"] /\ dispatched' = dispatched
      BY <1>5, <2>4 DEF Dispatch
    <3>2. \A l \in Instances : inst'[l] = IF l = next THEN "refused" ELSE inst[l]
      BY <1>1, <3>1
    <3>3. Accepted' = Accepted /\ Finished' = Finished
      BY <2>1, <3>2 DEF Accepted, Finished, InState
    <3> QED BY <1>1, <2>2, <3>1, <3>3
  <2> QED BY <2>3, <2>4
<1>6. ASSUME NEW j \in Instances, Finish(j)
      PROVE  /\ dispatched' = Cardinality(Accepted')
             /\ received' + results' = Cardinality(Finished')
  <2>1. /\ inst[j] = "running" /\ inst' = [inst EXCEPT ![j] = "finished"]
        /\ results' = results + 1 /\ received' = received /\ dispatched' = dispatched
    BY <1>6 DEF Finish, mainVars
  <2>2. \A l \in Instances : inst'[l] = IF l = j THEN "finished" ELSE inst[l]
    BY <1>1, <2>1
  <2>3. Accepted' = Accepted
    BY <2>1, <2>2 DEF Accepted, InState
  <2>4. Finished' = Finished \cup {j} /\ j \notin Finished
    BY <2>1, <2>2 DEF Finished, InState
  <2>5. Cardinality(Finished \cup {j}) = Cardinality(Finished) + 1
    BY <2>4, InStatesFinite, FS_AddElement
  <2> QED BY <1>1, <2>1, <2>3, <2>4, <2>5
<1>7. ASSUME NEW v \in Workers, TakeJob(v)
      PROVE  /\ dispatched' = Cardinality(Accepted')
             /\ received' + results' = Cardinality(Finished')
  <2>1. /\ queue[v] # <<>> /\ queue[v] \in Seq(Instances)
        /\ inst' = [inst EXCEPT ![Head(queue[v])] = "running"]
        /\ UNCHANGED <<dispatched, received, results>>
    BY <1>7 DEF TakeJob, mainVars, IInv, TypeOK
  <2>2. /\ Head(queue[v]) \in Instances /\ Head(queue[v]) = queue[v][1]
        /\ 1 \in 1..Len(queue[v])
    BY <2>1, TailProperties
  <2>3. inst[Head(queue[v])] = "queued"
    BY <2>2 DEF IInv, QueueInv
  <2>4. \A l \in Instances : inst'[l] = inst[l] \/ (inst[l] = "queued" /\ inst'[l] = "running")
    BY <1>1, <2>1, <2>2, <2>3
  <2> QED BY <1>4, <2>1, <2>2, <2>4
<1>8. ASSUME NEW v \in Workers, RuntimeFails(v)
      PROVE  /\ dispatched' = Cardinality(Accepted')
             /\ received' + results' = Cardinality(Finished')
  <2>1. \A l \in Instances : inst'[l] = inst[l] \/ (inst[l] = "queued" /\ inst'[l] = "lost")
    BY <1>8 DEF RuntimeFails
  <2>2. UNCHANGED <<dispatched, received, results>> /\ 0 \in Instances
    BY <1>8, OrchestrationAssumption DEF RuntimeFails, mainVars, Instances
  <2> QED BY <1>4, <2>1, <2>2
<1>9. CASE ReceiveResult
  <2>1. UNCHANGED <<inst, dispatched>> /\ received' = received + 1 /\ results' = results - 1
    BY <1>9 DEF ReceiveResult, workerVars
  <2> QED BY <1>1, <1>3, <2>1
<1>10. CASE SpawnWorker \/ SpawnFails \/ Dispatched \/ ResultsOver \/ CloseWorker
            \/ JoinWorker \/ Finalize \/ Finalized \/ CloseWriter \/ WriterJoined
  <2>1. UNCHANGED <<inst, dispatched, received, results>>
    BY <1>10 DEF SpawnWorker, SpawnFails, Dispatched, ResultsOver, CloseWorker, JoinWorker,
                 Finalize, Finalized, CloseWriter, WriterJoined, mainVars, workerVars
  <2> QED BY <1>3, <2>1
<1>11. CASE AggregatorCancelled \/ AggregatorClosed \/ WriterEnds \/ CtrlC \/ Over \/ UNCHANGED vars
  <2>1. UNCHANGED <<inst, dispatched, received, results>>
    BY <1>11 DEF AggregatorCancelled, AggregatorClosed, WriterEnds, CtrlC, Over, vars,
                 mainVars, workerVars
  <2> QED BY <1>3, <2>1
<1>12. ASSUME NEW w \in Workers, BuildRuntime(w) \/ WorkerEnds(w)
       PROVE  /\ dispatched' = Cardinality(Accepted')
              /\ received' + results' = Cardinality(Finished')
  <2>1. UNCHANGED <<inst, dispatched, received, results>>
    BY <1>12 DEF BuildRuntime, WorkerEnds, mainVars
  <2> QED BY <1>3, <2>1
<1>13. \/ \E w \in Workers : BuildRuntime(w) \/ RuntimeFails(w) \/ TakeJob(w) \/ WorkerEnds(w)
       \/ \E i \in Instances : Finish(i)
       \/ Dispatch \/ ReceiveResult
       \/ SpawnWorker \/ SpawnFails \/ Dispatched \/ ResultsOver \/ CloseWorker
          \/ JoinWorker \/ Finalize \/ Finalized \/ CloseWriter \/ WriterJoined
       \/ AggregatorCancelled \/ AggregatorClosed \/ WriterEnds \/ CtrlC \/ Over \/ UNCHANGED vars
  BY DEF Next, Main
<1> HIDE DEF States
<1> QED BY <1>5, <1>6, <1>7, <1>8, <1>9, <1>10, <1>11, <1>12, <1>13

(* Each instance a worker accepted counts as one result to wait for, and    *)
(* each instance that ended, and no other, sent one: the wait for results   *)
(* neither ends early nor waits for a result nobody sends, jobs lost with   *)
(* their worker excepted.                                                   *)
THEOREM Accounts == Spec => []ResultsAccounted
<1>1. Init => IInv /\ ResultsAccounted
  BY InitInv, InitAccounts
<1>2. IInv /\ ResultsAccounted /\ [Next]_vars => (IInv /\ ResultsAccounted)'
  BY IInvStep, AccountsStep
<1> QED BY <1>1, <1>2, PTL DEF Spec

(* The stop time and the summary wait for the workers: what the order in    *)
(* which async_main drops its handles is for.                               *)
THEOREM SinksOutlive == Spec => []SinksOutliveWorkers
BY SoleHandle, SummaryCovers, PTL DEF SinksOutliveWorkers

-----------------------------------------------------------------------------
(* The verdict on the times to connect, for any number of values.         *)

(* The rank is the least r with 100 r >= p n.                               *)
LEMMA RankIsCeiling ==
  ASSUME NEW n \in Nat \ {0}, NEW p \in 1 .. 100
  PROVE  /\ Sums!Rank(n, p) \in 1 .. n /\ p * n \in Nat
         /\ 100 * Sums!Rank(n, p) >= p * n
         /\ 100 * (Sums!Rank(n, p) - 1) < p * n
<1> DEFINE k == p * n
           r == (k + 99) \div 100
<1>1. k \in Nat /\ k > 0 /\ k <= 100 * n
  <2>1. k = (p - 1) * n + n /\ 100 * n = k + (100 - p) * n
    OBVIOUS
  <2>2. (p - 1) * n \in Nat /\ (100 - p) * n \in Nat
    <3>1. p - 1 \in Nat /\ 100 - p \in Nat
      OBVIOUS
    <3>2. \A a, b \in Nat : a * b \in Nat
      OBVIOUS
    <3> QED BY <3>1, <3>2
  <2> HIDE DEF k
  <2> QED BY <2>1, <2>2
<1>2. Sums!Rank(n, p) = IF r < 1 THEN 1 ELSE IF r > n THEN n ELSE r
  BY DEF Sums!Rank
<1> HIDE DEF k
<1>3. r \in 1 .. n /\ 100 * r >= k /\ 100 * (r - 1) < k
  BY <1>1
<1> HIDE DEF r
<1>4. Sums!Rank(n, p) = r
  BY <1>2, <1>3
<1> QED BY <1>1, <1>3, <1>4 DEF k

(* The p-th percentile of values in ascending order is within a limit       *)
(* exactly when p of 100 of them are: the verdict on                        *)
(* --threshold-connect-time-p95-ms, which compares one value, says of all   *)
(* connections what the option asks (percentile and evaluate).              *)
THEOREM PercentileMeaning ==
  ASSUME NEW s \in Seq(Nat), s # <<>>, NEW p \in 1 .. 100, NEW limit \in Nat,
         \A i, j \in 1 .. Len(s) : i <= j => s[i] <= s[j]
  PROVE  Sums!Percentile(s, p) <= limit
           <=> 100 * Cardinality({i \in 1 .. Len(s) : s[i] <= limit}) >= p * Len(s)
<1> DEFINE n == Len(s)
           r == Sums!Rank(n, p)
           Within == {i \in 1 .. n : s[i] <= limit}
<1>1. n \in Nat \ {0} /\ \A i \in 1 .. n : s[i] \in Nat
  OBVIOUS
<1>2. r \in 1 .. n /\ p * n \in Nat /\ 100 * r >= p * n /\ 100 * (r - 1) < p * n
  BY <1>1, RankIsCeiling
<1>3. Sums!Percentile(s, p) = s[r]
  BY DEF Sums!Percentile
<1> HIDE DEF r
<1>4. IsFiniteSet(Within) /\ Cardinality(Within) \in Nat
  <2>1. IsFiniteSet(1 .. n)
    BY <1>1, FS_Interval
  <2> QED BY <2>1, FS_Subset, FS_CardinalityType
<1>5. \A m \in 0 .. n : IsFiniteSet(1 .. m) /\ Cardinality(1 .. m) = m
  BY <1>1, FS_Interval
<1>6. CASE s[r] <= limit
  <2>1. 1 .. r \subseteq Within
    BY SMTT(30), <1>1, <1>2, <1>6
  <2>2. Cardinality(1 .. r) <= Cardinality(Within)
    BY <1>4, <2>1, FS_Subset
  <2>3. r <= Cardinality(Within)
    BY <1>2, <1>5, <2>2
  <2> HIDE DEF Within
  <2>4. 100 * Cardinality(Within) >= p * n
    BY <1>2, <1>4, <2>3
  <2> QED BY <1>3, <1>6, <2>4 DEF Within
<1>7. CASE ~(s[r] <= limit)
  <2>1. Within \subseteq 1 .. (r - 1)
    <3> SUFFICES ASSUME NEW i \in 1 .. n, s[i] <= limit PROVE i \in 1 .. (r - 1)
      OBVIOUS
    <3>1. ~(r <= i)
      BY SMTT(30), <1>1, <1>2, <1>7
    <3> QED BY <1>1, <1>2, <3>1
  <2>2. IsFiniteSet(1 .. (r - 1)) /\ Cardinality(1 .. (r - 1)) = r - 1
    BY <1>2, <1>5
  <2> HIDE DEF Within, n
  <2>3. Cardinality(Within) <= Cardinality(1 .. (r - 1))
    BY <2>1, <2>2, FS_Subset
  <2>4. ~(100 * Cardinality(Within) >= p * n)
    BY <1>1, <1>2, <1>4, <2>2, <2>3
  <2> QED BY <1>3, <1>7, <2>4 DEF Within, n
<1> QED BY <1>6, <1>7

-----------------------------------------------------------------------------
(* The process of zakuro-moq.                                               *)

ProcessInv == M!TypeOK /\ M!HatchInv /\ M!JoinInv

LEMMA ProcessInit == M!Init => ProcessInv
<1> SUFFICES ASSUME M!Init PROVE ProcessInv
  OBVIOUS
<1> USE SettingsAssumption DEF M!Init
<1>1. M!TypeOK
  <2>1. 0 \in 0 .. Vcs /\ 0 \in 0 .. InstanceCount /\ 0 \in 0 .. 2
    OBVIOUS
  <2>2. /\ hatched \in [M!I -> 0 .. Vcs] /\ instance \in [M!I -> {"waiting"}]
        /\ client \in [M!C -> {"waiting"}]
    BY <2>1
  <2> QED BY <2>1, <2>2 DEF M!TypeOK
<1>2. M!HatchInv
  <2>1. \A c \in M!C : c[2] > 0 /\ c[1] \in M!I
    BY DEF M!C
  <2> QED BY <2>1 DEF M!HatchInv, M!I
<1>3. M!JoinInv
  BY DEF M!JoinInv, M!C
<1> QED BY <1>1, <1>2, <1>3 DEF ProcessInv

(* A client of an instance is a pair.                                       *)
LEMMA ClientType ==
  \A c \in M!C : c = <<c[1], c[2]>> /\ c[1] \in M!I /\ c[2] \in 1 .. Vcs
BY DEF M!C

(* async_main.                                                              *)
LEMMA ProcessMainStep ==
  ASSUME ProcessInv,
         M!Settle \/ M!HatchInstance \/ M!InstancesHatched \/ M!InstancesJoined \/ M!CtrlC
  PROVE  ProcessInv'
<1> USE SettingsAssumption DEF ProcessInv, M!TypeOK, M!instances, M!clients, M!counters
<1>1. CASE M!Settle
  <2>1. place' \in {"hatching", "refused"} /\ place = "settings"
    BY <1>1 DEF M!Settle
  <2>2. UNCHANGED <<token, interrupts, begun, instance, hatched, client>>
    BY <1>1 DEF M!Settle
  <2>3. M!TypeOK'
    BY <2>1, <2>2
  <2>4. M!HatchInv' /\ M!JoinInv'
    BY <2>1, <2>2 DEF M!HatchInv, M!JoinInv
  <2> QED BY <2>3, <2>4
<1>2. CASE M!HatchInstance
  <2>1. /\ place = "hatching" /\ begun < InstanceCount /\ begun' = begun + 1
        /\ instance' = [instance EXCEPT ![begun + 1] = "building"]
        /\ UNCHANGED <<place, token, interrupts, hatched, client>>
    BY <1>2 DEF M!HatchInstance
  <2>2. begun + 1 \in M!I /\ instance[begun + 1] = "waiting"
    BY <2>1 DEF M!HatchInv, M!I
  <2>3. \A i \in M!I : instance'[i] = IF i = begun + 1 THEN "building" ELSE instance[i]
    BY <2>1, <2>2
  <2>4. M!TypeOK'
    BY <2>1, <2>2
  <2>5. \A i \in M!I : i \in Nat
    BY DEF M!I
  <2>6. M!HatchInv'
    BY <2>1, <2>2, <2>3, <2>5 DEF M!HatchInv
  <2>7. M!JoinInv'
    BY <2>1, <2>3, ClientType DEF M!JoinInv
  <2> QED BY <2>4, <2>6, <2>7
<1>3. CASE M!InstancesHatched
  <2>1. /\ place = "hatching" /\ (token \/ begun = InstanceCount) /\ place' = "joining"
        /\ UNCHANGED <<token, interrupts, begun, instance, hatched, client>>
    BY <1>3 DEF M!InstancesHatched
  <2> QED BY <2>1 DEF M!HatchInv, M!JoinInv
<1>4. CASE M!InstancesJoined
  <2>1. /\ place = "joining" /\ place' = "over" /\ token' = TRUE
        /\ \A i \in M!I : instance[i] \in {"waiting", "failed", "ended"}
        /\ UNCHANGED <<interrupts, begun, instance, hatched, client>>
    BY <1>4 DEF M!InstancesJoined
  <2> QED BY <2>1 DEF M!HatchInv, M!JoinInv
<1>5. CASE M!CtrlC
  <2>1. /\ place \in {"hatching", "joining"} /\ interrupts < 2 /\ token' = TRUE
        /\ interrupts' = interrupts + 1 /\ place' \in {place, "killed"}
        /\ UNCHANGED <<begun, instance, hatched, client>>
    BY <1>5 DEF M!CtrlC
  <2>2. interrupts' \in 0 .. 2 /\ interrupts' > 0
    BY <2>1
  <2> QED BY <2>1, <2>2 DEF M!HatchInv, M!JoinInv
<1> QED BY <1>1, <1>2, <1>3, <1>4, <1>5

(* run_instance.                                                            *)
LEMMA ProcessInstanceStep ==
  ASSUME ProcessInv, NEW i \in M!I,
         M!ContextBuilt(i) \/ M!ContextFails(i) \/ M!HatchClient(i) \/ M!ClientsHatched(i)
           \/ M!ClientsJoined(i)
  PROVE  ProcessInv'
<1> USE SettingsAssumption DEF ProcessInv, M!TypeOK, M!instances, M!clients, M!counters, M!Alive
<1>1. CASE M!ContextBuilt(i) \/ M!ContextFails(i)
  <2>1. /\ place \in {"hatching", "joining"} /\ instance[i] = "building"
        /\ UNCHANGED <<place, token, interrupts, begun, hatched, client>>
        /\ \E s \in {"hatching", "failed"} : instance' = [instance EXCEPT ![i] = s]
    BY <1>1 DEF M!ContextBuilt, M!ContextFails
  <2>2. PICK s \in {"hatching", "failed"} : instance' = [instance EXCEPT ![i] = s]
    BY <2>1
  <2>3. \A j \in M!I : instance'[j] = IF j = i THEN s ELSE instance[j]
    BY <2>2
  <2>4. M!TypeOK'
    BY <2>1, <2>2
  <2>5. M!HatchInv'
    BY <2>1, <2>3 DEF M!HatchInv
  <2>6. M!JoinInv'
    BY <2>1, <2>3, ClientType DEF M!JoinInv
  <2> QED BY <2>4, <2>5, <2>6
<1>2. CASE M!HatchClient(i)
  <2> DEFINE n == <<i, hatched[i] + 1>>
  <2>1. /\ place \in {"hatching", "joining"} /\ instance[i] = "hatching" /\ hatched[i] < Vcs
        /\ hatched' = [hatched EXCEPT ![i] = hatched[i] + 1]
        /\ client' = [client EXCEPT ![n] = "running"]
        /\ UNCHANGED <<place, token, interrupts, begun, instance>>
    BY <1>2 DEF M!HatchClient
  <2>2. n \in M!C /\ hatched[i] + 1 \in 0 .. Vcs
    BY <2>1 DEF M!C
  <2>3. \A j \in M!I : hatched'[j] = IF j = i THEN hatched[i] + 1 ELSE hatched[j]
    BY <2>1
  <2>4. \A c \in M!C : client'[c] = IF c = n THEN "running" ELSE client[c]
    BY <2>1, <2>2
  <2>5. M!TypeOK'
    BY <2>1, <2>2
  <2>6. \A c \in M!C : client'[c] = "waiting" <=> c[2] > hatched'[c[1]]
    <3> SUFFICES ASSUME NEW c \in M!C PROVE client'[c] = "waiting" <=> c[2] > hatched'[c[1]]
      OBVIOUS
    <3>1. c = <<c[1], c[2]>> /\ c[1] \in M!I /\ c[2] \in Nat
      BY ClientType
    <3>2. client[c] = "waiting" <=> c[2] > hatched[c[1]]
      BY DEF M!HatchInv
    <3>3. CASE c[1] = i
      <4>1. c = n <=> c[2] = hatched[i] + 1
        BY <3>1, <3>3
      <4>2. hatched'[c[1]] = hatched[i] + 1 /\ hatched[i] \in Nat
        BY <2>3, <3>3
      <4> QED BY <2>4, <3>1, <3>2, <3>3, <4>1, <4>2
    <3>4. CASE c[1] # i
      BY <2>3, <2>4, <3>1, <3>2, <3>4
    <3> QED BY <3>3, <3>4
  <2>7. M!HatchInv'
    BY <2>1, <2>3, <2>6 DEF M!HatchInv
  <2>8. M!JoinInv'
    BY <2>1, <2>4, ClientType DEF M!JoinInv
  <2> QED BY <2>5, <2>7, <2>8
<1>3. CASE M!ClientsHatched(i)
  <2>1. /\ place \in {"hatching", "joining"} /\ instance[i] = "hatching"
        /\ token \/ hatched[i] = Vcs
        /\ instance' = [instance EXCEPT ![i] = "joining"]
        /\ UNCHANGED <<place, token, interrupts, begun, hatched, client>>
    BY <1>3 DEF M!ClientsHatched
  <2>2. \A j \in M!I : instance'[j] = IF j = i THEN "joining" ELSE instance[j]
    BY <2>1
  <2>3. M!TypeOK'
    BY <2>1
  <2>4. M!HatchInv'
    BY <2>1, <2>2 DEF M!HatchInv
  <2>5. M!JoinInv'
    BY <2>1, <2>2, ClientType DEF M!JoinInv
  <2> QED BY <2>3, <2>4, <2>5
<1>4. CASE M!ClientsJoined(i)
  <2>1. /\ place \in {"hatching", "joining"} /\ instance[i] = "joining"
        /\ M!ClientsOf(i) \cap M!Running = {}
        /\ instance' = [instance EXCEPT ![i] = "ended"]
        /\ UNCHANGED <<place, token, interrupts, begun, hatched, client>>
    BY <1>4 DEF M!ClientsJoined
  <2>2. \A j \in M!I : instance'[j] = IF j = i THEN "ended" ELSE instance[j]
    BY <2>1
  <2>3. M!TypeOK'
    BY <2>1
  <2>4. M!HatchInv'
    BY <2>1, <2>2 DEF M!HatchInv
  <2>5. \A c \in M!C : c[1] = i => client[c] # "running"
    BY <2>1 DEF M!ClientsOf, M!Running
  <2>6. M!JoinInv'
    BY <2>1, <2>2, <2>5, ClientType DEF M!JoinInv
  <2> QED BY <2>3, <2>4, <2>6
<1> QED BY <1>1, <1>2, <1>3, <1>4

(* The clients.                                                             *)
LEMMA ClientStep ==
  ASSUME ProcessInv, NEW c \in M!C, M!CountObject(c) \/ M!ClientEnds(c)
  PROVE  ProcessInv'
<1> USE SettingsAssumption DEF ProcessInv, M!TypeOK, M!instances, M!clients, M!counters, M!Alive,
       M!Running
<1>1. CASE M!CountObject(c)
  <2>1. UNCHANGED <<place, token, interrupts, begun, instance, hatched, client>>
    BY <1>1 DEF M!CountObject
  <2> QED BY <2>1 DEF M!HatchInv, M!JoinInv
<1>2. CASE M!ClientEnds(c)
  <2>1. /\ client[c] = "running" /\ client' = [client EXCEPT ![c] = "ended"]
        /\ UNCHANGED <<place, token, interrupts, begun, instance, hatched>>
    BY <1>2 DEF M!ClientEnds
  <2>2. \A d \in M!C : client'[d] = IF d = c THEN "ended" ELSE client[d]
    BY <2>1
  <2>3. M!TypeOK'
    BY <2>1
  <2>4. M!HatchInv' /\ M!JoinInv'
    BY <2>1, <2>2 DEF M!HatchInv, M!JoinInv
  <2> QED BY <2>3, <2>4
<1> QED BY <1>1, <1>2

LEMMA ProcessStep == ProcessInv /\ [M!Next]_M!vars => ProcessInv'
<1> SUFFICES ASSUME ProcessInv, [M!Next]_M!vars PROVE ProcessInv'
  OBVIOUS
<1>1. CASE UNCHANGED M!vars
  BY <1>1 DEF M!vars, M!instances, M!clients, ProcessInv, M!TypeOK, M!HatchInv, M!JoinInv
<1>2. CASE M!Next
  BY <1>1, <1>2, ProcessMainStep, ProcessInstanceStep, ClientStep DEF M!Next, M!Terminated
<1> QED BY <1>1, <1>2

LEMMA ProcessInvariance == M!Spec => []ProcessInv
BY ProcessInit, ProcessStep, PTL DEF M!Spec

(* Behind both joins nobody counts.                                         *)
ReportInv == place = "over" => report = total

LEMMA NobodyLeft == ProcessInv /\ ReportInv => M!AllEnded
<1> SUFFICES ASSUME ProcessInv, ReportInv, place = "over"
             PROVE  /\ M!Running = {} /\ report = total
                    /\ interrupts = 0 =>
                         \A i \in M!I : \/ instance[i] = "failed"
                                       \/ \A c \in M!ClientsOf(i) : client[c] = "ended"
  BY DEF M!AllEnded
<1> USE SettingsAssumption DEF ProcessInv, M!TypeOK
<1>1. ASSUME NEW c \in M!C PROVE client[c] # "running"
  <2>1. c[1] \in M!I /\ c[2] \in 1 .. Vcs
    BY ClientType
  <2>2. CASE instance[c[1]] = "ended"
    BY <2>2 DEF M!JoinInv
  <2>3. CASE instance[c[1]] \in {"waiting", "failed"}
    <3>1. hatched[c[1]] = 0
      BY <2>1, <2>3 DEF M!HatchInv
    <3> QED BY <2>1, <3>1 DEF M!HatchInv
  <2> QED BY <2>1, <2>2, <2>3 DEF M!JoinInv
<1>2. M!Running = {}
  BY <1>1 DEF M!Running
<1>3. ASSUME interrupts = 0, NEW i \in M!I, instance[i] # "failed", NEW c \in M!ClientsOf(i)
      PROVE  client[c] = "ended"
  <2>1. c \in M!C /\ c[1] = i /\ c[2] \in 1 .. Vcs
    BY ClientType DEF M!ClientsOf
  <2>2. begun = InstanceCount
    BY <1>3 DEF M!HatchInv
  <2>3. instance[i] = "ended"
    BY <1>3, <2>2 DEF M!HatchInv, M!JoinInv, M!I
  <2>4. hatched[i] = Vcs
    BY <1>3, <2>3 DEF M!HatchInv
  <2>5. client[c] # "waiting"
    BY <2>1, <2>4 DEF M!HatchInv
  <2> QED BY <1>1, <2>1, <2>5
<1> QED BY <1>2, <1>3 DEF ReportInv

(* The types of the process.                                                *)
THEOREM ProcessTypes == M!Spec => []M!TypeOK
BY ProcessInvariance, PTL DEF ProcessInv

(* The counter, which all clients share, is the sum of what each counted.   *)
CountedInv == /\ counted \in [M!C -> Nat]
              /\ total = TotalOver(M!C, counted)
              /\ place = "over" => report = total

LEMMA ClientsFinite == IsFiniteSet(M!C)
<1>1. IsFiniteSet(1 .. InstanceCount) /\ IsFiniteSet(1 .. Vcs)
  BY SettingsAssumption, FS_Interval
<1> QED BY <1>1, FS_Product DEF M!C, M!I

LEMMA SameTotal ==
  ASSUME NEW S, NEW f
  PROVE  M!TotalOver(S, f) = TotalOver(S, f)
<1>1. \A s : M!Total(s) = Total(s)
  BY DEF M!Total, Total
<1>2. \A e : M!IsEnumeration(e, S) <=> IsEnumeration(e, S)
  BY DEF M!IsEnumeration, IsEnumeration
<1>3. M!Cardinality(S) = Cardinality(S)
  BY DEF M!Cardinality, Cardinality
<1> DEFINE h == CHOOSE e \in [1..M!Cardinality(S) -> S] : M!IsEnumeration(e, S)
           e == CHOOSE e \in [1..Cardinality(S) -> S] : IsEnumeration(e, S)
<1>4. h = e
  BY <1>2, <1>3
<1>5. M!TotalOver(S, f) = M!Total([i \in 1..M!Cardinality(S) |-> f[h[i]]])
  BY DEF M!TotalOver
<1>6. TotalOver(S, f) = Total([i \in 1..Cardinality(S) |-> f[e[i]]])
  BY DEF TotalOver
<1> HIDE DEF h, e
<1> QED BY <1>1, <1>3, <1>4, <1>5, <1>6

LEMMA CountedInit == M!Init => CountedInv
<1> SUFFICES ASSUME M!Init PROVE CountedInv
  OBVIOUS
<1>1. counted \in [M!C -> Nat] /\ \A c \in M!C : counted[c] = 0
  BY DEF M!Init
<1>2. TotalOver(M!C, counted) = 0
  BY <1>1, ClientsFinite, TotalOverZeros
<1> QED BY <1>1, <1>2 DEF M!Init, CountedInv

LEMMA ObjectIsCounted ==
  ASSUME CountedInv, NEW c \in M!C, M!CountObject(c)
  PROVE  CountedInv'
<1> DEFINE T == TotalOver(M!C, counted)
           U == TotalOver(M!C, counted')
           n == counted[c]
<1>1. /\ place # "over" /\ place' = place /\ total' = total + 1
      /\ counted' = [counted EXCEPT ![c] = counted[c] + 1]
  BY DEF M!CountObject, M!Alive
<1>2. counted \in [M!C -> Nat] /\ counted[c] \in Nat /\ counted[c] + 1 \in Nat
  BY DEF CountedInv
<1>3. counted' \in [M!C -> Nat]
  BY <1>1, <1>2
<1>4. TotalOver(M!C, [counted EXCEPT ![c] = counted[c] + 1]) + counted[c]
        = TotalOver(M!C, counted) + (counted[c] + 1)
  <2>1. \A g \in [M!C -> Nat], y \in M!C, k \in Nat :
          TotalOver(M!C, [g EXCEPT ![y] = k]) + g[y] = TotalOver(M!C, g) + k
    BY ClientsFinite, TotalOverExcept
  <2> QED BY <1>2, <2>1
<1>5. T \in Nat /\ U \in Nat /\ n \in Nat
  BY <1>2, <1>3, ClientsFinite, TotalOverIsNat
<1>6. U + n = T + (n + 1)
  <2>1. TotalOver(M!C, counted') = TotalOver(M!C, [counted EXCEPT ![c] = counted[c] + 1])
    BY <1>1, Zenon
  <2> QED BY <1>4, <2>1
<1>7. total = T
  BY DEF CountedInv
<1> HIDE DEF T, U, n
<1>8. total' = U
  BY <1>1, <1>5, <1>6, <1>7
<1> QED BY <1>1, <1>3, <1>8 DEF CountedInv, U

LEMMA CountedStep == CountedInv /\ [M!Next]_M!vars => CountedInv'
<1> SUFFICES ASSUME CountedInv, [M!Next]_M!vars PROVE CountedInv'
  OBVIOUS
<1> USE DEF M!counters, M!Alive
<1>1. CASE UNCHANGED <<counted, total, place, report>>
  BY <1>1 DEF CountedInv
<1>2. CASE M!Settle \/ M!HatchInstance \/ M!InstancesHatched \/ M!CtrlC
  <2>1. UNCHANGED <<counted, total, report>> /\ place' # "over"
    BY <1>2 DEF M!Settle, M!HatchInstance, M!InstancesHatched, M!CtrlC
  <2> QED BY <2>1 DEF CountedInv
<1>3. CASE M!InstancesJoined
  BY <1>3 DEF M!InstancesJoined, CountedInv
<1>4. ASSUME NEW i \in M!I,
             M!ContextBuilt(i) \/ M!ContextFails(i) \/ M!HatchClient(i) \/ M!ClientsHatched(i)
               \/ M!ClientsJoined(i)
      PROVE  CountedInv'
  BY <1>1, <1>4 DEF M!ContextBuilt, M!ContextFails, M!HatchClient, M!ClientsHatched, M!ClientsJoined
<1>5. ASSUME NEW c \in M!C, M!ClientEnds(c) PROVE CountedInv'
  BY <1>1, <1>5 DEF M!ClientEnds
<1>6. CASE M!Terminated \/ UNCHANGED M!vars
  BY <1>1, <1>6 DEF M!Terminated, M!vars
<1> QED BY <1>2, <1>3, <1>4, <1>5, <1>6, ObjectIsCounted DEF M!Next

(* TotalsComplete: the process reports its totals only when no client is    *)
(* left that could count, and, unless it was interrupted, after every       *)
(* client of every instance that could be set up has ended; and they are    *)
(* what the clients counted, for any number of instances and clients.       *)
THEOREM TotalsAreComplete == M!Spec => []M!TotalsComplete
<1>1. ProcessInv /\ CountedInv => M!TotalsComplete
  BY NobodyLeft, SameTotal DEF CountedInv, ReportInv, M!TotalsComplete
<1>2. M!Spec => []CountedInv
  BY CountedInit, CountedStep, PTL DEF M!Spec
<1> QED BY <1>1, <1>2, ProcessInvariance, PTL

-----------------------------------------------------------------------------
(* What a test reports. First that the times can be put in order: of        *)
(* finitely many positions one has the greatest value ...                   *)
LEMMA GreatestExists ==
  ASSUME NEW s \in Seq(Nat), NEW D \in SUBSET (1 .. Len(s)), D # {}
  PROVE  \E m \in D : \A d \in D : s[d] <= s[m]
<1> DEFINE X == 1 .. Len(s)
           Q(A) == A # {} => \E m \in A : \A d \in A : s[d] <= s[m]
           T == {n \in Nat : \A A \in SUBSET X : Cardinality(A) = n => Q(A)}
<1>1. IsFiniteSet(X) /\ \A d \in X : s[d] \in Nat
  <2>1. 1 \in Int /\ Len(s) \in Int
    OBVIOUS
  <2>2. IsFiniteSet(X)
    BY ONLY <2>1, FS_Interval
  <2> QED BY <2>2
<1>2. \A A \in SUBSET X : IsFiniteSet(A) /\ Cardinality(A) \in Nat
  BY <1>1, FS_Subset, FS_CardinalityType
<1> HIDE DEF X
<1>3. 0 \in T
  BY <1>2, FS_EmptySet
<1>4. ASSUME NEW n \in Nat, n \in T PROVE n + 1 \in T
  <2> SUFFICES ASSUME NEW A \in SUBSET X, Cardinality(A) = n + 1
               PROVE  Q(A)
    OBVIOUS
  <2>1. PICK e \in A : TRUE
    <3>1. n + 1 # 0
      OBVIOUS
    <3>2. A # {}
      BY <3>1, FS_EmptySet
    <3> QED BY <3>2
  <2> DEFINE B == A \ {e}
  <2>2. B \in SUBSET X /\ Cardinality(B) = n
    BY <1>2, FS_RemoveElement
  <2>3. Q(B)
    BY <1>4, <2>2
  <2>4. CASE B = {}
    <3>1. A = {e}
      BY <2>4
    <3> QED BY <1>1, <3>1
  <2>5. CASE B # {}
    <3>1. PICK m \in B : \A d \in B : s[d] <= s[m]
      BY <2>3, <2>5
    <3>2. m \in X /\ e \in X /\ s[m] \in Nat /\ s[e] \in Nat /\ m \in A
      BY <1>1, <3>1
    <3>3. CASE s[e] <= s[m]
      <4>1. \A d \in A : s[d] <= s[m]
        BY <3>1, <3>3
      <4> QED BY <3>2, <4>1
    <3>4. CASE ~(s[e] <= s[m])
      <4>1. \A d \in A : s[d] \in Nat
        BY <1>1
      <4>2. \A d \in A : s[d] <= s[e]
        BY SMTT(30), <3>1, <3>2, <3>4, <4>1
      <4> QED BY <4>2
    <3> QED BY <3>3, <3>4
  <2> QED BY <2>4, <2>5
<1> HIDE DEF T
<1>5. \A n \in Nat : n \in T
  BY <1>3, <1>4, Induction
<1>6. D \in SUBSET X /\ Cardinality(D) \in Nat
  BY <1>2 DEF X
<1>7. Cardinality(D) \in T
  BY <1>5, <1>6
<1> QED BY <1>6, <1>7 DEF T

(* ... and putting it last leaves fewer of them to put in order.            *)
LEMMA OrderExists ==
  ASSUME NEW s \in Seq(Nat)
  PROVE  \E f \in Sums!Rearrangements(1 .. Len(s)) :
           Sums!Ascending([i \in 1 .. Len(s) |-> s[f[i]]])
<1> DEFINE X == 1 .. Len(s)
           Orders(f, n, A) ==
             /\ \A i, j \in 1 .. n : f[i] = f[j] => i = j
             /\ \A a \in A : \E i \in 1 .. n : f[i] = a
             /\ \A i, j \in 1 .. n : i < j => s[f[i]] <= s[f[j]]
           T == {n \in Nat : \A A \in SUBSET X :
                   Cardinality(A) = n => \E f \in [1 .. n -> A] : Orders(f, n, A)}
<1>1. IsFiniteSet(X) /\ Len(s) \in Nat /\ \A d \in X : s[d] \in Nat
  <2>1. 1 \in Int /\ Len(s) \in Int
    OBVIOUS
  <2>2. IsFiniteSet(X)
    BY ONLY <2>1, FS_Interval
  <2> QED BY <2>2
<1>2. \A A \in SUBSET X : IsFiniteSet(A) /\ Cardinality(A) \in Nat
  BY <1>1, FS_Subset, FS_CardinalityType
<1>3. 0 \in T
  <2> SUFFICES ASSUME NEW A \in SUBSET X, Cardinality(A) = 0
               PROVE  \E f \in [1 .. 0 -> A] : Orders(f, 0, A)
    OBVIOUS
  <2>1. A = {} /\ 1 .. 0 = {}
    BY <1>2, FS_EmptySet
  <2>2. [i \in 1 .. 0 |-> s[i]] \in [1 .. 0 -> A]
    BY <2>1
  <2>3. Orders([i \in 1 .. 0 |-> s[i]], 0, A)
    BY <2>1
  <2> QED BY <2>2, <2>3
<1>4. ASSUME NEW n \in Nat, n \in T PROVE n + 1 \in T
  <2> SUFFICES ASSUME NEW A \in SUBSET X, Cardinality(A) = n + 1
               PROVE  \E f \in [1 .. n + 1 -> A] : Orders(f, n + 1, A)
    OBVIOUS
  <2>1. A # {}
    <3>1. n + 1 # 0
      OBVIOUS
    <3> QED BY <3>1, FS_EmptySet
  <2>2. PICK m \in A : \A d \in A : s[d] <= s[m]
    BY <2>1, GreatestExists
  <2> DEFINE B == A \ {m}
  <2>3. B \in SUBSET X /\ Cardinality(B) = n
    BY <1>2, FS_RemoveElement
  <2>4. PICK g \in [1 .. n -> B] : Orders(g, n, B)
    BY <1>4, <2>3
  <2> DEFINE f == [i \in 1 .. n + 1 |-> IF i = n + 1 THEN m ELSE g[i]]
  <2>5. \A i \in 1 .. n + 1 : i = n + 1 \/ i \in 1 .. n
    OBVIOUS
  <2>6. f[n + 1] = m /\ \A i \in 1 .. n : i \in 1 .. n + 1 /\ f[i] = g[i] /\ g[i] \in B /\ f[i] # m
    OBVIOUS
  <2>7. f \in [1 .. n + 1 -> A]
    BY <2>5, <2>6
  <2> HIDE DEF f
  <2>8. \A i, j \in 1 .. n + 1 : f[i] = f[j] => i = j
    BY <2>4, <2>5, <2>6
  <2>9. \A a \in A : \E i \in 1 .. n + 1 : f[i] = a
    <3>1. ASSUME NEW a \in B PROVE \E i \in 1 .. n + 1 : f[i] = a
      <4>1. PICK i \in 1 .. n : g[i] = a
        BY <2>4
      <4> QED BY <2>6, <4>1
    <3>2. n + 1 \in 1 .. n + 1
      OBVIOUS
    <3> QED BY <2>6, <3>1, <3>2
  <2>10. ASSUME NEW i \in 1 .. n + 1, NEW j \in 1 .. n + 1, i < j PROVE s[f[i]] <= s[f[j]]
    <3>1. i \in 1 .. n
      BY <2>10
    <3>2. CASE j = n + 1
      BY <2>2, <2>6, <3>1, <3>2
    <3>3. CASE j \in 1 .. n
      BY <2>4, <2>6, <2>10, <3>1, <3>3
    <3> QED BY <2>5, <3>2, <3>3
  <2>11. Orders(f, n + 1, A)
    BY <2>8, <2>9, <2>10
  <2> HIDE DEF Orders
  <2> QED BY <2>7, <2>11
<1>5. X \in SUBSET X /\ Cardinality(X) = Len(s)
  <2>1. 1 \in Int /\ Len(s) \in Int /\ Len(s) \in Nat
    BY <1>1
  <2>2. Cardinality(X) = IF 1 > Len(s) THEN 0 ELSE Len(s) - 1 + 1
    BY ONLY <2>1, FS_Interval
  <2>3. (IF 1 > Len(s) THEN 0 ELSE Len(s) - 1 + 1) = Len(s)
    BY ONLY <2>1
  <2> QED BY ONLY <2>2, <2>3
<1> HIDE DEF T
<1>6. Len(s) \in T
  BY <1>1, <1>3, <1>4, Induction
<1>7. PICK f \in [1 .. Len(s) -> X] : Orders(f, Len(s), X)
  BY <1>5, <1>6 DEF T
<1>8. f \in Sums!Rearrangements(1 .. Len(s))
  BY <1>7 DEF Sums!Rearrangements
<1>9. Sums!Ascending([i \in 1 .. Len(s) |-> s[f[i]]])
  BY <1>7 DEF Sums!Ascending
<1> QED BY <1>8, <1>9

(* The sorted times are in order and as many of them are within any limit.  *)
LEMMA SortedTimes ==
  ASSUME NEW s \in Seq(Nat)
  PROVE  /\ Sums!Sorted(s) \in Seq(Nat) /\ Len(Sums!Sorted(s)) = Len(s)
         /\ \A i, j \in 1 .. Len(s) : i <= j => Sums!Sorted(s)[i] <= Sums!Sorted(s)[j]
         /\ \A limit : Cardinality({i \in 1 .. Len(s) : Sums!Sorted(s)[i] <= limit})
                         = Cardinality({i \in 1 .. Len(s) : s[i] <= limit})
<1> DEFINE X == 1 .. Len(s)
           f == CHOOSE g \in Sums!Rearrangements(DOMAIN s) :
                  Sums!Ascending([i \in DOMAIN s |-> s[g[i]]])
           q == Sums!Sorted(s)
<1>1. DOMAIN s = X /\ Len(s) \in Nat /\ \A i \in X : s[i] \in Nat
  OBVIOUS
<1>2. f \in Sums!Rearrangements(X) /\ Sums!Ascending([i \in X |-> s[f[i]]])
  BY <1>1, OrderExists
<1>3. q = [i \in X |-> s[f[i]]]
  BY <1>1 DEF Sums!Sorted
<1> HIDE DEF f, q
<1>4. /\ f \in [X -> X] /\ \A i, j \in X : f[i] = f[j] => i = j
      /\ \A j \in X : \E i \in X : f[i] = j
  BY <1>2 DEF Sums!Rearrangements
<1>5. q \in [X -> Nat] /\ \A i \in X : q[i] = s[f[i]] /\ q[i] \in Nat
  BY <1>1, <1>3, <1>4
<1>6. q \in Seq(Nat) /\ Len(q) = Len(s)
  BY <1>1, <1>5, FunctionIsSequence
<1>7. \A i, j \in X : i <= j => q[i] <= q[j]
  <2>1. \A i, j \in X : i < j => q[i] <= q[j]
    BY <1>2, <1>3 DEF Sums!Ascending
  <2> QED BY <1>1, <1>5, <2>1
<1>8. ASSUME NEW limit
      PROVE  Cardinality({i \in X : q[i] <= limit}) = Cardinality({i \in X : s[i] <= limit})
  <2> DEFINE A == {i \in X : q[i] <= limit}
             B == {i \in X : s[i] <= limit}
             g == [i \in A |-> f[i]]
  <2>1. g \in [A -> B]
    BY <1>4, <1>5
  <2>2. \A i, j \in A : g[i] = g[j] => i = j
    BY <1>4
  <2>3. \A j \in B : \E i \in A : g[i] = j
    <3> SUFFICES ASSUME NEW j \in B PROVE \E i \in A : g[i] = j
      OBVIOUS
    <3>1. PICK i \in X : f[i] = j
      BY <1>4
    <3>2. i \in A
      BY <1>5, <3>1
    <3> QED BY <3>1, <3>2
  <2>4. IsFiniteSet(A)
    <3>1. 1 \in Int /\ Len(s) \in Int
      BY <1>1
    <3>2. IsFiniteSet(X)
      BY ONLY <3>1, FS_Interval
    <3> QED BY <3>2, FS_Subset
  <2> HIDE DEF A, B, g
  <2>5. ExistsBijection(A, B)
    BY <2>1, <2>2, <2>3 DEF ExistsBijection, Bijection, Injection, Surjection, IsInjective
  <2>6. Cardinality(B) = Cardinality(A)
    BY <2>4, <2>5, FS_Bijection
  <2> QED BY <2>6 DEF A, B
<1> QED BY <1>6, <1>7, <1>8 DEF q

(* One position more: what is counted among the positions grows by one or   *)
(* not at all.                                                              *)
LEMMA CountAppended ==
  ASSUME NEW n \in Nat, NEW A \in SUBSET (1 .. n), NEW B \in SUBSET (1 .. (n + 1)),
         \A i \in 1 .. n : i \in B <=> i \in A
  PROVE  /\ Cardinality(A) \in Nat
         /\ Cardinality(B) = Cardinality(A) + (IF n + 1 \in B THEN 1 ELSE 0)
<1>1. IsFiniteSet(A) /\ Cardinality(A) \in Nat
  <2>1. 1 \in Int /\ n \in Int
    OBVIOUS
  <2>2. IsFiniteSet(1 .. n)
    BY ONLY <2>1, FS_Interval
  <2> QED BY <2>2, FS_Subset, FS_CardinalityType
<1>2. n + 1 \notin A /\ \A i \in 1 .. (n + 1) : i \in 1 .. n \/ i = n + 1
  OBVIOUS
<1>3. CASE n + 1 \in B
  <2>1. B = A \cup {n + 1}
    BY <1>2, <1>3
  <2> QED BY <1>1, <1>2, <1>3, <2>1, FS_AddElement
<1>4. CASE n + 1 \notin B
  <2>1. B = A
    BY <1>2, <1>4
  <2> QED BY <1>1, <1>4, <2>1
<1> QED BY <1>1, <1>3, <1>4

(* What the collector has added up is what it was told of, ...              *)
Failed == Sums!WithVerdict \ Sums!Succeeded
FailedFor(r) == {i \in Failed : applied[i].reason = r}

CollectedInv ==
  /\ applied \in Seq(Endings)
  /\ totals = [success |-> Cardinality(Sums!Succeeded), failure |-> Cardinality(Failed),
               unjudged |-> Cardinality(Sums!Ended \ Sums!WithVerdict),
               stalled |-> Cardinality(Sums!Stalled)]
  /\ times \in Seq(Nat) /\ Len(times) = Cardinality(Sums!Timed)
  /\ \A limit \in Nat :
       Cardinality({k \in 1 .. Len(times) : times[k] <= limit})
         = Cardinality(Sums!TimedWithin(limit))
  /\ \A r \in DOMAIN reasons : reasons[r] = Cardinality(FailedFor(r))
  /\ \A i \in Sums!Ended : applied[i].reason = Absent \/ applied[i].reason \in DOMAIN reasons

(* ... and nothing is added once it was compared with the limits.           *)
ComparedInv ==
  exit # Absent =>
    main = "done" /\ exit = [l \in LimitSets |-> Sums!Satisfied(l, Sums!SummaryOf)]

SummaryInv == CollectedInv /\ ComparedInv

LEMMA EndingType ==
  ASSUME NEW e \in Endings
  PROVE  /\ e.outcome \in {"success", "failure", "unjudged"}
         /\ e.reason # Absent <=> e.outcome = "failure"
         /\ e.stalled \in BOOLEAN /\ (e.time = Absent \/ e.time \in Nat)
         /\ Absent \notin Nat
BY LoadAssumption DEF Sums!SummaryAssumption, Sums!Outcomes

LEMMA SummaryStarts == Sums!Init => SummaryInv
<1> SUFFICES ASSUME Sums!Init PROVE SummaryInv
  OBVIOUS
<1>1. /\ totals = [success |-> 0, failure |-> 0, unjudged |-> 0, stalled |-> 0]
      /\ reasons = [r \in {} |-> 0] /\ times = <<>> /\ applied = <<>> /\ exit = Absent
  BY DEF Sums!Init, Sums!NoReasons, Sums!Open
<1>2. Sums!Ended = {}
  <2>1. DOMAIN <<>> = {}
    OBVIOUS
  <2> QED BY <1>1, <2>1 DEF Sums!Ended
<1>3. /\ Sums!Succeeded = {} /\ Failed = {} /\ Sums!Ended \ Sums!WithVerdict = {}
      /\ Sums!Stalled = {} /\ Sums!Timed = {} /\ \A limit : Sums!TimedWithin(limit) = {}
  BY <1>2 DEF Sums!Succeeded, Failed, Sums!WithVerdict, Sums!Stalled, Sums!Timed, Sums!TimedWithin
<1>4. Len(times) = 0 /\ \A limit : {k \in 1 .. Len(times) : times[k] <= limit} = {}
  BY <1>1
<1>5. Cardinality({}) = 0
  BY FS_EmptySet
<1>6. totals = [success |-> Cardinality(Sums!Succeeded), failure |-> Cardinality(Failed),
               unjudged |-> Cardinality(Sums!Ended \ Sums!WithVerdict),
               stalled |-> Cardinality(Sums!Stalled)]
  BY <1>1, <1>3, <1>5
<1>7. applied \in Seq(Endings) /\ times \in Seq(Nat) /\ DOMAIN reasons = {}
  BY <1>1
<1>8. CollectedInv
  BY <1>2, <1>3, <1>4, <1>5, <1>6, <1>7 DEF CollectedInv
<1>9. ComparedInv
  BY <1>1 DEF ComparedInv
<1> QED BY <1>8, <1>9 DEF SummaryInv

(* The end of one more connection.                                          *)
LEMMA CollectedStep ==
  ASSUME CollectedInv, NEW e \in Endings, Sums!Apply(e)
  PROVE  CollectedInv'
<1> DEFINE n == Len(applied)
           More(b) == IF b THEN 1 ELSE 0
<1>1. /\ applied \in Seq(Endings) /\ applied' = Append(applied, e)
      /\ times' = (IF e.time = Absent THEN times ELSE Append(times, e.time))
      /\ reasons' = (IF e.reason = Absent THEN reasons
                     ELSE [r \in DOMAIN reasons \cup {e.reason} |->
                             (IF r \in DOMAIN reasons THEN reasons[r] ELSE 0)
                               + (IF r = e.reason THEN 1 ELSE 0)])
  BY DEF CollectedInv, Sums!Apply
<1>2. /\ n \in Nat /\ applied' \in Seq(Endings)
      /\ Sums!Ended = 1 .. n /\ Sums!Ended' = 1 .. (n + 1)
      /\ n + 1 \in 1 .. (n + 1) /\ n + 1 \notin 1 .. n
  BY <1>1 DEF Sums!Ended
<1>3. applied'[n + 1] = e /\ \A i \in 1 .. n : i \in 1 .. (n + 1) /\ applied'[i] = applied[i]
  BY <1>1, <1>2
<1> HIDE DEF n
<1>4. /\ Cardinality(Sums!Succeeded) \in Nat
      /\ Cardinality(Sums!Succeeded') = Cardinality(Sums!Succeeded) + More(e.outcome = "success")
  <2>1. /\ Sums!Succeeded \in SUBSET (1 .. n) /\ Sums!Succeeded' \in SUBSET (1 .. (n + 1))
        /\ \A i \in 1 .. n : i \in Sums!Succeeded' <=> i \in Sums!Succeeded
        /\ n + 1 \in Sums!Succeeded' <=> e.outcome = "success"
    BY <1>2, <1>3 DEF Sums!Succeeded
  <2> QED BY <1>2, <2>1, CountAppended
<1>5. /\ Cardinality(Failed) \in Nat
      /\ Cardinality(Failed') = Cardinality(Failed) + More(e.outcome = "failure")
  <2>1. /\ Failed \in SUBSET (1 .. n) /\ Failed' \in SUBSET (1 .. (n + 1))
        /\ \A i \in 1 .. n : i \in Failed' <=> i \in Failed
        /\ n + 1 \in Failed' <=> e.outcome = "failure"
    BY <1>2, <1>3, EndingType DEF Sums!Succeeded, Sums!WithVerdict, Failed
  <2> QED BY <1>2, <2>1, CountAppended
<1>6. /\ Cardinality(Sums!Ended \ Sums!WithVerdict) \in Nat
      /\ Cardinality((Sums!Ended \ Sums!WithVerdict)')
           = Cardinality(Sums!Ended \ Sums!WithVerdict) + More(e.outcome = "unjudged")
  <2> DEFINE A == Sums!Ended \ Sums!WithVerdict
  <2>1. /\ A \in SUBSET (1 .. n) /\ A' \in SUBSET (1 .. (n + 1))
        /\ \A i \in 1 .. n : i \in A' <=> i \in A
        /\ n + 1 \in A' <=> e.outcome = "unjudged"
    BY <1>2, <1>3, EndingType DEF Sums!WithVerdict
  <2> HIDE DEF A
  <2>2. Cardinality(A) \in Nat /\ Cardinality(A') = Cardinality(A) + More(n + 1 \in A')
    BY <1>2, <2>1, CountAppended
  <2> QED BY <2>1, <2>2 DEF A
<1>7. /\ Cardinality(Sums!Stalled) \in Nat
      /\ Cardinality(Sums!Stalled') = Cardinality(Sums!Stalled) + More(e.stalled)
  <2>1. /\ Sums!Stalled \in SUBSET (1 .. n) /\ Sums!Stalled' \in SUBSET (1 .. (n + 1))
        /\ \A i \in 1 .. n : i \in Sums!Stalled' <=> i \in Sums!Stalled
        /\ n + 1 \in Sums!Stalled' <=> e.stalled
    BY <1>2, <1>3 DEF Sums!Stalled
  <2> QED BY <1>2, <2>1, CountAppended
<1>8. /\ Cardinality(Sums!Timed) \in Nat
      /\ Cardinality(Sums!Timed') = Cardinality(Sums!Timed) + More(e.time # Absent)
  <2>1. /\ Sums!Timed \in SUBSET (1 .. n) /\ Sums!Timed' \in SUBSET (1 .. (n + 1))
        /\ \A i \in 1 .. n : i \in Sums!Timed' <=> i \in Sums!Timed
        /\ n + 1 \in Sums!Timed' <=> e.time # Absent
    BY <1>2, <1>3 DEF Sums!Timed
  <2> QED BY <1>2, <2>1, CountAppended
<1>9. ASSUME NEW limit \in Nat
      PROVE  /\ Cardinality(Sums!TimedWithin(limit)) \in Nat
             /\ Cardinality(Sums!TimedWithin(limit)')
                  = Cardinality(Sums!TimedWithin(limit)) + More(e.time # Absent /\ e.time <= limit)
  <2> DEFINE A == Sums!TimedWithin(limit)
  <2>1. /\ A \in SUBSET (1 .. n) /\ A' \in SUBSET (1 .. (n + 1))
        /\ \A i \in 1 .. n : i \in A' <=> i \in A
        /\ n + 1 \in A' <=> e.time # Absent /\ e.time <= limit
    BY <1>2, <1>3 DEF Sums!Timed, Sums!TimedWithin
  <2> HIDE DEF A
  <2>2. Cardinality(A) \in Nat /\ Cardinality(A') = Cardinality(A) + More(n + 1 \in A')
    BY <1>2, <2>1, CountAppended
  <2> QED BY <2>1, <2>2 DEF A
<1>10. ASSUME NEW r
       PROVE  /\ Cardinality(FailedFor(r)) \in Nat
              /\ Cardinality(FailedFor(r)')
                   = Cardinality(FailedFor(r)) + More(e.outcome = "failure" /\ e.reason = r)
  <2> DEFINE A == FailedFor(r)
  <2>1. /\ A \in SUBSET (1 .. n) /\ A' \in SUBSET (1 .. (n + 1))
        /\ \A i \in 1 .. n : i \in A' <=> i \in A
        /\ n + 1 \in A' <=> e.outcome = "failure" /\ e.reason = r
    BY <1>2, <1>3, EndingType DEF FailedFor, Failed, Sums!Succeeded, Sums!WithVerdict
  <2> HIDE DEF A
  <2>2. Cardinality(A) \in Nat /\ Cardinality(A') = Cardinality(A) + More(n + 1 \in A')
    BY <1>2, <2>1, CountAppended
  <2> QED BY <2>1, <2>2 DEF A
<1>11. totals' = [success |-> Cardinality(Sums!Succeeded'), failure |-> Cardinality(Failed'),
                  unjudged |-> Cardinality((Sums!Ended \ Sums!WithVerdict)'),
                  stalled |-> Cardinality(Sums!Stalled')]
  <2> DEFINE a == Cardinality(Sums!Succeeded)
             b == Cardinality(Failed)
             c == Cardinality(Sums!Ended \ Sums!WithVerdict)
             d == Cardinality(Sums!Stalled)
             a1 == Cardinality(Sums!Succeeded')
             b1 == Cardinality(Failed')
             c1 == Cardinality((Sums!Ended \ Sums!WithVerdict)')
             d1 == Cardinality(Sums!Stalled')
  <2>1. /\ totals = [success |-> a, failure |-> b, unjudged |-> c, stalled |-> d]
        /\ totals' = [o \in DOMAIN totals |->
                        IF o = e.outcome \/ (o = "stalled" /\ e.stalled) THEN totals[o] + 1
                        ELSE totals[o]]
    BY DEF CollectedInv, Sums!Apply
  <2>2. /\ a \in Nat /\ b \in Nat /\ c \in Nat /\ d \in Nat
        /\ a1 = a + More(e.outcome = "success") /\ b1 = b + More(e.outcome = "failure")
        /\ c1 = c + More(e.outcome = "unjudged") /\ d1 = d + More(e.stalled)
    BY <1>4, <1>5, <1>6, <1>7
  <2>3. e.outcome \in {"success", "failure", "unjudged"}
    BY EndingType
  <2> HIDE DEF a, b, c, d, a1, b1, c1, d1
  <2>4. DOMAIN totals = {"success", "failure", "unjudged", "stalled"}
    BY <2>1
  <2>5. /\ totals["success"] = a /\ totals["failure"] = b
        /\ totals["unjudged"] = c /\ totals["stalled"] = d
    BY <2>1
  <2>6. /\ totals'["success"] = a1 /\ totals'["failure"] = b1
        /\ totals'["unjudged"] = c1 /\ totals'["stalled"] = d1
    BY <2>1, <2>2, <2>3, <2>4, <2>5
  <2>7. totals' = [success |-> a1, failure |-> b1, unjudged |-> c1, stalled |-> d1]
    BY <2>1, <2>4, <2>6
  <2> QED BY <2>7 DEF a1, b1, c1, d1
<1>12. /\ times' \in Seq(Nat) /\ Len(times') = Cardinality(Sums!Timed')
       /\ \A limit \in Nat :
            Cardinality({k \in 1 .. Len(times') : times'[k] <= limit})
              = Cardinality(Sums!TimedWithin(limit)')
  <2>1. /\ times \in Seq(Nat) /\ Len(times) = Cardinality(Sums!Timed)
        /\ \A limit \in Nat :
             Cardinality({k \in 1 .. Len(times) : times[k] <= limit})
               = Cardinality(Sums!TimedWithin(limit))
    BY DEF CollectedInv
  <2>2. CASE e.time = Absent
    <3>1. times' = times
      BY <1>1, <2>2
    <3>2. Cardinality(Sums!Timed') = Cardinality(Sums!Timed)
      BY <1>8, <2>2
    <3>3. \A limit \in Nat :
            Cardinality(Sums!TimedWithin(limit)') = Cardinality(Sums!TimedWithin(limit))
      BY <1>9, <2>2
    <3> QED BY <2>1, <3>1, <3>2, <3>3
  <2>3. CASE e.time # Absent
    <3> DEFINE m == Len(times)
               t == Append(times, e.time)
    <3>1. times' = t /\ e.time \in Nat
      BY <1>1, <2>3, EndingType
    <3>2. /\ m \in Nat /\ t \in Seq(Nat) /\ Len(t) = m + 1 /\ t[m + 1] = e.time
          /\ \A k \in 1 .. m : t[k] = times[k]
      BY <2>1, <3>1
    <3> HIDE DEF m, t
    <3>3. ASSUME NEW limit \in Nat
          PROVE  Cardinality({k \in 1 .. (m + 1) : t[k] <= limit})
                   = Cardinality({k \in 1 .. m : times[k] <= limit}) + More(e.time <= limit)
      <4> DEFINE A == {k \in 1 .. m : times[k] <= limit}
                 B == {k \in 1 .. (m + 1) : t[k] <= limit}
      <4>1. /\ A \in SUBSET (1 .. m) /\ B \in SUBSET (1 .. (m + 1))
            /\ \A i \in 1 .. m : i \in B <=> i \in A
            /\ m + 1 \in B <=> e.time <= limit
        BY <3>2
      <4> HIDE DEF A, B
      <4>2. Cardinality(B) = Cardinality(A) + More(m + 1 \in B)
        BY <3>2, <4>1, CountAppended
      <4> QED BY <4>1, <4>2 DEF A, B
    <3>4. Len(t) = Cardinality(Sums!Timed')
      <4>1. Cardinality(Sums!Timed') = Cardinality(Sums!Timed) + 1
        BY <1>8, <2>3
      <4> QED BY <2>1, <3>2, <4>1 DEF m
    <3>5. ASSUME NEW limit \in Nat
          PROVE  Cardinality({k \in 1 .. Len(t) : t[k] <= limit})
                   = Cardinality(Sums!TimedWithin(limit)')
      <4>1. Cardinality({k \in 1 .. m : times[k] <= limit}) = Cardinality(Sums!TimedWithin(limit))
        BY <2>1 DEF m
      <4>2. Cardinality(Sums!TimedWithin(limit)')
              = Cardinality(Sums!TimedWithin(limit)) + More(e.time <= limit)
        BY <1>9, <2>3
      <4> QED BY <3>2, <3>3, <4>1, <4>2
    <3> QED BY <3>1, <3>2, <3>4, <3>5
  <2> QED BY <2>2, <2>3
<1>13. /\ \A r \in DOMAIN reasons' : reasons'[r] = Cardinality(FailedFor(r)')
       /\ \A i \in Sums!Ended' : applied'[i].reason = Absent \/ applied'[i].reason \in DOMAIN reasons'
  <2>1. /\ \A r \in DOMAIN reasons : reasons[r] = Cardinality(FailedFor(r))
        /\ \A i \in 1 .. n : applied[i].reason = Absent \/ applied[i].reason \in DOMAIN reasons
    BY <1>2 DEF CollectedInv
  <2>2. CASE e.reason = Absent
    <3>1. reasons' = reasons /\ e.outcome # "failure"
      BY <1>1, <2>2, EndingType
    <3>2. \A r : Cardinality(FailedFor(r)') = Cardinality(FailedFor(r))
      BY <1>10, <3>1
    <3>3. \A i \in 1 .. (n + 1) : i \in 1 .. n \/ i = n + 1
      BY <1>2
    <3> QED BY <1>2, <1>3, <2>1, <2>2, <3>1, <3>2, <3>3
  <2>3. CASE e.reason # Absent
    <3>1. /\ DOMAIN reasons' = DOMAIN reasons \cup {e.reason} /\ e.outcome = "failure"
          /\ \A r \in DOMAIN reasons' :
               reasons'[r] = (IF r \in DOMAIN reasons THEN reasons[r] ELSE 0)
                               + (IF r = e.reason THEN 1 ELSE 0)
      BY <1>1, <2>3, EndingType
    <3>2. ASSUME NEW r \in DOMAIN reasons' PROVE reasons'[r] = Cardinality(FailedFor(r)')
      <4>1. Cardinality(FailedFor(r)') = Cardinality(FailedFor(r)) + More(e.reason = r)
        BY <1>10, <3>1
      <4>2. CASE r \in DOMAIN reasons
        BY <2>1, <3>1, <4>1, <4>2
      <4>3. CASE r \notin DOMAIN reasons
        <5>1. r = e.reason /\ r # Absent
          BY <2>3, <3>1, <4>3
        <5>2. FailedFor(r) = {}
          <6> SUFFICES ASSUME NEW i \in FailedFor(r) PROVE FALSE
            OBVIOUS
          <6>1. i \in 1 .. n /\ applied[i].reason = r
            BY <1>2 DEF FailedFor, Failed, Sums!WithVerdict
          <6> QED BY <2>1, <4>3, <5>1, <6>1
        <5>3. Cardinality(FailedFor(r)) = 0
          BY <5>2, FS_EmptySet
        <5> QED BY <3>1, <4>1, <4>3, <5>1, <5>3
      <4> QED BY <4>2, <4>3
    <3>3. \A i \in 1 .. (n + 1) : i \in 1 .. n \/ i = n + 1
      BY <1>2
    <3>4. \A i \in 1 .. (n + 1) : applied'[i].reason = Absent \/ applied'[i].reason \in DOMAIN reasons'
      BY <1>2, <1>3, <2>1, <3>1, <3>3
    <3> QED BY <1>2, <3>2, <3>4
  <2> QED BY <2>2, <2>3
<1> QED BY <1>2, <1>11, <1>12, <1>13 DEF CollectedInv

(* The comparison waits for the end of the orchestration, which stays.      *)
LEMMA DoneStays == main = "done" /\ Next => main' = "done"
<1> SUFFICES ASSUME main = "done", Next PROVE main' = "done"
  OBVIOUS
<1>1. CASE Main
  BY <1>1 DEF Main, SpawnWorker, Dispatch, Dispatched, ReceiveResult, ResultsOver, CloseWorker,
              JoinWorker, Finalize, Finalized, CloseWriter, WriterJoined
<1>2. CASE SpawnFails \/ CtrlC \/ Over \/ AggregatorCancelled \/ AggregatorClosed \/ WriterEnds
  BY <1>2 DEF SpawnFails, CtrlC, Over, AggregatorCancelled, AggregatorClosed, WriterEnds,
              vars, mainVars
<1>3. CASE \E w \in Workers : BuildRuntime(w) \/ RuntimeFails(w) \/ TakeJob(w) \/ WorkerEnds(w)
  BY <1>3 DEF BuildRuntime, RuntimeFails, TakeJob, WorkerEnds, mainVars
<1>4. CASE \E i \in Instances : Finish(i)
  BY <1>4 DEF Finish, mainVars
<1> QED BY <1>1, <1>2, <1>3, <1>4 DEF Next

LEMMA SummaryUnchanged ==
  CollectedInv /\ UNCHANGED <<totals, reasons, times, applied>> => CollectedInv'
<1> SUFFICES ASSUME CollectedInv, UNCHANGED <<totals, reasons, times, applied>>
             PROVE  CollectedInv'
  OBVIOUS
<1>1. /\ Sums!Succeeded' = Sums!Succeeded /\ Sums!WithVerdict' = Sums!WithVerdict
      /\ Sums!Ended' = Sums!Ended /\ Sums!Stalled' = Sums!Stalled /\ Sums!Timed' = Sums!Timed
  BY DEF Sums!Succeeded, Sums!WithVerdict, Sums!Ended, Sums!Stalled, Sums!Timed
<1>2. \A limit : Sums!TimedWithin(limit)' = Sums!TimedWithin(limit)
  BY <1>1 DEF Sums!TimedWithin
<1>3. Failed' = Failed /\ \A r : FailedFor(r)' = FailedFor(r)
  BY <1>1 DEF Failed, FailedFor
<1> QED BY <1>1, <1>2, <1>3 DEF CollectedInv

LEMMA SummaryStep == SummaryInv /\ [LoadNext]_loadVars => SummaryInv'
<1> SUFFICES ASSUME SummaryInv, [LoadNext]_loadVars PROVE SummaryInv'
  OBVIOUS
<1> USE DEF SummaryInv
<1>1. CASE UNCHANGED summaryVars /\ (main = "done" => main' = "done")
  <2>1. UNCHANGED <<totals, reasons, times, applied, exit>>
    BY <1>1 DEF summaryVars
  <2>2. CollectedInv'
    BY <2>1, SummaryUnchanged
  <2>3. Sums!SummaryOf' = Sums!SummaryOf
    BY <2>1 DEF Sums!SummaryOf
  <2>4. ComparedInv'
    BY <1>1, <2>1, <2>3 DEF ComparedInv
  <2> QED BY <2>2, <2>4
<1>2. CASE UNCHANGED vars /\ Collecting /\ \E e \in Endings : Sums!Apply(e)
  <2>1. PICK e \in Endings : Sums!Apply(e)
    BY <1>2
  <2>2. main = "results" /\ UNCHANGED exit
    BY <1>2, <2>1 DEF Collecting, Sums!Apply
  <2>3. ComparedInv'
    BY <2>2 DEF ComparedInv
  <2> QED BY <2>1, <2>3, CollectedStep
<1>3. CASE UNCHANGED vars /\ Collecting /\ Sums!ExcludeForWarmup
  <2>1. UNCHANGED <<totals, reasons, times, applied, exit>> /\ main = "results"
    BY <1>3 DEF Collecting, Sums!ExcludeForWarmup
  <2> QED BY <2>1, SummaryUnchanged DEF ComparedInv
<1>4. CASE UNCHANGED vars /\ main = "done" /\ Sums!Conclude
  <2>1. /\ UNCHANGED <<totals, reasons, times, applied>> /\ main = "done" /\ main' = main
        /\ exit' = [l \in LimitSets |-> Sums!Satisfied(l, Sums!SummaryOf)]
    BY <1>4 DEF Sums!Conclude, vars, mainVars
  <2>2. Sums!SummaryOf' = Sums!SummaryOf
    BY <2>1 DEF Sums!SummaryOf
  <2>3. ComparedInv'
    BY <2>1, <2>2 DEF ComparedInv
  <2> QED BY <2>1, <2>3, SummaryUnchanged
<1>5. CASE Zakuro
  <2>1. UNCHANGED summaryVars /\ Next => UNCHANGED summaryVars /\ (main = "done" => main' = "done")
    BY DoneStays
  <2> QED BY <1>1, <1>2, <1>3, <1>4, <1>5, <2>1 DEF Zakuro
<1>6. CASE Moq \/ UNCHANGED loadVars
  <2>1. UNCHANGED summaryVars /\ UNCHANGED main
    BY <1>6 DEF Moq, loadVars, vars, mainVars
  <2> QED BY <1>1, <2>1
<1> QED BY <1>5, <1>6 DEF LoadNext

(* A set of positions has a size, and those judged succeeded or failed.     *)
LEMMA CountPositions ==
  ASSUME NEW n \in Nat, NEW A \in SUBSET (1 .. n)
  PROVE  IsFiniteSet(A) /\ Cardinality(A) \in Nat
<1>1. 1 \in Int /\ n \in Int
  OBVIOUS
<1>2. IsFiniteSet(1 .. n)
  BY ONLY <1>1, FS_Interval
<1> QED BY <1>2, FS_Subset, FS_CardinalityType

LEMMA JudgedCount ==
  ASSUME CollectedInv
  PROVE  /\ IsFiniteSet(Sums!WithVerdict) /\ Cardinality(Sums!Succeeded) \in Nat
         /\ Cardinality(Sums!WithVerdict) \in Nat
         /\ Cardinality(Sums!WithVerdict) = Cardinality(Sums!Succeeded) + Cardinality(Failed)
<1>1. Len(applied) \in Nat /\ Sums!Ended = 1 .. Len(applied)
  BY DEF CollectedInv, Sums!Ended
<1>2. /\ Sums!WithVerdict \in SUBSET (1 .. Len(applied))
      /\ Sums!Succeeded \in SUBSET (1 .. Len(applied))
      /\ Sums!Succeeded \subseteq Sums!WithVerdict
  BY <1>1 DEF Sums!WithVerdict, Sums!Succeeded
<1>3. IsFiniteSet(Sums!WithVerdict) /\ Cardinality(Sums!WithVerdict) \in Nat
      /\ IsFiniteSet(Sums!Succeeded) /\ Cardinality(Sums!Succeeded) \in Nat
  BY <1>1, <1>2, CountPositions
<1>4. Cardinality(Failed)
        = Cardinality(Sums!WithVerdict) - Cardinality(Sums!WithVerdict \cap Sums!Succeeded)
  BY <1>3, FS_Difference DEF Failed
<1>5. Sums!WithVerdict \cap Sums!Succeeded = Sums!Succeeded
  BY <1>2
<1>6. \A a, b, c : a \in Nat /\ c \in Nat /\ b = c - a => c = a + b
  OBVIOUS
<1>7. Cardinality(Failed) = Cardinality(Sums!WithVerdict) - Cardinality(Sums!Succeeded)
  BY <1>4, <1>5
<1> QED BY ONLY <1>3, <1>6, <1>7

(* Each limit, compared with the summary or with the connections.           *)
LEMMA RateEarned ==
  ASSUME CollectedInv, NEW l \in LimitSets, l.rate # Absent
  PROVE  ~Sums!MissesRate(l, Sums!SummaryOf)
           <=> /\ Sums!WithVerdict # {}
               /\ Cardinality(Sums!Succeeded) * l.rate[2]
                    >= l.rate[1] * Cardinality(Sums!WithVerdict)
<1> DEFINE a == Cardinality(Sums!Succeeded)
           b == Cardinality(Failed)
           c == Cardinality(Sums!WithVerdict)
           sum == Sums!SummaryOf
<1>1. sum.success = a /\ sum.failure = b
  BY DEF CollectedInv, Sums!SummaryOf
<1>2. a \in Nat /\ c \in Nat /\ c = a + b /\ (c = 0 <=> Sums!WithVerdict = {})
  BY JudgedCount, FS_EmptySet
<1>3. l.rate[1] \in Nat /\ l.rate[2] \in Nat
  BY LoadAssumption DEF Sums!SummaryAssumption
<1> HIDE DEF a, b, c, sum
<1>4. Sums!Judged(sum) = c
  BY <1>1, <1>2 DEF Sums!Judged
<1>5. ~Sums!MissesRate(l, sum) <=> c # 0 /\ ~(a * l.rate[2] < l.rate[1] * c)
  BY <1>1, <1>4 DEF Sums!MissesRate
<1>6. a * l.rate[2] \in Nat /\ l.rate[1] * c \in Nat
  <2>1. \A x, y \in Nat : x * y \in Nat
    OBVIOUS
  <2> QED BY <1>2, <1>3, <2>1
<1>7. ~(a * l.rate[2] < l.rate[1] * c) <=> a * l.rate[2] >= l.rate[1] * c
  <2>1. \A x, y \in Nat : ~(x < y) <=> x >= y
    OBVIOUS
  <2> QED BY <1>6, <2>1
<1> QED BY <1>2, <1>5, <1>7 DEF a, c, sum

LEMMA P95Earned ==
  ASSUME CollectedInv, NEW l \in LimitSets, l.p95 # Absent
  PROVE  ~Sums!MissesP95(l, Sums!SummaryOf)
           <=> /\ Sums!Timed # {}
               /\ 100 * Cardinality(Sums!TimedWithin(l.p95)) >= 95 * Cardinality(Sums!Timed)
<1> DEFINE q == Sums!Sorted(times)
           sum == Sums!SummaryOf
           limit == l.p95
<1>1. /\ times \in Seq(Nat) /\ Len(times) = Cardinality(Sums!Timed)
      /\ limit \in Nat /\ Absent \notin Nat /\ sum.p95 = Sums!Percentile(q, 95)
      /\ Cardinality({k \in 1 .. Len(times) : times[k] <= limit})
           = Cardinality(Sums!TimedWithin(limit))
  BY LoadAssumption DEF CollectedInv, Sums!SummaryAssumption, Sums!SummaryOf
<1>2. /\ q \in Seq(Nat) /\ Len(q) = Len(times)
      /\ \A i, j \in 1 .. Len(times) : i <= j => q[i] <= q[j]
      /\ Cardinality({i \in 1 .. Len(times) : q[i] <= limit})
           = Cardinality({i \in 1 .. Len(times) : times[i] <= limit})
  BY <1>1, SortedTimes
<1>3. Len(times) = 0 <=> Sums!Timed = {}
  <2>1. Len(applied) \in Nat /\ Sums!Timed \in SUBSET (1 .. Len(applied))
    BY DEF CollectedInv, Sums!Timed, Sums!Ended
  <2>2. IsFiniteSet(Sums!Timed)
    BY <2>1, CountPositions
  <2> QED BY <1>1, <2>2, FS_EmptySet
<1> HIDE DEF q, sum, limit
<1>4. Len(q) \in Nat /\ (q = <<>> <=> Len(q) = 0) /\ \A i \in 1 .. Len(q) : q[i] \in Nat
  BY <1>2
<1>5. ~Sums!MissesP95(l, sum) <=> sum.p95 # Absent /\ ~(sum.p95 > limit)
  BY DEF Sums!MissesP95, limit
<1>6. CASE q = <<>>
  <2>1. sum.p95 = Absent
    BY <1>1, <1>6 DEF Sums!Percentile
  <2>2. Sums!Timed = {}
    BY <1>2, <1>3, <1>4, <1>6
  <2> QED BY <1>5, <2>1, <2>2 DEF limit, sum
<1>7. CASE q # <<>>
  <2>1. Sums!Percentile(q, 95) \in Nat
    <3>1. Len(q) \in Nat \ {0} /\ 95 \in 1 .. 100
      BY <1>4, <1>7
    <3>2. Sums!Rank(Len(q), 95) \in 1 .. Len(q)
      BY <3>1, RankIsCeiling
    <3> QED BY <1>4, <1>7, <3>2 DEF Sums!Percentile
  <2>2. Sums!Percentile(q, 95) <= limit
          <=> 100 * Cardinality({i \in 1 .. Len(q) : q[i] <= limit}) >= 95 * Len(q)
    <3>1. 95 \in 1 .. 100
      OBVIOUS
    <3>2. \A i, j \in 1 .. Len(q) : i <= j => q[i] <= q[j]
      BY ONLY <1>2
    <3>3. q \in Seq(Nat) /\ q # <<>> /\ limit \in Nat
      BY ONLY <1>1, <1>2, <1>7
    <3> QED BY ONLY <3>1, <3>2, <3>3, PercentileMeaning
  <2>3. sum.p95 # Absent /\ (~(sum.p95 > limit) <=> Sums!Percentile(q, 95) <= limit)
    BY <1>1, <2>1
  <2>4. Sums!Timed # {}
    BY <1>2, <1>3, <1>4, <1>7
  <2>5. 100 * Cardinality({i \in 1 .. Len(q) : q[i] <= limit}) >= 95 * Len(q)
          <=> 100 * Cardinality(Sums!TimedWithin(limit)) >= 95 * Cardinality(Sums!Timed)
    BY <1>1, <1>2
  <2> QED BY <1>5, <2>2, <2>3, <2>4, <2>5 DEF limit, sum
<1> QED BY <1>6, <1>7

LEMMA StalledEarned ==
  ASSUME CollectedInv, NEW l \in LimitSets, l.stalled # Absent
  PROVE  ~Sums!MissesStalled(l, Sums!SummaryOf) <=> Cardinality(Sums!Stalled) <= l.stalled
<1> DEFINE d == Cardinality(Sums!Stalled)
           sum == Sums!SummaryOf
<1>1. sum.stalled = d /\ l.stalled \in Nat
  BY LoadAssumption DEF CollectedInv, Sums!SummaryOf, Sums!SummaryAssumption
<1>2. d \in Nat
  <2>1. Len(applied) \in Nat /\ Sums!Stalled \in SUBSET (1 .. Len(applied))
    BY DEF CollectedInv, Sums!Stalled, Sums!Ended
  <2> QED BY <2>1, CountPositions
<1> HIDE DEF d, sum
<1>3. ~Sums!MissesStalled(l, sum) <=> ~(d > l.stalled)
  BY <1>1 DEF Sums!MissesStalled
<1>4. ~(d > l.stalled) <=> d <= l.stalled
  BY <1>1, <1>2
<1> QED BY <1>3, <1>4 DEF d, sum

LEMMA LimitEarned ==
  ASSUME CollectedInv, NEW l \in LimitSets
  PROVE  Sums!Satisfied(l, Sums!SummaryOf) <=> Sums!Earned(l)
<1>1. \A S : Sums!Cardinality(S) = Cardinality(S)
  BY DEF Sums!Cardinality, Cardinality
<1> DEFINE Rate == /\ Sums!WithVerdict # {}
                   /\ Cardinality(Sums!Succeeded) * l.rate[2]
                        >= l.rate[1] * Cardinality(Sums!WithVerdict)
           P95 == /\ Sums!Timed # {}
                  /\ 100 * Cardinality(Sums!TimedWithin(l.p95)) >= 95 * Cardinality(Sums!Timed)
           Few == Cardinality(Sums!Stalled) <= l.stalled
<1>2. Sums!Earned(l) <=> /\ l.rate # Absent => Rate
                         /\ l.p95 # Absent => P95
                         /\ l.stalled # Absent => Few
  BY <1>1 DEF Sums!Earned
<1>3. ~Sums!MissesRate(l, Sums!SummaryOf) <=> (l.rate # Absent => Rate)
  BY RateEarned DEF Sums!MissesRate
<1>4. ~Sums!MissesP95(l, Sums!SummaryOf) <=> (l.p95 # Absent => P95)
  BY P95Earned DEF Sums!MissesP95
<1>5. ~Sums!MissesStalled(l, Sums!SummaryOf) <=> (l.stalled # Absent => Few)
  BY StalledEarned DEF Sums!MissesStalled
<1> HIDE DEF Rate, P95, Few
<1> QED BY <1>2, <1>3, <1>4, <1>5 DEF Sums!Satisfied

LEMMA VerdictFollows == SummaryInv => Sums!VerdictEarned
<1> SUFFICES ASSUME SummaryInv PROVE Sums!VerdictEarned
  OBVIOUS
<1>1. ASSUME exit # Absent, NEW l \in LimitSets PROVE exit[l] <=> Sums!Earned(l)
  <2>1. exit[l] = Sums!Satisfied(l, Sums!SummaryOf)
    BY <1>1 DEF SummaryInv, ComparedInv
  <2> QED BY <2>1, LimitEarned DEF SummaryInv
<1>2. ASSUME NEW r \in DOMAIN reasons
      PROVE  reasons[r]
               = Sums!Cardinality({i \in Sums!WithVerdict \ Sums!Succeeded : applied[i].reason = r})
  <2>1. \A S : Sums!Cardinality(S) = Cardinality(S)
    BY DEF Sums!Cardinality, Cardinality
  <2> QED BY <2>1 DEF SummaryInv, CollectedInv, FailedFor, Failed
<1> QED BY <1>1, <1>2 DEF Sums!VerdictEarned, Sums!Open

(* A step of a test by either program is one of the process or leaves it.   *)
LEMMA ProcessPart == [LoadNext]_loadVars => [M!Next]_M!vars
<1>1. UNCHANGED moqVars => UNCHANGED M!vars
  BY DEF moqVars, M!vars, M!instances, M!clients, M!counters
<1> QED BY <1>1 DEF LoadNext, Zakuro, Moq, loadVars

(* ReportEarned: a test reports what happened. For any number of           *)
(* connections, in whatever order they end, and for any limits, the exit    *)
(* code is what the connections earned, whichever way they are counted, the *)
(* 95th percentile included; each failure is under its reason; and the      *)
(* totals of the other program are those of all its clients.                *)
THEOREM ReportIsEarned == LoadSpec => []ReportEarned
<1> DEFINE All == SummaryInv /\ ProcessInv /\ CountedInv
<1>1. LoadInit => All
  BY SummaryStarts, ProcessInit, CountedInit DEF LoadInit
<1>2. All /\ [LoadNext]_loadVars => All'
  BY SummaryStep, ProcessStep, CountedStep, ProcessPart
<1>3. All => ReportEarned
  <2>1. ProcessInv /\ CountedInv => M!TotalsComplete /\ M!TypeOK
    BY NobodyLeft, SameTotal DEF CountedInv, ReportInv, M!TotalsComplete, ProcessInv
  <2> QED BY <2>1, VerdictFollows DEF ReportEarned
<1> HIDE DEF All
<1> QED BY <1>1, <1>2, <1>3, PTL DEF LoadSpec

-----------------------------------------------------------------------------
(* What becomes of the lists of tracks (MoqSettings). Joining pieces first: *)
(* their beginnings, joined.                                                *)
Joins(g, s, S) ==
  /\ \A i \in 1 .. Len(s) : g[i] \in Seq(S)
  /\ g[1] = s[1] /\ \A i \in 2 .. Len(s) : g[i] = g[i - 1] \o s[i]
  /\ M!FlattenSeq(s) = g[Len(s)]

LEMMA PiecesJoined ==
  ASSUME NEW S, NEW s \in Seq(Seq(S)), s # <<>>
  PROVE  \E g : Joins(g, s, S)
<1> DEFINE n == Len(s)
<1>1. n \in Nat \ {0} /\ \A i \in 1 .. n : s[i] \in Seq(S)
  OBVIOUS
<1>2. PICK g : IsFlattening(g, s) /\ FlattenSeq(s) = g[n]
  BY <1>1, FlatteningExists
<1>3. M!FlattenSeq(s) = g[n]
  BY <1>2 DEF M!FlattenSeq, FlattenSeq
<1>4. \A i \in 1 .. n : g[i] = IF i = 1 THEN s[1] ELSE g[i - 1] \o s[i]
  BY <1>2 DEF IsFlattening
<1>5. \A i \in 1 .. n : g[i] \in Seq(S)
  <2> DEFINE U == {m \in Nat : m + 1 <= n => g[m + 1] \in Seq(S)}
  <2>1. 0 \in U
    BY <1>1, <1>4
  <2>2. ASSUME NEW m \in Nat, m \in U PROVE m + 1 \in U
    <3> SUFFICES ASSUME m + 2 <= n PROVE g[m + 2] \in Seq(S)
      OBVIOUS
    <3>1. m + 1 <= n /\ m + 2 \in 1 .. n /\ m + 2 # 1 /\ (m + 2) - 1 = m + 1
      BY <1>1
    <3>2. g[m + 2] = g[m + 1] \o s[m + 2] /\ s[m + 2] \in Seq(S) /\ g[m + 1] \in Seq(S)
      BY <1>1, <1>4, <2>2, <3>1
    <3> QED BY <3>2
  <2> HIDE DEF U
  <2>3. \A m \in Nat : m \in U
    BY <2>1, <2>2, Induction
  <2>4. \A i \in 1 .. n : i - 1 \in Nat /\ (i - 1) + 1 = i /\ i <= n
    BY <1>1
  <2>5. \A i \in 1 .. n : i - 1 \in U
    BY <2>3, <2>4
  <2> QED BY <2>4, <2>5 DEF U
<1>6. g[1] = s[1] /\ \A i \in 2 .. n : g[i] = g[i - 1] \o s[i]
  <2>1. 1 \in 1 .. n /\ \A i \in 2 .. n : i \in 1 .. n /\ i # 1
    BY <1>1
  <2> QED BY <1>4, <2>1
<1>7. Joins(g, s, S)
  BY <1>3, <1>5, <1>6 DEF Joins
<1> QED BY <1>7

(* Of pieces that are not empty, something remains ...                      *)
LEMMA JoinedIsText ==
  ASSUME NEW S, NEW s \in Seq(Seq(S)), s # <<>>, \A i \in 1 .. Len(s) : s[i] # <<>>
  PROVE  M!FlattenSeq(s) \in Seq(S) /\ M!FlattenSeq(s) # <<>>
<1>1. Len(s) \in Nat \ {0} /\ Len(s) \in 1 .. Len(s) /\ \A i \in 1 .. Len(s) : s[i] \in Seq(S)
  OBVIOUS
<1>0. PICK g : Joins(g, s, S)
  BY PiecesJoined
<1>2. /\ \A i \in 1 .. Len(s) : g[i] \in Seq(S)
      /\ g[1] = s[1] /\ \A i \in 2 .. Len(s) : g[i] = g[i - 1] \o s[i]
      /\ M!FlattenSeq(s) = g[Len(s)]
  BY <1>0 DEF Joins
<1> DEFINE n == Len(s)
<1>3. CASE n = 1
  BY <1>1, <1>2, <1>3
<1>4. CASE n # 1
  <2>0. n - 1 \in 1 .. n /\ n \in 2 .. n
    <3>1. n \in Nat \ {0}
      BY <1>1
    <3> HIDE DEF n
    <3> QED BY ONLY <1>4, <3>1
  <2>1. n - 1 \in 1 .. n /\ g[n] = g[n - 1] \o s[n]
    BY <1>2, <2>0
  <2>2. g[n - 1] \in Seq(S) /\ s[n] \in Seq(S) /\ s[n] # <<>>
    BY <1>1, <1>2, <2>1
  <2>3. g[n] \in Seq(S) /\ g[n] # <<>>
    <3>1. Len(g[n]) = Len(g[n - 1]) + Len(s[n]) /\ Len(s[n]) # 0
      BY <2>1, <2>2
    <3> QED BY <2>1, <2>2, <3>1
  <2> QED BY <1>2, <2>3
<1> QED BY <1>3, <1>4

LEMMA OneMore ==
  ASSUME NEW S, NEW p \in Seq(S), NEW q \in Seq(S), Len(q) = 1
  PROVE  /\ Len(p \o q) = Len(p) + 1 /\ (p \o q)[Len(p) + 1] = q[1]
         /\ \A j \in 1 .. Len(p) : (p \o q)[j] = p[j]
<1>1. Len(p) \in Nat
  OBVIOUS
<1>2. Len(p \o q) = Len(p) + Len(q)
  BY ConcatProperties
<1>3. \A i \in 1 .. Len(p) + Len(q) :
        (p \o q)[i] = IF i <= Len(p) THEN p[i] ELSE q[i - Len(p)]
  BY ConcatProperties
<1> QED BY <1>1, <1>2, <1>3

(* ... and of pieces of one entry each, these entries.                      *)
LEMMA JoinedSingles ==
  ASSUME NEW S, NEW s \in Seq(Seq(S)), s # <<>>, \A i \in 1 .. Len(s) : Len(s[i]) = 1
  PROVE  M!FlattenSeq(s) = [i \in 1 .. Len(s) |-> s[i][1]]
<1>1. Len(s) \in Nat \ {0} /\ Len(s) \in 1 .. Len(s) /\ \A i \in 1 .. Len(s) : s[i] \in Seq(S)
  OBVIOUS
<1>0. PICK g : Joins(g, s, S)
  BY PiecesJoined
<1>2. /\ \A i \in 1 .. Len(s) : g[i] \in Seq(S)
      /\ g[1] = s[1] /\ \A i \in 2 .. Len(s) : g[i] = g[i - 1] \o s[i]
      /\ M!FlattenSeq(s) = g[Len(s)]
  BY <1>0 DEF Joins
<1> DEFINE n == Len(s)
           Singles(m) == Len(g[m]) = m /\ \A j \in 1 .. m : g[m][j] = s[j][1]
           T == {m \in Nat : m + 1 <= n => Singles(m + 1)}
<1>3. 0 \in T
  <2>0. 1 \in 1 .. n /\ \A j \in 1 .. 1 : j = 1
    BY <1>1
  <2>1. g[1] = s[1] /\ Len(s[1]) = 1 /\ \A j \in 1 .. 1 : j = 1
    BY <1>2, <2>0
  <2>2. Singles(1)
    BY <2>1
  <2> HIDE DEF Singles
  <2> QED BY <2>2
<1>4. ASSUME NEW m \in Nat, m \in T PROVE m + 1 \in T
  <2> DEFINE k == m + 1
  <2> SUFFICES ASSUME k + 1 <= n PROVE Singles(k + 1)
    OBVIOUS
  <2>1. k \in 1 .. n /\ k + 1 \in 1 .. n /\ k + 1 \in 2 .. n /\ (k + 1) - 1 = k /\ k <= n /\ k \in Nat
    BY <1>1
  <2>2. Singles(k)
    BY <1>4, <2>1
  <2> HIDE DEF k
  <2>3. /\ g[k + 1] = g[k] \o s[k + 1] /\ g[k] \in Seq(S) /\ s[k + 1] \in Seq(S)
        /\ Len(s[k + 1]) = 1
    BY <1>1, <1>2, <2>1
  <2>4. /\ Len(g[k + 1]) = k + 1 /\ g[k + 1][k + 1] = s[k + 1][1]
        /\ \A j \in 1 .. k : g[k + 1][j] = g[k][j]
    <3> DEFINE p == g[k]
               q == s[k + 1]
    <3>1. p \in Seq(S) /\ q \in Seq(S) /\ Len(q) = 1 /\ Len(p) = k /\ g[k + 1] = p \o q
      BY <2>2, <2>3
    <3> HIDE DEF p, q
    <3>2. /\ Len(p \o q) = Len(p) + 1 /\ (p \o q)[Len(p) + 1] = q[1]
          /\ \A j \in 1 .. Len(p) : (p \o q)[j] = p[j]
      BY ONLY <3>1, OneMore
    <3> QED BY <3>1, <3>2 DEF p, q
  <2>5. \A j \in 1 .. (k + 1) : j \in 1 .. k \/ j = k + 1
    BY <2>1
  <2> QED BY <2>2, <2>4, <2>5
<1>5. Singles(n)
  <2> HIDE DEF Singles, T
  <2>1. n - 1 \in Nat /\ (n - 1) + 1 <= n /\ (n - 1) + 1 = n
    BY <1>1
  <2>2. \A m \in Nat : m \in T
    BY <1>3, <1>4, Induction
  <2>3. n - 1 \in T
    BY <2>1, <2>2
  <2> HIDE DEF n
  <2> QED BY <2>1, <2>3 DEF T
<1>6. g[n] \in Seq(S)
  BY <1>1, <1>2
<1>7. \A q \in Seq(S) : q = [j \in 1 .. Len(q) |-> q[j]]
  OBVIOUS
<1>8. g[n] = [j \in 1 .. n |-> g[n][j]]
  BY <1>5, <1>6, <1>7
<1> QED BY <1>2, <1>5, <1>8

(* The text of a list from the file.                                        *)
LEMMA Given ==
  /\ M!Texts = Seq(M!Entries) \ {<<>>} /\ M!Entries = Seq(M!Fields) \ {<<>>}
  /\ Absent \notin M!Texts /\ DefaultRate \in Nat /\ DefaultSize \in Nat /\ MaxSize \in Nat
  /\ DefaultSize >= 1 /\ DefaultSize <= MaxSize
<1>1. M!Texts = Texts
  BY DEF M!Texts, M!Entries, M!Fields, Texts, Entries, Fields
<1>2. Absent \notin Texts
  BY TracksAssumption
<1>3. /\ DefaultRate \in Nat /\ DefaultSize \in Nat /\ MaxSize \in Nat
      /\ DefaultSize >= 1 /\ DefaultSize <= MaxSize
  <2>1. Rates \subseteq Nat /\ DefaultRate \in Rates
    BY TracksAssumption
  <2>2. MaxSize \in Nat /\ DefaultSize \in 1 .. MaxSize
    BY TracksAssumption
  <2> QED BY ONLY <2>1, <2>2
<1> QED BY <1>1, <1>2, <1>3 DEF M!Texts, M!Entries

LEMMA FieldTypes ==
  /\ \A n \in Nat : M!Number(n) \in M!Fields /\ M!Number(n).number = n
  /\ \A w \in Words : M!Text(w) \in M!Fields /\ M!Text(w).word = w
  /\ M!Empty \in M!Fields /\ M!Text("video") \in M!Fields
<1>1. M!Fields = [word : Words, number : {Absent} \cup Nat]
  BY DEF M!Fields
<1>2. ASSUME NEW n \in Nat PROVE M!Number(n) \in M!Fields /\ M!Number(n).number = n
  BY <1>1, TracksAssumption DEF M!Number
<1>3. ASSUME NEW w \in Words PROVE M!Text(w) \in M!Fields /\ M!Text(w).word = w
  BY <1>1 DEF M!Text
<1>4. "" \in Words /\ "video" \in Words
  BY TracksAssumption
<1> QED BY <1>2, <1>3, <1>4 DEF M!Empty

LEMMA Defaults ==
  ASSUME NEW t \in M!TracksListed
  PROVE  /\ t.name \in M!Texts
         /\ M!OrDefault(t.rate, DefaultRate) \in Nat /\ M!OrDefault(t.size, DefaultSize) \in Nat
         /\ M!OrDefault(t.delivery, "subgroup") \in Words
<1>1. /\ t.name \in M!Texts /\ t.rate \in {Absent} \cup Nat /\ t.size \in {Absent} \cup Nat
      /\ t.delivery \in {Absent} \cup Words
  BY DEF M!TracksListed
<1>2. "subgroup" \in Words
  BY TracksAssumption
<1> QED BY <1>1, <1>2, Given DEF M!OrDefault

Named(name, rate, size, delivery) ==
  M!Front(name) \o <<M!Last(name) \o <<rate, size, delivery>>>>

LEMMA PieceType ==
  ASSUME NEW name \in M!Texts, NEW r \in M!Fields, NEW z \in M!Fields, NEW d \in M!Fields
  PROVE  /\ Named(name, r, z, d) \in Seq(M!Entries) /\ Named(name, r, z, d) # <<>>
         /\ Len(name) = 1 /\ Len(name[1]) = 1 =>
              Len(Named(name, r, z, d)) = 1 /\ Named(name, r, z, d)[1] = <<name[1][1], r, z, d>>
<1> DEFINE S == M!Entries
           F == M!Fields
           n == Len(name)
           e == name[n]
           three == <<r, z, d>>
           last == e \o three
           front == SubSeq(name, 1, n - 1)
<1>1. name \in Seq(S) /\ n \in Nat \ {0} /\ e \in S /\ n \in 1 .. n
  BY Given
<1>2. e \in Seq(F) /\ e # <<>> /\ three \in Seq(F) /\ Len(three) = 3
  BY <1>1, Given
<1>3. last \in Seq(F) /\ Len(last) = Len(e) + 3 /\ Len(e) \in Nat
  BY <1>2, ConcatProperties
<1>4. last \in S
  BY <1>3, Given
<1>5. front \in Seq(S) /\ Len(front) = n - 1
  <2>1. 1 \in Int /\ n - 1 \in Int /\ \A i \in 1 .. (n - 1) : name[i] \in S
    BY <1>1
  <2>2. /\ front \in Seq(S)
        /\ Len(front) = IF 1 <= n - 1 THEN (n - 1) - 1 + 1 ELSE 0
    BY ONLY <2>1, SubSeqProperties
  <2>3. (IF 1 <= n - 1 THEN (n - 1) - 1 + 1 ELSE 0) = n - 1
    <3>1. \A m \in Nat \ {0} : (IF 1 <= m - 1 THEN (m - 1) - 1 + 1 ELSE 0) = m - 1
      OBVIOUS
    <3> HIDE DEF n
    <3> QED BY ONLY <1>1, <3>1
  <2> QED BY <2>2, <2>3
<1>6. M!Last(name) = e /\ M!Front(name) = front
  BY DEF M!Last, M!Front
<1>7. Named(name, r, z, d) = front \o <<last>>
  BY <1>6 DEF Named
<1>8. CASE Len(name) = 1 /\ Len(name[1]) = 1
  <2>1. n = 1 /\ e = name[1] /\ Len(e) = 1 /\ front = <<>>
    BY <1>5, <1>8
  <2>2. front \o <<last>> = <<last>>
    <3>1. <<last>> \in Seq(S)
      BY <1>4
    <3> QED BY <2>1, <3>1, ConcatEmptySeq
  <2>3. last = <<e[1], r, z, d>>
    <3>1. \A i \in 1 .. Len(e) + Len(three) :
            (e \o three)[i] = IF i <= Len(e) THEN e[i] ELSE three[i - Len(e)]
      BY <1>2, ConcatProperties
    <3>2. /\ Len(e) + Len(three) = 4 /\ 1 <= Len(e)
          /\ \A i \in 2 .. 4 : i \in 1 .. 4 /\ ~(i <= Len(e)) /\ i - Len(e) = i - 1
      BY <1>2, <2>1
    <3>3. \A i \in 1 .. 4 : last[i] = IF i <= 1 THEN e[i] ELSE three[i - 1]
      BY <2>1, <3>1, <3>2
    <3>4. three[1] = r /\ three[2] = z /\ three[3] = d
      OBVIOUS
    <3>5. Len(last) = 4
      BY <1>3, <2>1
    <3>6. e[1] \in F
      BY <1>2, <2>1
    <3> HIDE DEF last, three, e, F
    <3>7. last[1] = e[1] /\ last[2] = r /\ last[3] = z /\ last[4] = d
      BY <3>3, <3>4
    <3> DEFINE four == <<e[1], r, z, d>>
    <3>8. four \in Seq(F) /\ Len(four) = 4 /\ \A i \in 1 .. 4 : last[i] = four[i]
      BY <3>6, <3>7 DEF F
    <3> HIDE DEF four
    <3>9. last = four
      BY <1>3, <3>5, <3>8, SeqEqual
    <3> QED BY <3>9 DEF four
  <2>4. Named(name, r, z, d) = <<<<name[1][1], r, z, d>>>>
    BY <1>7, <2>1, <2>2, <2>3
  <2>5. Named(name, r, z, d) = <<last>> /\ last = <<name[1][1], r, z, d>>
    BY <2>1, <2>3, <2>4
  <2> HIDE DEF last, S
  <2>6. <<last>> \in Seq(S) /\ <<last>> # <<>> /\ Len(<<last>>) = 1 /\ <<last>>[1] = last
    BY <1>4
  <2> QED BY <2>5, <2>6 DEF S
<1>9. front \o <<last>> \in Seq(S) /\ Len(front \o <<last>>) = n
  <2>1. <<last>> \in Seq(S) /\ Len(<<last>>) = 1
    BY <1>4
  <2> QED BY <1>1, <1>5, <2>1, ConcatProperties
<1>10. front \o <<last>> # <<>>
  BY <1>1, <1>9
<1> QED BY <1>7, <1>8, <1>9, <1>10

LEMMA PushedTracks ==
  ASSUME NEW list \in Seq(M!TracksListed), list # <<>>
  PROVE  /\ M!push_tracks(list) \in M!Texts
         /\ M!Plain([i \in DOMAIN list |-> list[i].name]) =>
              M!push_tracks(list) =
                [i \in 1 .. Len(list) |->
                   <<list[i].name[1][1], M!Number(M!OrDefault(list[i].rate, DefaultRate)),
                     M!Number(M!OrDefault(list[i].size, DefaultSize)),
                     M!Text(M!OrDefault(list[i].delivery, "subgroup"))>>]
<1> DEFINE n == Len(list)
           R(i) == M!Number(M!OrDefault(list[i].rate, DefaultRate))
           Z(i) == M!Number(M!OrDefault(list[i].size, DefaultSize))
           D(i) == M!Text(M!OrDefault(list[i].delivery, "subgroup"))
           Piece(i) == Named(list[i].name, R(i), Z(i), D(i))
           s == [i \in 1 .. n |-> Piece(i)]
<1>1. n \in Nat \ {0} /\ DOMAIN list = 1 .. n /\ \A i \in 1 .. n : list[i] \in M!TracksListed
  OBVIOUS
<1>2. \A i \in 1 .. n : /\ list[i].name \in M!Texts
                        /\ R(i) \in M!Fields /\ Z(i) \in M!Fields /\ D(i) \in M!Fields
  BY <1>1, Defaults, FieldTypes
<1>3. M!push_tracks(list) = M!Joined(s)
  BY <1>1 DEF M!push_tracks, Named
<1> HIDE DEF R, Z, D
<1>4. \A i \in 1 .. n : /\ Piece(i) \in Seq(M!Entries) /\ Piece(i) # <<>>
                        /\ Len(list[i].name) = 1 /\ Len(list[i].name[1]) = 1 =>
                             Len(Piece(i)) = 1 /\ Piece(i)[1] = <<list[i].name[1][1], R(i), Z(i), D(i)>>
  BY <1>2, PieceType
<1> HIDE DEF Piece
<1>5. s \in Seq(Seq(M!Entries)) /\ Len(s) = n /\ s # <<>> /\ \A i \in 1 .. n : s[i] = Piece(i)
  <2>1. s \in [1 .. n -> Seq(M!Entries)] /\ \A i \in 1 .. n : s[i] = Piece(i)
    BY <1>4
  <2> HIDE DEF s
  <2>2. s \in Seq(Seq(M!Entries)) /\ Len(s) = n
    BY <1>1, <2>1, FunctionIsSequence
  <2> QED BY <1>1, <2>1, <2>2
<1> HIDE DEF s
<1>6. M!push_tracks(list) = M!FlattenSeq(s)
  BY <1>3, <1>5 DEF M!Joined
<1>7. M!push_tracks(list) \in M!Texts
  BY <1>4, <1>5, <1>6, JoinedIsText, Given
<1>8. ASSUME M!Plain([i \in DOMAIN list |-> list[i].name])
      PROVE  M!FlattenSeq(s) = [i \in 1 .. n |-> <<list[i].name[1][1], R(i), Z(i), D(i)>>]
  <2>1. \A i \in 1 .. n : Len(list[i].name) = 1 /\ Len(list[i].name[1]) = 1
    BY <1>1, <1>8 DEF M!Plain
  <2>2. \A i \in 1 .. n : Len(s[i]) = 1 /\ s[i][1] = <<list[i].name[1][1], R(i), Z(i), D(i)>>
    BY <1>4, <1>5, <2>1
  <2>3. M!FlattenSeq(s) = [i \in 1 .. Len(s) |-> s[i][1]]
    BY ZenonT(30), <1>5, <2>2, JoinedSingles
  <2> QED BY <1>5, <2>2, <2>3
<1> QED BY <1>6, <1>7, <1>8 DEF R, Z, D

LEMMA PushedNames ==
  ASSUME NEW names \in Seq(M!Texts), names # <<>>
  PROVE  /\ M!push_subscribe_tracks(names) \in M!Texts
         /\ M!Plain(names) =>
              M!push_subscribe_tracks(names) = [i \in 1 .. Len(names) |-> names[i][1]]
<1>1. /\ names \in Seq(Seq(M!Entries)) /\ DOMAIN names = 1 .. Len(names)
      /\ \A i \in 1 .. Len(names) : names[i] # <<>>
  BY Given
<1>2. M!push_subscribe_tracks(names) = M!FlattenSeq(names)
  BY DEF M!push_subscribe_tracks, M!Joined
<1>3. M!FlattenSeq(names) \in M!Texts
  BY <1>1, JoinedIsText, Given
<1>4. ASSUME M!Plain(names)
      PROVE  M!FlattenSeq(names) = [i \in 1 .. Len(names) |-> names[i][1]]
  <2>1. \A i \in 1 .. Len(names) : Len(names[i]) = 1
    BY <1>1, <1>4 DEF M!Plain
  <2> QED BY <1>1, <2>1, JoinedSingles
<1> QED BY <1>2, <1>3, <1>4

(* An empty list is the text of one empty entry, which is refused.          *)
LEMMA NothingPushed ==
  /\ M!push_tracks(<<>>) = <<<<M!Empty>>>> /\ M!push_subscribe_tracks(<<>>) = <<<<M!Empty>>>>
  /\ <<<<M!Empty>>>> \in M!Texts
  /\ ~M!parse_tracks(<<<<M!Empty>>>>).ok /\ ~M!parse_subscribe_tracks(<<<<M!Empty>>>>).ok
<1>1. \A f : [i \in DOMAIN <<>> |-> f[i]] = <<>>
  OBVIOUS
<1>2. M!push_tracks(<<>>) = <<<<M!Empty>>>>
  BY DEF M!push_tracks, M!Joined
<1>3. M!push_subscribe_tracks(<<>>) = <<<<M!Empty>>>>
  BY DEF M!push_subscribe_tracks, M!Joined
<1>4. <<<<M!Empty>>>> \in M!Texts
  <2>1. <<M!Empty>> \in M!Entries
    BY FieldTypes, Given
  <2> QED BY <2>1, Given
<1> DEFINE x == <<<<M!Empty>>>>
<1>0. 1 \in DOMAIN x /\ x[1] = <<M!Empty>> /\ x[1][1] = M!Empty
  OBVIOUS
<1> HIDE DEF x
<1>5. ~M!parse_tracks(x).ok
  <2>1. ~M!ValidEntry(x[1])
    BY <1>0 DEF M!ValidEntry
  <2> QED BY <1>0, <2>1 DEF M!parse_tracks
<1>6. ~M!parse_subscribe_tracks(x).ok
  BY <1>0 DEF M!parse_subscribe_tracks
<1> USE DEF x
<1> QED BY <1>2, <1>3, <1>4, <1>5, <1>6

(* What is accepted is what a text lists, and each of its entries is valid. *)
ListedBy(text, v, option, wanted) ==
  /\ text \in Seq(M!Entries) /\ \A i \in DOMAIN text : M!ValidEntry(text[i])
  /\ v.tracks = [i \in DOMAIN text |-> M!TrackOf(text[i])]
  /\ option # Absent => text = option
  /\ text = <<>> => option = Absent /\ wanted # Absent

FromBoth(a, v, option, wanted) ==
  /\ option = Absent \/ option \in M!Texts
  /\ wanted = Absent \/ wanted \in M!Texts
  /\ \E text : ListedBy(text, v, option, wanted)
  /\ wanted # Absent => v.subscribe = wanted /\ M!parse_subscribe_tracks(wanted).ok
  /\ \A i \in DOMAIN v.tracks :
       v.tracks[i].delivery = "datagram" => ~(v.tracks[i].size + 48 > a.datagramMax)

LEMMA AcceptedTexts ==
  ASSUME NEW a \in M!SettingsAsked, M!validate_instance_args(a).ok
  PROVE  FromBoth(a, M!validate_instance_args(a), M!TracksOption(a), M!SubscribeOption(a))
<1> DEFINE option == M!TracksOption(a)
           wanted == M!SubscribeOption(a)
           published == IF option # Absent THEN M!parse_tracks(option)
                        ELSE IF wanted = Absent THEN M!parse_tracks(M!Default)
                        ELSE [ok |-> TRUE, tracks |-> <<>>]
           subscribed == IF wanted = Absent THEN [ok |-> TRUE, names |-> <<>>]
                         ELSE M!parse_subscribe_tracks(wanted)
           text == published.tracks
           tracks == [i \in DOMAIN text |-> M!TrackOf(text[i])]
           TooBig == \E i \in DOMAIN tracks :
                       tracks[i].delivery = "datagram" /\ tracks[i].size + M!HeaderMax > a.datagramMax
           v == M!validate_instance_args(a)
<1>1. v = IF ~published.ok \/ ~subscribed.ok THEN M!Refused
          ELSE IF TooBig THEN M!Refused
          ELSE [ok |-> TRUE, tracks |-> tracks, subscribe |-> subscribed.names]
  BY DEF M!validate_instance_args
<1>2. option = Absent \/ option \in M!Texts
  <2>1. /\ a.cliTracks \in {Absent} \cup M!Texts
        /\ a.tracks \in {Absent} \cup Seq(M!TracksListed)
    BY DEF M!SettingsAsked
  <2>2. a.tracks # Absent => M!push_tracks(a.tracks) \in M!Texts
    BY <2>1, PushedTracks, NothingPushed
  <2> QED BY <2>1, <2>2 DEF M!TracksOption
<1>3. wanted = Absent \/ wanted \in M!Texts
  <2>1. /\ a.cliSubscribe \in {Absent} \cup M!Texts
        /\ a.subscribe \in {Absent} \cup Seq(M!Texts)
    BY DEF M!SettingsAsked
  <2>2. a.subscribe # Absent => M!push_subscribe_tracks(a.subscribe) \in M!Texts
    BY <2>1, PushedNames, NothingPushed
  <2> QED BY <2>1, <2>2 DEF M!SubscribeOption
<1>4. M!Default \in M!Texts
  <2>1. <<M!Text("video")>> \in M!Entries
    BY FieldTypes, Given
  <2> QED BY <2>1, Given DEF M!Default
<1>5. /\ option # Absent => text = option
      /\ option = Absent /\ wanted = Absent => text = M!Default
      /\ option = Absent /\ wanted # Absent => text = <<>>
      /\ text # <<>> => published = M!parse_tracks(text)
  <2>1. \A x : M!parse_tracks(x).tracks = x
    BY DEF M!parse_tracks
  <2>2. CASE option # Absent
    BY <2>1, <2>2
  <2>3. CASE option = Absent /\ wanted = Absent
    BY <2>1, <2>3
  <2>4. CASE option = Absent /\ wanted # Absent
    BY <2>4
  <2> QED BY <2>2, <2>3, <2>4
<1> HIDE DEF option, published, wanted
<1>6. text \in Seq(M!Entries) /\ (text = <<>> => option = Absent /\ wanted # Absent)
  <2>1. \A x \in M!Texts : x \in Seq(M!Entries) /\ x # <<>>
    BY Given
  <2>2. <<>> \in Seq(M!Entries)
    OBVIOUS
  <2> QED BY <1>2, <1>4, <1>5, <2>1, <2>2
<1> HIDE DEF text, tracks, TooBig, v
<1>7. published.ok /\ subscribed.ok /\ ~TooBig
      /\ v = [ok |-> TRUE, tracks |-> tracks, subscribe |-> subscribed.names]
  <2>1. v.ok
    BY DEF v
  <2> QED BY <1>1, <2>1 DEF M!Refused
<1>8. v.tracks = tracks /\ v.subscribe = subscribed.names
  BY <1>7
<1>9. \A i \in DOMAIN text : M!ValidEntry(text[i])
  <2>1. CASE text = <<>>
    BY <2>1
  <2>2. CASE text # <<>>
    <3>1. M!parse_tracks(text).ok
      BY <1>5, <1>7, <2>2
    <3> QED BY <3>1 DEF M!parse_tracks
  <2> QED BY <2>1, <2>2
<1>10. wanted # Absent => v.subscribe = wanted /\ M!parse_subscribe_tracks(wanted).ok
  <2>1. wanted # Absent => subscribed = M!parse_subscribe_tracks(wanted)
    OBVIOUS
  <2>2. \A x : M!parse_subscribe_tracks(x).names = x
    BY DEF M!parse_subscribe_tracks
  <2> HIDE DEF subscribed
  <2> QED BY <1>7, <1>8, <2>1, <2>2
<1>11. \A i \in DOMAIN v.tracks :
         v.tracks[i].delivery = "datagram" => ~(v.tracks[i].size + 48 > a.datagramMax)
  BY <1>7, <1>8 DEF TooBig, M!HeaderMax
<1>12. v.tracks = [i \in DOMAIN text |-> M!TrackOf(text[i])]
  BY <1>8 DEF tracks
<1>13. option # Absent => text = option
  BY <1>5
<1>14. ListedBy(text, v, option, wanted)
  BY <1>6, <1>9, <1>12, <1>13 DEF ListedBy
<1> HIDE DEF subscribed
<1>15. FromBoth(a, v, option, wanted)
  BY ONLY <1>2, <1>3, <1>10, <1>11, <1>14 DEF FromBoth
<1> QED BY <1>15 DEF option, wanted, v

(* The size of an accepted track.                                           *)
LEMMA TrackSize ==
  ASSUME NEW e \in M!Entries, M!ValidEntry(e)
  PROVE  M!TrackOf(e).size \in Nat
<1>1. M!TrackOf(e).size = IF Len(e) >= 3 THEN e[3].number ELSE DefaultSize
  BY DEF M!TrackOf, M!Track
<1>2. Len(e) >= 3 => e[3].number \in 1 .. MaxSize
  BY DEF M!ValidEntry
<1> QED BY <1>1, <1>2, Given

(* The payload is as long as the longest object.                            *)
LEMMA PayloadFits ==
  ASSUME NEW n \in Nat, NEW tracks, DOMAIN tracks = 1 .. n,
         \A i \in 1 .. n : tracks[i].size \in Nat
  PROVE  \A i \in 1 .. n : tracks[i].size <= M!PayloadLength(tracks)
<1> DEFINE s == [i \in 1 .. n |-> tracks[i].size]
           X == {0} \cup {tracks[i].size : i \in DOMAIN tracks}
<1>1. s \in Seq(Nat) /\ Len(s) = n
  <2>1. s \in [1 .. n -> Nat]
    OBVIOUS
  <2> HIDE DEF s
  <2> QED BY <2>1, FunctionIsSequence
<1>2. \A x \in X : x = 0 \/ \E i \in 1 .. n : x = s[i]
  OBVIOUS
<1>3. \E x \in X : \A y \in X : x >= y
  <2>1. CASE n = 0
    BY <1>2, <2>1
  <2>2. CASE n # 0
    <3>1. 1 .. n # {}
      BY <2>2
    <3>2. PICK m \in 1 .. n : \A d \in 1 .. n : s[d] <= s[m]
      BY <1>1, <3>1, GreatestExists
    <3>3. s[m] \in X /\ s[m] \in Nat /\ \A d \in 1 .. n : s[d] \in Nat
      OBVIOUS
    <3>4. \A y \in X : s[m] >= y
      <4> SUFFICES ASSUME NEW y \in X PROVE s[m] >= y
        OBVIOUS
      <4> HIDE DEF s, X
      <4> QED BY <1>2, <3>2, <3>3
    <3> QED BY <3>3, <3>4
  <2> QED BY <2>1, <2>2
<1>4. M!PayloadLength(tracks) = CHOOSE x \in X : \A y \in X : x >= y
  BY DEF M!PayloadLength, M!Max
<1>5. \A y \in X : M!PayloadLength(tracks) >= y
  <2> HIDE DEF X
  <2> QED BY <1>3, <1>4
<1>6. M!PayloadLength(tracks) \in Nat
  <2>1. M!PayloadLength(tracks) \in X
    <3> HIDE DEF X
    <3> QED BY <1>3, <1>4
  <2> QED BY <2>1
<1>7. ASSUME NEW i \in 1 .. n PROVE tracks[i].size <= M!PayloadLength(tracks)
  <2>1. tracks[i].size \in X /\ tracks[i].size \in Nat
    OBVIOUS
  <2> QED BY <1>5, <1>6, <2>1
<1> QED BY <1>7

(* TracksAsAsked of what is accepted.                                       *)
LEMMA AcceptedAsAsked ==
  ASSUME asked \in M!SettingsAsked, settings = M!validate_instance_args(asked), settings.ok
  PROVE  M!TracksAsAsked
<1> DEFINE option == M!TracksOption(asked)
           wanted == M!SubscribeOption(asked)
<1> HIDE DEF option, wanted
<1>1. FromBoth(asked, settings, option, wanted)
  BY AcceptedTexts DEF option, wanted
<1>2. wanted = Absent \/ wanted \in M!Texts
  BY <1>1 DEF FromBoth
<1>3. PICK text : ListedBy(text, settings, option, wanted)
  BY <1>1 DEF FromBoth
<1>4. wanted # Absent =>
        settings.subscribe = wanted /\ M!parse_subscribe_tracks(wanted).ok
  BY <1>1 DEF FromBoth
<1>5. \A i \in DOMAIN settings.tracks :
        settings.tracks[i].delivery = "datagram" =>
          ~(settings.tracks[i].size + 48 > asked.datagramMax)
  BY <1>1 DEF FromBoth
<1>6. /\ asked.cliTracks \in {Absent} \cup M!Texts
      /\ asked.tracks \in {Absent} \cup Seq(M!TracksListed)
      /\ asked.cliSubscribe \in {Absent} \cup M!Texts
      /\ asked.subscribe \in {Absent} \cup Seq(M!Texts) /\ asked.datagramMax \in Nat
  BY DEF M!SettingsAsked
<1>7. DOMAIN settings.tracks = 1 .. Len(text) /\ DOMAIN text = 1 .. Len(text) /\ Len(text) \in Nat
      /\ \A i \in 1 .. Len(text) : settings.tracks[i] = M!TrackOf(text[i]) /\ text[i] \in M!Entries
  BY <1>3 DEF ListedBy
(* The list of the file.                                                    *)
<1>8. ASSUME asked.cliTracks = Absent, asked.tracks # Absent,
             M!Plain([i \in DOMAIN asked.tracks |-> asked.tracks[i].name])
      PROVE  settings.tracks = [i \in DOMAIN asked.tracks |->
               M!Track(asked.tracks[i].name[1][1], M!OrDefault(asked.tracks[i].rate, DefaultRate),
                       M!OrDefault(asked.tracks[i].size, DefaultSize),
                       M!OrDefault(asked.tracks[i].delivery, "subgroup"))]
  <2> DEFINE list == asked.tracks
             R(i) == M!OrDefault(list[i].rate, DefaultRate)
             Z(i) == M!OrDefault(list[i].size, DefaultSize)
             D(i) == M!OrDefault(list[i].delivery, "subgroup")
             E(i) == <<list[i].name[1][1], M!Number(R(i)), M!Number(Z(i)), M!Text(D(i))>>
  <2>1. option = M!push_tracks(list) /\ list \in Seq(M!TracksListed)
    BY <1>6, <1>8 DEF option, M!TracksOption
  <2>2. option \in M!Texts
    BY <2>1, PushedTracks, NothingPushed
  <2>3. text = option
    BY <1>3, <2>2, Given DEF ListedBy
  <2>4. list # <<>>
    <3> SUFFICES ASSUME list = <<>> PROVE FALSE
      OBVIOUS
    <3>1. text = <<<<M!Empty>>>>
      BY <2>1, <2>3, NothingPushed
    <3>2. 1 \in DOMAIN text /\ text[1][1] = M!Empty
      BY <3>1
    <3> QED BY <1>3, <3>2 DEF ListedBy, M!ValidEntry
  <2>5. text = [i \in 1 .. Len(list) |-> E(i)]
    BY <1>8, <2>1, <2>3, <2>4, PushedTracks
  <2>6. DOMAIN list = 1 .. Len(list) /\ Len(text) = Len(list)
    BY <1>7, <2>1, <2>5
  <2>7. ASSUME NEW i \in 1 .. Len(list)
        PROVE  M!TrackOf(E(i)) = M!Track(list[i].name[1][1], R(i), Z(i), D(i))
    <3>1. /\ Len(E(i)) = 4 /\ E(i)[1] = list[i].name[1][1] /\ E(i)[2] = M!Number(R(i))
          /\ E(i)[3] = M!Number(Z(i)) /\ E(i)[4] = M!Text(D(i))
      OBVIOUS
    <3>2. \A x : M!Number(x).number = x /\ M!Text(x).word = x
      BY DEF M!Number, M!Text
    <3> HIDE DEF E, R, Z, D
    <3> QED BY <3>1, <3>2 DEF M!TrackOf
  <2> HIDE DEF E
  <2>8. settings.tracks = [i \in 1 .. Len(list) |-> M!TrackOf(E(i))]
    BY <1>3, <1>7, <2>5, <2>6 DEF ListedBy
  <2> HIDE DEF R, Z, D
  <2>9. settings.tracks = [i \in 1 .. Len(list) |-> M!Track(list[i].name[1][1], R(i), Z(i), D(i))]
    BY <2>7, <2>8
  <2> QED BY <2>6, <2>9 DEF R, Z, D
<1>9. ASSUME asked.cliSubscribe = Absent, asked.subscribe # Absent, M!Plain(asked.subscribe)
      PROVE  settings.subscribe = [i \in DOMAIN asked.subscribe |-> asked.subscribe[i][1]]
  <2> DEFINE names == asked.subscribe
  <2>1. wanted = M!push_subscribe_tracks(names) /\ names \in Seq(M!Texts)
    BY <1>6, <1>9 DEF wanted, M!SubscribeOption
  <2>2. wanted \in M!Texts /\ wanted # Absent
    BY <2>1, PushedNames, NothingPushed, Given
  <2>3. names # <<>>
    BY <1>4, <2>1, <2>2, NothingPushed
  <2>4. wanted = [i \in 1 .. Len(names) |-> names[i][1]]
    BY <1>9, <2>1, <2>3, PushedNames
  <2>5. DOMAIN names = 1 .. Len(names)
    BY <2>1
  <2>6. settings.subscribe = wanted
    BY <1>4, <2>2
  <2> QED BY ONLY <2>4, <2>5, <2>6
(* Something to do.                                                         *)
<1>10. settings.tracks # <<>> \/ settings.subscribe # <<>>
  <2>1. CASE text = <<>>
    BY <1>2, <1>3, <1>4, <2>1, Given DEF ListedBy
  <2>2. CASE text # <<>>
    <3>1. 1 \in DOMAIN settings.tracks
      BY <1>7, <2>2
    <3>2. 1 \notin DOMAIN <<>>
      OBVIOUS
    <3> QED BY <3>1, <3>2
  <2> QED BY <2>1, <2>2
(* The sizes.                                                               *)
<1>11. \A i \in 1 .. Len(text) : settings.tracks[i].size \in Nat
  BY <1>3, <1>7, TrackSize DEF ListedBy
<1>12. \A i \in DOMAIN settings.tracks : settings.tracks[i].size <= M!PayloadLength(settings.tracks)
  BY <1>7, <1>11, PayloadFits
<1>13. ASSUME NEW i \in DOMAIN settings.tracks, settings.tracks[i].delivery = "datagram"
       PROVE  ~M!TooLarge(settings.tracks[i], asked.datagramMax)
  <2> DEFINE z == settings.tracks[i].size
  <2>1. z \in Nat /\ ~(z + 48 > asked.datagramMax)
    BY <1>5, <1>7, <1>11, <1>13
  <2> HIDE DEF z
  <2>2. \A n \in 4 .. 32 : ~(1 + n + 1 + (1 + 4) + 1 + z > asked.datagramMax)
    BY <1>6, <2>1
  <2>3. \A n : M!DatagramLength(settings.tracks[i], n) = 1 + n + 1 + (1 + 4) + 1 + z
    BY DEF M!DatagramLength, M!Timescale, z
  <2>4. 4 * M!Varint = 32
    BY DEF M!Varint
  <2> QED BY <2>2, <2>3, <2>4 DEF M!TooLarge
<1> QED BY <1>8, <1>9, <1>10, <1>12, <1>13 DEF M!TracksAsAsked

(* What is asked does not change, and what was accepted is not looked at    *)
(* again.                                                                   *)
SettingsInv ==
  /\ asked \in M!SettingsAsked
  /\ settings = M!Refused \/ settings = M!validate_instance_args(asked)

LEMMA SettingsStep == SettingsInv /\ [M!Next]_M!vars => SettingsInv'
<1> SUFFICES ASSUME SettingsInv, [M!Next]_M!vars PROVE SettingsInv'
  OBVIOUS
<1> USE DEF M!instances, M!clients, M!counters
<1>1. CASE M!Settle
  BY <1>1 DEF M!Settle, SettingsInv
<1>2. CASE UNCHANGED <<asked, settings>>
  BY <1>2 DEF SettingsInv
<1>3. CASE M!HatchInstance \/ M!InstancesHatched \/ M!InstancesJoined \/ M!CtrlC
  BY <1>2, <1>3 DEF M!HatchInstance, M!InstancesHatched, M!InstancesJoined, M!CtrlC
<1>4. ASSUME NEW i \in M!I,
             M!ContextBuilt(i) \/ M!ContextFails(i) \/ M!HatchClient(i) \/ M!ClientsHatched(i)
               \/ M!ClientsJoined(i)
      PROVE  SettingsInv'
  BY <1>2, <1>4 DEF M!ContextBuilt, M!ContextFails, M!HatchClient, M!ClientsHatched, M!ClientsJoined
<1>5. ASSUME NEW c \in M!C, M!CountObject(c) \/ M!ClientEnds(c) PROVE SettingsInv'
  BY <1>2, <1>5 DEF M!CountObject, M!ClientEnds
<1>6. CASE M!Terminated \/ UNCHANGED M!vars
  BY <1>2, <1>6 DEF M!Terminated, M!vars
<1> QED BY <1>1, <1>3, <1>4, <1>5, <1>6 DEF M!Next

(* TracksAsAsked: for any texts and lists, any defaults and any limit on    *)
(* datagrams, an instance of zakuro-moq publishes and subscribes to what    *)
(* was asked for, and what passed its check is sent.                        *)
THEOREM TracksAreAsAsked == LoadSpec => []TracksAsAsked
<1>1. LoadInit => SettingsInv
  <2>1. M!Init => asked \in M!SettingsAsked /\ settings = M!Refused
    BY LoadAssumption DEF M!Init, M!ProcessAssumption
  <2> QED BY <2>1 DEF LoadInit, SettingsInv
<1>2. SettingsInv /\ [LoadNext]_loadVars => SettingsInv'
  BY SettingsStep, ProcessPart
<1>3. SettingsInv => TracksAsAsked
  <2> SUFFICES ASSUME SettingsInv PROVE M!TracksAsAsked
    BY DEF TracksAsAsked
  <2>1. CASE settings.ok
    <3>1. settings # M!Refused
      BY <2>1 DEF M!Refused
    <3> QED BY <2>1, <3>1, AcceptedAsAsked DEF SettingsInv
  <2>2. CASE ~settings.ok
    BY <2>2 DEF M!TracksAsAsked
  <2> QED BY <2>1, <2>2
<1> QED BY <1>1, <1>2, <1>3, PTL DEF LoadSpec

===============================================================================
