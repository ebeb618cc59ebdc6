----------------------- MODULE ConnectionLifecycleProofs -----------------------
(***************************************************************************)
(* Proofs about ConnectionLifecycle, for every set of streams, every        *)
(* setting and every bound: what a row says really happened.                *)
(*                                                                         *)
(* The inductive invariant is IInv.  OrderInv is about the order in which   *)
(* the handler, the task and the loop publish facts; TruthInv relates the   *)
(* counters to the packets that really flowed; ObserverInv relates what the *)
(* media observer recorded to what the samples showed; RowInv says that the *)
(* row is made from a copy for which all of this held.                      *)
(***************************************************************************)
EXTENDS ConnectionLifecycle, SequenceTheorems, TLAPS

IInv == TypeOK /\ OrderInv /\ TruthInv /\ ObserverInv /\ RowInv

-----------------------------------------------------------------------------
(* The type of counters.                                                   *)

LEMMA CountersElim ==
  ASSUME NEW f \in Counters
  PROVE  DOMAIN f \subseteq Streams /\ \A s \in DOMAIN f : f[s] \in 0..MaxCount
<1>1. PICK S \in SUBSET Streams : f \in [S -> 0..MaxCount]
  BY DEF Counters
<1> QED BY <1>1

LEMMA CountersIntro ==
  ASSUME NEW S \in SUBSET Streams, NEW f \in [S -> 0..MaxCount]
  PROVE  f \in Counters
BY DEF Counters

LEMMA EmptyCounters == [s \in {} |-> 0] \in Counters
<1>1. [s \in {} |-> 0] \in [{} -> 0..MaxCount]
  OBVIOUS
<1> QED BY <1>1, CountersIntro

(* A flow is a direction and a kind.                                        *)
LEMMA FlowType ==
  ASSUME NEW s \in Streams
  PROVE  FlowOf(s) \in Flows
BY StreamAssumption DEF FlowOf, Flows

(* A verdict has a reason exactly when it is a failure.                     *)
LEMMA JudgeType ==
  ASSUME NEW l, NEW end, NEW at
  PROVE  /\ Judge(l, end, at)[1] \in {"success", "failure", "unjudged"}
         /\ Judge(l, end, at)[2] \in Reasons
<1> DEFINE J == Judge(l, end, at)
<1>1. J \in {<<"failure", "build-failed">>, <<"failure", "connect-failed">>,
             <<"unjudged", "none">>, <<"failure", "no-media-sent">>,
             <<"failure", "no-delivery-report">>, <<"failure", "no-media-received">>,
             <<"failure", "unexpected-disconnect">>, <<"success", "none">>}
  BY Zenon DEF Judge
<1> HIDE DEF J
<1>2. J[1] \in {"success", "failure", "unjudged"} /\ J[2] \in Reasons
  BY <1>1 DEF Reasons
<1> QED BY <1>2 DEF J

(* What each verdict rests on.                                              *)
LEMMA JudgeSuccess ==
  ASSUME NEW l, NEW end, NEW at, Judge(l, end, at)[1] = "success"
  PROVE  /\ l.webrtcAt # None /\ l.samples # 0
         /\ Required("send") \subseteq l.media
         /\ Required("recv") \subseteq l.media
         /\ settings.send => l.report
         /\ end # "BuildFailed" /\ end # "Unexpected"
<1> USE DEF Judge
<1>1. end # "BuildFailed" /\ l.webrtcAt # None
  OBVIOUS
<1>2. ~(settings.kinds = {} \/ l.samples = 0
       \/ (IF at > l.webrtcAt THEN at - l.webrtcAt ELSE 0) < Grace)
  BY <1>1
<1>3. Required("send") \subseteq l.media /\ ~(settings.send /\ ~l.report)
      /\ Required("recv") \subseteq l.media
  BY <1>1, <1>2
<1>4. end # "Unexpected"
  BY <1>1, <1>2, <1>3
<1> QED BY <1>1, <1>2, <1>3, <1>4

LEMMA JudgeConnected ==
  ASSUME NEW l, NEW end, NEW at, l.webrtcAt # None, end # "BuildFailed"
  PROVE  Judge(l, end, at)[2] \notin {"connect-failed", "build-failed"}
BY DEF Judge

-----------------------------------------------------------------------------
(* Type correctness.                                                       *)

LEMMA InitType == Init => TypeOK
<1> SUFFICES ASSUME Init PROVE TypeOK
  OBVIOUS
<1>1. Fresh \in Lives /\ Fresh.idle <= Fresh.maxIdle /\ Fresh.maxIdle <= Fresh.samples
  BY DEF Fresh, Lives
<1>2. /\ streams \in Counters /\ known \in Counters
      /\ sample \in [counts : Counters, report : BOOLEAN]
  BY EmptyCounters DEF Init
<1>3. clock \in 0..MaxTime /\ taken \in 0..MaxSamples
  BY TimeAssumption DEF Init
<1>4. control \in Seq({"connection", "lifecycle"})
  BY DEF Init
<1>5. ending \in [end : Ends \cup {"none"}, at : 0..MaxTime, life : Lives]
  BY <1>1, TimeAssumption DEF Init
<1>6. truth \in [flowed : SUBSET Flows, shown : SUBSET Flows, reported : BOOLEAN,
                 idle : Nat, maxIdle : Nat]
  BY DEF Init
<1> QED BY <1>1, <1>2, <1>3, <1>4, <1>5, <1>6 DEF Init, TypeOK

LEMMA RowType ==
  ASSUME TypeOK, ending.end # "none"
  PROVE  RowOf(ids) \in Rows
<1>1. /\ ending.life \in Lives /\ ending.end \in Ends /\ ids \in BOOLEAN
  BY DEF TypeOK
<1>2. IsStalled(ending.life) \in BOOLEAN
  BY DEF IsStalled
<1> QED BY <1>1, <1>2, JudgeType DEF RowOf, Rows, Lives

LEMMA ObserveType ==
  ASSUME TypeOK, Observe
  PROVE  TypeOK'
<1> DEFINE moved == {s \in DOMAIN sample.counts : HasFlowed(s)}
           seen == WithReport(Observed(moved))
           after == Activity(seen, moved # {})
           wit == Witness(moved # {})
<1>1. /\ DOMAIN sample.counts \subseteq Streams
      /\ \A s \in DOMAIN sample.counts : sample.counts[s] \in 0..MaxCount
      /\ DOMAIN known \subseteq Streams
      /\ \A s \in DOMAIN known : known[s] \in 0..MaxCount
  BY CountersElim DEF TypeOK
<1>2. {FlowOf(s) : s \in moved} \subseteq Flows
  BY <1>1, FlowType
<1> HIDE DEF moved
<1>3. /\ seen \in Lives /\ seen.idle = life.idle /\ seen.maxIdle = life.maxIdle
      /\ seen.samples = life.samples /\ life.idle \in Nat /\ life.maxIdle \in Nat
      /\ life.samples \in Nat /\ life.idle <= life.maxIdle
      /\ life.maxIdle <= life.samples
  BY <1>2 DEF TypeOK, Lives, WithReport, Observed
<1>a. (moved # {}) \in BOOLEAN
  OBVIOUS
<1> HIDE DEF seen
<1>4. /\ after \in Lives /\ after.idle <= after.maxIdle
      /\ after.maxIdle <= after.samples
  BY <1>3, <1>a DEF Activity, Lives
<1>5. Shown \subseteq Flows
  BY <1>1, FlowType DEF Shown
<1>6. wit \in [flowed : SUBSET Flows, shown : SUBSET Flows, reported : BOOLEAN,
               idle : Nat, maxIdle : Nat]
  BY <1>5 DEF TypeOK, Witness
<1> HIDE DEF after, wit
<1>7. life' = seen \/ life' = after
  BY Zenon DEF Observe, moved, seen, after
<1>8. truth' = truth \/ truth' = wit
  BY Zenon DEF Observe, moved, wit
<1>9. known' \in Counters
  <2> DEFINE S == DOMAIN known \cup DOMAIN sample.counts
  <2>1. S \in SUBSET Streams
    BY <1>1
  <2>2. known' \in [S -> 0..MaxCount]
    BY <1>1 DEF Observe
  <2> QED BY <2>1, <2>2, CountersIntro
<1>10. life' \in Lives /\ life'.idle <= life'.maxIdle /\ life'.maxIdle <= life'.samples
  BY <1>3, <1>4, <1>7
<1>11. truth' \in [flowed : SUBSET Flows, shown : SUBSET Flows, reported : BOOLEAN,
                   idle : Nat, maxIdle : Nat]
  BY <1>6, <1>8 DEF TypeOK
<1> QED
  BY <1>9, <1>10, <1>11 DEF Observe, TypeOK, envVars, handlerVars, loopVars

LEMMA EnvironmentType ==
  ASSUME TypeOK, Environment
  PROVE  TypeOK'
<1> USE DEF TypeOK, taskVars, handlerVars, loopVars
<1>1. CASE Tick
  <2>1. clock' \in 0..MaxTime
    BY <1>1, TimeAssumption DEF Tick
  <2> QED BY <1>1, <2>1 DEF Tick
<1>2. CASE Report
  <2>1. truth' \in [flowed : SUBSET Flows, shown : SUBSET Flows, reported : BOOLEAN,
                    idle : Nat, maxIdle : Nat]
    BY <1>2 DEF Report
  <2> QED BY <1>2, <2>1 DEF Report
<1>3. ASSUME NEW s \in Streams, StreamAppears(s)
      PROVE  TypeOK'
  <2> DEFINE S == DOMAIN streams \cup {s}
  <2>1. DOMAIN streams \subseteq Streams /\ \A t \in DOMAIN streams : streams[t] \in 0..MaxCount
    BY CountersElim
  <2>2. S \in SUBSET Streams
    BY <2>1
  <2>3. streams' \in [S -> 0..MaxCount]
    BY <1>3, <2>1, TimeAssumption DEF StreamAppears
  <2>4. streams' \in Counters
    BY <2>2, <2>3, CountersIntro
  <2> QED BY <1>3, <2>4 DEF StreamAppears
<1>4. ASSUME NEW s \in Streams, Traffic(s) \/ StreamRestarts(s)
      PROVE  TypeOK'
  <2>1. DOMAIN streams \subseteq Streams /\ \A t \in DOMAIN streams : streams[t] \in 0..MaxCount
    BY CountersElim
  <2>2. PICK S \in SUBSET Streams : streams \in [S -> 0..MaxCount]
    BY DEF Counters
  <2>3. streams' \in [S -> 0..MaxCount]
    <3>1. CASE Traffic(s)
      <4>1. streams[s] + 1 \in 0..MaxCount /\ streams' = [streams EXCEPT ![s] = @ + 1]
        BY SMTT(30), <3>1, <2>1, TimeAssumption DEF Traffic
      <4> QED BY <4>1, <2>2
    <3>2. CASE StreamRestarts(s)
      <4>1. 0 \in 0..MaxCount /\ streams' = [streams EXCEPT ![s] = 0]
        BY <3>2, TimeAssumption DEF StreamRestarts
      <4> QED BY <4>1, <2>2
    <3> QED BY <1>4, <3>1, <3>2
  <2>4. streams' \in Counters
    BY <2>3, CountersIntro
  <2>5. truth' \in [flowed : SUBSET Flows, shown : SUBSET Flows, reported : BOOLEAN,
                    idle : Nat, maxIdle : Nat]
    BY SMTT(30), <1>4, FlowType DEF Traffic, StreamRestarts
  <2> QED BY <1>4, <2>4, <2>5 DEF Traffic, StreamRestarts
<1>5. ASSUME NEW s \in Streams, StreamGone(s)
      PROVE  TypeOK'
  <2> DEFINE S == DOMAIN streams \ {s}
  <2>1. DOMAIN streams \subseteq Streams /\ \A t \in DOMAIN streams : streams[t] \in 0..MaxCount
    BY CountersElim
  <2>2. S \in SUBSET Streams
    BY <2>1
  <2>3. streams' \in [S -> 0..MaxCount]
    BY <1>5, <2>1 DEF StreamGone
  <2>4. streams' \in Counters
    BY <2>2, <2>3, CountersIntro
  <2> QED BY <1>5, <2>4 DEF StreamGone
<1> QED BY <1>1, <1>2, <1>3, <1>4, <1>5 DEF Environment

LEMMA TypeStep ==
  ASSUME TypeOK, OrderInv, [Next]_vars
  PROVE  TypeOK'
<1>1. CASE Environment
  BY <1>1, EnvironmentType
<1>2. CASE Handler
  <2> USE DEF TypeOK, envVars, taskVars, loopVars
  <2>1. CASE OfferIds
    BY <2>1 DEF OfferIds
  <2>2. CASE OfferRecord
    <3>1. life' \in Lives /\ life'.idle = life.idle /\ life'.maxIdle = life.maxIdle
          /\ life'.samples = life.samples
      BY <2>2 DEF OfferRecord, Lives
    <3> QED BY <2>2, <3>1 DEF OfferRecord
  <2>3. CASE Connected
    <3>1. life' \in Lives /\ life'.idle = life.idle /\ life'.maxIdle = life.maxIdle
          /\ life'.samples = life.samples
      BY <2>3 DEF Connected, Lives
    <3> QED BY <2>3, <3>1 DEF Connected
  <2>4. CASE Notify
    BY <2>4 DEF Notify
  <2> QED BY <1>2, <2>1, <2>2, <2>3, <2>4 DEF Handler
<1>3. CASE TakeSample \/ SampleFails
  <2>1. taken' \in 0..MaxSamples
    BY <1>3, TimeAssumption DEF TakeSample, SampleFails, TypeOK
  <2> QED BY <1>3, <2>1 DEF TakeSample, SampleFails, TypeOK, envVars, handlerVars, loopVars
<1>4. CASE Observe
  BY <1>4, ObserveType
<1>5. CASE BuildFails \/ Built \/ Establish \/ EndBeforeEstablish \/ End \/ Snapshot
  <2>1. ending' \in [end : Ends \cup {"none"}, at : 0..MaxTime, life : Lives]
    BY <1>5 DEF BuildFails, Built, Establish, EndBeforeEstablish, End, Snapshot, Finish,
                Ends, TypeOK
  <2> USE DEF TypeOK, envVars, handlerVars, taskVars
  <2>2. CASE BuildFails \/ Built
    BY <2>1, <2>2 DEF BuildFails, Built, Finish
  <2>3. CASE Establish \/ Snapshot
    BY ZenonT(30), <2>1, <2>3 DEF Establish, Snapshot
  <2>4. CASE EndBeforeEstablish \/ End
    BY <2>1, <2>4 DEF EndBeforeEstablish, End, Finish
  <2> QED
    BY <1>5, <2>2, <2>3, <2>4
<1>6. CASE Disconnected
  BY <1>6 DEF Disconnected, Finish, TypeOK, envVars, handlerVars, taskVars
<1>7. CASE WriteRow
  <2>1. ending.end # "none"
    BY <1>7 DEF WriteRow, OrderInv
  <2>2. row' \in Rows
    BY <1>7, <2>1, RowType DEF WriteRow
  <2>3. control' \in Seq({"connection", "lifecycle"})
    BY <1>7 DEF WriteRow, TypeOK
  <2> QED BY <1>7, <2>2, <2>3 DEF WriteRow, TypeOK, envVars, handlerVars, taskVars
<1>8. CASE UNCHANGED vars
  BY <1>8 DEF vars, TypeOK, envVars, handlerVars, taskVars, loopVars
<1> QED
  BY <1>1, <1>2, <1>3, <1>4, <1>5, <1>6, <1>7, <1>8 DEF Next, Task, Loop, Over

-----------------------------------------------------------------------------
(* The parts of the invariant.                                             *)

LEMMA InitInv == Init => OrderInv /\ TruthInv /\ ObserverInv /\ RowInv
BY DEF Init, Fresh, OrderInv, TruthInv, ObserverInv, RowInv

(* What Observe does to the lifecycle, field by field.                      *)
Moved == {s \in DOMAIN sample.counts : HasFlowed(s)}

LEMMA ObserveEffect ==
  ASSUME TypeOK, Observe
  PROVE  /\ life'.webrtcAt = life.webrtcAt /\ life'.offer = life.offer
         /\ life'.media = life.media \cup {FlowOf(s) : s \in Moved}
         /\ life'.report = (life.report \/ sample.report)
         /\ \/ /\ DOMAIN sample.counts = {} /\ truth' = truth
               /\ life'.samples = life.samples /\ life'.active = life.active
               /\ life'.idle = life.idle /\ life'.maxIdle = life.maxIdle
            \/ /\ life' = Activity(WithReport(Observed(Moved)), Moved # {})
               /\ truth' = Witness(Moved # {})
               /\ life'.active = (life.active \/ Moved # {})
               /\ life'.idle = IF Moved # {} THEN 0 ELSE life.idle + 1
               /\ life'.maxIdle = IF Moved # {} \/ life.maxIdle > life.idle
                                  THEN life.maxIdle ELSE life.idle + 1
<1> DEFINE seen == WithReport(Observed(Moved))
           after == Activity(seen, Moved # {})
<1>1. /\ seen.webrtcAt = life.webrtcAt /\ seen.offer = life.offer
      /\ seen.media = life.media \cup {FlowOf(s) : s \in Moved}
      /\ seen.report = (life.report \/ sample.report)
      /\ seen.samples = life.samples /\ seen.active = life.active
      /\ seen.idle = life.idle /\ seen.maxIdle = life.maxIdle
  <2> HIDE DEF Moved
  <2>1. /\ Observed(Moved).webrtcAt = life.webrtcAt /\ Observed(Moved).offer = life.offer
        /\ Observed(Moved).media = life.media \cup {FlowOf(s) : s \in Moved}
        /\ Observed(Moved).report = life.report
        /\ Observed(Moved).samples = life.samples /\ Observed(Moved).active = life.active
        /\ Observed(Moved).idle = life.idle /\ Observed(Moved).maxIdle = life.maxIdle
        /\ DOMAIN Observed(Moved) = DOMAIN life
    BY DEF Observed, TypeOK, Lives
  <2>2. DOMAIN life = {"offer", "webrtcAt", "media", "report", "samples", "active",
                       "idle", "maxIdle"}
    BY DEF TypeOK, Lives
  <2> QED BY <2>1, <2>2 DEF WithReport
<1> HIDE DEF seen
<1>2. /\ after.webrtcAt = seen.webrtcAt /\ after.offer = seen.offer
      /\ after.media = seen.media /\ after.report = seen.report
      /\ after.active = (seen.active \/ Moved # {})
      /\ after.idle = IF Moved # {} THEN 0 ELSE seen.idle + 1
      /\ after.maxIdle = IF Moved # {} \/ seen.maxIdle > seen.idle
                         THEN seen.maxIdle ELSE seen.idle + 1
  BY DEF Activity
<1> HIDE DEF after
<1>3. \/ DOMAIN sample.counts = {} /\ life' = seen /\ truth' = truth
      \/ life' = after /\ truth' = Witness(Moved # {})
  BY Zenon DEF Observe, Moved, seen, after
<1> QED BY <1>1, <1>2, <1>3 DEF after, seen

(* Each fact is published after the facts it rests on.                      *)
LEMMA OrderStep ==
  ASSUME TypeOK, OrderInv, RowInv, [Next]_vars
  PROVE  OrderInv'
<1> USE DEF OrderInv, handlerVars, loopVars, taskVars
<1>1. CASE Environment
  <2>1. UNCHANGED <<hpc, tx, established, life, tpc, ids, cpc, ending>>
    BY <1>1 DEF Environment, Tick, Report, StreamAppears, Traffic, StreamRestarts, StreamGone
  <2> QED BY <2>1
<1>2. CASE OfferIds \/ Notify
  BY <1>2 DEF OfferIds, Notify
<1>3. CASE OfferRecord
  <2>1. life'.webrtcAt = life.webrtcAt /\ life'.samples = life.samples
    BY <1>3 DEF OfferRecord, TypeOK, Lives
  <2> QED BY <1>3, <2>1 DEF OfferRecord
<1>4. CASE Connected
  <2>1. /\ life'.webrtcAt # None /\ life'.samples = life.samples
        /\ life'.offer = life.offer
    BY <1>4, TimeAssumption DEF Connected, TypeOK, Lives
  <2> QED BY <1>4, <2>1 DEF Connected
<1>5. CASE TakeSample \/ SampleFails
  BY <1>5 DEF TakeSample, SampleFails
<1>6. CASE Observe
  <2>1. life'.webrtcAt = life.webrtcAt
    BY <1>6, ObserveEffect
  <2> QED BY <1>6, <2>1 DEF Observe
<1>7. CASE BuildFails \/ Built \/ Establish \/ WriteRow
  <2>1. UNCHANGED <<life, hpc, tx, ids>>
    BY <1>7 DEF BuildFails, Built, Establish, WriteRow
  <2>2. CASE BuildFails
    BY <2>1, <2>2 DEF BuildFails, Finish
  <2>3. CASE Built
    BY <2>1, <2>3 DEF Built
  <2>4. CASE Establish
    BY <2>1, <2>4 DEF Establish
  <2>5. CASE WriteRow
    BY <2>1, <2>5 DEF WriteRow
  <2> QED BY <1>7, <2>2, <2>3, <2>4, <2>5
<1>8. CASE EndBeforeEstablish \/ End \/ Disconnected \/ Snapshot
  BY <1>8 DEF EndBeforeEstablish, End, Disconnected, Snapshot, Finish, TypeOK, Ends
<1>9. CASE UNCHANGED vars
  BY <1>9 DEF vars
<1> QED
  BY <1>1, <1>2, <1>3, <1>4, <1>5, <1>6, <1>7, <1>8, <1>9
  DEF Next, Handler, Task, Loop, Over

(* What samples show has really happened.                                   *)
LEMMA TruthStep ==
  ASSUME TypeOK, TruthInv, ObserverInv, [Next]_vars
  PROVE  TruthInv'
<1> USE DEF TruthInv
<1>0. /\ DOMAIN streams \subseteq Streams /\ DOMAIN known \subseteq Streams
      /\ DOMAIN sample.counts \subseteq Streams
  BY CountersElim DEF TypeOK
<1>1. CASE Tick
  BY <1>1 DEF Tick, taskVars
<1>2. CASE Report
  <2>1. truth'.reported /\ truth'.shown = truth.shown /\ truth'.flowed = truth.flowed
    BY <1>2 DEF Report, TypeOK
  <2> QED BY <1>2, <2>1 DEF Report, taskVars
<1>3. ASSUME NEW s \in Streams, StreamAppears(s) \/ StreamGone(s) \/ StreamRestarts(s)
      PROVE  TruthInv'
  <2>1. \A t \in DOMAIN streams' : streams'[t] > 0 => t \in DOMAIN streams /\ streams[t] > 0
    BY <1>3 DEF StreamAppears, StreamGone, StreamRestarts
  <2>2. UNCHANGED <<sample, truth, reported, life>>
    BY <1>3 DEF StreamAppears, StreamGone, StreamRestarts, taskVars
  <2> QED BY <2>1, <2>2
<1>4. ASSUME NEW s \in Streams, Traffic(s)
      PROVE  TruthInv'
  <2>1. \A t \in DOMAIN streams' : t \in DOMAIN streams /\ (t # s => streams'[t] = streams[t])
    BY <1>4 DEF Traffic
  <2>2. /\ truth'.flowed = truth.flowed \cup {FlowOf(s)}
        /\ truth'.shown = truth.shown /\ truth'.reported = truth.reported
    BY <1>4 DEF Traffic, TypeOK
  <2>3. UNCHANGED <<sample, reported, life>>
    BY <1>4 DEF Traffic, taskVars
  <2> QED BY <2>1, <2>2, <2>3
<1>5. CASE OfferIds \/ Notify \/ SampleFails
  BY <1>5 DEF OfferIds, Notify, SampleFails, envVars, taskVars
<1>6. CASE OfferRecord \/ Connected
  <2>1. life'.report = life.report
    BY <1>6 DEF OfferRecord, Connected, TypeOK, Lives
  <2> QED BY <1>6, <2>1 DEF OfferRecord, Connected, envVars, taskVars
<1>7. CASE TakeSample
  <2>1. sample'.counts = streams /\ sample'.report = reported
    BY <1>7 DEF TakeSample
  <2>2. UNCHANGED <<streams, reported, life, truth>>
    BY <1>7 DEF TakeSample, envVars
  <2> QED BY <2>1, <2>2
<1>8. CASE Observe
  <2>1. UNCHANGED <<streams, reported, sample>>
    BY <1>8 DEF Observe, envVars
  <2>2. /\ truth'.flowed = truth.flowed /\ truth'.reported = truth.reported
        /\ truth'.shown \subseteq truth.shown \cup Shown
    BY <1>8, ObserveEffect DEF Witness
  <2>3. Shown \subseteq truth.flowed
    BY DEF Shown
  <2>4. life'.report = (life.report \/ sample.report)
    BY <1>8, ObserveEffect
  <2> QED BY <2>1, <2>2, <2>3, <2>4
<1>9. CASE Loop
  BY <1>9 DEF Loop, BuildFails, Built, Establish, EndBeforeEstablish, End, Disconnected,
              Snapshot, WriteRow, envVars, taskVars
<1>10. CASE UNCHANGED vars
  BY <1>10 DEF vars, envVars, taskVars
<1> QED
  BY <1>1, <1>2, <1>3, <1>4, <1>5, <1>6, <1>7, <1>8, <1>9, <1>10
  DEF Next, Environment, Handler, Task, Over

(* The observer records exactly what samples showed.                        *)
LEMMA ObserverStep ==
  ASSUME TypeOK, ObserverInv, [Next]_vars
  PROVE  ObserverInv'
<1> USE DEF ObserverInv
<1>1. CASE Observe
  <2>1. /\ \A s \in DOMAIN sample.counts : sample.counts[s] \in Nat
        /\ \A s \in DOMAIN known : known[s] \in Nat
    BY CountersElim, TimeAssumption DEF TypeOK
  <2>2. known' = [s \in DOMAIN known \cup DOMAIN sample.counts |->
                    IF s \in DOMAIN sample.counts THEN sample.counts[s] ELSE known[s]]
    BY <1>1 DEF Observe
  <2>3. \A s \in Moved : s \in DOMAIN sample.counts /\ sample.counts[s] > 0
    BY <2>1 DEF Moved, HasFlowed
  <2>4. \A s \in DOMAIN sample.counts :
          sample.counts[s] > 0 => s \in Moved \/ FlowOf(s) \in life.media
    BY <2>1 DEF Moved, HasFlowed
  <2>5. life'.media = life.media \cup {FlowOf(s) : s \in Moved}
    BY <1>1, ObserveEffect
  <2>6. life'.media = life.media \cup Shown
    BY <2>3, <2>4, <2>5 DEF Shown
  <2>7. \A s \in DOMAIN known' : known'[s] > 0 => FlowOf(s) \in life'.media
    BY <2>2, <2>6 DEF Shown
  <2>8. CASE DOMAIN sample.counts = {} /\ truth' = truth
             /\ life'.samples = life.samples /\ life'.active = life.active
             /\ life'.idle = life.idle /\ life'.maxIdle = life.maxIdle
    <3>1. Shown = {}
      BY <2>8 DEF Shown
    <3> QED BY <2>6, <2>7, <2>8, <3>1
  <2>9. CASE /\ truth' = Witness(Moved # {})
             /\ life'.active = (life.active \/ Moved # {})
             /\ life'.idle = IF Moved # {} THEN 0 ELSE life.idle + 1
             /\ life'.maxIdle = IF Moved # {} \/ life.maxIdle > life.idle
                                THEN life.maxIdle ELSE life.idle + 1
    <3>1. truth'.shown = truth.shown \cup Shown
      BY <2>9 DEF Witness
    <3>2. /\ life.idle \in Nat /\ life.maxIdle \in Nat /\ life.active \in BOOLEAN
          /\ truth.idle \in Nat /\ truth.maxIdle \in Nat
      BY DEF TypeOK, Lives
    <3>3. truth'.idle <= life'.idle /\ truth'.maxIdle <= life'.maxIdle
          /\ (truth'.maxIdle > 0 => life'.active)
      <4> HIDE DEF Moved
      <4>1. CASE Moved # {} \/ ~life.active
        <5>1. truth'.idle = 0 /\ truth'.maxIdle = truth.maxIdle
          BY <2>9, <3>2, <4>1 DEF Witness
        <5> QED BY <2>9, <3>2, <4>1, <5>1
      <4>2. CASE Moved = {} /\ life.active
        <5>1. /\ truth'.idle = truth.idle + 1
              /\ truth'.maxIdle = IF truth.idle + 1 > truth.maxIdle
                                  THEN truth.idle + 1 ELSE truth.maxIdle
          BY <2>9, <3>2, <4>2 DEF Witness
        <5>2. life'.active /\ life'.idle = life.idle + 1
              /\ life'.maxIdle = IF life.maxIdle > life.idle
                                 THEN life.maxIdle ELSE life.idle + 1
          BY <2>9, <4>2
        <5>3. truth.idle <= life.idle /\ truth.maxIdle <= life.maxIdle
          OBVIOUS
        <5> QED BY <3>2, <5>1, <5>2, <5>3
      <4> QED BY <4>1, <4>2
    <3> QED BY <2>6, <2>7, <3>1, <3>3
  <2> QED BY <1>1, <2>8, <2>9, ObserveEffect
<1>2. CASE Environment
  <2>1. UNCHANGED <<life, known>>
    BY <1>2 DEF Environment, Tick, Report, StreamAppears, Traffic, StreamRestarts,
                StreamGone, taskVars
  <2>2. /\ truth'.shown = truth.shown /\ truth'.idle = truth.idle
        /\ truth'.maxIdle = truth.maxIdle
    BY <1>2 DEF Environment, Tick, Report, StreamAppears, Traffic, StreamRestarts,
                StreamGone, TypeOK
  <2> QED BY <2>1, <2>2
<1>3. CASE Handler \/ TakeSample \/ SampleFails \/ Loop \/ UNCHANGED vars
  <2>1. UNCHANGED <<known, truth>>
    BY <1>3 DEF Handler, OfferIds, OfferRecord, Connected, Notify, TakeSample, SampleFails,
                Loop, BuildFails, Built, Establish, EndBeforeEstablish, End, Disconnected,
                Snapshot, WriteRow, vars, taskVars
  <2>2. life' = life \/ life' = [life EXCEPT !.offer = TRUE]
        \/ life' = [life EXCEPT !.webrtcAt = clock]
    BY <1>3 DEF Handler, OfferIds, OfferRecord, Connected, Notify, TakeSample, SampleFails,
                Loop, BuildFails, Built, Establish, EndBeforeEstablish, End, Disconnected,
                Snapshot, WriteRow, vars
  <2>3. /\ life'.media = life.media /\ life'.idle = life.idle
        /\ life'.maxIdle = life.maxIdle /\ life'.active = life.active
    BY <2>2 DEF TypeOK, Lives
  <2> QED BY <2>1, <2>3
<1> QED BY <1>1, <1>2, <1>3 DEF Next, Task, Over

(* The control channel holds at most two rows.                              *)
LEMMA AppendEmpty == \A x : Append(<<>>, x) = <<x>>
OBVIOUS

LEMMA AppendOne ==
  ASSUME NEW S, NEW x \in S, NEW y \in S
  PROVE  Append(<<x>>, y) = <<x, y>>
<1>1. <<x>> \in Seq(S) /\ Len(<<x>>) = 1 /\ <<x>>[1] = x
  OBVIOUS
<1>2. <<x, y>> \in Seq(S) /\ Len(<<x, y>>) = 2 /\ <<x, y>>[1] = x /\ <<x, y>>[2] = y
  OBVIOUS
<1>3. ASSUME NEW s \in Seq(S), Len(s) = 1, s[1] = x
      PROVE  /\ Append(s, y) \in Seq(S) /\ Len(Append(s, y)) = 2
             /\ Append(s, y)[1] = x /\ Append(s, y)[2] = y
  <2>1. /\ Append(s, y) \in Seq(S) /\ Len(Append(s, y)) = Len(s) + 1
        /\ Append(s, y)[Len(s) + 1] = y
        /\ \A i \in 1..Len(s) : Append(s, y)[i] = s[i]
    BY AppendProperties
  <2> QED BY <1>3, <2>1
<1>4. ASSUME NEW t \in Seq(S), NEW u \in Seq(S), Len(t) = 2, Len(u) = 2,
             t[1] = u[1], t[2] = u[2]
      PROVE  t = u
  <2>1. \A i \in 1..Len(t) : t[i] = u[i]
    BY <1>4
  <2> QED BY <1>4, <2>1, SeqEqual
<1> QED BY <1>1, <1>2, <1>3, <1>4

(* What happened is never forgotten.                                        *)
LEMMA TruthGrows ==
  ASSUME TypeOK, [Next]_vars
  PROVE  truth.flowed \subseteq truth'.flowed /\ (truth.reported => truth'.reported)
<1>1. CASE truth' = truth
  BY <1>1
<1>2. CASE Report
  BY <1>2 DEF Report, TypeOK
<1>3. ASSUME NEW s \in Streams, Traffic(s)
      PROVE  truth.flowed \subseteq truth'.flowed /\ (truth.reported => truth'.reported)
  BY <1>3 DEF Traffic, TypeOK
<1>4. CASE Observe
  BY <1>4, ObserveEffect DEF Witness
<1> QED
  BY <1>1, <1>2, <1>3, <1>4
  DEF Next, Environment, Tick, StreamAppears, StreamRestarts, StreamGone,
      Handler, OfferIds, OfferRecord, Connected, Notify, Task, TakeSample, SampleFails,
      Loop, BuildFails, Built, Establish, EndBeforeEstablish, End, Disconnected,
      Snapshot, WriteRow, Over, vars

(* The row is made from a copy for which all of this held.                  *)
LEMMA RowStep ==
  ASSUME TypeOK, OrderInv, TruthInv, ObserverInv, RowInv, [Next]_vars
  PROVE  RowInv'
<1> USE DEF RowInv
<1>1. CASE UNCHANGED <<cpc, ending, row, control, ids, settings, established>>
  <2>1. /\ truth.flowed \subseteq truth'.flowed /\ (truth.reported => truth'.reported)
    BY TruthGrows
  <2>2. \A i : RowOf(i)' = RowOf(i)
    BY <1>1 DEF RowOf, Judge, IsStalled, Required
  <2> QED BY <1>1, <2>1, <2>2
<1>2. CASE OfferIds
  <2>1. UNCHANGED <<cpc, ending, row, settings, established, truth>>
    BY <1>2 DEF OfferIds, loopVars
  <2>2. cpc \notin {"building", "done"} /\ ~ids /\ ids'
        /\ control' = Append(control, "connection")
    BY <1>2 DEF OfferIds, Ongoing, TypeOK
  <2>3. row = None /\ control = <<>>
    BY <2>2, Zenon
  <2>4. control' = <<"connection">>
    BY <2>2, <2>3, AppendEmpty
  <2> QED BY <2>1, <2>2, <2>3, <2>4
<1>3. CASE BuildFails \/ Built \/ Establish \/ EndBeforeEstablish \/ End \/ Disconnected
  <2>1. cpc \notin {"writing", "done"} /\ cpc' \notin {"writing", "done"}
    BY <1>3 DEF BuildFails, Built, Establish, EndBeforeEstablish, End, Disconnected, Finish
  <2>2. UNCHANGED <<row, control, ids>>
    BY <1>3 DEF BuildFails, Built, Establish, EndBeforeEstablish, End, Disconnected,
                handlerVars
  <2> QED BY <2>1, <2>2
<1>4. CASE Snapshot
  <2>1. /\ cpc = "ending" /\ cpc' = "writing" /\ ending'.life = life
        /\ UNCHANGED <<row, control, ids, truth, established>>
    BY <1>4 DEF Snapshot, handlerVars, TypeOK
  <2> QED BY <2>1 DEF OrderInv, TruthInv, ObserverInv
<1>5. CASE WriteRow
  <2>1. /\ cpc = "writing" /\ cpc' = "done" /\ row' = RowOf(ids)
        /\ control' = Append(control, "lifecycle")
        /\ UNCHANGED <<ending, ids, truth, established, settings>>
    BY <1>5 DEF WriteRow, handlerVars
  <2>2. RowOf(ids)' = RowOf(ids)
    BY <2>1 DEF RowOf, Judge, IsStalled, Required
  <2>3. ids \in BOOLEAN /\ row'.ids = ids
    BY <2>1 DEF RowOf, TypeOK
  <2>4. \A i : RowOf(i)' = RowOf(i)
    BY <2>1 DEF RowOf, Judge, IsStalled, Required
  <2>5. ids => control' = <<"connection", "lifecycle">>
    <3>1. ids => control = <<"connection">>
      BY <2>1, Zenon
    <3>2. Append(<<"connection">>, "lifecycle") = <<"connection", "lifecycle">>
      <4>1. "connection" \in {"connection", "lifecycle"} /\ "lifecycle" \in {"connection", "lifecycle"}
        OBVIOUS
      <4> QED BY <4>1, AppendOne
    <3> QED BY <2>1, <3>1, <3>2
  <2> HIDE DEF RowOf
  <2>6. \E i \in BOOLEAN : row' = RowOf(i)' /\ (ending.life.offer \/ ending.life.samples > 0 => i)
    BY <2>1, <2>3, <2>4
  <2> QED BY <2>1, <2>3, <2>5, <2>6
<1> QED
  BY <1>1, <1>2, <1>3, <1>4, <1>5
  DEF Next, Environment, Tick, Report, StreamAppears, Traffic, StreamRestarts, StreamGone,
      Handler, OfferRecord, Connected, Notify, Task, TakeSample, SampleFails, Observe,
      Loop, Over, vars, handlerVars, loopVars

-----------------------------------------------------------------------------
(* The theorems.                                                           *)

LEMMA InvHolds == Spec => []IInv
<1>1. Init => IInv
  BY InitType, InitInv DEF IInv
<1>2. IInv /\ [Next]_vars => IInv'
  BY TypeStep, OrderStep, TruthStep, ObserverStep, RowStep DEF IInv
<1> QED BY <1>1, <1>2, PTL DEF Spec

(* Every variable keeps its type and every idle sample is a sample counted. *)
THEOREM TypeCorrect == Spec => []TypeOK
<1>1. IInv => TypeOK
  BY DEF IInv
<1> QED BY <1>1, InvHolds, PTL

(* The observer neither misses nor invents media, however streams come, go  *)
(* and restart (MediaObserver::observe).                                    *)
THEOREM ObserverExact == Spec => []FirstSeenExact
<1>1. IInv => FirstSeenExact
  BY DEF IInv, ObserverInv, FirstSeenExact
<1> QED BY <1>1, InvHolds, PTL

(* A row that says success is about a connection that was established,      *)
(* whose media flowed, whose delivery was reported and whose end was wanted *)
(* (ConnectionLifecycle::judge).                                            *)
THEOREM SuccessEarned == Spec => []SuccessIsEarned
<1>1. IInv => SuccessIsEarned
  <2> SUFFICES ASSUME IInv, Written, row.outcome = "success"
               PROVE  /\ ending.life.webrtcAt # None /\ row.samples > 0
                      /\ Required("send") \cup Required("recv") \subseteq truth.flowed
                      /\ settings.send => truth.reported
                      /\ row.end \notin {"BuildFailed", "Unexpected"}
    BY DEF SuccessIsEarned
  <2>1. cpc = "done"
    BY DEF Written, IInv, RowInv
  <2>2. PICK i \in BOOLEAN : row = RowOf(i)
    BY <2>1 DEF IInv, RowInv
  <2> DEFINE l == ending.life
  <2>3. /\ Judge(l, ending.end, ending.at)[1] = "success"
        /\ row.samples = l.samples /\ row.end = ending.end
    BY <2>2 DEF RowOf
  <2>4. /\ l.webrtcAt # None /\ l.samples # 0
        /\ Required("send") \subseteq l.media /\ Required("recv") \subseteq l.media
        /\ settings.send => l.report
        /\ ending.end # "BuildFailed" /\ ending.end # "Unexpected"
    BY <2>3, JudgeSuccess
  <2>5. l.media \subseteq truth.flowed /\ (l.report => truth.reported)
    BY <2>1 DEF IInv, RowInv
  <2>6. l.samples \in Nat
    BY DEF IInv, TypeOK, Lives
  <2> QED BY <2>3, <2>4, <2>5, <2>6
<1> QED BY <1>1, InvHolds, PTL

(* A client announced as connected is never recorded as one that could not  *)
(* connect (the handler records before it notifies).                        *)
THEOREM AnnouncedRecorded == Spec => []AnnouncedIsRecorded
<1>1. IInv => AnnouncedIsRecorded
  <2> SUFFICES ASSUME IInv, Written, established
               PROVE  row.reason \notin {"connect-failed", "build-failed"}
    BY DEF AnnouncedIsRecorded
  <2>1. cpc = "done"
    BY DEF Written, IInv, RowInv
  <2>2. PICK i \in BOOLEAN : row = RowOf(i)
    BY <2>1 DEF IInv, RowInv
  <2>3. ending.life.webrtcAt # None /\ ending.end # "BuildFailed"
    BY <2>1 DEF IInv, RowInv, OrderInv
  <2>4. Judge(ending.life, ending.end, ending.at)[2] \notin {"connect-failed", "build-failed"}
    BY <2>3, JudgeConnected
  <2> QED BY <2>2, <2>4 DEF RowOf
<1> QED BY <1>1, InvHolds, PTL

(* A lifecycle row that has seen the offer or a sample can be joined with   *)
(* the connection row that was sent before it (the identifiers are          *)
(* published before the offer is recorded).                                 *)
THEOREM RowsJoinable == Spec => []OfferedRowsAreJoinable
<1>1. IInv => OfferedRowsAreJoinable
  <2> SUFFICES ASSUME IInv, Written, row.offer \/ row.samples > 0
               PROVE  row.ids /\ control = <<"connection", "lifecycle">>
    BY DEF OfferedRowsAreJoinable
  <2>1. cpc = "done"
    BY DEF Written, IInv, RowInv
  <2>2. PICK i \in BOOLEAN : row = RowOf(i) /\ (ending.life.offer \/ ending.life.samples > 0 => i)
    BY <2>1 DEF IInv, RowInv
  <2>3. row.ids = i /\ row.offer = ending.life.offer /\ row.samples = ending.life.samples
    BY <2>2 DEF RowOf
  <2>4. row.ids
    BY <2>2, <2>3
  <2> QED BY <2>1, <2>4 DEF IInv, RowInv
<1> QED BY <1>1, InvHolds, PTL

(* No stall that samples showed before the row was written is left out of   *)
(* it (on_sample_activity, is_stalled).                                     *)
THEOREM StallsReported == Spec => []EveryStallIsReported
<1>1. IInv => EveryStallIsReported
  <2> SUFFICES ASSUME IInv, Written, ending.life = life, truth.maxIdle >= StallSamples
               PROVE  row.stalled
    BY DEF EveryStallIsReported
  <2>1. cpc = "done"
    BY DEF Written, IInv, RowInv
  <2>2. PICK i \in BOOLEAN : row = RowOf(i)
    BY <2>1 DEF IInv, RowInv
  <2>3. life.maxIdle \in Nat /\ truth.maxIdle \in Nat
    BY DEF IInv, TypeOK, Lives
  <2>4. life.active /\ life.maxIdle >= StallSamples
    BY <2>3, TimeAssumption DEF IInv, ObserverInv
  <2> QED BY <2>2, <2>4 DEF RowOf, IsStalled
<1> QED BY <1>1, InvHolds, PTL

(* Whatever the three tasks interleave, the row that is written is true.    *)
THEOREM RowTruthful == Spec => []RowIsTruthful
BY SuccessEarned, AnnouncedRecorded, RowsJoinable, StallsReported, PTL DEF RowIsTruthful

===============================================================================
