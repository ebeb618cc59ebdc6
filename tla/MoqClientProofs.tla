---------------------------- MODULE MoqClientProofs ----------------------------
(***************************************************************************)
(* Theorems about MoqClient and the session it polls, for any tracks, any  *)
(* URIs in a GOAWAY and any limit of retries; and about what a session     *)
(* publishes and reads (MoqMedia), for groups and channels of any size and *)
(* any number of failures, of periods behind and of groups.                *)
(***************************************************************************)
EXTENDS MoqClient, MoqMedia, TotalsProofs, SequenceTheorems

-----------------------------------------------------------------------------
(* The inductive invariant.                                                 *)

Answers == {"none", "ok", "error", "over"}

(* What a session owns.                                                     *)
SessionTypes ==
  /\ cancelled \in BOOLEAN /\ released \in BOOLEAN
  /\ spc \in Turns /\ result \in Results
  /\ established \in BOOLEAN /\ reason \in BOOLEAN /\ refused \in BOOLEAN
  /\ goaway \in Targets \cup {NoGoaway}
  /\ requested \subseteq Requests /\ accepted \subseteq requested
  /\ control \in Seq(ControlMessages)
  /\ inbox \in [Requests -> Seq(Answers)]
  /\ answer \in [Requests -> Answers]

(* The relay answers what was asked; a session that is about to subscribe   *)
(* has asked for all its PUBLISHes, and one that subscribes has them        *)
(* accepted.                                                                *)
AskedFirst ==
  /\ \A r \in Requests : inbox[r] # <<>> => r \in requested
  /\ spc = "subscribe" => Tracks \subseteq requested
  /\ spc = "subscribing" => Tracks \subseteq accepted

(* The turns in which a session waits, its select! and the awaited calls.   *)
Waits == {"opening", "setup", "select", "sending", "answering", "publishing",
          "subscribing"}

(* A GOAWAY is followed in the turn that read it: a session does not wait   *)
(* with one it should follow, and does not return with one for another      *)
(* reason.                                                                  *)
GoawayTaken ==
  /\ result = "migrated" => goaway # NoGoaway
  /\ spc \in Waits =>
       goaway = NoGoaway \/ ~MigrateOnGoaway \/ Cancelled
  /\ spc = "done" /\ goaway # NoGoaway /\ MigrateOnGoaway =>
       result = "migrated" \/ Cancelled

SessionInv ==
  /\ SessionTypes /\ AskedFirst /\ GoawayTaken
  /\ GoawayNeverRefused /\ SubscribeAfterPublish

(* What the client owns.  The collector's history counts what retry_count   *)
(* counts.                                                                  *)
ClientTypes ==
  /\ cpc \in Stages /\ asked \in Targets \cup {NoGoaway}
  /\ endpoint \in Targets \cup {Home}
  /\ retry \in 0..(MaxRetry + 1) /\ failures = retry
  /\ live \in BOOLEAN /\ finished \in BOOLEAN /\ byDuration \in BOOLEAN
  /\ sent \in {"nothing", "Connected", "Disconnected", "Retrying", "Stopped"}

(* The stages in which a session's result is at hand or awaited.            *)
Over == {"closing", "waited", "closed"}

(* Where the session is while the client is at one of its stages.           *)
StageInv ==
  /\ cpc \notin {"establish", "running", "closing", "waited"} => spc = "idle"
  /\ cpc \in {"establish", "running"} => spc \notin {"idle", "done"} /\ ~finished
  /\ cpc = "closing" => spc # "idle" /\ (~finished => spc # "done")
  /\ released => cpc \in {"closing", "waited"}
  /\ cpc \notin {"stopping", "stopped"} => retry <= MaxRetry

(* The last event tells whether the client counts as connected.             *)
EventInv ==
  /\ live <=> sent = "Connected"
  /\ live => cpc \in {"running"} \cup Over
  /\ sent = "Stopped" <=> cpc = "stopped"

(* Why a session ended, for as long as the client decides by it.            *)
EndInv ==
  /\ cpc \in {"establish", "running"} \cup Over => asked = goaway
  /\ cpc \in Over /\ ~finished => cancelled \/ byDuration
  /\ cpc \in Over /\ finished /\ goaway # NoGoaway /\ MigrateOnGoaway =>
       result = "migrated" \/ cancelled
  /\ cpc \in {"retryWait", "repeatWait"} =>
       asked = NoGoaway \/ ~MigrateOnGoaway \/ byDuration
  /\ cpc \in {"stopping", "stopped"} =>
       \/ cancelled
       \/ failures = MaxRetry + 1
       \/ byDuration /\ ~Repeats
       \/ asked \in BadUris

ClientInv == ClientTypes /\ StageInv /\ EventInv /\ EndInv /\ GoawayFollowed

IInv == SessionInv /\ ClientInv

LEMMA InitInv == Init => IInv
<1> SUFFICES ASSUME Init PROVE IInv
  OBVIOUS
<1> USE SessionAssumption, ClientAssumption DEF Init, SessionInit
<1>1. SessionInv
  <2>1. SessionTypes
    <3>1. <<>> \in Seq(ControlMessages) /\ <<>> \in Seq(Answers)
      BY EmptySeq
    <3>2. inbox \in [Requests -> Seq(Answers)]
      BY <3>1, Zenon
    <3>3. answer \in [Requests -> Answers]
      BY DEF Answers
    <3> QED BY <3>1, <3>2, <3>3 DEF SessionTypes, Turns, Results
  <2>2. AskedFirst /\ GoawayTaken
    BY DEF AskedFirst, GoawayTaken
  <2> QED BY <2>1, <2>2 DEF SessionInv, GoawayNeverRefused, SubscribeAfterPublish
<1>2. ClientInv
  <2>1. ClientTypes
    <3>1. retry \in 0..(MaxRetry + 1) /\ failures = retry
      BY MaxRetry \in Nat DEF ClientAssumption
    <3>2. cpc \in Stages /\ asked \in Targets \cup {NoGoaway} /\ endpoint \in Targets \cup {Home}
      BY DEF Stages
    <3>3. sent \in {"nothing", "Connected", "Disconnected", "Retrying", "Stopped"}
      OBVIOUS
    <3> QED BY <3>1, <3>2, <3>3 DEF ClientTypes
  <2>2. StageInv
    BY DEF StageInv
  <2>3. EventInv /\ EndInv /\ GoawayFollowed
    BY DEF EventInv, EndInv, GoawayFollowed, Over
  <2> QED BY <2>1, <2>2, <2>3 DEF ClientInv
<1> QED BY <1>1, <1>2 DEF IInv

-----------------------------------------------------------------------------
(* The session.                                                             *)

(* Reading the control stream: a GOAWAY that is read is one the relay sent, *)
(* and one that was read stays.                                             *)
LEMMA ControlTaken ==
  ASSUME SessionTypes, NEW n \in 0..Len(control), TakeControl(n)
  PROVE  /\ established' \in BOOLEAN /\ control' \in Seq(ControlMessages)
         /\ goaway' \in Targets \cup {NoGoaway}
         /\ goaway # NoGoaway => goaway' # NoGoaway
<1> DEFINE batch == {control[i] : i \in 1..n}
<1>1. /\ established' = (established \/ Setup \in batch)
      /\ goaway' = IF batch \subseteq {Setup} THEN goaway
                   ELSE CHOOSE u \in batch : u # Setup
      /\ control' = SubSeq(control, n + 1, Len(control))
  BY DEF TakeControl
<1>2. control \in Seq(ControlMessages) /\ Len(control) \in Nat
  BY LenProperties DEF SessionTypes
<1>3. batch \subseteq ControlMessages
  BY <1>2, ElementOfSeq
<1>4. control' \in Seq(ControlMessages)
  BY <1>1, <1>2, SubSeqProperties
<1> HIDE DEF batch
<1>5. CASE batch \subseteq {Setup}
  BY <1>1, <1>4, <1>5 DEF SessionTypes
<1>6. CASE ~(batch \subseteq {Setup})
  <2>1. \E u \in batch : u # Setup
    BY <1>6
  <2>2. goaway' \in batch /\ goaway' # Setup
    BY <1>1, <1>6, <2>1
  <2>3. goaway' \in Targets
    BY <1>3, <2>2 DEF ControlMessages
  <2> QED BY <1>1, <1>4, <2>3, SessionAssumption DEF SessionTypes
<1> QED BY <1>5, <1>6

(* Steps that read or change no request, and leave the GOAWAY and what the  *)
(* relay sent alone.                                                        *)
LEMMA QuietStep ==
  ASSUME SessionInv, UNCHANGED tokens,
         UNCHANGED <<established, goaway, requested, accepted, refused, relayVars>>,
         reason' \in BOOLEAN, spc' \in Turns \ {"idle", "subscribe", "subscribing"},
         \/ result' = result /\ spc' # "done"
            /\ (spc' \in Waits =>
                  goaway = NoGoaway \/ ~MigrateOnGoaway \/ Cancelled)
         \/ spc' = "done" /\ result' \in {"failed", "closed"}
            /\ (goaway = NoGoaway \/ ~MigrateOnGoaway \/ Cancelled)
         \/ spc' = "done" /\ result' = "migrated" /\ goaway # NoGoaway
  PROVE  SessionInv'
BY DEF SessionInv, SessionTypes, AskedFirst, GoawayTaken, Waits, GoawayNeverRefused,
   SubscribeAfterPublish, Cancelled, tokens, relayVars, Results, Turns

(* The waits before the loop, its top, and the branches that read nothing.  *)
LEMMA WaitStep ==
  ASSUME SessionInv, UNCHANGED tokens,
         OpenControl \/ SetupFails \/ Top \/ SelectCancelled \/ EstablishExpires \/ Tick
           \/ TickExpires \/ SendObject \/ (\E t \in Tracks : AnswerUpdate(t)) \/ SendEnds
           \/ TransportEnds
  PROVE  SessionInv' /\ spc' # "idle"
<1> USE SessionAssumption DEF Goto, Return, relayVars
<1>1. /\ UNCHANGED <<established, goaway, requested, accepted, refused, relayVars>>
      /\ reason' \in BOOLEAN /\ spc' \in Turns \ {"idle", "subscribe", "subscribing"}
  BY DEF SessionInv, SessionTypes, OpenControl, SetupFails, Top, SelectCancelled,
     EstablishExpires, Tick, TickExpires, SendObject, AnswerUpdate, SendEnds, TransportEnds,
     Turns
<1>2. GoawayTaken
  BY DEF SessionInv
<1>3. CASE OpenControl \/ SetupFails
  BY <1>1, <1>2, <1>3, QuietStep DEF OpenControl, SetupFails, GoawayTaken, Waits
<1>4. CASE Top
  BY <1>1, <1>4, QuietStep DEF Top, ShouldMigrate, SessionInv, SessionTypes, Waits
<1>5. CASE SelectCancelled \/ Tick \/ TickExpires
  BY <1>1, <1>5, QuietStep DEF SelectCancelled, Tick, TickExpires, Waits
<1>6. CASE EstablishExpires
  BY <1>1, <1>2, <1>6, QuietStep DEF EstablishExpires, GoawayTaken, Waits
<1>7. CASE SendObject \/ \E t \in Tracks : AnswerUpdate(t)
  BY <1>1, <1>2, <1>7, QuietStep DEF SendObject, AnswerUpdate, GoawayTaken, Waits
<1>8. CASE SendEnds
  BY <1>1, <1>2, <1>8, QuietStep DEF SendEnds, GoawayTaken, Waits
<1>9. CASE TransportEnds
  BY <1>1, <1>2, <1>9, QuietStep DEF TransportEnds, GoawayTaken, Waits
<1> QED BY <1>3, <1>4, <1>5, <1>6, <1>7, <1>8, <1>9

(* The peer's control stream, when it arrives and later.                    *)
LEMMA ControlStep ==
  ASSUME SessionInv, UNCHANGED tokens, AcceptControl \/ ReadControl
  PROVE  SessionInv' /\ spc' # "idle"
<1>1. /\ spc' \in {"top", "tail"} /\ result' = result
      /\ UNCHANGED <<reason, requested, accepted, refused, inbox, answer>>
      /\ \E n \in 0..Len(control) : TakeControl(n)
  BY DEF AcceptControl, ReadControl, Goto
<1>2. /\ established' \in BOOLEAN /\ control' \in Seq(ControlMessages)
      /\ goaway' \in Targets \cup {NoGoaway}
      /\ goaway # NoGoaway => goaway' # NoGoaway
  BY <1>1, ControlTaken DEF SessionInv
<1> QED BY <1>1, <1>2 DEF SessionInv, SessionTypes, AskedFirst, GoawayTaken, Waits,
        GoawayNeverRefused, SubscribeAfterPublish, Cancelled, tokens, Turns

(* A message of a request stream is of a request that was sent.             *)
LEMMA RequestRead ==
  ASSUME SessionInv, UNCHANGED tokens, NEW r \in Requests, ReadRequest(r)
  PROVE  SessionInv' /\ spc' # "idle"
<1> DEFINE m == Head(inbox[r])
<1>1. /\ inbox[r] # <<>> /\ spc' = "tail" /\ result' = result
      /\ accepted' = IF m = "ok" THEN accepted \cup {r} ELSE accepted
      /\ reason' = (reason \/ m \in {"error", "over"})
      /\ inbox' = [inbox EXCEPT ![r] = Tail(inbox[r])]
      /\ UNCHANGED <<established, goaway, requested, refused, control, answer>>
  BY DEF ReadRequest, Goto
<1> HIDE DEF m
<1>2. r \in requested /\ inbox \in [Requests -> Seq(Answers)]
  BY <1>1 DEF SessionInv, AskedFirst, SessionTypes
<1>3. Tail(inbox[r]) \in Seq(Answers)
  BY <1>1, <1>2, HeadTailProperties
<1>4. /\ inbox' \in [Requests -> Seq(Answers)]
      /\ \A q \in Requests : inbox'[q] # <<>> => q \in requested
  BY <1>1, <1>2, <1>3 DEF SessionInv, AskedFirst
<1>5. accepted \subseteq accepted' /\ accepted' \subseteq requested /\ reason' \in BOOLEAN
  BY <1>1, <1>2 DEF SessionInv, SessionTypes
<1> QED BY <1>1, <1>4, <1>5 DEF SessionInv, SessionTypes, AskedFirst, GoawayTaken, Waits,
        GoawayNeverRefused, SubscribeAfterPublish, Cancelled, tokens, Turns

(* send_publish and send_subscribe.  The library refuses a request only     *)
(* with a GOAWAY at hand, and both callers look at it first.                *)
LEMMA RequestStep ==
  ASSUME SessionInv, UNCHANGED tokens, Publish \/ Subscribe
  PROVE  SessionInv' /\ spc' # "idle"
<1> USE DEF tokens, relayVars, Goto, Return, Turns, Results
<1>1. UNCHANGED <<established, goaway, reason, requested, accepted, control, inbox, answer>>
  BY DEF Publish, Subscribe, SendRequests
<1>2. Cancelled' = Cancelled
  BY DEF Cancelled
<1>3. CASE UNCHANGED refused /\ result' = result /\ spc' \in {"shutdown", "end"}
  BY <1>1, <1>3, QuietStep DEF SessionInv, SessionTypes, Waits
<1>4. ASSUME ~ShouldMigrate,
             \/ SendRequests(Tracks, "publishing", "subscribe")
             \/ SendRequests(Subscribed, "subscribing", "end") /\ Tracks \subseteq accepted
      PROVE  SessionInv' /\ spc' # "idle"
  <2>1. /\ refused' \in BOOLEAN /\ (refused' => refused \/ goaway # NoGoaway)
        /\ \/ spc' \in {"publishing", "end"} /\ result' = result
           \/ spc' = "subscribe" /\ result' = result /\ Tracks \subseteq requested
           \/ spc' = "subscribing" /\ result' = result /\ Tracks \subseteq accepted
           \/ spc' = "done" /\ result' = "failed"
    BY <1>4 DEF SendRequests, SessionInv, SessionTypes
  <2>2. goaway = NoGoaway \/ ~MigrateOnGoaway \/ Cancelled
    BY <1>4 DEF ShouldMigrate
  <2>3. SessionTypes'
    BY <1>1, <2>1 DEF SessionInv, SessionTypes
  <2>4. AskedFirst'
    BY <1>1, <2>1 DEF SessionInv, AskedFirst
  <2>5. GoawayTaken'
    BY <1>1, <1>2, <2>1, <2>2 DEF SessionInv, GoawayTaken
  <2>6. GoawayNeverRefused'
    BY <1>1, <1>2, <2>1, <2>2 DEF SessionInv, GoawayNeverRefused
  <2>7. SubscribeAfterPublish' /\ spc' # "idle"
    BY <1>1, <2>1 DEF SessionInv, SubscribeAfterPublish
  <2> QED BY <2>3, <2>4, <2>5, <2>6, <2>7 DEF SessionInv
<1>5. CASE Publish
  <2>1. \/ UNCHANGED refused /\ result' = result /\ spc' \in {"shutdown", "end"}
        \/ SendRequests(Tracks, "publishing", "subscribe") /\ ~ShouldMigrate
    BY <1>5 DEF Publish
  <2> QED BY <1>3, <1>4, <2>1
<1>6. CASE Subscribe
  <2>1. \/ UNCHANGED refused /\ result' = result /\ spc' \in {"shutdown", "end"}
        \/ SendRequests(Subscribed, "subscribing", "end") /\ ~ShouldMigrate
           /\ Tracks \subseteq accepted
    BY <1>6 DEF Subscribe, PublishersReady, SessionInv, AskedFirst
  <2> QED BY <1>3, <1>4, <2>1
<1> QED BY <1>5, <1>6

(* The drain, one request after the other.  No GOAWAY is read meanwhile.    *)
LEMMA DrainStep ==
  ASSUME SessionInv, UNCHANGED tokens, DrainRequests
  PROVE  SessionInv' /\ spc' # "idle"
<1> USE DEF tokens, relayVars, Goto, Return, Turns, Results, Requests
<1>1. /\ UNCHANGED <<established, goaway, reason, accepted, refused, control, inbox, answer>>
      /\ spc \in {"publishing", "subscribing"}
  BY DEF DrainRequests, Drain
<1>2. Cancelled' = Cancelled
  BY DEF Cancelled
<1>3. goaway = NoGoaway \/ ~MigrateOnGoaway \/ Cancelled
  BY <1>1 DEF SessionInv, GoawayTaken, Waits
<1>4. /\ requested \subseteq requested' /\ requested' \subseteq Requests
      /\ requested' \cap Subscribed # {} => Tracks \subseteq accepted
  <2>1. SubscribeAfterPublish /\ AskedFirst /\ requested \subseteq Requests
    BY DEF SessionInv, SessionTypes
  <2>2. CASE requested' = requested
    BY <2>1, <2>2 DEF SubscribeAfterPublish
  <2>3. CASE \E t \in Tracks : requested' = requested \cup {t}
    BY <2>1, <2>3, SessionAssumption DEF SubscribeAfterPublish
  <2>4. CASE spc = "subscribing" /\ \E r \in Subscribed : requested' = requested \cup {r}
    BY <2>1, <2>4 DEF AskedFirst
  <2> QED BY <2>2, <2>3, <2>4 DEF DrainRequests, Drain
<1>5. \/ spc' \in {"publishing", "end"} /\ result' = result
      \/ spc' = "subscribe" /\ result' = result /\ Tracks \subseteq requested'
      \/ spc' = "subscribing" /\ result' = result /\ Tracks \subseteq accepted
      \/ spc' = "done" /\ result' = "failed"
  BY DEF DrainRequests, Drain, SessionInv, AskedFirst
<1>6. SessionTypes'
  BY <1>1, <1>4, <1>5 DEF SessionInv, SessionTypes
<1>7. AskedFirst'
  BY <1>1, <1>4, <1>5 DEF SessionInv, AskedFirst
<1>8. GoawayTaken'
  BY <1>1, <1>2, <1>3, <1>5 DEF SessionInv, GoawayTaken
<1>9. GoawayNeverRefused' /\ SubscribeAfterPublish' /\ spc' # "idle"
  BY <1>1, <1>2, <1>4, <1>5 DEF SessionInv, GoawayNeverRefused, SubscribeAfterPublish
<1> QED BY <1>6, <1>7, <1>8, <1>9 DEF SessionInv

(* The end of a turn and of a session.                                      *)
LEMMA EndStep ==
  ASSUME SessionInv, UNCHANGED tokens, EndTurn \/ Shutdown
  PROVE  SessionInv' /\ spc' # "idle"
<1> USE DEF Goto, Return, Turns
<1>1. CASE EndTurn
  BY <1>1, QuietStep DEF EndTurn, ShouldMigrate, SessionInv, SessionTypes, Waits
<1>2. CASE Shutdown
  BY <1>2, QuietStep DEF Shutdown, ShouldMigrate, SessionInv, SessionTypes
<1> QED BY <1>1, <1>2

LEMMA SessionStep ==
  ASSUME SessionInv, UNCHANGED tokens, Session \/ Granted
  PROVE  SessionInv' /\ spc' # "idle"
<1>1. CASE AcceptControl \/ ReadControl
  BY <1>1, ControlStep
<1>2. CASE \E r \in Requests : ReadRequest(r)
  BY <1>2, RequestRead
<1>3. CASE Publish \/ Subscribe
  BY <1>3, RequestStep
<1>4. CASE EndTurn \/ Shutdown
  BY <1>4, EndStep
<1>5. CASE DrainRequests
  BY <1>5, DrainStep
<1> QED BY <1>1, <1>2, <1>3, <1>4, <1>5, WaitStep DEF Session, Select, Granted

(* The relay.                                                               *)
LEMMA RelayStep ==
  ASSUME SessionInv, UNCHANGED tokens, Relay
  PROVE  SessionInv' /\ UNCHANGED sessionVars
<1> USE DEF tokens, sessionVars
<1>1. CASE RelaySetup \/ \E u \in Targets : RelayGoaway(u)
  <2>1. UNCHANGED <<sessionVars, inbox, answer>>
        /\ control' \in {<<Setup>>} \cup {Append(control, u) : u \in Targets}
    BY <1>1 DEF RelaySetup, RelayGoaway
  <2>2. Setup \in ControlMessages /\ Targets \subseteq ControlMessages
        /\ control \in Seq(ControlMessages)
    BY DEF ControlMessages, SessionInv, SessionTypes
  <2>3. control' \in Seq(ControlMessages)
    <3>1. <<Setup>> \in Seq(ControlMessages)
      BY <2>2
    <3>2. \A u \in Targets : Append(control, u) \in Seq(ControlMessages)
      BY <2>2, AppendProperties
    <3> QED BY <2>1, <3>1, <3>2
  <2> QED BY <2>1, <2>3 DEF SessionInv, SessionTypes, AskedFirst, GoawayTaken,
          GoawayNeverRefused, SubscribeAfterPublish, Cancelled
<1>2. ASSUME NEW r \in Requests, NEW m \in {"ok", "error", "over"}, RelayAnswers(r, m)
      PROVE  SessionInv' /\ UNCHANGED sessionVars
  <2>1. /\ r \in requested /\ answer' = [answer EXCEPT ![r] = m]
        /\ inbox' = [inbox EXCEPT ![r] = Append(inbox[r], m)]
        /\ UNCHANGED <<sessionVars, control>>
    BY <1>2 DEF RelayAnswers
  <2>2. inbox \in [Requests -> Seq(Answers)] /\ answer \in [Requests -> Answers] /\ m \in Answers
    BY DEF SessionInv, SessionTypes, Answers
  <2>3. Append(inbox[r], m) \in Seq(Answers)
    BY <2>2, AppendProperties
  <2>4. inbox' \in [Requests -> Seq(Answers)] /\ answer' \in [Requests -> Answers]
        /\ \A q \in Requests : q # r => inbox'[q] = inbox[q]
    BY <2>1, <2>2, <2>3
  <2> QED BY <2>1, <2>4 DEF SessionInv, SessionTypes, AskedFirst, GoawayTaken,
          GoawayNeverRefused, SubscribeAfterPublish, Cancelled
<1> QED BY <1>1, <1>2 DEF Relay

-----------------------------------------------------------------------------
(* The client.                                                              *)

(* A session is set up anew, or dropped with what it owned.                 *)
LEMMA VacantSession ==
  ASSUME SessionInv, Vacant, cancelled' = cancelled, released' \in BOOLEAN,
         \/ spc' = "opening" /\ goaway' = NoGoaway /\ result' = "none"
         \/ spc' = "idle" /\ UNCHANGED <<goaway, result>>
  PROVE  SessionInv'
<1> USE SessionAssumption DEF Vacant, Turns, Results
<1>1. <<>> \in Seq(ControlMessages) /\ <<>> \in Seq(Answers)
  BY EmptySeq
<1>2. inbox' = [r \in Requests |-> <<>>] /\ answer' = [r \in Requests |-> "none"]
  OBVIOUS
<1>3. inbox' \in [Requests -> Seq(Answers)]
  BY <1>1, <1>2, Zenon
<1>4. answer' \in [Requests -> Answers]
  BY <1>2 DEF Answers
<1>5. SessionTypes'
  BY <1>1, <1>3, <1>4 DEF SessionInv, SessionTypes
<1>6. AskedFirst'
  BY <1>2 DEF AskedFirst
<1>7. GoawayTaken'
  BY DEF GoawayTaken, Waits, SessionInv
<1>8. GoawayNeverRefused' /\ SubscribeAfterPublish'
  BY DEF GoawayNeverRefused, SubscribeAfterPublish
<1> QED BY <1>5, <1>6, <1>7, <1>8 DEF SessionInv

(* A step of the client's own leaves the session alone.                     *)
LEMMA SessionKept ==
  ASSUME SessionInv, UNCHANGED <<sessionVars, relayVars>>,
         cancelled' \in BOOLEAN, released' \in BOOLEAN, Cancelled => Cancelled'
  PROVE  SessionInv'
BY DEF SessionInv, SessionTypes, AskedFirst, GoawayTaken, GoawayNeverRefused,
   SubscribeAfterPublish, sessionVars, relayVars

(* A counted failure: the client retries, or has counted MaxRetry + 1.      *)
LEMMA FailureCounted ==
  ASSUME ClientTypes, retry <= MaxRetry, CountFailure
  PROVE  /\ retry' \in 0..(MaxRetry + 1) /\ failures' = retry'
         /\ \/ cpc' = "stopping" /\ sent' = sent /\ failures' = MaxRetry + 1
            \/ cpc' = "retryWait" /\ sent' = "Retrying" /\ retry' <= MaxRetry
BY ClientAssumption DEF ClientTypes, CountFailure

(* Connecting.                                                              *)
LEMMA ConnectStep ==
  ASSUME IInv, ConnectCancelled \/ Connect \/ ConnectFails
  PROVE  IInv'
<1> USE DEF IInv, tokens, sessionVars, relayVars
<1>1. cpc = "connect" /\ ~released /\ ~live /\ sent # "Stopped" /\ retry <= MaxRetry
  BY DEF ConnectCancelled, Connect, ConnectFails, ClientInv, ClientTypes, StageInv, EventInv, Over,
     SessionInv, SessionTypes
<1>2. CASE ConnectCancelled
  <2>1. SessionInv'
    BY <1>2, SessionKept DEF ConnectCancelled, Cancelled, SessionInv, SessionTypes
  <2>2. ClientInv'
    BY <1>1, <1>2 DEF ConnectCancelled, ClientInv, ClientTypes, StageInv, EventInv, EndInv,
       GoawayFollowed, Stages, Over
  <2> QED BY <2>1, <2>2
<1>3. CASE Connect
  <2>1. SessionInv'
    BY <1>1, <1>3, VacantSession DEF Connect, SessionInv, SessionTypes
  <2>2. ClientInv'
    BY <1>1, <1>3 DEF Connect, ClientInv, ClientTypes, StageInv, EventInv, EndInv,
       GoawayFollowed, Stages, Over
  <2> QED BY <2>1, <2>2
<1>4. CASE ConnectFails
  <2>1. SessionInv'
    BY <1>4, SessionKept DEF ConnectFails, Cancelled, SessionInv, SessionTypes
  <2>2. /\ retry' \in 0..(MaxRetry + 1) /\ failures' = retry'
        /\ \/ cpc' = "stopping" /\ sent' = sent /\ failures' = MaxRetry + 1
           \/ cpc' = "retryWait" /\ sent' = "Retrying" /\ retry' <= MaxRetry
    BY <1>1, <1>4, FailureCounted DEF ConnectFails, ClientInv
  <2>3. ClientInv'
    BY <1>1, <1>4, <2>2 DEF ConnectFails, ClientInv, ClientTypes, StageInv, EventInv, EndInv,
       GoawayFollowed, Stages, Over
  <2> QED BY <2>1, <2>3
<1> QED BY <1>2, <1>3, <1>4

(* The client polls the session, which may return.                          *)
LEMMA PollStep ==
  ASSUME IInv, Poll \/ Resume
  PROVE  IInv'
<1> USE DEF IInv, tokens, clientVars
<1>1. /\ Polls /\ (Session \/ Granted) /\ asked' = goaway' /\ UNCHANGED tokens
      /\ IF spc' = "done" THEN Returned ELSE UNCHANGED clientVars
  BY DEF Poll, Resume, PollOf
<1>2. SessionInv' /\ spc' # "idle"
  BY <1>1, SessionStep
<1>3. goaway' \in Targets \cup {NoGoaway} /\ GoawayTaken'
  BY <1>2 DEF SessionInv, SessionTypes
<1>4. CASE spc' = "done"
  <2>1. /\ cpc' = IF cpc = "closing" THEN "waited" ELSE "closing"
        /\ finished' = (finished \/ cpc # "closing")
        /\ UNCHANGED <<endpoint, retry, live, byDuration, sent, failures, cancelled, released>>
    BY <1>1, <1>4 DEF Returned
  <2>2. CASE cpc = "closing"
    <3>1. cpc' = "waited" /\ ~finished /\ ~finished'
      BY <1>1, <2>1, <2>2 DEF Polls, ClientInv, ClientTypes
    <3>2. ClientTypes' /\ StageInv' /\ EventInv'
      BY <1>1, <1>3, <2>1, <2>2, <3>1 DEF ClientInv, ClientTypes, StageInv, EventInv, Stages, Over
    <3>3. EndInv' /\ GoawayFollowed'
      BY <1>1, <2>1, <2>2, <3>1 DEF ClientInv, EndInv, GoawayFollowed, Over
    <3> QED BY <1>2, <3>2, <3>3 DEF ClientInv
  <2>3. CASE cpc \in {"establish", "running"}
    <3>1. cpc' = "closing" /\ finished' /\ ~released
      BY <2>1, <2>3 DEF ClientInv, StageInv
    <3>2. goaway' # NoGoaway /\ MigrateOnGoaway => result' = "migrated" \/ cancelled
      BY <1>3, <1>4, <2>1, <3>1 DEF GoawayTaken, Cancelled
    <3>3. ClientTypes' /\ StageInv' /\ EventInv'
      BY <1>1, <1>2, <1>3, <2>1, <2>3, <3>1
         DEF ClientInv, ClientTypes, StageInv, EventInv, Stages, Over
    <3>4. EndInv' /\ GoawayFollowed'
      BY <1>1, <2>1, <2>3, <3>1, <3>2 DEF ClientInv, EndInv, GoawayFollowed, Over
    <3> QED BY <1>2, <3>3, <3>4 DEF ClientInv
  <2> QED BY <1>1, <2>2, <2>3 DEF Polls
<1>5. CASE spc' # "done"
  <2>1. UNCHANGED clientVars
    BY <1>1, <1>5
  <2>2. ClientTypes' /\ StageInv' /\ EventInv'
    BY <1>1, <1>2, <1>3, <1>5, <2>1 DEF ClientInv, ClientTypes, StageInv, EventInv, Polls
  <2>3. EndInv' /\ GoawayFollowed'
    BY <1>1, <2>1 DEF ClientInv, EndInv, GoawayFollowed, Over, Polls
  <2> QED BY <1>2, <2>2, <2>3 DEF ClientInv
<1> QED BY <1>4, <1>5

(* Establishment, and what ends a session from outside.                     *)
LEMMA RunStep ==
  ASSUME IInv, Establish \/ Interrupt \/ DurationExpires \/ Release \/ Waited \/ Drop
  PROVE  IInv'
<1> USE DEF IInv, tokens, clientVars
<1>1. CASE Establish \/ Interrupt \/ DurationExpires \/ Waited
  <2>1. UNCHANGED <<cancelled, released, sessionVars, relayVars>>
    BY <1>1 DEF Establish, Interrupt, DurationExpires, Waited
  <2>2. SessionInv'
    BY <2>1, SessionKept DEF Cancelled, SessionInv, SessionTypes
  <2>3. UNCHANGED <<spc, goaway, result, endpoint, retry, finished, failures, asked>>
    BY <1>1, <2>1 DEF Establish, Interrupt, DurationExpires, Waited, sessionVars
  <2>4. CASE Establish
    BY <2>1, <2>2, <2>3, <2>4 DEF Establish, ClientInv, ClientTypes, StageInv, EventInv, EndInv,
       GoawayFollowed, Stages, Over
  <2>5. CASE Interrupt
    BY <2>1, <2>2, <2>3, <2>5 DEF Interrupt, ClientInv, ClientTypes, StageInv, EventInv, EndInv,
       GoawayFollowed, Stages, Over
  <2>6. CASE DurationExpires
    BY <2>1, <2>2, <2>3, <2>6 DEF DurationExpires, ClientInv, ClientTypes, StageInv, EventInv,
       EndInv, GoawayFollowed, Stages, Over
  <2>7. CASE Waited
    BY <2>1, <2>2, <2>3, <2>7 DEF Waited, ClientInv, ClientTypes, StageInv, EventInv, EndInv,
       GoawayFollowed, Stages, Over
  <2> QED BY <1>1, <2>4, <2>5, <2>6, <2>7
<1>2. CASE Release
  <2>1. SessionInv'
    BY <1>2, SessionKept DEF Release, Cancelled, SessionInv, SessionTypes
  <2> QED BY <1>2, <2>1 DEF Release, sessionVars, ClientInv, ClientTypes, StageInv, EventInv,
          EndInv, GoawayFollowed, Stages, Over
<1>3. CASE Drop
  <2>1. SessionInv'
    BY <1>3, VacantSession DEF Drop
  <2> QED BY <1>3, <2>1 DEF Drop, ClientInv, ClientTypes, StageInv, EventInv,
          EndInv, GoawayFollowed, Stages, Over
<1> QED BY <1>1, <1>2, <1>3

(* What follows a session.                                                  *)
LEMMA NextStep ==
  ASSUME IInv, Disconnected \/ Stop \/ Migrate \/ Repeat \/ Retry \/ Wake \/ Stopped
  PROVE  IInv'
<1> USE DEF IInv, tokens, clientVars
<1>1. UNCHANGED <<cancelled, released, sessionVars, relayVars, finished, byDuration, asked>>
  BY DEF Disconnected, Stop, Migrate, Repeat, Retry, Wake, Stopped
<1>2. SessionInv'
  BY <1>1, SessionKept DEF Cancelled, SessionInv, SessionTypes
<1>3. UNCHANGED <<spc, goaway, result>>
  BY <1>1 DEF sessionVars
<1> USE DEF ClientInv, ClientTypes, StageInv, EventInv, EndInv, GoawayFollowed, Stages, Over
<1>4. CASE Disconnected \/ Stop \/ Stopped
  <2>1. CASE Disconnected
    <3>1. /\ cpc = "closed" /\ cpc' = "closed" /\ sent' = "Disconnected" /\ live' = FALSE
          /\ UNCHANGED <<endpoint, retry, failures>>
      BY <2>1 DEF Disconnected
    <3>2. ClientTypes' /\ StageInv'
      BY <1>1, <1>3, <3>1
    <3>3. EventInv'
      BY <3>1
    <3>4. EndInv' /\ GoawayFollowed'
      BY <1>1, <1>3, <3>1
    <3> QED BY <1>2, <3>2, <3>3, <3>4
  <2>2. CASE Stop
    BY <1>1, <1>2, <1>3, <2>2 DEF Stop
  <2>3. CASE Stopped
    BY <1>1, <1>2, <1>3, <2>3 DEF Stopped
  <2> QED BY <1>4, <2>1, <2>2, <2>3
<1>5. CASE Migrate
  <2>1. /\ cpc = "closed" /\ ~live /\ goaway # NoGoaway /\ asked = goaway
        /\ UNCHANGED <<live, sent>>
    BY <1>5 DEF Migrate, Migrated, SessionInv, GoawayTaken
  <2>2. CASE goaway \in BadUris
    BY <1>1, <1>2, <1>3, <1>5, <2>1, <2>2 DEF Migrate
  <2>3. CASE goaway \notin BadUris
    <3>1. /\ cpc' = "connect" /\ retry' = 0 /\ failures' = 0
          /\ endpoint' = IF goaway = SameUri THEN endpoint ELSE goaway
      BY <1>5, <2>3 DEF Migrate, NextEndpoint
    <3>2. endpoint' \in Targets \cup {Home} /\ 0 \in 0..(MaxRetry + 1) /\ 0 <= MaxRetry
      BY <2>1, <3>1, ClientAssumption DEF SessionInv, SessionTypes
    <3> QED BY <1>1, <1>2, <1>3, <2>1, <3>1, <3>2
  <2> QED BY <2>2, <2>3
<1>6. CASE Repeat
  <2>1. 0 \in 0..(MaxRetry + 1) /\ 0 <= MaxRetry
    BY ClientAssumption
  <2> QED BY <1>1, <1>2, <1>3, <1>6, <2>1 DEF Repeat
<1>7. CASE Retry
  <2>1. cpc = "closed" /\ ~live /\ ~cancelled /\ ~Migrated /\ ~byDuration /\ CountFailure
        /\ UNCHANGED <<endpoint, live>>
    BY <1>7 DEF Retry
  <2>2. finished /\ (goaway = NoGoaway \/ ~MigrateOnGoaway) /\ asked = goaway
    BY <2>1 DEF Migrated
  <2>3. /\ retry' \in 0..(MaxRetry + 1) /\ failures' = retry'
        /\ \/ cpc' = "stopping" /\ sent' = sent /\ failures' = MaxRetry + 1
           \/ cpc' = "retryWait" /\ sent' = "Retrying" /\ retry' <= MaxRetry
    BY <2>1, FailureCounted
  <2> QED BY <1>1, <1>2, <1>3, <2>1, <2>2, <2>3
<1>8. CASE Wake
  BY <1>1, <1>2, <1>3, <1>8 DEF Wake
<1> QED BY <1>4, <1>5, <1>6, <1>7, <1>8

(* Ctrl+C and the relay.                                                    *)
LEMMA EnvironmentStep ==
  ASSUME IInv, Environment
  PROVE  IInv'
<1> USE DEF IInv, tokens, clientVars
<1>1. CASE Cancel
  <2>1. SessionInv'
    BY <1>1, SessionKept DEF Cancel, Cancelled, SessionInv, SessionTypes
  <2> QED BY <1>1, <2>1 DEF Cancel, sessionVars, ClientInv, ClientTypes, StageInv, EventInv,
          EndInv, GoawayFollowed, Stages, Over
<1>2. CASE Relay /\ UNCHANGED <<tokens, clientVars, asked>>
  <2>1. SessionInv' /\ UNCHANGED sessionVars
    BY <1>2, RelayStep
  <2> QED BY <1>2, <2>1 DEF sessionVars, ClientInv, ClientTypes, StageInv, EventInv,
          EndInv, GoawayFollowed, Stages, Over
<1> QED BY <1>1, <1>2 DEF Environment

LEMMA NextInv == IInv /\ [Next]_vars => IInv'
<1> SUFFICES ASSUME IInv, [Next]_vars PROVE IInv'
  OBVIOUS
<1>1. CASE UNCHANGED vars
  <2>1. UNCHANGED <<tokens, sessionVars, relayVars, clientVars, asked>>
    BY <1>1 DEF vars
  <2>2. SessionInv'
    BY <2>1, SessionKept DEF IInv, tokens, Cancelled, SessionInv, SessionTypes
  <2> QED BY <2>1, <2>2 DEF IInv, tokens, sessionVars, clientVars, ClientInv, ClientTypes,
          StageInv, EventInv, EndInv, GoawayFollowed, Stages, Over
<1>2. CASE Next
  <2>1. CASE Loop
    BY <2>1, ConnectStep, RunStep, NextStep DEF Loop
  <2>2. CASE Poll \/ Resume
    BY <2>2, PollStep
  <2>3. CASE Environment
    BY <2>3, EnvironmentStep
  <2> QED BY <1>1, <1>2, <2>1, <2>2, <2>3 DEF Next, Terminated
<1> QED BY <1>1, <1>2

LEMMA Invariance == Spec => []IInv
<1> QED BY InitInv, NextInv, PTL DEF Spec

-----------------------------------------------------------------------------
(* The theorems.                                                            *)

LEMMA TypesFollow == IInv => TypeOK
<1> SUFFICES ASSUME IInv PROVE TypeOK
  OBVIOUS
<1>1. \A i \in DOMAIN control : control[i] \in ControlMessages
  BY ElementOfSeq, LenProperties DEF IInv, SessionInv, SessionTypes
<1>2. failures \in 0..(MaxRetry + 1)
  BY DEF IInv, ClientInv, ClientTypes
<1> QED BY <1>1, <1>2 DEF IInv, SessionInv, SessionTypes, ClientInv, ClientTypes, TypeOK

(* No request leaves at a time the library or the relay must refuse it: with *)
(* a GOAWAY at hand that should be followed, or for a track of its own that  *)
(* the relay has not accepted (session::run, publish and subscribe in the    *)
(* tail of its loop).                                                       *)
THEOREM RequestsAreInOrder == Spec => []RequestsInOrder
<1>1. IInv => RequestsInOrder
  BY TypesFollow DEF RequestsInOrder, IInv, SessionInv
<1> QED BY Invariance, <1>1, PTL

(* A GOAWAY that a session recorded decides the next endpoint, unless the    *)
(* duration expired (run: resolve_next_endpoint after the shutdown).        *)
THEOREM GoawayIsFollowed == Spec => []GoawayFollowed
<1>1. IInv => GoawayFollowed
  BY DEF IInv, ClientInv
<1> QED BY Invariance, <1>1, PTL

(* The client stops only for the token, a useless URI, a duration without    *)
(* repetition or MaxRetry + 1 failures in a row, and never polls a session  *)
(* that has returned (run and wait_for_session_shutdown).                   *)
THEOREM ClientEndsForAReason == Spec => []EndsForAReason
<1>1. IInv => GivesUpForAReason
  BY DEF IInv, ClientInv, EndInv, GivesUpForAReason
<1>2. IInv => NeverPolledAgain
  BY DEF IInv, ClientInv, StageInv, NeverPolledAgain, Polls
<1>3. IInv => EndsForAReason
  BY <1>1, <1>2 DEF EndsForAReason
<1> QED BY Invariance, <1>3, PTL

(* What the collector is told of a client: only a connected client is       *)
(* announced as disconnected, and before anything else is said of it;       *)
(* nothing follows Stopped (the sends of run).                              *)
THEOREM EventsArePaired == Spec => EventsPaired
<1> DEFINE Paired == /\ sent # "Stopped"
                     /\ sent = "Connected" <=> sent' = "Disconnected"
<1>1. IInv /\ [Next]_vars => [Paired]_sent
  <2> SUFFICES ASSUME IInv, [Next]_vars, sent' # sent PROVE Paired
    OBVIOUS
  <2> USE DEF IInv, ClientInv, StageInv, EventInv, Over
  <2>1. CASE ConnectFails \/ Retry
    <3>1. ~live /\ CountFailure /\ cpc # "stopped"
      BY <2>1 DEF ConnectFails, Retry
    <3>2. sent' = "Retrying"
      BY <3>1 DEF CountFailure
    <3> QED BY <3>1, <3>2
  <2>2. CASE Establish
    BY <2>2 DEF Establish
  <2>3. CASE Disconnected
    BY <2>3 DEF Disconnected
  <2>4. CASE Stopped
    BY <2>4 DEF Stopped
  <2>5. CASE Poll \/ Resume \/ Environment \/ UNCHANGED vars
    BY <2>5 DEF Poll, Resume, PollOf, Returned, Environment, Cancel, vars, clientVars
  <2>6. CASE ConnectCancelled \/ Connect \/ Interrupt \/ DurationExpires \/ Release \/ Waited
             \/ Drop \/ Stop \/ Migrate \/ Repeat \/ Wake
    BY <2>6 DEF ConnectCancelled, Connect, Interrupt, DurationExpires, Release, Waited, Drop,
       Stop, Migrate, Repeat, Wake, clientVars
  <2> QED BY <2>1, <2>2, <2>3, <2>4, <2>5, <2>6 DEF Next, Loop, Terminated
<1> QED BY Invariance, <1>1, PTL DEF Spec, EventsPaired

-----------------------------------------------------------------------------
(* The publisher and the readers: the inductive invariant.                  *)

WireStreams == [group : Nat, deltas : Seq(Nat), end : {"open", "fin", "reset"}]
Readers == [at : {"header", "object", "done"}, taken : Nat, prev : Int, got : Seq(Int)]
MediaMessages == [kind : {"header", "object", "over"}, stream : Nat]

MediaTypes ==
  /\ MediaTypeOK
  /\ wire \in Seq(WireStreams) /\ written \in Seq(Seq(Nat)) /\ reader \in Seq(Readers)
  /\ chan \in Seq(MediaMessages)

(* Groups go up from stream to stream; the open stream is the last and has  *)
(* the group of the next object, and without one the next group is new.     *)
Grouped(w) == \A i, j \in 1..Len(w) : i < j => w[i].group < w[j].group

GroupInv ==
  /\ Grouped(wire)
  /\ \A k \in 1..Len(wire) : wire[k].group <= group
  /\ ended = "no" /\ stream = 0 => \A k \in 1..Len(wire) : wire[k].group < group
  /\ stream # 0 => stream = Len(wire) /\ wire[stream].group = group /\ group < MaxGroups

(* The publisher's previous object is the last one it wrote on its stream.  *)
IdBefore(s, n) == IF n = 0 THEN None ELSE s[n]

NumberInv ==
  /\ prev < object /\ (datagram => prev = None /\ stream = 0)
  /\ stream # 0 => prev = IdBefore(written[stream], Len(written[stream]))
  /\ ended = "no" => writeFailures < MaxFailures

(* The differences on a stream are those of the objects written, and its    *)
(* reader is somewhere among them.                                          *)
Decodes(w, o, r) ==
  \A k \in 1..Len(w) :
    /\ Len(w[k].deltas) = Len(o[k])
    /\ \A i \in 1..Len(o[k]) : w[k].deltas[i] = o[k][i] - IdBefore(o[k], i - 1) - 1
    /\ r[k].taken = Len(r[k].got) /\ r[k].taken <= Len(o[k])
    /\ r[k].prev = IdBefore(o[k], r[k].taken)
    /\ \A i \in 1..Len(r[k].got) : r[k].got[i] = o[k][i]

DecodeInv == Decodes(wire, written, reader)

DatagramInv ==
  \A d \in grams : /\ d.object \in 0..(ObjectsPerGroup - 1)
                   /\ d.last <=> IsEndOfGroup(d.object)

(* The token bucket covers what is due, as far as that is caught up with.   *)
PaceInv ==
  allowance \in Nat /\ (allowance >= lag + 1 \/ allowance >= MaxCatchUp + 2)

MediaInv == MediaTypes /\ GroupInv /\ NumberInv /\ DecodeInv /\ DatagramInv /\ PaceInv

-----------------------------------------------------------------------------
(* What the types give.                                                     *)

LEMMA FunctionIsSeq ==
  ASSUME NEW n \in Nat, NEW f \in [1..n -> WireStreams]
  PROVE  f \in Seq(WireStreams) /\ Len(f) = n
<1>1. f \in Seq(WireStreams)
  BY SeqDef
<1>2. DOMAIN f = 1..Len(f) /\ Len(f) \in Nat
  BY <1>1, LenProperties
<1>3. 1..n = 1..Len(f)
  BY <1>2
<1> QED BY <1>1, <1>2, <1>3

LEMMA Typed ==
  ASSUME MediaTypes
  PROVE  /\ Len(wire) \in Nat /\ Len(written) = Len(wire) /\ Len(reader) = Len(wire)
         /\ DOMAIN wire = 1..Len(wire) /\ DOMAIN written = 1..Len(wire)
         /\ DOMAIN reader = 1..Len(wire)
         /\ \A k \in 1..Len(wire) :
              /\ wire[k] \in WireStreams /\ written[k] \in Seq(Nat) /\ reader[k] \in Readers
              /\ Len(wire[k].deltas) \in Nat /\ Len(written[k]) \in Nat
              /\ Len(reader[k].got) \in Nat
<1>1. wire \in Seq(WireStreams) /\ written \in Seq(Seq(Nat)) /\ reader \in Seq(Readers)
      /\ Len(written) = Len(wire) /\ Len(reader) = Len(wire)
  BY DEF MediaTypes, MediaTypeOK
<1>2. /\ Len(wire) \in Nat /\ DOMAIN wire = 1..Len(wire) /\ DOMAIN written = 1..Len(wire)
      /\ DOMAIN reader = 1..Len(wire)
  BY <1>1, LenProperties
<1>3. ASSUME NEW k \in 1..Len(wire)
      PROVE  wire[k] \in WireStreams /\ written[k] \in Seq(Nat) /\ reader[k] \in Readers
  BY <1>1, ElementOfSeq
<1>4. ASSUME NEW k \in 1..Len(wire)
      PROVE  wire[k].deltas \in Seq(Nat) /\ reader[k].got \in Seq(Int)
  BY <1>3 DEF WireStreams, Readers
<1> QED BY <1>1, <1>2, <1>3, <1>4, LenProperties

(* A step that only ends streams changes neither groups nor differences.    *)
LEMMA OnlyEnds ==
  ASSUME NEW w, NEW v, NEW o, NEW r, Len(w) = Len(v),
         \A k \in 1..Len(v) : w[k].group = v[k].group /\ w[k].deltas = v[k].deltas
  PROVE  (Grouped(v) => Grouped(w)) /\ (Decodes(v, o, r) => Decodes(w, o, r))
<1>1. Grouped(v) => Grouped(w)
  BY DEF Grouped
<1>2. Decodes(v, o, r) => Decodes(w, o, r)
  <2> SUFFICES ASSUME Decodes(v, o, r), NEW k \in 1..Len(w)
               PROVE  /\ Len(w[k].deltas) = Len(o[k])
                      /\ \A i \in 1..Len(o[k]) : w[k].deltas[i] = o[k][i] - IdBefore(o[k], i - 1) - 1
                      /\ r[k].taken = Len(r[k].got) /\ r[k].taken <= Len(o[k])
                      /\ r[k].prev = IdBefore(o[k], r[k].taken)
                      /\ \A i \in 1..Len(r[k].got) : r[k].got[i] = o[k][i]
    BY DEF Decodes
  <2>1. w[k].deltas = v[k].deltas /\ k \in 1..Len(v)
    OBVIOUS
  <2> QED BY <2>1 DEF Decodes
<1> QED BY <1>1, <1>2

-----------------------------------------------------------------------------
(* The initial states.                                                      *)

LEMMA MediaInitInv == MediaInit => MediaInv
<1> SUFFICES ASSUME MediaInit PROVE MediaInv
  OBVIOUS
<1> USE MediaAssumption DEF MediaInit, None
<1>1. /\ <<>> \in Seq(WireStreams) /\ <<>> \in Seq(Seq(Nat)) /\ <<>> \in Seq(Readers)
      /\ <<>> \in Seq(MediaMessages) /\ Len(<<>>) = 0
  BY EmptySeq
<1>2. MediaTypes
  <2>1. /\ 0 \in -1..MaxLag /\ 0 \in 0..0 /\ 0 \in 0..(MaxGroups + 1) /\ 0 \in 0..ObjectsPerGroup
        /\ -1 \in -1..ObjectsPerGroup /\ 0 \in 0..MaxFailures /\ 0 <= Capacity
    OBVIOUS
  <2>2. MediaTypeOK
    BY <1>1, <2>1 DEF MediaTypeOK
  <2> QED BY <1>1, <2>2 DEF MediaTypes
<1>3. GroupInv
  BY <1>1 DEF GroupInv, Grouped
<1>4. NumberInv /\ DecodeInv
  BY <1>1 DEF NumberInv, DecodeInv, Decodes
<1>5. DatagramInv /\ PaceInv
  BY DEF DatagramInv, PaceInv
<1> QED BY <1>2, <1>3, <1>4, <1>5 DEF MediaInv

-----------------------------------------------------------------------------
(* The schedule.                                                            *)

LEMMA Advances ==
  ASSUME PaceInv, lag \in 0..MaxLag, AdvanceNextSend, allowance' = allowance - 1
  PROVE  PaceInv' /\ lag' \in -1..MaxLag
<1>1. MaxCatchUp \in Nat /\ MaxLag \in Nat
  BY MediaAssumption
<1>2. lag' = IF lag - 1 > MaxCatchUp THEN -1 ELSE lag - 1
  BY DEF AdvanceNextSend
<1> QED BY <1>1, <1>2 DEF PaceInv

LEMMA ScheduleStep ==
  ASSUME MediaInv, Accept \/ (\E f \in BOOLEAN : ForwardChanged(f)) \/ TimePasses
  PROVE  MediaInv'
<1>1. /\ UNCHANGED <<datagram, ended, stream, group, object, prev, writeFailures, wire, written, grams,
                     reader, chan>>
      /\ publishAccepted' \in BOOLEAN /\ forward' \in BOOLEAN
  BY DEF Accept, ForwardChanged, TimePasses, wireVars, subVars, MediaInv, MediaTypes, MediaTypeOK
<1>2. lag \in -1..MaxLag /\ MaxCatchUp \in Nat /\ MaxLag \in Nat
  BY MediaAssumption DEF MediaInv, MediaTypes, MediaTypeOK
<1>3. PaceInv' /\ lag' \in -1..MaxLag
  <2>1. CASE Accept
    BY <1>2, <2>1 DEF Accept, PaceInv
  <2>2. CASE \E f \in BOOLEAN : ForwardChanged(f)
    BY <1>2, <2>2 DEF ForwardChanged, PaceInv, MediaInv
  <2>3. CASE TimePasses
    BY <1>2, <2>3 DEF TimePasses, PaceInv, MediaInv
  <2> QED BY <2>1, <2>2, <2>3
<1>4. MediaTypes'
  BY <1>1, <1>3 DEF MediaInv, MediaTypes, MediaTypeOK
<1>5. GroupInv' /\ NumberInv' /\ DecodeInv' /\ DatagramInv'
  BY <1>1 DEF MediaInv, GroupInv, NumberInv, DecodeInv, DatagramInv
<1> QED BY <1>3, <1>4, <1>5 DEF MediaInv

-----------------------------------------------------------------------------
(* The stream an object is sent on.                                         *)

(* The object that is next, and a difference that does not underflow.       *)
LEMMA NextNumbers ==
  ASSUME MediaInv
  PROVE  /\ NextObject \in 0..(ObjectsPerGroup - 1) /\ NextObject + 1 \in 0..ObjectsPerGroup
         /\ NextGroup \in Nat /\ group <= NextGroup /\ group \in Nat
         /\ Before \in -1..(NextObject - 1) /\ Delta = NextObject - Before - 1 /\ Delta \in Nat
<1>1. /\ object \in 0..ObjectsPerGroup /\ prev \in -1..ObjectsPerGroup /\ prev < object
      /\ group \in Nat /\ ObjectsPerGroup \in Nat \ {0}
  BY MediaAssumption DEF MediaInv, MediaTypes, MediaTypeOK, NumberInv
<1>2. NextObject \in 0..(ObjectsPerGroup - 1) /\ NextGroup \in Nat /\ group <= NextGroup
  BY <1>1 DEF NextObject, NextGroup, Complete
<1>3. Before \in -1..(NextObject - 1)
  BY <1>1 DEF Before, Reuses, NextObject, Complete, None
<1>4. Delta = NextObject - Before - 1
  BY <1>2, <1>3 DEF Delta, None
<1> HIDE DEF NextObject, NextGroup, Before, Delta
<1> QED BY <1>1, <1>2, <1>3, <1>4

LEMMA FreshStream ==
  ASSUME MediaInv, ended = "no", ~Reuses
  PROVE  /\ Finned \in Seq(WireStreams) /\ Len(Finned) = Len(wire)
         /\ \A k \in 1..Len(wire) :
              /\ Finned[k].group = wire[k].group /\ Finned[k].deltas = wire[k].deltas
              /\ wire[k].group < NextGroup
<1>1. MediaTypes /\ Len(wire) \in Nat /\ \A k \in 1..Len(wire) : wire[k] \in WireStreams
  BY Typed DEF MediaInv
<1>2. \A k \in 1..Len(wire) :
        /\ [wire[k] EXCEPT !.end = "fin"] \in WireStreams
        /\ [wire[k] EXCEPT !.end = "fin"].group = wire[k].group
        /\ [wire[k] EXCEPT !.end = "fin"].deltas = wire[k].deltas
  BY <1>1 DEF WireStreams
<1>3. /\ Finned \in [1..Len(wire) -> WireStreams]
      /\ \A k \in 1..Len(wire) : /\ Finned[k].group = wire[k].group
                                  /\ Finned[k].deltas = wire[k].deltas
  BY <1>1, <1>2 DEF Finned, Streams
<1>4. Finned \in Seq(WireStreams) /\ Len(Finned) = Len(wire)
  BY <1>1, <1>3, FunctionIsSeq
<1>5. \A k \in 1..Len(wire) : wire[k].group < NextGroup
  <2>1. \A k \in 1..Len(wire) : wire[k].group \in Nat /\ wire[k].group <= group
    BY <1>1 DEF WireStreams, MediaInv, GroupInv
  <2>2. group \in Nat
    BY NextNumbers
  <2>3. CASE stream = 0
    <3>1. \A k \in 1..Len(wire) : wire[k].group < group
      BY <2>3 DEF MediaInv, GroupInv
    <3>2. NextGroup \in Nat /\ group <= NextGroup
      BY NextNumbers
    <3> QED BY <2>1, <2>2, <3>1, <3>2
  <2>4. CASE Complete
    BY <2>1, <2>2, <2>4 DEF NextGroup
  <2> QED BY <2>3, <2>4 DEF Reuses
<1> QED BY <1>3, <1>4, <1>5

(* What there is once the stream for the next object is open.               *)
StreamReady(w, o, r, n) ==
  /\ w \in Seq(WireStreams) /\ o \in Seq(Seq(Nat)) /\ r \in Seq(Readers)
  /\ Len(w) = n /\ Len(o) = n /\ Len(r) = n /\ n \in Nat \ {0}
  /\ Grouped(w) /\ w[n].group = NextGroup /\ \A k \in 1..n : w[k].group <= NextGroup
  /\ Decodes(w, o, r)

LEMMA StreamOpened ==
  ASSUME MediaInv, ended = "no"
  PROVE  /\ StreamReady(Opened, WithWritten, WithReader, InUse)
         /\ Before = IdBefore(WithWritten[InUse], Len(WithWritten[InUse]))
<1> DEFINE fresh == [group |-> NextGroup, deltas |-> <<>>, end |-> "open"]
<1>1. /\ MediaTypes /\ Len(wire) \in Nat /\ Len(written) = Len(wire) /\ Len(reader) = Len(wire)
      /\ wire \in Seq(WireStreams) /\ written \in Seq(Seq(Nat)) /\ reader \in Seq(Readers)
      /\ Grouped(wire) /\ Decodes(wire, written, reader)
      /\ \A k \in 1..Len(wire) : wire[k] \in WireStreams /\ wire[k].group <= group
  BY Typed DEF MediaInv, MediaTypes, GroupInv, DecodeInv
<1>2. CASE Reuses
  <2>1. Opened = wire /\ InUse = Len(wire) /\ WithWritten = written /\ WithReader = reader
        /\ Before = prev
    BY <1>2 DEF Opened, InUse, WithWritten, WithReader, Before
  <2>2. /\ stream = Len(wire) /\ stream # 0 /\ wire[stream].group = group
        /\ prev = IdBefore(written[stream], Len(written[stream])) /\ NextGroup = group
    BY <1>2 DEF Reuses, MediaInv, GroupInv, NumberInv, NextGroup
  <2> QED BY <1>1, <2>1, <2>2 DEF StreamReady
<1>3. CASE ~Reuses
  <2>1. /\ Finned \in Seq(WireStreams) /\ Len(Finned) = Len(wire)
        /\ \A k \in 1..Len(wire) :
             /\ Finned[k].group = wire[k].group /\ Finned[k].deltas = wire[k].deltas
             /\ wire[k].group < NextGroup
    BY <1>3, FreshStream
  <2>2. /\ NextGroup \in Nat /\ fresh \in WireStreams /\ fresh.group = NextGroup
        /\ fresh.deltas = <<>> /\ FreshReader \in Readers /\ <<>> \in Seq(Nat)
        /\ FreshReader.taken = 0 /\ FreshReader.prev = None /\ FreshReader.got = <<>>
    BY NextNumbers, EmptySeq DEF WireStreams, Readers, FreshReader, None
  <2>3. /\ Opened = Append(Finned, fresh) /\ WithWritten = Append(written, <<>>)
        /\ WithReader = Append(reader, FreshReader) /\ Before = None
    BY <1>3 DEF Opened, WithWritten, WithReader, Before
  <2> DEFINE n == Len(wire) + 1
  <2> HIDE DEF fresh
  <2>4. /\ Opened \in Seq(WireStreams) /\ Len(Opened) = n /\ Opened[n] = fresh
        /\ \A k \in 1..Len(wire) : Opened[k] = Finned[k]
    BY <1>1, <2>1, <2>2, <2>3, AppendProperties
  <2>5. /\ WithWritten \in Seq(Seq(Nat)) /\ Len(WithWritten) = n /\ WithWritten[n] = <<>>
        /\ \A k \in 1..Len(wire) : WithWritten[k] = written[k]
    BY <1>1, <2>2, <2>3, AppendProperties
  <2>6. /\ WithReader \in Seq(Readers) /\ Len(WithReader) = n /\ WithReader[n] = FreshReader
        /\ \A k \in 1..Len(wire) : WithReader[k] = reader[k]
    BY <1>1, <2>2, <2>3, AppendProperties
  <2>7. InUse = n /\ n \in Nat \ {0} /\ \A k \in 1..n : k \in 1..Len(wire) \/ k = n
    BY <1>1, <2>4 DEF InUse
  <2>8. Len(<<>>) = 0
    BY EmptySeq
  <2> HIDE DEF n
  <2>9. \A k \in 1..n : Opened[k].group = IF k = n THEN NextGroup ELSE wire[k].group
    BY <2>1, <2>2, <2>4, <2>7
  <2>10. Grouped(Opened)
    <3> SUFFICES ASSUME NEW i \in 1..n, NEW j \in 1..n, i < j
                 PROVE  Opened[i].group < Opened[j].group
      BY <2>4 DEF Grouped
    <3>1. i \in 1..Len(wire) /\ i # n
      BY <1>1, <2>7 DEF n
    <3>2. CASE j = n
      BY <2>1, <2>9, <3>1, <3>2
    <3>3. CASE j # n
      BY <1>1, <2>7, <2>9, <3>1, <3>3 DEF Grouped
    <3> QED BY <3>2, <3>3
  <2>11. Decodes(Opened, WithWritten, WithReader)
    <3>1. Decodes(Finned, written, reader)
      BY <1>1, <2>1, OnlyEnds
    <3> SUFFICES ASSUME NEW k \in 1..n
                 PROVE  /\ Len(Opened[k].deltas) = Len(WithWritten[k])
                        /\ \A i \in 1..Len(WithWritten[k]) :
                             Opened[k].deltas[i]
                               = WithWritten[k][i] - IdBefore(WithWritten[k], i - 1) - 1
                        /\ WithReader[k].taken = Len(WithReader[k].got)
                        /\ WithReader[k].taken <= Len(WithWritten[k])
                        /\ WithReader[k].prev = IdBefore(WithWritten[k], WithReader[k].taken)
                        /\ \A i \in 1..Len(WithReader[k].got) :
                             WithReader[k].got[i] = WithWritten[k][i]
      BY <2>4 DEF Decodes
    <3>2. CASE k \in 1..Len(wire)
      <4>1. /\ Opened[k] = Finned[k] /\ WithWritten[k] = written[k] /\ WithReader[k] = reader[k]
            /\ k \in 1..Len(Finned)
        BY <2>1, <2>4, <2>5, <2>6, <3>2
      <4> QED BY <3>1, <4>1 DEF Decodes
    <3>3. CASE k = n
      <4>1. /\ Opened[k].deltas = <<>> /\ WithWritten[k] = <<>> /\ WithReader[k].got = <<>>
            /\ WithReader[k].taken = 0 /\ WithReader[k].prev = None
        BY <2>2, <2>4, <2>5, <2>6, <3>3
      <4>2. 1..Len(<<>>) = {} /\ IdBefore(<<>>, 0) = None
        BY <2>8 DEF IdBefore
      <4> QED BY <2>8, <4>1, <4>2
    <3> QED BY <2>7, <3>2, <3>3
  <2>12. \A k \in 1..n : Opened[k].group <= NextGroup
    <3>1. \A k \in 1..Len(wire) : wire[k].group \in Nat /\ wire[k].group < NextGroup
      BY <1>1, <2>1 DEF WireStreams
    <3> QED BY <2>2, <2>7, <2>9, <3>1
  <2>13. n \in 1..n
    BY <2>7
  <2>14. Before = IdBefore(WithWritten[InUse], Len(WithWritten[InUse]))
    BY <2>3, <2>5, <2>7, <2>8 DEF IdBefore
  <2> QED BY <2>4, <2>5, <2>6, <2>7, <2>9, <2>10, <2>11, <2>12, <2>13, <2>14 DEF StreamReady
<1> QED BY <1>2, <1>3

-----------------------------------------------------------------------------
(* The publisher.                                                           *)

(* A step that used the stream goes on with it or with the next group.      *)
LEMMA StreamUsed ==
  ASSUME MediaInv, IsDue, NextGroup < MaxGroups, ~datagram,
         UNCHANGED <<datagram, publishAccepted, forward, grams, chan>>,
         StreamReady(wire', written', reader', InUse), PaceInv', lag' \in -1..MaxLag,
         \/ /\ stream' = InUse /\ group' = NextGroup /\ object' = NextObject + 1 /\ ended' = "no"
            /\ prev' \in -1..NextObject /\ prev' = IdBefore(written'[InUse], Len(written'[InUse]))
            /\ writeFailures' \in 0..(MaxFailures - 1)
         \/ /\ stream' = 0 /\ group' = NextGroup + 1 /\ object' = 0 /\ prev' = None
            /\ writeFailures' \in 0..MaxFailures /\ ended' \in {"no", "failed"}
            /\ ended' = "no" => writeFailures' < MaxFailures
  PROVE  MediaInv'
<1>1. /\ NextObject \in 0..(ObjectsPerGroup - 1) /\ NextObject + 1 \in 0..ObjectsPerGroup
      /\ NextGroup \in Nat /\ ObjectsPerGroup \in Nat \ {0} /\ MaxFailures \in Nat \ {0}
      /\ MaxGroups \in Nat
  BY NextNumbers, MediaAssumption
<1>2. /\ wire' \in Seq(WireStreams) /\ written' \in Seq(Seq(Nat)) /\ reader' \in Seq(Readers)
      /\ Len(wire') = InUse /\ Len(written') = InUse /\ Len(reader') = InUse
      /\ InUse \in Nat \ {0} /\ Grouped(wire') /\ Decodes(wire', written', reader')
      /\ wire'[InUse].group = NextGroup /\ \A k \in 1..InUse : wire'[k].group <= NextGroup
  BY DEF StreamReady
<1> HIDE DEF StreamReady
<1>3. /\ stream' \in 0..InUse /\ group' \in 0..MaxGroups /\ object' \in 0..ObjectsPerGroup
      /\ prev' \in -1..ObjectsPerGroup /\ writeFailures' \in 0..MaxFailures /\ prev' < object'
      /\ ended' \in {"no", "failed"} /\ (ended' = "no" => writeFailures' < MaxFailures)
  <2>1. CASE /\ stream' = InUse /\ group' = NextGroup /\ object' = NextObject + 1
             /\ prev' \in -1..NextObject /\ ended' = "no" /\ writeFailures' \in 0..(MaxFailures - 1)
    <3>1. /\ stream' \in 0..InUse /\ group' \in 0..MaxGroups /\ object' \in 0..ObjectsPerGroup
          /\ prev' \in -1..ObjectsPerGroup /\ prev' < object'
      BY <1>1, <1>2, <2>1
    <3> QED BY <1>1, <2>1, <3>1
  <2>2. CASE /\ stream' = 0 /\ group' = NextGroup + 1 /\ object' = 0 /\ prev' = None
             /\ writeFailures' \in 0..MaxFailures /\ ended' \in {"no", "failed"}
             /\ (ended' = "no" => writeFailures' < MaxFailures)
    <3>1. /\ stream' \in 0..InUse /\ group' \in 0..MaxGroups /\ object' \in 0..ObjectsPerGroup
          /\ prev' \in -1..ObjectsPerGroup /\ prev' < object'
      BY <1>1, <1>2, <2>2 DEF None
    <3> QED BY <2>2, <3>1
  <2> QED BY <2>1, <2>2
<1>4. MediaTypes'
  BY <1>1, <1>2, <1>3 DEF MediaInv, MediaTypes, MediaTypeOK
<1>5. GroupInv'
  <2>1. ASSUME NEW k \in 1..InUse PROVE wire'[k].group \in Nat
    <3>1. wire'[k] \in WireStreams
      BY <1>2, ElementOfSeq
    <3> QED BY <3>1 DEF WireStreams
  <2>2. CASE stream' = InUse /\ group' = NextGroup
    BY <1>2, <2>2 DEF GroupInv
  <2>3. CASE stream' = 0 /\ group' = NextGroup + 1
    BY SMTT(30), <1>1, <1>2, <2>1, <2>3 DEF GroupInv
  <2> QED BY <2>2, <2>3
<1>6. NumberInv'
  BY <1>2, <1>3 DEF NumberInv
<1>7. DecodeInv' /\ DatagramInv'
  BY <1>2 DEF MediaInv, DecodeInv, DatagramInv
<1> QED BY <1>4, <1>5, <1>6, <1>7 DEF MediaInv

(* The object that is written adds its difference to the one before.        *)
LEMMA ObjectOnWire ==
  ASSUME MediaInv, ended = "no",
         wire' = [Opened EXCEPT ![InUse].deltas = Append(@, Delta)],
         written' = [WithWritten EXCEPT ![InUse] = Append(@, NextObject)], reader' = WithReader
  PROVE  /\ StreamReady(wire', written', reader', InUse)
         /\ NextObject = IdBefore(written'[InUse], Len(written'[InUse]))
<1> DEFINE n == InUse
           w == Opened
           o == WithWritten
<1>1. /\ w \in Seq(WireStreams) /\ o \in Seq(Seq(Nat)) /\ WithReader \in Seq(Readers)
      /\ Len(w) = n /\ Len(o) = n /\ Len(WithReader) = n /\ n \in Nat \ {0}
      /\ Grouped(w) /\ w[n].group = NextGroup /\ \A k \in 1..n : w[k].group <= NextGroup
      /\ Decodes(w, o, WithReader) /\ Before = IdBefore(o[n], Len(o[n]))
  BY StreamOpened DEF StreamReady
<1>2. NextObject \in Nat /\ Delta \in Nat /\ Delta = NextObject - Before - 1 /\ Before \in Int
  BY NextNumbers
<1> HIDE DEF n, w, o
<1>3. /\ n \in 1..n /\ w[n] \in WireStreams /\ o[n] \in Seq(Nat)
      /\ w[n].deltas \in Seq(Nat) /\ DOMAIN w = 1..n /\ DOMAIN o = 1..n
  <2>1. n \in 1..n
    BY <1>1
  <2>2. w[n] \in WireStreams /\ o[n] \in Seq(Nat)
    BY <1>1, <2>1, ElementOfSeq
  <2>3. DOMAIN w = 1..n /\ DOMAIN o = 1..n
    BY <1>1, LenProperties
  <2> QED BY <2>1, <2>2, <2>3 DEF WireStreams
<1>4. /\ w[n] = [group |-> w[n].group, deltas |-> w[n].deltas, end |-> w[n].end]
      /\ w[n].group \in Nat /\ w[n].end \in {"open", "fin", "reset"}
  BY <1>3 DEF WireStreams
<1>5. /\ Append(w[n].deltas, Delta) \in Seq(Nat) /\ Len(Append(w[n].deltas, Delta)) = Len(w[n].deltas) + 1
      /\ Append(o[n], NextObject) \in Seq(Nat) /\ Len(Append(o[n], NextObject)) = Len(o[n]) + 1
      /\ Len(o[n]) \in Nat /\ Len(w[n].deltas) = Len(o[n])
      /\ Append(w[n].deltas, Delta)[Len(o[n]) + 1] = Delta
      /\ Append(o[n], NextObject)[Len(o[n]) + 1] = NextObject
      /\ \A i \in 1..Len(o[n]) : /\ Append(w[n].deltas, Delta)[i] = w[n].deltas[i]
                                /\ Append(o[n], NextObject)[i] = o[n][i]
  <2>1. Len(w[n].deltas) = Len(o[n])
    BY <1>1, <1>3 DEF Decodes
  <2> QED BY <1>2, <1>3, <2>1, AppendProperties, LenProperties
<1> DEFINE d == Append(w[n].deltas, Delta)
           e == Append(o[n], NextObject)
           new == [w[n] EXCEPT !.deltas = d]
<1> HIDE DEF d, e
<1>6. new \in WireStreams /\ new.group = w[n].group /\ new.deltas = d
  BY <1>4, <1>5 DEF WireStreams, d
<1>7. wire' = [w EXCEPT ![n] = new] /\ written' = [o EXCEPT ![n] = e]
  BY <1>3 DEF n, w, o, d, e
<1> HIDE DEF new
<1>8. /\ wire' \in Seq(WireStreams) /\ Len(wire') = n /\ written' \in Seq(Seq(Nat)) /\ Len(written') = n
      /\ \A k \in 1..n : wire'[k] = IF k = n THEN new ELSE w[k]
      /\ \A k \in 1..n : written'[k] = IF k = n THEN e ELSE o[k]
  <2>1. n \in 1..Len(w) /\ n \in 1..Len(o) /\ e \in Seq(Nat)
    BY <1>1, <1>3, <1>5 DEF e
  <2>2. /\ wire' \in Seq(WireStreams) /\ Len(wire') = Len(w)
        /\ \A k \in 1..Len(w) : wire'[k] = IF k = n THEN new ELSE w[k]
    <3>1. /\ [w EXCEPT ![n] = new] \in Seq(WireStreams) /\ Len([w EXCEPT ![n] = new]) = Len(w)
          /\ \A k \in 1..Len(w) : [w EXCEPT ![n] = new][k] = IF k = n THEN new ELSE w[k]
      BY <1>1, <1>6, <2>1, ExceptSeq
    <3> QED BY <1>7, <3>1
  <2>3. /\ written' \in Seq(Seq(Nat)) /\ Len(written') = Len(o)
        /\ \A k \in 1..Len(o) : written'[k] = IF k = n THEN e ELSE o[k]
    <3>1. /\ [o EXCEPT ![n] = e] \in Seq(Seq(Nat)) /\ Len([o EXCEPT ![n] = e]) = Len(o)
          /\ \A k \in 1..Len(o) : [o EXCEPT ![n] = e][k] = IF k = n THEN e ELSE o[k]
      BY <1>1, <2>1, ExceptSeq
    <3> QED BY <1>7, <3>1
  <2> QED BY <1>1, <2>2, <2>3
<1>9. \A k \in 1..n : wire'[k].group = w[k].group
  BY <1>6, <1>8
<1>10. Grouped(wire')
  <2> SUFFICES ASSUME NEW i \in 1..n, NEW j \in 1..n, i < j
               PROVE  wire'[i].group < wire'[j].group
    BY <1>8 DEF Grouped
  <2>1. w[i].group < w[j].group
    BY <1>1 DEF Grouped
  <2> QED BY <1>9, <2>1
<1>11. Decodes(wire', written', WithReader)
  <2> SUFFICES ASSUME NEW k \in 1..n
               PROVE  /\ Len(wire'[k].deltas) = Len(written'[k])
                      /\ \A i \in 1..Len(written'[k]) :
                           wire'[k].deltas[i] = written'[k][i] - IdBefore(written'[k], i - 1) - 1
                      /\ WithReader[k].taken = Len(WithReader[k].got)
                      /\ WithReader[k].taken <= Len(written'[k])
                      /\ WithReader[k].prev = IdBefore(written'[k], WithReader[k].taken)
                      /\ \A i \in 1..Len(WithReader[k].got) :
                           WithReader[k].got[i] = written'[k][i]
    BY <1>8 DEF Decodes
  <2>1. CASE k # n
    <3>1. wire'[k] = w[k] /\ written'[k] = o[k] /\ k \in 1..Len(w)
      BY <1>1, <1>8, <2>1
    <3>2. /\ Len(w[k].deltas) = Len(o[k])
          /\ \A i \in 1..Len(o[k]) : w[k].deltas[i] = o[k][i] - IdBefore(o[k], i - 1) - 1
          /\ WithReader[k].taken = Len(WithReader[k].got) /\ WithReader[k].taken <= Len(o[k])
          /\ WithReader[k].prev = IdBefore(o[k], WithReader[k].taken)
          /\ \A i \in 1..Len(WithReader[k].got) : WithReader[k].got[i] = o[k][i]
      BY <1>1, <3>1 DEF Decodes
    <3> QED BY <3>1, <3>2
  <2>2. CASE k = n
    <3>1. wire'[k].deltas = d /\ written'[k] = e /\ n \in 1..Len(w)
      BY <1>1, <1>3, <1>6, <1>8, <2>2
    <3> DEFINE m == Len(o[n])
    <3>2. /\ m \in Nat /\ Len(d) = m + 1 /\ Len(e) = m + 1 /\ d[m + 1] = Delta
          /\ e[m + 1] = NextObject
          /\ \A i \in 1..m : d[i] = w[n].deltas[i] /\ e[i] = o[n][i]
      BY <1>5 DEF d, e
    <3>3. /\ \A i \in 1..m : w[n].deltas[i] = o[n][i] - IdBefore(o[n], i - 1) - 1
          /\ WithReader[n].taken = Len(WithReader[n].got) /\ WithReader[n].taken <= m
          /\ WithReader[n].prev = IdBefore(o[n], WithReader[n].taken)
          /\ \A i \in 1..Len(WithReader[n].got) : WithReader[n].got[i] = o[n][i]
          /\ Before = IdBefore(o[n], m)
      BY <1>1, <3>1 DEF Decodes
    <3>4. WithReader[n].taken \in Nat
      <4>1. WithReader[n] \in Readers
        BY <1>1, <1>3, ElementOfSeq
      <4> QED BY <4>1 DEF Readers
    <3> HIDE DEF m
    <3>5. \A i \in 0..m : IdBefore(e, i) = IdBefore(o[n], i)
      BY <3>2 DEF IdBefore
    <3>6. \A i \in 1..(m + 1) : d[i] = e[i] - IdBefore(e, i - 1) - 1
      <4> SUFFICES ASSUME NEW i \in 1..(m + 1) PROVE d[i] = e[i] - IdBefore(e, i - 1) - 1
        OBVIOUS
      <4>1. i - 1 \in 0..m /\ (i \in 1..m \/ i = m + 1)
        BY <3>2
      <4>2. IdBefore(e, i - 1) = IdBefore(o[n], i - 1)
        BY <3>5, <4>1
      <4>3. CASE i \in 1..m
        BY <3>2, <3>3, <4>2, <4>3
      <4>4. CASE i = m + 1
        <5>1. i - 1 = m
          BY <3>2, <4>4
        <5> QED BY <1>2, <3>2, <3>3, <4>2, <4>4, <5>1
      <4> QED BY <4>1, <4>3, <4>4
    <3>7. /\ WithReader[n].taken \in 0..m /\ WithReader[n].taken <= m + 1
          /\ \A i \in 1..Len(WithReader[n].got) : i \in 1..m
      BY <3>2, <3>3, <3>4
    <3> QED BY <2>2, <3>1, <3>2, <3>3, <3>5, <3>6, <3>7
  <2> QED BY <2>1, <2>2
<1>12. NextObject = IdBefore(written'[n], Len(written'[n]))
  <2>1. written'[n] = e /\ Len(e) = Len(o[n]) + 1 /\ e[Len(o[n]) + 1] = NextObject
        /\ Len(o[n]) + 1 # 0
    <3>1. written'[n] = e
      BY <1>3, <1>8
    <3>2. Len(e) = Len(o[n]) + 1 /\ Len(o[n]) \in Nat
      BY <1>5 DEF e
    <3>3. e[Len(o[n]) + 1] = NextObject
      BY <1>5 DEF e
    <3> QED BY <3>1, <3>2, <3>3
  <2> QED BY <2>1 DEF IdBefore
<1>13. StreamReady(wire', written', reader', n)
  BY <1>1, <1>3, <1>8, <1>9, <1>10, <1>11 DEF StreamReady
<1> QED BY <1>12, <1>13 DEF n

(* A write that fails ends the stream and nothing else.                     *)
LEMMA StreamReset ==
  ASSUME MediaInv, ended = "no"
  PROVE  StreamReady([Opened EXCEPT ![InUse].end = "reset"], WithWritten, WithReader, InUse)
<1> DEFINE n == InUse
           w == Opened
           new == [w[n] EXCEPT !.end = "reset"]
           v == [w EXCEPT ![n] = new]
<1>1. /\ w \in Seq(WireStreams) /\ Len(w) = n /\ n \in Nat \ {0}
      /\ Grouped(w) /\ w[n].group = NextGroup /\ \A k \in 1..n : w[k].group <= NextGroup
      /\ Decodes(w, WithWritten, WithReader)
      /\ WithWritten \in Seq(Seq(Nat)) /\ WithReader \in Seq(Readers)
      /\ Len(WithWritten) = n /\ Len(WithReader) = n
  BY StreamOpened DEF StreamReady
<1> HIDE DEF n, w
<1>2. n \in 1..Len(w) /\ w[n] \in WireStreams
  <2>1. n \in 1..Len(w)
    BY <1>1
  <2> QED BY <1>1, <2>1, ElementOfSeq
<1>3. new \in WireStreams /\ new.group = w[n].group /\ new.deltas = w[n].deltas
  BY <1>2 DEF WireStreams
<1> HIDE DEF new
<1>4. /\ v \in Seq(WireStreams) /\ Len(v) = Len(w)
      /\ \A k \in 1..Len(w) : v[k] = IF k = n THEN new ELSE w[k]
  BY <1>1, <1>2, <1>3, ExceptSeq
<1>5. [Opened EXCEPT ![InUse].end = "reset"] = v
  BY DEF n, w, new
<1> HIDE DEF v
<1>6. \A k \in 1..Len(w) : v[k].group = w[k].group /\ v[k].deltas = w[k].deltas
  BY <1>3, <1>4
<1>7. Grouped(v) /\ Decodes(v, WithWritten, WithReader)
  BY <1>1, <1>4, <1>6, OnlyEnds
<1>8. StreamReady(v, WithWritten, WithReader, n)
  BY <1>1, <1>2, <1>4, <1>6, <1>7 DEF StreamReady
<1> QED BY <1>5, <1>8 DEF n

LEMMA StreamStep ==
  ASSUME MediaInv, Filtered \/ Written \/ WriteFails
  PROVE  MediaInv'
<1>1. /\ IsDue /\ ended = "no" /\ lag >= 0 /\ NextGroup < MaxGroups /\ ~datagram
      /\ UNCHANGED <<datagram, publishAccepted, forward, grams, chan>> /\ reader' = WithReader
  BY DEF Filtered, Written, WriteFails, Opening, Sending, IsDue
<1>2. /\ lag \in 0..MaxLag /\ writeFailures \in 0..(MaxFailures - 1) /\ MaxFailures \in Nat \ {0}
      /\ PaceInv
  <2>1. lag \in -1..MaxLag /\ writeFailures \in 0..MaxFailures /\ writeFailures < MaxFailures
    BY <1>1 DEF MediaInv, MediaTypes, MediaTypeOK, NumberInv
  <2>2. MaxFailures \in Nat \ {0} /\ MaxLag \in Nat
    BY MediaAssumption
  <2> QED BY <1>1, <2>1, <2>2 DEF MediaInv
<1>3. /\ NextObject \in 0..(ObjectsPerGroup - 1) /\ Before \in -1..(NextObject - 1)
      /\ NextObject \in -1..NextObject /\ Before \in -1..NextObject
  BY NextNumbers
<1>4. CASE Filtered
  <2>1. /\ wire' = Opened /\ written' = WithWritten /\ stream' = InUse /\ group' = NextGroup
        /\ object' = NextObject + 1 /\ prev' = Before /\ UNCHANGED <<ended, writeFailures>>
        /\ AdvanceNextSend /\ allowance' = allowance - 1
    BY <1>4 DEF Filtered, Opening
  <2>2. StreamReady(wire', written', reader', InUse)
        /\ prev' = IdBefore(written'[InUse], Len(written'[InUse]))
    BY <1>1, <2>1, StreamOpened
  <2>3. PaceInv' /\ lag' \in -1..MaxLag
    BY <1>2, <2>1, Advances
  <2> QED BY <1>1, <1>2, <1>3, <2>1, <2>2, <2>3, StreamUsed
<1>5. CASE Written
  <2>1. /\ wire' = [Opened EXCEPT ![InUse].deltas = Append(@, Delta)]
        /\ written' = [WithWritten EXCEPT ![InUse] = Append(@, NextObject)]
        /\ stream' = InUse /\ group' = NextGroup
        /\ object' = NextObject + 1 /\ prev' = NextObject /\ ended' = ended /\ writeFailures' = 0
        /\ AdvanceNextSend /\ allowance' = allowance - 1
    BY <1>5 DEF Written, Opening
  <2>2. StreamReady(wire', written', reader', InUse)
        /\ prev' = IdBefore(written'[InUse], Len(written'[InUse]))
    BY <1>1, <2>1, ObjectOnWire
  <2>3. PaceInv' /\ lag' \in -1..MaxLag
    BY <1>2, <2>1, Advances
  <2>4. writeFailures' \in 0..(MaxFailures - 1)
    BY <1>2, <2>1
  <2> QED BY <1>1, <1>3, <2>1, <2>2, <2>3, <2>4, StreamUsed
<1>6. CASE WriteFails
  <2>1. /\ wire' = [Opened EXCEPT ![InUse].end = "reset"] /\ written' = WithWritten
        /\ stream' = 0 /\ group' = NextGroup + 1 /\ object' = 0 /\ prev' = None
        /\ writeFailures' = writeFailures + 1
        /\ ended' = IF writeFailures + 1 >= MaxFailures THEN "failed" ELSE "no"
        /\ UNCHANGED <<lag, allowance>>
    BY <1>6 DEF WriteFails
  <2>2. StreamReady(wire', written', reader', InUse)
    BY <1>1, <2>1, StreamReset
  <2>3. PaceInv' /\ lag' \in -1..MaxLag
    BY <1>2, <2>1 DEF PaceInv
  <2>4. writeFailures' \in 0..MaxFailures /\ ended' \in {"no", "failed"}
        /\ (ended' = "no" => writeFailures' < MaxFailures)
    BY <1>2, <2>1
  <2> QED BY <1>1, <2>1, <2>2, <2>3, <2>4, StreamUsed
<1> QED BY <1>4, <1>5, <1>6

(* A stream that is reset or finished outside of a write.                   *)
LEMMA PublisherEnds ==
  ASSUME MediaInv, Reset \/ SendFails \/ Finish
  PROVE  MediaInv'
<1>1. /\ MediaTypes /\ Len(wire) \in Nat /\ wire \in Seq(WireStreams) /\ DOMAIN wire = 1..Len(wire)
      /\ \A k \in 1..Len(wire) : wire[k] \in WireStreams
  BY Typed DEF MediaInv, MediaTypes
<1>2. \A k \in 1..Len(wire) : \A e \in {"fin", "reset"} :
        /\ [wire[k] EXCEPT !.end = e] \in WireStreams
        /\ [wire[k] EXCEPT !.end = e].group = wire[k].group
        /\ [wire[k] EXCEPT !.end = e].deltas = wire[k].deltas
  BY <1>1 DEF WireStreams
<1>3. /\ ended = "no" /\ stream' = 0
      /\ UNCHANGED <<datagram, publishAccepted, forward, lag, writeFailures, allowance, written, grams, reader, chan>>
      /\ \/ ended' \in {"closed", "failed"} /\ UNCHANGED <<group, object, prev>>
         \/ /\ stream # 0 /\ ended' = "no" /\ group' = group + 1 /\ object' = 0 /\ prev' = None
  BY DEF Reset, SendFails, Finish, IsDue, subVars
<1>4. /\ wire' \in [1..Len(wire) -> WireStreams]
      /\ \A k \in 1..Len(wire) : wire'[k].group = wire[k].group /\ wire'[k].deltas = wire[k].deltas
  <2>1. CASE Reset
    <3>1. wire' = [wire EXCEPT ![stream] = [wire[stream] EXCEPT !.end = "reset"]]
      BY <2>1 DEF Reset
    <3>2. stream \in 1..Len(wire)
      BY <1>1, <2>1 DEF Reset, MediaTypes, MediaTypeOK
    <3>3. /\ wire' \in [1..Len(wire) -> WireStreams]
          /\ \A k \in 1..Len(wire) :
               wire'[k] = IF k = stream THEN [wire[stream] EXCEPT !.end = "reset"] ELSE wire[k]
      <4>1. wire \in [1..Len(wire) -> WireStreams] /\ [wire[stream] EXCEPT !.end = "reset"] \in WireStreams
        BY <1>1, <1>2, <3>2, LenProperties
      <4> QED BY <3>1, <4>1
    <3> QED BY ZenonT(30), <1>2, <3>3
  <2>2. CASE SendFails
    <3>1. wire' = [k \in 1..Len(wire) |->
                     IF k = stream
                     THEN [wire[k] EXCEPT !.end = IF Complete THEN "fin" ELSE "reset"] ELSE wire[k]]
      BY <2>2 DEF SendFails, Streams
    <3>2. (IF Complete THEN "fin" ELSE "reset") \in {"fin", "reset"}
      OBVIOUS
    <3> QED BY <1>1, <1>2, <3>1, <3>2
  <2>3. CASE Finish
    <3>1. wire' = [k \in 1..Len(wire) |->
                     IF k = stream THEN [wire[k] EXCEPT !.end = "fin"] ELSE wire[k]]
      BY <2>3 DEF Finish, Streams
    <3> QED BY <1>1, <1>2, <3>1
  <2> QED BY <2>1, <2>2, <2>3
<1>5. wire' \in Seq(WireStreams) /\ Len(wire') = Len(wire)
  BY <1>1, <1>4, FunctionIsSeq
<1>6. Grouped(wire') /\ Decodes(wire', written, reader)
  BY <1>4, <1>5, OnlyEnds DEF MediaInv, GroupInv, DecodeInv
<1>7. /\ group \in 0..(MaxGroups + 1) /\ object \in 0..ObjectsPerGroup /\ MaxGroups \in Nat
      /\ ObjectsPerGroup \in Nat \ {0} /\ (stream # 0 => group < MaxGroups)
  BY MediaAssumption DEF MediaInv, MediaTypes, MediaTypeOK, GroupInv
<1>8. group' \in 0..(MaxGroups + 1) /\ object' \in 0..ObjectsPerGroup
      /\ prev' \in -1..ObjectsPerGroup
  BY SMTT(30), <1>1, <1>3, <1>7 DEF MediaTypes, MediaTypeOK, None
<1>9. MediaTypes'
  BY <1>1, <1>3, <1>5, <1>8 DEF MediaTypes, MediaTypeOK
<1>10. GroupInv'
  <2>1. \A k \in 1..Len(wire) : wire[k].group \in Nat /\ wire[k].group <= group
    BY <1>1 DEF WireStreams, MediaInv, GroupInv
  <2>2. \A k \in 1..Len(wire') : wire'[k].group <= group'
    BY <1>3, <1>4, <1>5, <1>7, <2>1
  <2>3. ended' = "no" => \A k \in 1..Len(wire') : wire'[k].group < group'
    BY <1>3, <1>4, <1>5, <1>7, <2>1
  <2> QED BY <1>3, <1>6, <2>2, <2>3 DEF GroupInv
<1>11. NumberInv'
  BY <1>3 DEF MediaInv, NumberInv, None
<1>12. DecodeInv' /\ DatagramInv' /\ PaceInv'
  BY <1>3, <1>6 DEF MediaInv, DecodeInv, DatagramInv, PaceInv
<1> QED BY <1>9, <1>10, <1>11, <1>12 DEF MediaInv

LEMMA DatagramStep ==
  ASSUME MediaInv, NEW passes \in BOOLEAN, Datagram(passes)
  PROVE  MediaInv'
<1>1. /\ ended = "no" /\ datagram /\ lag >= 0 /\ NextGroup < MaxGroups
      /\ group' = NextGroup /\ object' = NextObject + 1
      /\ AdvanceNextSend /\ allowance' = allowance - 1
      /\ UNCHANGED <<datagram, publishAccepted, forward, ended, stream, prev, writeFailures, wire, written,
                     reader, chan>>
  BY DEF Datagram, Sending, IsDue, subVars
<1>2. /\ NextObject \in 0..(ObjectsPerGroup - 1) /\ NextObject + 1 \in 0..ObjectsPerGroup
      /\ NextGroup \in Nat /\ group <= NextGroup /\ MaxGroups \in Nat /\ group \in Nat
  BY NextNumbers, MediaAssumption
<1>3. lag \in 0..MaxLag
  BY <1>1, MediaAssumption DEF MediaInv, MediaTypes, MediaTypeOK
<1>4. PaceInv' /\ lag' \in -1..MaxLag
  BY <1>1, <1>3, Advances DEF MediaInv
<1>5. MediaTypes'
  BY SMTT(30), <1>1, <1>2, <1>4 DEF MediaInv, MediaTypes, MediaTypeOK
<1>6. GroupInv'
  <2>1. \A k \in 1..Len(wire) : wire[k].group \in Nat
    BY Typed DEF MediaInv, WireStreams
  <2>2. stream = 0
    BY <1>1 DEF MediaInv, NumberInv
  <2>3. /\ Grouped(wire)
        /\ \A k \in 1..Len(wire) : wire[k].group <= group /\ wire[k].group < group
    BY <1>1, <2>2 DEF MediaInv, GroupInv
  <2>4. \A k \in 1..Len(wire) : wire[k].group <= NextGroup /\ wire[k].group < NextGroup
    BY <1>2, <2>1, <2>3
  <2> QED BY <1>1, <2>2, <2>3, <2>4 DEF GroupInv
<1>7. NumberInv'
  BY <1>1, <1>2 DEF MediaInv, NumberInv, None
<1>8. DecodeInv'
  BY <1>1 DEF MediaInv, DecodeInv
<1>9. DatagramInv'
  <2>1. \A d \in grams' : d \in grams \/ (d.object = NextObject /\ d.last = IsEndOfGroup(NextObject))
    BY DEF Datagram
  <2> QED BY <1>2, <2>1 DEF MediaInv, DatagramInv
<1> QED BY <1>4, <1>5, <1>6, <1>7, <1>8, <1>9 DEF MediaInv

-----------------------------------------------------------------------------
(* The subscriber.                                                          *)

(* What a reader knows is a beginning of what was written on its stream.    *)
Knows(r, o) ==
  /\ r.taken = Len(r.got) /\ r.taken <= Len(o) /\ r.prev = IdBefore(o, r.taken)
  /\ \A i \in 1..Len(r.got) : r.got[i] = o[i]

(* A reader that steps and tells the session's task.                        *)
LEMMA ReaderStep ==
  ASSUME MediaInv, NEW k \in Streams, NEW new \in Readers, Knows(new, written[k]),
         NEW kind \in {"header", "object", "over"}, Room, Tell(Message(kind, k)),
         reader' = [reader EXCEPT ![k] = new], UNCHANGED <<pubVars, wireVars>>
  PROVE  MediaInv'
<1>1. /\ MediaTypes /\ reader \in Seq(Readers) /\ Len(reader) = Len(wire) /\ Len(wire) \in Nat
      /\ chan \in Seq(MediaMessages) /\ k \in 1..Len(reader)
  BY Typed DEF MediaInv, MediaTypes, Streams
<1>2. /\ [reader EXCEPT ![k] = new] \in Seq(Readers)
      /\ Len([reader EXCEPT ![k] = new]) = Len(reader)
      /\ \A j \in 1..Len(reader) : [reader EXCEPT ![k] = new][j] = IF j = k THEN new ELSE reader[j]
  BY <1>1, ExceptSeq
<1>3. /\ reader' \in Seq(Readers) /\ Len(reader') = Len(wire)
      /\ \A j \in 1..Len(wire) : reader'[j] = IF j = k THEN new ELSE reader[j]
  BY <1>1, <1>2
<1>4. UNCHANGED <<datagram, ended, publishAccepted, forward, lag, stream, group, object, prev, writeFailures,
                  allowance, wire, written, grams>>
  BY DEF pubVars, wireVars
<1>5. chan' \in Seq(MediaMessages) /\ Len(chan') <= Capacity
  <2>1. Message(kind, k) \in MediaMessages /\ Capacity \in Nat
    BY <1>1, MediaAssumption DEF Message, MediaMessages
  <2>2. chan' = Append(chan, Message(kind, k))
    BY DEF Tell
  <2>3. Len(chan) \in Nat /\ Len(chan) < Capacity
    BY <1>1, LenProperties DEF Room
  <2>4. chan' \in Seq(MediaMessages) /\ Len(chan') = Len(chan) + 1
    BY <1>1, <2>1, <2>2, AppendProperties
  <2> QED BY <2>1, <2>3, <2>4
<1>6. MediaTypes'
  BY <1>3, <1>4, <1>5 DEF MediaInv, MediaTypes, MediaTypeOK
<1>7. Decodes(wire, written, reader')
  <2> SUFFICES ASSUME NEW j \in 1..Len(wire)
               PROVE  /\ Len(wire[j].deltas) = Len(written[j])
                      /\ \A i \in 1..Len(written[j]) :
                           wire[j].deltas[i] = written[j][i] - IdBefore(written[j], i - 1) - 1
                      /\ Knows(reader'[j], written[j])
    BY DEF Decodes, Knows
  <2>1. CASE j = k
    BY <1>3, <2>1 DEF MediaInv, DecodeInv, Decodes
  <2>2. CASE j # k
    BY <1>3, <2>2 DEF MediaInv, DecodeInv, Decodes, Knows
  <2> QED BY <2>1, <2>2
<1>8. GroupInv' /\ NumberInv' /\ DecodeInv' /\ DatagramInv' /\ PaceInv'
  BY <1>4, <1>7 DEF MediaInv, GroupInv, NumberInv, DecodeInv, DatagramInv, PaceInv
<1> QED BY <1>6, <1>8 DEF MediaInv

LEMMA HeaderOrEndStep ==
  ASSUME MediaInv, NEW k \in Streams, ReadHeader(k) \/ ReadEnd(k)
  PROVE  MediaInv'
<1>1. PICK at \in {"object", "done"}, kind \in {"header", "over"} :
        /\ Room /\ Tell(Message(kind, k)) /\ UNCHANGED <<pubVars, wireVars>>
        /\ reader' = [reader EXCEPT ![k] = [reader[k] EXCEPT !.at = at]]
  BY DEF ReadHeader, ReadEnd
<1> DEFINE new == [reader[k] EXCEPT !.at = at]
<1>2. reader[k] \in Readers
  BY Typed DEF MediaInv, Streams
<1>3. /\ new \in Readers /\ new.taken = reader[k].taken /\ new.prev = reader[k].prev
      /\ new.got = reader[k].got
  BY <1>2 DEF Readers
<1> HIDE DEF new
<1>4. Knows(new, written[k])
  BY <1>3 DEF Knows, MediaInv, DecodeInv, Decodes, Streams
<1>5. reader' = [reader EXCEPT ![k] = new]
  BY <1>1 DEF new
<1> QED BY <1>1, <1>3, <1>4, <1>5, ReaderStep

(* The decoder adds the difference to the object before, which is the       *)
(* object the publisher took the difference to.                             *)
LEMMA ObjectStep ==
  ASSUME MediaInv, NEW k \in Streams, ReadObject(k)
  PROVE  MediaInv'
<1> DEFINE r == reader[k]
           o == written[k]
           n == r.taken
           id == r.prev + wire[k].deltas[n + 1] + 1
           g == Append(r.got, id)
           new == [at |-> "object", taken |-> n + 1, prev |-> id, got |-> g]
<1>1. /\ r \in Readers /\ n \in Nat /\ n = Len(r.got) /\ r.got \in Seq(Int) /\ o \in Seq(Nat)
      /\ Len(o) \in Nat /\ r.prev = IdBefore(o, n) /\ Len(wire[k].deltas) = Len(o)
      /\ \A i \in 1..Len(r.got) : r.got[i] = o[i]
      /\ \A i \in 1..Len(o) : wire[k].deltas[i] = o[i] - IdBefore(o, i - 1) - 1
  BY Typed DEF MediaInv, Streams, DecodeInv, Decodes, Readers
<1>2. /\ n < Len(wire[k].deltas) /\ Room /\ Tell(Message("object", k))
      /\ UNCHANGED <<pubVars, wireVars>>
  BY DEF ReadObject
<1>3. n + 1 \in 1..Len(o) /\ (n + 1) - 1 = n /\ n \in 0..Len(o)
  BY <1>1, <1>2
<1>4. o[n + 1] \in Nat /\ (n # 0 => o[n] \in Nat)
  <2>1. \A i \in 1..Len(o) : o[i] \in Nat
    BY <1>1, ElementOfSeq
  <2> HIDE DEF r, o, n
  <2>2. n # 0 => n \in 1..Len(o)
    BY <1>1, <1>3
  <2> QED BY <1>3, <2>1, <2>2
<1>5. id = o[n + 1] /\ id \in Int
  <2>1. wire[k].deltas[n + 1] = o[n + 1] - IdBefore(o, n) - 1
    BY <1>1, <1>3
  <2>2. IdBefore(o, n) \in Int
    BY <1>4 DEF IdBefore, None
  <2>3. id = IdBefore(o, n) + wire[k].deltas[n + 1] + 1 /\ o[n + 1] \in Nat
    BY <1>1, <1>4
  <2> HIDE DEF r, o, n, id
  <2> QED BY <2>1, <2>2, <2>3
<1>6. reader' = [reader EXCEPT ![k] = new]
  BY DEF ReadObject
<1> HIDE DEF r, o, n, id
<1>7. /\ g \in Seq(Int) /\ Len(g) = n + 1 /\ g[n + 1] = id
      /\ \A i \in 1..n : g[i] = r.got[i]
  BY <1>1, <1>5, AppendProperties
<1> HIDE DEF g
<1>8. new \in Readers
  BY <1>1, <1>3, <1>5, <1>7 DEF Readers
<1>9. Knows(new, o)
  <2>1. \A i \in 1..(n + 1) : i \in 1..n \/ i = n + 1
    BY <1>1
  <2>2. \A i \in 1..(n + 1) : g[i] = o[i]
    BY <1>1, <1>5, <1>7, <2>1
  <2>3. n + 1 # 0 /\ n + 1 <= Len(o)
    BY <1>1, <1>3
  <2> QED BY <1>5, <1>7, <2>2, <2>3 DEF Knows, IdBefore
<1> HIDE DEF new
<1> QED BY <1>2, <1>6, <1>8, <1>9, ReaderStep DEF o

LEMMA ReceiveStep ==
  ASSUME MediaInv, Receive
  PROVE  MediaInv'
<1>1. /\ chan # <<>> /\ chan' = Tail(chan)
      /\ UNCHANGED <<datagram, ended, publishAccepted, forward, lag, stream, group, object, prev,
                     writeFailures, allowance, wire, written, grams, reader>>
  BY DEF Receive, pubVars, wireVars
<1>2. chan \in Seq(MediaMessages) /\ Len(chan) <= Capacity /\ Capacity \in Nat
  BY MediaAssumption DEF MediaInv, MediaTypes, MediaTypeOK
<1>3. chan' \in Seq(MediaMessages) /\ Len(chan') = Len(chan) - 1 /\ Len(chan) \in Nat
  BY <1>1, <1>2, HeadTailProperties, LenProperties
<1>4. Len(chan') <= Capacity
  BY <1>2, <1>3
<1>5. MediaTypes'
  BY <1>1, <1>3, <1>4 DEF MediaInv, MediaTypes, MediaTypeOK
<1>6. GroupInv' /\ NumberInv' /\ DecodeInv' /\ DatagramInv' /\ PaceInv'
  BY <1>1 DEF MediaInv, GroupInv, NumberInv, DecodeInv, DatagramInv, PaceInv
<1> QED BY <1>5, <1>6 DEF MediaInv

-----------------------------------------------------------------------------
(* The invariant holds in every state.                                      *)

LEMMA MediaNextInv == MediaInv /\ [MediaNext]_mediaVars => MediaInv'
<1> SUFFICES ASSUME MediaInv, [MediaNext]_mediaVars PROVE MediaInv'
  OBVIOUS
<1>1. CASE Publisher
  BY <1>1, ScheduleStep, StreamStep, PublisherEnds, DatagramStep DEF Publisher
<1>2. CASE Subscriber
  BY <1>2, HeaderOrEndStep, ObjectStep, ReceiveStep DEF Subscriber
<1>3. CASE UNCHANGED mediaVars
  BY <1>3 DEF mediaVars, pubVars, wireVars, subVars, MediaInv, MediaTypes, MediaTypeOK, GroupInv, NumberInv,
              DecodeInv, DatagramInv, PaceInv
<1> QED BY <1>1, <1>2, <1>3 DEF MediaNext, MediaTerminated

LEMMA MediaInvariance == MediaSpec => []MediaInv
<1> QED BY MediaInitInv, MediaNextInv, PTL DEF MediaSpec

-----------------------------------------------------------------------------
(* The theorems.                                                            *)

LEMMA InvDecodes == MediaInv => DecodedAsSent
<1> SUFFICES ASSUME MediaInv, NEW k \in Streams PROVE IsPrefixOf(reader[k].got, written[k])
  BY DEF DecodedAsSent
<1> QED BY DEF MediaInv, DecodeInv, Decodes, Streams, IsPrefixOf

LEMMA InvPublishes == MediaInv => PublishesInOrder
<1> SUFFICES ASSUME MediaInv PROVE PublishesInOrder
  OBVIOUS
<1>1. MediaTypeOK /\ GroupsNeverReopened
  BY DEF MediaInv, MediaTypes, GroupInv, Grouped, GroupsNeverReopened, Streams
<1>2. EndOfGroupIsLast
  BY MediaAssumption DEF MediaInv, DatagramInv, EndOfGroupIsLast, IsEndOfGroup
<1>3. Pacing
  BY DEF MediaInv, PaceInv, Pacing
<1> QED BY <1>1, <1>2, <1>3 DEF PublishesInOrder

(* A reader decodes what was written on its stream, in order: the object    *)
(* ids the publisher never sent as such, only as differences, come out the  *)
(* same behind any filter, reset, failed write or early FIN.                *)
THEOREM DecodesAsSent == MediaSpec => []DecodedAsSent
<1> QED BY MediaInvariance, InvDecodes, PTL

(* The publisher opens each group once and in order, on streams as behind   *)
(* resets and failed writes, marks the last datagram of a group and no      *)
(* other, and never sends more than its schedule owes.                      *)
THEOREM PublishesOrderly == MediaSpec => []PublishesInOrder
<1> QED BY MediaInvariance, InvPublishes, PTL

-----------------------------------------------------------------------------
(* What the session's task counts.                                          *)

ObjectWeight == [m \in MediaMessages |-> IF m.kind = "object" THEN 1 ELSE 0]
Taken(r) == [k \in 1..Len(r) |-> r[k].taken]

(* What the readers took is counted or in the channel; the count for the    *)
(* subscription is never behind the one in total.                           *)
CountInv ==
  /\ counts.total \in Nat /\ counts.subscription = counts.total
  /\ counts.total + Tally(ObjectWeight, chan) = Total(Taken(reader))

(* The open stream has not ended, and a reader that is done read a stream   *)
(* that has, to its FIN if there was one.                                   *)
EndsInv ==
  /\ stream # 0 => wire[stream].end = "open"
  /\ \A k \in 1..Len(wire) : reader[k].at = "done" =>
       /\ wire[k].end # "open"
       /\ wire[k].end = "fin" => reader[k].taken = Len(wire[k].deltas)

(* The messages of a stream: its header first, which is known or ahead, and *)
(* its end last, when its reader is done.                                   *)
Headed(ch, al, k, n) == k \in al \/ \E j \in 1..n : ch[j].kind = "header" /\ ch[j].stream = k

Ordered(ch, al, r) ==
  /\ \A i \in 1..Len(ch) : ch[i].stream \in 1..Len(r)
  /\ \A i \in 1..Len(ch) : ch[i].kind = "object" => Headed(ch, al, ch[i].stream, i - 1)
  /\ \A i \in 1..Len(ch) : ch[i].kind = "over" =>
       /\ r[ch[i].stream].at = "done"
       /\ \A j \in (i + 1)..Len(ch) : ch[j].stream # ch[i].stream
  /\ \A k \in 1..Len(r) : r[k].at = "object" => Headed(ch, al, k, Len(ch))

CountedInv == CountInv /\ EndsInv /\ Ordered(chan, aliases, reader)

LEMMA ObjectWeights == ObjectWeight \in [MediaMessages -> Nat]
BY DEF ObjectWeight

LEMMA TakenType ==
  ASSUME NEW r \in Seq(Readers)
  PROVE  /\ Taken(r) \in Seq(Nat) /\ Len(Taken(r)) = Len(r)
         /\ \A k \in 1..Len(r) : Taken(r)[k] = r[k].taken
<1>1. Len(r) \in Nat /\ \A k \in 1..Len(r) : r[k] \in Readers
  BY LenProperties, ElementOfSeq
<1>2. Taken(r) \in [1..Len(r) -> Nat]
  BY <1>1 DEF Taken, Readers
<1>3. Taken(r) \in Seq(Nat) /\ Len(Taken(r)) = Len(r)
  BY <1>1, <1>2, FunctionIsSequence
<1> QED BY <1>3 DEF Taken

LEMMA SameTaken ==
  ASSUME NEW r \in Seq(Readers), NEW s \in Seq(Readers), Len(s) = Len(r),
         \A k \in 1..Len(r) : s[k].taken = r[k].taken
  PROVE  Taken(s) = Taken(r)
BY DEF Taken

(* A new reader has taken nothing, and nothing is said of its stream.       *)
LEMMA ReaderAdded ==
  ASSUME NEW ch \in Seq(MediaMessages), NEW al, NEW r \in Seq(Readers), Ordered(ch, al, r)
  PROVE  Ordered(ch, al, Append(r, FreshReader)) /\ Total(Taken(Append(r, FreshReader))) = Total(Taken(r))
<1> DEFINE s == Append(r, FreshReader)
<1>1. FreshReader \in Readers /\ FreshReader.at = "header" /\ FreshReader.taken = 0
  BY DEF FreshReader, Readers, None
<1>2. /\ s \in Seq(Readers) /\ Len(s) = Len(r) + 1 /\ Len(r) \in Nat /\ s[Len(r) + 1] = FreshReader
      /\ \A k \in 1..Len(r) : s[k] = r[k]
  BY <1>1, AppendProperties, LenProperties
<1> HIDE DEF s
<1>3. \A k \in 1..Len(s) : k \in 1..Len(r) \/ k = Len(r) + 1
  BY <1>2
<1>4. 1..Len(r) \subseteq 1..Len(s)
  BY <1>2
<1>5. Ordered(ch, al, s)
  <2>1. \A i \in 1..Len(ch) : ch[i].stream \in 1..Len(r) /\ s[ch[i].stream] = r[ch[i].stream]
    BY <1>2 DEF Ordered
  <2>2. \A k \in 1..Len(s) : s[k].at = "object" => Headed(ch, al, k, Len(ch))
    <3> SUFFICES ASSUME NEW k \in 1..Len(s), s[k].at = "object" PROVE Headed(ch, al, k, Len(ch))
      OBVIOUS
    <3>1. k \in 1..Len(r) /\ r[k].at = "object"
      BY <1>1, <1>2, <1>3
    <3> QED BY <3>1 DEF Ordered
  <2> QED BY <1>4, <2>1, <2>2 DEF Ordered
<1>6. Total(Taken(s)) = Total(Taken(r))
  <2>1. Taken(r) \in Seq(Nat) /\ Len(Taken(r)) = Len(r)
    BY TakenType
  <2>2. <<0>> \in Seq(Nat) /\ Total(<<0>>) = 0 /\ Len(<<0>>) = 1 /\ <<0>>[1] = 0
    BY TotalOfOne
  <2>3. Taken(s) = Taken(r) \o <<0>>
    <3>1. Taken(s) \in Seq(Nat) /\ Len(Taken(s)) = Len(r) + 1 /\ \A k \in 1..Len(s) : Taken(s)[k] = s[k].taken
      BY <1>2, TakenType
    <3>2. /\ Taken(r) \o <<0>> \in Seq(Nat) /\ Len(Taken(r) \o <<0>>) = Len(r) + 1
          /\ \A k \in 1..Len(r) : (Taken(r) \o <<0>>)[k] = Taken(r)[k]
          /\ (Taken(r) \o <<0>>)[Len(r) + 1] = 0
      <4>1. /\ Taken(r) \o <<0>> \in Seq(Nat) /\ Len(Taken(r) \o <<0>>) = Len(r) + 1
            /\ \A k \in 1..Len(r) : (Taken(r) \o <<0>>)[k] = Taken(r)[k]
            /\ \A k \in 1..1 : (Taken(r) \o <<0>>)[Len(r) + k] = <<0>>[k]
        BY <2>1, <2>2, ConcatElements
      <4>2. 1 \in 1..1
        OBVIOUS
      <4> QED BY <2>2, <4>1, <4>2
    <3>3. \A k \in 1..Len(r) : Taken(r)[k] = r[k].taken
      BY TakenType
    <3>4. \A k \in 1..Len(s) : Taken(s)[k] = (Taken(r) \o <<0>>)[k]
      <4> SUFFICES ASSUME NEW k \in 1..Len(s) PROVE Taken(s)[k] = (Taken(r) \o <<0>>)[k]
        OBVIOUS
      <4>1. CASE k \in 1..Len(r)
        BY ONLY <1>2, <3>1, <3>2, <3>3, <4>1
      <4>2. CASE k = Len(r) + 1
        BY ONLY <1>1, <1>2, <3>1, <3>2, <4>2
      <4> QED BY <1>3, <4>1, <4>2
    <3> HIDE DEF Taken
    <3>5. Len(s) = Len(r) + 1
      BY <1>2
    <3> QED BY <3>1, <3>2, <3>4, <3>5, SeqEqual
  <2>4. Total(Taken(r) \o <<0>>) = Total(Taken(r)) + Total(<<0>>)
    BY <2>1, <2>2, TotalOfConcat
  <2>5. Total(Taken(r)) \in Nat
    BY <2>1, TotalIsNat
  <2> QED BY <2>2, <2>3, <2>4, <2>5
<1> QED BY <1>5, <1>6 DEF s

(* A reader steps and tells: the end is the last it says.                   *)
LEMMA MessageTold ==
  ASSUME NEW ch \in Seq(MediaMessages), NEW al, NEW r \in Seq(Readers), Ordered(ch, al, r),
         NEW k \in 1..Len(r), r[k].at # "done", NEW new \in Readers,
         NEW kind \in {"header", "object", "over"},
         kind = "header" => new.at = "object",
         kind = "object" => r[k].at = "object" /\ new.at = "object",
         kind = "over" => new.at = "done"
  PROVE  Ordered(Append(ch, Message(kind, k)), al, [r EXCEPT ![k] = new])
<1> DEFINE m == Message(kind, k)
           c == Append(ch, m)
           s == [r EXCEPT ![k] = new]
           n == Len(ch)
<1>1. /\ n \in Nat /\ Len(r) \in Nat /\ k \in Nat
      /\ m \in MediaMessages /\ m.kind = kind /\ m.stream = k
  BY LenProperties DEF Message, MediaMessages
<1>2. Len(c) = n + 1 /\ c[n + 1] = m /\ \A i \in 1..n : c[i] = ch[i]
  BY <1>1, AppendProperties
<1>3. Len(s) = Len(r) /\ \A j \in 1..Len(r) : s[j] = IF j = k THEN new ELSE r[j]
  BY ExceptSeq
<1> HIDE DEF m, c, s, n
<1>4. \A i \in 1..(n + 1) : i \in 1..n \/ i = n + 1
  BY <1>1
<1>5. \A x : \A j \in Nat : j \in 0..n /\ Headed(ch, al, x, j) => Headed(c, al, x, j)
  BY <1>1, <1>2 DEF Headed
<1>6. \A x : Headed(ch, al, x, n) => Headed(c, al, x, n + 1)
  BY <1>1, <1>2 DEF Headed
<1>7. \A i \in 1..n : ch[i].kind = "over" => ch[i].stream # k
  BY DEF Ordered, n
<1>8. \A i \in 1..(n + 1) : c[i].stream \in 1..Len(s)
  BY <1>1, <1>2, <1>3, <1>4 DEF Ordered, n
<1>9. \A i \in 1..(n + 1) : c[i].kind = "object" => Headed(c, al, c[i].stream, i - 1)
  <2> SUFFICES ASSUME NEW i \in 1..(n + 1), c[i].kind = "object" PROVE Headed(c, al, c[i].stream, i - 1)
    OBVIOUS
  <2>1. CASE i \in 1..n
    <3>1. Headed(ch, al, ch[i].stream, i - 1)
      BY <1>2, <2>1 DEF Ordered, n
    <3>2. i - 1 \in 0..n /\ i - 1 \in Nat
      BY <1>1, <2>1
    <3> QED BY <1>2, <1>5, <2>1, <3>1, <3>2
  <2>2. CASE i = n + 1
    <3>1. Headed(ch, al, k, n)
      BY <1>1, <1>2, <2>2 DEF Ordered, n
    <3>2. n \in 0..n /\ n + 1 - 1 = n
      BY <1>1
    <3> QED BY <1>1, <1>2, <1>5, <2>2, <3>1, <3>2
  <2> QED BY <1>4, <2>1, <2>2
<1>10. ASSUME NEW i \in 1..(n + 1), c[i].kind = "over"
       PROVE  /\ s[c[i].stream].at = "done"
              /\ \A j \in (i + 1)..(n + 1) : c[j].stream # c[i].stream
  <2>1. CASE i \in 1..n
    <3>1. /\ c[i] = ch[i] /\ ch[i].stream \in 1..Len(r) /\ r[ch[i].stream].at = "done" /\ ch[i].stream # k
          /\ \A j \in (i + 1)..n : ch[j].stream # ch[i].stream
      BY <1>2, <1>7, <1>10, <2>1 DEF Ordered, n
    <3>2. s[c[i].stream].at = "done"
      BY <1>3, <3>1
    <3>3. \A j \in (i + 1)..(n + 1) : (j \in 1..n /\ j \in (i + 1)..n) \/ j = n + 1
      BY <1>1, <2>1
    <3>4. \A j \in (i + 1)..(n + 1) : c[j].stream # c[i].stream
      BY <1>1, <1>2, <3>1, <3>3
    <3> QED BY <3>2, <3>4
  <2>2. CASE i = n + 1
    <3>1. c[i].stream = k /\ s[k].at = "done"
      BY <1>1, <1>2, <1>3, <1>10, <2>2
    <3>2. (i + 1)..(n + 1) = {}
      BY <1>1, <2>2
    <3> QED BY <3>1, <3>2
  <2> QED BY <1>4, <2>1, <2>2
<1>11. ASSUME NEW j \in 1..Len(s), s[j].at = "object" PROVE Headed(c, al, j, n + 1)
  <2>1. CASE j # k \/ r[k].at = "object"
    <3>1. j \in 1..Len(r) /\ r[j].at = "object"
      BY <1>3, <1>11, <2>1
    <3> QED BY <1>6, <3>1 DEF Ordered, n
  <2>2. CASE j = k /\ r[k].at # "object"
    <3>1. kind = "header"
      BY <1>3, <1>11, <2>2
    <3>2. n + 1 \in 1..(n + 1) /\ c[n + 1].kind = "header" /\ c[n + 1].stream = j
      BY <1>1, <1>2, <2>2, <3>1
    <3> QED BY <3>2 DEF Headed
  <2> QED BY <2>1, <2>2
<1>12. Len(c) = n + 1
  BY <1>2
<1>13. Ordered(c, al, s)
  BY <1>8, <1>9, <1>10, <1>11, <1>12 DEF Ordered
<1> QED BY <1>13 DEF c, s, m

(* The session's task takes a message: an object's stream is known.         *)
LEMMA MessageTaken ==
  ASSUME NEW ch \in Seq(MediaMessages), ch # <<>>, NEW al, NEW r \in Seq(Readers), Ordered(ch, al, r),
         NEW new, new = IF Head(ch).kind = "header" THEN al \cup {Head(ch).stream}
                        ELSE IF Head(ch).kind = "over" THEN al \ {Head(ch).stream} ELSE al
  PROVE  /\ Head(ch).kind = "object" => Head(ch).stream \in al
         /\ Ordered(Tail(ch), new, r)
<1> DEFINE c == Tail(ch)
           n == Len(c)
<1>1. /\ Len(ch) = n + 1 /\ n \in Nat /\ Head(ch) = ch[1]
      /\ \A i \in 1..n : c[i] = ch[i + 1] /\ i + 1 \in 1..Len(ch)
  BY TailElements
<1>2. 1 \in 1..Len(ch)
  BY <1>1
<1> HIDE DEF c, n
<1>3. ch[1].kind = "object" => ch[1].stream \in al
  <2> SUFFICES ASSUME ch[1].kind = "object" PROVE ch[1].stream \in al
    OBVIOUS
  <2>1. Headed(ch, al, ch[1].stream, 1 - 1)
    BY <1>2 DEF Ordered
  <2> QED BY <2>1 DEF Headed
<1>4. ASSUME NEW x, NEW i \in 0..n, Headed(ch, al, x, i + 1),
             ch[1].kind = "over" => x # ch[1].stream
      PROVE  Headed(c, new, x, i)
  <2>1. CASE x \in al
    BY <1>1, <1>4, <2>1 DEF Headed
  <2>2. CASE \E j \in 1..(i + 1) : ch[j].kind = "header" /\ ch[j].stream = x
    <3>1. PICK j \in 1..(i + 1) : ch[j].kind = "header" /\ ch[j].stream = x
      BY <2>2
    <3>2. CASE j = 1
      BY <1>1, <3>1, <3>2 DEF Headed
    <3>3. CASE j # 1
      <4>1. j - 1 \in 1..i /\ j - 1 \in 1..n /\ (j - 1) + 1 = j
        BY <1>1, <3>3
      <4>2. c[j - 1] = ch[j]
        BY <1>1, <4>1
      <4> QED BY <3>1, <4>1, <4>2 DEF Headed
    <3> QED BY <3>2, <3>3
  <2> QED BY <1>4, <2>1, <2>2 DEF Headed
<1>5. ch[1].kind = "over" => \A i \in 2..Len(ch) : ch[i].stream # ch[1].stream
  BY <1>2 DEF Ordered
<1>6. \A i \in 1..n : c[i].stream \in 1..Len(r)
  BY <1>1 DEF Ordered
<1>7. ASSUME NEW i \in 1..n, c[i].kind = "object" PROVE Headed(c, new, c[i].stream, i - 1)
  <2>1. i + 1 \in 2..Len(ch) /\ i + 1 \in 1..Len(ch) /\ i - 1 \in 0..n /\ (i - 1) + 1 = (i + 1) - 1
    BY <1>1
  <2>2. c[i] = ch[i + 1]
    BY <1>1
  <2>3. Headed(ch, al, ch[i + 1].stream, (i + 1) - 1)
    BY <1>7, <2>1, <2>2 DEF Ordered
  <2>4. ch[1].kind = "over" => ch[i + 1].stream # ch[1].stream
    BY <1>5, <2>1
  <2>5. Headed(ch, al, ch[i + 1].stream, (i - 1) + 1)
    BY <2>1, <2>3
  <2> QED BY <1>4, <2>1, <2>2, <2>4, <2>5
<1>8. ASSUME NEW i \in 1..n, c[i].kind = "over"
      PROVE  r[c[i].stream].at = "done" /\ \A j \in (i + 1)..n : c[j].stream # c[i].stream
  <2>1. c[i] = ch[i + 1] /\ i + 1 \in 1..Len(ch)
    BY <1>1
  <2>2. r[c[i].stream].at = "done" /\ \A j \in ((i + 1) + 1)..Len(ch) : ch[j].stream # c[i].stream
    BY <1>8, <2>1 DEF Ordered
  <2>3. \A j \in (i + 1)..n : j \in 1..n /\ j + 1 \in ((i + 1) + 1)..Len(ch)
    BY <1>1
  <2> QED BY <1>1, <2>2, <2>3
<1>9. ASSUME NEW k \in 1..Len(r), r[k].at = "object" PROVE Headed(c, new, k, n)
  <2>1. Headed(ch, al, k, n + 1)
    BY <1>1, <1>9 DEF Ordered
  <2>2. ch[1].kind = "over" => k # ch[1].stream
    BY <1>2, <1>9 DEF Ordered
  <2>3. n \in 0..n
    BY <1>1
  <2> QED BY <1>4, <2>1, <2>2, <2>3
<1>10. Ordered(c, new, r)
  BY <1>6, <1>7, <1>8, <1>9 DEF Ordered, n
<1> QED BY <1>1, <1>3, <1>10 DEF c

(* The stream in use is open, and what ended before stays as it was.        *)
LEMMA StreamInUse ==
  ASSUME MediaInv, EndsInv, ended = "no"
  PROVE  /\ Opened[InUse].end = "open"
         /\ \A k \in 1..Len(wire) : wire[k].end # "open" => k # InUse /\ Opened[k] = wire[k]
         /\ \/ WithReader = reader /\ InUse = Len(wire)
            \/ WithReader = Append(reader, FreshReader) /\ InUse = Len(wire) + 1
<1>1. Len(wire) \in Nat
  BY Typed DEF MediaInv
<1>2. \A k \in 1..Len(wire) : wire[k].end # "open" => k # stream
  BY DEF EndsInv
<1>3. CASE Reuses
  <2>1. /\ Opened = wire /\ InUse = Len(wire) /\ WithReader = reader
        /\ stream # 0 /\ stream = Len(wire) /\ wire[stream].end = "open"
    BY <1>3 DEF Opened, InUse, WithReader, Reuses, MediaInv, GroupInv, EndsInv
  <2> QED BY <1>2, <2>1
<1>4. CASE ~Reuses
  <2> DEFINE fresh == [group |-> NextGroup, deltas |-> <<>>, end |-> "open"]
  <2>1. Finned \in Seq(WireStreams) /\ Len(Finned) = Len(wire)
    BY <1>4, FreshStream
  <2>2. NextGroup \in Nat /\ <<>> \in Seq(Nat)
    BY NextNumbers, EmptySeq
  <2>3. fresh \in WireStreams /\ fresh.end = "open"
    BY <2>2 DEF WireStreams
  <2>4. Opened = Append(Finned, fresh) /\ WithReader = Append(reader, FreshReader)
    BY <1>4 DEF Opened, WithReader
  <2>5. \A k \in 1..Len(wire) : wire[k].end # "open" => Finned[k] = wire[k]
    BY <1>2 DEF Finned, Streams
  <2> HIDE DEF fresh
  <2>6. /\ Len(Opened) = Len(wire) + 1 /\ Opened[Len(wire) + 1] = fresh
        /\ \A k \in 1..Len(wire) : Opened[k] = Finned[k]
    BY <1>1, <2>1, <2>3, <2>4, AppendProperties
  <2> QED BY <1>1, <2>3, <2>4, <2>5, <2>6 DEF InUse
<1> QED BY <1>3, <1>4

(* The publisher says nothing to the session's task; a stream it opens has  *)
(* a fresh reader.                                                          *)
LEMMA PublisherCounts ==
  ASSUME MediaInv, CountedInv, UNCHANGED <<chan, aliases, counts>>,
         \/ reader' = reader /\ Len(wire') = Len(wire)
         \/ reader' = Append(reader, FreshReader) /\ Len(wire') = Len(wire) + 1,
         \A k \in 1..Len(wire) : wire[k].end # "open" => wire'[k] = wire[k],
         stream' # 0 => wire'[stream'].end = "open"
  PROVE  CountedInv'
<1>1. /\ reader \in Seq(Readers) /\ chan \in Seq(MediaMessages) /\ Len(wire) \in Nat /\ Len(reader) = Len(wire)
  BY Typed DEF MediaInv, MediaTypes
<1>2. CountInv /\ EndsInv /\ Ordered(chan, aliases, reader)
  BY DEF CountedInv
<1>3. Ordered(chan, aliases, reader') /\ Total(Taken(reader')) = Total(Taken(reader))
  <2>1. CASE reader' = reader
    BY <1>2, <2>1
  <2>2. CASE reader' = Append(reader, FreshReader)
    <3>1. /\ Ordered(chan, aliases, Append(reader, FreshReader))
          /\ Total(Taken(Append(reader, FreshReader))) = Total(Taken(reader))
      BY <1>1, <1>2, ReaderAdded
    <3> QED BY <2>2, <3>1
  <2> QED BY <2>1, <2>2
<1>4. \A k \in 1..Len(wire') : reader'[k].at = "done" => k \in 1..Len(wire) /\ reader'[k] = reader[k]
  <2>1. CASE reader' = reader /\ Len(wire') = Len(wire)
    BY <2>1
  <2>2. CASE reader' = Append(reader, FreshReader) /\ Len(wire') = Len(wire) + 1
    <3>1. FreshReader \in Readers /\ FreshReader.at = "header"
      BY EmptySeq DEF FreshReader, Readers, None
    <3>2. reader'[Len(wire) + 1] = FreshReader /\ \A k \in 1..Len(wire) : reader'[k] = reader[k]
      BY <1>1, <2>2, <3>1, AppendProperties
    <3>3. \A k \in 1..Len(wire') : k \in 1..Len(wire) \/ k = Len(wire) + 1
      BY <1>1, <2>2
    <3> QED BY <3>1, <3>2, <3>3
  <2> QED BY <2>1, <2>2
<1>5. EndsInv'
  BY <1>2, <1>4 DEF EndsInv
<1>6. CountInv'
  BY <1>2, <1>3 DEF CountInv
<1>7. Ordered(chan, aliases, reader)'
  <2>1. chan' = chan /\ aliases' = aliases
    OBVIOUS
  <2> QED BY <1>3, <2>1
<1> QED BY <1>5, <1>6, <1>7 DEF CountedInv

LEMMA PublisherCounted ==
  ASSUME MediaInv, CountedInv, Publisher
  PROVE  CountedInv'
<1> USE DEF CountedInv
<1>1. CASE Accept \/ (\E f \in BOOLEAN : ForwardChanged(f)) \/ TimePasses \/ (\E p \in BOOLEAN : Datagram(p))
  <2>1. UNCHANGED <<wire, stream, reader, chan, aliases, counts>>
    BY <1>1 DEF Accept, ForwardChanged, TimePasses, Datagram, wireVars, subVars
  <2> QED BY <2>1, PublisherCounts DEF EndsInv
<1>2. CASE Filtered \/ Written \/ WriteFails
  <2>1. ended = "no" /\ UNCHANGED <<chan, aliases, counts>> /\ reader' = WithReader
    BY <1>2 DEF Filtered, Written, WriteFails, Opening, Sending, IsDue
  <2>2. /\ Opened[InUse].end = "open"
        /\ \A k \in 1..Len(wire) : wire[k].end # "open" => k # InUse /\ Opened[k] = wire[k]
        /\ \/ WithReader = reader /\ InUse = Len(wire)
           \/ WithReader = Append(reader, FreshReader) /\ InUse = Len(wire) + 1
    BY <2>1, StreamInUse
  <2>3. Opened \in Seq(WireStreams) /\ InUse = Len(Opened) /\ InUse \in Nat \ {0}
    BY <2>1, StreamOpened DEF StreamReady
  <2>4. /\ InUse \in 1..Len(Opened) /\ DOMAIN Opened = 1..Len(Opened) /\ Opened[InUse] \in WireStreams
        /\ InUse = Len(Opened) /\ Len(wire) <= Len(Opened) /\ Len(wire) \in Nat
    <3>1. InUse \in 1..Len(Opened) /\ DOMAIN Opened = 1..Len(Opened)
      BY <2>3, LenProperties
    <3>2. Len(wire) \in Nat
      BY Typed DEF MediaInv
    <3> QED BY <2>2, <2>3, <3>1, <3>2, ElementOfSeq
  <2>5. \E v \in WireStreams : /\ wire' = [Opened EXCEPT ![InUse] = v]
                               /\ stream' # 0 => stream' = InUse /\ v.end = "open"
    <3>1. CASE Filtered
      <4>1. wire' = Opened /\ stream' = InUse
        BY <3>1 DEF Filtered, Opening
      <4>2. Opened = [Opened EXCEPT ![InUse] = Opened[InUse]]
        <5> DEFINE v == [Opened EXCEPT ![InUse] = Opened[InUse]]
        <5>1. /\ v \in Seq(WireStreams) /\ Len(v) = Len(Opened)
              /\ \A k \in 1..Len(Opened) : v[k] = IF k = InUse THEN Opened[InUse] ELSE Opened[k]
          BY <2>3, <2>4, ExceptSeq
        <5> HIDE DEF v
        <5>2. \A k \in 1..Len(Opened) : Opened[k] = v[k]
          BY <5>1
        <5>3. Opened = v
          BY <2>3, <5>1, <5>2, SeqEqual
        <5> QED BY <5>3 DEF v
      <4> QED BY <2>2, <2>4, <4>1, <4>2
    <3>2. CASE Written
      <4> DEFINE v == [Opened[InUse] EXCEPT !.deltas = Append(Opened[InUse].deltas, Delta)]
      <4>1. wire' = [Opened EXCEPT ![InUse] = v] /\ stream' = InUse
        BY <3>2 DEF Written, Opening
      <4>2. Delta \in Nat /\ Opened[InUse].deltas \in Seq(Nat)
        BY <2>4, NextNumbers DEF WireStreams
      <4>3. Append(Opened[InUse].deltas, Delta) \in Seq(Nat)
        BY <4>2, AppendProperties
      <4>4. v \in WireStreams /\ v.end = "open"
        BY <2>2, <2>4, <4>3 DEF WireStreams
      <4> HIDE DEF v
      <4> QED BY <4>1, <4>4
    <3>3. CASE WriteFails
      <4> DEFINE v == [Opened[InUse] EXCEPT !.end = "reset"]
      <4>1. wire' = [Opened EXCEPT ![InUse] = v] /\ stream' = 0
        BY <3>3 DEF WriteFails
      <4>2. v \in WireStreams
        BY <2>4 DEF WireStreams
      <4> HIDE DEF v
      <4> QED BY <4>1, <4>2
    <3> QED BY <1>2, <3>1, <3>2, <3>3
  <2>6. PICK v \in WireStreams : /\ wire' = [Opened EXCEPT ![InUse] = v]
                                 /\ stream' # 0 => stream' = InUse /\ v.end = "open"
    BY <2>5
  <2>7. /\ Len([Opened EXCEPT ![InUse] = v]) = Len(Opened)
        /\ \A k \in 1..Len(Opened) : [Opened EXCEPT ![InUse] = v][k] = IF k = InUse THEN v ELSE Opened[k]
    BY <2>3, <2>4, ExceptSeq
  <2>8. Len(wire') = InUse /\ \A k \in 1..InUse : wire'[k] = IF k = InUse THEN v ELSE Opened[k]
    BY <2>4, <2>6, <2>7
  <2>9. stream' # 0 => wire'[stream'].end = "open"
    <3>1. InUse \in 1..InUse
      BY <2>3
    <3> QED BY <2>6, <2>8, <3>1
  <2>10. \A k \in 1..Len(wire) : wire[k].end # "open" => wire'[k] = wire[k]
    <3>1. \A k \in 1..Len(wire) : k \in 1..InUse
      BY <2>4
    <3> QED BY <2>2, <2>8, <3>1
  <2>11. \/ reader' = reader /\ Len(wire') = Len(wire)
         \/ reader' = Append(reader, FreshReader) /\ Len(wire') = Len(wire) + 1
    BY <2>1, <2>2, <2>8
  <2> QED BY <2>1, <2>9, <2>10, <2>11, PublisherCounts
<1>3. CASE Reset \/ SendFails \/ Finish
  <2>1. UNCHANGED <<reader, chan, aliases, counts>> /\ stream' = 0
    BY <1>3 DEF Reset, SendFails, Finish, subVars
  <2>2. /\ wire \in Seq(WireStreams) /\ DOMAIN wire = 1..Len(wire)
        /\ Len(wire') = Len(wire') /\ Len(wire) \in Nat
    BY Typed DEF MediaInv, MediaTypes
  <2>3. \A k \in 1..Len(wire) : wire[k].end # "open" => k # stream
    BY DEF EndsInv
  <2>4. \A k \in 1..Len(wire) : k # stream => wire'[k] = wire[k]
    <3>1. CASE Reset
      <4>1. wire' = [wire EXCEPT ![stream] = [wire[stream] EXCEPT !.end = "reset"]]
        BY <3>1 DEF Reset
      <4> QED BY <2>2, <4>1
    <3>2. CASE SendFails \/ Finish
      BY <3>2 DEF SendFails, Finish, Streams
    <3> QED BY <1>3, <3>1, <3>2
  <2>5. MediaInv'
    BY <1>3, PublisherEnds
  <2>6. Len(wire') = Len(wire)
    BY <2>1, <2>5 DEF MediaInv, MediaTypes, MediaTypeOK
  <2> QED BY <2>1, <2>3, <2>4, <2>6, PublisherCounts
<1> QED BY <1>1, <1>2, <1>3 DEF Publisher

(* A reader that steps tells what it took.                                  *)
LEMMA ReaderCounts ==
  ASSUME MediaInv, CountedInv, NEW k \in Streams, reader[k].at # "done", NEW new \in Readers,
         NEW kind \in {"header", "object", "over"},
         kind = "header" => new.at = "object",
         kind = "object" => reader[k].at = "object" /\ new.at = "object",
         kind = "over" => /\ new.at = "done" /\ wire[k].end # "open"
                          /\ wire[k].end = "fin" => new.taken = Len(wire[k].deltas),
         new.taken = reader[k].taken + (IF kind = "object" THEN 1 ELSE 0),
         Tell(Message(kind, k)), reader' = [reader EXCEPT ![k] = new],
         UNCHANGED <<wire, stream, aliases, counts>>
  PROVE  CountedInv'
<1> DEFINE m == Message(kind, k)
<1>1. /\ reader \in Seq(Readers) /\ chan \in Seq(MediaMessages) /\ Len(reader) = Len(wire)
      /\ k \in 1..Len(reader) /\ Len(wire) \in Nat
  BY Typed DEF MediaInv, MediaTypes, Streams
<1>2. m \in MediaMessages /\ ObjectWeight[m] = IF kind = "object" THEN 1 ELSE 0
  BY <1>1 DEF Message, MediaMessages, ObjectWeight
<1>3. chan' = Append(chan, m) /\ Append(chan, m) = chan \o <<m>>
  <2>1. Append(chan, m) = chan \o <<m>>
    BY <1>1, <1>2, AppendIsConcat
  <2> QED BY <2>1 DEF Tell
<1>4. Ordered(chan, aliases, reader)'
  <2>1. Ordered(Append(chan, m), aliases, [reader EXCEPT ![k] = new])
    BY <1>1, MessageTold DEF CountedInv
  <2>2. chan' = Append(chan, m) /\ aliases' = aliases /\ reader' = [reader EXCEPT ![k] = new]
    BY <1>3
  <2> QED BY <2>1, <2>2
<1>5. /\ [reader EXCEPT ![k] = new] \in Seq(Readers) /\ Len([reader EXCEPT ![k] = new]) = Len(reader)
      /\ \A j \in 1..Len(reader) : [reader EXCEPT ![k] = new][j] = IF j = k THEN new ELSE reader[j]
  BY <1>1, ExceptSeq
<1>6. EndsInv'
  BY <1>1, <1>5 DEF EndsInv, CountedInv
<1>7. Total(Taken(reader')) + reader[k].taken = Total(Taken(reader)) + new.taken
  <2>1. /\ Taken(reader) \in Seq(Nat) /\ Len(Taken(reader)) = Len(reader)
        /\ \A j \in 1..Len(reader) : Taken(reader)[j] = reader[j].taken
    BY <1>1, TakenType
  <2>2. /\ Taken(reader') \in Seq(Nat) /\ Len(Taken(reader')) = Len(reader)
        /\ \A j \in 1..Len(reader) : Taken(reader')[j] = reader'[j].taken
    <3> DEFINE s == [reader EXCEPT ![k] = new]
    <3>1. s \in Seq(Readers) /\ Len(s) = Len(reader)
      BY <1>5
    <3>2. reader' = s
      OBVIOUS
    <3> HIDE DEF s
    <3>3. Taken(s) \in Seq(Nat) /\ Len(Taken(s)) = Len(s) /\ \A j \in 1..Len(s) : Taken(s)[j] = s[j].taken
      BY <3>1, TakenType
    <3> QED BY <3>1, <3>2, <3>3
  <2> DEFINE t == Taken(reader)
             u == Taken(reader')
             w == [t EXCEPT ![k] = new.taken]
  <2>3. new.taken \in Nat /\ k \in 1..Len(t)
    BY <1>1, <2>1 DEF Readers
  <2>4. \A j \in 1..Len(reader) : u[j] = IF j = k THEN new.taken ELSE t[j]
    <3> SUFFICES ASSUME NEW j \in 1..Len(reader)
                 PROVE  u[j] = IF j = k THEN new.taken ELSE t[j]
      OBVIOUS
    <3>1. reader'[j] = IF j = k THEN new ELSE reader[j]
      BY <1>5
    <3>2. t[j] = reader[j].taken /\ u[j] = reader'[j].taken
      BY <2>1, <2>2
    <3> HIDE DEF t, u
    <3>3. CASE j = k
      BY <3>1, <3>2, <3>3
    <3>4. CASE j # k
      BY <3>1, <3>2, <3>4
    <3> QED BY <3>3, <3>4
  <2>5. t \in Seq(Nat) /\ u \in Seq(Nat) /\ Len(t) = Len(reader) /\ Len(u) = Len(reader) /\ t[k] = reader[k].taken
    BY <1>1, <2>1, <2>2
  <2> HIDE DEF t, u
  <2>6. w \in Seq(Nat) /\ Len(w) = Len(t) /\ \A j \in 1..Len(t) : w[j] = IF j = k THEN new.taken ELSE t[j]
    BY <2>3, <2>5, ExceptSeq
  <2>7. Total(w) + t[k] = Total(t) + new.taken
    BY <2>3, <2>5, TotalOfExcept
  <2> HIDE DEF w
  <2>8. u = w
    <3>1. Len(u) = Len(w) /\ \A j \in 1..Len(u) : u[j] = w[j]
      BY <2>4, <2>5, <2>6
    <3> QED BY <2>5, <2>6, <3>1, SeqEqual
  <2> QED BY <2>5, <2>7, <2>8 DEF t, u
<1>8. CountInv'
  <2> DEFINE T == Total(Taken(reader))
             U == Total(Taken(reader'))
             C == Tally(ObjectWeight, chan)
             D == Tally(ObjectWeight, chan')
  <2>1. <<m>> \in Seq(MediaMessages) /\ Tally(ObjectWeight, <<m>>) = ObjectWeight[m]
    BY <1>2, ObjectWeights, TallyOfOne
  <2>2. Tally(ObjectWeight, chan \o <<m>>) = C + Tally(ObjectWeight, <<m>>) /\ C \in Nat
    BY <1>1, <2>1, ObjectWeights, TallyOfConcat
  <2>3. D = C + (IF kind = "object" THEN 1 ELSE 0)
    BY <1>2, <1>3, <2>1, <2>2
  <2>4. T \in Nat /\ U \in Nat
    <3>1. Taken(reader) \in Seq(Nat)
      BY <1>1, TakenType
    <3>2. Taken([reader EXCEPT ![k] = new]) \in Seq(Nat)
      BY <1>5, TakenType
    <3> QED BY <3>1, <3>2, TotalIsNat
  <2>5. counts' = counts /\ counts.total \in Nat /\ counts.subscription = counts.total /\ counts.total + C = T
    BY DEF CountedInv, CountInv
  <2>6. reader[k].taken \in Nat
    <3>1. reader[k] \in Readers
      BY <1>1, ElementOfSeq
    <3> QED BY <3>1 DEF Readers
  <2>7. U + reader[k].taken = T + new.taken
    BY <1>7
  <2> DEFINE one == IF kind = "object" THEN 1 ELSE 0
             old == reader[k].taken
             total == counts.total
  <2> HIDE DEF T, U, C, D
  <2>8. counts.total + D = U
    <3>1. /\ T \in Nat /\ U \in Nat /\ C \in Nat /\ total \in Nat /\ old \in Nat /\ one \in Nat
          /\ D = C + one /\ total + C = T /\ U + old = T + (old + one)
      BY <2>2, <2>3, <2>4, <2>5, <2>6, <2>7
    <3> HIDE DEF one, old, total
    <3>2. total + D = U
      BY <3>1
    <3> QED BY <3>2 DEF total
  <2> QED BY <2>5, <2>8 DEF CountInv, D, U
<1> QED BY <1>4, <1>6, <1>8 DEF CountedInv

LEMMA SubscriberCounted ==
  ASSUME MediaInv, CountedInv, Subscriber
  PROVE  CountedInv'
<1>1. ASSUME NEW k \in Streams, ReadHeader(k) \/ ReadObject(k) \/ ReadEnd(k)
      PROVE  CountedInv'
  <2>1. /\ reader[k] \in Readers /\ reader[k].taken \in Nat
        /\ UNCHANGED <<wire, stream, aliases, counts>>
    <3>1. reader[k] \in Readers
      BY Typed DEF MediaInv, Streams
    <3>2. UNCHANGED <<wire, stream, aliases, counts>>
      BY <1>1 DEF ReadHeader, ReadObject, ReadEnd, pubVars, wireVars
    <3> QED BY <3>1, <3>2 DEF Readers
  <2>2. CASE ReadHeader(k)
    <3> DEFINE new == [reader[k] EXCEPT !.at = "object"]
    <3>1. /\ Tell(Message("header", k)) /\ reader' = [reader EXCEPT ![k] = new]
          /\ reader[k].at # "done"
      BY <2>2 DEF ReadHeader
    <3>2. new \in Readers /\ new.at = "object" /\ new.taken = reader[k].taken + 0
      BY <2>1 DEF Readers
    <3> HIDE DEF new
    <3> QED BY <2>1, <3>1, <3>2, ReaderCounts
  <2>3. CASE ReadObject(k)
    <3>1. /\ reader[k].at = "object" /\ Tell(Message("object", k))
      BY <2>3 DEF ReadObject
    <3> DEFINE id == reader[k].prev + wire[k].deltas[reader[k].taken + 1] + 1
               new == [at |-> "object", taken |-> reader[k].taken + 1, prev |-> id,
                       got |-> Append(reader[k].got, id)]
    <3>2. /\ reader' = [reader EXCEPT ![k] = new]
          /\ new.at = "object" /\ new.taken = reader[k].taken + 1
      BY <2>3 DEF ReadObject
    <3> HIDE DEF new
    <3>3. new \in Readers
      <4>1. MediaInv'
        BY <2>3, ObjectStep
      <4>2. /\ reader \in Seq(Readers) /\ k \in 1..Len(reader) /\ DOMAIN reader = 1..Len(reader)
        BY Typed DEF MediaInv, MediaTypes, Streams
      <4>3. reader'[k] = new /\ DOMAIN reader' = DOMAIN reader
        BY <3>2, <4>2
      <4>4. reader' \in Seq(Readers) /\ k \in 1..Len(reader')
        <5>1. reader' \in Seq(Readers)
          BY <4>1 DEF MediaInv, MediaTypes
        <5>2. DOMAIN reader' = 1..Len(reader') 
          BY <5>1, LenProperties
        <5> QED BY <4>2, <4>3, <5>1, <5>2
      <4> QED BY <4>3, <4>4, ElementOfSeq
    <3> QED BY <2>1, <3>1, <3>2, <3>3, ReaderCounts
  <2>4. CASE ReadEnd(k)
    <3> DEFINE new == [reader[k] EXCEPT !.at = "done"]
    <3>1. /\ Tell(Message("over", k)) /\ reader' = [reader EXCEPT ![k] = new]
          /\ reader[k].at # "done" /\ wire[k].end # "open"
          /\ wire[k].end = "fin" => reader[k].taken = Len(wire[k].deltas)
      BY <2>4 DEF ReadEnd
    <3>2. new \in Readers /\ new.at = "done" /\ new.taken = reader[k].taken /\ new.taken = reader[k].taken + 0
      BY <2>1 DEF Readers
    <3> HIDE DEF new
    <3>3. wire[k].end = "fin" => new.taken = Len(wire[k].deltas)
      BY <3>1, <3>2
    <3> QED BY <2>1, <3>1, <3>2, <3>3, ReaderCounts
  <2> QED BY <1>1, <2>2, <2>3, <2>4
<1>2. ASSUME Receive PROVE CountedInv'
  <2> DEFINE m == Head(chan)
             new == IF m.kind = "header" THEN aliases \cup {m.stream}
                    ELSE IF m.kind = "over" THEN aliases \ {m.stream} ELSE aliases
  <2>1. /\ chan # <<>> /\ chan' = Tail(chan) /\ UNCHANGED <<wire, stream, reader>>
        /\ counts' = IF m.kind # "object" THEN counts
                     ELSE IF m.stream \in aliases
                     THEN [total |-> counts.total + 1, subscription |-> counts.subscription + 1]
                     ELSE [counts EXCEPT !.total = @ + 1]
    BY <1>2 DEF Receive, pubVars, wireVars
  <2>2. /\ m.kind = "header" => aliases' = aliases \cup {m.stream}
        /\ m.kind = "over" => aliases' = aliases \ {m.stream}
        /\ m.kind = "object" => aliases' = aliases
    BY <1>2, Zenon DEF Receive
  <2>3. chan \in Seq(MediaMessages) /\ reader \in Seq(Readers)
    BY DEF MediaInv, MediaTypes
  <2>4. /\ m \in MediaMessages /\ ObjectWeight[m] = IF m.kind = "object" THEN 1 ELSE 0
        /\ aliases' = new
    <3>1. m \in MediaMessages
      BY <2>1, <2>3, TailElements
    <3>2. m.kind \in {"header", "object", "over"}
      BY <3>1 DEF MediaMessages
    <3> QED BY <2>2, <3>1, <3>2 DEF ObjectWeight
  <2>5. /\ m.kind = "object" => m.stream \in aliases
        /\ Ordered(Tail(chan), new, reader)
    BY <2>1, <2>3, MessageTaken DEF CountedInv
  <2>6. Ordered(chan, aliases, reader)'
    BY <2>1, <2>4, <2>5
  <2>7. EndsInv'
    BY <2>1 DEF EndsInv, CountedInv
  <2>8. CountInv'
    <3> DEFINE T == Total(Taken(reader))
               C == Tally(ObjectWeight, chan)
               D == Tally(ObjectWeight, Tail(chan))
    <3>1. C = ObjectWeight[m] + D /\ D \in Nat
      BY <2>1, <2>3, ObjectWeights, TallyOfTail
    <3>2. /\ counts.total \in Nat /\ counts.subscription = counts.total /\ counts.total + C = T
      BY DEF CountedInv, CountInv
    <3>3. chan' = Tail(chan) /\ reader' = reader
      BY <2>1
    <3> HIDE DEF T, C, D, m
    <3>4. CASE m.kind = "object"
      <4>1. counts' = [total |-> counts.total + 1, subscription |-> counts.subscription + 1]
        BY <2>1, <2>5, <3>4
      <4>2. counts'.total \in Nat /\ counts'.subscription = counts'.total /\ counts'.total + D = T
        BY <2>4, <3>1, <3>2, <3>4, <4>1
      <4> QED BY <3>3, <4>2 DEF CountInv, D, T
    <3>5. CASE m.kind # "object"
      <4>1. counts' = counts
        BY <2>1, <3>5
      <4>2. counts.total + D = T
        BY <2>4, <3>1, <3>2, <3>5
      <4> QED BY <3>2, <3>3, <4>1, <4>2 DEF CountInv, D, T
    <3> QED BY <3>4, <3>5
  <2> QED BY <2>6, <2>7, <2>8 DEF CountedInv
<1> QED BY <1>1, <1>2 DEF Subscriber

LEMMA CountedInitInv == MediaInit => CountedInv
<1> SUFFICES ASSUME MediaInit PROVE CountedInv
  OBVIOUS
<1>1. wire = <<>> /\ reader = <<>> /\ chan = <<>> /\ stream = 0 /\ counts = [total |-> 0, subscription |-> 0]
  BY DEF MediaInit
<1>2. Len(<<>>) = 0 /\ 1..0 = {}
  OBVIOUS
<1>3. Taken(<<>>) = <<>>
  BY <1>2 DEF Taken
<1>4. CountInv
  BY <1>1, <1>3, TallyOfEmpty, TotalOfEmpty DEF CountInv
<1>5. EndsInv /\ Ordered(chan, aliases, reader)
  BY <1>1, <1>2 DEF EndsInv, Ordered
<1> QED BY <1>4, <1>5 DEF CountedInv

LEMMA CountedNextInv == MediaInv /\ CountedInv /\ [MediaNext]_mediaVars => CountedInv'
<1> SUFFICES ASSUME MediaInv, CountedInv, [MediaNext]_mediaVars PROVE CountedInv'
  OBVIOUS
<1>1. CASE UNCHANGED mediaVars
  BY <1>1 DEF mediaVars, pubVars, wireVars, subVars, CountedInv, CountInv, EndsInv
<1> QED BY <1>1, PublisherCounted, SubscriberCounted DEF MediaNext, MediaTerminated

LEMMA CountsFollow == MediaInv /\ CountedInv => CountedOnce
<1> SUFFICES ASSUME MediaInv, CountedInv, chan = <<>>, \A k \in Streams : Whole(k)
             PROVE  /\ counts.total = Total([k \in Streams |-> Len(written[k])])
                    /\ counts.subscription = counts.total
  BY DEF CountedOnce
<1>1. reader \in Seq(Readers) /\ Len(reader) = Len(wire)
  BY DEF MediaInv, MediaTypes, MediaTypeOK
<1>2. \A k \in 1..Len(wire) : reader[k].taken = Len(written[k])
  BY DEF Streams, Whole, CountedInv, EndsInv, MediaInv, DecodeInv, Decodes
<1>3. Taken(reader) = [k \in Streams |-> Len(written[k])]
  BY <1>1, <1>2 DEF Taken, Streams
<1>4. Tally(ObjectWeight, chan) = 0
  BY TallyOfEmpty
<1> QED BY <1>3, <1>4 DEF CountedInv, CountInv

(* When every stream was read to its FIN and every message handled, each    *)
(* object written was counted once, in total and for the subscription its   *)
(* stream belongs to (run_data_reader and record_received_object).          *)
THEOREM ObjectsAreCountedOnce == MediaSpec => []CountedOnce
<1> QED BY MediaInitInv, MediaNextInv, CountedInitInv, CountedNextInv, CountsFollow, PTL DEF MediaSpec

===============================================================================
