-------------------------- MODULE ConnectionLifecycle --------------------------
(***************************************************************************)
(* One connection attempt of a virtual client: what the SDK's callbacks,   *)
(* the statistics task and the client's own loop each write into the       *)
(* shared ConnectionLifecycle, how the media observer turns cumulative     *)
(* counters into "this kind of media flowed", and how the row and its      *)
(* verdict are made from that when the attempt ends.                       *)
(*                                                                         *)
(* Three actors share the lifecycle and the identifiers, each behind its   *)
(* own mutex: a step between two lock operations is an action.             *)
(***************************************************************************)
EXTENDS Naturals, FiniteSets, Sequences

CONSTANTS
  Streams,       (* RTP streams (stats ids) the connection may have         *)
  DirOf,         (* "send" or "recv" for each stream                        *)
  KindOf,        (* "video" or "audio" for each stream                      *)
  SettingsSet,   (* OutcomeSettings explored: [send, recv, kinds]           *)
  None,          (* absent value                                            *)
  Grace,         (* OUTCOME_GRACE                                           *)
  StallSamples,  (* STALL_SAMPLES                                           *)
  MaxTime,       (* BOUND: last instant of the clock                        *)
  MaxCount,      (* BOUND: largest counter of a stream                      *)
  MaxSamples     (* BOUND: samples the statistics task takes                *)

Dirs == {"send", "recv"}
MediaKinds == {"video", "audio"}

ASSUME StreamAssumption ==
  /\ DirOf \in [Streams -> Dirs] /\ KindOf \in [Streams -> MediaKinds]
  /\ SettingsSet \subseteq [send : BOOLEAN, recv : BOOLEAN, kinds : SUBSET MediaKinds]
ASSUME TimeAssumption ==
  /\ None \notin 0..MaxTime
  /\ Grace \in Nat /\ StallSamples \in Nat \ {0}
  /\ MaxTime \in Nat /\ MaxCount \in Nat /\ MaxSamples \in Nat

VARIABLES
  clock,        (* SystemTime, as far as the verdict compares it            *)
  streams,      (* counters of the streams that exist now (the SDK's)       *)
  reported,     (* a remote-inbound-rtp entry exists now                    *)
  hpc,          (* where the event handler is                               *)
  tx,           (* connected_tx: "held", "sent"                             *)
  ids,          (* the identifiers of the offer are known                   *)
  control,      (* rows put on the writer's control channel, in order       *)
  life,         (* the ConnectionLifecycle behind its mutex                 *)
  tpc,          (* where the statistics task is                             *)
  sample,       (* what get_stats returned, not yet observed                *)
  known,        (* MediaObserver: the last counters of every stream seen    *)
  taken,        (* samples taken                                            *)
  cpc,          (* where the client's loop is                               *)
  settings,     (* OutcomeSettings of the client                            *)
  established,  (* the loop received the oneshot                            *)
  ending,       (* LifecycleEnd, the time read before the lock, and the copy*)
  row,          (* the lifecycle row                                        *)
  truth         (* history: what really flowed, and what samples showed     *)

envVars == <<clock, streams, reported>>
handlerVars == <<hpc, tx, ids>>
taskVars == <<tpc, sample, known, taken>>
loopVars == <<cpc, settings, established, ending, row>>
vars == <<envVars, handlerVars, control, life, taskVars, loopVars, truth>>

Ends == {"BuildFailed", "Shutdown", "DurationExpired", "ScenarioDisconnect",
         "ScenarioExit", "Unexpected"}
Flows == Dirs \X MediaKinds
FlowOf(s) == <<DirOf[s], KindOf[s]>>
Counters == UNION {[S -> 0..MaxCount] : S \in SUBSET Streams}

(* ConnectionLifecycle::new.  The first-observation times of the media are  *)
(* only ever compared with None, so they are the set of flows observed.     *)
Fresh == [offer |-> FALSE, webrtcAt |-> None, media |-> {}, report |-> FALSE,
          samples |-> 0, active |-> FALSE, idle |-> 0, maxIdle |-> 0]

Init ==
  /\ clock = 0 /\ streams = [s \in {} |-> 0] /\ reported = FALSE
  /\ hpc = "idle" /\ tx = "held" /\ ids = FALSE /\ control = <<>>
  /\ life = Fresh
  /\ tpc = "off" /\ sample = [counts |-> [s \in {} |-> 0], report |-> FALSE]
  /\ known = [s \in {} |-> 0] /\ taken = 0
  /\ cpc = "building" /\ settings \in SettingsSet /\ established = FALSE
  /\ ending = [end |-> "none", at |-> 0, life |-> Fresh] /\ row = None
  /\ truth = [flowed |-> {}, shown |-> {}, reported |-> FALSE,
              idle |-> 0, maxIdle |-> 0]

Ongoing == cpc \in {"waiting", "running", "closing", "ending", "writing"}

-----------------------------------------------------------------------------
(* The environment: time passes, streams appear, carry packets, start over  *)
(* from zero and go away (renegotiation), the SFU sends receiver reports.   *)

Tick ==
  /\ clock < MaxTime /\ clock' = clock + 1
  /\ UNCHANGED <<streams, reported, handlerVars, control, life, taskVars,
                 loopVars, truth>>

StreamAppears(s) ==
  /\ Ongoing /\ s \notin DOMAIN streams
  /\ streams' = [t \in DOMAIN streams \cup {s} |-> IF t = s THEN 0 ELSE streams[t]]
  /\ UNCHANGED <<clock, reported, handlerVars, control, life, taskVars,
                 loopVars, truth>>

Traffic(s) ==
  /\ Ongoing /\ life.webrtcAt # None
  /\ s \in DOMAIN streams /\ streams[s] < MaxCount
  /\ streams' = [streams EXCEPT ![s] = @ + 1]
  /\ truth' = [truth EXCEPT !.flowed = @ \cup {FlowOf(s)}]
  /\ UNCHANGED <<clock, reported, handlerVars, control, life, taskVars, loopVars>>

StreamRestarts(s) ==
  /\ Ongoing /\ s \in DOMAIN streams /\ streams[s] > 0
  /\ streams' = [streams EXCEPT ![s] = 0]
  /\ UNCHANGED <<clock, reported, handlerVars, control, life, taskVars,
                 loopVars, truth>>

StreamGone(s) ==
  /\ Ongoing /\ s \in DOMAIN streams
  /\ streams' = [t \in DOMAIN streams \ {s} |-> streams[t]]
  /\ UNCHANGED <<clock, reported, handlerVars, control, life, taskVars,
                 loopVars, truth>>

Report ==
  /\ Ongoing /\ ~reported /\ \E v \in MediaKinds : <<"send", v>> \in truth.flowed
  /\ reported' = TRUE /\ truth' = [truth EXCEPT !.reported = TRUE]
  /\ UNCHANGED <<clock, streams, handlerVars, control, life, taskVars, loopVars>>

-----------------------------------------------------------------------------
(* The event handler (VirtualClientEventHandler), one callback at a time.   *)

(* on_signaling_message with an offer: under the ids lock, the connection   *)
(* row is sent and the identifiers are set ...                              *)
OfferIds ==
  /\ Ongoing /\ hpc = "idle" /\ ~ids
  /\ control' = Append(control, "connection")
  /\ ids' = TRUE /\ hpc' = "offer"
  /\ UNCHANGED <<envVars, tx, life, taskVars, loopVars, truth>>

(* ... then, under the lifecycle lock, the offer is recorded.               *)
OfferRecord ==
  /\ hpc = "offer"
  /\ life' = [life EXCEPT !.offer = TRUE]
  /\ hpc' = "idle"
  /\ UNCHANGED <<envVars, tx, ids, control, taskVars, loopVars, truth>>

(* on_connection_state_change(Connected), possibly not for the first time:  *)
(* the first time is kept ...                                               *)
Connected ==
  /\ Ongoing /\ hpc = "idle" /\ life.offer
  /\ life' = IF life.webrtcAt = None THEN [life EXCEPT !.webrtcAt = clock] ELSE life
  /\ hpc' = "notify"
  /\ UNCHANGED <<envVars, tx, ids, control, taskVars, loopVars, truth>>

(* ... then the oneshot is fired, once.                                     *)
Notify ==
  /\ hpc = "notify"
  /\ tx' = "sent" /\ hpc' = "idle"
  /\ UNCHANGED <<envVars, ids, control, life, taskVars, loopVars, truth>>

-----------------------------------------------------------------------------
(* The statistics task (run_stats_collection) and the media observer.       *)

(* A tick after the identifiers are known: get_stats is called.             *)
TakeSample ==
  /\ tpc = "tick" /\ cpc \in {"running", "closing"} /\ ids
  /\ taken < MaxSamples /\ taken' = taken + 1
  /\ sample' = [counts |-> streams, report |-> reported]
  /\ tpc' = "observe"
  /\ UNCHANGED <<envVars, handlerVars, control, life, known, loopVars, truth>>

(* get_stats failed: the tick is skipped.                                   *)
SampleFails ==
  /\ tpc = "tick" /\ cpc \in {"running", "closing"} /\ ids
  /\ taken < MaxSamples /\ taken' = taken + 1
  /\ UNCHANGED <<envVars, handlerVars, control, life, tpc, sample, known,
                 loopVars, truth>>

(* MUTANT of HasFlowed: a stream seen for the first time has flowed.        *)
HasFlowedOnSight(s) ==
  s \notin DOMAIN known \/ sample.counts[s] > known[s]

(* observe_stream: has_traffic for a new stream, increased_from for a known *)
(* one.  A counter that went down is a restart and not an increase.         *)
HasFlowed(s) ==
  sample.counts[s] > IF s \in DOMAIN known THEN known[s] ELSE 0

(* on_sample_observed and on_sample_activity.                               *)
Activity(l, active) ==
  [offer |-> l.offer, webrtcAt |-> l.webrtcAt, media |-> l.media, report |-> l.report,
   samples |-> l.samples + 1, active |-> l.active \/ active,
   idle |-> IF active THEN 0 ELSE l.idle + 1,
   maxIdle |-> IF active \/ l.maxIdle > l.idle THEN l.maxIdle ELSE l.idle + 1]

(* on_media_sent, on_media_received and on_delivery_report, for every entry.*)
Observed(moved) ==
  [life EXCEPT !.media = @ \cup {FlowOf(s) : s \in moved}]

WithReport(l) == [l EXCEPT !.report = @ \/ sample.report]

(* History: what the sample showed, and the stalls after the first activity.*)
Shown == {FlowOf(s) : s \in {t \in DOMAIN sample.counts : sample.counts[t] > 0}}

Witness(active) ==
  LET run == IF active \/ ~life.active THEN 0 ELSE truth.idle + 1 IN
  [flowed |-> truth.flowed, reported |-> truth.reported,
   shown |-> truth.shown \cup Shown,
   idle |-> run,
   maxIdle |-> IF run > truth.maxIdle THEN run ELSE truth.maxIdle]

(* MediaObserver::observe, under the lifecycle lock.  A sample without any  *)
(* RTP stream is not counted.                                               *)
Observe ==
  /\ tpc = "observe"
  /\ LET moved == {s \in DOMAIN sample.counts : HasFlowed(s)}
         seen == WithReport(Observed(moved))
     IN IF DOMAIN sample.counts = {}
        THEN life' = seen /\ truth' = truth
        ELSE life' = Activity(seen, moved # {}) /\ truth' = Witness(moved # {})
  /\ known' = [s \in DOMAIN known \cup DOMAIN sample.counts |->
                 IF s \in DOMAIN sample.counts THEN sample.counts[s] ELSE known[s]]
  /\ tpc' = "tick"
  /\ UNCHANGED <<envVars, handlerVars, control, sample, taken, loopVars>>

-----------------------------------------------------------------------------
(* The client's loop (virtual_client::run), as far as one attempt goes.     *)

Finish(e) ==
  /\ ending' = [end |-> e, at |-> clock, life |-> ending.life]
  /\ cpc' = "ending"

(* build_client failed: nothing else ever ran for this attempt.             *)
BuildFails ==
  /\ cpc = "building" /\ Finish("BuildFailed")
  /\ UNCHANGED <<envVars, handlerVars, control, life, taskVars, settings,
                 established, row, truth>>

Built ==
  /\ cpc = "building" /\ cpc' = "waiting"
  /\ UNCHANGED <<envVars, handlerVars, control, life, taskVars, settings,
                 established, ending, row, truth>>

(* The oneshot arrived: the loop announces the client as connected and      *)
(* starts the statistics task.                                              *)
Establish ==
  /\ cpc = "waiting" /\ tx = "sent"
  /\ established' = TRUE /\ cpc' = "running" /\ tpc' = "tick"
  /\ UNCHANGED <<envVars, handlerVars, control, life, sample, known, taken,
                 settings, ending, row, truth>>

(* run() returned before the oneshot (the select is biased towards it), or  *)
(* the token was cancelled; a shutdown disconnects first.                   *)
EndBeforeEstablish ==
  /\ cpc = "waiting"
  /\ \/ tx = "held" /\ Finish("Unexpected")
     \/ cpc' = "closing" /\ ending' = [ending EXCEPT !.end = "Shutdown"]
  /\ UNCHANGED <<envVars, handlerVars, control, life, taskVars, settings,
                 established, row, truth>>

(* The connection ends by the loop's choice and is disconnected first, or   *)
(* run() returned; the statistics task's token is cancelled, the time read. *)
End ==
  /\ cpc = "running"
  /\ \/ Finish("Unexpected")
     \/ /\ cpc' = "closing"
        /\ \E e \in Ends \ {"BuildFailed", "Unexpected"} :
             ending' = [ending EXCEPT !.end = e]
  /\ UNCHANGED <<envVars, handlerVars, control, life, taskVars, settings,
                 established, row, truth>>

Disconnected ==
  /\ cpc = "closing" /\ Finish(ending.end)
  /\ UNCHANGED <<envVars, handlerVars, control, life, taskVars, settings,
                 established, row, truth>>

Required(d) == IF settings[d] THEN {d} \X settings.kinds ELSE {}

(* MUTANT of Judge: a client that sends is not asked what it received.       *)
JudgeOneDirection(l, end, at) ==
  IF end = "BuildFailed" THEN <<"failure", "build-failed">>
  ELSE IF l.webrtcAt = None THEN <<"failure", "connect-failed">>
  ELSE IF settings.kinds = {} \/ l.samples = 0
          \/ (IF at > l.webrtcAt THEN at - l.webrtcAt ELSE 0) < Grace
       THEN <<"unjudged", "none">>
  ELSE IF ~ Required(IF settings.send THEN "send" ELSE "recv") \subseteq l.media
       THEN <<"failure", "no-media-sent">>
  ELSE IF settings.send /\ ~l.report THEN <<"failure", "no-delivery-report">>
  ELSE IF end = "Unexpected" THEN <<"failure", "unexpected-disconnect">>
  ELSE <<"success", "none">>

(* judge: the first rule that applies.  A clock that reads earlier than the *)
(* establishment counts as no time at all.                                  *)
Judge(l, end, at) ==
  IF end = "BuildFailed" THEN <<"failure", "build-failed">>
  ELSE IF l.webrtcAt = None THEN <<"failure", "connect-failed">>
  ELSE IF settings.kinds = {} \/ l.samples = 0
          \/ (IF at > l.webrtcAt THEN at - l.webrtcAt ELSE 0) < Grace
       THEN <<"unjudged", "none">>
  ELSE IF ~ Required("send") \subseteq l.media THEN <<"failure", "no-media-sent">>
  ELSE IF settings.send /\ ~l.report THEN <<"failure", "no-delivery-report">>
  ELSE IF ~ Required("recv") \subseteq l.media THEN <<"failure", "no-media-received">>
  ELSE IF end = "Unexpected" THEN <<"failure", "unexpected-disconnect">>
  ELSE <<"success", "none">>

IsStalled(l) == l.active /\ l.maxIdle >= StallSamples

(* write_connection_lifecycle: the lifecycle is copied under its lock ...   *)
Snapshot ==
  /\ cpc = "ending" /\ cpc' = "writing"
  /\ ending' = [ending EXCEPT !.life = life]
  /\ UNCHANGED <<envVars, handlerVars, control, life, taskVars, settings,
                 established, row, truth>>

RowOf(hasIds) ==
  LET v == Judge(ending.life, ending.end, ending.at) IN
    [outcome |-> v[1], reason |-> v[2], stalled |-> IsStalled(ending.life),
     ids |-> hasIds, offer |-> ending.life.offer,
     samples |-> ending.life.samples, end |-> ending.end]

(* ... then the identifiers are read under theirs and the row is sent.      *)
WriteRow ==
  /\ cpc = "writing" /\ cpc' = "done"
  /\ row' = RowOf(ids)
  /\ control' = Append(control, "lifecycle")
  /\ UNCHANGED <<envVars, handlerVars, life, taskVars, settings, established,
                 ending, truth>>

Over == cpc = "done" /\ UNCHANGED vars

Environment ==
  \/ Tick \/ Report
  \/ \E s \in Streams : StreamAppears(s) \/ Traffic(s) \/ StreamRestarts(s) \/ StreamGone(s)

Handler == OfferIds \/ OfferRecord \/ Connected \/ Notify
Task == TakeSample \/ SampleFails \/ Observe
Loop == BuildFails \/ Built \/ Establish \/ EndBeforeEstablish \/ End
        \/ Disconnected \/ Snapshot \/ WriteRow

Next == Environment \/ Handler \/ Task \/ Loop \/ Over

Spec == Init /\ [][Next]_vars

-----------------------------------------------------------------------------
(* Properties.                                                             *)

Lives == [offer : BOOLEAN, webrtcAt : (0..MaxTime) \cup {None}, media : SUBSET Flows,
          report : BOOLEAN, samples : Nat, active : BOOLEAN, idle : Nat, maxIdle : Nat]
Reasons == {"none", "build-failed", "connect-failed", "no-media-sent",
            "no-delivery-report", "no-media-received", "unexpected-disconnect"}
Rows == [outcome : {"success", "failure", "unjudged"}, reason : Reasons,
         stalled : BOOLEAN, ids : BOOLEAN, offer : BOOLEAN, samples : Nat, end : Ends]

(* Types; an idle sample is one of the samples counted.                     *)
TypeOK ==
  /\ clock \in 0..MaxTime /\ streams \in Counters /\ reported \in BOOLEAN
  /\ hpc \in {"idle", "offer", "notify"} /\ tx \in {"held", "sent"} /\ ids \in BOOLEAN
  /\ control \in Seq({"connection", "lifecycle"})
  /\ life \in Lives /\ life.idle <= life.maxIdle /\ life.maxIdle <= life.samples
  /\ tpc \in {"off", "tick", "observe"}
  /\ sample \in [counts : Counters, report : BOOLEAN] /\ known \in Counters
  /\ taken \in 0..MaxSamples
  /\ cpc \in {"building", "waiting", "running", "closing", "ending", "writing", "done"}
  /\ settings \in SettingsSet /\ established \in BOOLEAN
  /\ ending \in [end : Ends \cup {"none"}, at : 0..MaxTime, life : Lives]
  /\ row \in Rows \cup {None}
  /\ truth \in [flowed : SUBSET Flows, shown : SUBSET Flows, reported : BOOLEAN,
                idle : Nat, maxIdle : Nat]

Written == row # None

(* The observer neither misses nor invents media: a flow is recorded as     *)
(* observed exactly when some sample showed packets of it, however streams  *)
(* are replaced, restart from zero or are first seen half-way               *)
(* (media_observer.rs).                                                     *)
FirstSeenExact == life.media = truth.shown

(* A connection is only judged a success when it really was: it reached the *)
(* WebRTC establishment, every enabled kind really flowed in every expected *)
(* direction, the SFU really reported when sending, and it did not end      *)
(* unexpectedly.                                                            *)
SuccessIsEarned ==
  Written /\ row.outcome = "success" =>
    /\ ending.life.webrtcAt # None /\ row.samples > 0
    /\ Required("send") \cup Required("recv") \subseteq truth.flowed
    /\ settings.send => truth.reported
    /\ row.end \notin {"BuildFailed", "Unexpected"}

(* A client the loop announced as connected is never recorded as one that   *)
(* could not connect, although two tasks write the two facts.               *)
AnnouncedIsRecorded ==
  Written /\ established => row.reason \notin {"connect-failed", "build-failed"}

(* A lifecycle row that has seen the offer, or any sample, carries the      *)
(* identifiers, and the connection row it is joined with was sent before it.*)
OfferedRowsAreJoinable ==
  Written /\ (row.offer \/ row.samples > 0) =>
    row.ids /\ control = <<"connection", "lifecycle">>

(* A connection whose media moved and then stood still for StallSamples     *)
(* samples in a row is reported as stalled, even when it moved again later. *)
EveryStallIsReported ==
  Written /\ ending.life = life /\ truth.maxIdle >= StallSamples => row.stalled

(* The row tells the truth about its connection: a success was earned, what  *)
(* was announced is recorded, the row can be joined, and no stall is missing *)
(* - although three tasks wrote the facts under two locks.                   *)
RowIsTruthful ==
  /\ SuccessIsEarned
  /\ AnnouncedIsRecorded
  /\ OfferedRowsAreJoinable
  /\ EveryStallIsReported

(* Why they hold.  What the observer recorded is what samples showed, and a  *)
(* stream whose last counters are not zero has been recorded ...            *)
ObserverInv ==
  /\ life.media = truth.shown
  /\ \A s \in DOMAIN known : known[s] > 0 => FlowOf(s) \in life.media
  /\ truth.idle <= life.idle /\ truth.maxIdle <= life.maxIdle
  /\ truth.maxIdle > 0 => life.active

(* ... what samples show has really happened ...                            *)
TruthInv ==
  /\ \A s \in DOMAIN streams : streams[s] > 0 => FlowOf(s) \in truth.flowed
  /\ \A s \in DOMAIN sample.counts : sample.counts[s] > 0 => FlowOf(s) \in truth.flowed
  /\ truth.shown \subseteq truth.flowed
  /\ reported \/ sample.report \/ life.report => truth.reported

(* ... each fact is published after the facts it rests on ...               *)
OrderInv ==
  /\ hpc = "notify" \/ tx = "sent" \/ established => life.webrtcAt # None
  /\ hpc = "offer" \/ life.offer \/ tpc = "observe" \/ life.samples > 0 => ids
  /\ cpc = "building" => ~established
  /\ cpc \in {"closing", "ending", "writing", "done"} => ending.end # "none"
  /\ established => ending.end # "BuildFailed"
  /\ cpc \in {"building", "waiting", "running"} => ending.end = "none"

(* ... and the row is made from a copy of the lifecycle that was true then. *)
RowInv ==
  /\ cpc \in {"writing", "done"} =>
       /\ ending.life.media \subseteq truth.flowed
       /\ ending.life.report => truth.reported
       /\ established => ending.life.webrtcAt # None
       /\ ending.life.offer \/ ending.life.samples > 0 => ids
  /\ cpc # "done" => row = None /\ control = IF ids THEN <<"connection">> ELSE <<>>
  /\ cpc = "done" =>
       /\ \E i \in BOOLEAN : row = RowOf(i) /\ (ending.life.offer \/ ending.life.samples > 0 => i)
       /\ row.ids => control = <<"connection", "lifecycle">>

===============================================================================
