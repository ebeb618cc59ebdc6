------------------------------ MODULE MoqSession ------------------------------
(***************************************************************************)
(* The control plane of one MOQT session (session::run): SETUP, GOAWAY,    *)
(* and one request per track that is published or subscribed.  The session *)
(* is one task that waits in a select! and then works through a fixed tail *)
(* (migrate, publish, subscribe, end of turn).  Between the two, other     *)
(* tasks may cancel its token and the relay may send more.  Whatever it    *)
(* opens or writes is awaited where it stands: until the relay grants the  *)
(* stream and the credit the task does nothing else, its ticks included.   *)
(* What happens to the objects of the tracks is in MoqMedia; the loop that *)
(* opens one session after the other is in MoqClient, which polls the      *)
(* actions below.                                                          *)
(***************************************************************************)
EXTENDS Naturals, Sequences, FiniteSets

CONSTANTS
  Tracks,            (* tracks this client publishes                        *)
  Subscribed,        (* tracks it subscribes to                             *)
  Targets,           (* New Session URIs a GOAWAY may carry                 *)
  NoGoaway,          (* the absence of a GOAWAY                             *)
  MigrateOnGoaway    (* --reconnect-on-goaway                               *)

ASSUME SessionAssumption ==
  /\ Tracks \cap Subscribed = {} /\ IsFiniteSet(Tracks \cup Subscribed)
  /\ NoGoaway \notin Targets
  /\ MigrateOnGoaway \in BOOLEAN

VARIABLES
  cancelled,         (* the token of the process                            *)
  released,          (* connection_token, its child, cancelled by the client*)
  spc,               (* where session::run is                               *)
  established,       (* both SETUPs were exchanged                          *)
  goaway,            (* SessionState.goaway                                 *)
  reason,            (* SessionState.closed_reason is set                   *)
  requested,         (* requests that were written to their streams         *)
  accepted,          (* requests whose first REQUEST_OK arrived             *)
  result,           (* what session::run returned                           *)
  refused,           (* history: the library refused a request (GOAWAY)     *)
  control,           (* messages on the peer's control stream, not yet read *)
  inbox,             (* messages on the request streams, not yet read       *)
  answer             (* history: what the relay last said on each request   *)

sessionVars == <<spc, established, goaway, reason, requested, accepted, result,
                 refused>>
relayVars == <<control, inbox, answer>>

Requests == Tracks \cup Subscribed
Turns == {"idle", "opening", "setup", "top", "select", "sending", "answering",
          "tail", "publishing", "subscribe", "subscribing", "end", "shutdown",
          "done"}
Results == {"none", "failed", "closed", "migrated"}

(* A cancelled parent cancels its children.                                 *)
Cancelled == cancelled \/ released

(* SETUP is known by a name, a GOAWAY by the URI it carries.                *)
Setup == "setup"
ControlMessages == {Setup} \cup Targets

(* The state a session owns, as it is before the session and once its       *)
(* future was dropped.                                                      *)
Vacant ==
  /\ established' = FALSE /\ reason' = FALSE
  /\ requested' = {} /\ accepted' = {} /\ refused' = FALSE
  /\ control' = <<>>
  /\ inbox' = [r \in Requests |-> <<>>]
  /\ answer' = [r \in Requests |-> "none"]

SessionInit ==
  /\ cancelled = FALSE /\ released = FALSE
  /\ spc = "idle" /\ established = FALSE /\ goaway = NoGoaway /\ reason = FALSE
  /\ requested = {} /\ accepted = {} /\ result = "none" /\ refused = FALSE
  /\ control = <<>>
  /\ inbox = [r \in Requests |-> <<>>]
  /\ answer = [r \in Requests |-> "none"]

(* should_migrate.                                                          *)
ShouldMigrate == goaway # NoGoaway /\ MigrateOnGoaway /\ ~Cancelled

Goto(l) == spc' = l /\ result' = result
Return(r) == spc' = "done" /\ result' = r

-----------------------------------------------------------------------------
(* The relay.  It may stop talking at any moment.                           *)

Reachable == spc \notin {"idle", "done"}

RelaySetup ==
  /\ Reachable /\ ~established /\ control = <<>>
  /\ control' = <<Setup>>
  /\ UNCHANGED <<sessionVars, inbox, answer>>

(* At most one GOAWAY per session, after SETUP, with any URI.               *)
RelayGoaway(u) ==
  /\ Reachable /\ goaway = NoGoaway
  /\ (established /\ control = <<>>) \/ control = <<Setup>>
  /\ control' = Append(control, u)
  /\ UNCHANGED <<sessionVars, inbox, answer>>

(* The answers of the relay on one request stream: REQUEST_OK or            *)
(* SUBSCRIBE_OK first, or an error; an accepted request may end later       *)
(* (PUBLISH_DONE, FIN or reset).                                            *)
RelayAnswers(r, m) ==
  /\ Reachable /\ r \in requested
  /\ \/ answer[r] = "none" /\ m \in {"ok", "error"}
     \/ answer[r] = "ok" /\ m = "over"
  /\ answer' = [answer EXCEPT ![r] = m]
  /\ inbox' = [inbox EXCEPT ![r] = Append(@, m)]
  /\ UNCHANGED <<sessionVars, control>>

Relay ==
  \/ RelaySetup
  \/ \E u \in Targets : RelayGoaway(u)
  \/ \E r \in Requests, m \in {"ok", "error", "over"} : RelayAnswers(r, m)

-----------------------------------------------------------------------------
(* Before the loop: the control streams are opened and accepted.            *)

(* Our control stream is opened and SETUP written, each awaited without a   *)
(* limit of time; either may fail.                                          *)
OpenControl ==
  /\ spc = "opening"
  /\ Goto("setup") \/ Return("failed")
  /\ UNCHANGED <<established, goaway, reason, requested, accepted, refused,
                 relayVars>>

(* recv_control_messages and drain_events for the next n messages of the    *)
(* control stream: one read may carry several.                              *)
TakeControl(n) ==
  LET batch == {control[i] : i \in 1..n} IN
  /\ established' = (established \/ Setup \in batch)
  /\ goaway' = IF batch \subseteq {Setup} THEN goaway
               ELSE CHOOSE u \in batch : u # Setup
  /\ control' = SubSeq(control, n + 1, Len(control))

(* The peer's control stream arrived; its first bytes may end after SETUP's *)
(* type, after SETUP, or after the messages behind it.                      *)
AcceptControl ==
  /\ spc = "setup" /\ ~Cancelled /\ control # <<>>
  /\ \E n \in 0..Len(control) : TakeControl(n)
  /\ Goto("top")
  /\ UNCHANGED <<reason, requested, accepted, refused, inbox, answer>>

(* Cancelled while waiting, no control stream within ESTABLISH_TIMEOUT, or  *)
(* a transport that fails.                                                  *)
SetupFails ==
  /\ spc = "setup"
  /\ Return("failed")
  /\ UNCHANGED <<established, goaway, reason, requested, accepted, refused,
                 relayVars>>

(* Top of the loop: a GOAWAY behind SETUP is followed without a select.     *)
Top ==
  /\ spc = "top"
  /\ Goto(IF ShouldMigrate THEN "shutdown" ELSE "select")
  /\ UNCHANGED <<established, goaway, reason, requested, accepted, refused,
                 relayVars>>

-----------------------------------------------------------------------------
(* The branches of the select!, biased towards the token.                   *)

SelectCancelled ==
  /\ spc = "select" /\ Cancelled
  /\ Goto("shutdown")
  /\ UNCHANGED <<established, goaway, reason, requested, accepted, refused,
                 relayVars>>

EstablishExpires ==
  /\ spc = "select" /\ ~Cancelled /\ ~established
  /\ Return("failed")
  /\ UNCHANGED <<established, goaway, reason, requested, accepted, refused,
                 relayVars>>

Awaited == {r \in requested : answer[r] = "none" \/ inbox[r] # <<>>} \ accepted

(* session.tick, every 50 ms.  The other branches that do not touch the     *)
(* control plane (objects, datagrams, progress) end in the same tail.       *)
Tick ==
  /\ spc = "select" /\ ~Cancelled
  /\ Goto("tail")
  /\ UNCHANGED <<established, goaway, reason, requested, accepted, refused,
                 relayVars>>

(* MUTANT of TickExpires: no timeout is set for PUBLISH.                    *)
TickExpiresSubscribe ==
  /\ spc = "select" /\ ~Cancelled /\ Awaited \cap Subscribed # {}
  /\ reason' = TRUE
  /\ Goto("tail")
  /\ UNCHANGED <<established, goaway, requested, accepted, refused, relayVars>>

(* The tick that finds a request unanswered after PUBLISH_ACCEPT_TIMEOUT_MS: *)
(* the library closes the session.                                          *)
TickExpires ==
  /\ spc = "select" /\ ~Cancelled /\ Awaited # {}
  /\ reason' = TRUE
  /\ Goto("tail")
  /\ UNCHANGED <<established, goaway, requested, accepted, refused, relayVars>>

ReadControl ==
  /\ spc = "select" /\ ~Cancelled /\ control # <<>>
  /\ \E n \in 1..Len(control) : TakeControl(n)
  /\ Goto("tail")
  /\ UNCHANGED <<reason, requested, accepted, refused, inbox, answer>>

(* One message of a request stream: an error or the end of any request      *)
(* closes the session.                                                      *)
ReadRequest(r) ==
  /\ spc = "select" /\ ~Cancelled /\ inbox[r] # <<>>
  /\ LET m == Head(inbox[r]) IN
       /\ accepted' = IF m = "ok" THEN accepted \cup {r} ELSE accepted
       /\ reason' = (reason \/ m \in {"error", "over"})
  /\ inbox' = [inbox EXCEPT ![r] = Tail(@)]
  /\ Goto("tail")
  /\ UNCHANGED <<established, goaway, requested, refused, control, answer>>

(* The send timer of an accepted track.  The write is awaited in the branch: *)
(* nothing else of the session runs until the relay makes room for it.      *)
SendObject ==
  /\ spc = "select" /\ ~Cancelled /\ accepted \cap Tracks # {}
  /\ Goto("sending")
  /\ UNCHANGED <<established, goaway, reason, requested, accepted, refused,
                 relayVars>>

(* A REQUEST_UPDATE for an accepted track is answered at once on its request *)
(* stream, by a write that is awaited in the branch too.                    *)
AnswerUpdate(t) ==
  /\ spc = "select" /\ ~Cancelled /\ t \in accepted
  /\ Goto("answering")
  /\ UNCHANGED <<established, goaway, reason, requested, accepted, refused,
                 relayVars>>

(* The relay reads on, or stops the stream: the branch is over.  A stream   *)
(* that cannot be opened, a header or an answer that cannot be written or   *)
(* MAX_CONSECUTIVE_WRITE_FAILURES failed writes end the session.            *)
SendEnds ==
  /\ spc \in {"sending", "answering"}
  /\ Goto("tail") \/ Return("failed")
  /\ UNCHANGED <<established, goaway, reason, requested, accepted, refused,
                 relayVars>>

(* The transport may go at any moment: a read fails, or no stream can be    *)
(* accepted any more.                                                       *)
TransportEnds ==
  /\ spc = "select" /\ ~Cancelled
  /\ Return("failed") \/ Goto("shutdown")
  /\ UNCHANGED <<established, goaway, reason, requested, accepted, refused,
                 relayVars>>

-----------------------------------------------------------------------------
(* The tail of the loop.                                                    *)

(* send_publish and send_subscribe for the requests in R: their request_ids *)
(* are set together and the drain begins to write them.  The library        *)
(* refuses a new request once the peer sent GOAWAY, and the session ends    *)
(* with that error.                                                         *)
SendRequests(R, drain, next) ==
  /\ UNCHANGED requested
  /\ IF R \subseteq requested THEN Goto(next) /\ refused' = refused
     ELSE IF goaway # NoGoaway THEN Return("failed") /\ refused' = TRUE
     ELSE Goto(drain) /\ refused' = refused

(* The drain of the requests in R: for one after the other a stream is      *)
(* opened and the message written, both awaited without a limit of time.  A *)
(* stream that cannot be opened or written ends the session; one the relay  *)
(* stopped counts as written.                                               *)
Drain(R, drain, next) ==
  /\ spc = drain
  /\ \/ \E r \in R \ requested :
          /\ requested' = requested \cup {r}
          /\ Goto(IF R \subseteq requested' THEN next ELSE drain)
     \/ Return("failed") /\ UNCHANGED requested
  /\ UNCHANGED <<established, goaway, reason, accepted, refused, relayVars>>

DrainRequests == Drain(Tracks, "publishing", "subscribe")
                 \/ Drain(Subscribed, "subscribing", "end")

(* MUTANT of Publish: no look at GOAWAY between the read and the requests.  *)
PublishAtOnce ==
  /\ spc = "tail"
  /\ IF established THEN SendRequests(Tracks, "publishing", "subscribe")
     ELSE Goto("end") /\ UNCHANGED <<requested, refused>>
  /\ UNCHANGED <<established, goaway, reason, accepted, relayVars>>

(* Once the session is established every track is published.                *)
Publish ==
  /\ spc = "tail"
  /\ IF ShouldMigrate THEN Goto("shutdown") /\ UNCHANGED <<requested, refused>>
     ELSE IF established THEN SendRequests(Tracks, "publishing", "subscribe")
     ELSE Goto("end") /\ UNCHANGED <<requested, refused>>
  /\ UNCHANGED <<established, goaway, reason, accepted, relayVars>>

(* publishers_ready_for_subscribe.                                          *)
PublishersReady == \A t \in Tracks : t \in requested => t \in accepted

(* SUBSCRIBE goes out when every PUBLISH was accepted.                      *)
Subscribe ==
  /\ spc = "subscribe"
  /\ IF ShouldMigrate THEN Goto("shutdown") /\ UNCHANGED <<requested, refused>>
     ELSE IF PublishersReady THEN SendRequests(Subscribed, "subscribing", "end")
     ELSE Goto("end") /\ UNCHANGED <<requested, refused>>
  /\ UNCHANGED <<established, goaway, reason, accepted, relayVars>>

(* The end of a turn: GOAWAY goes before the reason to close.               *)
EndTurn ==
  /\ spc = "end"
  /\ IF ShouldMigrate THEN Goto("shutdown") /\ reason' = reason
     ELSE /\ reason' = FALSE
          /\ IF reason THEN Return("failed") ELSE Goto("top")
  /\ UNCHANGED <<established, goaway, requested, accepted, refused, relayVars>>

(* MUTANT of Shutdown: the GOAWAY is forgotten on the way out.              *)
ShutdownForgetting ==
  /\ spc = "shutdown"
  /\ Return("closed")
  /\ UNCHANGED <<established, goaway, reason, requested, accepted, refused,
                 relayVars>>

(* FIN on the open streams, our GOAWAY, close; errors are ignored, and the  *)
(* GOAWAY is one more write that waits for the relay.                       *)
Shutdown ==
  /\ spc = "shutdown"
  /\ Return(IF ShouldMigrate THEN "migrated" ELSE "closed")
  /\ UNCHANGED <<established, goaway, reason, requested, accepted, refused,
                 relayVars>>

Select == SelectCancelled \/ EstablishExpires \/ Tick \/ TickExpires
          \/ ReadControl \/ (\E r \in Requests : ReadRequest(r)) \/ SendObject
          \/ (\E t \in Tracks : AnswerUpdate(t)) \/ TransportEnds

(* What session::run does when it is polled, without waiting for the relay  *)
(* to grant a stream or to read.                                            *)
Session == AcceptControl \/ SetupFails \/ Top \/ Select \/ Publish \/ Subscribe
           \/ EndTurn

(* What only the relay can let it do.                                       *)
Granted == OpenControl \/ SendEnds \/ DrainRequests \/ Shutdown
WaitsForRelay == spc \in {"opening", "sending", "answering", "publishing",
                         "subscribing", "shutdown"}
===============================================================================
