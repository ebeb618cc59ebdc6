------------------------------- MODULE MoqClient -------------------------------
(***************************************************************************)
(* One MOQT virtual client (moq_client::run) around its sessions: connect, *)
(* wait for the establishment, run until the duration, the token or the    *)
(* session ends it, shut down, and then migrate, repeat, retry or stop.    *)
(* The session is a future inside the client's task: it moves only while   *)
(* the client polls it, and it must not be polled once it has returned.    *)
(***************************************************************************)
EXTENDS MoqSession

CONSTANTS
  Home,              (* the endpoint the client starts with                 *)
  SameUri,           (* the empty New Session URI: the current endpoint     *)
  BadUris,           (* New Session URIs that cannot be used                *)
  MaxRetry,          (* --max-retry                                         *)
  HasDuration,       (* --duration is positive                              *)
  Repeats            (* --repeat-interval is positive                       *)

ASSUME ClientAssumption ==
  /\ MaxRetry \in Nat /\ HasDuration \in BOOLEAN /\ Repeats \in BOOLEAN
  /\ BadUris \subseteq Targets /\ SameUri \notin BadUris

VARIABLES
  cpc,               (* where the client's loop is                          *)
  endpoint,          (* current_endpoint                                    *)
  retry,             (* retry_count                                         *)
  live,              (* established, as the client saw it                   *)
  finished,          (* session_finished                                    *)
  byDuration,        (* disconnected_by_duration                            *)
  sent,              (* history: the last event sent to the collector       *)
  failures,          (* history: ends in a row that were not planned        *)
  asked              (* history: the GOAWAY the last session recorded       *)

clientVars == <<cpc, endpoint, retry, live, finished, byDuration, sent, failures>>
tokens == <<cancelled, released>>
vars == <<tokens, sessionVars, relayVars, clientVars, asked>>

Stages == {"connect", "establish", "running", "closing", "waited", "closed",
           "retryWait", "repeatWait", "stopping", "stopped"}

Init ==
  /\ SessionInit
  /\ cpc = "connect" /\ endpoint = Home /\ retry = 0 /\ live = FALSE
  /\ finished = FALSE /\ byDuration = FALSE
  /\ sent = "nothing" /\ failures = 0 /\ asked = NoGoaway

(* retry_count += 1, give up above max_retry, otherwise announce a retry.   *)
CountFailure ==
  /\ retry' = retry + 1
  /\ failures' = failures + 1
  /\ IF retry + 1 > MaxRetry THEN cpc' = "stopping" /\ sent' = sent
     ELSE cpc' = "retryWait" /\ sent' = "Retrying"

-----------------------------------------------------------------------------
(* Connecting.                                                              *)

ConnectCancelled ==
  /\ cpc = "connect" /\ cancelled
  /\ cpc' = "stopping"
  /\ UNCHANGED <<tokens, sessionVars, relayVars, endpoint, retry, live,
                 finished, byDuration, sent, failures, asked>>

(* A fresh session, a fresh oneshot and a fresh child token.                *)
Connect ==
  /\ cpc = "connect" /\ ~cancelled
  /\ cpc' = "establish" /\ spc' = "opening" /\ Vacant
  /\ goaway' = NoGoaway /\ result' = "none"
  /\ UNCHANGED released
  /\ live' = FALSE /\ finished' = FALSE /\ byDuration' = FALSE
  /\ asked' = NoGoaway
  /\ UNCHANGED <<cancelled, endpoint, retry, sent, failures>>

ConnectFails ==
  /\ cpc = "connect" /\ ~cancelled
  /\ CountFailure
  /\ byDuration' = FALSE /\ live' = FALSE /\ asked' = NoGoaway
  /\ UNCHANGED <<tokens, sessionVars, relayVars, endpoint, finished>>

-----------------------------------------------------------------------------
(* While the session is polled.                                             *)

(* session_future is polled in both selects, and in the shutdown only when  *)
(* it has not returned.                                                     *)
Polls == cpc \in {"establish", "running"} \/ (cpc = "closing" /\ ~finished)

(* The future returned in the poll that the client made.                    *)
Returned ==
  /\ cpc' = IF cpc = "closing" THEN "waited" ELSE "closing"
  /\ finished' = (finished \/ cpc # "closing")
  /\ UNCHANGED <<endpoint, retry, live, byDuration, sent, failures>>

(* A step A of the session inside a poll.                                   *)
PollOf(A) ==
  /\ Polls /\ A
  /\ asked' = goaway'
  /\ IF spc' = "done" THEN Returned ELSE UNCHANGED clientVars
  /\ UNCHANGED tokens

Poll == PollOf(Session)

(* The relay grants what the session waits for, or the transport gives the  *)
(* wait up: it may never come to either.                                    *)
Resume == PollOf(Granted)

(* The oneshot: the client learns of the establishment in its next poll.    *)
Establish ==
  /\ cpc = "establish" /\ ~cancelled /\ established
  /\ cpc' = "running" /\ live' = TRUE /\ sent' = "Connected"
  /\ UNCHANGED <<tokens, sessionVars, relayVars, endpoint, retry, finished,
                 byDuration, failures, asked>>

(* The token ends either select.                                            *)
Interrupt ==
  /\ cpc \in {"establish", "running"} /\ cancelled
  /\ cpc' = "closing"
  /\ UNCHANGED <<tokens, sessionVars, relayVars, endpoint, retry, live,
                 finished, byDuration, sent, failures, asked>>

DurationExpires ==
  /\ cpc = "running" /\ ~cancelled /\ HasDuration
  /\ cpc' = "closing" /\ byDuration' = TRUE
  /\ UNCHANGED <<tokens, sessionVars, relayVars, endpoint, retry, live,
                 finished, sent, failures, asked>>

(* connection_token.cancel() comes first of all.                            *)
Release ==
  /\ cpc = "closing" /\ ~released
  /\ released' = TRUE
  /\ UNCHANGED <<cancelled, sessionVars, relayVars, clientVars, asked>>

(* wait_for_session_shutdown: returns at once when the session has, and     *)
(* after GRACEFUL_SHUTDOWN_TIMEOUT otherwise.                               *)
Waited ==
  /\ cpc = "closing" /\ released
  /\ cpc' = "waited"
  /\ UNCHANGED <<tokens, sessionVars, relayVars, endpoint, retry, live, finished,
                 byDuration, sent, failures, asked>>

(* drop(session_future), with what the session owned.                       *)
Drop ==
  /\ cpc = "waited"
  /\ cpc' = "closed" /\ spc' = "idle" /\ Vacant
  /\ released' = FALSE
  /\ UNCHANGED <<cancelled, goaway, result, endpoint, retry, live,
                 finished, byDuration, sent, failures, asked>>

-----------------------------------------------------------------------------
(* After the session.                                                       *)

(* resolve_next_endpoint.                                                   *)
NextEndpoint(u) == IF u = SameUri THEN endpoint ELSE u

(* MUTANT of Disconnected: also sent for what was never connected.          *)
DisconnectedAlways ==
  /\ cpc = "closed" /\ sent # "Disconnected"
  /\ sent' = "Disconnected" /\ live' = FALSE
  /\ UNCHANGED <<tokens, sessionVars, relayVars, cpc, endpoint, retry,
                 finished, byDuration, failures, asked>>

(* Disconnected is sent for what was announced as connected.                *)
Disconnected ==
  /\ cpc = "closed" /\ live
  /\ sent' = "Disconnected" /\ live' = FALSE
  /\ UNCHANGED <<tokens, sessionVars, relayVars, cpc, endpoint, retry,
                 finished, byDuration, failures, asked>>

(* The result counts only when the future returned in one of the selects.   *)
Migrated == finished /\ result = "migrated"

Stop ==
  /\ cpc = "closed" /\ ~live /\ cancelled
  /\ cpc' = "stopping"
  /\ UNCHANGED <<tokens, sessionVars, relayVars, endpoint, retry, live,
                 finished, byDuration, sent, failures, asked>>

(* MUTANT of Migrate: the migration is taken for a retry.                   *)
MigrateKeepingCount ==
  /\ cpc = "closed" /\ ~live /\ ~cancelled /\ Migrated
  /\ IF goaway \in BadUris
     THEN cpc' = "stopping" /\ UNCHANGED <<endpoint, retry, failures>>
     ELSE cpc' = "connect" /\ endpoint' = NextEndpoint(goaway)
          /\ retry' = retry /\ failures' = 0
  /\ UNCHANGED <<tokens, sessionVars, relayVars, live, finished, byDuration,
                 sent, asked>>

(* A planned end: no retry is counted and no interval waited for; a URI     *)
(* that cannot be used stops the client.                                    *)
Migrate ==
  /\ cpc = "closed" /\ ~live /\ ~cancelled /\ Migrated
  /\ IF goaway \in BadUris
     THEN cpc' = "stopping" /\ UNCHANGED <<endpoint, retry, failures>>
     ELSE cpc' = "connect" /\ endpoint' = NextEndpoint(goaway)
          /\ retry' = 0 /\ failures' = 0
  /\ UNCHANGED <<tokens, sessionVars, relayVars, live, finished, byDuration,
                 sent, asked>>

Repeat ==
  /\ cpc = "closed" /\ ~live /\ ~cancelled /\ ~Migrated /\ byDuration
  /\ retry' = 0 /\ failures' = 0
  /\ cpc' = IF Repeats THEN "repeatWait" ELSE "stopping"
  /\ UNCHANGED <<tokens, sessionVars, relayVars, endpoint, live, finished,
                 byDuration, sent, asked>>

Retry ==
  /\ cpc = "closed" /\ ~live /\ ~cancelled /\ ~Migrated /\ ~byDuration
  /\ CountFailure
  /\ UNCHANGED <<tokens, sessionVars, relayVars, endpoint, live, finished,
                 byDuration, asked>>

Wake ==
  /\ cpc \in {"retryWait", "repeatWait"}
  /\ cpc' = IF cancelled THEN "stopping" ELSE "connect"
  /\ UNCHANGED <<tokens, sessionVars, relayVars, endpoint, retry, live,
                 finished, byDuration, sent, failures, asked>>

Stopped ==
  /\ cpc = "stopping"
  /\ cpc' = "stopped" /\ sent' = "Stopped"
  /\ UNCHANGED <<tokens, sessionVars, relayVars, endpoint, retry, live,
                 finished, byDuration, failures, asked>>

-----------------------------------------------------------------------------
(* The environment.                                                         *)

Cancel ==
  /\ ~cancelled /\ cancelled' = TRUE
  /\ UNCHANGED <<released, sessionVars, relayVars, clientVars, asked>>

Terminated == cpc = "stopped" /\ UNCHANGED vars

Loop == ConnectCancelled \/ Connect \/ ConnectFails \/ Establish \/ Interrupt
        \/ DurationExpires \/ Release \/ Waited \/ Drop \/ Disconnected
        \/ Stop \/ Migrate \/ Repeat \/ Retry \/ Wake \/ Stopped

Environment == Cancel \/ (Relay /\ UNCHANGED <<tokens, clientVars, asked>>)

Next == Loop \/ Poll \/ Resume \/ Environment \/ Terminated

(* The steps of the client's task that need neither the relay nor a timer   *)
(* of the test: the runtime polls a ready task, a shutdown is bounded by    *)
(* its timeout, waits end.                                                  *)
ClientTurns == ConnectCancelled \/ Establish \/ Interrupt \/ Release \/ Waited
               \/ Drop \/ Disconnected \/ Stop \/ Migrate \/ Repeat \/ Retry \/ Wake
               \/ Stopped

(* The runtime polls the client's task; the session, polled, does what it   *)
(* can.  Its set-up, its select! and its tail come to an end: a limit, a    *)
(* timer or nothing to wait for.  What it opens and writes has no limit, so *)
(* Resume has no fairness.  A session that comes back to its select! again  *)
(* and again meets the deadline of the establishment, and one of its 50 ms  *)
(* ticks finds the request without an answer.                               *)
Fairness ==
  /\ WF_vars(ClientTurns)
  /\ WF_vars(Poll)
  /\ SF_vars(PollOf(EstablishExpires))
  /\ SF_vars(PollOf(TickExpires))

Spec == Init /\ [][Next]_vars /\ Fairness

-----------------------------------------------------------------------------
(* Properties.                                                              *)

(* Types.                                                                   *)
TypeOK ==
  /\ cancelled \in BOOLEAN /\ released \in BOOLEAN
  /\ spc \in Turns /\ cpc \in Stages /\ result \in Results
  /\ established \in BOOLEAN /\ reason \in BOOLEAN /\ refused \in BOOLEAN
  /\ \A i \in DOMAIN control : control[i] \in ControlMessages
  /\ goaway \in Targets \cup {NoGoaway} /\ asked \in Targets \cup {NoGoaway}
  /\ requested \subseteq Requests /\ accepted \subseteq requested
  /\ endpoint \in Targets \cup {Home}
  /\ retry \in 0..(MaxRetry + 1) /\ failures \in 0..(MaxRetry + 1)
  /\ live \in BOOLEAN /\ finished \in BOOLEAN /\ byDuration \in BOOLEAN
  /\ sent \in {"nothing", "Connected", "Disconnected", "Retrying", "Stopped"}

(* What the collector is told of one client is a proper history: a          *)
(* Disconnected for each Connected and for nothing else, no retry and no    *)
(* stop in between, nothing behind Stopped - through the token, the         *)
(* duration, a failed set-up and a session that returns in the very poll in *)
(* which it was established.                                                *)
EventsPaired ==
  [][ /\ sent # "Stopped"
      /\ sent = "Connected" <=> sent' = "Disconnected" ]_sent

(* A session that shall migrate never dies of a request the library refuses *)
(* because of the GOAWAY: wherever GOAWAY is read (behind SETUP, between    *)
(* two turns), it is followed before the next PUBLISH or SUBSCRIBE.         *)
GoawayNeverRefused == MigrateOnGoaway /\ refused => Cancelled

(* The relay is asked for tracks only when it has accepted every track this *)
(* client publishes: clients that subscribe to their own tracks are not     *)
(* rejected for a publisher the relay does not know yet.                    *)
SubscribeAfterPublish ==
  requested \cap Subscribed # {} => Tracks \subseteq accepted

(* The GOAWAY a session recorded decides where the next attempt goes, unless *)
(* the duration expired while that session was shutting down.               *)
GoawayFollowed ==
  cpc = "connect" /\ asked # NoGoaway /\ MigrateOnGoaway /\ ~byDuration =>
    asked = SameUri \/ asked = endpoint

(* A client gives up only for a reason: the token, a URI it cannot use, a   *)
(* duration without repetition, or more than MaxRetry unplanned ends since  *)
(* the last planned one; migrations and durations do not use up retries.    *)
GivesUpForAReason ==
  cpc = "stopped" =>
    \/ cancelled
    \/ failures = MaxRetry + 1
    \/ byDuration /\ ~Repeats
    \/ asked \in BadUris

(* session_future is an async fn: polling it after it returned panics.      *)
NeverPolledAgain == Polls => spc # "done"

(* A session is established or given up, and a connected client gets every  *)
(* request accepted or leaves the session: a lost SETUP or answer does not  *)
(* keep it half set up.  Only a relay that for ever withholds the stream or *)
(* the credit for something the session writes can: then nothing but the    *)
(* token, or the duration of a connected client, ends it.                   *)
SetsUpOrEnds ==
  \/ <>[]WaitsForRelay
  \/ /\ cpc = "establish" ~> cpc # "establish"
     /\ cpc = "running" ~> (accepted = Requests \/ cpc # "running")

(* Ctrl+C ends the client, whatever the relay does.                         *)
CancelStops == cancelled ~> cpc = "stopped"

(* No request is sent at a time the library or the relay must refuse it.    *)
RequestsInOrder == TypeOK /\ GoawayNeverRefused /\ SubscribeAfterPublish

(* The client task ends for a reason, never by a panic.                     *)
EndsForAReason == GivesUpForAReason /\ NeverPolledAgain

(* What a silent relay can hold up: a session inside an awaited call and    *)
(* nothing else, and no client that is told to stop.                        *)
HeldOnlyInWaits == SetsUpOrEnds /\ CancelStops

(* Connected, with a PUBLISH on its way and no answer to any.               *)
Unanswered ==
  /\ cpc = "running" /\ spc \notin {"shutdown", "done"}
  /\ Tracks \cap requested # {} /\ \A t \in Tracks : answer[t] = "none"

(* What the comments on PUBLISH_ACCEPT_TIMEOUT_MS and on the wait for       *)
(* acceptance say: a session whose PUBLISHes stay unanswered is closed      *)
(* after ten seconds, so that it neither stays Established without an       *)
(* answer nor keeps waiting.                                                *)
SilenceIsNoticed == Unanswered ~> ~Unanswered

===============================================================================
