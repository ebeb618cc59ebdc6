-------------------------------- MODULE Messaging --------------------------------
(***************************************************************************)
(* What one virtual client says over its connections: the player of its    *)
(* scenario, which lives as long as the client, and one messaging task for *)
(* each connection that was established, which is told to stop and never   *)
(* awaited (scenario.rs, data_channel.rs, and their use in                 *)
(* virtual_client.rs).                                                     *)
(*                                                                         *)
(* A send is two steps, so that the connection, the token and the other    *)
(* sender come in between. Random numbers are any of a few.                *)
(***************************************************************************)
EXTENDS DataChannels, FiniteSets, FiniteSetsExt

CONSTANTS
  Labels, Randoms,
  MaxConnections, MaxTime, MaxSent  (* bounds                               *)

MessagingAssumption ==
  /\ Randoms \subseteq Nat /\ Randoms # {} /\ MaxConnections \in Nat \ {0}
  /\ MaxTime \in Nat /\ MaxSent \in Nat

VARIABLES
  channels,          (* message channels of the client                      *)
  scenario,          (* its operations; <<>> is none                        *)
  cancelled,         (* the token of the process                            *)
  now,               (* milliseconds                                        *)
  connection,        (* its number, and "idle", "opening", "open",          *)
                     (* "closing" or "over"                                 *)
  player,            (* ScenarioPlayer, and what it waits for               *)
  tasks,             (* of each connection: Nothing or its messaging task      *)
  sent               (* history: what the peer got                          *)

vars == <<channels, scenario, cancelled, now, connection, player, tasks, sent>>

Zero == [l \in Labels |-> 0]
Nothing == [at |-> "none"]
Player == 0          (* in the history; a task is named by its connection   *)

(* The reconnect scenario: nine sleeps in the code.                         *)
Sleep(min, max) == [op |-> "Sleep", min |-> min, max |-> max]
SendDataChannelMessage(l, min, max) ==
  [op |-> "SendDataChannelMessage", label |-> l, min |-> min, max |-> max]
Leave(op) == [op |-> op]
build_reconnect_scenario(sleeps, min, max) ==
  <<Leave("Reconnect")>> \o [i \in 1 .. sleeps |-> Sleep(min, max)]

Init ==
  /\ channels = <<>> /\ scenario = <<>> /\ cancelled = FALSE /\ now = 0
  /\ connection = [number |-> 0, at |-> "idle"]
  /\ player = [op |-> 1, at |-> "idle", numbers |-> Zero, until |-> 0, message |-> Nothing]
  /\ tasks = [c \in 1 .. MaxConnections |-> Nothing]
  /\ sent = <<>>

Start(described, s) ==
  /\ connection.at = "idle"
  /\ ~ChannelsRejected(described)
  /\ channels' = parse_data_channels(described) /\ scenario' = s
  /\ connection' = [number |-> 1, at |-> "opening"]
  /\ UNCHANGED <<cancelled, now, player, tasks, sent>>

Passes ==
  /\ connection.at # "idle" /\ now < MaxTime
  /\ now' = now + 1
  /\ UNCHANGED <<channels, scenario, cancelled, connection, player, tasks, sent>>

Cancel ==
  /\ connection.at # "idle" /\ ~cancelled /\ cancelled' = TRUE
  /\ UNCHANGED <<channels, scenario, now, connection, player, tasks, sent>>

-----------------------------------------------------------------------------
(* The connections of the client. The task is made with the first sends of  *)
(* all channels due at once; the player resumes where it was.               *)

run_messaging ==
  [at |-> "waiting", stop |-> FALSE, numbers |-> Zero,
   next |-> [i \in DOMAIN channels |-> now]]

Opened(established) ==
  /\ connection.at = "opening"
  /\ connection' = [connection EXCEPT !.at = "open"]
  /\ tasks' = IF established /\ channels # <<>>
              THEN [tasks EXCEPT ![connection.number] = run_messaging] ELSE tasks
  /\ player' = IF scenario # <<>> THEN [player EXCEPT !.at = "ready"] ELSE player
  /\ UNCHANGED <<channels, scenario, cancelled, now, sent>>

(* The token of the connection; the task sees it when it waits next.        *)
Told(c) ==
  IF tasks[c].at \in {"waiting", "sending"} THEN [tasks EXCEPT ![c].stop = TRUE] ELSE tasks

(* The loop goes on with another connection, or is over.                    *)
Another ==
  \/ /\ ~cancelled /\ connection.number < MaxConnections
     /\ connection' = [number |-> connection.number + 1, at |-> "opening"]
  \/ connection' = [connection EXCEPT !.at = "over"]

(* What the peer gets.                                                      *)
Got(by, message) ==
  Append(sent, [by |-> by, time |-> now, channel |-> message.channel, label |-> message.label,
                number |-> message.number, size |-> message.size])

(* A message under way when its future is dropped may have gone or not.     *)
Dropped ==
  IF player.at # "sending" THEN sent' = sent ELSE sent' \in {sent, Got(Player, player.message)}

(* The connection was lost, or its timer ran off: run() returned, and the   *)
(* future of the player is dropped where it stands.                         *)
Ends ==
  /\ connection.at \in {"opening", "open"} /\ ~cancelled
  /\ Dropped
  /\ player' = [player EXCEPT !.at = "idle"]
  /\ tasks' = Told(connection.number)
  /\ Another
  /\ UNCHANGED <<channels, scenario, cancelled, now>>

(* disconnect() is done after the scenario or the token asked for it.       *)
Closed ==
  /\ connection.at = "closing"
  /\ tasks' = Told(connection.number)
  /\ IF player.at = "exited" THEN connection' = [connection EXCEPT !.at = "over"] ELSE Another
  /\ UNCHANGED <<channels, scenario, cancelled, now, player, sent>>

(* The select is biased to the token.                                       *)
Shutdown ==
  /\ connection.at \in {"opening", "open"} /\ cancelled
  /\ connection' = [connection EXCEPT !.at = "closing"]
  /\ Dropped
  /\ player' = [player EXCEPT !.at = "idle"]
  /\ UNCHANGED <<channels, scenario, cancelled, now, tasks>>

-----------------------------------------------------------------------------
(* ScenarioPlayer::run_until_disconnect.                                    *)

Op == scenario[player.op]
Playing(at) == connection.at = "open" /\ ~cancelled /\ player.at = at
advance == IF player.op = Len(scenario) THEN 1 ELSE player.op + 1
Plays(at, op, until) ==
  player' = [op |-> op, at |-> at, until |-> until, numbers |-> player.numbers,
             message |-> player.message]

Sleeps ==
  /\ Playing("ready") /\ Op.op = "Sleep"
  /\ \E t \in Op.min .. Op.max : Plays("asleep", player.op, now + t)
  /\ UNCHANGED <<channels, scenario, cancelled, now, connection, tasks, sent>>

Wakes ==
  /\ Playing("asleep") /\ now >= player.until
  /\ Plays("ready", advance, player.until)
  /\ UNCHANGED <<channels, scenario, cancelled, now, connection, tasks, sent>>

Leaves ==
  /\ Playing("ready") /\ Op.op \in {"Reconnect", "Disconnect", "Exit"}
  /\ IF Op.op = "Exit" THEN Plays("exited", player.op, player.until)
     ELSE Plays("idle", advance, player.until)
  /\ connection' = [connection EXCEPT !.at = "closing"]
  /\ UNCHANGED <<channels, scenario, cancelled, now, tasks, sent>>

(* send_data_channel_message: counted before the message is awaited, so     *)
(* that a dropped future does not repeat a number.                          *)
NumberedFrom(numbers, l) == [numbers EXCEPT ![l] = @ + 1]
Message(channel, l, numbers, payload) ==
  LET built == build_message(l, numbers[l], payload)
  IN  [channel |-> channel, label |-> built.label, number |-> built.number, size |-> built.size]
Sends ==
  /\ Playing("ready") /\ Op.op = "SendDataChannelMessage" /\ Len(sent) < MaxSent
  /\ \E random \in Randoms :
       LET sizes == Sized(Op.min, Op.max)
       IN  player' = [op |-> player.op, at |-> "sending", until |-> player.until,
                      numbers |-> NumberedFrom(player.numbers, Op.label),
                      message |-> Message(0, Op.label, player.numbers,
                                          payload_size_from(sizes.min, sizes.max, random))]
  /\ UNCHANGED <<channels, scenario, cancelled, now, connection, tasks, sent>>

(* A failure is only a warning.                                             *)
Sent ==
  /\ Playing("sending")
  /\ sent' \in {sent, Got(Player, player.message)}
  /\ Plays("ready", advance, player.until)
  /\ UNCHANGED <<channels, scenario, cancelled, now, connection, tasks>>

-----------------------------------------------------------------------------
(* run_messaging of connection c.                                           *)

Waiting(c) == tasks[c].at = "waiting"
Stopped(c) == tasks[c].stop \/ cancelled

(* min_by_key: of the earliest times the first.                             *)
Earliest(task) ==
  Min({i \in DOMAIN task.next : \A j \in DOMAIN task.next : task.next[i] <= task.next[j]})

TaskStops(c) ==
  /\ Waiting(c) /\ Stopped(c)
  /\ tasks' = [tasks EXCEPT ![c] = [at |-> "ended"]]
  /\ UNCHANGED <<channels, scenario, cancelled, now, connection, player, sent>>

TaskSends(c) ==
  /\ Waiting(c) /\ ~Stopped(c) /\ now >= tasks[c].next[Earliest(tasks[c])]
  /\ Len(sent) < MaxSent
  /\ \E random \in Randoms :
       LET i == Earliest(tasks[c])
           ch == channels[i]
       IN  tasks' = [tasks EXCEPT ![c] =
             [at |-> "sending", stop |-> @.stop, numbers |-> @.numbers, next |-> @.next,
              message |-> Message(i, ch.label, @.numbers,
                                  payload_size_from(ch.min, ch.max, random))]]
  /\ UNCHANGED <<channels, scenario, cancelled, now, connection, player, sent>>

(* The next one is due an interval after this one was sent.                 *)
DueFromSchedule(task) ==                                            \* MUTANT
  task.next[task.message.channel] + channels[task.message.channel].interval
Due(task) == now + channels[task.message.channel].interval

TaskSent(c) ==
  /\ tasks[c].at = "sending"
  /\ sent' = Got(c, tasks[c].message)
  /\ tasks' = [tasks EXCEPT ![c] =
       [at |-> "waiting", stop |-> @.stop,
        numbers |-> NumberedFrom(@.numbers, @.message.label),
        next |-> [@.next EXCEPT ![tasks[c].message.channel] = Due(tasks[c])]]]
  /\ UNCHANGED <<channels, scenario, cancelled, now, connection, player>>

TaskFails(c) ==
  /\ tasks[c].at = "sending"
  /\ tasks' = [tasks EXCEPT ![c] = [at |-> "ended"]]
  /\ UNCHANGED <<channels, scenario, cancelled, now, connection, player, sent>>

Next ==
  \/ \E b \in BOOLEAN : Opened(b)
  \/ Passes \/ Cancel \/ Ends \/ Closed \/ Shutdown
  \/ Sleeps \/ Wakes \/ Leaves \/ Sends \/ Sent
  \/ \E c \in 1 .. MaxConnections : TaskStops(c) \/ TaskSends(c) \/ TaskSent(c) \/ TaskFails(c)

(* A client starts with some channels and a scenario, and then the rest.    *)
Described == [label : Labels, direction : {"sendonly", "sendrecv", "recvonly"},
              interval : Nat \cup {Absent}, min : Int, max : Int]
Operations ==
  [op : {"Sleep"}, min : Int, max : Int] \cup [op : {"Reconnect", "Disconnect", "Exit"}]
    \cup [op : {"SendDataChannelMessage"}, label : Labels, min : Int, max : Int]
SetUp == \E described \in Seq(Described), s \in Seq(Operations) : Start(described, s)

Spec == Init /\ [][SetUp \/ (connection.at # "idle" /\ Next)]_vars

-----------------------------------------------------------------------------
(* MessagesInSequence: what the peer gets from one task under one label is  *)
(* numbered 0, 1, 2 and so on, also when two channels share the label; what *)
(* it gets from the player is never numbered twice over all connections,    *)
(* though a message may be under way when its connection ends; and two      *)
(* messages of one channel are an interval apart however late the first     *)
(* was: nothing is sent in a burst after a slow send (data_channel.rs:305,  *)
(* scenario.rs:270).                                                        *)
SameLabel(i, j) == sent[i].by = sent[j].by /\ sent[i].label = sent[j].label
MessagesInSequence ==
  /\ \A j \in DOMAIN sent :
       LET before == {i \in 1 .. j - 1 : SameLabel(i, j)}
       IN  IF sent[j].by = Player THEN \A i \in before : sent[i].number < sent[j].number
           ELSE sent[j].number = Cardinality(before)
  /\ \A j \in DOMAIN sent, i \in DOMAIN sent :
       i < j /\ sent[i].by = sent[j].by /\ sent[i].by # Player /\ sent[i].channel = sent[j].channel
         => sent[j].time - sent[i].time >= channels[sent[j].channel].interval
  /\ \A j \in DOMAIN sent :
       sent[j].by # Player => sent[j].size \in channels[sent[j].channel].min .. channels[sent[j].channel].max

===============================================================================
