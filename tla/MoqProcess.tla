------------------------------ MODULE MoqProcess ------------------------------
(***************************************************************************)
(* The process of a MOQT load test (async_main and run_instance of         *)
(* zakuro-moq): the settings, the instances started at their rate, each    *)
(* with a context of its own and with clients started at theirs, the       *)
(* counters they share, and the two joins behind which the totals are      *)
(* reported.  A client is what MoqClient describes; here it counts objects *)
(* and ends, by itself or because of the token.                            *)
(***************************************************************************)
EXTENDS MoqSettings, Totals

CONSTANTS
  Asked,             (* bound: what may be asked of the tracks              *)
  MaxObjects         (* bound: objects counted                              *)

ProcessAssumption == Asked \subseteq SettingsAsked

VARIABLES
  asked, settings,   (* what is asked of the tracks, and what was accepted  *)
  place,             (* where async_main is                                 *)
  token, interrupts, (* the token; how often Ctrl+C was pressed             *)
  begun, instance,   (* instances started so far, and where each is         *)
  hatched, client,   (* clients started so far, and what became of each     *)
  total,             (* the shared counter                                  *)
  counted,           (* history: the objects each client counted            *)
  report             (* the total that was reported                         *)

instances == <<begun, instance>>
clients == <<hatched, client>>
counters == <<total, counted, report>>
vars == <<asked, settings, place, token, interrupts, instances, clients, counters>>

I == 1 .. InstanceCount
C == I \X (1 .. Vcs)
ClientsOf(i) == {c \in C : c[1] = i}
Running == {c \in C : client[c] = "running"}

Init ==
  /\ asked \in Asked /\ settings = Refused
  /\ place = "settings" /\ token = FALSE /\ interrupts = 0
  /\ begun = 0 /\ instance = [i \in I |-> "waiting"]
  /\ hatched = [i \in I |-> 0] /\ client = [c \in C |-> "waiting"]
  /\ total = 0 /\ counted = [c \in C |-> 0] /\ report = Absent

-----------------------------------------------------------------------------
(* async_main.                                                              *)

(* The arguments; a port that cannot be bound refuses them as well.         *)
Settle ==
  /\ place = "settings"
  /\ settings' = validate_instance_args(asked)
  /\ place' \in (IF settings'.ok THEN {"hatching", "refused"} ELSE {"refused"})
  /\ UNCHANGED <<asked, token, interrupts, instances, clients, counters>>

HatchInstance ==
  /\ place = "hatching" /\ ~token /\ begun < InstanceCount
  /\ begun' = begun + 1
  /\ instance' = [instance EXCEPT ![begun + 1] = "building"]
  /\ UNCHANGED <<asked, settings, place, token, interrupts, clients, counters>>

(* The queue is empty, or the token was cancelled.                          *)
InstancesHatched ==
  /\ place = "hatching" /\ (token \/ begun = InstanceCount)
  /\ place' = "joining"
  /\ UNCHANGED <<asked, settings, token, interrupts, instances, clients, counters>>

(* Every task has ended, well, with an error or by a panic; then the token  *)
(* is cancelled and the counter read.                                       *)
InstancesJoined ==
  /\ place = "joining" /\ \A i \in I : instance[i] \in {"waiting", "failed", "ended"}
  /\ place' = "over" /\ token' = TRUE /\ report' = total
  /\ UNCHANGED <<asked, settings, interrupts, instances, clients, total, counted>>

CtrlC ==
  /\ place \in {"hatching", "joining"} /\ interrupts < 2
  /\ token' = TRUE /\ interrupts' = interrupts + 1
  /\ place' = IF interrupts = 1 THEN "killed" ELSE place
  /\ UNCHANGED <<asked, settings, instances, clients, counters>>

-----------------------------------------------------------------------------
(* run_instance. The context, whose relay is looked up, is built without a  *)
(* look at the token.                                                       *)

Alive == place \in {"hatching", "joining"}

ContextBuilt(i) ==
  /\ Alive /\ instance[i] = "building"
  /\ instance' = [instance EXCEPT ![i] = "hatching"]
  /\ UNCHANGED <<asked, settings, place, token, interrupts, begun, clients, counters>>

ContextFails(i) ==
  /\ Alive /\ instance[i] = "building"
  /\ instance' = [instance EXCEPT ![i] = "failed"]
  /\ UNCHANGED <<asked, settings, place, token, interrupts, begun, clients, counters>>

HatchClient(i) ==
  /\ Alive /\ instance[i] = "hatching" /\ ~token /\ hatched[i] < Vcs
  /\ hatched' = [hatched EXCEPT ![i] = @ + 1]
  /\ client' = [client EXCEPT ![<<i, hatched[i] + 1>>] = "running"]
  /\ UNCHANGED <<asked, settings, place, token, interrupts, instances, counters>>

ClientsHatched(i) ==
  /\ Alive /\ instance[i] = "hatching" /\ (token \/ hatched[i] = Vcs)
  /\ instance' = [instance EXCEPT ![i] = "joining"]
  /\ UNCHANGED <<asked, settings, place, token, interrupts, begun, clients, counters>>

(* MUTANT of ClientsJoined: the set of clients is dropped, which aborts them.*)
ClientsDropped(i) ==
  /\ Alive /\ instance[i] = "joining"
  /\ instance' = [instance EXCEPT ![i] = "ended"]
  /\ client' = [c \in C |-> IF c \in ClientsOf(i) \cap Running THEN "aborted" ELSE client[c]]
  /\ UNCHANGED <<asked, settings, place, token, interrupts, begun, hatched, counters>>

ClientsJoined(i) ==
  /\ Alive /\ instance[i] = "joining" /\ ClientsOf(i) \cap Running = {}
  /\ instance' = [instance EXCEPT ![i] = "ended"]
  /\ UNCHANGED <<asked, settings, place, token, interrupts, begun, clients, counters>>

-----------------------------------------------------------------------------
(* The clients.                                                             *)

CountObject(c) ==
  /\ Alive /\ c \in Running /\ total < MaxObjects
  /\ total' = total + 1 /\ counted' = [counted EXCEPT ![c] = @ + 1]
  /\ UNCHANGED <<asked, settings, place, token, interrupts, instances, clients, report>>

ClientEnds(c) ==
  /\ Alive /\ c \in Running
  /\ client' = [client EXCEPT ![c] = "ended"]
  /\ UNCHANGED <<asked, settings, place, token, interrupts, instances, hatched, counters>>

(* MUTANT of Hears: a token that is no child of the one of the process.     *)
HearsNothing(c) == FALSE /\ c \in Running
Hears(c) == token

Terminated == place \in {"over", "killed", "refused"} /\ UNCHANGED vars

Next ==
  \/ Settle \/ HatchInstance \/ InstancesHatched \/ InstancesJoined \/ CtrlC
  \/ \E i \in I : ContextBuilt(i) \/ ContextFails(i) \/ HatchClient(i)
                  \/ ClientsHatched(i) \/ ClientsJoined(i)
  \/ \E c \in C : CountObject(c) \/ ClientEnds(c)
  \/ Terminated

(* Ready tasks run, timers fire, a look-up returns.  A client ends once it  *)
(* hears the token, which is CancelStops of MoqClient, and otherwise need   *)
(* not.                                                                     *)
Fairness ==
  /\ WF_vars(HatchInstance \/ InstancesHatched \/ InstancesJoined)
  /\ \A i \in I : WF_vars(ContextBuilt(i) \/ ContextFails(i) \/ HatchClient(i)
                          \/ ClientsHatched(i) \/ ClientsJoined(i))
  /\ \A c \in C : WF_vars(Hears(c) /\ ClientEnds(c))

Spec == Init /\ [][Next]_vars /\ Fairness

-----------------------------------------------------------------------------
(* Properties.                                                              *)

Plain(names) == \A i \in DOMAIN names : Len(names[i]) = 1 /\ Len(names[i][1]) = 1

(* TracksAsAsked: what was accepted is what the file asks for, wherever the *)
(* command line does not say otherwise: its list becomes the text of an     *)
(* option and is parsed again, so each track must come back with its own    *)
(* rate, size and delivery (a name with a comma or a colon is excepted: it  *)
(* is taken apart). The shared payload is long enough for each track, and   *)
(* no datagram that passed the check at the start, which estimates its      *)
(* header, is refused by the check before it is sent, whatever its numbers. *)
TracksAsAsked ==
  settings.ok =>
    /\ asked.cliTracks = Absent /\ asked.tracks # Absent /\
       Plain([i \in DOMAIN asked.tracks |-> asked.tracks[i].name]) =>
         settings.tracks = [i \in DOMAIN asked.tracks |->
           Track(asked.tracks[i].name[1][1], OrDefault(asked.tracks[i].rate, DefaultRate),
                 OrDefault(asked.tracks[i].size, DefaultSize),
                 OrDefault(asked.tracks[i].delivery, "subgroup"))]
    /\ asked.cliSubscribe = Absent /\ asked.subscribe # Absent /\ Plain(asked.subscribe) =>
         settings.subscribe = [i \in DOMAIN asked.subscribe |-> asked.subscribe[i][1]]
    /\ settings.tracks # <<>> \/ settings.subscribe # <<>>
    /\ \A i \in DOMAIN settings.tracks :
         /\ settings.tracks[i].size <= PayloadLength(settings.tracks)
         /\ settings.tracks[i].delivery = "datagram" =>
              ~TooLarge(settings.tracks[i], asked.datagramMax)

(* AllEnded: the totals are reported when nobody is left to count. A test   *)
(* that was not interrupted ran every client of every instance that could   *)
(* be set up to its own end: tasks live in sets that abort them when they   *)
(* are dropped, so each level has to wait for the one below, whatever fails *)
(* beside it.                                                               *)
AllEnded ==
  place = "over" =>
    /\ Running = {} /\ report = total
    /\ interrupts = 0 =>
         \A i \in I : instance[i] = "failed" \/ \A c \in ClientsOf(i) : client[c] = "ended"

(* TotalsComplete: the total that is reported then is what all clients      *)
(* counted.                                                                 *)
TotalsComplete ==
  AllEnded /\ (place = "over" => report = TotalOver(C, counted))

(* CancelEnds: Ctrl+C ends the process, also between two instances, two     *)
(* clients, or in the middle of a look-up.                                  *)
CancelEnds == token ~> place \in {"over", "killed"}

(* Types.                                                                   *)
TypeOK ==
  /\ place \in {"settings", "refused", "hatching", "joining", "over", "killed"}
  /\ token \in BOOLEAN /\ interrupts \in 0 .. 2
  /\ begun \in 0 .. InstanceCount /\ hatched \in [I -> 0 .. Vcs]
  /\ instance \in [I -> {"waiting", "building", "failed", "hatching", "joining", "ended"}]
  /\ client \in [C -> {"waiting", "running", "ended"}]

(* Why AllEnded holds.  Instances and clients are started in order, clients *)
(* only in an instance that has its context, and an end of the starting     *)
(* that is not an interruption is the end of the queue ...                  *)
HatchInv ==
  /\ place \in {"settings", "refused"} => begun = 0
  /\ token => interrupts > 0 \/ place = "over"
  /\ place \in {"joining", "over"} => interrupts > 0 \/ begun = InstanceCount
  /\ \A i \in I : instance[i] = "waiting" <=> i > begun
  /\ \A i \in I : instance[i] \in {"waiting", "building", "failed"} => hatched[i] = 0
  /\ \A i \in I : instance[i] \in {"joining", "ended"} => interrupts > 0 \/ hatched[i] = Vcs
  /\ \A c \in C : client[c] = "waiting" <=> c[2] > hatched[c[1]]

(* ... and what was waited for stays ended.                                 *)
JoinInv ==
  /\ \A c \in C : instance[c[1]] = "ended" => client[c] # "running"
  /\ place = "over" => \A i \in I : instance[i] \in {"waiting", "failed", "ended"}

===============================================================================
