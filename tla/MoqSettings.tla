------------------------------ MODULE MoqSettings ------------------------------
(***************************************************************************)
(* The settings of zakuro-moq: how many instances and how many clients in   *)
(* each, and the tracks of an instance: --tracks and --subscribe-tracks,    *)
(* and the lists of the file, which are written as such options and parsed  *)
(* like them (push_tracks, parse_tracks, validate_instance_args), and what  *)
(* the publisher makes of their sizes.                                      *)
(*                                                                         *)
(* The text of an option is a sequence of entries, which commas separate,  *)
(* and an entry a sequence of fields, which colons separate. A field is a  *)
(* word, and a number if it can be read as one.                            *)
(***************************************************************************)
EXTENDS Integers, Sequences, FiniteSets, FiniteSetsExt, SequencesExt

CONSTANTS
  InstanceCount, Vcs, (* instances, and the clients of each               *)
  Absent,            (* an option or a member that is not given             *)
  Words,             (* what a field of a text may read                     *)
  Rates,             (* OBJECT_RATE_RANGE                                   *)
  DefaultRate, DefaultSize,
  MaxSize            (* MAX_OBJECT_SIZE                                     *)

(* Text that is taken apart has one entry at least, of one field at least.  *)
Fields == [word : Words, number : {Absent} \cup Nat]
Entries == Seq(Fields) \ {<<>>}
Texts == Seq(Entries) \ {<<>>}

ASSUME SettingsAssumption == InstanceCount \in Nat \ {0} /\ Vcs \in Nat \ {0}

(* An option that is not given has no text.                                 *)
ASSUME TracksAssumption ==
  /\ {"", "digits", "video", "subgroup", "datagram"} \subseteq Words
  /\ Rates \subseteq Nat /\ DefaultRate \in Rates
  /\ MaxSize \in Nat /\ DefaultSize \in 1 .. MaxSize
  /\ Absent \notin Texts

HeaderMax == 48      (* DATAGRAM_HEADER_MAX_SIZE                            *)
Varint == 8          (* bytes of the longest variable-length integer        *)

Text(w) == [word |-> w, number |-> Absent]
Number(n) == [word |-> "digits", number |-> n]
Empty == Text("")

Deliveries == {"subgroup", "datagram"}
Track(name, rate, size, delivery) ==
  [name |-> name, rate |-> rate, size |-> size, delivery |-> delivery]

(* What may be asked of an instance: each option as a text, each list of    *)
(* the file, and --datagram-max-size.                                       *)
TracksListed ==
  [name : Texts, rate : {Absent} \cup Nat, size : {Absent} \cup Nat,
   delivery : {Absent} \cup Words]
SettingsAsked ==
  [cliTracks : {Absent} \cup Texts, tracks : {Absent} \cup Seq(TracksListed),
   cliSubscribe : {Absent} \cup Texts, subscribe : {Absent} \cup Seq(Texts),
   datagramMax : Nat]

-----------------------------------------------------------------------------
(* From the file to the option. A name is written as it stands: one with a  *)
(* comma or a colon is more than one field.                                 *)

OrDefault(value, default) == IF value = Absent THEN default ELSE value

Joined(texts) == IF texts = <<>> THEN <<<<Empty>>>> ELSE FlattenSeq(texts)

push_tracks_before_datagrams(list) ==                               \* MUTANT
  Joined([i \in DOMAIN list |->
    LET t == list[i] IN
      Front(t.name) \o <<Last(t.name) \o <<Number(OrDefault(t.rate, DefaultRate)),
                                           Number(OrDefault(t.size, DefaultSize))>>>>])
push_tracks(list) ==
  Joined([i \in DOMAIN list |->
    LET t == list[i] IN
      Front(t.name) \o <<Last(t.name) \o <<Number(OrDefault(t.rate, DefaultRate)),
                                           Number(OrDefault(t.size, DefaultSize)),
                                           Text(OrDefault(t.delivery, "subgroup"))>>>>])

push_subscribe_tracks(names) == Joined(names)

-----------------------------------------------------------------------------
(* From the option to the tracks: name[:rate[:size[:delivery]]], or nothing *)
(* when any entry is wrong or two have one name.                            *)

Distinct(s) == \A i, j \in DOMAIN s : s[i] = s[j] => i = j

ValidEntry(e) ==
  /\ Len(e) \in 1 .. 4 /\ e[1] # Empty
  /\ Len(e) >= 2 => e[2].number \in Rates
  /\ Len(e) >= 3 => e[3].number # Absent /\ e[3].number \in 1 .. MaxSize
  /\ Len(e) = 4 => e[4].word \in Deliveries

TrackOf(e) ==
  Track(e[1], IF Len(e) >= 2 THEN e[2].number ELSE DefaultRate,
        IF Len(e) >= 3 THEN e[3].number ELSE DefaultSize,
        IF Len(e) = 4 THEN e[4].word ELSE "subgroup")

parse_tracks(text) ==
  [ok |-> (\A i \in DOMAIN text : ValidEntry(text[i]))
            /\ Distinct([i \in DOMAIN text |-> text[i][1]]),
   tracks |-> text]

(* A name to subscribe to may hold colons.                                  *)
parse_subscribe_tracks(text) ==
  [ok |-> (\A i \in DOMAIN text : text[i] # <<Empty>>) /\ Distinct(text), names |-> text]

(* The command line wins over the file.                                     *)
TracksOption(asked) ==
  IF asked.cliTracks # Absent THEN asked.cliTracks
  ELSE IF asked.tracks # Absent THEN push_tracks(asked.tracks) ELSE Absent
SubscribeOption(asked) ==
  IF asked.cliSubscribe # Absent THEN asked.cliSubscribe
  ELSE IF asked.subscribe # Absent THEN push_subscribe_tracks(asked.subscribe) ELSE Absent

Default == <<<<Text("video")>>>>

Refused == [ok |-> FALSE, tracks |-> <<>>, subscribe |-> <<>>]

(* validate_instance_args: the default track is for those who do not only   *)
(* subscribe; what is sent as a datagram must fit with its header.          *)
validate_instance_args(asked) ==
  LET option == TracksOption(asked)
      wanted == SubscribeOption(asked)
      published == IF option # Absent THEN parse_tracks(option)
                   ELSE IF wanted = Absent THEN parse_tracks(Default)
                   ELSE [ok |-> TRUE, tracks |-> <<>>]
      subscribed == IF wanted = Absent THEN [ok |-> TRUE, names |-> <<>>]
                    ELSE parse_subscribe_tracks(wanted)
      tracks == [i \in DOMAIN published.tracks |-> TrackOf(published.tracks[i])]
  IN  IF ~published.ok \/ ~subscribed.ok THEN Refused
      ELSE IF \E i \in DOMAIN tracks :
                tracks[i].delivery = "datagram" /\ tracks[i].size + HeaderMax > asked.datagramMax
      THEN Refused
      ELSE [ok |-> TRUE, tracks |-> tracks, subscribe |-> subscribed.names]

-----------------------------------------------------------------------------
(* What is sent. All tracks share one payload, of the largest size; a       *)
(* datagram is a type, the length of the properties, a timescale, and four  *)
(* numbers: the alias, the group, the object and, behind its id, the time.  *)

PayloadLength(tracks) == Max({0} \cup {tracks[i].size : i \in DOMAIN tracks})

Timescale == 4
DatagramLength(track, numbers) == 1 + numbers + 1 + (1 + Timescale) + 1 + track.size

(* send_next_datagram refuses one that is too large, which ends the session.*)
TooLarge(track, datagramMax) ==
  \E numbers \in 4 .. 4 * Varint : DatagramLength(track, numbers) > datagramMax

===============================================================================
