------------------------------- MODULE MCStartup -------------------------------
(* Command lines, files and media settings for TLC: layers with plain media *)
(* in both programs, and every media setting of zakuro without layers. Of   *)
(* the instances that are set up, those of Played run. In zakuro-moq, two   *)
(* clients and two relays, one of them not resolved yet; the timeouts are   *)
(* those of the code in units of 5 s: 5, 5 and 15 s.                        *)
EXTENDS Process, TLC

Plain == [inputs |-> {}, no |-> {}, role |-> "sendonly", codec |-> None, bitrate |-> FALSE,
          params |-> None, encoder |-> None, channels |-> <<>>, file |-> [codec |-> None, audio |-> "none"]]

Member(k, v, nested) == [key |-> k, value |-> v, nested |-> nested]
TopMembers ==
  {Member("log-level", "error", FALSE), Member("vcs", "1", FALSE), Member("flag", "yes", FALSE),
   Member("flag", "no", FALSE), Member("audio", "true", FALSE), Member("audio", "yes", TRUE),
   Member("audio", "no", TRUE), Member("name", "1", FALSE), Member("config", "1", FALSE)}
InstanceMembers ==
  (TopMembers \ {Member("audio", "yes", TRUE)}) \cup {Member("vcs", "2", FALSE)}
CliTokens ==
  {Key("log-level"), Eq("log-level", "info"), Key("vcs"), Eq("vcs", "2"), Key("flag"),
   Key("audio"), Word("info"), Word("2"), Word("false")}

Lists(S, n) == UNION {[1 .. m -> S] : m \in 0 .. n}
JsonObjects(S, n) == {o \in Lists(S, n) : \A i, j \in DOMAIN o : o[i].key = o[j].key => i = j}
File(top, list) == [top |-> top, instances |-> list]

Files(tops, members, count) ==
  {File(top, is) : top \in JsonObjects(TopMembers, tops), is \in Lists(JsonObjects(InstanceMembers, members), count)}

Layers ==
  {[program |-> p, file |-> f[1], cli |-> f[2], media |-> <<Plain, Plain>>, openh264 |-> FALSE] :
     p \in Programs,
     f \in (Files(2, 0, 0) \X Lists(CliTokens, 2)) \cup (Files(1, 0, 0) \X Lists(CliTokens, 3))
           \cup (Files(1, 1, 1) \X Lists(CliTokens, 2)) \cup (Files(1, 1, 2) \X Lists(CliTokens, 1))}

Fileless ==
  [inputs: SUBSET (VideoInputs \cup {"wav"}), no: SUBSET {"video", "audio"},
   role: {"sendonly", "recvonly"}, codec: {None, "vp8", "h264"}, bitrate: BOOLEAN,
   params: {None, "h264"}, encoder: {None} \cup Encoders, channels: {<<>>},
   file: {[codec |-> None, audio |-> "none"]}]
Mp4Settings ==
  [inputs: {i \in SUBSET (VideoInputs \cup {"wav"}) : "mp4" \in i /\ Cardinality(i) <= 2},
   no: SUBSET {"video", "audio"}, role: {"sendonly", "recvonly"}, codec: Codecs, bitrate: BOOLEAN,
   params: {None, "h264"}, encoder: {None, [codec |-> "h264", impl |-> "internal"]},
   channels: {<<>>}, file: [codec: Codecs, audio: {"none", "opus", "unsupported", "changing", "two"}]]

Muted == {<<>>, <<Eq("audio", "false")>>}
One(m, o, cli) == [program |-> "zakuro", file |-> NoFile, cli |-> cli, media |-> <<m>>, openh264 |-> o]
Two(m, o) == [program |-> "zakuro", file |-> File(<<>>, <<<<>>, <<>>>>), cli |-> <<>>,
              media |-> <<Plain, m>>, openh264 |-> o]

MediaOnly ==
  {One(m, o, cli) : m \in {s \in Fileless : "mp4" \notin s.inputs} \cup Mp4Settings,
                    o \in BOOLEAN, cli \in Muted}
    \cup {Two([Plain EXCEPT !.encoder = e], o) : e \in Encoders, o \in BOOLEAN}

OpusPackets == <<2, 0, 3>>

Mp4 == [Plain EXCEPT !.inputs = {"mp4"}, !.codec = "h264", !.bitrate = TRUE,
                     !.file = [codec |-> "h264", audio |-> "opus"]]
Played ==
  {One([Plain EXCEPT !.inputs = {v}, !.no = {"audio"}], FALSE, <<>>) : v \in {"y4m", "device"}}
    \cup {One([Plain EXCEPT !.inputs = {"wav"}, !.no = {"video"}], FALSE, <<>>),
          One([Plain EXCEPT !.inputs = {"sandstorm"}, !.no = {"audio"}], TRUE, <<>>),
          One(Mp4, FALSE, <<>>)}

(* Two channels under one label, one that sends nothing, one whose larger   *)
(* size is below the smaller; and a size that is refused.                   *)
Channel(l, d, t, low, high) ==
  [label |-> l, direction |-> d, interval |-> t, min |-> low, max |-> high]
Spoken == <<Channel("a", "sendonly", 1, 48, 49), Channel("b", "recvonly", Absent, 1, Absent),
            Channel("a", "sendrecv", 2, 50, 48)>>
Refused == <<Channel("b", "sendonly", 1, Absent, 47)>>
Single == <<Channel("a", "sendonly", 1, 48, 49)>>
Descriptions4 == {<<>>, Spoken, Single, Refused}
Talkative(d) == One([Plain EXCEPT !.no = {"video", "audio"}, !.channels = d], FALSE, <<>>)
Said == {Talkative(d) : d \in {Spoken, Single, Refused}}
MediaAndTalk == MediaOnly \cup Said

SendOp == [op |-> "SendDataChannelMessage", label |-> "a", min |-> 49, max |-> 48]
SendAgain == <<SendOp, [op |-> "Disconnect"]>>
ThenExit == <<[op |-> "Sleep", min |-> 0, max |-> 1], [op |-> "Exit"]>>
ScenarioChoices == {<<>>, SendAgain, ThenExit, C!build_reconnect_scenario(1, 1, 2)}

(* zakuro-moq with --vcs 2.                                                 *)
TwoClients ==
  {[program |-> "zakuro-moq", file |-> NoFile, cli |-> <<Eq("vcs", "2")>>,
    media |-> <<Plain, Plain>>, openh264 |-> FALSE]}
Symmetry == Permutations(Clients)

Conversations ==
  {t \in [input : Said, scenario : ScenarioChoices] :
     t.input.media[1].channels = Spoken => t.scenario = <<>>}

===============================================================================
