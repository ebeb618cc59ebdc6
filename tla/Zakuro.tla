--------------------------------- MODULE Zakuro ---------------------------------
(***************************************************************************)
(* A process of zakuro from its command line to what its first instance    *)
(* plays and says: the set-up, the instance with the media that the set-up *)
(* chose, and the messages of one of its clients over the channels that    *)
(* the set-up parsed.                                                      *)
(***************************************************************************)
EXTENDS Startup

CONSTANTS
  Launched,          (* bound: inputs whose first instance is followed      *)
  Talks,             (* bound: inputs and scenarios whose client is followed *)
  Frames, FpsNum, FpsDen, Packets, PreSkip, WavFrames, WavRate, SampleRate, SamplesPer10ms,
  Vcs, Sizes, Rates, Silence, MaxTime, MaxSent, MaxCalls,         (* Instance  *)
  Labels, Randoms, MaxConnections, MaxMessages, MaxTalk           (* Messaging *)

VARIABLES
  audio, video, openh264, stage, threads, clock, y4m, shown, sound, heard, adm, held,
  encoder, asked, calls, clients,
  channels, scenario, interrupted, now, connection, player, tasks, sent

playing == <<audio, video, openh264, stage, threads, clock, y4m, shown, sound, heard, adm, held,
             encoder, asked, calls, clients>>
talking == <<channels, scenario, interrupted, now, connection, player, tasks, sent>>

I == INSTANCE Instance WITH NoMedia <- None
C == INSTANCE Messaging WITH MaxTime <- MaxTalk, MaxSent <- MaxMessages, cancelled <- interrupted

ASSUME ZakuroAssumption ==
  /\ I!InstanceAssumption /\ C!MessagingAssumption
  /\ \A d \in Descriptions : d \in Seq(C!Described)
  /\ \A t \in Talks : t.scenario \in Seq(C!Operations)

-----------------------------------------------------------------------------
IsSetUp(n) == n \in DOMAIN instances /\ instances[n] # None /\ instances[n].failed = None

(* The capturers are made for the sources that the set-up chose.            *)
Launch ==
  /\ phase = "run" /\ input \in Launched /\ IsSetUp(1)
  /\ I!Start(instances[1].audio, instances[1].video,
             instances[1].encoders["h264"] = "cisco_openh264")
  /\ UNCHANGED <<startupVars, talking>>

(* The clients are given the message channels and the scenario.             *)
Talk ==
  /\ phase = "run" /\ IsSetUp(1)
  /\ \E t \in Talks : t.input = input /\ C!Start(Media(1).channels, t.scenario)
  /\ UNCHANGED <<startupVars, playing>>

ZakuroInit == StartupInit /\ I!Init /\ C!Init
ZakuroNext ==
  \/ StartupNext /\ UNCHANGED <<playing, talking>>
  \/ Launch
  \/ stage # "idle" /\ I!Next /\ UNCHANGED <<startupVars, talking>>
  \/ Talk
  \/ connection.at # "idle" /\ C!Next /\ UNCHANGED <<startupVars, playing>>

zakuroVars == <<startupVars, playing, talking>>
ZakuroSpec == ZakuroInit /\ [][ZakuroNext]_zakuroVars

-----------------------------------------------------------------------------
(* MediaKeepTime: both kinds of media are sent in the order of their files, *)
(* at the place that the clock, or the samples taken, call for, whatever    *)
(* the set-up chose (y4m_reader.rs:86, mp4_audio.rs:168, wav_reader.rs:54). *)
MediaKeepTime == I!MediaKeepTime

(* LibraryServed: what is handed to the library is alive, and its encoder   *)
(* has what was last asked for (fake_audio_capturer.rs:306,                 *)
(* openh264_video_codec.rs:59).                                             *)
LibraryServed == I!LibraryServed

(* MessagesInSequence: messages are numbered in turn under each label and   *)
(* spaced by the interval of their channel, over all connections of the     *)
(* client (data_channel.rs:305, scenario.rs:270).                           *)
MessagesInSequence == C!MessagesInSequence

===============================================================================
