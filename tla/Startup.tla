-------------------------------- MODULE Startup --------------------------------
(***************************************************************************)
(* From the command line to running instances: the log level is read ahead *)
(* of the parse, the parse gives the settings of every instance, their     *)
(* media settings are validated alone and against the common ones, and, in *)
(* zakuro, the video encoders asked for are verified before the instances  *)
(* set up their media. zakuro-moq goes from the parse to its instances.    *)
(*                                                                         *)
(* What the operator asks of an instance's media is a record: the inputs   *)
(* named, the devices switched off, the role, the codec, whether a bit     *)
(* rate is given, the codec whose parameters are given, one encoder        *)
(* implementation, the data channels, and what the MP4 file holds.         *)
(***************************************************************************)
EXTENDS Arguments, DataChannels

CONSTANTS
  LayerInputs,       (* bound: command lines and files, with plain media    *)
  MediaInputs,       (* bound: media settings, with plain command lines     *)
  Codecs,            (* video codecs                                        *)
  InternalEncoders,  (* codecs the built-in factory can encode              *)
  Descriptions,      (* bound: data channels that may be described          *)
  None

(* What the process is started with is text, and a JSON object has a key    *)
(* once.                                                                    *)
LayersGiven(asked) ==
  /\ asked.program \in Programs /\ asked.cli \in Seq(Tokens)
  /\ asked.file.top \in Objects /\ asked.file.instances \in Seq(Objects)

(* Each instance of a file, or the only one, has media settings.            *)
MediaGiven(asked) == \A n \in {1} \cup DOMAIN asked.file.instances : n \in DOMAIN asked.media

ASSUME StartupAssumption ==
  /\ "h264" \in Codecs /\ InternalEncoders \subseteq Codecs /\ None \notin Codecs
  /\ None \notin {"codec", "tracks", "encoder", "channels", "input"}   \* Failure
  /\ (\A i \in LayerInputs : MediaGiven(i)) /\ (\A i \in MediaInputs : MediaGiven(i))

ASSUME LayersAssumption ==
  (\A i \in LayerInputs : LayersGiven(i)) /\ (\A i \in MediaInputs : LayersGiven(i))

VARIABLES
  input,             (* what the process was started with                   *)
  phase,             (* "peek", "parse", "load", "verify", "run", "stopped" *)
  logLevel,          (* the level the log was initialised with              *)
  args,              (* what parse_args returned                            *)
  instances          (* of each instance: None, "failed" or its media       *)

startupVars == <<input, phase, logLevel, args, instances>>

VideoInputs == {"sandstorm", "y4m", "device", "mp4"}
SendingRole(role) == role \in {"sendonly", "sendrecv"}

Encoders == [codec : Codecs, impl : {"internal", "cisco_openh264", "intel_vpl"}]
MediaSettings ==
  [inputs : SUBSET (VideoInputs \cup {"wav"}), no : SUBSET {"video", "audio"},
   role : {"sendonly", "sendrecv", "recvonly"}, codec : Codecs \cup {None}, bitrate : BOOLEAN,
   params : Codecs \cup {None}, encoder : Encoders \cup {None}, channels : Descriptions,
   file : [codec : Codecs \cup {None}, audio : {"none", "opus", "unsupported", "changing", "two"}]]

(* The media settings of instance n, its audio option being one of those    *)
(* the layers decide.                                                       *)
Media(n) == input.media[n]
Audio(n) == args.instances[n]["audio"] # "false"

-----------------------------------------------------------------------------
(* parse_instance_args, validation: what cannot be combined.                *)

Alone(media) ==
  /\ Cardinality(media.inputs \cap VideoInputs) <= 1
  /\ "video" \in media.no => media.inputs \cap VideoInputs = {}

ValidParams(media) == media.params \in {None, media.codec}

ValidEncoder(media) ==
  media.encoder # None =>
    /\ media.encoder.impl \in {"internal", "cisco_openh264"}
    /\ media.encoder.impl = "cisco_openh264" => media.encoder.codec = "h264"

ValidMp4(media) ==
  "mp4" \in media.inputs =>
    media.codec # None /\ media.bitrate /\ media.encoder = None /\ "wav" \notin media.inputs

ValidWav(media, audio) ==
  "wav" \in media.inputs => "audio" \notin media.no /\ audio

parse_instance_args(media, audio) ==
  Alone(media) /\ ValidParams(media) /\ ValidEncoder(media) /\ ValidMp4(media)
    /\ ValidWav(media, audio)

(* parse_args_from_argv: what the options of an instance need of the common *)
(* ones. --openh264 would replace the MP4 file as the encoder.              *)
AgreesWithoutMp4(media, openh264) ==                                \* MUTANT
  media.encoder # None /\ media.encoder.impl = "cisco_openh264" => openh264
AgreesWithCommon(media, openh264) ==
  /\ media.encoder # None /\ media.encoder.impl = "cisco_openh264" => openh264
  /\ "mp4" \in media.inputs => ~openh264

-----------------------------------------------------------------------------
(* The encoders of an instance: capabilities are registered in this order,  *)
(* and each replaces the preference of the codecs it encodes. Receiving     *)
(* roles add a decoder that discards, which encodes nothing.                *)

Capabilities(media, openh264) ==
  {[impl |-> "internal", codecs |-> InternalEncoders]}
    \cup (IF "mp4" \in media.inputs THEN {[impl |-> "mp4", codecs |-> {media.file.codec}]} ELSE {})
    \cup (IF openh264 THEN {[impl |-> "cisco_openh264", codecs |-> {"h264"}]} ELSE {})

(* apply_video_encoder_implementation_specs: the implementation must be     *)
(* registered and must encode the codec.                                    *)
Available(encoder, capabilities) ==
  encoder # None =>
    \E c \in capabilities : c.impl = encoder.impl /\ encoder.codec \in c.codecs

PreferenceOf(media, openh264, codec) ==
  IF media.encoder # None /\ media.encoder.codec = codec THEN media.encoder.impl
  ELSE IF openh264 /\ codec = "h264" THEN "cisco_openh264"
  ELSE IF "mp4" \in media.inputs /\ media.file.codec = codec THEN "mp4"
  ELSE IF codec \in InternalEncoders THEN "internal" ELSE None

(* verify_video_encoder_implementation_specs: every instance, before any    *)
(* starts, because a failure inside an instance ends only that instance.    *)
Verified(n) == Available(Media(n).encoder, Capabilities(Media(n), input.openh264))

-----------------------------------------------------------------------------
(* run_zakuro_instance, until the clients are spawned.                      *)

WantsSendAudio(n) == "audio" \notin Media(n).no /\ Audio(n) /\ SendingRole(Media(n).role)

UseFakeAudio(n) == WantsSendAudio(n) /\ Media(n).inputs \cap {"mp4", "device"} = {}

(* inspect_mp4_audio: one track of a codec that can be decoded throughout   *)
(* is played, a file without one is sent without sound, and two tracks, or  *)
(* one that changes half way, are an error.                                 *)
inspect_mp4_audio(tracks) ==
  IF tracks \in {"two", "changing"} THEN "error"
  ELSE IF tracks = "opus" THEN "supported" ELSE None

AudioSource(n) ==
  IF UseFakeAudio(n) THEN (IF "wav" \in Media(n).inputs THEN "wav" ELSE "generated")
  ELSE IF /\ WantsSendAudio(n) /\ "mp4" \in Media(n).inputs
          /\ inspect_mp4_audio(Media(n).file.audio) = "supported"
       THEN "mp4" ELSE None

VideoSource(n) ==
  LET inputs == Media(n).inputs
  IN  IF "video" \in Media(n).no \/ ~SendingRole(Media(n).role) THEN None
      ELSE IF "mp4" \in inputs THEN "mp4"
      ELSE IF "device" \in inputs THEN "device"
      ELSE IF "y4m" \in inputs THEN "y4m"
      ELSE IF "sandstorm" \in inputs THEN "sandstorm" ELSE "generated"

(* build_video: the codec offered; an MP4 file supplies the parameters that *)
(* were not given (apply_mp4_passthrough_video_params).                     *)
build_video(media) ==
  IF "video" \in media.no THEN [codec |-> None, params |-> None]
  ELSE [codec |-> IF media.codec # None THEN media.codec
                  ELSE IF media.bitrate THEN "vp8" ELSE "default",
        params |-> IF media.params # None THEN "given"
                   ELSE IF "mp4" \in media.inputs /\ media.codec \in {"h264", "av1"} THEN "file"
                   ELSE None]

(* The reasons the code itself finds to fail an instance, in its order.     *)
Failure(n) ==
  IF "mp4" \in Media(n).inputs /\ Media(n).file.codec # Media(n).codec THEN "codec"
  ELSE IF "mp4" \in Media(n).inputs /\ WantsSendAudio(n)
             /\ inspect_mp4_audio(Media(n).file.audio) = "error" THEN "tracks"
  ELSE IF ~Available(Media(n).encoder, Capabilities(Media(n), input.openh264)) THEN "encoder"
  ELSE IF ChannelsRejected(Media(n).channels) THEN "channels"
  ELSE None

-----------------------------------------------------------------------------
StartupInit ==
  /\ input \in LayerInputs \/ input \in MediaInputs
  /\ \A n \in DOMAIN input.media : input.media[n] \in MediaSettings
  /\ logLevel = None /\ args = Rejected /\ instances = <<>>
  /\ phase = IF input.program = "zakuro" THEN "peek" ELSE "parse"

Stop == phase' = "stopped" /\ UNCHANGED <<input, logLevel, args, instances>>

PeekLogConfig ==
  /\ phase = "peek"
  /\ phase' = "parse"
  /\ logLevel' = peek_log_config(input.file, input.cli)
  /\ UNCHANGED <<input, args, instances>>

ParseArgs ==
  /\ phase = "parse"
  /\ LET parsed == parse_args(input.program, input.file, input.cli)
         accepted == parsed.ok /\ \A n \in DOMAIN parsed.instances :
           /\ parse_instance_args(input.media[n], parsed.instances[n]["audio"] # "false")
           /\ AgreesWithCommon(input.media[n], input.openh264)
     IN  /\ args' = IF accepted THEN parsed ELSE Rejected
         /\ phase' = IF ~accepted THEN "stopped"
                     ELSE IF input.program = "zakuro" THEN "load" ELSE "run"
         /\ instances' = [n \in DOMAIN args'.instances |-> None]
  /\ UNCHANGED <<input, logLevel>>

(* OpenH264, read once for the process.                                     *)
LoadLibrary ==
  /\ phase = "load"
  /\ phase' = "verify"
  /\ UNCHANGED <<input, logLevel, args, instances>>

LoadFails == phase = "load" /\ input.openh264 /\ Stop

Verify ==
  /\ phase = "verify"
  /\ \A n \in DOMAIN instances : Verified(n)
  /\ phase' = "run"
  /\ UNCHANGED <<input, logLevel, args, instances>>

VerifyFails ==
  /\ phase = "verify"
  /\ \E n \in DOMAIN instances : ~Verified(n)
  /\ Stop

(* The certificates, the DuckDB file or the HTTP port fail the process.     *)
CommonFails == phase = "run" /\ (\A n \in DOMAIN instances : instances[n] = None) /\ Stop

SetUp(n) ==
  /\ phase = "run" /\ input.program = "zakuro" /\ instances[n] = None
  /\ instances' = [instances EXCEPT ![n] =
       IF Failure(n) # None THEN [failed |-> Failure(n)]
       ELSE [failed |-> None, audio |-> AudioSource(n), video |-> VideoSource(n),
             encoders |-> [c \in Codecs |-> PreferenceOf(Media(n), input.openh264, c)],
             offer |-> build_video(Media(n))]]
  /\ UNCHANGED <<input, phase, logLevel, args>>

(* A file that cannot be read, a device that cannot be started.             *)
InputFails(n) ==
  /\ phase = "run" /\ input.program = "zakuro" /\ instances[n] = None
  /\ Media(n).inputs # {}
  /\ instances' = [instances EXCEPT ![n] = [failed |-> "input"]]
  /\ UNCHANGED <<input, phase, logLevel, args>>

StartupNext ==
  \/ PeekLogConfig \/ ParseArgs \/ LoadLibrary \/ LoadFails \/ Verify \/ VerifyFails
  \/ CommonFails
  \/ \E n \in DOMAIN instances : SetUp(n) \/ InputFails(n)

StartupSpec == StartupInit /\ [][StartupNext]_startupVars

-----------------------------------------------------------------------------
(* The operator's view of the layers: the value asked for an option is the  *)
(* one written last in the latest layer that mentions it. A JSON boolean    *)
(* means what it says; for a flag, false means no more than not given.      *)

Value(k, v) ==
  IF ~IsBoolean(v) THEN v
  ELSE IF is_flag(k) THEN (IF v = "yes" THEN "on" ELSE Nothing)
  ELSE IF v = "yes" THEN "true" ELSE "false"

Written(members, k) ==
  LET values == {Value(k, members[i].value) : i \in {j \in DOMAIN members : members[j].key = k}}
  IN  IF values = {} THEN Nothing ELSE CHOOSE v \in values : TRUE

OnCommandLine(k) ==
  LET is == Occurrences(input.cli, k)
      token == input.cli[Max(is)]
  IN  IF is = {} THEN Nothing
      ELSE IF is_flag(k) THEN "on"
      ELSE IF token.form = "eq" THEN token.value ELSE input.cli[Max(is) + 1].value

Asked(k, n) ==
  LET layers == <<OnCommandLine(k),
                  IF n \in DOMAIN input.file.instances
                  THEN Written(input.file.instances[n], k) ELSE Nothing,
                  Written(input.file.top, k)>>
      given == {i \in DOMAIN layers : layers[i] # Nothing}
  IN  IF given = {} THEN Nothing ELSE layers[Min(given)]

(* zakuro turns a JSON boolean into a bare option or into nothing.          *)
ValuedBoolean(members) ==
  \E i \in DOMAIN members : IsBoolean(members[i].value) /\ ~is_flag(members[i].key)
HasValuedBoolean ==
  \/ ValuedBoolean(input.file.top)
  \/ \E n \in DOMAIN input.file.instances : ValuedBoolean(input.file.instances[n])

(* zakuro-moq takes common options out from between an option and its       *)
(* value, so that "--audio --log-level=info false" reads as audio = false.  *)
Paired ==
  \A i \in DOMAIN input.cli :
    input.cli[i].form = "key" /\ ~is_flag(input.cli[i].key) =>
      i < Len(input.cli) /\ ~Dashed(input.cli[i + 1])

SettingsAreAsked ==
  Paired /\ phase \notin {"peek", "parse"} /\ args.ok =>
    /\ \A k \in CommonOptions : args.common[k] = Asked(k, 0)
    /\ \A n \in DOMAIN args.instances : \A k \in InstanceOptions :
         args.instances[n][k] = Asked(k, n)

(* LaterLayersWin: when the arguments are accepted, every setting is the    *)
(* one asked for by the latest layer: the command line over instances[n]    *)
(* over the template, whatever repeated keys, forms and unrelated tokens    *)
(* stand between them (dedupe_argv_last_wins pairs options with values by   *)
(* position, so one wrong pairing would drop or exchange others). A command *)
(* line that leaves an option without its value asks for nothing in         *)
(* particular. In zakuro a boolean for an option with a value is excepted:  *)
(* false is dropped with a warning, and true becomes a bare option that     *)
(* takes the next one for its value.                                        *)
LaterLayersWin ==
  (input.program = "zakuro" => ~HasValuedBoolean) => SettingsAreAsked

(* PeekAgrees: the level the log was initialised with, found by scanning    *)
(* the arguments before the parse, is the level the parse then accepts.     *)
PeekAgrees ==
  input.program = "zakuro" /\ phase \notin {"peek", "parse"} /\ args.ok =>
    logLevel = IF args.common["log-level"] = Nothing THEN "info" ELSE args.common["log-level"]

(* LayersAgree: what is read of the layers, early or late, in either        *)
(* program, is what the latest layer asks for.                              *)
LayersAgree == LaterLayersWin /\ PeekAgrees

(* InputsArePlayed: in an instance that is set up to send, the video input  *)
(* that was named is the source, a WAV file is heard unless a device is the *)
(* video input, an MP4 file is sent by its own encoder under its own codec, *)
(* the encoder asked for encodes its codec, and what was switched off       *)
(* stays silent: the exclusions of args.rs leave no input that the order    *)
(* of the tests in main.rs would pass over. No instance fails for its       *)
(* encoder once instances have started: what is verified first is a set of  *)
(* capabilities of its own, which must be the one the instance builds.      *)
InputsArePlayed ==
  \A n \in DOMAIN instances :
    LET m == Media(n)
        i == instances[n]
    IN  /\ i # None => i.failed # "encoder"
        /\ i # None /\ i.failed = None =>
          /\ SendingRole(m.role) => \A v \in m.inputs \cap VideoInputs : i.video = v
          /\ SendingRole(m.role) /\ "wav" \in m.inputs /\ "device" \notin m.inputs => i.audio = "wav"
          /\ "mp4" \in m.inputs => /\ i.encoders[m.file.codec] = "mp4"
                                   /\ i.offer.codec = m.file.codec
          /\ m.encoder # None => i.encoders[m.encoder.codec] = m.encoder.impl
          /\ "video" \in m.no => i.video = None /\ i.offer.codec = None
          /\ ~Audio(n) \/ "audio" \in m.no => i.audio = None

===============================================================================
