-------------------------------- MODULE Instance --------------------------------
(***************************************************************************)
(* An instance of zakuro once its media is set up: the threads that play   *)
(* its audio and video, the OpenH264 encoder that the library calls, the   *)
(* virtual clients that are started one by one, and the order in which all *)
(* of it goes (run_zakuro_instance, fake_audio_capturer.rs,                *)
(* fake_video_capturer.rs, y4m_reader.rs, mp4_audio.rs, wav_reader.rs,     *)
(* openh264_video_codec.rs).                                               *)
(*                                                                         *)
(* A file is what the readers see of it. Of a Y4M file: its whole frames,  *)
(* its rate, and whether a cut frame follows. Of an audio track: the       *)
(* number of samples each packet decodes to, 0 for one that cannot be      *)
(* decoded, and PreSkip. A sample is named by its place in the file.       *)
(***************************************************************************)
EXTENDS Integers, Sequences, FiniteSets, SequencesExt, FiniteSetsExt

CONSTANTS
  Frames, FpsNum, FpsDen,  (* of the Y4M file: whole frames, and its rate   *)
  Packets, PreSkip,  (* of the MP4 audio track                              *)
  WavFrames, WavRate, SampleRate,  (* of the WAV file, and the rate of sending *)
  SamplesPer10ms,    (* samples sent at a time                              *)
  Vcs,               (* clients of the instance                             *)
  Sizes, Rates,      (* frame sizes and bit rates of the encoder            *)
  Silence, NoMedia,
  MaxTime, MaxSent, MaxCalls  (* bounds: clock, samples sent, encoder calls *)

InstanceAssumption ==
  /\ Frames \in Nat \ {0} /\ FpsNum \in Nat \ {0} /\ FpsDen \in Nat \ {0}
  /\ Packets \in Seq(Nat) /\ Packets # <<>> /\ PreSkip \in Nat
  /\ WavFrames \in Nat /\ WavRate \in Nat \ {0} /\ SampleRate \in Nat \ {0}
  /\ SamplesPer10ms \in Nat \ {0} /\ Vcs \in Nat \ {0}
  /\ Sizes \subseteq Nat \ {0} /\ Rates \subseteq Nat \ {0}
  /\ Silence \notin Nat \cup (Nat \X Nat)

VARIABLES
  audio, video, openh264,  (* what the set-up chose                         *)
  stage,             (* "idle", "hatching", "joining", then what is dropped *)
  threads,           (* capture threads that run                            *)
  clock,             (* milliseconds since the video capturer was made      *)
  y4m,               (* the reader: place in the file, frame, previous one, *)
                     (* and whether a cut frame follows the whole ones      *)
  shown,             (* history: the time and the frame last sent           *)
  sound,             (* the audio source: cursor, samples to skip, queue    *)
  heard,             (* history: every sample the audio thread took         *)
  adm,               (* recording, and whether a transport is registered    *)
  held,              (* the transport the audio thread copied               *)
  encoder,           (* the OpenH264 encoder and what it was told           *)
  asked,             (* history: the size and rate asked of it              *)
  calls,             (* encoder calls so far                                *)
  clients            (* of each client: "waiting", "running", "done", "aborted" *)

sources == <<audio, video, openh264>>
playing == <<clock, y4m, shown, sound, heard>>
device == <<adm, held>>
coding == <<encoder, asked, calls>>
vars == <<sources, stage, threads, playing, device, coding, clients>>

-----------------------------------------------------------------------------
(* Y4mReader. A place is the number of frames before it in the file; past   *)
(* the end, where nothing can be read, it is Frames + 1.                    *)

Past == Frames + 1

(* read_frame_header, then the frame: read or skipped, and back to the      *)
(* start at the end of the file. A cut frame ends past the end, and stays.  *)
Advanced(reader) ==
  IF reader.at >= Frames THEN [reader EXCEPT !.at = Past]
  ELSE [at |-> IF reader.at + 1 = Frames /\ ~reader.cut THEN 0 ELSE reader.at + 1,
        frame |-> reader.frame + 1, previous |-> reader.previous, cut |-> reader.cut]

skip_frame(reader) == Advanced(reader)

(* The frame of a time, at the rate FpsNum / FpsDen.                        *)
FrameOf(time) == (time * FpsNum) \div FpsDen

Skipped(reader, count) ==
  LET after[n \in 0 .. count] == IF n = 0 THEN reader ELSE skip_frame(after[n - 1])
  IN  after[count]

SkippedFromPrevious(reader, frame) == Skipped(reader, frame - reader.previous) \* MUTANT
SkippedTo(reader, frame) == Skipped(reader, frame - reader.frame)

(* get_frame: nothing new within one frame, otherwise the frames before it  *)
(* are skipped. An error leaves the reader where it stopped.                *)
get_frame(reader, time) ==
  LET frame == FrameOf(time)
      there == SkippedTo(reader, frame)
  IN  IF frame = reader.previous THEN [result |-> "same", reader |-> reader]
      ELSE IF there.at >= Frames THEN [result |-> "error", reader |-> Advanced(there)]
      ELSE [result |-> "frame",
            reader |-> [Advanced(there) EXCEPT !.previous = frame]]

(* tick_y4m: an error is passed over, to be met again at the next tick.     *)
tick_y4m ==
  LET got == get_frame(y4m, clock)
  IN  /\ y4m' = got.reader
      /\ shown' = IF got.result = "frame"
                  THEN [time |-> clock, at |-> SkippedTo(y4m, FrameOf(clock)).at]
                  ELSE shown

(* The other pictures are drawn anew at each tick.                          *)
tick_drawn ==
  /\ shown' = [time |-> clock, at |-> 0]
  /\ UNCHANGED y4m

-----------------------------------------------------------------------------
(* The audio sources.                                                       *)

(* resample, after the mono mix: the input sample each output sample is     *)
(* taken from.                                                              *)
resample(length, in_rate, out_rate) ==
  [i \in 1 .. (length * out_rate) \div in_rate |->
     LET from == ((i - 1) * in_rate) \div out_rate
     IN  IF from >= length - 1 THEN length ELSE from + 1]

WavSamples == resample(WavFrames, WavRate, SampleRate)

(* WavReader and GeneratedAudio: samples in memory, read round and round.   *)
read_looped(source, n) ==
  LET length == Len(WavSamples)
  IN  [given |-> [i \in 1 .. n |-> WavSamples[((source.cursor + i - 2) % length) + 1]],
       source |-> [source EXCEPT !.cursor = ((@ + n - 1) % length) + 1]]

(* Mp4AudioSource. At the end of the track the decoder is reset, and skips  *)
(* again what an Opus stream starts with.                                   *)
reset_decoder_for_loop(source) == [cursor |-> 1, skip |-> PreSkip, fifo |-> source.fifo]

decode_next_packet(source) ==
  LET s == IF source.cursor > Len(Packets) THEN reset_decoder_for_loop(source) ELSE source
      length == Packets[s.cursor]
      dropped == IF s.skip < length THEN s.skip ELSE length
  IN  [cursor |-> s.cursor + 1, skip |-> s.skip - dropped,
       fifo |-> s.fifo \o [i \in 1 .. length - dropped |-> <<s.cursor, dropped + i>>]]

(* read_samples: as many packets as are needed, but hardly more than there  *)
(* are; what is still missing is silence.                                   *)
read_samples(source, n) ==
  LET filled[k \in 0 .. Len(Packets) + 1] ==
        IF k = 0 THEN source
        ELSE LET s == filled[k - 1] IN IF Len(s.fifo) < n THEN decode_next_packet(s) ELSE s
      s == filled[Len(Packets) + 1]
  IN  [given |-> [i \in 1 .. n |-> IF i <= Len(s.fifo) THEN s.fifo[i] ELSE Silence],
       source |-> [s EXCEPT !.fifo = IF n < Len(@) THEN SubSeq(@, n + 1, Len(@)) ELSE <<>>]]

-----------------------------------------------------------------------------
Init ==
  /\ audio = NoMedia /\ video = NoMedia /\ openh264 = FALSE
  /\ stage = "idle" /\ threads = {} /\ clock = 0
  /\ y4m = [at |-> 0, frame |-> 0, previous |-> -1, cut |-> FALSE]
  /\ shown = NoMedia
  /\ sound = [cursor |-> 1, skip |-> PreSkip, fifo |-> <<>>]
  /\ heard = <<>>
  /\ adm = [recording |-> FALSE, registered |-> FALSE]
  /\ held = FALSE
  /\ encoder = NoMedia /\ asked = NoMedia /\ calls = 0
  /\ clients = [c \in 1 .. Vcs |-> "waiting"]

(* The capturers start their threads. A WAV file without a sample, or a     *)
(* Y4M file that cannot be opened, has failed the set-up before; what is    *)
(* generated is never empty.                                                *)
Start(a, v, codec) ==
  /\ stage = "idle"
  /\ a \in {"wav", "generated"} => WavSamples # <<>>
  /\ audio' = a /\ video' = v /\ openh264' = codec
  /\ stage' = "hatching"
  /\ threads' = (IF a # NoMedia THEN {"audio"} ELSE {})
                  \cup (IF v \in {"y4m", "sandstorm", "generated"} THEN {"video"} ELSE {})
  /\ \E cut \in BOOLEAN : (cut => v = "y4m") /\ y4m' = [y4m EXCEPT !.cut = cut]
  /\ UNCHANGED <<clock, shown, sound, heard, device, coding, clients>>

(* The flag a thread looks at before each turn, and the join behind it.     *)
Stops(thread) ==
  CASE thread = "video" -> stage \in {"video", "audio", "context", "gone"}
    [] thread = "audio" -> stage \in {"audio", "context", "gone"}

Passes ==
  /\ clock < MaxTime
  /\ clock' = clock + 1
  /\ UNCHANGED <<sources, stage, threads, y4m, shown, sound, heard, device, coding, clients>>

VideoTurn ==
  /\ "video" \in threads /\ ~Stops("video")
  /\ IF video = "y4m" THEN tick_y4m ELSE tick_drawn
  /\ UNCHANGED <<sources, stage, threads, clock, sound, heard, device, coding, clients>>

(* A device captures on a thread of its library.                            *)
DeviceFrame ==
  /\ video = "device" /\ stage \in {"hatching", "joining"}
  /\ shown' = [time |-> clock, at |-> 0]
  /\ UNCHANGED <<sources, stage, threads, clock, y4m, sound, heard, device, coding, clients>>

(* audio_thread: samples are taken whether or not they are recorded. The    *)
(* pointer to the transport is copied and used outside the lock.            *)
AudioTurn ==
  /\ "audio" \in threads /\ ~held /\ ~Stops("audio")
  /\ Len(heard) + SamplesPer10ms <= MaxSent
  /\ LET read == IF audio = "mp4" THEN read_samples(sound, SamplesPer10ms)
                 ELSE read_looped(sound, SamplesPer10ms)
     IN  sound' = read.source /\ heard' = heard \o read.given
  /\ held' = (adm.recording /\ adm.registered)
  /\ UNCHANGED <<sources, stage, threads, clock, y4m, shown, adm, coding, clients>>

Deliver ==
  /\ held
  /\ held' = FALSE
  /\ UNCHANGED <<sources, stage, threads, playing, adm, coding, clients>>

ThreadEnds(thread) ==
  /\ thread \in threads /\ Stops(thread)
  /\ thread = "audio" => ~held
  /\ threads' = threads \ {thread}
  /\ UNCHANGED <<sources, stage, playing, device, coding, clients>>

-----------------------------------------------------------------------------
(* FakeAudioHandler, called by the library while the context lives.         *)

HasContext == stage \in {"hatching", "joining", "video", "audio", "context"}

AdmCall ==
  /\ HasContext /\ audio # NoMedia
  /\ \/ adm' \in {[adm EXCEPT !.registered = b] : b \in BOOLEAN}
     \/ adm' \in {[adm EXCEPT !.recording = b] : b \in BOOLEAN}
  /\ adm' # adm
  /\ UNCHANGED <<sources, stage, threads, playing, held, coding, clients>>

-----------------------------------------------------------------------------
(* Openh264Encoder, called by the library. "told" is the size and the rate  *)
(* it keeps, "made" those of the encoder it made, or NoMedia.               *)

Coding == openh264 /\ HasContext /\ calls < MaxCalls

EncoderCall == Coding /\ calls' = calls + 1 /\ UNCHANGED <<sources, stage, threads, playing,
                                                          device, clients>>

init_or_reconfigure_default(told) ==                                \* MUTANT
  [told |-> told, made |-> [size |-> told.size, rate |-> Min(Rates)], failed |-> FALSE]
init_or_reconfigure(told) == [told |-> told, made |-> told, failed |-> FALSE]

(* A failed creation leaves the encoder there was.                          *)
MakingFails(told) == [told |-> told, made |-> IF encoder = NoMedia THEN NoMedia ELSE encoder.made,
                      failed |-> TRUE]

init_encode ==
  /\ EncoderCall
  /\ \E size \in Sizes, rate \in Rates :
       /\ encoder' \in {init_or_reconfigure([size |-> size, rate |-> rate]),
                        MakingFails([size |-> size, rate |-> rate])}
       /\ asked' = [size |-> size, rate |-> rate]

Encoding == encoder # NoMedia /\ encoder.made # NoMedia

(* encode: a frame of another size makes a new encoder.                     *)
encode ==
  /\ EncoderCall /\ Encoding
  /\ \E size \in Sizes :
       /\ IF size = encoder.told.size THEN UNCHANGED encoder
          ELSE encoder' \in {init_or_reconfigure([encoder.told EXCEPT !.size = size]),
                             MakingFails([encoder.told EXCEPT !.size = size])}
       /\ asked' = [asked EXCEPT !.size = size]

(* set_rates: a new bit rate is passed on, and kept also when that fails.   *)
set_rates ==
  /\ EncoderCall /\ Encoding
  /\ \E rate \in Rates :
       /\ IF rate = encoder.told.rate THEN UNCHANGED encoder
          ELSE LET told == [encoder.told EXCEPT !.rate = rate]
               IN  encoder' \in {[told |-> told, made |-> [encoder.made EXCEPT !.rate = rate],
                                  failed |-> encoder.failed],
                                 [told |-> told, made |-> encoder.made, failed |-> TRUE]}
       /\ asked' = [asked EXCEPT !.rate = rate]

release ==
  /\ EncoderCall /\ Encoding
  /\ encoder' = [encoder EXCEPT !.made = NoMedia]
  /\ UNCHANGED asked

-----------------------------------------------------------------------------
(* The clients: started in turn, each with a reader of the MP4 file of its  *)
(* own, then awaited.                                                       *)

Hatch(c) ==
  /\ stage = "hatching" /\ clients[c] = "waiting"
  /\ \A d \in 1 .. c - 1 : clients[d] # "waiting"
  /\ clients' = [clients EXCEPT ![c] = "running"]
  /\ UNCHANGED <<sources, stage, threads, playing, device, coding>>

Returning == [c \in 1 .. Vcs |-> IF clients[c] = "running" THEN "aborted" ELSE clients[c]]

(* The set of clients is dropped with the error, which aborts them.         *)
HatchFails(c) ==
  /\ stage = "hatching" /\ clients[c] = "waiting" /\ video = "mp4"
  /\ \A d \in 1 .. c - 1 : clients[d] # "waiting"
  /\ stage' = "video"
  /\ clients' = Returning
  /\ UNCHANGED <<sources, threads, playing, device, coding>>

Hatched ==
  /\ stage = "hatching"                    (* all of them, or cancelled     *)
  /\ stage' = "joining"
  /\ UNCHANGED <<sources, threads, playing, device, coding, clients>>

ClientEnds(c) ==
  /\ clients[c] = "running"
  /\ clients' = [clients EXCEPT ![c] = "done"]
  /\ UNCHANGED <<sources, stage, threads, playing, device, coding>>

Joined ==
  /\ stage = "joining" /\ \A c \in 1 .. Vcs : clients[c] # "running"
  /\ stage' = "video"
  /\ UNCHANGED <<sources, threads, playing, device, coding, clients>>

(* Locals are dropped in the reverse of the order of their declaration:     *)
(* each capturer joins its thread, and the context goes last.               *)
DropsContextFirst ==                                                \* MUTANT
  stage' = CASE stage = "video" -> "audio" [] stage = "audio" -> "gone" [] OTHER -> stage
DropsInOrder ==
  \/ stage = "video" /\ "video" \notin threads /\ stage' = "audio"
  \/ stage = "audio" /\ "audio" \notin threads /\ stage' = "context"
  \/ stage = "context" /\ stage' = "gone"
Drop ==
  /\ stage \in {"video", "audio", "context"}
  /\ DropsInOrder
  /\ UNCHANGED <<sources, threads, playing, device, coding, clients>>

Next ==
  \/ Passes \/ VideoTurn \/ DeviceFrame \/ AudioTurn \/ Deliver \/ AdmCall
  \/ \E thread \in {"audio", "video"} : ThreadEnds(thread)
  \/ init_encode \/ encode \/ set_rates \/ release
  \/ \E c \in 1 .. Vcs : Hatch(c) \/ HatchFails(c) \/ ClientEnds(c)
  \/ Hatched \/ Joined \/ Drop

(* The set-up, by what it chose, and then the rest.                         *)
SetUp ==
  \E a \in {NoMedia, "wav", "generated", "mp4"},
     v \in {NoMedia, "y4m", "sandstorm", "generated", "device", "mp4"}, codec \in BOOLEAN :
       Start(a, v, codec)

Spec == Init /\ [][SetUp \/ (stage # "idle" /\ Next)]_vars

-----------------------------------------------------------------------------
(* FramesFollowTime: the frame of the Y4M file that was sent is the one its *)
(* time calls for, however long the thread slept, over any number of turns  *)
(* through the file: the reader counts frames and places in the file        *)
(* separately, wraps in two functions, and stops at a cut frame.            *)
FramesFollowTime ==
  video = "y4m" /\ shown # NoMedia => shown.at = FrameOf(shown.time) % Frames

(* SoundFollowsTrack: without its silence, what the audio thread took is    *)
(* the track over and over, each time without what an Opus stream starts    *)
(* with, wherever reads and packets end; and there is silence only when a   *)
(* whole turn through the track does not fill one read.                     *)
Track ==
  IF audio # "mp4" THEN WavSamples
  ELSE LET all == FlattenSeq([p \in DOMAIN Packets |-> [i \in 1 .. Packets[p] |-> <<p, i>>]])
       IN  SubSeq(all, PreSkip + 1, Len(all))
SoundsTo(n) == {j \in 1 .. n : heard[j] # Silence}
SoundFollowsTrack ==
  /\ \A i \in DOMAIN heard : heard[i] # Silence =>
       heard[i] = Track[((Cardinality(SoundsTo(i)) - 1) % Len(Track)) + 1]
  /\ Silence \in Range(heard) => Len(Track) < SamplesPer10ms

(* MediaKeepTime: both kinds of media are sent in the order of their files, *)
(* at the place that the clock, or the samples taken, call for.             *)
MediaKeepTime == FramesFollowTime /\ SoundFollowsTrack

(* EncoderKeepsUp: unless the library refused something, the encoder in use *)
(* has the size of the frame it is given and the rate last asked for, also  *)
(* when it was made anew in between.  Of what follows a refusal it says     *)
(* nothing.                                                                 *)
EncoderKeepsUp ==
  Encoding /\ ~encoder.failed => encoder.made = asked

(* DeliveredAlive: the audio thread, which copies the pointer to the        *)
(* transport out of its lock, uses it only while the context is there.      *)
DeliveredAlive == held => HasContext

(* LibraryServed: what is handed to the library is alive when it is called  *)
(* and made for what it gets: the transport of the audio thread, the        *)
(* encoder of a frame.                                                      *)
LibraryServed == EncoderKeepsUp /\ DeliveredAlive

===============================================================================
