------------------------------- MODULE MoqMedia -------------------------------
(***************************************************************************)
(* The objects of one track, from the publisher that sends them on a       *)
(* schedule (Publisher of session.rs) over subgroup streams or datagrams   *)
(* to the client that subscribed to it: one reader task per stream, a      *)
(* bounded channel, and the session's task that counts.  The relay passes  *)
(* streams on; it may stop one (STOP_SENDING), and the library may ask for *)
(* a reset.                                                                *)
(*                                                                         *)
(* Time is counted in periods of the track: lag is how many periods the    *)
(* publisher is behind next_send (an object is due when lag >= 0).  A      *)
(* subgroup stream carries, per object, the difference to the object       *)
(* before it.                                                              *)
(***************************************************************************)
EXTENDS Totals

CONSTANTS
  ObjectsPerGroup,   (* objects_per_group                                   *)
  MaxCatchUp,        (* MAX_CATCH_UP_OBJECTS (10 in the code)               *)
  MaxFailures,       (* MAX_CONSECUTIVE_WRITE_FAILURES (5 in the code)      *)
  Capacity,          (* of the channel to the session's task (256)          *)
  MaxLag,            (* BOUND: periods the publisher may fall behind        *)
  MaxGroups          (* BOUND: groups sent                                  *)

ASSUME MediaAssumption ==
  /\ ObjectsPerGroup \in Nat \ {0} /\ MaxFailures \in Nat \ {0}
  /\ MaxCatchUp \in Nat /\ MaxLag \in Nat /\ MaxGroups \in Nat
  /\ Capacity \in Nat \ {0}

VARIABLES
  datagram,          (* the track is delivered by datagrams                 *)
  ended,             (* the publishing session: no, closed or failed        *)
  publishAccepted,   (* PUBLISH was accepted                                *)
  forward,           (* Forward State: FALSE while paused                   *)
  lag,               (* periods behind next_send                            *)
  stream,            (* the open subgroup stream, 0 for none                *)
  group, object,     (* group_id and object_id of the next object           *)
  prev,              (* prev_object_id, -1 for none                         *)
  writeFailures,     (* consecutive_write_failures                          *)
  wire,              (* the streams opened: group, deltas, how they ended   *)
  written,           (* history: the object ids written on each stream      *)
  grams,             (* the datagrams sent                                  *)
  allowance,         (* history: objects the schedule still owes, see Pacing *)
  reader,            (* the reader task of each stream                      *)
  chan,              (* messages for the subscriber's session               *)
  aliases,           (* stream_aliases                                      *)
  counts             (* objects counted: in total, for the subscription     *)

pubVars == <<datagram, ended, publishAccepted, forward, lag, stream, group, object,
             prev, writeFailures, allowance>>
wireVars == <<wire, written, grams>>
subVars == <<reader, chan, aliases, counts>>
mediaVars == <<pubVars, wireVars, subVars>>

None == -1
Streams == 1..Len(wire)
FreshReader == [at |-> "header", taken |-> 0, prev |-> None, got |-> <<>>]

MediaInit ==
  /\ datagram \in BOOLEAN
  /\ ended = "no" /\ publishAccepted = FALSE /\ forward = TRUE /\ lag = 0
  /\ stream = 0 /\ group = 0 /\ object = 0 /\ prev = None /\ writeFailures = 0
  /\ wire = <<>> /\ written = <<>> /\ grams = {}
  /\ allowance = 1
  /\ reader = <<>> /\ chan = <<>> /\ aliases = {}
  /\ counts = [total |-> 0, subscription |-> 0]

-----------------------------------------------------------------------------
(* The publisher.                                                           *)

(* on_accepted: the first REQUEST_OK starts the schedule.                   *)
Accept ==
  /\ ended = "no" /\ ~publishAccepted
  /\ publishAccepted' = TRUE /\ lag' = 0 /\ allowance' = 1
  /\ UNCHANGED <<datagram, ended, forward, stream, group, object, prev,
                 writeFailures, wireVars, subVars>>

(* on_forward_changed, for a REQUEST_UPDATE with PAUSED: back to 1, a       *)
(* schedule that fell behind starts over from now.                          *)
ForwardChanged(f) ==
  /\ ended = "no" /\ publishAccepted
  /\ forward' = f
  /\ lag' = IF f /\ lag > 0 THEN 0 ELSE lag
  /\ allowance' = IF f /\ lag >= 0 THEN 1 ELSE allowance
  /\ UNCHANGED <<datagram, ended, publishAccepted, stream, group, object, prev,
                 writeFailures, wireVars, subVars>>

(* A period passes: while the task waits, writes or is not polled.          *)
TimePasses ==
  /\ publishAccepted /\ lag < MaxLag
  /\ lag' = lag + 1
  /\ allowance' = IF allowance > MaxCatchUp + 1 THEN allowance ELSE allowance + 1
  /\ UNCHANGED <<datagram, ended, publishAccepted, forward, stream, group, object,
                 prev, writeFailures, wireVars, subVars>>

IsDue == ended = "no" /\ publishAccepted /\ forward /\ lag >= 0

(* The group and the object that are next, behind a group that is complete. *)
Complete == object >= ObjectsPerGroup
NextGroup == IF Complete THEN group + 1 ELSE group
NextObject == IF Complete THEN 0 ELSE object

(* advance_next_send.                                                       *)
AdvanceNextSend == lag' = IF lag - 1 > MaxCatchUp THEN -1 ELSE lag - 1

(* The stream in use for this object, opened first when there is none; the  *)
(* complete group before it is closed with FIN.                             *)
Reuses == stream # 0 /\ ~Complete
Finned == [k \in Streams |-> IF k = stream /\ Complete
                             THEN [wire[k] EXCEPT !.end = "fin"] ELSE wire[k]]
Opened == IF Reuses THEN wire
          ELSE Append(Finned, [group |-> NextGroup, deltas |-> <<>>, end |-> "open"])
InUse == Len(Opened)
Before == IF Reuses THEN prev ELSE None
WithReader == IF Reuses THEN reader ELSE Append(reader, FreshReader)
WithWritten == IF Reuses THEN written ELSE Append(written, <<>>)

(* object_id_delta.                                                         *)
Delta == IF Before = None THEN NextObject ELSE NextObject - Before - 1

Sending == IsDue /\ NextGroup < MaxGroups /\ UNCHANGED <<datagram, publishAccepted, forward>>
Opening == Sending /\ ~datagram /\ stream' = InUse /\ reader' = WithReader
           /\ UNCHANGED <<grams, chan, aliases, counts>>

(* MUTANT of Filtered: the object that was not sent is taken for the        *)
(* previous one.                                                            *)
FilteredAsSent ==
  /\ Opening
  /\ group' = NextGroup /\ object' = NextObject + 1 /\ prev' = NextObject
  /\ wire' = Opened /\ written' = WithWritten
  /\ AdvanceNextSend /\ allowance' = allowance - 1
  /\ UNCHANGED <<ended, writeFailures>>

(* The subscriber's filter does not let the object pass: it is not written, *)
(* the schedule goes on.                                                    *)
Filtered ==
  /\ Opening
  /\ group' = NextGroup /\ object' = NextObject + 1 /\ prev' = Before
  /\ wire' = Opened /\ written' = WithWritten
  /\ AdvanceNextSend /\ allowance' = allowance - 1
  /\ UNCHANGED <<ended, writeFailures>>

(* The object was written.                                                  *)
Written ==
  /\ Opening
  /\ group' = NextGroup /\ object' = NextObject + 1 /\ prev' = NextObject
  /\ wire' = [Opened EXCEPT ![InUse].deltas = Append(@, Delta)]
  /\ written' = [WithWritten EXCEPT ![InUse] = Append(@, NextObject)]
  /\ writeFailures' = 0
  /\ AdvanceNextSend /\ allowance' = allowance - 1
  /\ UNCHANGED ended

(* MUTANT of WriteFails: the same group is sent again on a new stream.      *)
WriteFailsInPlace ==
  /\ Sending /\ ~datagram /\ reader' = WithReader /\ stream' = 0
  /\ group' = NextGroup /\ object' = 0 /\ prev' = None
  /\ wire' = [Opened EXCEPT ![InUse].end = "reset"] /\ written' = WithWritten
  /\ writeFailures' = writeFailures + 1
  /\ ended' = IF writeFailures + 1 >= MaxFailures THEN "failed" ELSE "no"
  /\ UNCHANGED <<lag, allowance, grams, chan, aliases, counts>>

(* on_stream_write_failure: the stream is over, the next group is tried at  *)
(* once; too many failures in a row end the session.                        *)
WriteFails ==
  /\ Sending /\ ~datagram /\ reader' = WithReader /\ stream' = 0
  /\ group' = NextGroup + 1 /\ object' = 0 /\ prev' = None
  /\ wire' = [Opened EXCEPT ![InUse].end = "reset"] /\ written' = WithWritten
  /\ writeFailures' = writeFailures + 1
  /\ ended' = IF writeFailures + 1 >= MaxFailures THEN "failed" ELSE "no"
  /\ UNCHANGED <<lag, allowance, grams, chan, aliases, counts>>

(* reset_stream, when the library asks for it.                              *)
Reset ==
  /\ ended = "no" /\ stream # 0
  /\ wire' = [wire EXCEPT ![stream].end = "reset"]
  /\ stream' = 0 /\ group' = group + 1 /\ object' = 0 /\ prev' = None
  /\ UNCHANGED <<datagram, ended, publishAccepted, forward, lag, writeFailures,
                 allowance, written, grams, subVars>>

IsEndOfGroup(o) == o + 1 = ObjectsPerGroup

(* send_next_datagram, without the objects that are too large (an error).   *)
Datagram(passes) ==
  /\ Sending /\ datagram
  /\ group' = NextGroup /\ object' = NextObject + 1
  /\ grams' = IF passes
              THEN grams \cup {[group |-> NextGroup, object |-> NextObject,
                                last |-> IsEndOfGroup(NextObject)]}
              ELSE grams
  /\ AdvanceNextSend /\ allowance' = allowance - 1
  /\ UNCHANGED <<ended, stream, prev, writeFailures, wire, written, subVars>>

(* Opening a stream, writing its header or sending a datagram failed: the   *)
(* session ends with an error, its streams are dropped.                     *)
SendFails ==
  /\ IsDue /\ (datagram \/ ~Reuses)
  /\ ended' = "failed"
  /\ wire' = [k \in Streams |-> IF k = stream
                                THEN [wire[k] EXCEPT !.end = IF Complete THEN "fin" ELSE "reset"]
                                ELSE wire[k]]
  /\ stream' = 0
  /\ UNCHANGED <<datagram, publishAccepted, forward, lag, group, object, prev, writeFailures,
                 allowance, written, grams, subVars>>

(* The end of the session: FIN on the open stream.                          *)
Finish ==
  /\ ended = "no"
  /\ ended' = "closed" /\ stream' = 0
  /\ wire' = [k \in Streams |-> IF k = stream THEN [wire[k] EXCEPT !.end = "fin"]
                                ELSE wire[k]]
  /\ UNCHANGED <<datagram, publishAccepted, forward, lag, group, object, prev, writeFailures,
                 allowance, written, grams, subVars>>

Publisher == Accept \/ (\E f \in BOOLEAN : ForwardChanged(f)) \/ TimePasses
             \/ Filtered \/ Written \/ WriteFails \/ Reset
             \/ (\E p \in BOOLEAN : Datagram(p)) \/ SendFails \/ Finish

-----------------------------------------------------------------------------
(* The subscriber: run_data_reader for each stream.                         *)

Room == Len(chan) < Capacity
Message(kind, k) == [kind |-> kind, stream |-> k]
Tell(m) == chan' = Append(chan, m)

(* The stream type and SUBGROUP_HEADER.                                     *)
ReadHeader(k) ==
  /\ reader[k].at = "header" /\ Room
  /\ Tell(Message("header", k))
  /\ reader' = [reader EXCEPT ![k].at = "object"]
  /\ UNCHANGED <<pubVars, wireVars, aliases, counts>>

(* One SUBGROUP_OBJECT and its payload; the decoder adds the delta to the   *)
(* object before.                                                           *)
ReadObject(k) ==
  /\ reader[k].at = "object" /\ Room /\ reader[k].taken < Len(wire[k].deltas)
  /\ LET r == reader[k]
         id == r.prev + wire[k].deltas[r.taken + 1] + 1 IN
       reader' = [reader EXCEPT ![k] = [at |-> "object", taken |-> r.taken + 1,
                                        prev |-> id, got |-> Append(r.got, id)]]
  /\ Tell(Message("object", k))
  /\ UNCHANGED <<pubVars, wireVars, aliases, counts>>

(* MUTANT of ReadEnd: FIN is reported before the objects in the buffer.     *)
ReadEndEarly(k) ==
  /\ reader[k].at # "done" /\ Room
  /\ wire[k].end # "open"
  /\ Tell(Message("over", k))
  /\ reader' = [reader EXCEPT ![k].at = "done"]
  /\ UNCHANGED <<pubVars, wireVars, aliases, counts>>

(* MUTANT of ReadEnd: a reset ends the reader without a word.               *)
ReadEndOfFin(k) ==
  /\ reader[k].at # "done" /\ Room
  /\ wire[k].end = "fin" /\ reader[k].at = "object"
  /\ reader[k].taken = Len(wire[k].deltas)
  /\ Tell(Message("over", k))
  /\ reader' = [reader EXCEPT ![k].at = "done"]
  /\ UNCHANGED <<pubVars, wireVars, aliases, counts>>

(* FIN comes behind everything written; a reset overtakes it.               *)
ReadEnd(k) ==
  /\ reader[k].at # "done" /\ Room
  /\ \/ wire[k].end = "reset"
     \/ /\ wire[k].end = "fin" /\ reader[k].at = "object"
        /\ reader[k].taken = Len(wire[k].deltas)
  /\ Tell(Message("over", k))
  /\ reader' = [reader EXCEPT ![k].at = "done"]
  /\ UNCHANGED <<pubVars, wireVars, aliases, counts>>

(* The session's task takes a message; record_received_object counts an     *)
(* object in total, and for the subscription its stream belongs to.         *)
Receive ==
  /\ chan # <<>> /\ chan' = Tail(chan)
  /\ LET m == Head(chan) IN
       /\ aliases' = CASE m.kind = "header" -> aliases \cup {m.stream}
                       [] m.kind = "over" -> aliases \ {m.stream}
                       [] OTHER -> aliases
       /\ counts' = IF m.kind # "object" THEN counts
                    ELSE IF m.stream \in aliases
                    THEN [total |-> counts.total + 1,
                          subscription |-> counts.subscription + 1]
                    ELSE [counts EXCEPT !.total = @ + 1]
  /\ UNCHANGED <<pubVars, wireVars, reader>>

Subscriber == (\E k \in Streams : ReadHeader(k) \/ ReadObject(k) \/ ReadEnd(k))
              \/ Receive

MediaTerminated == ended # "no" /\ UNCHANGED mediaVars

MediaNext == Publisher \/ Subscriber \/ MediaTerminated

(* Readers run while there is data and room, the session's task empties the *)
(* channel; the publisher, the relay and time are free.                     *)
MediaFairness == \A k \in 1..(MaxGroups + 1) :
              /\ WF_mediaVars(k \in Streams /\ (ReadHeader(k) \/ ReadObject(k) \/ ReadEnd(k)))
              /\ WF_mediaVars(Receive)

MediaSpec == MediaInit /\ [][MediaNext]_mediaVars /\ MediaFairness

-----------------------------------------------------------------------------
(* Properties.                                                              *)

(* Types.                                                                   *)
MediaTypeOK ==
  /\ datagram \in BOOLEAN /\ ended \in {"no", "closed", "failed"}
  /\ publishAccepted \in BOOLEAN /\ forward \in BOOLEAN
  /\ lag \in -1..MaxLag /\ stream \in 0..Len(wire)
  /\ group \in 0..(MaxGroups + 1) /\ object \in 0..ObjectsPerGroup
  /\ prev \in -1..ObjectsPerGroup /\ writeFailures \in 0..MaxFailures
  /\ Len(chan) <= Capacity /\ Len(reader) = Len(wire) /\ Len(written) = Len(wire)

IsPrefixOf(s, t) == Len(s) <= Len(t) /\ \A i \in 1..Len(s) : s[i] = t[i]

(* What a reader decodes on a stream is what was written on it, in order:   *)
(* the differences on the wire add up whichever objects a filter left out,  *)
(* across groups, resets and failed writes.                                 *)
DecodedAsSent == \A k \in Streams : IsPrefixOf(reader[k].got, written[k])

(* A group has one stream and groups only go up: after a reset, a failed    *)
(* write or a FIN the publisher never opens a subgroup again and never      *)
(* sends an object twice.                                                   *)
GroupsNeverReopened ==
  \A i, j \in Streams : i < j => wire[i].group < wire[j].group

(* The schedule is a token bucket: a start puts one object in, each period  *)
(* one more, up to MaxCatchUp + 2.  A publisher that fell behind never      *)
(* sends more than that at once, and what it did not send while paused or   *)
(* not accepted is not made up for.                                         *)
Pacing == allowance >= 0

(* A datagram that says its group is over is the last of it.                *)
EndOfGroupIsLast ==
  \A d, e \in grams : d.last /\ e.group = d.group => e.object <= d.object

(* What a publisher puts on the wire: groups in order, each opened once and *)
(* ended by its last object, at the pace of its schedule.                   *)
PublishesInOrder == MediaTypeOK /\ GroupsNeverReopened /\ EndOfGroupIsLast /\ Pacing

Whole(k) == reader[k].at = "done" /\ wire[k].end = "fin"

(* When every stream was read to its FIN and every message handled, each    *)
(* object written was counted once, in total and for the subscription.      *)
CountedOnce ==
  chan = <<>> /\ (\A k \in Streams : Whole(k)) =>
    /\ counts.total = Total([k \in Streams |-> Len(written[k])])
    /\ counts.subscription = counts.total

(* A stream the publisher ended is read to its end, though the channel is   *)
(* bounded and shared by all readers.                                       *)
EndedStreamsAreRead ==
  \A k \in 1..MaxGroups :
    (k \in Streams /\ wire[k].end # "open")
      ~> (k \in Streams /\ reader[k].at = "done")
===============================================================================
