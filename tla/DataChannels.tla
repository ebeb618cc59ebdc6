------------------------------ MODULE DataChannels ------------------------------
(***************************************************************************)
(* The data channels of a client as --sora-data-channels describes them:   *)
(* which of them carry messages, and the sizes of those (data_channel.rs). *)
(* A described channel is a record with a label, a direction, an interval  *)
(* and two sizes, Absent where the JSON leaves one out.                    *)
(***************************************************************************)
EXTENDS Integers, Sequences, TLC

MESSAGE_SIZE_MIN == 48       (* the header alone                            *)
MESSAGE_SIZE_MAX == 256000
Absent == -1

Given(value, default) == IF value = Absent THEN default ELSE value
Carries(channel) == channel.direction \in {"sendonly", "sendrecv"}

(* The bounds are looked at only where messages are sent.                   *)
Allowed(size) == Given(size, MESSAGE_SIZE_MIN) \in MESSAGE_SIZE_MIN .. MESSAGE_SIZE_MAX
ChannelsRejected(described) ==
  \E i \in DOMAIN described :
    Carries(described[i]) /\ ~(Allowed(described[i].min) /\ Allowed(described[i].max))

(* The larger size is never below the smaller one.                          *)
Sized(min, max) == [min |-> min, max |-> IF max < min THEN min ELSE max]

MessageChannel(channel) ==
  LET sizes == Sized(Given(channel.min, MESSAGE_SIZE_MIN), Given(channel.max, MESSAGE_SIZE_MIN))
  IN  [label |-> channel.label, interval |-> Given(channel.interval, 500),
       min |-> sizes.min, max |-> sizes.max]

parse_data_channels(described) ==
  LET parsed[n \in 0 .. Len(described)] ==
        IF n = 0 THEN <<>>
        ELSE IF Carries(described[n]) THEN Append(parsed[n - 1], MessageChannel(described[n]))
        ELSE parsed[n - 1]
  IN  parsed[Len(described)]

(* A message is its header and a payload of min - 48 to max - 48 bytes.     *)
payload_size_from(min, max, random) ==
  (min - MESSAGE_SIZE_MIN) + (random % (max - min + 1))

build_message(label, number, payload) ==
  [label |-> label, number |-> number, size |-> MESSAGE_SIZE_MIN + payload]

===============================================================================
