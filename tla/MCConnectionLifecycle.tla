------------------------- MODULE MCConnectionLifecycle -------------------------
(***************************************************************************)
(* ConnectionLifecycle with two streams: which, the configuration says.    *)
(***************************************************************************)
EXTENDS ConnectionLifecycle, TLC

CONSTANTS s1, s2        (* model values for the stats ids *)

(* An outbound and an inbound stream, of a client that sends video and      *)
(* receives it.                                                             *)
BothWaysDir == (s1 :> "send") @@ (s2 :> "recv")
VideoOnly == [s \in {s1, s2} |-> "video"]
SendRecvVideo == {[send |-> TRUE, recv |-> TRUE, kinds |-> {"video"}]}

===============================================================================
