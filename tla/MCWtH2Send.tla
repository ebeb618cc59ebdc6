------------------------------ MODULE MCWtH2Send -------------------------------
(***************************************************************************)
(* WtH2Send with one stream of each kind; they compete for the turns, and   *)
(* one of them is written to.  The bidirectional one may not be opened at   *)
(* first; the peer raises one limit or window.  A write of two needs more   *)
(* than the window of the session, two writes more than that of the stream. *)
(* Three calls let something be queued behind a FIN that waits.             *)
(***************************************************************************)
EXTENDS WtH2Send

CONSTANTS u, b

Calls == (u :> 3) @@ (b :> 0)
Limits == [uni |-> 1, bidi |-> 0]
===============================================================================
