----------------------------- MODULE MCWtH2Receive -----------------------------
(***************************************************************************)
(* WtH2Receive with one stream of each kind.  The peer sends twice what the *)
(* window of the session holds, and more than that of a stream.            *)
(***************************************************************************)
EXTENDS WtH2Receive

CONSTANTS u, b, l

Sent == (u :> 0) @@ (b :> 3) @@ (l :> 1)
===============================================================================
