------------------------------ MODULE MCMoqClient ------------------------------
(***************************************************************************)
(* MoqClient with one or two published tracks, one subscribed track, and a *)
(* relay that may name another endpoint, the same one or a useless one.    *)
(***************************************************************************)
EXTENDS MoqClient
===============================================================================
