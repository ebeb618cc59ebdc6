------------------------------ MODULE MCMoqMedia ------------------------------
(***************************************************************************)
(* MoqMedia with small groups, a catch-up of one object and a channel of   *)
(* one message.                                                            *)
(***************************************************************************)
EXTENDS MoqMedia
===============================================================================
