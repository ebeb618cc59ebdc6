---------------------------- MODULE MCMoqTransport ----------------------------
(***************************************************************************)
(* Both routes. The channels of wt_h3 hold one item, so that the peer      *)
(* fills them with its second. On ngtcp2, whose channels have no bound, a  *)
(* session that does not read its datagrams differs in nothing else.       *)
(***************************************************************************)
EXTENDS MoqTransport

MCInit == Init /\ (route = "ngtcp2" => subscribed)
MCSpec == MCInit /\ [][Next]_vars /\ Fairness
===============================================================================
