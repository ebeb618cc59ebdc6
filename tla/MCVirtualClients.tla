--------------------------- MODULE MCVirtualClients ---------------------------
(***************************************************************************)
(* VirtualClients on two or three clients.                                 *)
(***************************************************************************)
EXTENDS VirtualClients, TLC

CONSTANTS c1, c2        (* model values for the clients *)

(* c1 follows a scenario and may retry once, c2 has a timer and gives up at *)
(* its first failure.                                                      *)
MCMaxRetry == (c1 :> 1) @@ (c2 :> 0)
MCMaxAttempts == (c1 :> 2) @@ (c2 :> 1)

===============================================================================
