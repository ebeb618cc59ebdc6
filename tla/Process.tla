-------------------------------- MODULE Process --------------------------------
(***************************************************************************)
(* A process of either program from its command line: zakuro, whose        *)
(* instance plays and talks (module Zakuro), or zakuro-moq, where an       *)
(* instance resolves its relay and its clients connect (MoqConnect).       *)
(***************************************************************************)
EXTENDS Zakuro, MoqConnect

CONSTANT Connecting  (* bound: inputs of zakuro-moq whose clients connect   *)

ASSUME ProcessAssumption == \A i \in Connecting : i.program = "zakuro-moq"

(* What the relay's name resolves to matters only where clients connect.    *)
ProcessInit ==
  /\ ZakuroInit /\ ConnectInit
  /\ input \notin Connecting => endpoints[Home].addrs = <<4>>

(* What the instances have in common fails before any client is spawned.    *)
Before ==
  /\ \A c \in Clients : connects[c] = 0
  /\ ZakuroNext /\ UNCHANGED connectVars

(* The clients are spawned, and call connect_to.                            *)
Spawned ==
  /\ phase = "run" /\ input \in Connecting
  /\ ConnectNext /\ UNCHANGED zakuroVars

ProcessNext == Before \/ Spawned

processVars == <<zakuroVars, connectVars>>
ProcessSpec == ProcessInit /\ [][ProcessNext]_processVars

===============================================================================
