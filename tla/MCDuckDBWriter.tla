---------------------------- MODULE MCDuckDBWriter ----------------------------
(***************************************************************************)
(* DuckDBWriter on two connections.                                         *)
(***************************************************************************)
EXTENDS DuckDBWriter

CONSTANTS c1, c2        (* model values for the connections *)

Entry(t, i, f) == [type |-> t, id |-> i, fields |-> f]
Rtp == Entry("inbound-rtp", "r", "")

(* Each time, c1 reports a sample and a candidate that changed, and that is  *)
(* in the report twice; c2 is there to interleave.                          *)
ReportsOf ==
  [c \in {c1, c2} |->
     IF c = c1 THEN {<<Entry("local-candidate", "l", "old"), Rtp, Entry("other", "o", ""),
                       Entry("local-candidate", "l", "new")>>}
     ELSE {<<Rtp>>}]
Ticks == [c \in {c1, c2} |-> IF c = c1 THEN 2 ELSE 1]
===============================================================================
