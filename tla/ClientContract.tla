---------------------------- MODULE ClientContract ----------------------------
(***************************************************************************)
(* What one virtual client promises to the rest of the load tester, with   *)
(* no loop, no channel and no retry rule: it makes connection attempts one *)
(* after the other, an attempt may become live, every attempt that began   *)
(* is closed by exactly one lifecycle row, and once the client is over it  *)
(* never connects again.                                                   *)
(***************************************************************************)
EXTENDS Naturals

CONSTANT VCs            (* the virtual clients of the test *)

VARIABLES phase,        (* what each client is doing *)
          rows          (* lifecycle rows each client has left behind *)

Init ==
  /\ phase = [v \in VCs |-> "idle"]
  /\ rows = [v \in VCs |-> 0]

Move(v, from, to) ==
  /\ phase[v] \in from
  /\ phase' = [phase EXCEPT ![v] = to]

RowsGrowBy(v, n) == rows' = [rows EXCEPT ![v] = @ + n]

Begin(v) == Move(v, {"idle"}, "attempt") /\ RowsGrowBy(v, 0)

Establish(v) == Move(v, {"attempt"}, "live") /\ RowsGrowBy(v, 0)

(* The client could not even build its connection: the attempt and its row *)
(* are one step.                                                           *)
FailToBegin(v) == Move(v, {"idle"}, "idle") /\ RowsGrowBy(v, 1)

Close(v) == Move(v, {"attempt", "live"}, "idle") /\ RowsGrowBy(v, 1)

Leave(v) == Move(v, {"idle"}, "over") /\ RowsGrowBy(v, 0)

Next == \E v \in VCs :
  Begin(v) \/ Establish(v) \/ FailToBegin(v) \/ Close(v) \/ Leave(v)

Spec == Init /\ [][Next]_<<phase, rows>>
===============================================================================
