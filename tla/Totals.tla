-------------------------------- MODULE Totals ---------------------------------
(***************************************************************************)
(* The total of a sequence of numbers, and of the numbers of a finite set's *)
(* members.                                                                *)
(***************************************************************************)
EXTENDS Integers, Sequences, FiniteSets

Total(s) ==
  LET total[i \in 0..Len(s)] == IF i = 0 THEN 0 ELSE total[i - 1] + s[i]
  IN  total[Len(s)]

IsEnumeration(e, S) ==
  /\ \A x \in S : \E i \in DOMAIN e : e[i] = x
  /\ \A i, j \in DOMAIN e : e[i] = e[j] => i = j

TotalOver(S, f) ==
  LET e == CHOOSE e \in [1..Cardinality(S) -> S] : IsEnumeration(e, S)
  IN  Total([i \in 1..Cardinality(S) |-> f[e[i]]])

===============================================================================
