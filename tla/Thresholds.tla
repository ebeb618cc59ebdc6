------------------------------ MODULE Thresholds ------------------------------
(***************************************************************************)
(* The limits a test is judged by (--threshold-success-rate,               *)
(* --threshold-connect-time-p95-ms, --threshold-stalled) and the numbers   *)
(* they are compared with.  A rate is a fraction <<numerator, denominator>>*)
(* and a limit that was not given is Absent.  No state: Summary has it.    *)
(***************************************************************************)
EXTENDS Integers, Sequences, FiniteSets

CONSTANT Absent

(* MUTANT of Rank: rounded down.                                            *)
RankBelow(n, p) ==
  LET r == (p * n) \div 100 IN IF r < 1 THEN 1 ELSE IF r > n THEN n ELSE r

(* The nearest rank of the p-th percentile of n values, from 1 to n.        *)
Rank(n, p) ==
  LET r == (p * n + 99) \div 100 IN IF r < 1 THEN 1 ELSE IF r > n THEN n ELSE r

(* percentile on values in ascending order; without a value there is none.  *)
Percentile(sorted, p) ==
  IF sorted = <<>> THEN Absent ELSE sorted[Rank(Len(sorted), p)]

(* StatsSummary::judged: the connections with a verdict.                    *)
Judged(summary) == summary.success + summary.failure

(* A limit that was given is also missed when nothing was measured.         *)
MissesRate(limits, summary) ==
  /\ limits.rate # Absent
  /\ \/ Judged(summary) = 0
     \/ summary.success * limits.rate[2] < limits.rate[1] * Judged(summary)

MissesP95(limits, summary) ==
  /\ limits.p95 # Absent
  /\ \/ summary.p95 = Absent
     \/ summary.p95 > limits.p95

MissesStalled(limits, summary) ==
  limits.stalled # Absent /\ summary.stalled > limits.stalled

(* evaluate finds no violation.                                             *)
Satisfied(limits, summary) ==
  ~MissesRate(limits, summary) /\ ~MissesP95(limits, summary)
    /\ ~MissesStalled(limits, summary)

===============================================================================
