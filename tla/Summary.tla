-------------------------------- MODULE Summary --------------------------------
(***************************************************************************)
(* From the ends of the connections to the exit code of the test: the      *)
(* totals the collector adds up (OutcomeTotals), the summary it returns    *)
(* and the comparison with the limits at the end of async_main.  Which     *)
(* events reach the collector is VirtualClients, when it stops is          *)
(* Orchestration.                                                          *)
(***************************************************************************)
EXTENDS Thresholds

CONSTANTS
  Endings,      (* ConnectionEnded events explored: outcome, reason, stalled,*)
                (* and the time to establish or Absent                      *)
  LimitSets,    (* the limits explored                                      *)
  MaxEndings    (* BOUND: events                                            *)

VARIABLES
  totals,       (* OutcomeTotals: counts of outcomes and of stalled ones     *)
  reasons,      (* failure_reasons: connections per reason                  *)
  times,        (* connect_times_ms, in the order of arrival                *)
  excluded,     (* warmup_excluded                                          *)
  applied,      (* history: the events counted                              *)
  exit          (* for each limits explored, whether the test succeeded     *)

summaryVars == <<totals, reasons, times, excluded, applied, exit>>

Outcomes == {"success", "failure", "unjudged"}

(* A reason is what a failure has. A time is a number, in milliseconds.     *)
SummaryAssumption ==
  /\ Absent \notin Nat
  /\ \A e \in Endings :
       /\ e.outcome \in Outcomes /\ (e.reason # Absent <=> e.outcome = "failure")
       /\ e.stalled \in BOOLEAN /\ e.time \in {Absent} \cup Nat
  /\ \A l \in LimitSets :
       /\ l.rate = Absent \/ l.rate \in Nat \X (Nat \ {0})
       /\ l.p95 \in {Absent} \cup Nat /\ l.stalled \in {Absent} \cup Nat

NoReasons == [r \in {} |-> 0]
Open == Absent

Init ==
  /\ totals = [success |-> 0, failure |-> 0, unjudged |-> 0, stalled |-> 0]
  /\ reasons = NoReasons /\ times = <<>> /\ excluded = 0
  /\ applied = <<>> /\ exit = Open

(* is_counted: the connection ended after the warmup.                       *)
Apply(e) ==
  /\ Len(applied) + excluded < MaxEndings
  /\ totals' = [o \in DOMAIN totals |->
                  IF o = e.outcome \/ (o = "stalled" /\ e.stalled) THEN totals[o] + 1
                  ELSE totals[o]]
  /\ reasons' = IF e.reason = Absent THEN reasons
                ELSE [r \in DOMAIN reasons \cup {e.reason} |->
                        (IF r \in DOMAIN reasons THEN reasons[r] ELSE 0)
                          + (IF r = e.reason THEN 1 ELSE 0)]
  /\ times' = IF e.time = Absent THEN times ELSE Append(times, e.time)
  /\ applied' = Append(applied, e)
  /\ UNCHANGED <<excluded, exit>>

(* The connection ended during the warmup.                                  *)
ExcludeForWarmup ==
  /\ Len(applied) + excluded < MaxEndings
  /\ excluded' = excluded + 1
  /\ UNCHANGED <<totals, reasons, times, applied, exit>>

(* connect_times_ms in ascending order.                                     *)
Ascending(s) == \A i, j \in DOMAIN s : i < j => s[i] <= s[j]
Rearrangements(S) ==
  {f \in [S -> S] : /\ \A i, j \in S : f[i] = f[j] => i = j
                    /\ \A j \in S : \E i \in S : f[i] = j}
Sorted(s) ==
  LET order == CHOOSE f \in Rearrangements(DOMAIN s) : Ascending([i \in DOMAIN s |-> s[f[i]]])
  IN  [i \in DOMAIN s |-> s[order[i]]]

(* OutcomeTotals::summary, as far as the limits need it.                    *)
SummaryOf ==
  [success |-> totals.success, failure |-> totals.failure,
   stalled |-> totals.stalled,
   p95 |-> Percentile(Sorted(times), 95)]

(* The end of async_main: nothing to compare with is a success.             *)
Conclude ==
  /\ exit = Open
  /\ exit' = [l \in LimitSets |-> Satisfied(l, SummaryOf)]
  /\ UNCHANGED <<totals, reasons, times, excluded, applied>>

-----------------------------------------------------------------------------
(* Properties.                                                             *)

Ended == DOMAIN applied
Succeeded == {i \in Ended : applied[i].outcome = "success"}
WithVerdict == {i \in Ended : applied[i].outcome # "unjudged"}
Timed == {i \in Ended : applied[i].time # Absent}
TimedWithin(limit) == {i \in Timed : applied[i].time <= limit}
Stalled == {i \in Ended : applied[i].stalled}

(* What the limits ask, said of the connections themselves: enough of those *)
(* with a verdict succeeded, 95 of 100 that established did so in time, and *)
(* there were some.                                                         *)
Earned(limits) ==
  /\ limits.rate # Absent =>
       /\ WithVerdict # {}
       /\ Cardinality(Succeeded) * limits.rate[2]
            >= limits.rate[1] * Cardinality(WithVerdict)
  /\ limits.p95 # Absent =>
       /\ Timed # {}
       /\ 100 * Cardinality(TimedWithin(limits.p95)) >= 95 * Cardinality(Timed)
  /\ limits.stalled # Absent => Cardinality(Stalled) <= limits.stalled

(* The exit code says of the connections that were counted what the limits   *)
(* ask, in whatever order they ended: a limit of the rate or of the time is *)
(* not met by a test that measured none, nor one of the time with more than *)
(* one connection in twenty too slow.  Every failure is under a reason      *)
(* (evaluate, percentile, OutcomeTotals).                                   *)
VerdictEarned ==
  /\ exit # Open => \A l \in LimitSets : exit[l] <=> Earned(l)
  /\ \A r \in DOMAIN reasons :
       reasons[r] = Cardinality({i \in WithVerdict \ Succeeded : applied[i].reason = r})

===============================================================================
