------------------------------- MODULE LoadTest -------------------------------
(***************************************************************************)
(* A test by either program: Orchestration with the summary of what the    *)
(* connections of its instances came to and the exit code; or MoqProcess.  *)
(***************************************************************************)
EXTENDS Orchestration, MoqSettings

CONSTANTS
  Endings, LimitSets, MaxEndings,   (* of Summary                           *)
  Asked, MaxObjects                 (* of MoqProcess                        *)

VARIABLES totals, reasons, times, excluded, applied, exit
VARIABLES asked, settings, place, token, interrupts, begun, instance, hatched, client, total,
          counted, report
VARIABLE program     (* which of the two runs                               *)

Sums == INSTANCE Summary
M == INSTANCE MoqProcess

ASSUME LoadAssumption == Sums!SummaryAssumption /\ M!ProcessAssumption

summaryVars == <<totals, reasons, times, excluded, applied, exit>>
moqVars == <<asked, settings, place, token, interrupts, begun, instance, hatched, client, total,
             counted, report>>
loadVars == <<program, vars, summaryVars, moqVars>>

(* An instance has begun and the collector has not stopped.  Events taken   *)
(* earlier, during the dispatch, add up the same: they touch nothing of     *)
(* Orchestration.                                                           *)
Collecting ==
  /\ agg = "running" /\ main = "results"
  /\ \E i \in Instances : inst[i] \in {"running", "finished"}

LoadInit == Init /\ Sums!Init /\ M!Init /\ program \in {"zakuro", "zakuro-moq"}

Zakuro ==
  /\ program = "zakuro" /\ UNCHANGED <<program, moqVars>>
  /\ \/ Next /\ UNCHANGED summaryVars
     \/ UNCHANGED vars /\ Collecting /\ ((\E e \in Endings : Sums!Apply(e)) \/ Sums!ExcludeForWarmup)
     \/ UNCHANGED vars /\ main = "done" /\ Sums!Conclude

(* The other program does not run.                                          *)
Moq == program = "zakuro-moq" /\ UNCHANGED <<program, vars, summaryVars>> /\ M!Next

LoadNext == Zakuro \/ Moq

LoadFairness == WF_vars(program = "zakuro" /\ Main) /\ OthersRun /\ M!Fairness

LoadSpec == LoadInit /\ [][LoadNext]_loadVars /\ LoadFairness

-----------------------------------------------------------------------------
(* Properties.                                                              *)

(* A test reports what happened: the exit code is what its connections      *)
(* earned, and the totals are those of all clients.                         *)
ReportEarned == Sums!VerdictEarned /\ M!TotalsComplete /\ M!TypeOK

(* What an instance of zakuro-moq publishes and subscribes to is what was   *)
(* asked for (expand_instances, validate_instance_args).                    *)
TracksAsAsked == M!TracksAsAsked

(* Ctrl+C ends a test of either program.                                    *)
TestsComplete == TestCompletes /\ M!CancelEnds

===============================================================================
