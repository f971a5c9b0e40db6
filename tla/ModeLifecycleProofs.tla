------------------------ MODULE ModeLifecycleProofs ------------------------
(***************************************************************************)
(* Proofs about ModeLifecycle for any schedules, crons and length of time: *)
(* one runner at a time, a finish time that only grows, a mode that stays  *)
(* stopped.                                                                *)
(***************************************************************************)
EXTENDS ModeLifecycle, FiniteSetTheorems, WellFoundedInduction, TLAPS

(* A non-empty set of naturals has a smallest element.                     *)
LEMMA Smallest ==
  ASSUME NEW S \in SUBSET Nat, S # {}
  PROVE  \E s \in S : \A u \in S : s <= u
<1> DEFINE Less == OpToRel(<, Nat)
<1>1. PICK s \in S : \A u \in S : <<u, s>> \notin Less
  <2> HIDE DEF Less
  <2>1. IsWellFoundedOn(Less, Nat)
    BY NatLessThanWellFounded DEF Less
  <2> QED BY <2>1, WFMin
<1>2. \A u \in S : ~(u < s)
  BY <1>1 DEF OpToRel
<1> QED BY <1>2

(* The next instant a cron matches is one it matches.                      *)
LEMMA NextIsOne ==
  ASSUME now \in Instants, NEW times, times \in {StartTimes, StopTimes}
  PROVE  NextIn(times) \in times /\ NextIn(times) > now
<1> DEFINE later == {s \in times : s > now}
<1>1. later \subseteq Nat /\ later # {} /\ times \subseteq Nat /\ now \in Nat
  <2>1. times \subseteq Nat /\ now \in Nat
    BY ModeAssumption DEF Instants
  <2>2. \E s \in times : s > now
    BY ModeAssumption
  <2> QED BY <2>1, <2>2
<1>2. \E s \in times : s > now /\ \A u \in times : u > now => s <= u
  <2>1. PICK s \in later : \A u \in later : s <= u
    BY <1>1, Smallest
  <2> QED BY <2>1
<1> QED BY <1>2 DEF NextIn

(* At most one of the runners lives when at most one was spawned.          *)
LEMMA OneIsLive == ASSUME TypeOK, runner <= 1 PROVE Cardinality(Live) <= 1
<1>1. Live \subseteq {1}
  BY DEF TypeOK, Live, Runners
<1>2. IsFiniteSet({1}) /\ Cardinality({1}) = 1
  BY FS_Singleton
<1>3. Cardinality(Live) <= Cardinality({1}) /\ Cardinality(Live) \in Nat
  BY <1>1, <1>2, FS_Subset, FS_CardinalityType
<1> QED BY <1>2, <1>3

(* The induction hypothesis without OneRunner, which follows from it.      *)
Ind == TypeOK /\ Scheduled /\ StartsOnce /\ Stopped

LEMMA IndOneRunner == Ind => OneRunner
BY OneIsLive DEF Ind, OneRunner, StartsOnce

LEMMA InitInvariant == Init => Ind
<1> SUFFICES ASSUME Init PROVE Ind
  OBVIOUS
<1> USE ModeAssumption DEF Init, Threads, Runners, Instants, Finish
<1>1. TypeOK
  <2>1. schedules \in Seq({"always", "timed"}) /\ next \in 1 .. Len(schedules) + 1
    OBVIOUS
  <2>2. rpc \in [Runners -> {"none", "begin", "check", "routine", "ended", "died"}]
        /\ \A r \in Runners : rpc[r] = "none" <=> r > runner
    OBVIOUS
  <2>3. /\ pc \in [Threads -> {"idle", "test", "init", "finish", "running", "spawn", "compare", "assign"}]
        /\ arg \in [Threads -> Finish]
    OBVIOUS
  <2>4. /\ now \in Instants /\ schedules \in Configs /\ ready \in BOOLEAN /\ blocks \in BOOLEAN /\ isRunning = FALSE
        /\ finishTime = None /\ None \in Finish /\ listening = FALSE /\ runner = 0 /\ dead = FALSE
        /\ due = FALSE /\ met = FALSE /\ spc = "idle"
    OBVIOUS
  <2> HIDE DEF Init, Threads, Runners, Instants, Finish
  <2>5. finishTime \in Finish /\ runner \in 0 .. 2
    BY <2>4
  <2>6. isRunning \in BOOLEAN /\ listening \in BOOLEAN /\ dead \in BOOLEAN /\ due \in BOOLEAN /\ met \in BOOLEAN
    BY <2>4
  <2>7. spc \in {"idle", "clear", "finish", "responses", "join", "done"}
    BY <2>4
  <2> QED BY <2>1, <2>2, <2>3, <2>4, <2>5, <2>6, <2>7 DEF TypeOK
<1>2. Scheduled /\ StartsOnce /\ Stopped
  BY DEF Scheduled, StartsOnce, Stopped, Starting
<1> QED BY <1>1, <1>2 DEF Ind

-----------------------------------------------------------------------------
(* Time, the start-up loop and the jobs.                                   *)
LEMMA TickStep == ASSUME Ind, Tick PROVE Ind'
<1> USE ModeAssumption DEF Ind, TypeOK, Threads, Runners, Instants, Finish
<1> USE DEF given, mode, main, Scheduling, Live, At, Tick
<1>1. TypeOK'
  <2>1. now' \in Instants
    OBVIOUS
  <2>2. due' \in BOOLEAN
    <3>1. due' = TRUE \/ due' = due
      OBVIOUS
    <3> QED BY <3>1
  <2>3. UNCHANGED <<given, mode, main, pc, arg, spc>>
    OBVIOUS
  <2> HIDE DEF Tick
  <2> QED BY <2>1, <2>2, <2>3
<1>2. Scheduled'
  BY DEF Scheduled
<1>3. StartsOnce'
  BY DEF StartsOnce, Starting, Scheduled
<1>4. Stopped'
  BY DEF Stopped, StartsOnce, Starting, Scheduled
<1> QED BY <1>1, <1>2, <1>3, <1>4

LEMMA MainStartsStep == ASSUME Ind, MainStarts PROVE Ind'
<1> USE ModeAssumption DEF Ind, TypeOK, Threads, Runners, Instants, Finish
<1> USE DEF given, mode, main, Scheduling, Live, At, MainStarts
<1>1. TypeOK'
  <2>1. schedules \in Seq({"always", "timed"}) /\ next' \in 1 .. Len(schedules) + 1
    OBVIOUS
  <2>2. NextIn(StopTimes) \in Finish
    BY NextIsOne
  <2>3. arg' \in [Threads -> Finish]
    BY <2>2
  <2>4. /\ pc' = [pc EXCEPT !["main"] = "test"]
        /\ UNCHANGED <<now, given, mode, dead, met, due, spc>>
    OBVIOUS
  <2> HIDE DEF MainStarts
  <2> QED BY <2>1, <2>3, <2>4
<1>2. Scheduled'
  BY DEF Scheduled
<1>3. StartsOnce'
  BY DEF StartsOnce, Starting, Scheduled
<1>4. Stopped'
  BY DEF Stopped, StartsOnce, Starting, Scheduled
<1> QED BY <1>1, <1>2, <1>3, <1>4

LEMMA MainSkipsStep == ASSUME Ind, MainSkips PROVE Ind'
<1> USE ModeAssumption DEF Ind, TypeOK, Threads, Runners, Instants, Finish
<1> USE DEF given, mode, main, Scheduling, Live, At, MainSkips
<1>1. TypeOK'
  BY DEF Scheduled, StartsOnce
<1>2. Scheduled'
  BY DEF Scheduled
<1>3. StartsOnce'
  BY DEF StartsOnce, Starting, Scheduled
<1>4. Stopped'
  BY DEF Stopped, StartsOnce, Starting, Scheduled
<1> QED BY <1>1, <1>2, <1>3, <1>4

LEMMA JobRunsStep == ASSUME Ind, JobRuns PROVE Ind'
<1> USE ModeAssumption DEF Ind, TypeOK, Threads, Runners, Instants, Finish
<1> USE DEF given, mode, main, Scheduling, Live, At, JobRuns
<1>1. TypeOK'
  <2>1. NextIn(StopTimes) \in Finish
    BY NextIsOne
  <2> QED BY <2>1
<1>2. Scheduled'
  BY DEF Scheduled
<1>3. StartsOnce'
  BY DEF StartsOnce, Starting, Scheduled
<1>4. Stopped'
  BY DEF Stopped, StartsOnce, Starting, Scheduled
<1> QED BY <1>1, <1>2, <1>3, <1>4

LEMMA JobMisfiresStep == ASSUME Ind, JobMisfires PROVE Ind'
<1> USE ModeAssumption DEF Ind, TypeOK, Threads, Runners, Instants, Finish
<1> USE DEF given, mode, main, Scheduling, Live, At, JobMisfires
<1>1. TypeOK'
  BY DEF Scheduled, StartsOnce
<1>2. Scheduled'
  BY DEF Scheduled
<1>3. StartsOnce'
  BY DEF StartsOnce, Starting, Scheduled
<1>4. Stopped'
  BY DEF Stopped, StartsOnce, Starting, Scheduled
<1> QED BY <1>1, <1>2, <1>3, <1>4

-----------------------------------------------------------------------------
(* executor.start in a thread.                                             *)
LEMMA StartTestsStep == ASSUME Ind, NEW t \in Threads, StartTests(t) PROVE Ind'
<1> USE ModeAssumption DEF Ind, TypeOK, Threads, Runners, Instants, Finish
<1> USE DEF given, mode, main, Scheduling, Live, At, StartTests
<1>1. TypeOK'
  BY DEF Scheduled, StartsOnce
<1>2. Scheduled'
  BY DEF Scheduled
<1>3. StartsOnce'
  BY DEF StartsOnce, Starting, Scheduled
<1>4. Stopped'
  BY DEF Stopped, StartsOnce, Starting, Scheduled
<1> QED BY <1>1, <1>2, <1>3, <1>4

LEMMA InitializeStep == ASSUME Ind, NEW t \in Threads, Initialize(t) PROVE Ind'
<1> USE ModeAssumption DEF Ind, TypeOK, Threads, Runners, Instants, Finish
<1> USE DEF given, mode, main, Scheduling, Live, At, Initialize
<1>1. TypeOK'
  BY DEF Scheduled, StartsOnce
<1>2. Scheduled'
  BY DEF Scheduled
<1>3. StartsOnce'
  BY DEF StartsOnce, Starting, Scheduled
<1>4. Stopped'
  BY DEF Stopped, StartsOnce, Starting, Scheduled
<1> QED BY <1>1, <1>2, <1>3, <1>4

LEMMA StartRaisesStep == ASSUME Ind, NEW t \in Threads, StartRaises(t) PROVE Ind'
<1> USE ModeAssumption DEF Ind, TypeOK, Threads, Runners, Instants, Finish
<1> USE DEF given, mode, main, Scheduling, Live, At, StartRaises
<1>1. TypeOK'
  BY DEF Scheduled, StartsOnce
<1>2. Scheduled'
  BY DEF Scheduled
<1>3. StartsOnce'
  BY DEF StartsOnce, Starting, Scheduled
<1>4. Stopped'
  BY DEF Stopped, StartsOnce, Starting, Scheduled
<1> QED BY <1>1, <1>2, <1>3, <1>4

LEMMA StartSetsFinishStep == ASSUME Ind, NEW t \in Threads, StartSetsFinish(t) PROVE Ind'
<1> USE ModeAssumption DEF Ind, TypeOK, Threads, Runners, Instants, Finish
<1> USE DEF given, mode, main, Scheduling, Live, At, StartSetsFinish
<1>1. TypeOK'
  BY DEF Scheduled, StartsOnce
<1>2. Scheduled'
  BY DEF Scheduled
<1>3. StartsOnce'
  BY DEF StartsOnce, Starting, Scheduled
<1>4. Stopped'
  BY DEF Stopped, StartsOnce, Starting, Scheduled
<1> QED BY <1>1, <1>2, <1>3, <1>4

LEMMA StartSetsRunningStep == ASSUME Ind, NEW t \in Threads, StartSetsRunning(t) PROVE Ind'
<1> USE ModeAssumption DEF Ind, TypeOK, Threads, Runners, Instants, Finish
<1> USE DEF given, mode, main, Scheduling, Live, At, StartSetsRunning
<1>1. TypeOK'
  BY DEF Scheduled, StartsOnce
<1>2. Scheduled'
  BY DEF Scheduled
<1>3. StartsOnce'
  BY DEF StartsOnce, Starting, Scheduled
<1>4. Stopped'
  BY DEF Stopped, StartsOnce, Starting, Scheduled
<1> QED BY <1>1, <1>2, <1>3, <1>4

LEMMA StartSpawnsStep == ASSUME Ind, NEW t \in Threads, StartSpawns(t) PROVE Ind'
<1> USE ModeAssumption DEF Ind, TypeOK, Threads, Runners, Instants, Finish
<1> USE DEF given, mode, main, Scheduling, Live, At, StartSpawns
<1>1. TypeOK'
  <2>1. runner' \in 1 .. 2 /\ runner' = runner + 1
    BY DEF StartsOnce, Starting
  <2>2. rpc' = [rpc EXCEPT ![runner'] = "begin"]
    BY <2>1
  <2>3. rpc' \in [Runners -> {"none", "begin", "check", "routine", "ended", "died"}]
    BY <2>1, <2>2
  <2>4. \A q \in Runners : rpc'[q] = "none" <=> q > runner'
    BY <2>1, <2>2
  <2>5. /\ pc' \in [Threads -> {"idle", "test", "init", "finish", "running", "spawn", "compare", "assign"}]
        /\ UNCHANGED <<now, given, isRunning, finishTime, listening, main, due, arg, spc>>
    OBVIOUS
  <2> HIDE DEF StartSpawns
  <2> QED BY <2>1, <2>3, <2>4, <2>5
<1>2. Scheduled'
  BY DEF Scheduled
<1>3. StartsOnce'
  BY DEF StartsOnce, Starting, Scheduled
<1>4. Stopped'
  BY DEF Stopped, StartsOnce, Starting, Scheduled
<1> QED BY <1>1, <1>2, <1>3, <1>4

LEMMA UpdateStep == ASSUME Ind, NEW t \in Threads, Update(t) PROVE Ind'
<1> USE ModeAssumption DEF Ind, TypeOK, Threads, Runners, Instants, Finish
<1> USE DEF given, mode, main, Scheduling, Live, At, Update
<1>1. TypeOK'
  BY DEF Scheduled, StartsOnce
<1>2. Scheduled'
  BY DEF Scheduled
<1>3. StartsOnce'
  BY DEF StartsOnce, Starting, Scheduled
<1>4. Stopped'
  BY DEF Stopped, StartsOnce, Starting, Scheduled
<1> QED BY <1>1, <1>2, <1>3, <1>4

LEMMA UpdateAssignsStep == ASSUME Ind, NEW t \in Threads, UpdateAssigns(t) PROVE Ind'
<1> USE ModeAssumption DEF Ind, TypeOK, Threads, Runners, Instants, Finish
<1> USE DEF given, mode, main, Scheduling, Live, At, UpdateAssigns
<1>1. TypeOK'
  BY DEF Scheduled, StartsOnce
<1>2. Scheduled'
  BY DEF Scheduled
<1>3. StartsOnce'
  BY DEF StartsOnce, Starting, Scheduled
<1>4. Stopped'
  BY DEF Stopped, StartsOnce, Starting, Scheduled
<1> QED BY <1>1, <1>2, <1>3, <1>4

-----------------------------------------------------------------------------
(* A runner.                                                               *)
LEMMA RunBeginsStep == ASSUME Ind, NEW r \in Runners, RunBegins(r) PROVE Ind'
<1> USE ModeAssumption DEF Ind, TypeOK, Threads, Runners, Instants, Finish
<1> USE DEF given, mode, main, Scheduling, Live, At, RunBegins
<1>1. TypeOK'
  BY DEF Scheduled, StartsOnce
<1>2. Scheduled'
  BY DEF Scheduled
<1>3. StartsOnce'
  BY DEF StartsOnce, Starting, Scheduled
<1>4. Stopped'
  BY DEF Stopped, StartsOnce, Starting, Scheduled
<1> QED BY <1>1, <1>2, <1>3, <1>4

LEMMA CheckStopStep == ASSUME Ind, NEW r \in Runners, CheckStop(r) PROVE Ind'
<1> USE ModeAssumption DEF Ind, TypeOK, Threads, Runners, Instants, Finish
<1> USE DEF given, mode, main, Scheduling, Live, At, CheckStop
<1>1. TypeOK'
  BY DEF Scheduled, StartsOnce
<1>2. Scheduled'
  BY DEF Scheduled
<1>3. StartsOnce'
  BY DEF StartsOnce, Starting, Scheduled
<1>4. Stopped'
  BY DEF Stopped, StartsOnce, Starting, Scheduled
<1> QED BY <1>1, <1>2, <1>3, <1>4

LEMMA RoutineStep == ASSUME Ind, NEW r \in Runners, Routine(r) PROVE Ind'
<1> USE ModeAssumption DEF Ind, TypeOK, Threads, Runners, Instants, Finish
<1> USE DEF given, mode, main, Scheduling, Live, At, Routine
<1>1. TypeOK'
  BY DEF Scheduled, StartsOnce
<1>2. Scheduled'
  BY DEF Scheduled
<1>3. StartsOnce'
  BY DEF StartsOnce, Starting, Scheduled
<1>4. Stopped'
  BY DEF Stopped, StartsOnce, Starting, Scheduled
<1> QED BY <1>1, <1>2, <1>3, <1>4

-----------------------------------------------------------------------------
(* clean_stop.                                                             *)
LEMMA CleanStopStep == ASSUME Ind, CleanStop PROVE Ind'
<1> USE ModeAssumption DEF Ind, TypeOK, Threads, Runners, Instants, Finish
<1> USE DEF given, mode, main, Scheduling, Live, At, CleanStop
<1>1. TypeOK'
  BY DEF Scheduled, StartsOnce
<1>2. Scheduled'
  BY DEF Scheduled
<1>3. StartsOnce'
  BY DEF StartsOnce, Starting, Scheduled
<1>4. Stopped'
  BY DEF Stopped, StartsOnce, Starting, Scheduled
<1> QED BY <1>1, <1>2, <1>3, <1>4

LEMMA ShutdownClearsStep == ASSUME Ind, ShutdownClears PROVE Ind'
<1> USE ModeAssumption DEF Ind, TypeOK, Threads, Runners, Instants, Finish
<1> USE DEF given, mode, main, Scheduling, Live, At, ShutdownClears
<1>1. TypeOK'
  BY DEF Scheduled, StartsOnce
<1>2. Scheduled'
  BY DEF Scheduled
<1>3. StartsOnce'
  BY DEF StartsOnce, Starting, Scheduled
<1>4. Stopped'
  BY DEF Stopped, StartsOnce, Starting, Scheduled
<1> QED BY <1>1, <1>2, <1>3, <1>4

LEMMA ShutdownFinishesStep == ASSUME Ind, ShutdownFinishes PROVE Ind'
<1> USE ModeAssumption DEF Ind, TypeOK, Threads, Runners, Instants, Finish
<1> USE DEF given, mode, main, Scheduling, Live, At, ShutdownFinishes
<1>1. TypeOK'
  BY DEF Scheduled, StartsOnce
<1>2. Scheduled'
  BY DEF Scheduled
<1>3. StartsOnce'
  BY DEF StartsOnce, Starting, Scheduled
<1>4. Stopped'
  BY DEF Stopped, StartsOnce, Starting, Scheduled
<1> QED BY <1>1, <1>2, <1>3, <1>4

LEMMA ShutdownStopsResponsesStep == ASSUME Ind, ShutdownStopsResponses PROVE Ind'
<1> USE ModeAssumption DEF Ind, TypeOK, Threads, Runners, Instants, Finish
<1> USE DEF given, mode, main, Scheduling, Live, At, ShutdownStopsResponses
<1>1. TypeOK'
  BY DEF Scheduled, StartsOnce
<1>2. Scheduled'
  BY DEF Scheduled
<1>3. StartsOnce'
  BY DEF StartsOnce, Starting, Scheduled
<1>4. Stopped'
  BY DEF Stopped, StartsOnce, Starting, Scheduled
<1> QED BY <1>1, <1>2, <1>3, <1>4

LEMMA ShutdownJoinsStep == ASSUME Ind, ShutdownJoins PROVE Ind'
<1> USE ModeAssumption DEF Ind, TypeOK, Threads, Runners, Instants, Finish
<1> USE DEF given, mode, main, Scheduling, Live, At, ShutdownJoins
<1>1. TypeOK'
  BY DEF Scheduled, StartsOnce
<1>2. Scheduled'
  BY DEF Scheduled
<1>3. StartsOnce'
  BY DEF StartsOnce, Starting, Scheduled
<1>4. Stopped'
  BY DEF Stopped, StartsOnce, Starting, Scheduled
<1> QED BY <1>1, <1>2, <1>3, <1>4

-----------------------------------------------------------------------------
LEMMA StepInvariant == Ind /\ [Next]_vars => Ind'
<1> SUFFICES ASSUME Ind, [Next]_vars PROVE Ind'
  OBVIOUS
<1>1. CASE UNCHANGED vars
  <2> USE <1>1 DEF vars, given, mode, main, Ind, Scheduling, Live
  <2>1. TypeOK'
    BY DEF TypeOK
  <2>2. Scheduled' /\ StartsOnce' /\ Stopped'
    BY DEF Scheduled, StartsOnce, Stopped
  <2> QED BY <2>1, <2>2
<1>2. CASE \E t \in Threads : Starter(t)
  BY <1>2, StartTestsStep, InitializeStep, StartRaisesStep, StartSetsFinishStep,
     StartSetsRunningStep, StartSpawnsStep, UpdateStep, UpdateAssignsStep DEF Starter
<1>3. CASE \E r \in Runners : Runner(r)
  BY <1>3, RunBeginsStep, CheckStopStep, RoutineStep DEF Runner
<1>4. CASE CleanStop \/ Shutdown
  BY <1>4, CleanStopStep, ShutdownClearsStep, ShutdownFinishesStep,
     ShutdownStopsResponsesStep, ShutdownJoinsStep DEF Shutdown
<1>5. CASE Tick \/ MainStarts \/ MainSkips \/ JobRuns \/ JobMisfires
  BY <1>5, TickStep, MainStartsStep, MainSkipsStep, JobRunsStep, JobMisfiresStep
<1> QED BY <1>1, <1>2, <1>3, <1>4, <1>5 DEF Next

LEMMA Invariant == Spec => []Ind
BY InitInvariant, StepInvariant, PTL DEF Spec

(* Until it is shut down a mode has one runner thread at a time, however   *)
(* often its schedules start it, and it has two in all; the start-up loop  *)
(* is over before a job or clean_stop comes; and what clean_stop has done  *)
(* stays done, unless it met a job in executor.start                       *)
(* (mode_executor.py:19, modes/base.py:19-21, 32-40, 55-57).               *)
THEOREM RunsOnce == Spec => []Inv
<1>1. Ind => Inv
  BY IndOneRunner DEF Ind, Inv
<1> QED BY Invariant, <1>1, PTL

(* A mode that was shut down is not running, does not listen and has no    *)
(* runner, unless a job was inside executor.start when clean_stop came     *)
(* (main.py:49, modes/base.py:32-40).                                      *)
THEOREM StaysStopped == Spec => []StoppedForGood
<1>1. Ind => StoppedForGood
  BY DEF Ind, Stopped, StoppedForGood
<1> QED BY Invariant, <1>1, PTL

(* Starting a running mode never takes time from it                        *)
(* (modes/base.py:19-21).                                                  *)
THEOREM FinishGrows == Spec => FinishOnlyGrows
<1>1. ASSUME Ind, [Next]_vars
      PROVE  [isRunning /\ isRunning' /\ spc = "idle" /\ finishTime' # finishTime =>
                finishTime # None /\ finishTime' > finishTime]_vars
  <2> SUFFICES ASSUME Next, isRunning, spc = "idle", finishTime' # finishTime
               PROVE  finishTime # None /\ finishTime' > finishTime
    BY <1>1
  <2>1. CASE Tick \/ MainStarts \/ MainSkips \/ JobRuns \/ JobMisfires \/ CleanStop \/ Shutdown
    BY <2>1 DEF Tick, MainStarts, MainSkips, JobRuns, JobMisfires, CleanStop, Shutdown, ShutdownClears,
                ShutdownFinishes, ShutdownStopsResponses, ShutdownJoins, mode
  <2>2. ASSUME NEW r \in Runners, Runner(r) PROVE FALSE
    BY <2>2 DEF Runner, RunBegins, CheckStop, Routine
  <2>3. ASSUME NEW t \in Threads, Starter(t) PROVE finishTime # None /\ finishTime' > finishTime
    <3>1. CASE StartSetsFinish(t)
      BY <1>1, <3>1 DEF StartSetsFinish, At, Ind, StartsOnce
    <3>2. CASE UpdateAssigns(t)
      <4>1. pc[t] = "assign" /\ finishTime' = arg[t] /\ finishTime # None /\ finishTime < arg[t]
        BY <1>1, <3>2 DEF UpdateAssigns, At, Ind, StartsOnce
      <4> QED BY <4>1
    <3>3. CASE StartTests(t) \/ Initialize(t) \/ StartRaises(t) \/ StartSetsRunning(t) \/ StartSpawns(t) \/ Update(t)
      BY <3>3 DEF StartTests, Initialize, StartRaises, StartSetsRunning, StartSpawns, Update, mode
    <3> QED BY <2>3, <3>1, <3>2, <3>3 DEF Starter
  <2> QED BY <2>1, <2>2, <2>3 DEF Next
<1> QED BY Invariant, <1>1, PTL DEF Spec, FinishOnlyGrows
=============================================================================
