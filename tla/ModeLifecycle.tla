---------------------------- MODULE ModeLifecycle ----------------------------
(***************************************************************************)
(* The life of one mode: modes/base.py driven by mode_executor.py, from    *)
(* main.py's start-up loop, from the scheduler's jobs, which run in a      *)
(* thread pool, and from clean_stop, the signal handler.  The attributes   *)
(* is_running, finish_time and runner_thread are shared by all of them and *)
(* nothing locks them.                                                     *)
(*                                                                         *)
(* A cron expression is the set of instants it matches.  APScheduler is    *)
(* external: a job that is due runs once (coalesce, max_instances), late   *)
(* by less than its window's length (misfire_grace_time) or not at all.    *)
(***************************************************************************)
EXTENDS Integers, Sequences, FiniteSets

CONSTANTS Configs,    \* "schedules" lists: sequences of "always" and "timed"
          StartTimes, StopTimes,  \* what the timed schedule's crons match
          MaxTime,    \* bound: the last instant
          None

Threads == {"main", "job"}   \* that call executor.start
Runners == 1 .. 2            \* no third one is ever started: see TypeOK
Instants == 0 .. MaxTime

ASSUME ModeAssumption ==
  /\ Configs \subseteq Seq({"always", "timed"}) /\ MaxTime \in Nat
  /\ StartTimes \subseteq Nat /\ StopTimes \subseteq Nat
  /\ \A t \in Instants : (\E s \in StartTimes : s > t) /\ (\E s \in StopTimes : s > t)
  /\ None \notin StopTimes \cup Instants

VARIABLES now,
          schedules, ready, blocks, \* fixed: its schedules, is it ready, may
                          \* its routine wait for a client without a timeout
          isRunning, finishTime, rpc, runner,  \* the mode, its runner threads
          listening,      \* its trigger responses listen
          next, dead,     \* start-up loop: next schedule; main has raised
          due,            \* a job is due
          pc, arg,        \* per thread: its place in executor.start, its argument
          spc,            \* clean_stop's place in shutdown
          met             \* history: did clean_stop meet a job in start?

mode == <<isRunning, finishTime, rpc, runner, listening>>
main == <<next, dead, met>>
given == <<schedules, ready, blocks>>
vars == <<now, given, mode, main, due, pc, arg, spc>>

NextIn(times) == CHOOSE s \in times : s > now /\ \A u \in times : u > now => s <= u

InWindow(t) == \E s \in StartTimes : s <= t /\ \A e \in StopTimes : e > s => e > t

Finish == StopTimes \cup Instants \cup {None}

(* At most two runners: the one the mode is started with, and one of a job *)
(* that was in executor.start when clean_stop came.                        *)
TypeOK ==
  /\ now \in Instants /\ schedules \in Configs /\ ready \in BOOLEAN /\ blocks \in BOOLEAN
  /\ isRunning \in BOOLEAN /\ finishTime \in Finish /\ listening \in BOOLEAN
  /\ runner \in 0 .. 2
  /\ rpc \in [Runners -> {"none", "begin", "check", "routine", "ended", "died"}]
  /\ \A r \in Runners : rpc[r] = "none" <=> r > runner
  /\ next \in 1 .. Len(schedules) + 1 /\ dead \in BOOLEAN /\ due \in BOOLEAN
  /\ pc \in [Threads -> {"idle", "test", "init", "finish", "running", "spawn", "compare", "assign"}]
  /\ arg \in [Threads -> Finish]
  /\ met \in BOOLEAN /\ spc \in {"idle", "clear", "finish", "responses", "join", "done"}

Init ==
  /\ now \in Instants /\ schedules \in Configs /\ ready \in BOOLEAN /\ blocks \in BOOLEAN
  /\ isRunning = FALSE /\ finishTime = None /\ listening = FALSE
  /\ rpc = [r \in Runners |-> "none"] /\ runner = 0
  /\ next = 1 /\ dead = FALSE /\ due = FALSE
  /\ pc = [t \in Threads |-> "idle"] /\ arg = [t \in Threads |-> None]
  /\ spc = "idle" /\ met = FALSE

Scheduling == next > Len(schedules) /\ ~dead /\ pc["main"] = "idle"
Timed == \E i \in DOMAIN schedules : schedules[i] = "timed"

-----------------------------------------------------------------------------
(* Time goes on, and a job becomes due once the scheduler runs.  Crons     *)
(* count minutes: the start-up loop and executor.start take less than one. *)
Tick ==
  /\ now < MaxTime
  /\ next > Len(schedules) \/ dead
  /\ \A t \in Threads : pc[t] = "idle"
  /\ now' = now + 1
  /\ due' = IF Scheduling /\ spc = "idle" /\ Timed /\ now' \in StartTimes THEN TRUE ELSE due
  /\ UNCHANGED <<given, mode, main, pc, arg, spc>>

(* main's loop: an "always" schedule calls start(), a timed one start(stop)*)
(* if its next stop comes no later than its next start.                    *)
MainStarts ==
  /\ next <= Len(schedules) /\ ~dead /\ pc["main"] = "idle"
  /\ \/ schedules[next] = "always" /\ arg' = [arg EXCEPT !["main"] = None]
     \/ /\ schedules[next] = "timed" /\ NextIn(StartTimes) >= NextIn(StopTimes)
        /\ arg' = [arg EXCEPT !["main"] = NextIn(StopTimes)]
  /\ pc' = [pc EXCEPT !["main"] = "test"]
  /\ next' = next + 1
  /\ UNCHANGED <<now, given, mode, dead, met, due, spc>>

MainSkips ==
  /\ next <= Len(schedules) /\ ~dead /\ pc["main"] = "idle"
  /\ schedules[next] = "timed" /\ NextIn(StartTimes) < NextIn(StopTimes)
  /\ next' = next + 1
  /\ UNCHANGED <<now, given, mode, dead, met, due, pc, arg, spc>>

(* A due job runs, or is dropped after its grace time.                     *)
JobRuns ==
  /\ due /\ spc = "idle" /\ pc["job"] = "idle" /\ InWindow(now)
  /\ due' = FALSE
  /\ arg' = [arg EXCEPT !["job"] = NextIn(StopTimes)]
  /\ pc' = [pc EXCEPT !["job"] = "test"]
  /\ UNCHANGED <<now, given, mode, main, spc>>

JobMisfires ==
  /\ due /\ (spc # "idle" \/ ~InWindow(now))
  /\ due' = FALSE
  /\ UNCHANGED <<now, given, mode, main, pc, arg, spc>>

-----------------------------------------------------------------------------
(* ModeExecutor.start in thread t, and the BaseMode methods it calls.      *)
At(t, from, to) == pc[t] = from /\ pc' = [pc EXCEPT ![t] = to]

StartAgain(t) ==                 \* mutant of StartTests: is_running not tested
  /\ At(t, "test", "init")
  /\ UNCHANGED <<now, given, mode, main, due, arg, spc>>

StartTests(t) ==
  /\ At(t, "test", IF ~isRunning THEN "init"
                   ELSE IF arg[t] # None THEN "compare" ELSE "idle")
  /\ UNCHANGED <<now, given, mode, main, due, arg, spc>>

Initialize(t) ==
  /\ ready
  /\ At(t, "init", "finish")
  /\ listening' = TRUE
  /\ UNCHANGED <<now, given, isRunning, finishTime, rpc, runner, main, due, arg, spc>>

(* "Unable to initialize": fatal in main, logged by the scheduler.         *)
StartRaises(t) ==
  /\ ~ready
  /\ At(t, "init", "idle")
  /\ dead' = (dead \/ t = "main")
  /\ UNCHANGED <<now, given, mode, next, met, due, arg, spc>>

StartSetsFinish(t) ==
  /\ At(t, "finish", "running")
  /\ finishTime' = arg[t]
  /\ UNCHANGED <<now, given, isRunning, rpc, runner, listening, main, due, arg, spc>>

StartSetsRunning(t) ==
  /\ At(t, "running", "spawn")
  /\ isRunning' = TRUE
  /\ UNCHANGED <<now, given, finishTime, rpc, runner, listening, main, due, arg, spc>>

StartSpawns(t) ==
  /\ At(t, "spawn", "idle")
  /\ runner' = runner + 1
  /\ rpc' = [rpc EXCEPT ![runner + 1] = "begin"]
  /\ UNCHANGED <<now, given, isRunning, finishTime, listening, main, due, arg, spc>>

UpdateAnyway(t) ==               \* mutant of Update: not compared
  /\ At(t, "compare", "assign")
  /\ UNCHANGED <<now, given, mode, main, due, arg, spc>>

(* update_finish_time: `None < finish_time' raises, in main fatally.       *)
Update(t) ==
  /\ At(t, "compare", IF finishTime # None /\ finishTime < arg[t] THEN "assign" ELSE "idle")
  /\ dead' = (dead \/ (t = "main" /\ finishTime = None))
  /\ UNCHANGED <<now, given, mode, next, met, due, arg, spc>>

UpdateAssigns(t) ==
  /\ At(t, "assign", "idle")
  /\ finishTime' = arg[t]
  /\ UNCHANGED <<now, given, isRunning, rpc, runner, listening, main, due, arg, spc>>

Starter(t) == \/ StartTests(t) \/ Initialize(t) \/ StartRaises(t) \/ StartSetsFinish(t)
              \/ StartSetsRunning(t) \/ StartSpawns(t) \/ Update(t) \/ UpdateAssigns(t)

-----------------------------------------------------------------------------
(* run() in runner thread r; pre_routine or streamer.start may raise.      *)
RunBegins(r) ==
  /\ rpc[r] = "begin"
  /\ \E to \in {"check", "died"} : rpc' = [rpc EXCEPT ![r] = to]
  /\ UNCHANGED <<now, given, isRunning, finishTime, runner, listening, main, due, pc, arg, spc>>

RunForEver(r) ==                 \* mutant of CheckStop: the time is not looked at
  /\ rpc[r] = "check"
  /\ rpc' = [rpc EXCEPT ![r] = "routine"]
  /\ UNCHANGED <<now, given, isRunning, finishTime, runner, listening, main, due, pc, arg, spc>>

CheckStop(r) ==
  /\ rpc[r] = "check"
  /\ rpc' = [rpc EXCEPT ![r] = IF finishTime = None \/ finishTime > now THEN "routine" ELSE "ended"]
  /\ UNCHANGED <<now, given, isRunning, finishTime, runner, listening, main, due, pc, arg, spc>>

Routine(r) ==
  /\ rpc[r] = "routine"
  /\ rpc' = [rpc EXCEPT ![r] = "check"]
  /\ UNCHANGED <<now, given, isRunning, finishTime, runner, listening, main, due, pc, arg, spc>>

Runner(r) == RunBegins(r) \/ CheckStop(r) \/ Routine(r)

-----------------------------------------------------------------------------
(* clean_stop: the scheduler takes no more jobs but does not wait for one  *)
(* that runs; then shutdown().                                             *)
CleanStop ==
  /\ Scheduling /\ spc = "idle" /\ spc' = "clear"
  /\ met' = (pc["job"] # "idle")
  /\ UNCHANGED <<now, given, mode, next, dead, due, pc, arg>>

ShutdownClearsNot ==             \* mutant of ShutdownClears
  /\ spc = "clear" /\ spc' = "finish"
  /\ UNCHANGED <<now, given, mode, main, due, pc, arg>>

ShutdownClears ==
  /\ spc = "clear" /\ spc' = "finish"
  /\ isRunning' = FALSE
  /\ UNCHANGED <<now, given, finishTime, rpc, runner, listening, main, due, pc, arg>>

ShutdownFinishes ==
  /\ spc = "finish" /\ spc' = "responses"
  /\ finishTime' = now
  /\ UNCHANGED <<now, given, isRunning, rpc, runner, listening, main, due, pc, arg>>

(* The responses are stopped, and the mode's own _cleanup.                 *)
ShutdownStopsResponses ==
  /\ spc = "responses" /\ spc' = "join"
  /\ listening' = FALSE
  /\ UNCHANGED <<now, given, isRunning, finishTime, rpc, runner, main, due, pc, arg>>

(* runner_thread is joined; the streamer is stopped if it has no outputs.  *)
ShutdownJoins ==
  /\ spc = "join" /\ spc' = "done"
  /\ \A r \in Runners : r = runner => rpc[r] \in {"ended", "died"}
  /\ UNCHANGED <<now, given, mode, main, due, pc, arg>>

Shutdown == ShutdownClears \/ ShutdownFinishes \/ ShutdownStopsResponses \/ ShutdownJoins

Next == \/ Tick \/ MainStarts \/ MainSkips \/ JobRuns \/ JobMisfires
        \/ \E t \in Threads : Starter(t)
        \/ \E r \in Runners : Runner(r)
        \/ CleanStop \/ Shutdown

(* A routine that waits for a client (accept() of network_serving.py:124   *)
(* and network_trigger.py:79) may wait for ever.  Shutdown's _cleanup      *)
(* wakes it and closes its socket, but not that of a job it met.           *)
Waits == blocks /\ (spc \notin {"join", "done"} \/ met)

(* Time passes and every thread that can run does.                         *)
Fairness == /\ WF_vars(Tick)
            /\ WF_vars(MainStarts \/ MainSkips) /\ WF_vars(JobRuns \/ JobMisfires)
            /\ \A t \in Threads : WF_vars(Starter(t))
            /\ \A r \in Runners : WF_vars(RunBegins(r) \/ CheckStop(r) \/ (~Waits /\ Routine(r)))
            /\ WF_vars(Shutdown)

Spec == Init /\ [][Next]_vars /\ Fairness

-----------------------------------------------------------------------------
Live == {r \in Runners : rpc[r] \in {"begin", "check", "routine"}}

(* Until it is shut down a mode has one runner thread, however often its   *)
(* schedules start it (mode_executor.py:19, modes/base.py:55-57).          *)
OneRunner == spc = "idle" => Cardinality(Live) <= 1

(* Jobs and clean_stop come when the start-up loop is over.                *)
Scheduled == due \/ pc["job"] # "idle" \/ spc # "idle" => Scheduling

(* Before clean_stop a mode that is being started has no runner yet, one   *)
(* that runs is not started again, and one whose finish time is being      *)
(* moved gets a later one; after it only the job it met may still start.   *)
Starting == {"init", "finish", "running", "spawn"}
StartsOnce ==
  /\ \A t \in Threads :
       /\ pc[t] \in {"init", "finish", "running"} => ~isRunning
       /\ pc[t] \in {"compare", "assign"} => arg[t] # None
       /\ pc[t] = "assign" /\ spc \in {"idle", "clear", "finish"} => finishTime # None /\ finishTime < arg[t]
       /\ pc[t] \in Starting /\ spc \in {"idle", "clear"} => runner = 0
       /\ pc[t] = "spawn" /\ spc \in {"idle", "clear"} => isRunning
       /\ pc[t] \in Starting \cup {"test"} => runner <= 1
  /\ spc \in {"idle", "clear"} => runner <= 1 /\ (runner = 1 => isRunning)

(* What clean_stop has done, when it met no job in executor.start.         *)
Stopped ==
  spc # "idle" /\ ~met =>
    /\ pc["job"] = "idle" /\ runner <= 1
    /\ spc # "clear" => ~isRunning
    /\ spc \in {"join", "done"} => ~listening
    /\ spc = "done" => Live = {}

(* Types, with two runner threads in all, one of them at a time, and what  *)
(* start() and clean_stop rely on (mode_executor.py:19,                    *)
(* modes/base.py:19-21, 32-40, 55-57).                                     *)
Inv == TypeOK /\ OneRunner /\ Scheduled /\ StartsOnce /\ Stopped

(* Starting a running mode never takes time from it: its finish time only  *)
(* grows, and stays open if it is (modes/base.py:19-21).                   *)
FinishOnlyGrows ==
  [][isRunning /\ isRunning' /\ spc = "idle" /\ finishTime' # finishTime =>
       finishTime # None /\ finishTime' > finishTime]_vars

(* A mode whose time is up ends its runner, though a late job may give it  *)
(* more (modes/base.py:59-63, 74); but a runner that waits for a client    *)
(* only ends when one comes, or when a shutdown has come to _cleanup.      *)
EndsInTime == (finishTime # None /\ finishTime < now) ~>
                \/ Live = {} \/ finishTime = None \/ finishTime >= now
                \/ Waits /\ \E r \in Runners : rpc[r] = "routine"

(* A mode that was shut down is not running and has no runner, unless a    *)
(* job was inside executor.start when clean_stop came: the scheduler's     *)
(* shutdown does not wait for it (main.py:49, modes/base.py:32-40).        *)
StoppedForGood == spc = "done" /\ ~met => ~isRunning /\ ~listening /\ Live = {}

Died == \E r \in Runners : rpc[r] = "died"
Quiet == Scheduling /\ spc = "idle" /\ ~due /\ pc["job"] = "idle" /\ ready /\ ~Died

(* "The modes also run according to a certain schedule defined by a start  *)
(* and stop cron condition" (README.md:28): between them the mode runs.    *)
RunsOnSchedule == Quiet /\ Timed /\ InWindow(now) => Live # {}
=============================================================================
