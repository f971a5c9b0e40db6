--------------------------- MODULE TriggerResponse ---------------------------
(***************************************************************************)
(* trigger_responses/base.py and record_to_file.py: modes trigger and      *)
(* detrigger a response, a listener thread carries it out, and the modes'  *)
(* executors start and stop the listening.  No lock protects any of this:  *)
(* every read and write below is a step of its own wherever another thread *)
(* may come in between.                                                    *)
(*                                                                         *)
(* A threading.Event is its flag.  set() also wakes the threads blocked in *)
(* wait(), which return although the flag may be cleared meanwhile.        *)
(***************************************************************************)
EXTENDS Integers, FiniteSets

CONSTANTS Modes,        \* modes configured with this response
          Callers,      \* threads that call trigger() and detrigger()
          UseDetrigger,
          MaxListeners, \* bound: listener threads started
          MaxAsks       \* bound: how far asks is counted

Listeners == 1 .. MaxListeners

ASSUME TriggerAssumption ==
  /\ UseDetrigger \in BOOLEAN
  /\ MaxListeners \in Nat /\ MaxAsks \in Nat

VARIABLES records,      \* RecordToFile, or a response that simply runs; fixed
          listening, triggerEvent, detriggerEvent, isRunning,
          cooling,      \* time() - last_trigger_time < cooldown_period
          isTriggered,  \* RecordToFile.is_triggered
          initialised,  \* between _initialize and _cleanup_trigger_response
          lpc, started, \* listener threads, how many were started (the last
                        \* one is trigger_listener)
          tpc,          \* per caller: its place in trigger() or detrigger()
          mpc,          \* per mode: its executor's start and stop
          asks,         \* history: triggers and stops no response answered
          raised,       \* history: did a recording fail half way?
          discarded     \* history: was the event, when last it was cleared by
                        \* a detrigger(), set and has not been set since?

flags == <<listening, triggerEvent, detriggerEvent, isRunning>>
record == <<records, isTriggered, initialised>>
count == <<asks, raised, discarded>>
vars == <<flags, cooling, record, lpc, started, tpc, mpc, count>>

(* Where a listener is: "waiting" and "detriggerWait" are blocked in       *)
(* Event.wait(), "woken" and "detriggered" have returned from it.          *)
Body == {"respond", "claim", "open", "detriggerTest", "detriggerWait", "detriggered", "after"}
Recording == Body \ {"respond", "claim"}
ListenerStates == {"none", "loop", "wait", "waiting", "woken", "cool", "warm", "finish", "ended"} \cup Body

(* The last listener started is the one a stop joins.                      *)
TypeOK ==
  /\ \A f \in {listening, triggerEvent, detriggerEvent, isRunning, cooling,
               records, isTriggered, initialised, raised, discarded} : f \in BOOLEAN
  /\ lpc \in [Listeners -> ListenerStates] /\ started \in 0 .. MaxListeners
  /\ \A l \in Listeners : l > started <=> lpc[l] = "none"
  /\ tpc \in [Callers -> {"idle", "clear", "set", "run", "unset", "detrigger", "unrun"}]
  /\ mpc \in [Modes -> {"off", "on", "stop", "join", "cleanup"}]
  /\ asks \in Int

Init ==
  /\ listening = FALSE /\ triggerEvent = FALSE /\ detriggerEvent = FALSE
  /\ isRunning = FALSE /\ cooling = FALSE
  /\ records \in BOOLEAN /\ isTriggered = FALSE /\ initialised = FALSE
  /\ lpc = [l \in Listeners |-> "none"] /\ started = 0
  /\ tpc = [c \in Callers |-> "idle"] /\ mpc = [m \in Modes |-> "off"]
  /\ asks = 0 /\ raised = FALSE /\ discarded = FALSE

More == IF asks < MaxAsks THEN asks + 1 ELSE asks

(* Threads blocked in an event's wait() go on.                             *)
Wake(from, to) == [l \in Listeners |-> IF lpc[l] = from THEN to ELSE lpc[l]]

-----------------------------------------------------------------------------
(* trigger(): the test of is_running, then three assignments.              *)
Trigger(c) ==
  /\ tpc[c] = "idle" /\ ~isRunning
  /\ tpc' = [tpc EXCEPT ![c] = "clear"]
  /\ asks' = More
  /\ UNCHANGED <<flags, cooling, record, lpc, started, mpc, raised, discarded>>

TriggerClear(c) ==
  /\ tpc[c] = "clear"
  /\ detriggerEvent' = FALSE
  /\ tpc' = [tpc EXCEPT ![c] = "set"]
  /\ UNCHANGED <<listening, triggerEvent, isRunning, cooling, record, lpc, started, mpc, count>>

TriggerSet(c) ==
  /\ tpc[c] = "set"
  /\ triggerEvent' = TRUE
  /\ lpc' = Wake("waiting", "woken") /\ discarded' = FALSE
  /\ tpc' = [tpc EXCEPT ![c] = "run"]
  /\ UNCHANGED <<listening, detriggerEvent, isRunning, cooling, record, started, mpc, asks, raised>>

TriggerRun(c) ==
  /\ tpc[c] = "run"
  /\ isRunning' = TRUE
  /\ tpc' = [tpc EXCEPT ![c] = "idle"]
  /\ UNCHANGED <<listening, triggerEvent, detriggerEvent, cooling, record, lpc, started, mpc, count>>

(* detrigger(), in the same way.                                           *)
Detrigger(c) ==
  /\ tpc[c] = "idle" /\ UseDetrigger /\ isRunning
  /\ tpc' = [tpc EXCEPT ![c] = "unset"]
  /\ UNCHANGED <<flags, cooling, record, lpc, started, mpc, count>>

DetriggerClear(c) ==
  /\ tpc[c] = "unset"
  /\ triggerEvent' = FALSE /\ discarded' = (discarded \/ triggerEvent)
  /\ tpc' = [tpc EXCEPT ![c] = "detrigger"]
  /\ UNCHANGED <<listening, detriggerEvent, isRunning, cooling, record, lpc, started, mpc, asks, raised>>

DetriggerSet(c) ==
  /\ tpc[c] = "detrigger"
  /\ detriggerEvent' = TRUE
  /\ lpc' = Wake("detriggerWait", "detriggered")
  /\ tpc' = [tpc EXCEPT ![c] = "unrun"]
  /\ UNCHANGED <<listening, triggerEvent, isRunning, cooling, record, started, mpc, count>>

DetriggerRun(c) ==
  /\ tpc[c] = "unrun"
  /\ isRunning' = FALSE
  /\ tpc' = [tpc EXCEPT ![c] = "idle"]
  /\ UNCHANGED <<listening, triggerEvent, detriggerEvent, cooling, record, lpc, started, mpc, count>>

(* A call that has begun.                                                  *)
Call(c) == \/ TriggerClear(c) \/ TriggerSet(c) \/ TriggerRun(c)
           \/ DetriggerClear(c) \/ DetriggerSet(c) \/ DetriggerRun(c)

-----------------------------------------------------------------------------
(* start_listening_for_trigger: initialise, and a new listener thread.     *)
StartListening(m) ==
  /\ mpc[m] = "off" /\ started < MaxListeners
  /\ mpc' = [mpc EXCEPT ![m] = "on"]
  /\ initialised' = TRUE /\ listening' = TRUE
  /\ started' = started + 1
  /\ lpc' = [lpc EXCEPT ![started + 1] = "loop"]
  /\ UNCHANGED <<triggerEvent, detriggerEvent, isRunning, cooling, records, isTriggered, tpc, count>>

(* stop_listening_for_trigger: tell the listener, wake it, join it, clean  *)
(* up.                                                                     *)
StopListening(m) ==
  /\ mpc[m] = "on"
  /\ mpc' = [mpc EXCEPT ![m] = "stop"]
  /\ listening' = FALSE /\ asks' = More
  /\ UNCHANGED <<triggerEvent, detriggerEvent, isRunning, cooling, record, lpc, started, tpc, raised, discarded>>

StopSetsNot(m) ==                \* mutant of StopSets: nobody is woken
  /\ mpc[m] = "stop"
  /\ mpc' = [mpc EXCEPT ![m] = "join"]
  /\ UNCHANGED <<flags, cooling, record, lpc, started, tpc, count>>

StopSets(m) ==
  /\ mpc[m] = "stop"
  /\ mpc' = [mpc EXCEPT ![m] = "join"]
  /\ triggerEvent' = TRUE
  /\ lpc' = Wake("waiting", "woken") /\ discarded' = FALSE
  /\ UNCHANGED <<listening, detriggerEvent, isRunning, cooling, record, started, tpc, asks, raised>>

StopDoesNotJoin(m) ==            \* mutant of StopJoins: as with wait=False
  /\ mpc[m] = "join"
  /\ mpc' = [mpc EXCEPT ![m] = "cleanup"]
  /\ UNCHANGED <<flags, cooling, record, lpc, started, tpc, count>>

StopJoins(m) ==
  /\ mpc[m] = "join" /\ lpc[started] = "ended"
  /\ mpc' = [mpc EXCEPT ![m] = "cleanup"]
  /\ UNCHANGED <<flags, cooling, record, lpc, started, tpc, count>>

StopCleansUp(m) ==
  /\ mpc[m] = "cleanup"
  /\ mpc' = [mpc EXCEPT ![m] = "off"]
  /\ initialised' = FALSE
  /\ UNCHANGED <<flags, cooling, records, isTriggered, lpc, started, tpc, count>>

Executor(m) == \/ StartListening(m) \/ StopListening(m) \/ StopSets(m)
               \/ StopJoins(m) \/ StopCleansUp(m)

-----------------------------------------------------------------------------
(* The listener.  A step of l from one place to another.                   *)
Goes(l, from, to) == lpc[l] = from /\ lpc' = [lpc EXCEPT ![l] = to]

(* `while self.listening and self.trigger_event.wait()': the flag is read   *)
(* first, and the event, which another thread may have cleared, after it.  *)
LoopTest(l) ==
  /\ Goes(l, "loop", IF listening THEN "wait" ELSE "ended")
  /\ UNCHANGED <<flags, cooling, record, started, tpc, mpc, count>>

LoopWaitAfresh(l) ==             \* mutant of LoopWait: clears before it waits, not after
  /\ Goes(l, "wait", "waiting")
  /\ triggerEvent' = FALSE
  /\ UNCHANGED <<listening, detriggerEvent, isRunning, cooling, record, started, tpc, mpc, count>>

LoopWait(l) ==
  /\ Goes(l, "wait", IF triggerEvent THEN "woken" ELSE "waiting")
  /\ UNCHANGED <<flags, cooling, record, started, tpc, mpc, count>>

ClearTriggerNot(l) ==            \* mutant of ClearTrigger: the event stays set
  /\ Goes(l, "woken", "cool")
  /\ UNCHANGED <<flags, cooling, record, started, tpc, mpc, count>>

ClearTrigger(l) ==
  /\ Goes(l, "woken", "cool")
  /\ triggerEvent' = FALSE
  /\ UNCHANGED <<listening, detriggerEvent, isRunning, cooling, record, started, tpc, mpc, count>>

(* "don't spam the trigger": nothing within the cooldown period.           *)
Cooldown(l) ==
  /\ Goes(l, "cool", IF cooling THEN "finish" ELSE "warm")
  /\ UNCHANGED <<flags, cooling, record, started, tpc, mpc, count>>

Respond(l) ==
  /\ Goes(l, "warm", "respond")
  /\ cooling' = TRUE /\ asks' = asks - 1
  /\ UNCHANGED <<flags, record, started, tpc, mpc, raised, discarded>>

CooldownOver ==
  /\ cooling /\ cooling' = FALSE
  /\ UNCHANGED <<flags, record, lpc, started, tpc, mpc, count>>

(* Snapshot, HTTP and Dummy simply run, or raise, which is caught.         *)
RespondOnce(l) ==
  /\ ~records
  /\ Goes(l, "respond", "finish")
  /\ UNCHANGED <<flags, cooling, record, started, tpc, mpc, count>>

(* RecordToFile does nothing while is_triggered is set.                    *)
RecordMuted(l) ==
  /\ records /\ isTriggered
  /\ Goes(l, "respond", "finish")
  /\ UNCHANGED <<flags, cooling, record, started, tpc, mpc, count>>

(* RecordToFile._trigger_response: is_triggered is tested, then set.       *)
RecordTest(l) ==
  /\ records /\ ~isTriggered
  /\ Goes(l, "respond", "claim")
  /\ UNCHANGED <<flags, cooling, record, started, tpc, mpc, count>>

RecordClaim(l) ==
  /\ Goes(l, "claim", "open")
  /\ isTriggered' = TRUE
  /\ UNCHANGED <<flags, cooling, records, initialised, started, tpc, mpc, count>>

(* The file is opened and the recording split into it.                     *)
RecordOpen(l) ==
  /\ Goes(l, "open", IF UseDetrigger THEN "detriggerTest" ELSE "after")
  /\ UNCHANGED <<flags, cooling, record, started, tpc, mpc, count>>

(* detrigger_event.wait() and clear().                                     *)
RecordWait(l) ==
  /\ Goes(l, "detriggerTest", IF detriggerEvent THEN "detriggered" ELSE "detriggerWait")
  /\ UNCHANGED <<flags, cooling, record, started, tpc, mpc, count>>

RecordDetriggered(l) ==
  /\ Goes(l, "detriggered", "after")
  /\ detriggerEvent' = FALSE
  /\ UNCHANGED <<listening, triggerEvent, isRunning, cooling, record, started, tpc, mpc, count>>

RecordEndsOnly(l) ==             \* mutant of RecordEnd: is_triggered stays set
  /\ Goes(l, "after", "finish")
  /\ UNCHANGED <<flags, cooling, record, started, tpc, mpc, count>>

(* wait_recording, the recording split back into the buffer, file closed.  *)
RecordEnd(l) ==
  /\ Goes(l, "after", "finish")
  /\ isTriggered' = FALSE
  /\ UNCHANGED <<flags, cooling, records, initialised, started, tpc, mpc, count>>

(* A file or a camera error at any of these; is_triggered stays set.       *)
RecordRaises(l) ==
  /\ \E from \in {"open", "after"} : Goes(l, from, "finish")
  /\ raised' = TRUE
  /\ UNCHANGED <<flags, cooling, record, started, tpc, mpc, asks, discarded>>

(* The end of the loop's body: is_running = False.                         *)
Finish(l) ==
  /\ Goes(l, "finish", "loop")
  /\ isRunning' = FALSE
  /\ UNCHANGED <<listening, triggerEvent, detriggerEvent, cooling, record, started, tpc, mpc, count>>

Listener(l) == \/ LoopTest(l) \/ LoopWait(l) \/ ClearTrigger(l) \/ Cooldown(l) \/ Respond(l) \/ RespondOnce(l)
               \/ RecordMuted(l) \/ RecordTest(l) \/ RecordClaim(l) \/ RecordOpen(l) \/ RecordWait(l)
               \/ RecordDetriggered(l) \/ RecordEnd(l) \/ RecordRaises(l) \/ Finish(l)

Next == \/ \E c \in Callers : Trigger(c) \/ Detrigger(c) \/ Call(c)
        \/ \E m \in Modes : Executor(m)
        \/ \E l \in Listeners : Listener(l)
        \/ CooldownOver

(* A thread that can run does.  Nobody has to trigger, detrigger or stop,  *)
(* but a call once begun goes on to its end.                               *)
Fairness ==
  /\ \A l \in Listeners : WF_vars(Listener(l))
  /\ \A c \in Callers : WF_vars(Call(c))
  /\ \A m \in Modes : WF_vars(mpc[m] \notin {"off", "on"} /\ Executor(m))

Spec == Init /\ [][Next]_vars /\ Fairness

-----------------------------------------------------------------------------
(* The response's streamer and buffer are there while it runs: they are    *)
(* cleaned up only after the listener has been joined (base.py:44-49).     *)
NoResponseAfterCleanup == \A l \in Listeners : lpc[l] \in Body => initialised

(* Every response was asked for: there are no more of them than trigger()  *)
(* calls and stops (base.py:84-90).                                        *)
AnswersAreAsked == asks >= 0

(* is_triggered, which mutes RecordToFile, is given back by the response   *)
(* that took it, unless an exception ended it (record_to_file.py:40-62).   *)
ClaimIsReturned ==
  isTriggered => raised \/ \E l \in Listeners : lpc[l] \in Recording

(* A trigger event is taken up by a listener while one listens, unless a   *)
(* detrigger() discards it before any has seen it (base.py:53), or a       *)
(* recording that waits to be detriggered keeps the listener               *)
(* (base.py:84-85).                                                        *)
TriggerSeen ==
  (triggerEvent /\ listening) ~>
    (discarded \/ ~listening \/ \E l \in Listeners : lpc[l] \in {"woken", "detriggerWait"})

(* "wether to wait for trigger listening thread to quit this method"       *)
(* (base.py:40-41): a stop that waits comes to an end, unless the listener *)
(* is recording and waits to be detriggered, or the event that was to wake *)
(* it has been discarded by a detrigger() between its two reads of line 84 *)
(* (base.py:53), which leaves it waiting and the stop with it.             *)
StopReturns ==
  \A m \in Modes : (mpc[m] = "join") ~>
    \/ mpc[m] = "off"
    \/ \E l \in Listeners : lpc[l] = "detriggerWait" \/ (lpc[l] = "waiting" /\ discarded)
=============================================================================
