----------------------------- MODULE TriggerModes -----------------------------
(***************************************************************************)
(* The modes that trigger responses, composed with a response: network_    *)
(* trigger.py, motion_detection.py with outputs/motion_detector.py, and    *)
(* photo_motion_detection.py, each in the order of BaseMode.run and        *)
(* shutdown (modes/base.py).  "any" is a mode of a user's own: it triggers *)
(* and detriggers whenever it likes, and may be started again.  The modes  *)
(* of this package are shut down once, by clean_stop (main.py:44).         *)
(***************************************************************************)
EXTENDS TriggerResponse

CONSTANTS Mode,
          MinCertainty, DetriggerPics, \* photo: min_certainty, pics to detrigger
          MaxStimuli                   \* bound: connections, pics that differ

ASSUME ModesAssumption ==
  /\ Modes = {Mode} /\ Callers = {"mode", "executor"}
  /\ MaxAsks >= 3  \* Due is never more
  /\ MinCertainty \in Nat /\ DetriggerPics \in Nat /\ MaxStimuli \in Nat

VARIABLES kind,            \* which mode this is; fixed
          rpc, xpc,        \* its runner thread; the rest of its shutdown
          stimuli,         \* how many there were
          isTrig, dpc,     \* network: is_triggered, the thread of _trigger
          bound, wake,     \* server_socket; shutdown's own connection waits
          motion, watched, \* motion: the detector's event, is it an output
          cert, found, still \* photo: current_certainty, motion_detected,
                             \* iterations_without_motion

network == <<isTrig, dpc, bound, wake>>
detector == <<motion, watched>>
photo == <<cert, found, still>>
response == vars
modeVars == <<kind, rpc, xpc, stimuli, network, detector, photo>>
allVars == <<response, modeVars>>

ModesTypeOK ==
  /\ TypeOK
  /\ kind \in {"any", "network", "motion", "photo"}
  /\ rpc \in {"off", "pre", "loop", "routine", "accept", "triggering", "watch", "detriggering", "ended"}
  /\ xpc \in {"off", "on", "cleanup", "close", "detrigger", "join", "raised"}
  /\ stimuli \in 0 .. MaxStimuli
  /\ dpc \in {"off", "trigger", "triggering", "sleep", "detriggering"}
  /\ bound \in {"none", "open", "closed"}
  /\ \A f \in {isTrig, wake, motion, watched, found} : f \in BOOLEAN
  /\ cert \in 0 .. MinCertainty /\ still \in 0 .. DetriggerPics

ModesInit ==
  /\ Init /\ kind \in {"any", "network", "motion", "photo"}
  /\ rpc = "off" /\ xpc = "off" /\ stimuli = 0
  /\ isTrig = FALSE /\ dpc = "off" /\ bound = "none" /\ wake = FALSE
  /\ motion = FALSE /\ watched = (kind = "motion")
  /\ cert = 0 /\ found = FALSE /\ still = 0

(* Steps of a call of trigger() or detrigger() by c: the call begins, or   *)
(* finds that it has nothing to do.                                        *)
Triggers(c) == Trigger(c) \/ (tpc[c] = "idle" /\ isRunning /\ UNCHANGED response)
Detriggers(c) == Detrigger(c) \/ (tpc[c] = "idle" /\ ~(UseDetrigger /\ isRunning) /\ UNCHANGED response)
Returned(c) == tpc[c] = "idle" /\ UNCHANGED response

RunnerGoes(from, to) == rpc = from /\ rpc' = to /\ UNCHANGED <<kind, xpc>>

(* finish_time has come: shutdown has set it, or the schedule is over.     *)
Finished == mpc[Mode] # "on"

-----------------------------------------------------------------------------
(* BaseMode.initialize and start.                                          *)
ModeStart ==
  /\ kind # "any" /\ started = 0
  /\ StartListening(Mode)
  /\ rpc' = "pre" /\ xpc' = "on"
  /\ UNCHANGED <<kind, stimuli, network, detector, photo>>

(* BaseMode.shutdown: the responses are stopped first.                     *)
ModeStops ==
  /\ kind # "any" /\ xpc = "on"
  /\ \/ StopListening(Mode) /\ UNCHANGED xpc
     \/ StopSets(Mode) /\ UNCHANGED xpc
     \/ StopJoins(Mode) /\ UNCHANGED xpc
     \/ StopCleansUp(Mode) /\ xpc' = "cleanup"
  /\ UNCHANGED <<kind, rpc, stimuli, network, detector, photo>>

(* Then _cleanup, which each mode has of its own, ...                      *)
CleanupNoWake ==                 \* mutant of CleanupWakes: no connection of its own
  /\ kind = "network" /\ xpc = "cleanup"
  /\ xpc' = "close"
  /\ UNCHANGED <<response, kind, rpc, stimuli, network, detector, photo>>

CleanupWakes ==
  /\ kind = "network" /\ xpc = "cleanup"
  /\ wake' = (bound = "open")
  /\ xpc' = "close"
  /\ UNCHANGED <<response, kind, rpc, stimuli, isTrig, dpc, bound, detector, photo>>

(* server_socket is None if the runner has not come to bind it.  A runner  *)
(* blocked in accept() has the connection by now; one that has not come to *)
(* accept() yet will find the socket closed.                               *)
CleanupCloses ==
  /\ kind = "network" /\ xpc = "close"
  /\ IF bound = "none" THEN xpc' = "raised" /\ UNCHANGED <<bound, wake>>
                       ELSE /\ xpc' = "join" /\ bound' = "closed"
                            /\ wake' = (wake /\ rpc = "accept")
  /\ UNCHANGED <<response, kind, rpc, stimuli, isTrig, dpc, detector, photo>>

CleanupUnwatches ==
  /\ kind = "motion" /\ xpc = "cleanup"
  /\ watched' = FALSE /\ xpc' = "join"
  /\ UNCHANGED <<response, kind, rpc, stimuli, network, motion, photo>>

CleanupDetriggers ==
  /\ kind = "photo"
  /\ \/ xpc = "cleanup" /\ Detriggers("executor") /\ xpc' = "detrigger"
     \/ xpc = "detrigger" /\ Returned("executor") /\ xpc' = "join"
  /\ UNCHANGED <<kind, rpc, stimuli, network, detector, photo>>

(* ... and the runner is joined.                                           *)
RunnerJoined ==
  /\ xpc = "join" /\ rpc = "ended"
  /\ xpc' = "off"
  /\ UNCHANGED <<response, kind, rpc, stimuli, network, detector, photo>>

ModeShutdown == \/ CleanupWakes \/ CleanupCloses \/ CleanupUnwatches
                \/ CleanupDetriggers \/ RunnerJoined

-----------------------------------------------------------------------------
(* BaseMode.run: pre_routine, which binds the server socket, calibrates    *)
(* the detector (at most max_resets waits) or takes the first picture, ... *)
PreRoutine ==
  /\ RunnerGoes("pre", "loop")
  /\ bound' = IF kind = "network" THEN "open" ELSE bound
  /\ UNCHANGED <<response, stimuli, isTrig, dpc, wake, detector, photo>>

(* ... and the routine as long as it is not finish_time.                   *)
CheckStop ==
  /\ RunnerGoes("loop", IF Finished THEN "ended" ELSE "routine")
  /\ UNCHANGED <<response, stimuli, network, detector, photo>>

ScheduleOver ==
  /\ RunnerGoes("loop", "ended")
  /\ UNCHANGED <<response, stimuli, network, detector, photo>>

(* Network trigger: accept() blocks, or fails if the socket is closed.     *)
Accept ==
  /\ kind = "network"
  /\ RunnerGoes("routine", IF bound = "closed" THEN "loop" ELSE "accept")
  /\ UNCHANGED <<response, stimuli, network, detector, photo>>

(* Whoever connects triggers, unless a trigger's delay still runs;         *)
(* shutdown's own connection is nothing special.                           *)
Connected ==
  /\ RunnerGoes("accept", "loop")
  /\ IF isTrig THEN UNCHANGED <<isTrig, dpc>> ELSE isTrig' = TRUE /\ dpc' = "trigger"
  /\ UNCHANGED <<response, bound, detector, photo>>

AcceptClient ==
  /\ bound = "open" /\ stimuli < MaxStimuli
  /\ stimuli' = stimuli + 1
  /\ Connected /\ UNCHANGED wake

AcceptWake == wake /\ wake' = FALSE /\ UNCHANGED stimuli /\ Connected

Network == Accept \/ AcceptWake

(* _trigger, in its own daemon thread: trigger_all, sleep, detrigger_all,  *)
(* and only then is_triggered is reset.                                    *)
DelayedGoes(from, to) ==
  /\ dpc = from /\ dpc' = to
  /\ UNCHANGED <<kind, rpc, xpc, stimuli, bound, wake, detector, photo>>

DelayedTriggers == DelayedGoes("trigger", "triggering") /\ Triggers("mode") /\ UNCHANGED isTrig

DelayedSleeps == DelayedGoes("triggering", "sleep") /\ Returned("mode") /\ UNCHANGED isTrig

DelayedDetriggers == DelayedGoes("sleep", "detriggering") /\ Detriggers("mode") /\ UNCHANGED isTrig

DelayedResets == DelayedGoes("detriggering", "off") /\ Returned("mode") /\ isTrig' = FALSE

Delayed == DelayedTriggers \/ DelayedSleeps \/ DelayedDetriggers \/ DelayedResets

-----------------------------------------------------------------------------
(* Motion detection.  The camera's frames set and clear the event while    *)
(* the detector is an output of the streamer.                              *)
Analyze ==
  /\ watched /\ motion' = ~motion
  /\ UNCHANGED <<response, kind, rpc, xpc, stimuli, network, watched, photo>>

MotionStep == kind = "motion" /\ UNCHANGED <<stimuli, network, detector, photo>>

WaitForMotion ==
  /\ MotionStep
  /\ \/ motion /\ RunnerGoes("routine", "triggering") /\ Triggers("mode")
     \/ ~motion /\ RunnerGoes("routine", "loop") /\ UNCHANGED response

MotionTriggered == MotionStep /\ RunnerGoes("triggering", "watch") /\ Returned("mode")

CalibrateOnce ==                 \* mutant of Calibrate: its result is not looked at
  MotionStep /\ RunnerGoes("watch", "loop") /\ UNCHANGED response

(* `while not calibrate()': until the event was not set for a while.       *)
Calibrate == MotionStep /\ ~motion /\ RunnerGoes("watch", "detriggering") /\ Detriggers("mode")

Detriggered == MotionStep /\ RunnerGoes("detriggering", "loop") /\ Returned("mode")

Motion == WaitForMotion \/ MotionTriggered \/ Calibrate \/ Detriggered

-----------------------------------------------------------------------------
(* Photo motion detection.  A picture differs from the last one in more    *)
(* than `sensitivity' pixels, in exactly that many, or in fewer.           *)
PhotoStep == kind = "photo" /\ UNCHANGED <<network, detector>>

(* _detect_motion: certainty after a picture.                              *)
CertainLater(pic) == pic = "differs" /\ cert > MinCertainty \* mutant of Certain: tested first

Certain(pic) == pic = "differs" /\ cert + 1 > MinCertainty

Certainty(pic) ==
  IF pic = "differs" THEN cert + 1
  ELSE IF pic = "same" /\ cert > 0 THEN cert - 1 ELSE cert

Take(pic) ==
  IF pic = "differs" THEN stimuli < MaxStimuli /\ stimuli' = stimuli + 1 ELSE UNCHANGED stimuli

PhotoFound ==
  /\ PhotoStep /\ Take("differs") /\ Certain("differs")
  /\ cert' = 0 /\ found' = TRUE /\ UNCHANGED still
  /\ RunnerGoes("routine", "triggering") /\ Triggers("mode")

PhotoTriggered ==
  /\ PhotoStep /\ RunnerGoes("triggering", "loop") /\ Returned("mode")
  /\ still' = 0 /\ UNCHANGED <<stimuli, cert, found>>

PhotoNot ==
  /\ PhotoStep
  /\ \E pic \in {"differs", "edge", "same"} :
       Take(pic) /\ ~Certain(pic) /\ cert' = Certainty(pic)
  /\ IF found /\ still + 1 >= DetriggerPics
     THEN still' = 0 /\ RunnerGoes("routine", "detriggering") /\ Detriggers("mode")
     ELSE still' = (IF found THEN still + 1 ELSE still) /\ RunnerGoes("routine", "loop") /\ UNCHANGED response
  /\ UNCHANGED found

PhotoDetriggered ==
  /\ PhotoStep /\ RunnerGoes("detriggering", "loop") /\ Returned("mode")
  /\ found' = FALSE /\ UNCHANGED <<stimuli, cert, still>>

Photo == PhotoFound \/ PhotoTriggered \/ PhotoNot \/ PhotoDetriggered

Runner == PreRoutine \/ CheckStop \/ Network \/ Motion \/ Photo

-----------------------------------------------------------------------------
(* A mode of a user's own.                                                 *)
Any ==
  /\ kind = "any"
  /\ Trigger("mode") \/ Detrigger("mode") \/ Executor(Mode)
  /\ UNCHANGED modeVars

Response == ((\E l \in Listeners : Listener(l)) \/ CooldownOver) /\ UNCHANGED modeVars
Calls(c) == Call(c) /\ UNCHANGED modeVars

ModesNext == \/ ModeStart \/ ModeStops \/ ModeShutdown
             \/ Runner \/ ScheduleOver \/ AcceptClient \/ Delayed \/ Analyze
             \/ Any \/ Response \/ \E c \in Callers : Calls(c)

(* A thread that can go on does, one that sleeps wakes up and a call once  *)
(* begun returns.  Nobody has to connect, to move or to stop the mode.     *)
ModesFairness ==
  /\ WF_allVars(Runner) /\ WF_allVars(Delayed)
  /\ WF_allVars(ModeShutdown) /\ WF_allVars(ModeStops /\ Finished)
  /\ WF_allVars(kind = "any" /\ Executor(Mode) /\ mpc[Mode] \notin {"off", "on"} /\ UNCHANGED modeVars)
  /\ \A l \in Listeners : WF_allVars(Listener(l) /\ UNCHANGED modeVars)
  /\ \A c \in Callers : WF_allVars(Calls(c))

ModesSpec == ModesInit /\ [][ModesNext]_allVars /\ ModesFairness

-----------------------------------------------------------------------------

(* One session at a time: the mode's executor and its listener agree on    *)
(* whether there is one, and the thread that shuts down triggers nothing   *)
(* (trigger_responses/base.py:31-49, modes/base.py:32-43).                 *)
Sessions ==
  /\ listening <=> mpc[Mode] = "on"
  /\ initialised <=> mpc[Mode] # "off"
  /\ \A l \in Listeners : lpc[l] \notin {"none", "ended"} =>
       l = started /\ mpc[Mode] \in {"on", "stop", "join"}
  /\ tpc["executor"] \notin {"clear", "set", "run"}

(* What may still lead to a response: a listener on its way to one, an     *)
(* event it has not seen yet or one a stop is about to set, and a call of  *)
(* trigger() that has not set it yet.                                      *)
One(P) == IF P THEN 1 ELSE 0
Heading ==
  \E l \in Listeners : lpc[l] \in {"woken", "cool", "warm"} \/ (lpc[l] = "wait" /\ triggerEvent)
Pending == (triggerEvent /\ \A l \in Listeners : lpc[l] \notin {"wait", "woken"}) \/ mpc[Mode] = "stop"
Asking == tpc["mode"] \in {"clear", "set"}
Due == One(Heading) + One(Pending) + One(Asking)

(* Types, sessions, and an ask for each response still due: the invariant  *)
(* of trigger() and stop_listening_for_trigger() against the listener      *)
(* (trigger_responses/base.py:31-49, 63-96).                               *)
ModesInv == ModesTypeOK /\ Sessions /\ asks >= Due

(* A recording that waits for detrigger() in a response that can still     *)
(* hear it (base.py:52) gets it from the mode that triggered it, unless    *)
(* motion goes on, or the photo mode's runner has ended meanwhile.         *)
DetriggerReaches ==
  \A l \in Listeners :
    (kind # "any" /\ lpc[l] = "detriggerWait" /\ isRunning) ~>
      (lpc[l] # "detriggerWait" \/ ~isRunning \/ motion \/ (kind = "photo" /\ rpc = "ended"))

(* _cleanup brings the runner out of whatever it waits for, so that a      *)
(* shutdown that has come to it joins the runner (modes/base.py:38-40);    *)
(* not a calibration whose event has been left set.                        *)
ShutdownReturns ==
  (xpc = "cleanup") ~> (xpc \in {"off", "raised"} \/ (kind = "motion" /\ motion))
=============================================================================
