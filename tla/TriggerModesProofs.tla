-------------------------- MODULE TriggerModesProofs --------------------------
(***************************************************************************)
(* Proofs about TriggerModes for any number of listeners and any length of *)
(* a mode's life: one session at a time, an ask for every response due,    *)
(* and what follows for the response of the mode.                          *)
(***************************************************************************)
EXTENDS TriggerModes, TLAPS

(* The steps of the response a mode takes or lets happen.                  *)
ResponseStep ==
  \/ Trigger("mode") \/ (\E c \in Callers : Detrigger(c) \/ Call(c))
  \/ Executor(Mode) \/ (\E l \in Listeners : Listener(l)) \/ CooldownOver

(* The modes take no other.                                                *)
LEMMA StepsOfAMode == ModesNext => ResponseStep \/ UNCHANGED response
<1> SUFFICES ASSUME ModesNext PROVE ResponseStep \/ UNCHANGED response
  OBVIOUS
<1> USE ModesAssumption
<1>1. CASE ModeStart \/ ModeStops
  BY <1>1 DEF ModeStart, ModeStops, ResponseStep, Executor
<1>2. CASE ModeShutdown
  BY <1>2 DEF ModeShutdown, CleanupWakes, CleanupCloses, CleanupUnwatches, CleanupDetriggers,
              RunnerJoined, Detriggers, Returned, ResponseStep
<1>3. CASE PreRoutine \/ CheckStop \/ ScheduleOver \/ Analyze
  BY <1>3 DEF PreRoutine, CheckStop, ScheduleOver, Analyze
<1>4. CASE Network \/ AcceptClient
  BY <1>4 DEF Network, Accept, AcceptWake, AcceptClient, Connected
<1>5. CASE Motion
  BY <1>5 DEF Motion, WaitForMotion, MotionTriggered, Calibrate, Detriggered,
              Triggers, Detriggers, Returned, ResponseStep
<1>6. CASE Photo
  BY <1>6 DEF Photo, PhotoFound, PhotoTriggered, PhotoNot, PhotoDetriggered,
              Triggers, Detriggers, Returned, ResponseStep
<1>7. CASE Delayed
  BY <1>7 DEF Delayed, DelayedTriggers, DelayedSleeps, DelayedDetriggers, DelayedResets,
              Triggers, Detriggers, Returned, ResponseStep
<1>8. CASE Any
  BY <1>8 DEF Any, ResponseStep
<1>9. CASE Response \/ \E c \in Callers : Calls(c)
  BY <1>9 DEF Response, Calls, ResponseStep
<1> QED BY <1>1, <1>2, <1>3, <1>4, <1>5, <1>6, <1>7, <1>8, <1>9 DEF ModesNext, Runner

-----------------------------------------------------------------------------
(* Types and sessions.                                                     *)
LEMMA ResponseTypes ==
  ASSUME TypeOK, Sessions, ResponseStep
  PROVE  TypeOK' /\ Sessions'
<1> USE ModesAssumption, TriggerAssumption DEF TypeOK, Sessions, Listeners
<1>1. CASE Trigger("mode")
  BY <1>1 DEF Trigger, More, flags, record
<1>2. ASSUME NEW c \in Callers, TriggerClear(c) PROVE TypeOK' /\ Sessions'
  BY <1>2 DEF TriggerClear, record, count
<1>3. ASSUME NEW c \in Callers, TriggerRun(c) PROVE TypeOK' /\ Sessions'
  BY <1>3 DEF TriggerRun, record, count
<1>4. ASSUME NEW c \in Callers, TriggerSet(c) PROVE TypeOK' /\ Sessions'
  BY <1>4 DEF TriggerSet, Wake, ListenerStates, record, count
<1>5. ASSUME NEW c \in Callers, DetriggerClear(c) PROVE TypeOK' /\ Sessions'
  BY <1>5 DEF DetriggerClear, record, count
<1>6. ASSUME NEW c \in Callers, DetriggerRun(c) PROVE TypeOK' /\ Sessions'
  BY <1>6 DEF DetriggerRun, record, count
<1>7. ASSUME NEW c \in Callers, DetriggerSet(c) PROVE TypeOK' /\ Sessions'
  BY <1>7 DEF DetriggerSet, Wake, ListenerStates, Body, record, count
<1>8. ASSUME NEW c \in Callers, Detrigger(c) PROVE TypeOK' /\ Sessions'
  BY <1>8 DEF Detrigger, flags, record, count
<1>9. CASE StartListening(Mode)
  BY <1>9 DEF StartListening, ListenerStates, count
<1>10. CASE StopListening(Mode)
  <2>1. asks' \in Int
    BY <1>10 DEF StopListening, More
  <2> QED BY <1>10, <2>1 DEF StopListening, record
<1>11. CASE StopSets(Mode)
  BY <1>11 DEF StopSets, Wake, ListenerStates, record, count
<1>12. CASE StopJoins(Mode)
  BY <1>12 DEF StopJoins, flags, record, count
<1>13. CASE StopCleansUp(Mode)
  BY <1>13 DEF StopCleansUp, flags, count
<1>14. ASSUME NEW l \in Listeners, LoopTest(l) \/ LoopWait(l) PROVE TypeOK' /\ Sessions'
  BY <1>14 DEF LoopTest, LoopWait, Goes, ListenerStates, Body, flags, record, count
<1>15. ASSUME NEW l \in Listeners, ClearTrigger(l) PROVE TypeOK' /\ Sessions'
  BY <1>15 DEF ClearTrigger, Goes, ListenerStates, Body, flags, record, count
<1>16. ASSUME NEW l \in Listeners, Cooldown(l) PROVE TypeOK' /\ Sessions'
  BY <1>16 DEF Cooldown, Goes, ListenerStates, Body, flags, record, count
<1>17. ASSUME NEW l \in Listeners, Respond(l) PROVE TypeOK' /\ Sessions'
  BY <1>17 DEF Respond, Goes, ListenerStates, Body, flags, record, count
<1>18. ASSUME NEW l \in Listeners, RespondOnce(l) PROVE TypeOK' /\ Sessions'
  BY <1>18 DEF RespondOnce, Goes, ListenerStates, Body, flags, record, count
<1>19. ASSUME NEW l \in Listeners, RecordMuted(l) PROVE TypeOK' /\ Sessions'
  BY <1>19 DEF RecordMuted, Goes, ListenerStates, Body, flags, record, count
<1>20. ASSUME NEW l \in Listeners, RecordTest(l) PROVE TypeOK' /\ Sessions'
  BY <1>20 DEF RecordTest, Goes, ListenerStates, Body, flags, record, count
<1>21. ASSUME NEW l \in Listeners, RecordClaim(l) PROVE TypeOK' /\ Sessions'
  BY <1>21 DEF RecordClaim, Goes, ListenerStates, Body, flags, record, count
<1>22. ASSUME NEW l \in Listeners, RecordOpen(l) PROVE TypeOK' /\ Sessions'
  BY <1>22 DEF RecordOpen, Goes, ListenerStates, Body, flags, record, count
<1>23. ASSUME NEW l \in Listeners, RecordWait(l) PROVE TypeOK' /\ Sessions'
  BY <1>23 DEF RecordWait, Goes, ListenerStates, Body, flags, record, count
<1>24. ASSUME NEW l \in Listeners, RecordDetriggered(l) PROVE TypeOK' /\ Sessions'
  BY <1>24 DEF RecordDetriggered, Goes, ListenerStates, Body, flags, record, count
<1>25. ASSUME NEW l \in Listeners, RecordEnd(l) PROVE TypeOK' /\ Sessions'
  BY <1>25 DEF RecordEnd, Goes, ListenerStates, Body, flags, record, count
<1>26. ASSUME NEW l \in Listeners, Finish(l) PROVE TypeOK' /\ Sessions'
  BY <1>26 DEF Finish, Goes, ListenerStates, Body, flags, record, count
<1>27. ASSUME NEW l \in Listeners, RecordRaises(l) PROVE TypeOK' /\ Sessions'
  <2>1. lpc[l] \in {"open", "after"} /\ Goes(l, lpc[l], "finish")
    BY <1>27 DEF RecordRaises, Goes
  <2> QED BY <1>27, <2>1 DEF RecordRaises, Goes, ListenerStates, flags, record
<1>28. CASE CooldownOver
  BY <1>28 DEF CooldownOver, flags, record, count
<1> QED BY <1>1, <1>2, <1>3, <1>4, <1>5, <1>6, <1>7, <1>8, <1>9, <1>10, <1>11, <1>12, <1>13, <1>14, <1>15,
           <1>16, <1>17, <1>18, <1>19, <1>20, <1>21, <1>22, <1>23, <1>24, <1>25, <1>26, <1>27, <1>28
        DEF ResponseStep, Call, Executor, Listener

-----------------------------------------------------------------------------
(* What the modes keep of their own.                                       *)
LEMMA ModeTypes ==
  ASSUME ModesTypeOK, ModesNext, TypeOK'
  PROVE  ModesTypeOK'
<1> USE ModesAssumption DEF ModesTypeOK, RunnerGoes, network, detector, photo
<1>1. CASE ModeStart \/ ModeStops
  BY <1>1 DEF ModeStart, ModeStops
<1>2. CASE CleanupWakes \/ CleanupCloses \/ CleanupUnwatches \/ RunnerJoined
  BY <1>2 DEF CleanupWakes, CleanupCloses, CleanupUnwatches, RunnerJoined
<1>3. CASE CleanupDetriggers
  BY <1>3 DEF CleanupDetriggers
<1>4. CASE PreRoutine \/ CheckStop \/ ScheduleOver
  BY <1>4 DEF PreRoutine, CheckStop, ScheduleOver
<1>5. CASE Accept
  BY <1>5 DEF Accept
<1>6. ASSUME Connected, stimuli' \in 0 .. MaxStimuli, wake' \in BOOLEAN
      PROVE  ModesTypeOK'
  <2>1. UNCHANGED <<kind, xpc, bound, detector, photo>> /\ rpc' = "loop" /\ isTrig' \in BOOLEAN
    BY <1>6 DEF Connected
  <2>2. dpc' \in {dpc, "trigger"}
    BY <1>6, Zenon DEF Connected
  <2> QED BY <1>6, <2>1, <2>2
<1>7. CASE Delayed
  BY <1>7 DEF Delayed, DelayedTriggers, DelayedSleeps, DelayedDetriggers, DelayedResets, DelayedGoes
<1>8. CASE Analyze
  BY <1>8 DEF Analyze
<1>9. CASE Motion
  BY <1>9 DEF Motion, WaitForMotion, MotionTriggered, Calibrate, Detriggered, MotionStep
<1>10. CASE PhotoFound
  BY <1>10 DEF PhotoFound, PhotoStep, Take
<1>11. CASE PhotoNot
  <2>1. cert' \in 0 .. MinCertainty /\ stimuli' \in 0 .. MaxStimuli
    BY <1>11 DEF PhotoNot, Take, Certain, Certainty
  <2>2. still' \in 0 .. DetriggerPics
    BY <1>11 DEF PhotoNot
  <2>3. UNCHANGED <<kind, xpc, network, detector, found>> /\ rpc' \in {"loop", "detriggering"}
    BY <1>11 DEF PhotoNot, PhotoStep
  <2> QED BY <2>1, <2>2, <2>3
<1>12. CASE PhotoTriggered
  BY <1>12 DEF PhotoTriggered, PhotoStep
<1>13. CASE PhotoDetriggered
  BY <1>13 DEF PhotoDetriggered, PhotoStep
<1>14. CASE Any \/ Response \/ \E c \in Callers : Calls(c)
  <2>1. UNCHANGED modeVars
    BY <1>14 DEF Any, Response, Calls
  <2> QED BY <2>1 DEF modeVars
<1>15. CASE AcceptWake
  BY <1>6, <1>15 DEF AcceptWake
<1>16. CASE AcceptClient
  BY <1>6, <1>16 DEF AcceptClient
<1> QED BY <1>1, <1>2, <1>3, <1>4, <1>5, <1>7, <1>8, <1>9, <1>10, <1>11, <1>12, <1>13, <1>14, <1>15, <1>16
        DEF ModesNext, ModeShutdown, Runner, Network, Photo

-----------------------------------------------------------------------------
(* An ask for each response still due.                                     *)
LEMMA AsksCoverDue ==
  ASSUME TypeOK, Sessions, asks >= Due, ResponseStep
  PROVE  asks' >= Due'
<1> USE ModesAssumption, TriggerAssumption DEF TypeOK, Sessions, Listeners
<1>1. /\ Due = One(Heading) + One(Pending) + One(Asking)
      /\ Due' = One(Heading') + One(Pending') + One(Asking')
      /\ One(Heading) \in {0, 1} /\ One(Pending) \in {0, 1} /\ One(Asking) \in {0, 1}
      /\ One(Heading') \in {0, 1} /\ One(Pending') \in {0, 1} /\ One(Asking') \in {0, 1}
  BY DEF Due, One
(* A step that takes up no more than there was.                            *)
<1>2. ASSUME asks' = asks, One(Heading') <= One(Heading), One(Pending') <= One(Pending),
             One(Asking') <= One(Asking)
      PROVE  asks' >= Due'
  BY <1>1, <1>2
<1>3. CASE Trigger("mode")
  <2>1. Heading' = Heading /\ Pending' = Pending
    BY <1>3 DEF Trigger, Heading, Pending, flags, record
  <2>2. ~Asking /\ asks' = More
    BY <1>3 DEF Trigger, Asking
  <2> QED BY <1>1, <2>1, <2>2 DEF More, One
<1>4. ASSUME NEW c \in Callers, Detrigger(c) \/ TriggerClear(c) \/ TriggerRun(c) \/ DetriggerRun(c)
      PROVE  asks' >= Due'
  <2>1. Heading' = Heading /\ Pending' = Pending /\ Asking' = Asking /\ asks' = asks
    BY <1>4 DEF Detrigger, TriggerClear, TriggerRun, DetriggerRun, Heading, Pending, Asking, flags, record, count
  <2> QED BY <1>1, <2>1
<1>5. ASSUME NEW c \in Callers, TriggerSet(c) PROVE asks' >= Due'
  <2>1. c = "mode" /\ asks' = asks /\ Asking /\ ~Asking'
    BY <1>5 DEF TriggerSet, Asking, count
  <2>2. CASE \E l \in Listeners : lpc[l] \in {"wait", "waiting"}
    <3>1. Pending' => Pending
      BY <1>5, <2>2 DEF TriggerSet, Pending, Wake
    <3> QED BY <1>1, <2>1, <3>1 DEF One
  <2>3. CASE \A l \in Listeners : lpc[l] \notin {"wait", "waiting"}
    <3>1. lpc' = lpc
      BY <1>5, <2>3 DEF TriggerSet, Wake
    <3>2. Heading' = Heading
      BY <2>3, <3>1 DEF Heading
    <3> QED BY <1>1, <2>1, <3>2 DEF One
  <2> QED BY <2>2, <2>3
<1>6. ASSUME NEW c \in Callers, DetriggerClear(c) PROVE asks' >= Due'
  <2>1. (Heading' => Heading) /\ (Pending' => Pending) /\ Asking' = Asking /\ asks' = asks
    BY <1>6 DEF DetriggerClear, Heading, Pending, Asking, count
  <2> QED BY <1>2, <2>1 DEF One
<1>7. ASSUME NEW c \in Callers, DetriggerSet(c) PROVE asks' >= Due'
  <2>1. Heading' = Heading /\ Pending' = Pending
    BY <1>7 DEF DetriggerSet, Heading, Pending, Wake
  <2>2. Asking' = Asking /\ asks' = asks
    BY <1>7 DEF DetriggerSet, Asking, count
  <2> QED BY <1>1, <2>1, <2>2
<1>8. CASE StartListening(Mode)
  <2>1. (Heading' => Heading) /\ (Pending' => Pending) /\ Asking' = Asking /\ asks' = asks
    BY <1>8 DEF StartListening, Heading, Pending, Asking, count
  <2> QED BY <1>2, <2>1 DEF One
<1>9. CASE StopListening(Mode)
  <2>1. Heading' = Heading /\ Asking' = Asking /\ asks' = More
    BY <1>9 DEF StopListening, Heading, Asking, record
  <2> QED BY <1>1, <2>1 DEF More, One
<1>10. CASE StopSets(Mode)
  <2>1. Pending /\ Asking' = Asking /\ asks' = asks
    BY <1>10 DEF StopSets, Pending, Asking, count
  <2>2. CASE \E l \in Listeners : lpc[l] \in {"wait", "waiting"}
    <3>1. ~Pending'
      BY <1>10, <2>2 DEF StopSets, Pending, Wake
    <3> QED BY <1>1, <2>1, <3>1 DEF One
  <2>3. CASE \A l \in Listeners : lpc[l] \notin {"wait", "waiting"}
    <3>1. lpc' = lpc
      BY <1>10, <2>3 DEF StopSets, Wake
    <3>2. Heading' = Heading
      BY <2>3, <3>1 DEF Heading
    <3> QED BY <1>1, <2>1, <3>2 DEF One
  <2> QED BY <2>2, <2>3
<1>11. CASE StopJoins(Mode) \/ StopCleansUp(Mode) \/ CooldownOver
  <2>1. Heading' = Heading /\ (Pending' => Pending) /\ Asking' = Asking /\ asks' = asks
    BY <1>11 DEF StopJoins, StopCleansUp, CooldownOver, Heading, Pending, Asking, flags, record, count
  <2> QED BY <1>2, <2>1 DEF One
<1>12. ASSUME NEW l \in Listeners, LoopWait(l) PROVE asks' >= Due'
  <2>1. (Heading' => Heading) /\ (Pending' => Pending) /\ Asking' = Asking /\ asks' = asks
    BY <1>12 DEF LoopWait, Goes, Heading, Pending, Asking, flags, count
  <2> QED BY <1>2, <2>1 DEF One
(* The event was pending; the listener will find it, or a stop be seen.    *)
<1>16. ASSUME NEW l \in Listeners, LoopTest(l) PROVE asks' >= Due'
  <2>1. Asking' = Asking /\ asks' = asks
    BY <1>16 DEF LoopTest, Asking, count
  <2>2. CASE listening /\ triggerEvent
    <3>1. Pending /\ ~Pending'
      BY <1>16, <2>2 DEF LoopTest, Goes, Pending, flags
    <3> QED BY <1>1, <2>1, <3>1 DEF One
  <2>3. CASE ~(listening /\ triggerEvent)
    <3>1. (Heading' => Heading) /\ (Pending' => Pending)
      BY <1>16, <2>3 DEF LoopTest, Goes, Heading, Pending, flags
    <3> QED BY <1>2, <2>1, <3>1 DEF One
  <2> QED BY <2>2, <2>3
<1>13. ASSUME NEW l \in Listeners, ClearTrigger(l) PROVE asks' >= Due'
  <2>1. Asking' = Asking /\ asks' = asks
    BY <1>13 DEF ClearTrigger, Asking, count
  <2>2. Heading /\ (Pending' => Pending)
    BY <1>13 DEF ClearTrigger, Goes, Heading, Pending
  <2> QED BY <1>1, <2>1, <2>2 DEF One
<1>14. ASSUME NEW l \in Listeners, Respond(l) PROVE asks' >= Due'
  <2>1. Asking' = Asking /\ asks' = asks - 1
    BY <1>14 DEF Respond, Asking
  <2>2. Heading /\ ~Heading' /\ (Pending' => Pending)
    BY <1>14 DEF Respond, Goes, Heading, Pending, flags
  <2> QED BY <1>1, <2>1, <2>2 DEF One
<1>15. ASSUME NEW l \in Listeners,
              \/ Cooldown(l) \/ RespondOnce(l) \/ RecordMuted(l) \/ RecordTest(l) \/ RecordClaim(l)
              \/ RecordOpen(l) \/ RecordWait(l) \/ RecordDetriggered(l) \/ RecordEnd(l) \/ RecordRaises(l)
              \/ Finish(l)
       PROVE  asks' >= Due'
  <2>1. \E to \in ListenerStates \ {"wait", "woken", "cool"} :
          Goes(l, lpc[l], to) /\ lpc[l] \notin {"wait", "woken"} /\ (to = "warm" => lpc[l] = "cool")
    BY <1>15 DEF Cooldown, RespondOnce, RecordMuted, RecordTest, RecordClaim, RecordOpen, RecordWait,
                 RecordDetriggered, RecordEnd, RecordRaises, Finish, Goes, ListenerStates, Body
  <2>2. Asking' = Asking /\ asks' = asks /\ triggerEvent' = triggerEvent /\ mpc' = mpc
    BY <1>15 DEF Cooldown, RespondOnce, RecordMuted, RecordTest, RecordClaim, RecordOpen, RecordWait,
                 RecordDetriggered, RecordEnd, RecordRaises, Finish, Asking, flags, count
  <2>3. (Heading' => Heading) /\ (Pending' => Pending)
    BY <2>1, <2>2 DEF Goes, Heading, Pending
  <2> QED BY <1>2, <2>2, <2>3 DEF One
<1> QED BY <1>3, <1>4, <1>5, <1>6, <1>7, <1>8, <1>9, <1>10, <1>11, <1>12, <1>13, <1>14, <1>15, <1>16
        DEF ResponseStep, Call, Executor, Listener

-----------------------------------------------------------------------------
(* A recording under way goes on, so that what it has claimed is returned  *)
(* by it, or it fails.                                                     *)
LEMMA ClaimsStay ==
  ASSUME TypeOK, ClaimIsReturned, ResponseStep
  PROVE  ClaimIsReturned'
<1> USE ModesAssumption DEF TypeOK, ClaimIsReturned, Recording, Body, Listeners
<1>1. CASE Trigger("mode") \/ \E c \in Callers : Detrigger(c)
  BY <1>1 DEF Trigger, Detrigger, flags, record, count
<1>2. ASSUME NEW c \in Callers, TriggerClear(c) \/ TriggerRun(c) \/ DetriggerClear(c) \/ DetriggerRun(c)
      PROVE  ClaimIsReturned'
  BY <1>2 DEF TriggerClear, TriggerRun, DetriggerClear, DetriggerRun, record, count
<1>3. ASSUME NEW c \in Callers, TriggerSet(c) PROVE ClaimIsReturned'
  BY <1>3 DEF TriggerSet, Wake, record, count
<1>4. ASSUME NEW c \in Callers, DetriggerSet(c) PROVE ClaimIsReturned'
  BY <1>4 DEF DetriggerSet, Wake, record, count
<1>5. CASE StartListening(Mode)
  BY <1>5 DEF StartListening, count
<1>6. CASE StopListening(Mode) \/ StopJoins(Mode) \/ StopCleansUp(Mode) \/ CooldownOver
  BY <1>6 DEF StopListening, StopJoins, StopCleansUp, CooldownOver, record, count
<1>7. CASE StopSets(Mode)
  BY <1>7 DEF StopSets, Wake, record, count
<1>8. ASSUME NEW l \in Listeners, LoopTest(l) \/ LoopWait(l) \/ ClearTrigger(l) \/ Cooldown(l) \/ Respond(l) \/ Finish(l)
      PROVE  ClaimIsReturned'
  <2>1. CASE LoopTest(l) \/ LoopWait(l) \/ ClearTrigger(l)
    BY <2>1 DEF LoopTest, LoopWait, ClearTrigger, Goes, record, count
  <2>2. CASE Cooldown(l) \/ Respond(l)
    BY <2>2 DEF Cooldown, Respond, Goes, record, count
  <2>3. CASE Finish(l)
    BY <2>3 DEF Finish, Goes, record, count
  <2> QED BY <1>8, <2>1, <2>2, <2>3
<1>9. ASSUME NEW l \in Listeners, RespondOnce(l) \/ RecordMuted(l) \/ RecordTest(l) \/ RecordRaises(l)
      PROVE  ClaimIsReturned'
  <2>1. CASE RespondOnce(l) \/ RecordMuted(l)
    BY <2>1 DEF RespondOnce, RecordMuted, Goes, record, count
  <2>2. CASE RecordTest(l)
    BY <2>2 DEF RecordTest, Goes, record, count
  <2>3. CASE RecordRaises(l)
    BY <2>3 DEF RecordRaises, Goes, record, count
  <2> QED BY <1>9, <2>1, <2>2, <2>3
<1>10. ASSUME NEW l \in Listeners, RecordClaim(l) \/ RecordEnd(l) PROVE ClaimIsReturned'
  BY <1>10 DEF RecordClaim, RecordEnd, Goes
<1>11. ASSUME NEW l \in Listeners, RecordOpen(l) \/ RecordWait(l) \/ RecordDetriggered(l)
       PROVE  ClaimIsReturned'
  BY <1>11 DEF RecordOpen, RecordWait, RecordDetriggered, Goes, record, count
<1> QED BY <1>1, <1>2, <1>3, <1>4, <1>5, <1>6, <1>7, <1>8, <1>9, <1>10, <1>11
        DEF ResponseStep, Call, Executor, Listener

-----------------------------------------------------------------------------
LEMMA InitInvariant == ModesInit => ModesInv /\ ClaimIsReturned
<1> SUFFICES ASSUME ModesInit PROVE ModesInv /\ ClaimIsReturned
  OBVIOUS
<1> USE ModesAssumption, TriggerAssumption DEF ModesInit, Init
<1>1. TypeOK
  <2>1. /\ started \in 0 .. MaxListeners
        /\ \A l \in Listeners : l > started <=> lpc[l] = "none"
    BY DEF Listeners
  <2>2. lpc \in [Listeners -> ListenerStates] /\ asks \in Int
    BY DEF ListenerStates
  <2> QED BY <2>1, <2>2 DEF TypeOK
<1>2. ModesTypeOK
  <2>1. rpc = "off" /\ xpc = "off" /\ dpc = "off" /\ bound = "none" /\ stimuli \in 0 .. MaxStimuli
    OBVIOUS
  <2>2. isTrig \in BOOLEAN /\ wake \in BOOLEAN /\ motion \in BOOLEAN /\ watched \in BOOLEAN /\ found \in BOOLEAN
    OBVIOUS
  <2>3. cert \in 0 .. MinCertainty /\ still \in 0 .. DetriggerPics
    OBVIOUS
  <2> QED BY <1>1, <2>1, <2>2, <2>3 DEF ModesTypeOK
<1>3. Sessions
  BY DEF Sessions
<1>4. ~Heading /\ ~Pending /\ ~Asking
  BY DEF Heading, Pending, Asking
<1>5. asks >= Due
  BY <1>4 DEF Due, One
<1> QED BY <1>2, <1>3, <1>5 DEF ModesInv, ClaimIsReturned

LEMMA StepInvariant == ModesInv /\ ClaimIsReturned /\ [ModesNext]_allVars => ModesInv' /\ ClaimIsReturned'
<1> SUFFICES ASSUME ModesInv, ClaimIsReturned, [ModesNext]_allVars PROVE ModesInv' /\ ClaimIsReturned'
  OBVIOUS
<1> USE DEF ModesInv
<1>1. TypeOK
  BY DEF ModesTypeOK
<1>2. CASE UNCHANGED response
  <2>1. TypeOK' /\ Sessions' /\ ClaimIsReturned' /\ (asks >= Due)'
    BY <1>1, <1>2 DEF response, vars, flags, record, count, TypeOK, Sessions, ClaimIsReturned,
                      Due, Heading, Pending, Asking, One
  <2>2. ModesTypeOK'
    BY <2>1, ModeTypes DEF ModesTypeOK, allVars, modeVars, network, detector, photo
  <2> QED BY <2>1, <2>2
<1>3. CASE ResponseStep /\ ModesNext
  <2>1. TypeOK' /\ Sessions'
    BY <1>1, <1>3, ResponseTypes
  <2>2. asks' >= Due'
    BY <1>1, <1>3, AsksCoverDue
  <2>3. ClaimIsReturned'
    BY <1>1, <1>3, ClaimsStay
  <2>4. ModesTypeOK'
    BY <1>3, <2>1, ModeTypes
  <2> QED BY <2>1, <2>2, <2>3, <2>4
<1> QED BY <1>2, <1>3, StepsOfAMode DEF allVars

(* The invariant of trigger() and stop_listening_for_trigger() against the *)
(* listener (trigger_responses/base.py:31-49, 63-96) holds throughout.     *)
THEOREM ModesInvariant == ModesSpec => [](ModesInv /\ ClaimIsReturned)
BY InitInvariant, StepInvariant, PTL DEF ModesSpec

(* A response under way has its streamer and buffer: no clean-up comes     *)
(* between, however late the stop is (base.py:44-49).                      *)
THEOREM RespondsInitialised == ModesSpec => []NoResponseAfterCleanup
<1>1. ModesInv => NoResponseAfterCleanup
  BY DEF ModesInv, Sessions, NoResponseAfterCleanup, Body
<1> QED BY <1>1, ModesInvariant, PTL

(* There are no more responses than trigger() calls and stops              *)
(* (base.py:84-90).                                                        *)
THEOREM AnswersAsked == ModesSpec => []AnswersAreAsked
<1>1. ModesInv => AnswersAreAsked
  BY DEF ModesInv, ModesTypeOK, TypeOK, AnswersAreAsked, Due, One
<1> QED BY <1>1, ModesInvariant, PTL

(* A response that sets is_triggered resets it, or has failed              *)
(* (record_to_file.py:40-62).                                              *)
THEOREM ClaimsReturned == ModesSpec => []ClaimIsReturned
BY ModesInvariant, PTL
=============================================================================
