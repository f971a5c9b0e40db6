-------------------------- MODULE SplitFrameProofs --------------------------
(***************************************************************************)
(* Proofs about SplitFrame for any number of frames, of buffers of a frame *)
(* and of starts: whole frames, in their order, each at most twice, and so *)
(* the feed that FrameFeed promises.                                       *)
(***************************************************************************)
EXTENDS SplitFrame, TLAPS

IInv == Inv /\ AtMostTwice

(* The camera's position, from the buffers it has written.                 *)
LEMMA Position ==
  ASSUME NEW p, NEW c \in 0 .. MaxFrames, \A f \in Frames : p[f] > 0 <=> f <= c
  PROVE  c = CHOOSE n \in 0 .. MaxFrames : \A f \in Frames : p[f] > 0 <=> f <= n
<1> DEFINE P(n) == \A f \in Frames : p[f] > 0 <=> f <= n
<1>1. ASSUME NEW n \in 0 .. MaxFrames, P(n) PROVE n = c
  <2>1. CASE n < c
    <3>1. c \in Frames
      BY <2>1, SplitAssumption DEF Frames
    <3> QED BY <1>1, <2>1, <3>1, SplitAssumption
  <2>2. CASE c < n
    <3>1. n \in Frames
      BY <2>2, SplitAssumption DEF Frames
    <3> QED BY <1>1, <2>2, <3>1, SplitAssumption
  <2> QED BY <2>1, <2>2, SplitAssumption
<1>2. P(c)
  OBVIOUS
<1> HIDE DEF P
<1>3. c = CHOOSE n \in 0 .. MaxFrames : P(n)
  BY <1>1, <1>2
<1> QED BY <1>3 DEF P

LEMMA InitInvariant == Init => IInv
<1> SUFFICES ASSUME Init PROVE IInv
  OBVIOUS
<1> USE SplitAssumption DEF Init
<1>1. \A f \in Frames : pieces[f] > 0 <=> f <= 0
  BY DEF Frames
<1>2. Current = 0
  BY <1>1, Position DEF Current
<1>3. TypeOK
  <2>1. stream \in Seq(Frames) /\ lastFrame \in Seq(Frames) /\ frame \in Seq(Frames)
    OBVIOUS
  <2>2. pieces \in [Frames -> 0 .. MaxPieces] /\ starts \in 0 .. MaxStarts /\ handed \in 0 .. MaxFrames
    OBVIOUS
  <2>3. copies \in Nat /\ event \in BOOLEAN /\ isRunning \in BOOLEAN /\ (event => lastFrame # <<>>)
    OBVIOUS
  <2>4. \A q \in {stream, lastFrame, frame} : q \in Seq(Frames)
    BY <2>1
  <2> HIDE DEF Init
  <2>5. cpc = "off" /\ spc = "off" /\ lpc = "off"
    BY DEF Init
  <2> QED BY <2>2, <2>3, <2>4, <2>5 DEF TypeOK
<1>4. WholeFrames /\ Lives
  BY DEF WholeFrames, Lives
<1>5. Assembled
  BY <1>1, <1>2 DEF Assembled, Signalled
<1>6. HandedInOrder /\ TwiceInAll /\ AtMostTwice
  BY DEF HandedInOrder, TwiceInAll, Owed, AtMostTwice, Signalled
<1> QED BY <1>3, <1>4, <1>5, <1>6 DEF IInv, Inv

-----------------------------------------------------------------------------
(* The camera.                                                             *)
LEMMA WriteHeaderStep == ASSUME IInv, WriteHeader PROVE IInv'
<1> USE SplitAssumption DEF IInv, Inv, WriteHeader
<1>1. UNCHANGED <<stream, event, pieces, spc, frame, life, isRunning, handed, copies>> /\ Current' = Current
  BY DEF Current
<1>2. cpc = "idle" /\ cpc' \in {"set", "append"} /\ Current < MaxFrames
  OBVIOUS
<1> USE <1>1 DEF TypeOK
<1>3. lastFrame' \in Seq(Frames) /\ (event' => lastFrame' # <<>>)
  BY DEF CanWrite
<1>4. TypeOK' /\ Lives'
  BY <1>2, <1>3 DEF Lives, life
<1>5. WholeFrames'
  BY DEF WholeFrames, Whole
<1>6. CASE CanWrite
  <2>1. stream # <<>> /\ lastFrame' = stream /\ cpc' = "set"
    BY <1>6 DEF CanWrite
  <2>2. Whole(stream) /\ stream[1] = Current /\ Current \in Nat \ {0} /\ Signalled = Current - 1
    BY <1>2, <2>1 DEF Assembled
  <2>3. Signalled' = Current /\ Signalled = Current - 1
    BY <2>1, <2>2 DEF Signalled
  <2>4. Whole(lastFrame)'
    BY <2>1, <2>2 DEF Whole
  <2>5. Assembled'
    BY <1>2, <2>1, <2>2, <2>3, <2>4 DEF Assembled, Whole
  <2>6. HandedInOrder' /\ handed # Signalled' /\ (spc \in {"clear", "write"} => frame[1] # Signalled')
    <3>1. spc \in {"clear", "write"} => frame[1] \in Nat
      BY DEF WholeFrames, Whole, Frames
    <3>2. /\ handed \in Nat /\ handed <= Signalled
          /\ spc \in {"clear", "write"} => handed <= frame[1] /\ frame[1] <= Signalled
      BY DEF HandedInOrder, Frames
    <3> HIDE DEF IInv, Inv, TypeOK, WriteHeader
    <3>3. /\ handed <= Signalled' /\ handed # Signalled'
          /\ spc \in {"clear", "write"} => frame[1] <= Signalled' /\ frame[1] # Signalled'
      BY <2>2, <2>3, <3>1, <3>2
    <3> QED BY <1>1, <1>2, <2>1, <3>2, <3>3 DEF HandedInOrder
  <2>7. TwiceInAll' /\ AtMostTwice'
    BY <2>6 DEF TwiceInAll, Owed, AtMostTwice
  <2> QED BY <1>4, <1>5, <2>5, <2>6, <2>7
<1>7. CASE ~CanWrite
  <2>1. stream = <<>> /\ lastFrame' = lastFrame /\ cpc' = "append"
    BY <1>7 DEF CanWrite
  <2>2. Current = 0 /\ Signalled = 0 /\ Signalled' = 0
    BY <1>2, <2>1 DEF Assembled, Whole, Signalled
  <2>3. Assembled'
    BY <1>2, <2>1, <2>2 DEF Assembled, Whole
  <2>4. HandedInOrder' /\ TwiceInAll' /\ AtMostTwice'
    BY <1>2, <2>1, <2>2 DEF HandedInOrder, TwiceInAll, Owed, AtMostTwice
  <2> QED BY <1>4, <1>5, <2>3, <2>4
<1> QED BY <1>6, <1>7

LEMMA WriteSetStep == ASSUME IInv, WriteSet PROVE IInv'
<1> USE SplitAssumption DEF IInv, Inv, WriteSet, TypeOK
<1>1. UNCHANGED <<stream, lastFrame, pieces, spc, frame, life, handed, copies>> /\ Current' = Current
  BY DEF Current
<1>2. Signalled' = Signalled
  BY DEF Signalled
<1>3. TypeOK' /\ Lives' /\ WholeFrames'
  BY DEF Lives, WholeFrames, Whole, life, HandedInOrder
<1>4. Assembled'
  BY <1>1, <1>2 DEF Assembled, Whole
<1>5. HandedInOrder'
  BY <1>2 DEF HandedInOrder
<1>6. TwiceInAll' /\ AtMostTwice'
  BY <1>2 DEF TwiceInAll, Owed, AtMostTwice
<1> QED BY <1>3, <1>4, <1>5, <1>6

LEMMA WriteAppendStep == ASSUME IInv, WriteAppend PROVE IInv'
<1> USE SplitAssumption DEF IInv, Inv, WriteAppend, TypeOK
<1>1. /\ Current \in 0 .. MaxFrames /\ Current < MaxFrames /\ Current + 1 \in Frames
      /\ \A f \in Frames : pieces[f] > 0 <=> f <= Current
  BY DEF Assembled, Frames
<1>2. \A f \in Frames : pieces'[f] > 0 <=> f <= Current + 1
  BY <1>1 DEF Frames
<1>3. Current' = Current + 1
  <2>1. Current + 1 \in 0 .. MaxFrames
    BY <1>1 DEF Frames
  <2> QED BY <1>2, <2>1, Position DEF Current
<1>4. UNCHANGED <<lastFrame, event, isRunning, spc, frame, life, handed, copies>> /\ Signalled' = Signalled
  BY DEF Signalled
<1>5. stream' = <<Current + 1>> /\ stream' \in Seq(Frames) /\ pieces' \in [Frames -> 0 .. MaxPieces]
  BY <1>1
<1>6. TypeOK' /\ Lives'
  BY <1>4, <1>5 DEF Lives, life
<1>7. Signalled = Current
  BY DEF Assembled
<1>8. ASSUME NEW s \in Seq(Frames), Whole(s), s[1] <= Current
      PROVE  s[1] \in Frames /\ Len(s) = pieces'[s[1]]
  <2>1. s[1] \in Frames
    BY <1>8 DEF Whole
  <2>2. pieces'[s[1]] = pieces[s[1]]
    BY <1>1, <1>8, <2>1 DEF Frames
  <2> QED BY <1>8, <2>1, <2>2 DEF Whole
<1>9. WholeFrames'
  BY <1>4, <1>7, <1>8 DEF WholeFrames, Whole, HandedInOrder
<1>10. Whole(stream)'
  BY <1>1, <1>5 DEF Whole
<1>11. lastFrame # <<>> => Whole(lastFrame)'
  BY <1>4, <1>7, <1>8 DEF Assembled, Whole, Signalled
<1>12. Assembled'
  BY <1>1, <1>2, <1>3, <1>4, <1>5, <1>7, <1>10, <1>11 DEF Assembled
<1>13. HandedInOrder' /\ TwiceInAll' /\ AtMostTwice'
  BY <1>4 DEF HandedInOrder, TwiceInAll, Owed, AtMostTwice
<1> QED BY <1>6, <1>9, <1>12, <1>13

LEMMA WriteRestStep == ASSUME IInv, WriteRest PROVE IInv'
<1> USE SplitAssumption DEF IInv, Inv, WriteRest, TypeOK
<1>1. /\ Current \in Frames /\ pieces[Current] < MaxPieces
      /\ \A f \in Frames : pieces[f] > 0 <=> f <= Current
  BY DEF Assembled, Frames
<1>2. /\ pieces' = [pieces EXCEPT ![Current] = @ + 1] /\ pieces' \in [Frames -> 0 .. MaxPieces]
      /\ \A f \in Frames : pieces'[f] > 0 <=> f <= Current
  <2>1. pieces' = [pieces EXCEPT ![Current] = @ + 1] /\ pieces \in [Frames -> 0 .. MaxPieces]
    OBVIOUS
  <2>2. pieces[Current] + 1 \in 1 .. MaxPieces
    BY <1>1, <2>1
  <2> HIDE DEF IInv, Inv, WriteRest, TypeOK
  <2>3. \A f \in Frames : pieces'[f] = IF f = Current THEN pieces[f] + 1 ELSE pieces[f]
    BY <1>1, <2>1
  <2>4. pieces' \in [Frames -> 0 .. MaxPieces]
    BY <1>1, <2>1, <2>2
  <2>5. \A f \in Frames : pieces'[f] > 0 <=> f <= Current
    BY <1>1, <2>1, <2>2, <2>3 DEF Frames
  <2> QED BY <2>1, <2>4, <2>5
<1>3. Current' = Current
  BY <1>1, <1>2, Position DEF Current, Frames
<1>4. UNCHANGED <<lastFrame, event, isRunning, cpc, spc, frame, life, handed, copies>> /\ Signalled' = Signalled
  BY DEF Signalled
<1>5. Signalled = Current - 1
  BY <1>1 DEF Assembled, Frames
<1>6. Whole(stream) /\ stream[1] = Current /\ stream' = Append(stream, Current) /\ stream' \in Seq(Frames)
  BY <1>1 DEF Assembled, Frames
<1>7. TypeOK' /\ Lives'
  BY <1>2, <1>4, <1>6 DEF Lives, life
<1>8. Whole(stream)' /\ stream'[1] = Current
  <2>1. Len(stream) \in Nat \ {0} /\ Len(stream') = Len(stream) + 1
    BY <1>6 DEF Whole
  <2>2. \A n \in 1 .. Len(stream') : stream'[n] = Current
    BY <1>6, <2>1 DEF Whole
  <2> QED BY <1>1, <1>2, <1>6, <2>1, <2>2 DEF Whole
<1>9. ASSUME NEW s \in Seq(Frames), Whole(s), s[1] < Current
      PROVE  Len(s) = pieces'[s[1]]
  <2>1. s[1] \in Frames
    BY <1>9 DEF Whole
  <2>2. pieces'[s[1]] = pieces[s[1]]
    BY <1>1, <1>2, <1>9, <2>1 DEF Frames
  <2> QED BY <1>9, <2>2 DEF Whole
<1>10. WholeFrames'
  <2> SUFFICES ASSUME spc \in {"clear", "write"} PROVE Whole(frame)'
    BY <1>4 DEF WholeFrames
  <2>1. Whole(frame) /\ frame \in Seq(Frames) /\ frame[1] <= Signalled
    BY DEF WholeFrames, HandedInOrder
  <2>2. frame[1] \in Frames
    BY <2>1 DEF Whole
  <2>3. frame[1] < Current
    BY <1>1, <1>5, <2>1, <2>2 DEF Frames
  <2>4. Len(frame) = pieces'[frame[1]]
    BY <1>9, <2>1, <2>3
  <2> QED BY <1>4, <2>1, <2>4 DEF Whole
<1>11. lastFrame # <<>> => Whole(lastFrame)'
  <2> SUFFICES ASSUME lastFrame # <<>> PROVE Whole(lastFrame)'
    OBVIOUS
  <2>1. Whole(lastFrame) /\ lastFrame \in Seq(Frames)
    BY DEF Assembled
  <2>2. lastFrame[1] = Current - 1
    BY <1>5 DEF Signalled
  <2>3. lastFrame[1] < Current
    BY <1>1, <2>2 DEF Frames
  <2>4. Len(lastFrame) = pieces'[lastFrame[1]]
    BY <1>9, <2>1, <2>3
  <2> QED BY <1>4, <2>1, <2>4 DEF Whole
<1>12. Assembled'
  BY <1>1, <1>2, <1>3, <1>4, <1>5, <1>8, <1>11 DEF Assembled, Frames
<1>13. HandedInOrder' /\ TwiceInAll' /\ AtMostTwice'
  BY <1>4 DEF HandedInOrder, TwiceInAll, Owed, AtMostTwice
<1> QED BY <1>7, <1>10, <1>12, <1>13
-----------------------------------------------------------------------------
(* The streamer's thread.                                                  *)
LEMMA WaitStep == ASSUME IInv, Test \/ Wait PROVE IInv'
<1> USE DEF IInv, Inv, TypeOK, shared
<1>1. UNCHANGED <<stream, lastFrame, event, pieces, cpc, frame, life, handed, copies, isRunning>>
  BY DEF Test, Wait
<1>2. Current' = Current /\ Signalled' = Signalled
  BY <1>1 DEF Current, Signalled
<1>3. \/ spc = "test" /\ spc' \in {"wait", "off"}
      \/ spc = "wait" /\ spc' = "test"
      \/ spc = "wait" /\ spc' = "read" /\ event
  BY DEF Test, Wait
<1>4. TypeOK' /\ Lives' /\ WholeFrames'
  BY <1>1, <1>3 DEF Lives, WholeFrames, life
<1>5. Assembled'
  BY <1>1, <1>2 DEF Assembled, Whole
<1>6. HandedInOrder'
  BY <1>1, <1>2, <1>3 DEF HandedInOrder
<1>7. TwiceInAll' /\ AtMostTwice'
  BY <1>1, <1>2, <1>3 DEF TwiceInAll, Owed, AtMostTwice
<1> QED BY <1>4, <1>5, <1>6, <1>7

LEMMA ReadStep == ASSUME IInv, Read PROVE IInv'
<1> USE DEF IInv, Inv, TypeOK, shared, Read
<1>1. UNCHANGED <<stream, lastFrame, event, pieces, cpc, life, handed, copies, isRunning>>
  OBVIOUS
<1>2. Current' = Current /\ Signalled' = Signalled
  BY <1>1 DEF Current, Signalled
<1>3. lastFrame # <<>> /\ Whole(lastFrame) /\ frame' = lastFrame /\ frame'[1] = Signalled /\ Signalled \in Frames
  BY DEF HandedInOrder, Assembled, Whole, Signalled
<1>4. TypeOK' /\ Lives'
  BY <1>1 DEF Lives, life
<1>5. WholeFrames'
  BY <1>1, <1>3 DEF WholeFrames, Whole
<1>6. Assembled'
  BY <1>1, <1>2 DEF Assembled, Whole
<1>7. HandedInOrder'
  BY <1>1, <1>2, <1>3 DEF HandedInOrder, Frames
<1>8. TwiceInAll' /\ AtMostTwice'
  BY <1>1, <1>2, <1>3 DEF TwiceInAll, Owed, AtMostTwice
<1> QED BY <1>4, <1>5, <1>6, <1>7, <1>8

LEMMA ClearStep == ASSUME IInv, Clear PROVE IInv'
<1> USE DEF IInv, Inv, TypeOK, Clear
<1>1. UNCHANGED <<stream, lastFrame, pieces, cpc, frame, life, handed, copies, isRunning>>
  OBVIOUS
<1>2. Current' = Current /\ Signalled' = Signalled
  BY <1>1 DEF Current, Signalled
<1>3. TypeOK' /\ Lives' /\ WholeFrames'
  BY <1>1 DEF Lives, WholeFrames, Whole, life
<1>4. Assembled'
  BY <1>1, <1>2 DEF Assembled, Whole
<1>5. HandedInOrder' /\ TwiceInAll' /\ AtMostTwice'
  BY <1>1, <1>2 DEF HandedInOrder, TwiceInAll, Owed, AtMostTwice
<1> QED BY <1>3, <1>4, <1>5

LEMMA HandStep == ASSUME IInv, Hand PROVE IInv'
<1> USE SplitAssumption DEF IInv, Inv, TypeOK, Hand, shared
<1>1. UNCHANGED <<stream, lastFrame, event, pieces, cpc, life, isRunning>>
  OBVIOUS
<1>2. Current' = Current /\ Signalled' = Signalled
  BY <1>1 DEF Current, Signalled
<1>3. frame[1] \in Frames /\ handed <= frame[1] /\ frame[1] <= Signalled /\ handed' = frame[1]
  BY DEF WholeFrames, Whole, HandedInOrder
<1>4. TypeOK' /\ Lives' /\ WholeFrames'
  <2>1. frame' = <<>> /\ frame' \in Seq(Frames) /\ handed' \in 0 .. MaxFrames /\ copies' \in Nat
    BY <1>3 DEF Frames
  <2>2. TypeOK /\ spc' = "test"
    OBVIOUS
  <2>3. Lives' /\ WholeFrames'
    BY <1>1 DEF Lives, WholeFrames, life
  <2> HIDE DEF IInv, Inv, Hand
  <2>4. TypeOK'
    BY <1>1, <2>1, <2>2 DEF life
  <2> QED BY <2>3, <2>4
<1>5. Assembled'
  BY <1>1, <1>2 DEF Assembled, Whole
<1>6. HandedInOrder'
  BY <1>1, <1>2, <1>3 DEF HandedInOrder
<1>7. TwiceInAll' /\ AtMostTwice'
  <2>1. CASE frame[1] = Signalled
    BY <1>1, <1>2, <1>3, <2>1 DEF TwiceInAll, Owed, AtMostTwice
  <2>2. CASE frame[1] # Signalled
    BY <1>1, <1>2, <1>3, <2>2 DEF TwiceInAll, Owed, AtMostTwice
  <2> QED BY <2>1, <2>2
<1> QED BY <1>4, <1>5, <1>6, <1>7

(* start() and stop().                                                     *)
LEMMA LifeCycleStep == ASSUME IInv, LifeCycle PROVE IInv'
<1> USE SplitAssumption DEF IInv, Inv, TypeOK, shared
<1>1. UNCHANGED <<stream, lastFrame, event, pieces, frame, handed, copies>>
  BY DEF LifeCycle, Start, StartRecords, StartRaises, StopCloses, StopJoins
<1>2. Current' = Current /\ Signalled' = Signalled
  BY <1>1 DEF Current, Signalled
<1>3. /\ spc' = spc \/ (spc = "off" /\ spc' = "test")
      /\ cpc' = cpc \/ (cpc \in {"off", "idle"} /\ cpc' \in {"off", "idle"})
  BY DEF LifeCycle, Start, StartRecords, StartRaises, StopCloses, StopJoins, Lives
<1>4. /\ isRunning' \in BOOLEAN /\ starts' \in 0 .. MaxStarts
      /\ lpc' \in {"off", "starting", "on", "join"} /\ Lives'
  <2>1. CASE Start
    BY <2>1 DEF Start, Lives
  <2>2. CASE StartRecords
    BY <2>2 DEF StartRecords, Lives
  <2>3. CASE StartRaises
    BY <2>3 DEF StartRaises, Lives
  <2>4. CASE StopCloses
    BY <2>4 DEF StopCloses, Lives
  <2>5. CASE StopJoins
    BY <2>5 DEF StopJoins, Lives
  <2> QED BY <2>1, <2>2, <2>3, <2>4, <2>5 DEF LifeCycle
<1>5. TypeOK' /\ WholeFrames'
  BY <1>1, <1>3, <1>4 DEF WholeFrames, Whole
<1>6. Assembled'
  BY <1>1, <1>2, <1>3 DEF Assembled, Whole
<1>7. HandedInOrder' /\ TwiceInAll' /\ AtMostTwice'
  BY <1>1, <1>2, <1>3 DEF HandedInOrder, TwiceInAll, Owed, AtMostTwice
<1> QED BY <1>4, <1>5, <1>6, <1>7

-----------------------------------------------------------------------------
LEMMA StepInvariant == IInv /\ [Next]_vars => IInv'
<1> SUFFICES ASSUME IInv, [Next]_vars PROVE IInv'
  OBVIOUS
<1>1. CASE UNCHANGED vars
  <2>1. Current' = Current /\ Signalled' = Signalled
    BY <1>1 DEF vars, shared, Current, Signalled
  <2>2. TypeOK' /\ WholeFrames' /\ Lives'
    BY <1>1 DEF vars, shared, life, IInv, Inv, TypeOK, WholeFrames, Whole, Lives
  <2>3. Assembled'
    BY <1>1, <2>1 DEF vars, shared, life, IInv, Inv, Assembled, Whole
  <2>4. HandedInOrder' /\ TwiceInAll' /\ AtMostTwice'
    BY <1>1, <2>1 DEF vars, shared, life, IInv, Inv, HandedInOrder, TwiceInAll, Owed, AtMostTwice
  <2> QED BY <2>2, <2>3, <2>4 DEF IInv, Inv
<1>2. CASE Next
  BY <1>2, WriteHeaderStep, WriteSetStep, WriteAppendStep, WriteRestStep, WaitStep, ReadStep, ClearStep,
     HandStep, LifeCycleStep DEF Next, Camera, Streamer
<1> QED BY <1>1, <1>2

(* Types, and only whole frames in the hands of the streamer's thread      *)
(* (split_frame.py:41, 61-69).                                             *)
THEOREM FramesAreWhole == Spec => []Inv
<1>1. IInv => Inv
  BY DEF IInv
<1> QED BY InitInvariant, StepInvariant, <1>1, PTL DEF Spec

(* No frame is handed out a third time (split_frame.py:41-48, 64-65).      *)
THEOREM NeverThrice == Spec => []AtMostTwice
<1>1. IInv => AtMostTwice
  BY DEF IInv
<1> QED BY InitInvariant, StepInvariant, <1>1, PTL DEF Spec

(* The streamer implements the feed: complete frames only, never an older  *)
(* one after a newer (split_frame.py:41-48, 62-65).                        *)
THEOREM FeedImplemented == Spec => ImplementsFrameFeed
<1>1. Init => Feed!Init
  BY DEF Init, Feed!Init, Signalled
<1>2. IInv /\ [Next]_vars => [Feed!Next]_<<Signalled, handed>>
  <2> SUFFICES ASSUME IInv, [Next]_vars PROVE [Feed!Next]_<<Signalled, handed>>
    OBVIOUS
  <2> USE DEF IInv, Inv
  <2>1. CASE WriteHeader
    <3>1. CASE CanWrite
      <4>1. Whole(stream) /\ stream[1] = Current /\ Current \in Nat \ {0} /\ Signalled = Current - 1
        BY <2>1, <3>1 DEF WriteHeader, CanWrite, Assembled
      <4>2. Signalled' = Current /\ handed' = handed
        BY <2>1, <3>1, <4>1 DEF WriteHeader, CanWrite, Signalled
      <4> QED BY <4>1, <4>2 DEF Feed!Next, Feed!Complete
    <3>2. CASE ~CanWrite
      BY <2>1, <3>2 DEF WriteHeader, Signalled
    <3> QED BY <3>1, <3>2
  <2>2. CASE Hand
    <3>1. handed' = frame[1] /\ handed <= frame[1] /\ frame[1] <= Signalled
      BY <2>2 DEF Hand, HandedInOrder
    <3>2. Signalled' = Signalled
      BY <2>2 DEF Hand, Signalled, shared
    <3>3. handed \in Nat /\ frame[1] \in Nat /\ Signalled \in Nat
      <4>1. handed \in Nat /\ Whole(frame) /\ frame \in Seq(Frames)
        BY <2>2 DEF Hand, TypeOK, WholeFrames
      <4>2. lastFrame \in Seq(Frames)
        BY DEF TypeOK
      <4> QED BY <4>1, <4>2, SplitAssumption DEF Whole, Signalled, Frames
    <3> QED BY <3>1, <3>2, <3>3 DEF Feed!Next, Feed!Hand
  <2>3. CASE WriteSet \/ WriteAppend \/ WriteRest \/ Test \/ Wait \/ Read \/ Clear \/ LifeCycle
    BY <2>3 DEF WriteSet, WriteAppend, WriteRest, Test, Wait, Read, Clear, LifeCycle, Start, StartRecords,
                StartRaises, StopCloses, StopJoins, Signalled, shared
  <2>4. CASE UNCHANGED vars
    BY <2>4 DEF vars, shared, Signalled
  <2> QED BY <2>1, <2>2, <2>3, <2>4 DEF Next, Camera, Streamer
<1> QED BY InitInvariant, StepInvariant, <1>1, <1>2, PTL DEF Spec, ImplementsFrameFeed, Feed!Spec
=============================================================================
