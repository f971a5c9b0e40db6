----------------------------- MODULE SplitFrame -----------------------------
(***************************************************************************)
(* streamers/split_frame.py in the life cycle of streamers/base.py: the    *)
(* camera's thread puts frames together from the buffers it writes, and a  *)
(* thread of the streamer hands them to the output one at a time.  The two *)
(* share last_frame and an event, and no lock.                             *)
(*                                                                         *)
(* A buffer is the number of the frame it is part of; the first buffer of  *)
(* a frame begins with the splitter string, the others do not.             *)
(***************************************************************************)
EXTENDS Naturals, Sequences

CONSTANTS MaxFrames,  \* bound: frames the camera produces
          MaxPieces,  \* bound: buffers of a frame
          MaxStarts   \* bound: start() calls that do something

Frames == 1 .. MaxFrames

ASSUME SplitAssumption ==
  /\ MaxFrames \in Nat \ {0} /\ MaxPieces \in Nat \ {0} /\ MaxStarts \in Nat

VARIABLES stream, lastFrame, event, isRunning,
          pieces,         \* buffers the camera wrote of each frame
          cpc,            \* the camera's thread in write()
          spc, frame,     \* streamer_thread in stream_frames(), its frame
          lpc, starts,    \* the thread in start() and stop()
          handed, copies  \* history: last frame handed to the output, how often

shared == <<stream, lastFrame, event, isRunning, pieces>>
life   == <<lpc, starts>>
vars   == <<shared, cpc, spc, frame, life, handed, copies>>

TypeOK ==
  /\ \A s \in {stream, lastFrame, frame} : s \in Seq(Frames)
  /\ event \in BOOLEAN /\ isRunning \in BOOLEAN
  /\ pieces \in [Frames -> 0 .. MaxPieces]
  /\ cpc \in {"off", "idle", "set", "append"}
  /\ spc \in {"off", "test", "wait", "read", "clear", "write"}
  /\ lpc \in {"off", "starting", "on", "join"} /\ starts \in 0 .. MaxStarts
  /\ handed \in 0 .. MaxFrames /\ copies \in Nat
  /\ event => lastFrame # <<>>

Init ==
  /\ stream = <<>> /\ lastFrame = <<>> /\ event = FALSE /\ isRunning = FALSE
  /\ pieces = [f \in Frames |-> 0]
  /\ cpc = "off" /\ spc = "off" /\ frame = <<>>
  /\ lpc = "off" /\ starts = 0 /\ handed = 0 /\ copies = 0

-----------------------------------------------------------------------------
(* The camera: it is at the buffer after the last one it wrote.            *)
Current == CHOOSE n \in 0 .. MaxFrames :
             \A f \in Frames : pieces[f] > 0 <=> f <= n

(* can_write for a buffer that begins with the splitter string.            *)
CanWrite == stream # <<>>

(* write() of such a buffer, up to the assignment of last_frame.           *)
WriteHeader ==
  /\ cpc = "idle" /\ Current < MaxFrames
  /\ IF CanWrite THEN lastFrame' = stream /\ cpc' = "set"
                 ELSE cpc' = "append" /\ UNCHANGED lastFrame
  /\ UNCHANGED <<stream, event, isRunning, pieces, spc, frame, life, handed, copies>>

WriteSet ==
  /\ cpc = "set"
  /\ event' = TRUE /\ cpc' = "append"
  /\ UNCHANGED <<stream, lastFrame, isRunning, pieces, spc, frame, life, handed, copies>>

WriteAppendNoTruncate ==         \* mutant of WriteAppend: the stream only grows
  /\ cpc = "append" /\ cpc' = "idle"
  /\ stream' = Append(stream, Current + 1)
  /\ pieces' = [pieces EXCEPT ![Current + 1] = 1]
  /\ UNCHANGED <<lastFrame, event, isRunning, spc, frame, life, handed, copies>>

WriteAppend ==
  /\ cpc = "append" /\ cpc' = "idle"
  /\ stream' = <<Current + 1>>
  /\ pieces' = [pieces EXCEPT ![Current + 1] = 1]
  /\ UNCHANGED <<lastFrame, event, isRunning, spc, frame, life, handed, copies>>

(* A further buffer of the same frame.                                     *)
WriteRest ==
  /\ cpc = "idle" /\ Current > 0 /\ pieces[Current] < MaxPieces
  /\ stream' = Append(stream, Current)
  /\ pieces' = [pieces EXCEPT ![Current] = @ + 1]
  /\ UNCHANGED <<lastFrame, event, isRunning, cpc, spc, frame, life, handed, copies>>

Camera == WriteHeader \/ WriteSet \/ WriteAppend \/ WriteRest

-----------------------------------------------------------------------------
TestClears ==                    \* mutant of Test: clears the event as well
  /\ spc = "test"
  /\ spc' = IF isRunning THEN "wait" ELSE "off"
  /\ event' = FALSE
  /\ UNCHANGED <<stream, lastFrame, isRunning, pieces, cpc, frame, life, handed, copies>>

(* stream_frames()                                                         *)
Test ==
  /\ spc = "test"
  /\ spc' = IF isRunning THEN "wait" ELSE "off"
  /\ UNCHANGED <<shared, cpc, frame, life, handed, copies>>

(* get_next_frame(timeout=1): the event is set, or there is no frame.      *)
Wait ==
  /\ spc = "wait"
  /\ spc' = IF event THEN "read" ELSE "test"
  /\ UNCHANGED <<shared, cpc, frame, life, handed, copies>>

ReadStream ==                    \* mutant of Read: what the camera writes to
  /\ spc = "read" /\ spc' = "clear"
  /\ frame' = stream
  /\ UNCHANGED <<shared, cpc, life, handed, copies>>

Read ==
  /\ spc = "read" /\ spc' = "clear"
  /\ frame' = lastFrame
  /\ UNCHANGED <<shared, cpc, life, handed, copies>>

ClearNot ==                      \* mutant of Clear
  /\ spc = "clear" /\ spc' = "write"
  /\ UNCHANGED <<shared, cpc, frame, life, handed, copies>>

Clear ==
  /\ spc = "clear" /\ spc' = "write"
  /\ event' = FALSE
  /\ UNCHANGED <<stream, lastFrame, isRunning, pieces, cpc, frame, life, handed, copies>>

(* output.write(frame); what it raises is caught.                          *)
Hand ==
  /\ spc = "write" /\ spc' = "test"
  /\ handed' = frame[1] /\ frame' = <<>>
  /\ copies' = IF handed = frame[1] THEN copies + 1 ELSE 1
  /\ UNCHANGED <<shared, cpc, life>>

Streamer == Test \/ Wait \/ Read \/ Clear \/ Hand

-----------------------------------------------------------------------------
(* start() and stop() under the instance's lock.  The thread is started    *)
(* first; then the writer, which cannot be started twice, and the camera.  *)
Start ==
  /\ lpc = "off" /\ starts < MaxStarts
  /\ isRunning' = TRUE /\ spc' = "test"
  /\ lpc' = "starting" /\ starts' = starts + 1
  /\ UNCHANGED <<stream, lastFrame, event, pieces, cpc, frame, handed, copies>>

StartRecords ==
  /\ lpc = "starting" /\ lpc' = "on"
  /\ starts = 1 /\ cpc' = "idle"
  /\ UNCHANGED <<shared, spc, frame, starts, handed, copies>>

StartRaises ==
  /\ lpc = "starting" /\ lpc' = "on"
  /\ UNCHANGED <<shared, cpc, spc, frame, starts, handed, copies>>

(* close() waits for the camera's thread, which writes no more.            *)
StopCloses ==
  /\ lpc = "on" /\ cpc \in {"off", "idle"}
  /\ cpc' = "off" /\ lpc' = "join"
  /\ isRunning' = FALSE
  /\ UNCHANGED <<stream, lastFrame, event, pieces, spc, frame, starts, handed, copies>>

(* _teardown_streamer joins the thread.                                    *)
StopJoins ==
  /\ lpc = "join" /\ spc = "off"
  /\ lpc' = "off"
  /\ UNCHANGED <<shared, cpc, spc, frame, starts, handed, copies>>

LifeCycle == Start \/ StartRecords \/ StartRaises \/ StopCloses \/ StopJoins

Next == Camera \/ Streamer \/ LifeCycle

(* Threads that can run do; a start() and a stop() once begun go on.  The  *)
(* camera may pause for ever between two buffers.                          *)
Fairness == /\ WF_vars(Streamer) /\ WF_vars(cpc # "idle" /\ Camera)
            /\ WF_vars(lpc # "on" /\ LifeCycle)

Spec == Init /\ [][Next]_vars /\ Fairness

-----------------------------------------------------------------------------
Signalled == IF lastFrame = <<>> THEN 0 ELSE lastFrame[1]

Whole(s) ==
  s # <<>> /\ Len(s) = pieces[s[1]] /\ \A n \in 1 .. Len(s) : s[n] = s[1]

(* A frame handed to the output is one frame of the camera, all of it,     *)
(* however its buffers and the hand-over interleave (split_frame.py:61-69) *)
WholeFrames == spc \in {"clear", "write"} => Whole(frame)

(* The camera's thread and the streamer's exist between start and stop.    *)
Lives == (lpc = "off" => spc = "off") /\ (cpc # "off" => lpc = "on")

(* The stream is what has been written of the current frame, last_frame    *)
(* the frame before; while write() is at a splitter string, the current    *)
(* one, of which nothing more comes.                                       *)
Assembled ==
  /\ \A f \in Frames : pieces[f] > 0 <=> f <= Current
  /\ Current \in 0 .. MaxFrames
  /\ IF Current = 0 THEN stream = <<>> ELSE Whole(stream) /\ stream[1] = Current
  /\ lastFrame # <<>> => Whole(lastFrame)
  /\ IF cpc \in {"set", "append"} THEN Signalled = Current /\ Current < MaxFrames
                                  ELSE Signalled = IF Current = 0 THEN 0 ELSE Current - 1

(* What the streamer's thread has is not older than what it has handed     *)
(* out, nor newer than last_frame.                                         *)
HandedInOrder ==
  /\ cpc = "set" \/ spc = "read" => lastFrame # <<>>
  /\ handed <= Signalled
  /\ spc \in {"clear", "write"} => handed <= frame[1] /\ frame[1] <= Signalled

(* How often last_frame may still be handed out: once for what the thread  *)
(* has or is about to read, once for an event it will see, and for one the *)
(* camera is about to set.                                                 *)
Owed ==
  (IF spc = "read" \/ (spc \in {"clear", "write"} /\ frame[1] = Signalled) THEN 1 ELSE 0)
  + (IF event /\ spc \notin {"read", "clear"} THEN 1 ELSE 0)
  + (IF cpc = "set" THEN 1 ELSE 0)

TwiceInAll ==
  /\ (IF handed = Signalled THEN copies ELSE 0) + Owed <= 2
  /\ spc \in {"clear", "write"} /\ handed = frame[1] => copies <= 1

(* Types, no event without a frame, whole frames and their order           *)
(* (split_frame.py:41-48, 61-69).                                          *)
Inv == TypeOK /\ WholeFrames /\ Lives /\ Assembled /\ HandedInOrder /\ TwiceInAll

(* A frame assigned before its event is set may be handed out on the event *)
(* of the one before and again on its own, but never a third time          *)
(* (split_frame.py:41-48, 64-65).                                          *)
AtMostTwice == copies <= 2

(* One signalled while the thread writes or waits is handed out, or a      *)
(* later one is, although the camera pauses: only what comes between the   *)
(* thread's read and its clear() is passed over (split_frame.py:41-45).    *)
TakenUp ==
  \A f \in Frames :
    (event /\ spc \in {"write", "test", "wait"} /\ Signalled = f)
      ~> (handed >= f \/ ~isRunning)

(* All of it implements the feed's promise: only completed frames, never   *)
(* an older one after a newer (split_frame.py:41-48, 62-65).               *)
Feed == INSTANCE FrameFeed WITH latest <- Signalled
ImplementsFrameFeed == Feed!Spec

=============================================================================
