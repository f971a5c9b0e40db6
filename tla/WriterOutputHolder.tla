------------------------- MODULE WriterOutputHolder -------------------------
(***************************************************************************)
(* outputs/output_holder.py: the thread that hands every captured buffer   *)
(* to all registered outputs.  The camera's thread appends buffers with    *)
(* write(); the writer thread takes them one at a time and, holding        *)
(* output_lock, lets a pool of workers write to every output and waits for *)
(* all of them; other threads add and remove outputs under the same lock,  *)
(* rebind an output at a split marker, or stop the writer.                 *)
(*                                                                         *)
(* An output is written to by the pool's worker as one step with a verdict *)
(* (write() returned a true value, or it returned a false one or raised).  *)
(***************************************************************************)
EXTENDS Naturals, Sequences, FiniteSets

CONSTANTS Ids,        \* output ids
          Outputs,    \* output objects
          IdOf,       \* the id each object is registered under
          Split,      \* the marker notify_split() appends (True in the code)
          MaxFrames,  \* bound: buffers the camera captures
          MaxRebinds, \* bound: rebind_output() calls
          MaxAdds,    \* bound: add_output() calls
          None

ASSUME HolderAssumption ==
  /\ IdOf \in [Outputs -> Ids] /\ IsFiniteSet(Ids)
  /\ Split \notin Nat /\ None \notin Nat \cup {Split} \cup Outputs
  /\ MaxFrames \in Nat /\ MaxRebinds \in Nat /\ MaxAdds \in Nat

VARIABLES wpc,        \* the writer thread
          writable,
          buffer,     \* aux_buffer
          outputs,    \* outputs: id -> object
          current,    \* the buffer of this round
          futures,    \* the round's futures: object -> its state
          toAdd,      \* outputs_to_add: id -> object
          visit, size,\* iteration over outputs_to_add: ids to come, its size
          rebound,    \* the Event rebind_wait
          rpc, wanted,\* the thread in rebind_output(), its new output
          fate,       \* history: what became of the last rebind of each id
          sent, adds, rebinds,          \* counters for the bounds
          taken, got, joined, stopped   \* history: buffers handed out, per
                                        \* output what it got and when it
                                        \* joined; was a started writer stopped

round   == <<wpc, current, futures, visit, size>>
rebind  == <<toAdd, rebound, rpc, wanted, rebinds, fate>>
history == <<taken, got, joined>>
vars == <<round, writable, buffer, outputs, rebind, sent, adds, history, stopped>>

FutureStates == {"none", "pending", "true", "false"}

(* "prepared" in outputs_to_add; "due" once its marker is in the buffer;   *)
(* "bound" by that marker or another's; "late" if it was prepared while a  *)
(* marker was being handled, which may clear it unbound.                   *)
Fates == {"none", "prepared", "due", "bound", "late"}

TypeOK ==
  /\ wpc \in {"unstarted", "starting", "loop", "popped", "collect", "split", "reset", "signal", "done"}
  /\ writable \in BOOLEAN /\ rebound \in BOOLEAN /\ stopped \in BOOLEAN
  /\ buffer \in Seq(1 .. MaxFrames \cup {Split})
  /\ current \in 1 .. MaxFrames \cup {Split, None}
  /\ outputs \in [Ids -> Outputs \cup {None}] /\ toAdd \in [Ids -> Outputs \cup {None}]
  /\ \A i \in Ids : \A f \in {outputs, toAdd} : f[i] # None => IdOf[f[i]] = i
  /\ futures \in [Outputs -> FutureStates]
  /\ visit \subseteq Ids /\ size \in 0 .. Cardinality(Ids)
  /\ fate \in [Ids -> Fates]
  /\ rpc \in {"idle", "prepared", "waiting"} /\ wanted \in Outputs \cup {None}
  /\ sent \in 0 .. MaxFrames /\ rebinds \in 0 .. MaxRebinds /\ adds \in 0 .. MaxAdds
  /\ taken \in Seq(1 .. MaxFrames \cup {Split})
  /\ got \in [Outputs -> Seq(1 .. MaxFrames \cup {Split})]
  /\ joined \in [Outputs -> Nat]

Init ==
  /\ wpc = "unstarted" /\ writable = FALSE /\ buffer = <<>>
  /\ outputs = [i \in Ids |-> None]
  /\ current = None /\ futures = [o \in Outputs |-> "none"]
  /\ toAdd = [i \in Ids |-> None] /\ visit = {} /\ size = 0
  /\ rebound = FALSE /\ rpc = "idle" /\ wanted = None
  /\ fate = [i \in Ids |-> "none"]
  /\ sent = 0 /\ adds = 0 /\ rebinds = 0
  /\ taken = <<>> /\ got = [o \in Outputs |-> <<>>] /\ joined = [o \in Outputs |-> 0]
  /\ stopped = FALSE

Registered == {o \in Outputs : outputs[IdOf[o]] = o}
Prepared == {i \in Ids : toAdd[i] # None}
LockFree == wpc # "collect"      \* only the writer holds output_lock for more than a step

-----------------------------------------------------------------------------
(* The camera's thread, and stop() from any thread.                        *)
Write ==
  /\ sent < MaxFrames
  /\ sent' = sent + 1
  /\ buffer' = IF writable THEN Append(buffer, sent + 1) ELSE buffer
  /\ UNCHANGED <<round, writable, outputs, rebind, adds, history, stopped>>

Stop ==
  /\ writable' = FALSE
  /\ stopped' = (stopped \/ wpc # "unstarted")
  /\ UNCHANGED <<round, buffer, outputs, rebind, sent, adds, history>>

-----------------------------------------------------------------------------
(* An output that enters `outputs' gets every buffer from now on; history  *)
(* is kept of the registered ones only.                                    *)
Joins(o) ==
  /\ outputs' = [outputs EXCEPT ![IdOf[o]] = o]
  /\ got' = [p \in Outputs |-> IF IdOf[p] = IdOf[o] THEN <<>> ELSE got[p]]
  /\ joined' = [p \in Outputs |-> IF p = o THEN Len(taken)
                                  ELSE IF IdOf[p] = IdOf[o] THEN 0 ELSE joined[p]]
  /\ UNCHANGED taken

Leaves(i) ==
  /\ outputs' = [outputs EXCEPT ![i] = None]
  /\ got' = [p \in Outputs |-> IF IdOf[p] = i THEN <<>> ELSE got[p]]
  /\ joined' = [p \in Outputs |-> IF IdOf[p] = i THEN 0 ELSE joined[p]]
  /\ UNCHANGED taken

(* add_output(id, output), also over an output with the same id.           *)
AddOutput(o) ==
  /\ adds < MaxAdds /\ o \notin Registered
  /\ LockFree
  /\ adds' = adds + 1
  /\ Joins(o)
  /\ UNCHANGED <<round, writable, buffer, rebind, sent, stopped>>

RemoveOutputNow(i) ==            \* mutant of RemoveOutput: without the lock
  /\ outputs[i] # None
  /\ Leaves(i)
  /\ UNCHANGED <<round, writable, buffer, rebind, sent, adds, stopped>>

(* remove_output(id); KeyError when there is none changes nothing.         *)
RemoveOutput(i) ==
  /\ outputs[i] # None /\ LockFree
  /\ Leaves(i)
  /\ UNCHANGED <<round, writable, buffer, rebind, sent, adds, stopped>>

-----------------------------------------------------------------------------
(* The writer thread: start(), then run().                                 *)
Start ==
  /\ wpc = "unstarted"
  /\ wpc' = "starting"
  /\ UNCHANGED <<writable, buffer, outputs, current, futures, visit, size, rebind, sent, adds, history, stopped>>

Run ==
  /\ wpc = "starting"
  /\ wpc' = "loop" /\ writable' = TRUE
  /\ UNCHANGED <<buffer, outputs, current, futures, visit, size, rebind, sent, adds, history, stopped>>

(* The loop's test, then popleft(); an empty buffer is an IndexError and a *)
(* short sleep, after which it looks again.                                *)
Pop ==
  /\ wpc = "loop" /\ writable /\ buffer # <<>>
  /\ wpc' = "popped"
  /\ current' = Head(buffer) /\ buffer' = Tail(buffer)
  /\ UNCHANGED <<writable, outputs, futures, visit, size, rebind, sent, adds, history, stopped>>

Exit ==
  /\ wpc = "loop" /\ ~writable
  /\ wpc' = "done"
  /\ UNCHANGED <<writable, buffer, outputs, current, futures, visit, size, rebind, sent, adds, history, stopped>>

(* Takes output_lock and submits the write for every output, markers too.  *)
Submit ==
  /\ wpc = "popped"
  /\ wpc' = "collect"
  /\ futures' = [o \in Outputs |-> IF o \in Registered THEN "pending" ELSE "none"]
  /\ taken' = Append(taken, current)
  /\ UNCHANGED <<writable, buffer, outputs, current, visit, size, rebind, sent, adds, got, joined, stopped>>

(* A pool worker runs output.write(buffer).                                *)
Worker(o) ==
  /\ futures[o] = "pending"
  /\ \/ /\ futures' = [futures EXCEPT ![o] = "true"]
        /\ got' = [got EXCEPT ![o] = Append(@, current)]
     \/ /\ futures' = [futures EXCEPT ![o] = "false"]
        /\ UNCHANGED got
  /\ UNCHANGED <<wpc, writable, buffer, outputs, current, visit, size, rebind, sent, adds, taken, joined, stopped>>

CollectTrue(o) ==                \* mutant of Collect: waits only for good news
  /\ wpc = "collect" /\ futures[o] = "true"
  /\ futures' = [futures EXCEPT ![o] = "none"]
  /\ UNCHANGED <<wpc, writable, buffer, outputs, current, visit, size, rebind, sent, adds, history, stopped>>

(* Mutant of Collect: does not wait for the result.                        *)
CollectUnfinished(o) ==
  /\ wpc = "collect" /\ futures[o] # "none"
  /\ futures' = [futures EXCEPT ![o] = "none"]
  /\ IF futures[o] = "false" THEN Leaves(IdOf[o]) ELSE UNCHANGED <<outputs, history>>
  /\ UNCHANGED <<wpc, writable, buffer, current, visit, size, rebind, sent, adds, stopped>>

(* future.result(), and `del self.outputs[oid]' when it is false or raises.*)
Collect(o) ==
  /\ wpc = "collect" /\ futures[o] \in {"true", "false"}
  /\ futures' = [futures EXCEPT ![o] = "none"]
  /\ IF futures[o] = "false" THEN Leaves(IdOf[o]) ELSE UNCHANGED <<outputs, history>>
  /\ UNCHANGED <<wpc, writable, buffer, current, visit, size, rebind, sent, adds, stopped>>

EndRoundUnmarked ==              \* mutant of EndRound: no look at the marker
  /\ wpc = "collect" /\ \A o \in Outputs : futures[o] = "none"
  /\ wpc' = "loop" /\ current' = None
  /\ UNCHANGED <<writable, buffer, outputs, futures, visit, size, rebind, sent, adds, history, stopped>>

(* The round is over and output_lock released.                             *)
EndRound ==
  /\ wpc = "collect" /\ \A o \in Outputs : futures[o] = "none"
  /\ IF current = Split
     THEN wpc' = "split" /\ visit' = Prepared /\ size' = Cardinality(Prepared)
     ELSE wpc' = "loop" /\ UNCHANGED <<visit, size>>
  /\ current' = None
  /\ UNCHANGED <<writable, buffer, outputs, futures, rebind, sent, adds, history, stopped>>

-----------------------------------------------------------------------------
(* A split marker: the prepared outputs replace theirs, without the lock.  *)
SplitBind(i) ==
  /\ wpc = "split" /\ i \in visit
  /\ Cardinality(Prepared) = size
  /\ Joins(toAdd[i])
  /\ visit' = visit \ {i}
  /\ fate' = [fate EXCEPT ![i] = "bound"]
  /\ UNCHANGED <<wpc, writable, buffer, current, futures, size, toAdd, rebound, rpc, wanted, rebinds, sent, adds, stopped>>

(* "dictionary changed size during iteration": the holder stops itself.    *)
SplitRaises ==
  /\ wpc = "split" /\ Cardinality(Prepared) # size
  /\ writable' = FALSE /\ stopped' = TRUE /\ wpc' = "loop" /\ visit' = {} /\ size' = 0
  /\ UNCHANGED <<buffer, outputs, current, futures, rebind, sent, adds, history>>

SplitBoundEarly ==               \* mutant of SplitBound: leaves the loop too early
  /\ wpc = "split" /\ Cardinality(Prepared) = size
  /\ wpc' = "reset" /\ visit' = {}
  /\ UNCHANGED <<writable, buffer, outputs, current, futures, size, rebind, sent, adds, history, stopped>>

SplitBound ==
  /\ wpc = "split" /\ visit = {} /\ Cardinality(Prepared) = size
  /\ wpc' = "reset"
  /\ UNCHANGED <<writable, buffer, outputs, current, futures, visit, size, rebind, sent, adds, history, stopped>>

(* All of outputs_to_add is dropped, what has come since included; then    *)
(* whoever waits is told.                                                  *)
SplitReset ==
  /\ wpc = "reset"
  /\ wpc' = "signal"
  /\ toAdd' = [i \in Ids |-> None] /\ size' = 0
  /\ UNCHANGED <<writable, buffer, outputs, current, futures, visit, rebound, rpc, wanted, rebinds, fate, sent, adds, history, stopped>>

SplitSignal ==
  /\ wpc = "signal"
  /\ wpc' = "loop"
  /\ rebound' = TRUE
  /\ UNCHANGED <<writable, buffer, outputs, current, futures, visit, size, toAdd, rpc, wanted, rebinds, fate, sent, adds, history, stopped>>

(* rebind_output(id, output): prepare_new_output; the camera's             *)
(* split_recording, which may raise; notify_split.  The caller then waits   *)
(* in wait_for_rebind(), or does not.                                      *)
Prepare(o) ==
  /\ rpc = "idle" /\ rebinds < MaxRebinds /\ o \notin Registered
  /\ rpc' = "prepared" /\ wanted' = o /\ rebinds' = rebinds + 1
  /\ toAdd' = [toAdd EXCEPT ![IdOf[o]] = o]
  /\ fate' = [fate EXCEPT ![IdOf[o]] = IF wpc \in {"split", "reset"} THEN "late" ELSE "prepared"]
  /\ UNCHANGED <<round, writable, buffer, outputs, rebound, sent, adds, history, stopped>>

SplitFails ==
  /\ rpc = "prepared"
  /\ rpc' = "idle" /\ wanted' = None
  /\ UNCHANGED <<round, writable, buffer, outputs, toAdd, rebound, rebinds, fate, sent, adds, history, stopped>>

NotifySplit ==
  /\ rpc = "prepared"
  /\ \/ rpc' = "waiting" /\ UNCHANGED wanted
     \/ rpc' = "idle" /\ wanted' = None
  /\ buffer' = Append(buffer, Split)
  /\ fate' = [fate EXCEPT ![IdOf[wanted]] = IF @ = "prepared" THEN "due" ELSE @]
  /\ UNCHANGED <<round, writable, outputs, toAdd, rebound, rebinds, sent, adds, history, stopped>>

Rebound ==
  /\ rpc = "waiting" /\ rebound
  /\ rpc' = "idle" /\ rebound' = FALSE /\ wanted' = None
  /\ UNCHANGED <<round, writable, buffer, outputs, toAdd, rebinds, fate, sent, adds, history, stopped>>

-----------------------------------------------------------------------------
Writer == \/ Start \/ Run \/ Pop \/ Exit \/ Submit
          \/ (\E o \in Outputs : Collect(o)) \/ EndRound
          \/ (\E i \in Ids : SplitBind(i)) \/ SplitRaises \/ SplitBound \/ SplitReset \/ SplitSignal
Rebinder == (\E o \in Outputs : Prepare(o)) \/ SplitFails \/ NotifySplit \/ Rebound

Next == \/ Write \/ Stop
        \/ \E o \in Outputs : AddOutput(o) \/ Worker(o)
        \/ \E i \in Ids : RemoveOutput(i)
        \/ Writer \/ Rebinder

(* Threads that can run do; a write to an output ends, because a socket's  *)
(* has a timeout (client_socket_wrap.py:19).                               *)
Fairness == WF_vars(Writer) /\ \A o \in Outputs : WF_vars(Worker(o))

Spec == Init /\ [][Next]_vars /\ Fairness

-----------------------------------------------------------------------------
(* A registered output has been written every buffer handed out since it   *)
(* joined, in order and without a gap: the last one may be in flight       *)
(* (output_holder.py:79-93, test_write).                                   *)
Missing(o) == IF futures[o] \in {"pending", "false"} THEN 1 ELSE 0
NoGaps ==
  \A o \in Registered : got[o] = SubSeq(taken, joined[o] + 1, Len(taken) - Missing(o))

(* remove_output() returns only when nothing is being written to what it   *)
(* removed: its caller may close the socket or the file.                   *)
NoWriteAfterRemove ==
  \A o \in Outputs : futures[o] = "pending" => o \in Registered

(* A round is a buffer's: only in it is anything written, the buffer to    *)
(* the outputs that were there at its begin; and a marker's iteration is   *)
(* over outputs that stay prepared until it has ended.                     *)
RoundsInOrder ==
  /\ current # None <=> wpc \in {"popped", "collect"}
  /\ wpc = "collect" => taken # <<>> /\ taken[Len(taken)] = current
  /\ \A o \in Outputs : futures[o] # "none" => wpc = "collect" /\ o \in Registered
  /\ \A o \in Registered : joined[o] + Missing(o) <= Len(taken)
  /\ visit \subseteq Prepared /\ (wpc # "split" => visit = {})

(* What rebind_output() has prepared stays so until a marker has bound it: *)
(* a marker at its iteration has yet to come to it.                        *)
StaysPrepared ==
  /\ \A i \in Ids : fate[i] \in {"prepared", "due"} =>
       toAdd[i] # None /\ wpc # "reset" /\ (wpc = "split" => i \in visit)
  /\ rpc # "idle" => wanted \in Outputs

(* Types, and the round's hold on the outputs it writes to                 *)
(* (output_holder.py:39-42, 73-102).                                       *)
Inv == TypeOK /\ NoWriteAfterRemove /\ RoundsInOrder /\ StaysPrepared

(* Unless the writer is stopped every rebind is bound, its caller waiting  *)
(* or gone: until then its output is prepared and a marker on its way.  A  *)
(* caller that waits is told.  Only an output prepared while the writer    *)
(* handles a marker ("late") may be dropped unbound, and its caller be     *)
(* told nevertheless (output_holder.py:67-72, 95-102).                     *)
MarkerComing == (\E n \in 1 .. Len(buffer) : buffer[n] = Split) \/ current = Split \/ wpc = "split"
NoLostRebind ==
  /\ \A i \in Ids :
       /\ fate[i] \in {"prepared", "due"} => toAdd[i] # None
       /\ fate[i] = "due" /\ ~stopped => MarkerComing
  /\ rpc = "waiting" /\ ~stopped => rebound \/ MarkerComing \/ wpc \in {"reset", "signal"}

(* What was captured is handed out unless the writer is stopped, whatever  *)
(* the outputs do (output_holder.py:77-93).                                *)
Drains == (wpc \in {"loop", "popped", "collect"} /\ buffer # <<>>) ~> (buffer = <<>> \/ ~writable)

=============================================================================
