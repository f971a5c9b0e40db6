---------------------------- MODULE ClientProofs ----------------------------
(***************************************************************************)
(* Proofs about Client for any number of streams and of calling threads:   *)
(* what the readers and the calls find under the id.                       *)
(***************************************************************************)
EXTENDS Client, TLAPS

IInv == Inv /\ OwnEntry

LEMMA InitInvariant == Init => IInv
<1> SUFFICES ASSUME Init PROVE IInv
  OBVIOUS
<1> USE ClientAssumption DEF Init
<1>1. TypeOK
  <2>1. started \in 0 .. MaxThreads /\ \A t \in Threads : t > started <=> rpc[t] = "none"
    BY DEF Threads
  <2>2. \A s \in {knocked, replaced, robbed} : s \subseteq Threads
    OBVIOUS
  <2> QED BY <2>1, <2>2 DEF TypeOK, ReaderStates
<1>2. EntryHasReader /\ ReaderHasEntry /\ OwnEntry
  BY DEF EntryHasReader, ReaderHasEntry, OwnEntry
<1> QED BY <1>1, <1>2 DEF IInv, Inv

(* A step of a reader thread.                                              *)
LEMMA ReaderSteps ==
  ASSUME IInv, NEW t \in Threads, Reader(t)
  PROVE  IInv'
<1> USE ClientAssumption DEF IInv, Inv, TypeOK, EntryHasReader, ReaderHasEntry, OwnEntry, Threads
<1>1. CASE Connect(t)
  BY <1>1 DEF Connect, Goes, ReaderStates, infos, users, history
<1>2. CASE ConnectFails(t)
  BY <1>2 DEF ConnectFails, Goes, ReaderStates, infos, users, history
<1>3. CASE UnsetEvent(t)
  BY <1>3 DEF UnsetEvent, SetEvent, Goes, ReaderStates, infos, users, history
<1>4. CASE Undo(t)
  BY <1>4 DEF Undo, DeleteEntries, Goes, ReaderStates, infos, users, history
<1>5. CASE Bind(t)
  BY <1>5 DEF Bind, Goes, ReaderStates, infos, users, history
<1>6. CASE Accept(t)
  BY <1>6 DEF Accept, Goes, ReaderStates, infos, users, history
<1>7. CASE Loop(t)
  BY <1>7 DEF Loop, Goes, ReaderStates, infos, users, history
<1>8. CASE Recv(t)
  BY <1>8 DEF Recv, Goes, ReaderStates, infos, users, history
<1>9. CASE Frame(t)
  BY <1>9 DEF Frame, Goes, ReaderStates, infos, users, history
<1>10. CASE FrameSet(t)
  BY <1>10 DEF FrameSet, SetEvent, Goes, ReaderStates, infos, users, history
<1>11. CASE Final(t)
  BY <1>11 DEF Final, SetEvent, Goes, ReaderStates, infos, users, history
<1>12. CASE Delete(t)
  BY <1>12 DEF Delete, DeleteEntries, Goes, ReaderStates, infos, users, history
<1> QED BY <1>1, <1>2, <1>3, <1>4, <1>5, <1>6, <1>7, <1>8, <1>9, <1>10, <1>11, <1>12 DEF Reader

(* A step of a call that stops or watches.                                 *)
LEMMA UserSteps ==
  ASSUME IInv, NEW u \in Users, User(u)
  PROVE  IInv'
<1> USE ClientAssumption DEF IInv, Inv, TypeOK, EntryHasReader, ReaderHasEntry, OwnEntry, Threads
<1>1. CASE StopStream(u)
  <2>1. /\ running' \in [Threads -> BOOLEAN] /\ knocked' \subseteq Threads
        /\ holder' \in {"none", "on", "stopped"}
    <3>1. CASE current = None
      BY <1>1, <3>1 DEF StopStream
    <3>2. CASE current # None
      <4>1. /\ running' = [running EXCEPT ![current] = FALSE] /\ holder' = "none"
            /\ knocked' \in {knocked, knocked \cup {current}}
        BY <1>1, <3>2 DEF StopStream
      <4> QED BY <3>2, <4>1
    <3> QED BY <3>1, <3>2
  <2>2. UNCHANGED <<current, frames, event, kind, started, rpc, ut, history>>
    BY <1>1 DEF StopStream
  <2>3. upc' \in [Users -> {"idle", "lookup", "join", "get", "wait", "woken"}]
    BY <1>1 DEF StopStream
  <2> QED BY <2>1, <2>2, <2>3 DEF history
<1>2. CASE StopLookup(u)
  BY <1>2 DEF StopLookup, infos, users, history
<1>3. CASE StopJoin(u)
  BY <1>3 DEF StopJoin, infos, users, history
<1>4. CASE GetNextFrame(u)
  BY <1>4 DEF GetNextFrame, infos, users, history
<1>5. CASE GetLookup(u)
  BY <1>5 DEF GetLookup, infos, users, history
<1>6. CASE GetReturns(u)
  BY <1>6 DEF GetReturns, infos, users, history
<1> QED BY <1>1, <1>2, <1>3, <1>4, <1>5, <1>6 DEF User

(* A step of a call that begins a stream or writes it on.                  *)
LEMMA OwnerSteps ==
  ASSUME IInv, NEW u \in Owners, Owner(u)
  PROVE  IInv'
<1> USE ClientAssumption DEF IInv, Inv, TypeOK, EntryHasReader, ReaderHasEntry, OwnEntry, Threads
<1>1. CASE FetchStream(u)
  BY <1>1 DEF FetchStream, Register, ReaderStates, users
<1>2. CASE ServeStreamReceiver(u)
  <2>1. started + 1 \in Threads /\ rpc[started + 1] = "none" /\ started' = started + 1 /\ current' = started + 1
    BY <1>2 DEF ServeStreamReceiver, Register
  <2>2. rpc' = [rpc EXCEPT ![started + 1] = "bind"]
    BY <1>2 DEF ServeStreamReceiver, Register
  <2>3. TypeOK'
    BY <1>2, <2>1, <2>2 DEF ServeStreamReceiver, Register, ReaderStates, users
  <2>4. EntryHasReader' /\ OwnEntry'
    BY <1>2, <2>1, <2>2 DEF ServeStreamReceiver, Register
  <2>5. ReaderHasEntry'
    <3>1. failed' = failed /\ \A t \in Threads : rpc'[t] \in {"unset", "undo"} => rpc'[t] = rpc[t]
      BY <1>2, <2>1, <2>2 DEF ServeStreamReceiver, Register
    <3>2. CASE current = None
      BY <1>2, <2>1, <2>2, <3>1, <3>2 DEF ServeStreamReceiver, Register
    <3>3. CASE current # None
      BY <1>2, <3>1, <3>3 DEF ServeStreamReceiver, Register
    <3> QED BY <3>2, <3>3
  <2> QED BY <2>3, <2>4, <2>5
<1>3. CASE WriteStreamInto(u)
  BY <1>3 DEF WriteStreamInto, infos, users, history
<1>4. CASE RemoveOutputFromStream(u)
  BY <1>4 DEF RemoveOutputFromStream, infos, users, history
<1> QED BY <1>1, <1>2, <1>3, <1>4 DEF Owner

LEMMA StepInvariant == IInv /\ [Next]_vars => IInv'
<1> SUFFICES ASSUME IInv, [Next]_vars PROVE IInv'
  OBVIOUS
<1>1. CASE UNCHANGED vars
  BY <1>1 DEF vars, infos, users, history, IInv, Inv, TypeOK, EntryHasReader, ReaderHasEntry, OwnEntry
<1>2. CASE Next
  BY <1>2, ReaderSteps, UserSteps, OwnerSteps DEF Next
<1> QED BY <1>1, <1>2

(* Every entry has a reader that will delete it, and a frame's place       *)
(* (client.py:64-67, 92-97, 153-158, 189-194).                             *)
THEOREM EntriesHaveReaders == Spec => []Inv
<1>1. IInv => Inv
  BY DEF IInv
<1> QED BY InitInvariant, StepInvariant, <1>1, PTL DEF Spec

(* Nobody deletes another reader's entry while no connection fails and no  *)
(* entry is replaced (client.py:153-158, 187-194).                         *)
THEOREM EntriesAreOwn == Spec => []OwnEntry
<1>1. IInv => OwnEntry
  BY DEF IInv
<1> QED BY InitInvariant, StepInvariant, <1>1, PTL DEF Spec
=============================================================================
