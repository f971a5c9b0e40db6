------------------------------- MODULE Client -------------------------------
(***************************************************************************)
(* client/client.py: the threads that read a stream, and the calls of the  *)
(* program that uses the client, for one stream id.  A reader thread finds *)
(* its StreamInfo under the id again and again, most of the time without   *)
(* the client's lock, and whoever ends deletes what it finds there.        *)
(*                                                                         *)
(* A StreamInfo is named after the reader thread it was created with.      *)
(***************************************************************************)
EXTENDS Naturals, FiniteSets

CONSTANTS Users,       \* threads of the program
          Owners,      \* those that begin streams, the others watch and stop
          MaxThreads,  \* bound: streams fetched or received
          None

Threads == 1 .. MaxThreads

ASSUME ClientAssumption == Owners \subseteq Users /\ MaxThreads \in Nat /\ None \notin Nat

VARIABLES current,     \* current_streams[stream_id], or None
          frames,      \* is stream_id in current_frames?
          running, event,             \* of each StreamInfo
          kind,        \* fetch_stream or serve_stream_receiver
          started, rpc,\* reader threads
          knocked,     \* receivers whose accept() a stop has connected to
          holder,      \* output_holders[stream_id]
          upc, ut,     \* a user's call, the StreamInfo it found
          failed, replaced, robbed    \* history: threads that could not
                       \* connect, whose entry another call replaced or
                       \* another thread deleted

infos   == <<running, event, kind, knocked>>
users   == <<upc, ut>>
history == <<failed, replaced, robbed>>
vars    == <<current, frames, infos, started, rpc, holder, users, history>>

ReaderStates == {"none", "connect", "unset", "undo", "bind", "accept",
                 "loop", "recv", "frame", "set", "final", "delete", "stuck",
                 "unbound", "dead"}

TypeOK ==
  /\ current \in Threads \cup {None} /\ frames \in BOOLEAN
  /\ running \in [Threads -> BOOLEAN] /\ event \in [Threads -> BOOLEAN]
  /\ kind \in [Threads -> {"fetch", "receive"}]
  /\ started \in 0 .. MaxThreads /\ rpc \in [Threads -> ReaderStates]
  /\ \A t \in Threads : t > started <=> rpc[t] = "none"
  /\ \A s \in {knocked, replaced, robbed} : s \subseteq Threads
  /\ failed \in BOOLEAN
  /\ holder \in {"none", "on", "stopped"}
  /\ upc \in [Users -> {"idle", "lookup", "join", "get", "wait", "woken"}]
  /\ ut \in [Users -> Threads \cup {None}]
  /\ current # None => rpc[current] # "none" /\ frames

Init ==
  /\ current = None /\ frames = FALSE
  /\ running = [t \in Threads |-> FALSE] /\ event = [t \in Threads |-> FALSE]
  /\ kind = [t \in Threads |-> "fetch"] /\ knocked = {}
  /\ started = 0 /\ rpc = [t \in Threads |-> "none"]
  /\ holder = "none"
  /\ upc = [u \in Users |-> "idle"] /\ ut = [u \in Users |-> None]
  /\ failed = FALSE /\ replaced = {} /\ robbed = {}

-----------------------------------------------------------------------------
(* A step of reader t from one place to another.                           *)
Goes(t, from, to) == rpc[t] = from /\ rpc' = [rpc EXCEPT ![t] = to]

(* `self.current_streams[stream_id].event.set()', which wakes the users    *)
(* that wait for it; a KeyError if there is no entry.                      *)
SetEvent(t, from, to, error) ==
  /\ Goes(t, from, IF current = None THEN error ELSE to)
  /\ event' = [i \in Threads |-> event[i] \/ i = current]
  /\ upc' = [u \in Users |-> IF upc[u] = "wait" /\ ut[u] = current THEN "woken" ELSE upc[u]]
  /\ UNCHANGED <<current, frames, running, kind, knocked, started, holder, ut, history>>

(* Both entries deleted, under the lock, whoever they belong to.           *)
DeleteEntries(t, from, to) ==
  /\ Goes(t, from, IF current = None THEN "dead" ELSE to)
  /\ current' = None
  /\ frames' = (frames /\ current = None)
  /\ robbed' = IF current \in {t, None} THEN robbed ELSE robbed \cup {current}
  /\ UNCHANGED <<infos, started, holder, users, failed, replaced>>

(* fetch_stream's thread connects and sends its request ...                *)
Connect(t) ==
  /\ \E to \in {"loop", "final"} : Goes(t, "connect", to)
  /\ UNCHANGED <<current, frames, infos, started, holder, users, history>>

ConnectFails(t) ==
  /\ Goes(t, "connect", "unset")
  /\ failed' = TRUE
  /\ UNCHANGED <<current, frames, infos, started, holder, users, replaced, robbed>>

(* ... or not: the event is set, the entries are deleted, and the thread   *)
(* goes on with a closed socket to the next exception.                     *)
UnsetEvent(t) == SetEvent(t, "unset", "undo", "dead")
Undo(t) == DeleteEntries(t, "undo", "final")

(* serve_stream_receiver's thread: an error of bind() is not caught; a     *)
(* peer connects, or a stop does.                                          *)
Bind(t) ==
  /\ \E to \in {"accept", "unbound"} : Goes(t, "bind", to)
  /\ UNCHANGED <<current, frames, infos, started, holder, users, history>>

Accept(t) ==
  /\ Goes(t, "accept", "loop")
  /\ UNCHANGED <<current, frames, infos, started, holder, users, history>>

LoopOn(t) ==                     \* mutant of Loop: running is not looked at
  /\ Goes(t, "loop", IF current = None THEN "final" ELSE "recv")
  /\ UNCHANGED <<current, frames, infos, started, holder, users, history>>

(* `while self.current_streams[stream_id].running', and fetch_stream's     *)
(* event.clear().                                                          *)
Loop(t) ==
  LET goesOn == current # None /\ running[current] IN
  /\ Goes(t, "loop", IF goesOn THEN "recv" ELSE "final")
  /\ event' = IF goesOn /\ kind[t] = "fetch" THEN [event EXCEPT ![current] = FALSE] ELSE event
  /\ UNCHANGED <<current, frames, running, kind, knocked, started, holder, users, history>>

(* A frame; or its end, an error or a timeout; or a peer that closes in    *)
(* the middle of a frame, after which recv() returns b'' for ever.         *)
Recv(t) ==
  /\ \E to \in {"frame", "final", "stuck"} : Goes(t, "recv", to)
  /\ UNCHANGED <<current, frames, infos, started, holder, users, history>>

(* The frame is stored and written to the holder, and its event is set.    *)
Frame(t) ==
  /\ Goes(t, "frame", "set")
  /\ frames' = TRUE
  /\ UNCHANGED <<current, infos, started, holder, users, history>>

FrameSet(t) == SetEvent(t, "set", "loop", "final")

FinalQuiet(t) ==                 \* mutant of Final: the event is not set
  /\ Goes(t, "final", IF current = None THEN "dead" ELSE "delete")
  /\ UNCHANGED <<current, frames, infos, started, holder, users, history>>

(* finally: the event, then the entries.                                   *)
Final(t) == SetEvent(t, "final", "delete", "dead")

DeleteNot(t) ==                  \* mutant of Delete
  /\ Goes(t, "delete", "dead")
  /\ UNCHANGED <<current, frames, infos, started, holder, users, history>>

Delete(t) == DeleteEntries(t, "delete", "dead")

Reader(t) == \/ Connect(t) \/ ConnectFails(t) \/ UnsetEvent(t) \/ Undo(t)
             \/ Bind(t) \/ Accept(t) \/ Loop(t) \/ Recv(t) \/ Frame(t) \/ FrameSet(t)
             \/ Final(t) \/ Delete(t)

-----------------------------------------------------------------------------
(* The calls.  Register is the part fetch_stream and serve_stream_receiver *)
(* have in common.                                                         *)
Register(k, first) ==
  /\ started < MaxThreads /\ started' = started + 1
  /\ current' = started + 1 /\ frames' = TRUE
  /\ running' = [running EXCEPT ![started + 1] = TRUE]
  /\ kind' = [kind EXCEPT ![started + 1] = k]
  /\ rpc' = [rpc EXCEPT ![started + 1] = first]
  /\ replaced' = IF current = None THEN replaced ELSE replaced \cup {current}
  /\ UNCHANGED <<event, knocked, holder, users, failed, robbed>>

FetchStream(u) == upc[u] = "idle" /\ current = None /\ Register("fetch", "connect")

(* An id that is active is replaced.                                       *)
ServeStreamReceiver(u) == upc[u] = "idle" /\ Register("receive", "bind")

StopDeletes(u) ==                \* mutant of StopStream: the entry is deleted at once
  /\ upc[u] = "idle" /\ current # None
  /\ current' = None /\ frames' = FALSE
  /\ running' = [running EXCEPT ![current] = FALSE]
  /\ UNCHANGED <<event, kind, knocked, started, rpc, holder, users, history>>

(* stop_stream under the lock: a receiver is woken if it listens already.  *)
StopStream(u) ==
  /\ upc[u] = "idle"
  /\ upc' = [upc EXCEPT ![u] = "lookup"]
  /\ IF current = None THEN UNCHANGED <<running, knocked, holder>>
     ELSE /\ running' = [running EXCEPT ![current] = FALSE]
          /\ knocked' = IF rpc[current] = "accept" THEN knocked \cup {current} ELSE knocked
          /\ holder' = "none"
  /\ UNCHANGED <<current, frames, event, kind, started, rpc, ut, history>>

(* ... and outside: a KeyError if the reader was faster, or the join.      *)
StopLookup(u) ==
  /\ upc[u] = "lookup"
  /\ upc' = [upc EXCEPT ![u] = IF current = None THEN "idle" ELSE "join"]
  /\ ut' = [ut EXCEPT ![u] = current]
  /\ UNCHANGED <<current, frames, infos, started, rpc, holder, history>>

StopJoin(u) ==
  /\ upc[u] = "join" /\ rpc[ut[u]] \in {"dead", "unbound"}
  /\ upc' = [upc EXCEPT ![u] = "idle"] /\ ut' = [ut EXCEPT ![u] = None]
  /\ UNCHANGED <<current, frames, infos, started, rpc, holder, history>>

(* get_next_frame: the test, the entry, and a wait without a timeout.      *)
GetNextFrame(u) ==
  /\ upc[u] = "idle" /\ current # None /\ frames
  /\ upc' = [upc EXCEPT ![u] = "get"]
  /\ UNCHANGED <<current, frames, infos, started, rpc, holder, ut, history>>

GetLookup(u) ==
  /\ upc[u] = "get"
  /\ upc' = [upc EXCEPT ![u] = IF current = None THEN "idle"
                               ELSE IF event[current] THEN "woken" ELSE "wait"]
  /\ ut' = [ut EXCEPT ![u] = current]
  /\ UNCHANGED <<current, frames, infos, started, rpc, holder, history>>

(* The frame, or a KeyError.                                               *)
GetReturns(u) ==
  /\ upc[u] = "woken"
  /\ upc' = [upc EXCEPT ![u] = "idle"] /\ ut' = [ut EXCEPT ![u] = None]
  /\ UNCHANGED <<current, frames, infos, started, rpc, holder, history>>

(* A holder is created once; one that has been stopped is used again.      *)
WriteStreamInto(u) ==
  /\ upc[u] = "idle" /\ current # None
  /\ holder' = IF holder = "none" THEN "on" ELSE holder
  /\ UNCHANGED <<current, frames, infos, started, rpc, users, history>>

(* The last output's leaving stops the holder, which stays registered.     *)
RemoveOutputFromStream(u) ==
  /\ upc[u] = "idle" /\ holder = "on"
  /\ holder' = "stopped"
  /\ UNCHANGED <<current, frames, infos, started, rpc, users, history>>

Owner(u) == \/ FetchStream(u) \/ ServeStreamReceiver(u)
            \/ WriteStreamInto(u) \/ RemoveOutputFromStream(u)

User(u) == \/ StopStream(u) \/ StopLookup(u) \/ StopJoin(u)
           \/ GetNextFrame(u) \/ GetLookup(u) \/ GetReturns(u)

Next == \/ \E t \in Threads : Reader(t)
        \/ \E u \in Users : User(u)
        \/ \E u \in Owners : Owner(u)

(* Without a timeout: accept() and a receiver's recv().                    *)
Blocked(t) == kind[t] = "receive" /\ (rpc[t] = "recv" \/ (rpc[t] = "accept" /\ t \notin knocked))

(* A thread that is not blocked goes on; a call once begun does too.       *)
Fairness == /\ \A t \in Threads : WF_vars(~Blocked(t) /\ Reader(t))
            /\ \A u \in Users : WF_vars(upc[u] # "idle" /\ User(u))

Spec == Init /\ [][Next]_vars /\ Fairness

-----------------------------------------------------------------------------
(* An id is never blocked by a reader that is gone: whatever was raised on *)
(* its way out, its entry went before it (client.py:92-97, 153-158,        *)
(* 189-194).  A receiver that could not bind is the exception.             *)
EntryHasReader == current # None => rpc[current] # "dead"

(* As long as nobody failed to connect and no entry was replaced, a reader *)
(* that is about finds its own entry under the id.                         *)
ReaderHasEntry ==
  /\ \A t \in Threads : rpc[t] \in {"unset", "undo"} => failed
  /\ failed \/ replaced # {} \/
     \A t \in Threads : rpc[t] \notin {"none", "dead", "unbound"} => current = t

(* Types, a frame's place for every stream, a reader for every entry and   *)
(* an entry for every reader (client.py:64-67, 92-97, 153-158, 189-194).   *)
Inv == TypeOK /\ EntryHasReader /\ ReaderHasEntry

(* A reader's entry is deleted by that reader, unless a thread that failed *)
(* to connect goes on to its second clean-up after the id was taken again, *)
(* or a receiver replaced the entry (client.py:153-158, 187-194).          *)
OwnEntry == robbed # {} => failed \/ replaced # {}

Taken(t) == t \in robbed \cup replaced

(* stop_stream comes back for a stream it has told to stop, unless the     *)
(* server closed in the middle of a frame or the entry is another's by now *)
(* (client.py:37-47).  A receiver has to be listening already.             *)
StopReturns ==
  \A u \in Users, t \in Threads :
    (upc[u] = "join" /\ ut[u] = t /\ ~running[t] /\ (kind[t] = "fetch" \/ t \in knocked))
      ~> (upc[u] = "idle" \/ rpc[t] = "stuck" \/ Taken(t))

(* get_next_frame without a timeout comes back when the stream ends        *)
(* (client.py:34, 94, 191).                                                *)
GetReturnsAtEnd ==
  \A u \in Users, t \in Threads :
    (upc[u] = "wait" /\ ut[u] = t /\ rpc[t] = "final") ~> (upc[u] # "wait" \/ Taken(t))
=============================================================================
