-------------------------- MODULE NetworkStreaming --------------------------
(***************************************************************************)
(* modes/network_streaming.py with its SocketWrap outputs                  *)
(* (outputs/server_socket_wrap.py): the mode's runner follows a hosts file *)
(* and connects to every host, the stream's writer (WriterOutputHolder,    *)
(* reduced to its rounds) drops the outputs whose write fails, and         *)
(* shutdown() cleans up from a third thread.  The holder's output_lock and *)
(* each socket's _lock are all that keeps them apart: has_output() and     *)
(* is_connected() are answered without them.                               *)
(***************************************************************************)
EXTENDS Naturals, FiniteSets

CONSTANTS Hosts,
          Protocol,     \* "tcp" or "udp" for each host
          HasHostsfile, \* are the hosts read from a file?
          Faulty,       \* hosts whose entry may be one that cannot be used
          HasSchedule,  \* has the mode a schedule that ends?
          ShutsDown,    \* is the mode shut down?
          MaxChanges,   \* bound: losses, failures and changes of the file
          MaxStopped,   \* bound: the same, of a mode that is shut down
          None

ASSUME StreamingAssumption ==
  /\ Protocol \in [Hosts -> {"tcp", "udp"}] /\ Faulty \subseteq Hosts
  /\ HasHostsfile \in BOOLEAN /\ HasSchedule \in BOOLEAN /\ ShutsDown \in BOOLEAN
  /\ MaxChanges \in Nat /\ MaxStopped \in 0 .. MaxChanges
  /\ IsFiniteSet(Hosts) /\ None \notin Hosts

VARIABLES up,           \* hosts that accept a connection
          link,         \* hosts whose connection still carries data
          file, bad,    \* hosts in the hosts file, and those of them whose
          changes,      \* entry lacks a key, a port number or a protocol
          hosts,        \* self.hosts, the keys
          socketMap,    \* the keys of socket_map
          connected,    \* hosts whose SocketWrap has _is_connected set
          outputs,      \* streamer.output.outputs, the keys
          former,       \* hosts whose output is a SocketWrap that socket_map
          formerLink,   \* has replaced, and those of them that still work
          streaming,    \* the streamer runs
          round, write, \* the writer holds output_lock; each output's write
          rpc, rcur, todo, newHosts,    \* the runner
          xpc, xcur, toClose, size,     \* the thread in shutdown()
          raced, late,  \* history: see Joined and Adding, and whether an
          cut           \* update of the hosts was cut short (UpdateRaises,
                        \* RemovingHost), or pre_routine

env     == <<up, link, file, bad, changes>>
maps    == <<hosts, socketMap, former, formerLink>>
writer  == <<streaming, round, write>>
runner  == <<rpc, rcur, todo, newHosts>>
closer  == <<xpc, xcur, toClose, size>>
history == <<raced, late, cut>>
vars    == <<env, maps, connected, outputs, writer, runner, closer, history>>

(* "connecting": in connect(), holding the socket's _lock.  A runner ends  *)
(* after shutdown() has begun ("ended"), when the mode's schedule is over, *)
(* or when pre_routine raises ("died").                                    *)
RunnerStates == {"test", "remove", "removing", "scan", "connecting", "joined",
                 "adding", "failed", "dropping", "ended", "over", "died"}
Gone == {"ended", "over", "died"}

TypeOK ==
  /\ \A s \in {up, link, file, bad, hosts, socketMap, connected, outputs, todo,
               newHosts, toClose, former, formerLink, raced, late} : s \subseteq Hosts
  /\ changes \in 0 .. MaxChanges
  /\ streaming \in BOOLEAN /\ round \in BOOLEAN /\ cut \in BOOLEAN
  /\ write \in [Hosts -> {"none", "pending", "true", "false"}]
  /\ rpc \in RunnerStates /\ rcur \in Hosts \cup {None}
  /\ xpc \in {"off", "next", "removing", "join", "done", "raised"}
  /\ xcur \in Hosts \cup {None} /\ size \in Nat

(* __init__ and pre_routine: a socket for every host, none connected.      *)
(* Nothing catches what pre_routine raises at an entry it cannot use.      *)
Init ==
  /\ up = Hosts /\ link = {} /\ changes = 0
  /\ file \in SUBSET Hosts /\ bad \in SUBSET (file \cap Faulty) /\ hosts = file
  /\ IF bad = {} THEN socketMap = file /\ rpc = "test"
                 ELSE socketMap \in SUBSET (file \ bad) /\ rpc = "died"
  /\ connected = {} /\ outputs = {} /\ former = {} /\ formerLink = {} /\ streaming = TRUE
  /\ round = FALSE /\ write = [h \in Hosts |-> "none"]
  /\ rcur = None /\ todo = {} /\ newHosts = {}
  /\ xpc = "off" /\ xcur = None /\ toClose = {} /\ size = 0
  /\ raced = {} /\ late = {} /\ cut = (bad # {})

(* SocketWrap.is_connected: a datagram socket always says yes.             *)
IsConnected(h) == Protocol[h] = "udp" \/ h \in connected

(* SocketWrap.close: _is_connected is left as it is.                       *)
Close(h) == link' = IF IsConnected(h) THEN link \ {h} ELSE link

-----------------------------------------------------------------------------
MayChange == IF xpc = "off" THEN MaxChanges ELSE MaxStopped

(* The world: a host goes away or comes back, a connection breaks, the     *)
(* hosts file is rewritten (while somebody reads it).                      *)
Changes ==
  /\ changes < MayChange /\ changes' = changes + 1
  /\ \/ /\ \/ \E h \in up : up' = up \ {h} /\ link' = link \ {h} /\ formerLink' = formerLink \ {h}
           \/ \E h \in Hosts \ up : up' = up \cup {h} /\ UNCHANGED <<link, formerLink>>
           \/ \E h \in link : link' = link \ {h} /\ UNCHANGED <<up, formerLink>>
           \/ \E h \in formerLink : formerLink' = formerLink \ {h} /\ UNCHANGED <<up, link>>
        /\ UNCHANGED <<file, bad>>
     \/ /\ HasHostsfile /\ xpc = "off" /\ rpc \notin Gone
        /\ file' \in SUBSET Hosts /\ bad' \in SUBSET (file' \cap Faulty) /\ <<file', bad'>> # <<file, bad>>
        /\ UNCHANGED <<up, link, formerLink>>
  /\ UNCHANGED <<hosts, socketMap, former, connected, outputs, writer, runner, closer, history>>

-----------------------------------------------------------------------------
(* The runner.  An exception ends the routine, not the runner.             *)
(* Finished: shutdown() has set finish_time.                               *)
Finished == xpc # "off"

Test ==
  /\ rpc = "test"
  /\ \/ Finished /\ rpc' = "ended" /\ UNCHANGED todo
     \/ ~Finished /\ ~HasHostsfile /\ rpc' = "scan" /\ todo' = socketMap
  /\ UNCHANGED <<env, maps, connected, outputs, writer, rcur, newHosts, closer, history>>

(* The schedule's finish_time comes; nothing starts the runner again.      *)
ScheduleOver ==
  /\ HasSchedule /\ rpc = "test" /\ ~Finished /\ rpc' = "over"
  /\ UNCHANGED <<env, maps, connected, outputs, writer, rcur, todo, newHosts, closer, history>>

(* Hosts get a new SocketWrap; an output of theirs stays the former one.   *)
Replaces(new) ==
  /\ connected' = connected \ new
  /\ former' = former \cup (new \cap outputs)
  /\ formerLink' = formerLink \cup ((new \cap outputs \cap link) \ former)

(* update_socket_map: a file that cannot be read is one without hosts.     *)
(* New hosts get a new SocketWrap ...                                      *)
UpdateAdds ==
  /\ rpc = "test" /\ ~Finished /\ HasHostsfile
  /\ \/ newHosts' = file /\ bad \subseteq hosts /\ UNCHANGED changes
     \/ newHosts' = {} /\ changes < MaxChanges /\ changes' = changes + 1
  /\ socketMap' = socketMap \cup (newHosts' \ hosts)
  /\ Replaces(newHosts' \ hosts)
  /\ todo' = hosts \ newHosts' /\ rpc' = "remove"
  /\ UNCHANGED <<up, link, file, bad, hosts, outputs, writer, rcur, closer, history>>

(* ... but the first one whose entry cannot be used raises, after some of  *)
(* the others have got theirs: nothing is removed, nothing reconnected and *)
(* self.hosts stays what it was.                                           *)
UpdateRaises ==
  /\ rpc = "test" /\ ~Finished /\ HasHostsfile /\ ~(bad \subseteq hosts)
  /\ \E added \in SUBSET ((file \ bad) \ hosts) :
       socketMap' = socketMap \cup added /\ Replaces(added)
  /\ cut' = TRUE
  /\ UNCHANGED <<env, hosts, outputs, writer, runner, closer, raced, late>>

RemoveServed(h) ==               \* mutant of RemoveHost: only one with an output goes
  /\ rpc = "remove" /\ h \in todo
  /\ todo' = todo \ {h}
  /\ IF h \in outputs THEN rpc' = "removing" /\ rcur' = h ELSE UNCHANGED <<rpc, rcur>>
  /\ UNCHANGED <<env, maps, connected, outputs, writer, newHosts, closer, history>>

(* ... those no longer listed go: has_output, remove_output, close.        *)
RemoveHost(h) ==
  /\ rpc = "remove" /\ h \in todo
  /\ todo' = todo \ {h}
  /\ IF h \in outputs
     THEN rpc' = "removing" /\ rcur' = h /\ UNCHANGED <<link, socketMap>>
     ELSE socketMap' = socketMap \ {h} /\ Close(h) /\ UNCHANGED <<rpc, rcur>>
  /\ UNCHANGED <<up, file, bad, changes, hosts, former, formerLink, connected, outputs, writer, newHosts,
                 closer, history>>

(* remove_output: KeyError when the writer was faster, which cuts the      *)
(* update short: self.hosts stays what it was, socket_map does not.        *)
RemovingHost ==
  /\ rpc = "removing" /\ ~round
  /\ outputs' = outputs \ {rcur} /\ rcur' = None
  /\ IF rcur \in outputs
     THEN /\ rpc' = "remove" /\ socketMap' = socketMap \ {rcur} /\ Close(rcur)
          /\ UNCHANGED <<todo, newHosts, cut>>
     ELSE /\ rpc' = "test" /\ todo' = {} /\ newHosts' = {} /\ cut' = TRUE
          /\ UNCHANGED <<link, socketMap>>
  /\ UNCHANGED <<up, file, bad, changes, hosts, former, formerLink, connected, writer, closer, raced, late>>

UpdateEnds ==
  /\ rpc = "remove" /\ todo = {}
  /\ hosts' = newHosts /\ newHosts' = {}
  /\ rpc' = "scan" /\ todo' = socketMap
  /\ UNCHANGED <<env, socketMap, former, formerLink, connected, outputs, writer, rcur, closer, history>>

(* The reconnection routine; connect() takes the socket's _lock.           *)
Scan(h) ==
  /\ rpc = "scan" /\ h \in todo
  /\ todo' = todo \ {h}
  /\ IF IsConnected(h) THEN UNCHANGED <<rpc, rcur>> ELSE rpc' = "connecting" /\ rcur' = h
  /\ UNCHANGED <<env, maps, connected, outputs, writer, newHosts, closer, history>>

Connect ==
  /\ rpc = "connecting" /\ rcur \in up
  /\ connected' = connected \cup {rcur} /\ link' = link \cup {rcur}
  /\ rpc' = "joined"
  /\ UNCHANGED <<up, file, bad, changes, maps, outputs, writer, rcur, todo, newHosts, closer, history>>

(* Refused, or an error with a host that is there, in the greeting, say.   *)
ConnectFails ==
  /\ rpc = "connecting"
  /\ \/ rcur \notin up /\ UNCHANGED changes
     \/ rcur \in up /\ changes < MayChange /\ changes' = changes + 1
  /\ rpc' = "failed"
  /\ UNCHANGED <<up, link, file, bad, maps, connected, outputs, writer, rcur, todo, newHosts, closer, history>>

JoinedNot ==                     \* mutant of Joined: the test is the wrong way round
  /\ rpc = "joined"
  /\ IF rcur \in outputs THEN rpc' = "adding" /\ UNCHANGED rcur
                         ELSE rpc' = "scan" /\ rcur' = None
  /\ UNCHANGED <<env, maps, connected, outputs, writer, todo, newHosts, closer, history>>

(* has_output says yes of any output of the host's: of one whose failed    *)
(* write the writer is about to act upon, and of a former SocketWrap.      *)
Joined ==
  /\ rpc = "joined"
  /\ IF rcur \in outputs
     THEN /\ rpc' = "scan" /\ rcur' = None
          /\ raced' = IF write[rcur] = "false" \/ rcur \in former THEN raced \cup {rcur} ELSE raced
     ELSE rpc' = "adding" /\ UNCHANGED <<rcur, raced>>
  /\ UNCHANGED <<env, maps, connected, outputs, writer, todo, newHosts, closer, late, cut>>

Adding ==
  /\ rpc = "adding" /\ ~round
  /\ outputs' = outputs \cup {rcur}
  /\ former' = former \ {rcur} /\ formerLink' = formerLink \ {rcur}
  /\ raced' = raced \ {rcur}
  /\ late' = IF Finished THEN late \cup {rcur} ELSE late
  /\ rpc' = "scan" /\ rcur' = None
  /\ UNCHANGED <<env, hosts, socketMap, connected, writer, todo, newHosts, closer, cut>>

Failed ==
  /\ rpc = "failed"
  /\ IF rcur \in outputs THEN rpc' = "dropping" /\ UNCHANGED rcur
                         ELSE rpc' = "scan" /\ rcur' = None
  /\ UNCHANGED <<env, maps, connected, outputs, writer, todo, newHosts, closer, history>>

DroppingEnds ==                  \* mutant of Dropping: the KeyError ends the runner
  /\ rpc = "dropping" /\ ~round
  /\ outputs' = outputs \ {rcur} /\ rcur' = None
  /\ rpc' = IF rcur \in outputs THEN "scan" ELSE "ended"
  /\ UNCHANGED <<env, maps, connected, writer, todo, newHosts, closer, history>>

(* remove_output, with the KeyError again.                                 *)
Dropping ==
  /\ rpc = "dropping" /\ ~round
  /\ outputs' = outputs \ {rcur} /\ rcur' = None
  /\ IF rcur \in outputs THEN rpc' = "scan" /\ UNCHANGED todo
                         ELSE rpc' = "test" /\ todo' = {}
  /\ UNCHANGED <<env, maps, connected, writer, newHosts, closer, history>>

ScanEnds ==
  /\ rpc = "scan" /\ todo = {}
  /\ rpc' = "test"
  /\ UNCHANGED <<env, maps, connected, outputs, writer, rcur, todo, newHosts, closer, history>>

Runner == \/ Test \/ UpdateAdds \/ UpdateRaises \/ RemovingHost \/ UpdateEnds
          \/ (\E h \in Hosts : RemoveHost(h) \/ Scan(h))
          \/ Connect \/ ConnectFails \/ Joined \/ Adding \/ Failed \/ Dropping \/ ScanEnds

-----------------------------------------------------------------------------
(* The stream's writer, as long as the streamer runs.                      *)
RoundBegin ==
  /\ streaming /\ ~round /\ outputs # {}
  /\ round' = TRUE
  /\ write' = [h \in Hosts |-> IF h \in outputs THEN "pending" ELSE "none"]
  /\ UNCHANGED <<env, maps, connected, outputs, streaming, runner, closer, history>>

(* SocketWrap.write, under the socket's _lock.  A socket that is not       *)
(* connected is skipped with True.  A former SocketWrap has a lock and a   *)
(* flag of its own.                                                        *)
Write(h) ==
  /\ write[h] = "pending" /\ (h \notin former => ~(rpc = "connecting" /\ rcur = h))
  /\ LET fails == IF h \in former THEN h \notin formerLink ELSE h \in connected \ link IN
     /\ write' = [write EXCEPT ![h] = IF fails THEN "false" ELSE "true"]
     /\ connected' = IF fails /\ h \notin former THEN connected \ {h} ELSE connected
  /\ UNCHANGED <<env, maps, outputs, streaming, round, runner, closer, history>>

CollectKeeps(h) ==               \* mutant of Collect: the result is not looked at
  /\ write[h] \in {"true", "false"}
  /\ write' = [write EXCEPT ![h] = "none"]
  /\ UNCHANGED <<env, maps, connected, outputs, streaming, round, runner, closer, history>>

Collect(h) ==
  /\ write[h] \in {"true", "false"}
  /\ outputs' = IF write[h] = "false" THEN outputs \ {h} ELSE outputs
  /\ write' = [write EXCEPT ![h] = "none"]
  /\ UNCHANGED <<env, maps, connected, streaming, round, runner, closer, history>>

RoundEnd ==
  /\ round /\ \A h \in Hosts : write[h] = "none"
  /\ round' = FALSE
  /\ UNCHANGED <<env, maps, connected, outputs, streaming, write, runner, closer, history>>

Writer == RoundBegin \/ RoundEnd \/ \E h \in Hosts : Write(h) \/ Collect(h)

-----------------------------------------------------------------------------
(* shutdown(): _cleanup iterates over socket_map itself, without a lock.   *)
ShutdownBegins ==
  /\ ShutsDown /\ xpc = "off" /\ changes <= MaxStopped
  /\ xpc' = "next" /\ toClose' = socketMap /\ size' = Cardinality(socketMap)
  /\ UNCHANGED <<env, maps, connected, outputs, writer, runner, xcur, history>>

CleanupCloses(h) ==              \* mutant of CleanupHost: the output stays
  /\ xpc = "next" /\ h \in toClose /\ Cardinality(socketMap) = size
  /\ toClose' = toClose \ {h} /\ Close(h)
  /\ UNCHANGED <<up, file, bad, changes, maps, connected, outputs, writer, runner, xpc, xcur, size, history>>

CleanupHost(h) ==
  /\ xpc = "next" /\ h \in toClose /\ Cardinality(socketMap) = size
  /\ toClose' = toClose \ {h}
  /\ IF h \in outputs THEN xpc' = "removing" /\ xcur' = h /\ UNCHANGED link
                      ELSE Close(h) /\ UNCHANGED <<xpc, xcur>>
  /\ UNCHANGED <<up, file, bad, changes, maps, connected, outputs, writer, runner, size, history>>

CleanupRemoves ==
  /\ xpc = "removing" /\ ~round
  /\ outputs' = outputs \ {xcur} /\ xcur' = None
  /\ IF xcur \in outputs
     THEN xpc' = "next" /\ Close(xcur) /\ UNCHANGED <<toClose, size>>
     ELSE xpc' = "raised" /\ toClose' = {} /\ size' = 0 /\ UNCHANGED link
  /\ UNCHANGED <<up, file, bad, changes, maps, connected, writer, runner, history>>

(* RuntimeError: dictionary changed size during iteration.                 *)
CleanupRaises ==
  /\ xpc = "next" /\ Cardinality(socketMap) # size
  /\ xpc' = "raised" /\ toClose' = {} /\ size' = 0
  /\ UNCHANGED <<env, maps, connected, outputs, writer, runner, xcur, history>>

CleanupEnds ==
  /\ xpc = "next" /\ toClose = {} /\ Cardinality(socketMap) = size
  /\ socketMap' = {} /\ xpc' = "join" /\ size' = 0
  /\ UNCHANGED <<env, hosts, former, formerLink, connected, outputs, writer, runner, xcur, toClose, history>>

(* The runner is joined; the streamer is stopped if nobody else needs it.  *)
ShutdownEnds ==
  /\ xpc = "join" /\ rpc \in Gone
  /\ streaming' = (outputs # {}) /\ xpc' = "done"
  /\ UNCHANGED <<env, maps, connected, outputs, round, write, runner, xcur, toClose, size, history>>

Shutdown == \/ ShutdownBegins \/ (\E h \in Hosts : CleanupHost(h)) \/ CleanupRemoves
            \/ CleanupRaises \/ CleanupEnds \/ ShutdownEnds

Next == Changes \/ ScheduleOver \/ Runner \/ Writer \/ Shutdown

(* connect() has a timeout, sleep(2) and a write end, frames keep coming.  *)
(* Nobody has to shut the mode down, but a shutdown goes on.  Who waits    *)
(* for output_lock gets it: the writer sleeps when it has no frame         *)
(* (output_holder.py:104).                                                 *)
Fairness == /\ WF_vars(Runner) /\ WF_vars(Writer)
            /\ WF_vars(xpc # "off" /\ Shutdown)
            /\ SF_vars(RemovingHost \/ Adding \/ Dropping) /\ SF_vars(CleanupRemoves)

Spec == Init /\ [][Next]_vars /\ Fairness

-----------------------------------------------------------------------------
(* A host the mode is connected to gets the stream, or is about to.  The   *)
(* only ones that do not are those reconnected while has_output() still    *)
(* found their earlier connection's output: one whose failed write the     *)
(* writer was about to act upon, or a former SocketWrap                    *)
(* (network_streaming.py:90-94, output_holder.py:89).                      *)
ConnectedServed ==
  \A h \in connected \cap socketMap :
    \/ h \in outputs \/ h \in raced \/ Finished
    \/ rcur = h /\ rpc \in {"joined", "adding"}

(* An output that lost its connection is one whose failed write the writer *)
(* is about to act upon, or a former SocketWrap.  But for the latter the   *)
(* runner never finds a dead one to remove: remove_output                  *)
(* (network_streaming.py:97) comes too late and raises                     *)
(* (output_holder.py:89-90, server_socket_wrap.py:73-78).                  *)
WriterDropsDead ==
  \A h \in outputs \ connected : write[h] = "false" \/ h \in former

(* What is written is an output, of a host that has a socket, and stays    *)
(* one until its result has been looked at.                                *)
WritesToOutputs ==
  /\ \A h \in Hosts : write[h] # "none" => round /\ h \in outputs
  /\ Finished \/ outputs \subseteq socketMap

(* Unless an update was cut short, the hosts with a socket are self.hosts, *)
(* and during an update those it leaves and those it still has to remove.  *)
SocketsFollowHosts ==
  cut \/ xpc \in {"join", "done"} \/
  IF rpc \in {"remove", "removing"}
  THEN socketMap = newHosts \cup todo \cup ({rcur} \ {None}) ELSE socketMap = hosts

(* The runner works on one host at a time, one that has a socket; what it  *)
(* connects again and finds among the outputs is there for a write that    *)
(* has failed or with a former SocketWrap, and only has_output() misses it.*)
OneHostAtATime ==
  /\ rcur # None <=> rpc \in {"removing", "connecting", "joined", "adding", "failed", "dropping"}
  /\ rpc \in {"remove", "removing"} => todo \cap newHosts = {} /\ rcur \notin newHosts \cup todo
  /\ rpc \in {"scan", "connecting", "joined", "adding", "failed", "dropping"} =>
       Finished \/ todo \cup ({rcur} \ {None}) \subseteq socketMap
Reconnects ==
  /\ rpc \in {"connecting", "failed", "dropping"} => rcur \notin connected
  /\ rpc \in {"joined", "adding"} => rcur \in connected
  /\ rpc = "joined" /\ rcur \in outputs => write[rcur] = "false" \/ rcur \in former
  /\ rpc = "adding" => rcur \notin outputs
  /\ \A h \in outputs \cap connected : write[h] = "false" \/ h \in former =>
       h \in raced \/ (rcur = h /\ rpc = "joined")

(* What the clean-up has yet to look at, and what came behind its back.    *)
CleanedUp ==
  /\ xcur # None <=> xpc = "removing"
  /\ xpc \in {"next", "removing"} => outputs \subseteq late \cup toClose \cup {xcur}
  /\ xpc \in {"join", "done"} => outputs \subseteq late

(* Types, writes only within a round, no dead output left behind it,       *)
(* sockets for the hosts of the file, and the runner's and the clean-up's  *)
(* hold on them (output_holder.py:79-93, network_streaming.py:45-59,       *)
(* 83-106).                                                                *)
Inv == /\ TypeOK /\ WritesToOutputs /\ WriterDropsDead /\ SocketsFollowHosts
       /\ OneHostAtATime /\ Reconnects /\ CleanedUp

(* The mode follows its hosts: its runner has not ended, and no new entry  *)
(* of the file makes each update raise (network_streaming.py:62-68).       *)
Follows == ~Finished /\ rpc \notin {"over", "died"} /\ bad \subseteq hosts

(* As long as the mode follows its hosts, one that stays out of the hosts  *)
(* file stops being sent the stream, also when an update is interrupted by *)
(* a KeyError, but for one that the interrupted update has given a socket  *)
(* and not entered in self.hosts: no later update takes it away            *)
(* (network_streaming.py:50-59).                                           *)
UnlistedHostsLeave ==
  \A h \in Hosts : <>[](h \notin file) =>
    <>[](h \notin outputs \/ ~Follows \/ (cut /\ h \in socketMap \ hosts))

(* As long as it does, a listed host that stays reachable is connected     *)
(* again and again until it is connected, whatever happened to other hosts *)
(* in the same routine, but for one whose socket an interrupted update has *)
(* taken away without taking it out of self.hosts: no later update gives   *)
(* it another (network_streaming.py:45-59, 89-98, base.py:75-78).          *)
ReachableHostsConnect ==
  \A h \in Hosts : <>[](h \in up \cap file) =>
    <>[]((h \in socketMap /\ IsConnected(h)) \/ ~Follows \/ (cut /\ h \in hosts \ socketMap))

(* After a complete shutdown the stream goes on only for a host that the   *)
(* runner added after the clean-up (network_streaming.py:94, 101-106).     *)
NothingLeft == (xpc = "done") => outputs \subseteq late

(* "send video streams to multiple clients" (README.md:16): a host the     *)
(* mode is connected to gets the stream.                                   *)
ConnectedIsServed ==
  \A h \in Hosts : (h \in connected \cap socketMap)
                     ~> (h \in outputs \/ h \notin connected \cap socketMap)
=============================================================================
