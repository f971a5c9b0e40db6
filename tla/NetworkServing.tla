--------------------------- MODULE NetworkServing ---------------------------
(***************************************************************************)
(* modes/network_serving.py with its ClientSocketWrap outputs and the      *)
(* writer threads of the streams it serves.                                *)
(*                                                                         *)
(* Three kinds of thread meet here: the mode's runner, which accepts a     *)
(* client, finds or starts its stream and adds it as an output; a stream's *)
(* writer with its pool of workers, one per output (WriterOutputHolder,    *)
(* reduced to its rounds), where a failed write closes the client and      *)
(* calls back cleanup_output; and the thread that shuts the mode down.     *)
(* They share the mode's _lock, every stream's output_lock and the three   *)
(* dictionaries.                                                           *)
(***************************************************************************)
EXTENDS Naturals, FiniteSets

CONSTANTS Clients,      \* client addresses; each connects once
          Keys,         \* stream keys (streamer_key of a request)
          KeyOf,        \* the key each client asks for
          PortKeys,     \* port_key values of Streamer()
          PortKeyOf,    \* the one each stream key comes to
          MaxStreams,   \* max_streams
          MaxInstances, \* bound: streamer instances created
          ShutsDown,    \* is the mode shut down?
          None

Instances == 1 .. MaxInstances

ASSUME ServingAssumption ==
  /\ KeyOf \in [Clients -> Keys] /\ PortKeyOf \in [Keys -> PortKeys] /\ MaxStreams \in Nat /\ MaxInstances \in Nat
  /\ ShutsDown \in BOOLEAN /\ None \notin Nat \cup Clients \cup Keys

VARIABLES conn,           \* a client's connection: new, open, closed
          socketMap,      \* the addresses in socket_map
          socketToStream, \* address -> key
          streamerMap,    \* key -> streamer instance
          created,
          registry,       \* Streamer._streamers: port key -> instance
          running,        \* streamer.is_running
          outputs,        \* streamer.output.outputs, the addresses
          round,          \* instances whose writer holds output_lock
          write,          \* per client: its output's write in this round
          spc, scur,      \* the mode's runner, the client it handles
          cpc, ccur,      \* the thread in shutdown(), the socket it closes
          toClose         \* sockets_to_clean

maps    == <<socketMap, socketToStream, streamerMap>>
streams == <<created, registry, running, outputs>>
server  == <<spc, scur>>
closer  == <<cpc, ccur, toClose>>
vars    == <<conn, maps, streams, round, write, server, closer>>

Running == {k \in Keys : streamerMap[k] # None}

(* "locking": inside cleanup_output, waiting for the mode's _lock.         *)
WriteStates == {"none", "pending", "writing", "locking", "true", "false"}

TypeOK ==
  /\ conn \in [Clients -> {"new", "open", "closed"}]
  /\ socketMap \subseteq Clients
  /\ socketToStream \in [Clients -> Keys \cup {None}]
  /\ streamerMap \in [Keys -> Instances \cup {None}]
  /\ Cardinality(Running) <= MaxStreams
  /\ created \in 0 .. MaxInstances
  /\ registry \in [PortKeys -> Instances \cup {None}]
  /\ running \in [Instances -> BOOLEAN]
  /\ outputs \in [Instances -> SUBSET Clients]
  /\ round \subseteq Instances
  /\ write \in [Clients -> WriteStates]
  /\ spc \in {"check", "accept", "parse", "serve", "link", "start", "add", "close", "cleanup",
             "stop", "ended"}
  /\ scur \in Clients \cup {None}
  /\ cpc \in {"off", "next", "locking", "reset", "forget", "done", "raised"}
  /\ ccur \in Clients \cup {None} /\ toClose \subseteq Clients

Init ==
  /\ conn = [c \in Clients |-> "new"]
  /\ socketMap = {}
  /\ socketToStream = [c \in Clients |-> None]
  /\ streamerMap = [k \in Keys |-> None]
  /\ created = 0 /\ registry = [p \in PortKeys |-> None]
  /\ running = [i \in Instances |-> FALSE]
  /\ outputs = [i \in Instances |-> {}]
  /\ round = {}
  /\ write = [c \in Clients |-> "none"]
  /\ spc = "check" /\ scur = None
  /\ cpc = "off" /\ ccur = None /\ toClose = {}

(* The runner keeps _lock while it enters a client and while it waits for  *)
(* a stream's output_lock, cleanup_output for one step.                    *)
ModeLockFree == spc \notin {"link", "start", "add"}

-----------------------------------------------------------------------------
(* Mutant of LastOutput: counts the output that is leaving as gone.        *)
NoOtherOutput(i) == Cardinality(outputs[i]) <= 2
(* "the output hasn't been removed yet ... so the number of outputs should *)
(* be 1" (network_serving.py:86).                                          *)
LastOutput(i) == Cardinality(outputs[i]) = 1

(* What stop() leaves in _streamers: its port goes back, with the instance *)
(* that holds it.  A stream that was stopped before gives back a port that *)
(* may be another's by now (StreamerPool).                                 *)
Returns(i) ==
  LET own == {p \in PortKeys : registry[p] = i} IN
  {[registry EXCEPT ![p] = None] : p \in IF own # {} THEN own ELSE PortKeys}
    \cup (IF own # {} THEN {} ELSE {registry})

(* Mutant of Cleanup: forgets the stream without stopping it.              *)
CleanupForgets(c) ==
  LET k == socketToStream[c]
      i == IF k = None THEN None ELSE streamerMap[k]
      last == i # None /\ LastOutput(i)
  IN  /\ socketMap' = socketMap \ {c}
      /\ streamerMap' = IF last THEN [streamerMap EXCEPT ![k] = None] ELSE streamerMap
      /\ socketToStream' = [socketToStream EXCEPT ![c] = None]
      /\ UNCHANGED <<running, registry>>

(* Mutant of Cleanup: drops the link to the stream only with the stream.   *)
CleanupKeepsLink(c) ==
  LET k == socketToStream[c]
      i == IF k = None THEN None ELSE streamerMap[k]
      last == i # None /\ LastOutput(i)
  IN  /\ socketMap' = socketMap \ {c}
      /\ running' = IF last THEN [running EXCEPT ![i] = FALSE] ELSE running
      /\ registry' \in IF last THEN Returns(i) ELSE {registry}
      /\ streamerMap' = IF last THEN [streamerMap EXCEPT ![k] = None] ELSE streamerMap
      /\ socketToStream' = IF last THEN [socketToStream EXCEPT ![c] = None] ELSE socketToStream

(* cleanup_output(c) under _lock, for a client still in socket_map.        *)
Cleanup(c) ==
  LET k == socketToStream[c]
      i == IF k = None THEN None ELSE streamerMap[k]
      last == i # None /\ LastOutput(i)
  IN  /\ socketMap' = socketMap \ {c}
      /\ running' = IF last THEN [running EXCEPT ![i] = FALSE] ELSE running
      /\ registry' \in IF last THEN Returns(i) ELSE {registry}
      /\ streamerMap' = IF last THEN [streamerMap EXCEPT ![k] = None] ELSE streamerMap
      /\ socketToStream' = [socketToStream EXCEPT ![c] = None]

-----------------------------------------------------------------------------
(* The runner.  It looks at finish_time only between two clients, so one   *)
(* more may be accepted after the shutdown has begun.                      *)
Finished == cpc # "off"

Check ==
  /\ spc = "check"
  /\ spc' = IF Finished THEN "ended" ELSE "accept"
  /\ UNCHANGED <<conn, maps, streams, round, write, scur, closer>>

Accept(c) ==
  /\ spc = "accept" /\ conn[c] = "new" /\ cpc # "done"
  /\ conn' = [conn EXCEPT ![c] = "open"]
  /\ spc' = "parse" /\ scur' = c
  /\ UNCHANGED <<maps, streams, round, write, closer>>

(* accept() ends without a client: _cleanup's connection to itself, which  *)
(* sends no request, or the closed socket.                                 *)
AcceptNobody ==
  /\ spc = "accept" /\ cpc \in {"reset", "forget", "done"}
  /\ spc' = "check"
  /\ UNCHANGED <<conn, maps, streams, round, write, scur, closer>>

Parse ==
  /\ spc = "parse"
  /\ spc' = "serve"
  /\ UNCHANGED <<conn, maps, streams, round, write, scur, closer>>

(* No request, or not one in time: the exception path with stream_key "".  *)
ParseRaises ==
  /\ spc = "parse"
  /\ spc' = "check" /\ scur' = None
  /\ conn' = [conn EXCEPT ![scur] = "closed"]
  /\ UNCHANGED <<maps, streams, round, write, closer>>

(* can_serve_client says no: too many streams, or Streamer() raises.       *)
Refuse ==
  /\ spc = "serve" /\ streamerMap[KeyOf[scur]] = None
  /\ conn' = [conn EXCEPT ![scur] = "closed"]
  /\ spc' = "check" /\ scur' = None
  /\ UNCHANGED <<maps, streams, round, write, closer>>

(* It says yes: what Streamer() returns goes into streamer_map, or the key *)
(* has one.  Streamer() returns the instance that is registered for the    *)
(* port key, another stream key's perhaps, or else a new one.              *)
(* The client goes into socket_map, and then into socket_to_stream: both   *)
(* under _lock, which _cleanup does not take to empty them.                *)
ServeBy(i) ==
  /\ socketMap' = socketMap \cup {scur}
  /\ streamerMap' = [streamerMap EXCEPT ![KeyOf[scur]] = i]
  /\ spc' = "link"
  /\ UNCHANGED <<conn, socketToStream, running, outputs, round, write, scur, closer>>

ServeNew ==
  LET p == PortKeyOf[KeyOf[scur]] IN
  /\ spc = "serve" /\ streamerMap[KeyOf[scur]] = None
  /\ Cardinality(Running) < MaxStreams
  /\ registry[p] = None /\ created < MaxInstances
  /\ created' = created + 1
  /\ registry' = [registry EXCEPT ![p] = created + 1]
  /\ ServeBy(created + 1)

ServeShared ==
  LET p == PortKeyOf[KeyOf[scur]] IN
  /\ spc = "serve" /\ streamerMap[KeyOf[scur]] = None
  /\ Cardinality(Running) < MaxStreams
  /\ registry[p] # None
  /\ ServeBy(registry[p])
  /\ UNCHANGED <<created, registry>>

ServeOld ==
  /\ spc = "serve" /\ streamerMap[KeyOf[scur]] # None
  /\ ServeBy(streamerMap[KeyOf[scur]])
  /\ UNCHANGED <<created, registry>>

Link ==
  /\ spc = "link"
  /\ socketToStream' = [socketToStream EXCEPT ![scur] = KeyOf[scur]]
  /\ spc' = "start"
  /\ UNCHANGED <<conn, socketMap, streamerMap, streams, round, write, scur, closer>>

(* A stream that does not run is started, if there is a client by then,    *)
(* which may raise (and does for most that have run before: their writer   *)
(* thread is used up); then the runner goes for the output_lock with _lock *)
(* in hand.                                                                *)
StartStream ==
  LET i == streamerMap[KeyOf[scur]] IN
  /\ spc = "start"
  /\ IF socketMap = {} \/ running[i]
     THEN spc' = "add" /\ UNCHANGED running
     ELSE running' = [running EXCEPT ![i] = TRUE] /\ spc' \in {"add", "close"}
  /\ UNCHANGED <<conn, maps, created, registry, outputs, round, write, scur, closer>>

AddOutput ==
  LET i == streamerMap[KeyOf[scur]] IN
  /\ spc = "add" /\ i \notin round
  /\ outputs' = [outputs EXCEPT ![i] = @ \cup {scur}]
  /\ spc' = "check" /\ scur' = None
  /\ UNCHANGED <<conn, maps, created, registry, running, round, write, closer>>

(* The exception path after start() raised, without _lock: close() of the  *)
(* wrapped client if it is still there, or else of its connection ...      *)
ServeCloses ==
  /\ spc = "close"
  /\ conn' = [conn EXCEPT ![scur] = "closed"]
  /\ spc' = IF scur \in socketMap THEN "cleanup" ELSE "stop"
  /\ UNCHANGED <<maps, streams, round, write, scur, closer>>

(* ... whose cleanup_output raises again when the shutdown was faster ...  *)
ServeCleanup ==
  /\ spc = "cleanup"
  /\ IF scur \in socketMap
     THEN Cleanup(scur) /\ spc' = "stop" /\ UNCHANGED scur
     ELSE spc' = "check" /\ scur' = None /\ UNCHANGED <<maps, running, registry>>
  /\ UNCHANGED <<conn, created, outputs, round, write, closer>>

(* ... and the stream it could not start is stopped and forgotten.         *)
ServeStops ==
  LET k == KeyOf[scur] IN
  /\ spc = "stop"
  /\ socketToStream' = [socketToStream EXCEPT ![scur] = None]
  /\ IF streamerMap[k] = None THEN UNCHANGED <<running, registry, streamerMap>>
     ELSE /\ running' = [running EXCEPT ![streamerMap[k]] = FALSE]
          /\ registry' \in Returns(streamerMap[k])
          /\ streamerMap' = [streamerMap EXCEPT ![k] = None]
  /\ spc' = "check" /\ scur' = None
  /\ UNCHANGED <<conn, socketMap, created, outputs, round, write, closer>>

Runner == \/ Check \/ (\E c \in Clients : Accept(c)) \/ AcceptNobody
          \/ Parse \/ ParseRaises \/ Refuse \/ ServeNew \/ ServeShared \/ ServeOld
          \/ Link \/ StartStream \/ AddOutput \/ ServeCloses \/ ServeCleanup \/ ServeStops

-----------------------------------------------------------------------------
(* A stream's writer: takes output_lock, lets a worker write to each       *)
(* output, waits for them, drops those that failed, releases the lock.     *)
RoundBegin(i) ==
  /\ running[i] /\ i \notin round /\ outputs[i] # {}
  /\ round' = round \cup {i}
  /\ write' = [c \in Clients |-> IF c \in outputs[i] THEN "pending" ELSE write[c]]
  /\ UNCHANGED <<conn, maps, streams, server, closer>>

Collect(i, c) ==
  /\ i \in round /\ c \in outputs[i] /\ write[c] \in {"true", "false"}
  /\ outputs' = IF write[c] = "false" THEN [outputs EXCEPT ![i] = @ \ {c}] ELSE outputs
  /\ write' = [write EXCEPT ![c] = "none"]
  /\ UNCHANGED <<conn, maps, created, registry, running, round, server, closer>>

RoundEnd(i) ==
  /\ i \in round /\ \A c \in outputs[i] : write[c] = "none"
  /\ round' = round \ {i}
  /\ UNCHANGED <<conn, maps, streams, write, server, closer>>

(* ClientSocketWrap.write(): a closed client is skipped with True, for     *)
(* ever; sendall works, or fails and the client is closed.                 *)
WriteBegin(c) ==
  /\ write[c] = "pending"
  /\ write' = [write EXCEPT ![c] = IF conn[c] = "open" THEN "writing" ELSE "true"]
  /\ UNCHANGED <<conn, maps, streams, round, server, closer>>

WriteOk(c) ==
  /\ write[c] = "writing"
  /\ write' = [write EXCEPT ![c] = "true"]
  /\ UNCHANGED <<conn, maps, streams, round, server, closer>>

WriteFails(c) ==
  /\ write[c] = "writing"
  /\ conn' = [conn EXCEPT ![c] = "closed"]
  /\ write' = [write EXCEPT ![c] = "locking"]
  /\ UNCHANGED <<maps, streams, round, server, closer>>

(* cleanup_output in the worker; `del socket_map[id]' raises KeyError when *)
(* another thread closed the client too, and the output is dropped anyway. *)
WriteCleanup(c) ==
  /\ write[c] = "locking" /\ ModeLockFree
  /\ IF c \in socketMap THEN Cleanup(c) ELSE UNCHANGED <<maps, running, registry>>
  /\ write' = [write EXCEPT ![c] = "false"]
  /\ UNCHANGED <<conn, created, outputs, round, server, closer>>

Writer(i) == RoundBegin(i) \/ (\E c \in Clients : Collect(i, c)) \/ RoundEnd(i)
Worker(c) == WriteBegin(c) \/ WriteOk(c) \/ WriteFails(c) \/ WriteCleanup(c)

-----------------------------------------------------------------------------
(* shutdown() sets finish_time and calls _cleanup, which closes every      *)
(* socket of a snapshot of socket_map ...                                  *)
CleanupBegin ==
  /\ ShutsDown /\ cpc = "off"
  /\ cpc' = "next" /\ toClose' = socketMap
  /\ UNCHANGED <<conn, maps, streams, round, write, server, ccur>>

CloseSocket(c) ==
  /\ cpc = "next" /\ c \in toClose
  /\ conn' = [conn EXCEPT ![c] = "closed"]
  /\ cpc' = "locking" /\ ccur' = c /\ toClose' = toClose \ {c}
  /\ UNCHANGED <<maps, streams, round, write, server>>

CloseCleanup ==
  /\ cpc = "locking" /\ ModeLockFree
  /\ IF ccur \in socketMap
     THEN Cleanup(ccur) /\ cpc' = "next"
     ELSE cpc' = "raised" /\ UNCHANGED <<maps, running, registry>>
  /\ ccur' = None
  /\ UNCHANGED <<conn, created, outputs, round, write, server, toClose>>

(* ... wakes the runner, forgets the sockets, then their streams, without  *)
(* _lock, and closes the server socket.                                    *)
WakeRunner ==
  /\ cpc = "next" /\ toClose = {}
  /\ cpc' = "reset"
  /\ UNCHANGED <<conn, maps, streams, round, write, server, ccur, toClose>>

ForgetSockets ==
  /\ cpc = "reset"
  /\ cpc' = "forget" /\ socketMap' = {}
  /\ UNCHANGED <<conn, socketToStream, streamerMap, streams, round, write, server, ccur, toClose>>

ForgetStreams ==
  /\ cpc = "forget"
  /\ cpc' = "done" /\ socketToStream' = [c \in Clients |-> None]
  /\ UNCHANGED <<conn, socketMap, streamerMap, streams, round, write, server, ccur, toClose>>

Shutdown == \/ CleanupBegin \/ (\E c \in Clients : CloseSocket(c)) \/ CloseCleanup
            \/ WakeRunner \/ ForgetSockets \/ ForgetStreams

Next == \/ Runner
        \/ \E i \in Instances : Writer(i)
        \/ \E c \in Clients : Worker(c)
        \/ Shutdown

(* Every thread that can take a step takes one; a client's request comes   *)
(* or times out, a socket's write ends or times out.                       *)
Fairness ==
  /\ WF_vars(Runner) /\ WF_vars(Shutdown)
  /\ \A i \in Instances : WF_vars(Writer(i))
  /\ \A c \in Clients : WF_vars(Worker(c))

Spec == Init /\ [][Next]_vars /\ Fairness

-----------------------------------------------------------------------------
(* What routine() does for a client between the first entry it makes for   *)
(* it and the last one it adds or takes back, and the last part of it, the *)
(* exception path.                                                         *)
Serving == spc \in {"link", "start", "add", "close", "cleanup", "stop"}
Undoing == spc \in {"close", "cleanup", "stop"}

(* _cleanup has begun to forget; what the runner has entered since.        *)
Forgotten == cpc \in {"forget", "done"}
Linked == {c \in Clients : socketToStream[c] # None}
Left == socketMap \cup (IF cpc = "done" THEN Linked ELSE {})

Served(c) ==
  LET i == streamerMap[KeyOf[c]] IN i # None /\ running[i] /\ c \in outputs[i]

(* A client in socket_map is an output of a running stream, the one its    *)
(* key has in streamer_map: nobody else's coming or leaving stops it       *)
(* (network_serving.py:81-90).                                             *)
ClientsServed == \A c \in socketMap : Served(c) \/ (c = scur /\ Serving)

(* socket_map and socket_to_stream name the same clients, each with the    *)
(* key it has asked for.  _cleanup empties one after the other without     *)
(* _lock: one client, which was being served meanwhile, may be left in     *)
(* either (network_serving.py:81-90, 136-137, 169-170).                    *)
MapsAgree ==
  /\ \A c \in Linked : socketToStream[c] = KeyOf[c]
  /\ ~Forgotten => Linked = socketMap \ (IF spc = "link" THEN {scur} ELSE {})
  /\ cpc = "done" => \A c \in Left, d \in Left : c = d

(* A stream that runs is in streamer_map: it counts against max_streams    *)
(* and the last client to leave can stop it.  Keys share an instance only  *)
(* if they come to one port key.  What is in streamer_map runs, but for    *)
(* one just entered, which stays so if _cleanup has emptied socket_map     *)
(* before it is started; and one another key's last client has stopped.    *)
(* That one Streamer() no longer hands out: what it does, runs             *)
(* (network_serving.py:86-89, 105-112, 140-141; streamer.py:60-66).        *)
Entering(i) ==
  \/ spc \in {"link", "start"} /\ i = streamerMap[KeyOf[scur]]
  \/ spc \in {"add", "check", "ended"} /\ Forgotten /\ socketMap = {}
Sharing == {k \in Keys : \E l \in Keys \ {k} : PortKeyOf[l] = PortKeyOf[k]}
Registered == {p \in PortKeys : registry[p] # None}
RunningMapped ==
  /\ \A i \in Instances : running[i] => \E k \in Keys : streamerMap[k] = i
  /\ \A k \in Running, l \in Running :
       streamerMap[k] = streamerMap[l] => PortKeyOf[k] = PortKeyOf[l]
  /\ \A k \in Running :
       running[streamerMap[k]] \/ Entering(streamerMap[k]) \/ k \in Sharing
  /\ \A p \in Registered : running[registry[p]] \/ Entering(registry[p])

(* Instances are numbered, and registered under their own port key.        *)
Numbered ==
  /\ \A k \in Running : streamerMap[k] <= created
  /\ \A p \in Registered : registry[p] <= created
  /\ \A i \in Instances : i > created => outputs[i] = {}
  /\ \A p \in Registered, q \in Registered : registry[p] = registry[q] => p = q
  /\ \A p \in Registered, k \in Running : registry[p] = streamerMap[k] => PortKeyOf[k] = p

(* The client the runner has accepted is nobody's output yet; a stream     *)
(* that was not running, or could not be started, has no other client.     *)
Newcomer ==
  /\ scur # None <=> Serving \/ spc \in {"parse", "serve"}
  /\ scur # None => conn[scur] # "new"
  /\ \A c \in Clients : conn[c] = "new" \/ c = scur => \A i \in Instances : c \notin outputs[i]
  /\ spc \in {"link", "start", "add"} => KeyOf[scur] \in Running /\ (scur \in socketMap \/ Forgotten)
  /\ spc = "add" => running[streamerMap[KeyOf[scur]]] \/ (Forgotten /\ socketMap = {})
  /\ Undoing \/ (spc \in {"link", "start"} /\ ~running[streamerMap[KeyOf[scur]]]) =>
       \A c \in socketMap :
         streamerMap[KeyOf[c]] = streamerMap[KeyOf[scur]] => c = scur /\ spc # "stop"

(* The runner serves one client at most after _cleanup has forgotten them. *)
OneLeft ==
  Forgotten =>
    /\ spc \in {"accept", "parse", "serve"} => Left = {}
    /\ Serving => Left \subseteq {scur}
    /\ \A c \in Left, d \in Left : c = d

(* Writes are the outputs' of a round that goes on; one that failed has    *)
(* taken its client out of socket_map.                                     *)
Rounds ==
  /\ \A c \in Clients : write[c] # "none" => \E i \in round : c \in outputs[i]
  /\ \A c \in Clients : write[c] = "false" => c \notin socketMap

(* Types with the bound of max_streams, the mapping it is counted by, and  *)
(* what the runner and the writers may rely on (network_serving.py:81-90,  *)
(* 104-166; output_holder.py:73-95).                                       *)
Inv == TypeOK /\ RunningMapped /\ Numbered /\ Newcomer /\ OneLeft /\ Rounds

(* "Wait for result, if false remove the output" (output_holder.py:87): a  *)
(* client whose write failed is dropped from the outputs.                  *)
FailedOutputRemoved ==
  \A c \in Clients : (write[c] = "locking") ~> (\A i \in Instances : c \notin outputs[i])
=============================================================================
