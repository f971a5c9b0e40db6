---------------------------- MODULE StreamerPool ----------------------------
(***************************************************************************)
(* Streamer.__new__, _return_port_availability, _get_picture_port,         *)
(* take_picture and shutdown_streamers (streamers/streamer.py), with the   *)
(* start/stop of the BaseStreamer instances they hand out                  *)
(* (streamers/base.py) and the camera they record with.                    *)
(*                                                                         *)
(* Threads: one per holder (a mode, a trigger response), any number of     *)
(* picture takers serialised by _capture_lock, and the thread that runs    *)
(* shutdown_streamers.  The class lock cls._lock makes each pool           *)
(* operation one step.  The instance lock is held from StopEnter to        *)
(* StopClose, and by Start for its single step.                            *)
(***************************************************************************)
EXTENDS Naturals, Sequences, FiniteSets

CONSTANTS NumPorts,      \* 4 in the code: _available_ports = [0, 1, 2, 3]
          Keys,          \* port_key values
          Holders,       \* code that obtains, starts and stops streamers
          KeyOf,         \* the key each holder asks for
          Keepers,       \* holders that keep their reference after stop()
          RawKeys,       \* keys whose output is replaced by a circular buffer
          MaxStreamers,  \* bound: instances created in one behaviour
          Closer,        \* the thread in shutdown_streamers
          Exits,         \* does the program shut its streamers down?
          None, Picture

Ports == 0 .. NumPorts - 1
Instances == 1 .. MaxStreamers
Threads == Holders \cup {Closer}

ASSUME PoolAssumption ==
  /\ NumPorts \in Nat \ {0} /\ MaxStreamers \in Nat \ {0}
  /\ KeyOf \in [Holders -> Keys]
  /\ Keepers \subseteq Holders /\ RawKeys \subseteq Keys
  /\ Closer \notin Holders /\ Exits \in BOOLEAN
  /\ None \notin Keys /\ Picture \notin Keys /\ None # Picture
  /\ None \notin Nat /\ Picture \notin Nat

VARIABLES available,    \* cls._available_ports
          picturePort,  \* cls._picture_port
          portmap,      \* cls._portmap: port -> key
          streamers,    \* cls._streamers: key -> instance
          created,      \* instances are numbered as they are created
          portOf,       \* instance.port
          keyOf,        \* instance.format, resize and options, as one key
          isRunning, isRecording,
          writer,       \* the instance's writer thread
          encoder,      \* the camera: who records on each splitter port
          pc, ref,      \* per thread: where it is, the streamer it refers to
          pic, picPort, \* the thread inside take_picture
          toStop,       \* keys still to be visited by shutdown_streamers
          visiting      \* the key it is at, between its two lookups

pool  == <<available, picturePort, portmap, streamers>>
insts == <<created, portOf, keyOf, isRunning, isRecording, writer>>
vars  == <<pool, insts, encoder, pc, ref, pic, picPort, toStop, visiting>>

Elems(s) == {s[n] : n \in DOMAIN s}

(* "none": a raw output, no thread; "starting": start() was called and     *)
(* run() has not yet set writable.                                         *)
WriterStates == {"new", "none", "starting", "writable", "stopped"}

TypeOK ==
  /\ available \in Seq(Ports)
  /\ picturePort \in Ports \cup {None}
  /\ portmap \in [Ports -> Keys \cup {None}]
  /\ streamers \in [Keys -> Instances \cup {None}]
  /\ created \in 0 .. MaxStreamers
  /\ portOf \in [Instances -> Ports \cup {None}]
  /\ keyOf \in [Instances -> Keys \cup {None}]
  /\ isRunning \in [Instances -> BOOLEAN] /\ isRecording \in [Instances -> BOOLEAN]
  /\ writer \in [Instances -> WriterStates]
  /\ encoder \in [Ports -> Instances \cup {None, Picture}]
  /\ pc \in [Threads -> {"idle", "closing", "closed"}]
  /\ ref \in [Threads -> Instances \cup {None}]
  /\ pic \in {"idle", "reserved", "capturing", "captured"}
  /\ picPort \in Ports \cup {None}
  /\ toStop \in SUBSET Keys /\ visiting \in Keys \cup {None}

AllPortsFromOne == [n \in 1 .. NumPorts |-> n]    \* mutant of AllPorts
AllPorts == [n \in 1 .. NumPorts |-> n - 1]

Init ==
  /\ available = AllPorts
  /\ picturePort = None
  /\ portmap = [p \in Ports |-> None]
  /\ streamers = [k \in Keys |-> None]
  /\ created = 0
  /\ portOf = [i \in Instances |-> None]
  /\ keyOf = [i \in Instances |-> None]
  /\ isRunning = [i \in Instances |-> FALSE]
  /\ isRecording = [i \in Instances |-> FALSE]
  /\ writer = [i \in Instances |-> "new"]
  /\ encoder = [p \in Ports |-> None]
  /\ pc = [t \in Threads |-> "idle"]
  /\ ref = [t \in Threads |-> None]
  /\ pic = "idle" /\ picPort = None
  /\ toStop = {} /\ visiting = None

-----------------------------------------------------------------------------
(* __new__ when the key is registered: the same instance is handed out.  A *)
(* holder asks once (a mode) or at every start (RecordToFile, a request).  *)
Reuse(h) ==
  /\ pc[h] = "idle"
  /\ streamers[KeyOf[h]] # None
  /\ ref' = [ref EXCEPT ![h] = streamers[KeyOf[h]]]
  /\ UNCHANGED <<pool, insts, encoder, pc, pic, picPort, toStop, visiting>>

(* __new__ otherwise.  With no port left it raises and changes nothing.    *)
Create(h) ==
  /\ pc[h] = "idle"
  /\ streamers[KeyOf[h]] = None
  /\ available # <<>> /\ created < MaxStreamers
  /\ created' = created + 1
  /\ available' = Tail(available)
  /\ portOf' = [portOf EXCEPT ![created + 1] = Head(available)]
  /\ keyOf' = [keyOf EXCEPT ![created + 1] = KeyOf[h]]
  /\ streamers' = [streamers EXCEPT ![KeyOf[h]] = created + 1]
  /\ portmap' = [portmap EXCEPT ![Head(available)] = KeyOf[h]]
  /\ writer' = IF KeyOf[h] \in RawKeys THEN [writer EXCEPT ![created + 1] = "none"]
                                        ELSE writer
  /\ ref' = [ref EXCEPT ![h] = created + 1]
  /\ UNCHANGED <<picturePort, isRunning, isRecording, encoder, pc, pic, picPort, toStop, visiting>>

(* Mutant of ReturnPort: no check that the port was handed out.            *)
ReturnPortUnchecked(p) ==
  /\ available' = Append(available, p)
  /\ portmap' = [portmap EXCEPT ![p] = None]
  /\ streamers' = IF portmap[p] = None THEN streamers
                  ELSE [streamers EXCEPT ![portmap[p]] = None]
  /\ picturePort' = IF picturePort = p THEN None ELSE picturePort

(* Mutant of ReturnPort: the instance stays registered under its key.      *)
ReturnPortOnly(p) ==
  /\ portmap' = [portmap EXCEPT ![p] = None]
  /\ picturePort' = IF picturePort = p THEN None ELSE picturePort
  /\ available' = IF portmap[p] # None \/ picturePort = p THEN Append(available, p)
                                                         ELSE available
  /\ UNCHANGED streamers

(* _return_port_availability(p), called with any port a caller remembers.  *)
ReturnPort(p) ==
  IF portmap[p] # None
  THEN /\ portmap' = [portmap EXCEPT ![p] = None]
       /\ streamers' = [streamers EXCEPT ![portmap[p]] = None]
       /\ available' = Append(available, p)
       /\ UNCHANGED picturePort
  ELSE IF picturePort = p
  THEN /\ available' = Append(available, p)
       /\ picturePort' = None
       /\ UNCHANGED <<portmap, streamers>>
  ELSE UNCHANGED pool

-----------------------------------------------------------------------------
InstanceLocked(i) == \E t \in Threads : pc[t] = "closing" /\ ref[t] = i

(* start() of a stopped instance.  is_running is set first; a writer       *)
(* thread that already ran cannot be started again (RuntimeError), and the *)
(* camera refuses a port it already encodes on, or the options.            *)
WriterRefuses(i) == writer[i] \in {"starting", "stopped"}
WriterStarted(i) ==
  IF writer[i] = "new" THEN [writer EXCEPT ![i] = "starting"] ELSE writer

StartRecording(h) ==
  LET i == ref[h] IN
  /\ pc[h] = "idle" /\ i # None
  /\ ~InstanceLocked(i) /\ ~isRunning[i]
  /\ ~WriterRefuses(i) /\ encoder[portOf[i]] = None
  /\ isRunning' = [isRunning EXCEPT ![i] = TRUE]
  /\ writer' = WriterStarted(i)
  /\ isRecording' = [isRecording EXCEPT ![i] = TRUE]
  /\ encoder' = [encoder EXCEPT ![portOf[i]] = i]
  /\ UNCHANGED <<pool, created, portOf, keyOf, pc, ref, pic, picPort, toStop, visiting>>

(* The exception leaves start() with is_running set and nothing recording. *)
StartRaises(h) ==
  LET i == ref[h] IN
  /\ pc[h] = "idle" /\ i # None
  /\ ~InstanceLocked(i) /\ ~isRunning[i]
  /\ isRunning' = [isRunning EXCEPT ![i] = TRUE]
  /\ writer' = WriterStarted(i)
  /\ UNCHANGED <<pool, created, portOf, keyOf, isRecording, encoder, pc, ref, pic, picPort, toStop, visiting>>

(* run() of the writer thread: writable is set here, and not by start(),   *)
(* so a stop() that came before it is overwritten.                         *)
WriterRuns(i) ==
  /\ writer[i] = "starting"
  /\ writer' = [writer EXCEPT ![i] = "writable"]
  /\ UNCHANGED <<pool, created, portOf, keyOf, isRunning, isRecording, encoder, pc, ref, pic, picPort, toStop, visiting>>

-----------------------------------------------------------------------------
(* stop(): the port goes back to the pool before anything else is done,    *)
(* whether or not this instance is running.                                *)
NeverForgotten(h) == ref                          \* mutant of AfterStop
AfterStop(h) == IF h \in Keepers THEN ref ELSE [ref EXCEPT ![h] = None]

StopEnter(h) ==
  LET i == ref[h] IN
  /\ pc[h] = "idle" /\ i # None /\ ~InstanceLocked(i)
  /\ ReturnPort(portOf[i])
  /\ IF isRunning[i]
     THEN pc' = [pc EXCEPT ![h] = "closing"] /\ UNCHANGED ref
     ELSE ref' = AfterStop(h) /\ UNCHANGED pc
  /\ UNCHANGED <<insts, encoder, pic, picPort, toStop, visiting>>

WriterStopped(i) ==
  IF writer[i] = "writable" THEN [writer EXCEPT ![i] = "stopped"] ELSE writer

(* Mutant of Closed: stop_recording without asking is_recording first.     *)
ClosedAnyway(i) ==
  /\ encoder' = [encoder EXCEPT ![portOf[i]] = None]
  /\ isRecording' = [isRecording EXCEPT ![i] = FALSE]
  /\ isRunning' = [isRunning EXCEPT ![i] = FALSE]
  /\ writer' = WriterStopped(i)
  /\ UNCHANGED <<created, portOf, keyOf>>

(* close() and the rest of stop(): the recording ends only here.           *)
Closed(i) ==
  /\ encoder' = IF isRecording[i] THEN [encoder EXCEPT ![portOf[i]] = None] ELSE encoder
  /\ isRecording' = [isRecording EXCEPT ![i] = FALSE]
  /\ isRunning' = [isRunning EXCEPT ![i] = FALSE]
  /\ writer' = WriterStopped(i)
  /\ UNCHANGED <<created, portOf, keyOf>>

StopClose(h) ==
  /\ pc[h] = "closing"
  /\ Closed(ref[h])
  /\ pc' = [pc EXCEPT ![h] = "idle"]
  /\ ref' = AfterStop(h)
  /\ UNCHANGED <<pool, pic, picPort, toStop, visiting>>

-----------------------------------------------------------------------------
(* take_picture: _get_picture_port, capture, _return_port_availability.    *)
(* Mutant of PicReserve: every picture takes a port of its own.            *)
PicReserveAnother ==
  /\ pic = "idle" /\ available # <<>>
  /\ picturePort' = Head(available) /\ picPort' = Head(available)
  /\ available' = Tail(available)
  /\ pic' = "reserved"
  /\ UNCHANGED <<portmap, streamers, insts, encoder, pc, ref, toStop, visiting>>

PicReserve ==
  /\ pic = "idle"
  /\ IF picturePort # None
     THEN picPort' = picturePort /\ UNCHANGED pool
     ELSE /\ available # <<>>
          /\ picturePort' = Head(available) /\ picPort' = Head(available)
          /\ available' = Tail(available)
          /\ UNCHANGED <<portmap, streamers>>
  /\ pic' = "reserved"
  /\ UNCHANGED <<insts, encoder, pc, ref, toStop, visiting>>

PicCapture ==
  /\ pic = "reserved" /\ encoder[picPort] = None
  /\ encoder' = [encoder EXCEPT ![picPort] = Picture]
  /\ pic' = "capturing"
  /\ UNCHANGED <<pool, insts, pc, ref, picPort, toStop, visiting>>

PicCaptured ==
  /\ pic = "capturing"
  /\ encoder' = [encoder EXCEPT ![picPort] = None]
  /\ pic' = "captured"
  /\ UNCHANGED <<pool, insts, pc, ref, picPort, toStop, visiting>>

(* capture raises (a busy port, a bad option, a failing output): the port  *)
(* stays reserved for the next picture.                                    *)
PicRaises ==
  /\ pic \in {"reserved", "capturing"}
  /\ encoder' = IF pic = "capturing" THEN [encoder EXCEPT ![picPort] = None] ELSE encoder
  /\ pic' = "idle" /\ picPort' = None
  /\ UNCHANGED <<pool, insts, pc, ref, toStop, visiting>>

PicReturn ==
  /\ pic = "captured"
  /\ ReturnPort(picPort)
  /\ pic' = "idle" /\ picPort' = None
  /\ UNCHANGED <<insts, encoder, pc, ref, toStop, visiting>>

-----------------------------------------------------------------------------
(* shutdown_streamers: a snapshot of the keys, then for each of them       *)
(* _streamers[k].stop() and _streamers[k].shutdown(), each a new lookup.   *)
Registered == {k \in Keys : streamers[k] # None}

ShutdownBegin ==
  /\ Exits /\ pc[Closer] = "idle" /\ visiting = None /\ toStop = {}
  /\ toStop' = Registered
  /\ UNCHANGED <<pool, insts, encoder, pc, ref, pic, picPort, visiting>>

(* The lookup and stop(), for the next key.                                *)
ShutdownStop(k) ==
  LET i == streamers[k] IN
  /\ pc[Closer] = "idle" /\ k \in toStop
  /\ i # None /\ ~InstanceLocked(i)
  /\ ReturnPort(portOf[i])
  /\ pc' = [pc EXCEPT ![Closer] = IF isRunning[i] THEN "closing" ELSE "closed"]
  /\ ref' = [ref EXCEPT ![Closer] = i]
  /\ toStop' = toStop \ {k} /\ visiting' = k
  /\ UNCHANGED <<insts, encoder, pic, picPort>>

ShutdownClose ==
  /\ pc[Closer] = "closing"
  /\ Closed(ref[Closer])
  /\ pc' = [pc EXCEPT ![Closer] = IF visiting = None THEN "idle" ELSE "closed"]
  /\ UNCHANGED <<pool, ref, pic, picPort, toStop, visiting>>

(* The second lookup.  stop() has removed the key: it succeeds only when   *)
(* the key was registered again in the meantime, and then the new          *)
(* instance's shutdown() stops that one and the loop goes on.              *)
ShutdownAgain ==
  LET i == streamers[visiting] IN
  /\ pc[Closer] = "closed"
  /\ i # None /\ ~InstanceLocked(i)
  /\ ReturnPort(portOf[i])
  /\ pc' = [pc EXCEPT ![Closer] = IF isRunning[i] THEN "closing" ELSE "idle"]
  /\ writer' = IF isRunning[i] THEN writer ELSE WriterStopped(i)
  /\ ref' = [ref EXCEPT ![Closer] = i]
  /\ visiting' = None
  /\ UNCHANGED <<created, portOf, keyOf, isRunning, isRecording, encoder, pic, picPort, toStop>>

(* KeyError at either lookup: the keys not visited yet are never stopped.  *)
ShutdownRaises ==
  /\ \/ pc[Closer] = "idle" /\ \E k \in toStop : streamers[k] = None
     \/ pc[Closer] = "closed" /\ streamers[visiting] = None
  /\ pc' = [pc EXCEPT ![Closer] = "idle"]
  /\ toStop' = {} /\ visiting' = None
  /\ UNCHANGED <<pool, insts, encoder, ref, pic, picPort>>

Shutdown == \/ ShutdownBegin \/ (\E k \in Keys : ShutdownStop(k))
            \/ ShutdownClose \/ ShutdownAgain \/ ShutdownRaises

-----------------------------------------------------------------------------
TakePicture == PicReserve \/ PicCapture \/ PicCaptured \/ PicRaises \/ PicReturn

Holder(h) == \/ Reuse(h) \/ Create(h)
             \/ StartRecording(h) \/ StartRaises(h)
             \/ StopEnter(h) \/ StopClose(h)

Next == \/ \E h \in Holders : Holder(h)
        \/ \E i \in Instances : WriterRuns(i)
        \/ TakePicture
        \/ Shutdown

Spec == Init /\ [][Next]_vars

-----------------------------------------------------------------------------
Leased(i) == portmap[portOf[i]] # None /\ streamers[portmap[portOf[i]]] = i

(* A port is on the free list (once), leased, or the picture port: exactly *)
(* one of the three, whatever stale ports stop() hands back                *)
(* (_return_port_availability, streamer.py:112-122).                       *)
NoRepeats(s) == \A m, n \in DOMAIN s : s[m] = s[n] => m = n
PortPartition ==
  /\ NoRepeats(available)
  /\ \A p \in Ports : /\ p \in Elems(available) <=> portmap[p] = None /\ picturePort # p
                      /\ ~(portmap[p] # None /\ picturePort = p)

(* _streamers and _portmap are inverse to each other: the instance found   *)
(* under a leased port's key is the one that has the port.                 *)
RegistryConsistent ==
  /\ \A p \in Ports : portmap[p] # None => /\ streamers[portmap[p]] # None
                                           /\ portOf[streamers[portmap[p]]] = p
  /\ \A k \in Keys : streamers[k] # None => /\ keyOf[streamers[k]] = k
                                            /\ portmap[portOf[streamers[k]]] = k

(* An instance believes it records exactly while the camera encodes for it *)
(* on its port, so that close() (base.py:38-47) never ends the recording   *)
(* of the instance that got the port after it.                             *)
CameraAgrees ==
  \A i \in 1 .. created : isRecording[i] <=> encoder[portOf[i]] = i

(* A video recorder has a constant hold on its port (streamer.py:100-101)  *)
(* from the end of start() to the beginning of its stop().                 *)
RecordersKeepPort ==
  \A i \in 1 .. created : isRecording[i] /\ ~InstanceLocked(i) => Leased(i)

(* While a picture is being taken its port stays reserved for pictures     *)
(* (streamer.py:129-137).                                                  *)
PictureKeepsPort == pic # "idle" => picturePort = picPort

(* Everything above is an implementation of the port pool's promise.       *)
Owner == [p \in Ports |-> IF portmap[p] # None THEN portmap[p]
                          ELSE IF picturePort = p THEN Picture ELSE None]
PP == INSTANCE PortPool WITH Free <- None, owner <- Owner
ImplementsPortPool == PP!Spec
=============================================================================
