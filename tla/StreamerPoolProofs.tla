------------------------- MODULE StreamerPoolProofs -------------------------
(***************************************************************************)
(* Proofs about StreamerPool for any number of ports, keys, holders and    *)
(* instances: the pool's lists and dictionaries stay consistent, the       *)
(* instances agree with the camera, and the whole implements PortPool.     *)
(***************************************************************************)
EXTENDS StreamerPool, TLAPS

(* Taking the head of a list without repeats.                              *)
LEMMA TailFacts ==
  ASSUME NEW S, NEW s \in Seq(S), s # <<>>, NoRepeats(s)
  PROVE  /\ Head(s) \in S /\ Head(s) \in Elems(s)
         /\ Tail(s) \in Seq(S) /\ NoRepeats(Tail(s))
         /\ Elems(Tail(s)) = Elems(s) \ {Head(s)}
<1>1. /\ Len(s) \in Nat \ {0} /\ DOMAIN s = 1 .. Len(s)
      /\ Head(s) = s[1] /\ 1 \in DOMAIN s
  OBVIOUS
<1>2. /\ Tail(s) \in Seq(S) /\ DOMAIN Tail(s) = 1 .. Len(s) - 1
      /\ \A n \in 1 .. Len(s) - 1 : Tail(s)[n] = s[n + 1]
  OBVIOUS
<1>3. NoRepeats(Tail(s))
  BY <1>1, <1>2 DEF NoRepeats
<1>4. Elems(Tail(s)) = Elems(s) \ {Head(s)}
  <2>1. ASSUME NEW x \in Elems(Tail(s)) PROVE x \in Elems(s) \ {Head(s)}
    BY <1>1, <1>2 DEF Elems, NoRepeats
  <2>2. ASSUME NEW x \in Elems(s) \ {Head(s)} PROVE x \in Elems(Tail(s))
    <3>1. PICK n \in 1 .. Len(s) : x = s[n]
      BY <1>1 DEF Elems
    <3>2. n - 1 \in 1 .. Len(s) - 1 /\ x = Tail(s)[n - 1]
      BY <1>1, <1>2, <3>1
    <3> QED BY <1>2, <3>2 DEF Elems
  <2> QED BY <2>1, <2>2
<1>5. Head(s) \in S
  OBVIOUS
<1>6. Head(s) \in Elems(s)
  BY <1>1 DEF Elems
<1> QED BY <1>2, <1>3, <1>4, <1>5, <1>6

(* Putting an element that is not in the list at its end.                  *)
LEMMA AppendFacts ==
  ASSUME NEW S, NEW s \in Seq(S), NEW x \in S, x \notin Elems(s), NoRepeats(s)
  PROVE  /\ Append(s, x) \in Seq(S) /\ NoRepeats(Append(s, x))
         /\ Elems(Append(s, x)) = Elems(s) \cup {x}
<1>1. /\ Len(s) \in Nat /\ DOMAIN s = 1 .. Len(s)
      /\ DOMAIN Append(s, x) = 1 .. Len(s) + 1
      /\ \A n \in 1 .. Len(s) : Append(s, x)[n] = s[n]
      /\ Append(s, x)[Len(s) + 1] = x
  OBVIOUS
<1>2. NoRepeats(Append(s, x))
  BY <1>1 DEF NoRepeats, Elems
<1>3. Elems(Append(s, x)) = Elems(s) \cup {x}
  <2>1. ASSUME NEW y \in Elems(Append(s, x)) PROVE y \in Elems(s) \cup {x}
    BY <1>1 DEF Elems
  <2>2. ASSUME NEW y \in Elems(s) \cup {x} PROVE y \in Elems(Append(s, x))
    <3>1. CASE y = x
      BY <1>1, <3>1 DEF Elems
    <3>2. CASE y \in Elems(s)
      <4>1. PICK n \in 1 .. Len(s) : y = s[n]
        BY <1>1, <3>2 DEF Elems
      <4> QED BY <1>1, <4>1 DEF Elems
    <3> QED BY <3>1, <3>2
  <2> QED BY <2>1, <2>2
<1> QED BY <1>2, <1>3

-----------------------------------------------------------------------------
(* What the threads know: instances in use have been created, whoever is   *)
(* inside stop() or take_picture has what it needs, and the camera encodes *)
(* an instance on its own port only.                                       *)
WellFormed ==
  /\ \A i \in Instances : i <= created => portOf[i] \in Ports /\ keyOf[i] \in Keys
  /\ \A i \in Instances : isRecording[i] => i <= created
  /\ \A k \in Keys : streamers[k] # None => streamers[k] <= created
  /\ \A t \in Threads : ref[t] # None => ref[t] <= created
  /\ \A t \in Threads : pc[t] # "idle" => ref[t] # None
  /\ pc[Closer] = "closed" => visiting # None
  /\ pic # "idle" => picPort # None
  /\ pic = "capturing" => encoder[picPort] = Picture
  /\ \A p \in Ports : encoder[p] \in Instances => /\ encoder[p] <= created
                                                 /\ portOf[encoder[p]] = p

IInv == TypeOK /\ WellFormed /\ PortPartition /\ RegistryConsistent /\ CameraAgrees

LEMMA InitIInv == Init => IInv
<1> SUFFICES ASSUME Init PROVE IInv
  OBVIOUS
<1> USE PoolAssumption
<1>1. /\ AllPorts \in Seq(Ports) /\ DOMAIN AllPorts = 1 .. NumPorts
      /\ \A n \in 1 .. NumPorts : AllPorts[n] = n - 1
  BY DEF AllPorts, Ports
<1>2. TypeOK
  BY <1>1 DEF Init, TypeOK, WriterStates, Instances, Threads
<1>3. WellFormed
  BY DEF Init, WellFormed, Instances, Ports, Threads
<1>4. NoRepeats(available)
  BY <1>1 DEF Init, NoRepeats
<1>5. \A p \in Ports : p \in Elems(available)
  <2> TAKE p \in Ports
  <2>1. p + 1 \in 1 .. NumPorts /\ AllPorts[p + 1] = p
    BY <1>1 DEF Ports
  <2> QED BY <1>1, <2>1 DEF Init, Elems
<1>6. PortPartition
  BY <1>4, <1>5 DEF Init, PortPartition, Ports
<1>7. RegistryConsistent
  BY DEF Init, RegistryConsistent
<1>8. CameraAgrees
  BY DEF Init, CameraAgrees
<1> QED BY <1>2, <1>3, <1>6, <1>7, <1>8 DEF IInv

(* Handing any port back, leased, reserved or stale, keeps the pool whole. *)
LEMMA ReturnPortKeepsPool ==
  ASSUME TypeOK, PortPartition, RegistryConsistent,
         NEW p \in Ports, ReturnPort(p), UNCHANGED <<created, portOf, keyOf>>
  PROVE  /\ available' \in Seq(Ports)
         /\ picturePort' \in Ports \cup {None}
         /\ portmap' \in [Ports -> Keys \cup {None}]
         /\ streamers' \in [Keys -> Instances \cup {None}]
         /\ \A k \in Keys : streamers'[k] # None => streamers'[k] = streamers[k]
         /\ PortPartition' /\ RegistryConsistent'
<1> USE PoolAssumption DEF TypeOK
<1>1. CASE portmap[p] # None
  <2>1. /\ portmap' = [portmap EXCEPT ![p] = None]
        /\ streamers' = [streamers EXCEPT ![portmap[p]] = None]
        /\ available' = Append(available, p)
        /\ picturePort' = picturePort
    BY <1>1 DEF ReturnPort
  <2>2. p \notin Elems(available) /\ NoRepeats(available)
    BY <1>1 DEF PortPartition
  <2>3. /\ available' \in Seq(Ports) /\ NoRepeats(available')
        /\ Elems(available') = Elems(available) \cup {p}
    BY <2>1, <2>2, AppendFacts
  <2>4. PortPartition'
    BY <1>1, <2>1, <2>3 DEF PortPartition
  <2>5. RegistryConsistent'
    BY <1>1, <2>1 DEF RegistryConsistent
  <2> QED BY <2>1, <2>3, <2>4, <2>5
<1>2. CASE portmap[p] = None /\ picturePort = p
  <2>1. /\ UNCHANGED <<portmap, streamers>>
        /\ available' = Append(available, p)
        /\ picturePort' = None
    BY <1>2 DEF ReturnPort
  <2>2. p \notin Elems(available) /\ NoRepeats(available)
    BY <1>2 DEF PortPartition
  <2>3. /\ available' \in Seq(Ports) /\ NoRepeats(available')
        /\ Elems(available') = Elems(available) \cup {p}
    BY <2>1, <2>2, AppendFacts
  <2>4. PortPartition'
    BY <1>2, <2>1, <2>3 DEF PortPartition, Ports
  <2>5. RegistryConsistent'
    BY <2>1 DEF RegistryConsistent
  <2> QED BY <2>1, <2>3, <2>4, <2>5
<1>3. CASE portmap[p] = None /\ picturePort # p
  <2>1. UNCHANGED pool
    BY <1>3 DEF ReturnPort
  <2> QED BY <2>1 DEF pool, PortPartition, RegistryConsistent
<1> QED BY <1>1, <1>2, <1>3

-----------------------------------------------------------------------------
(* Each group of actions keeps the invariant.                              *)

(* Obtaining a streamer.                                                   *)
LEMMA ObtainKeepsIInv ==
  ASSUME IInv, NEW h \in Holders, Reuse(h) \/ Create(h)
  PROVE  IInv'
<1> USE PoolAssumption DEF IInv
<1>1. CASE Reuse(h)
  <2>1. UNCHANGED <<pool, insts, encoder, pc, pic, picPort, toStop, visiting>>
    BY <1>1 DEF Reuse
  <2>2. ref' = [ref EXCEPT ![h] = streamers[KeyOf[h]]] /\ streamers[KeyOf[h]] # None
    BY <1>1 DEF Reuse
  <2>3. TypeOK'
    BY <2>1, <2>2 DEF TypeOK, pool, insts, Threads
  <2>4. WellFormed'
    BY <2>1, <2>2 DEF TypeOK, WellFormed, pool, insts, Threads
  <2>5. PortPartition' /\ RegistryConsistent' /\ CameraAgrees'
    BY <2>1 DEF pool, insts, PortPartition, RegistryConsistent, CameraAgrees
  <2> QED BY <2>3, <2>4, <2>5
<1>2. CASE Create(h)
  <2> DEFINE i == created + 1
             p == Head(available)
             k == KeyOf[h]
  <2>1. /\ available # <<>> /\ streamers[k] = None /\ created < MaxStreamers
        /\ created' = i /\ available' = Tail(available)
        /\ portOf' = [portOf EXCEPT ![i] = p]
        /\ keyOf' = [keyOf EXCEPT ![i] = k]
        /\ streamers' = [streamers EXCEPT ![k] = i]
        /\ portmap' = [portmap EXCEPT ![p] = k]
        /\ ref' = [ref EXCEPT ![h] = i]
        /\ UNCHANGED <<picturePort, isRunning, isRecording, encoder, pc, pic, picPort, toStop, visiting>>
    BY <1>2 DEF Create
  <2>2. writer' = [writer EXCEPT ![i] = "none"] \/ writer' = writer
    BY <1>2 DEF Create
  <2>3. /\ p \in Ports /\ p \in Elems(available)
        /\ available' \in Seq(Ports) /\ NoRepeats(available')
        /\ Elems(available') = Elems(available) \ {p}
    BY <2>1, TailFacts DEF TypeOK, PortPartition
  <2>4. portmap[p] = None /\ picturePort # p
    BY <2>3 DEF PortPartition
  <2>0. created' \in 0 .. MaxStreamers
    BY <2>1 DEF TypeOK
  <2>5. i \in Instances /\ k \in Keys /\ h \in Threads /\ i # None /\ k # None
    BY <2>1 DEF TypeOK, Instances, Threads
  <2> HIDE DEF i, p, k
  <2>6. TypeOK'
    <3>1. writer' \in [Instances -> WriterStates]
      BY <2>2, <2>5 DEF TypeOK, WriterStates
    <3> QED BY <2>0, <2>1, <2>3, <2>5, <3>1 DEF TypeOK
  <2>7. PortPartition'
    BY <2>1, <2>3, <2>4, <2>5 DEF TypeOK, PortPartition
  <2>8. \A j \in Instances : j <= created => j # i
    BY DEF i, Instances, TypeOK
  <2>9. RegistryConsistent'
    BY <2>1, <2>3, <2>4, <2>5, <2>8 DEF TypeOK, WellFormed, RegistryConsistent
  <2>10. \A j \in Instances : j <= created' <=> j <= created \/ j = i
    BY <2>1 DEF i, Instances, TypeOK
  <2>11. WellFormed'
    BY <2>1, <2>3, <2>5, <2>8, <2>10 DEF TypeOK, WellFormed, Threads
  <2>12. CameraAgrees'
    <3> SUFFICES ASSUME NEW j \in Instances, j <= created'
                 PROVE  isRecording'[j] <=> encoder'[portOf'[j]] = j
      BY <2>6 DEF CameraAgrees, TypeOK, Instances
    <3>1. CASE j = i
      <4>1. ~isRecording[i]
        BY <2>5, <2>8 DEF WellFormed
      <4>2. encoder[p] # i
        BY <2>3, <2>5, <2>8 DEF WellFormed
      <4>3. portOf'[i] = p
        BY <2>1, <2>5 DEF TypeOK
      <4> QED BY <2>1, <3>1, <4>1, <4>2, <4>3
    <3>2. CASE j # i
      <4>1. j \in 1 .. created
        BY <2>10, <3>2 DEF TypeOK, Instances
      <4>2. portOf'[j] = portOf[j]
        BY <2>1, <2>5, <3>2 DEF TypeOK
      <4>3. isRecording[j] <=> encoder[portOf[j]] = j
        BY <4>1 DEF CameraAgrees
      <4> QED BY <2>1, <4>2, <4>3
    <3> QED BY <3>1, <3>2
  <2> QED BY <2>6, <2>7, <2>9, <2>11, <2>12
<1> QED BY <1>1, <1>2

(* start(), whether it succeeds or raises, and the writer thread.          *)
LEMMA StartKeepsIInv ==
  ASSUME IInv, NEW h \in Holders, StartRecording(h) \/ StartRaises(h)
  PROVE  IInv'
<1> USE PoolAssumption DEF IInv
<1> DEFINE i == ref[h]
<1>1. /\ i # None /\ h \in Threads
      /\ isRunning' = [isRunning EXCEPT ![i] = TRUE]
      /\ writer' = WriterStarted(i)
      /\ UNCHANGED <<pool, created, portOf, keyOf, pc, ref, pic, picPort, toStop, visiting>>
  BY DEF StartRecording, StartRaises, Threads
<1>2. i \in Instances /\ i <= created /\ portOf[i] \in Ports
  BY <1>1 DEF TypeOK, WellFormed
<1>3. writer' \in [Instances -> WriterStates]
  BY <1>1, <1>2 DEF TypeOK, WriterStarted, WriterStates
<1>4. PortPartition' /\ RegistryConsistent'
  BY <1>1 DEF pool, PortPartition, RegistryConsistent
<1>5. CASE StartRecording(h)
  <2>1. /\ encoder[portOf[i]] = None
        /\ isRecording' = [isRecording EXCEPT ![i] = TRUE]
        /\ encoder' = [encoder EXCEPT ![portOf[i]] = i]
    BY <1>5 DEF StartRecording
  <2> HIDE DEF i
  <2>2. TypeOK'
    BY <1>1, <1>2, <1>3, <2>1 DEF TypeOK, pool
  <2>3. WellFormed'
    BY <1>1, <1>2, <2>1 DEF TypeOK, WellFormed, pool
  <2>4. CameraAgrees'
    <3> SUFFICES ASSUME NEW j \in 1 .. created
                 PROVE  isRecording'[j] <=> encoder'[portOf[j]] = j
      BY <1>1 DEF CameraAgrees
    <3>0. j \in Instances /\ portOf[j] \in Ports
      BY DEF TypeOK, WellFormed, Instances
    <3>1. CASE j = i
      BY <1>2, <2>1, <3>0, <3>1 DEF TypeOK
    <3>2. CASE j # i
      <4>1. isRecording'[j] = isRecording[j]
        BY <1>2, <2>1, <3>0, <3>2 DEF TypeOK
      <4>2. encoder[portOf[j]] = j <=> encoder'[portOf[j]] = j
        BY <1>2, <2>1, <3>0, <3>2 DEF TypeOK, Instances
      <4> QED BY <4>1, <4>2 DEF CameraAgrees
    <3> QED BY <3>1, <3>2
  <2> QED BY <1>4, <2>2, <2>3, <2>4
<1>6. CASE StartRaises(h)
  <2>1. UNCHANGED <<isRecording, encoder>>
    BY <1>6 DEF StartRaises
  <2> HIDE DEF i
  <2>2. TypeOK'
    BY <1>1, <1>2, <1>3, <2>1 DEF TypeOK, pool
  <2>3. WellFormed' /\ CameraAgrees'
    BY <1>1, <2>1 DEF WellFormed, CameraAgrees, pool
  <2> QED BY <1>4, <2>2, <2>3
<1> QED BY <1>5, <1>6

LEMMA WriterKeepsIInv ==
  ASSUME IInv, NEW i \in Instances, WriterRuns(i)
  PROVE  IInv'
<1>1. writer' \in [Instances -> WriterStates]
  BY DEF IInv, TypeOK, WriterRuns, WriterStates
<1>2. TypeOK'
  BY <1>1 DEF IInv, TypeOK, WriterRuns, pool
<1>3. WellFormed' /\ PortPartition' /\ RegistryConsistent' /\ CameraAgrees'
  BY DEF IInv, WriterRuns, pool, WellFormed, PortPartition, RegistryConsistent, CameraAgrees
<1> QED BY <1>2, <1>3 DEF IInv

(* The first half of stop(): the port is handed back and only pc, ref,     *)
(* toStop and visiting (and a writer) change besides.                      *)
LEMMA ReturningKeepsIInv ==
  ASSUME IInv, NEW p \in Ports, ReturnPort(p),
         UNCHANGED <<created, portOf, keyOf, isRunning, isRecording, encoder, pic, picPort>>,
         writer' \in [Instances -> WriterStates],
         pc' \in [Threads -> {"idle", "closing", "closed"}],
         ref' \in [Threads -> Instances \cup {None}],
         \A t \in Threads : ref'[t] # None => ref'[t] <= created,
         \A t \in Threads : pc'[t] # "idle" => ref'[t] # None,
         toStop' \in SUBSET Keys, visiting' \in Keys \cup {None},
         pc'[Closer] = "closed" => visiting' # None
  PROVE  IInv'
<1>1. /\ available' \in Seq(Ports) /\ picturePort' \in Ports \cup {None}
      /\ portmap' \in [Ports -> Keys \cup {None}]
      /\ streamers' \in [Keys -> Instances \cup {None}]
      /\ \A k \in Keys : streamers'[k] # None => streamers'[k] = streamers[k]
      /\ PortPartition' /\ RegistryConsistent'
  BY ReturnPortKeepsPool DEF IInv
<1>2. TypeOK'
  BY <1>1 DEF IInv, TypeOK
<1>3. WellFormed'
  BY <1>1 DEF IInv, WellFormed
<1>4. CameraAgrees'
  BY DEF IInv, CameraAgrees
<1> QED BY <1>1, <1>2, <1>3, <1>4 DEF IInv

(* The second half of stop().                                              *)
LEMMA ClosingKeepsIInv ==
  ASSUME IInv, NEW i \in Instances, i <= created, Closed(i),
         UNCHANGED <<pool, pic, picPort, toStop, visiting>>,
         pc' \in [Threads -> {"idle", "closing", "closed"}],
         ref' \in [Threads -> Instances \cup {None}],
         \A t \in Threads : ref'[t] # None => ref'[t] <= created,
         \A t \in Threads : pc'[t] # "idle" => ref'[t] # None,
         pc'[Closer] = "closed" => visiting # None
  PROVE  IInv'
<1> USE PoolAssumption DEF IInv
<1>1. /\ isRecording' = [isRecording EXCEPT ![i] = FALSE]
      /\ isRunning' = [isRunning EXCEPT ![i] = FALSE]
      /\ UNCHANGED <<created, portOf, keyOf>>
  BY DEF Closed
<1>2. writer' \in [Instances -> WriterStates]
  BY DEF Closed, WriterStopped, TypeOK, WriterStates
<1>3. portOf[i] \in Ports /\ i \in 1 .. created
  BY DEF WellFormed, TypeOK, Instances
<1>4. PortPartition' /\ RegistryConsistent'
  BY <1>1 DEF pool, PortPartition, RegistryConsistent
<1>5. CASE isRecording[i]
  <2>1. encoder' = [encoder EXCEPT ![portOf[i]] = None] /\ encoder[portOf[i]] = i
    BY <1>3, <1>5 DEF Closed, CameraAgrees
  <2>2. TypeOK'
    BY <1>1, <1>2, <1>3, <2>1 DEF TypeOK, pool
  <2>3. WellFormed'
    <3>1. pic = "capturing" => encoder'[picPort] = Picture
      BY <1>3, <2>1 DEF WellFormed, TypeOK, Instances
    <3>2. \A p \in Ports : encoder'[p] \in Instances => encoder'[p] <= created /\ portOf[encoder'[p]] = p
      BY <1>3, <2>1 DEF WellFormed, TypeOK, Instances
    <3>3. \A j \in Instances : isRecording'[j] => j <= created
      BY <1>1 DEF WellFormed, TypeOK
    <3> QED BY <1>1, <3>1, <3>2, <3>3 DEF WellFormed, pool
  <2>4. CameraAgrees'
    <3> SUFFICES ASSUME NEW j \in 1 .. created
                 PROVE  isRecording'[j] <=> encoder'[portOf[j]] = j
      BY <1>1 DEF CameraAgrees
    <3>0. j \in Instances /\ portOf[j] \in Ports /\ None # j
      BY DEF TypeOK, WellFormed, Instances
    <3>1. CASE j = i
      BY <1>1, <1>3, <2>1, <3>0, <3>1 DEF TypeOK
    <3>2. CASE j # i
      <4>1. isRecording'[j] = isRecording[j]
        BY <1>1, <3>0, <3>2 DEF TypeOK
      <4>2. encoder[portOf[j]] = j <=> encoder'[portOf[j]] = j
        BY <1>3, <2>1, <3>0, <3>2 DEF TypeOK
      <4> QED BY <4>1, <4>2 DEF CameraAgrees
    <3> QED BY <3>1, <3>2
  <2> QED BY <1>4, <2>2, <2>3, <2>4
<1>6. CASE ~isRecording[i]
  <2>1. encoder' = encoder
    BY <1>6 DEF Closed
  <2>2. \A j \in Instances : isRecording'[j] <=> isRecording[j]
    BY <1>1, <1>6 DEF TypeOK
  <2>3. TypeOK'
    BY <1>1, <1>2, <2>1 DEF TypeOK, pool
  <2>4. WellFormed'
    BY <1>1, <2>1, <2>2 DEF WellFormed, pool
  <2>5. CameraAgrees'
    BY <1>1, <2>1, <2>2 DEF CameraAgrees, TypeOK, Instances
  <2> QED BY <1>4, <2>3, <2>4, <2>5
<1> QED BY <1>5, <1>6

LEMMA StopKeepsIInv ==
  ASSUME IInv, NEW h \in Holders, StopEnter(h) \/ StopClose(h)
  PROVE  IInv'
<1> USE PoolAssumption DEF IInv
<1> DEFINE i == ref[h]
<1>1. h \in Threads /\ h # Closer
  BY DEF Threads
<1>2. i # None /\ i \in Instances /\ i <= created /\ portOf[i] \in Ports
  BY <1>1 DEF StopEnter, StopClose, TypeOK, WellFormed
<1>3. AfterStop(h) \in [Threads -> Instances \cup {None}]
  BY <1>1 DEF AfterStop, TypeOK
<1>4. \A t \in Threads : AfterStop(h)[t] # None => AfterStop(h)[t] = ref[t]
  BY <1>1 DEF AfterStop, TypeOK
<1>5. \A t \in Threads : t # h => AfterStop(h)[t] = ref[t]
  BY <1>1 DEF AfterStop, TypeOK
<1>6. CASE StopEnter(h)
  <2>1. /\ ReturnPort(portOf[i]) /\ pc[h] = "idle"
        /\ UNCHANGED <<insts, encoder, pic, picPort, toStop, visiting>>
        /\ \/ pc' = [pc EXCEPT ![h] = "closing"] /\ ref' = ref
           \/ pc' = pc /\ ref' = AfterStop(h)
    BY <1>6 DEF StopEnter
  <2> HIDE DEF i
  <2>2. /\ pc' \in [Threads -> {"idle", "closing", "closed"}]
        /\ ref' \in [Threads -> Instances \cup {None}]
    BY <1>1, <1>3, <2>1 DEF TypeOK
  <2>3. \A t \in Threads : ref'[t] # None => ref'[t] <= created
    BY <1>4, <2>1 DEF WellFormed
  <2>4. \A t \in Threads : pc'[t] # "idle" => ref'[t] # None
    BY <1>1, <1>2, <1>5, <2>1 DEF WellFormed, TypeOK, i
  <2>5. pc'[Closer] = "closed" => visiting' # None
    BY <1>1, <2>1 DEF WellFormed, TypeOK, Threads
  <2>6. toStop' \in SUBSET Keys /\ visiting' \in Keys \cup {None}
    BY <2>1 DEF TypeOK
  <2>7. writer' \in [Instances -> WriterStates]
    BY <2>1 DEF TypeOK, insts
  <2> QED BY <1>2, <2>1, <2>2, <2>3, <2>4, <2>5, <2>6, <2>7, ReturningKeepsIInv DEF insts
<1>7. CASE StopClose(h)
  <2>1. /\ Closed(i) /\ pc' = [pc EXCEPT ![h] = "idle"] /\ ref' = AfterStop(h)
        /\ UNCHANGED <<pool, pic, picPort, toStop, visiting>>
    BY <1>7 DEF StopClose
  <2> HIDE DEF i
  <2>2. /\ pc' \in [Threads -> {"idle", "closing", "closed"}]
        /\ ref' \in [Threads -> Instances \cup {None}]
    BY <1>1, <1>3, <2>1 DEF TypeOK
  <2>3. \A t \in Threads : ref'[t] # None => ref'[t] <= created
    BY <1>4, <2>1 DEF WellFormed
  <2>4. \A t \in Threads : pc'[t] # "idle" => ref'[t] # None
    BY <1>1, <1>5, <2>1 DEF WellFormed, TypeOK
  <2>5. pc'[Closer] = "closed" => visiting # None
    BY <1>1, <2>1 DEF WellFormed, TypeOK, Threads
  <2> QED BY <1>2, <2>1, <2>2, <2>3, <2>4, <2>5, ClosingKeepsIInv
<1> QED BY <1>6, <1>7

(* take_picture.                                                           *)
LEMMA PictureKeepsIInv ==
  ASSUME IInv, TakePicture
  PROVE  IInv'
<1> USE PoolAssumption DEF IInv
<1>1. CASE PicReserve /\ picturePort # None
  <2>1. /\ picPort' = picturePort /\ pic' = "reserved"
        /\ UNCHANGED <<pool, insts, encoder, pc, ref, toStop, visiting>>
    BY <1>1 DEF PicReserve
  <2>2. TypeOK'
    BY <2>1 DEF TypeOK, pool, insts
  <2>3. WellFormed'
    BY <1>1, <2>1 DEF WellFormed, pool, insts
  <2>4. PortPartition' /\ RegistryConsistent' /\ CameraAgrees'
    BY <2>1 DEF pool, insts, PortPartition, RegistryConsistent, CameraAgrees
  <2> QED BY <2>2, <2>3, <2>4
<1>2. CASE PicReserve /\ picturePort = None
  <2> DEFINE p == Head(available)
  <2>1. /\ available # <<>>
        /\ picturePort' = p /\ picPort' = p /\ available' = Tail(available)
        /\ pic' = "reserved"
        /\ UNCHANGED <<portmap, streamers, insts, encoder, pc, ref, toStop, visiting>>
    BY <1>2 DEF PicReserve
  <2>2. /\ p \in Ports /\ p \in Elems(available)
        /\ available' \in Seq(Ports) /\ NoRepeats(available')
        /\ Elems(available') = Elems(available) \ {p}
    BY <2>1, TailFacts DEF TypeOK, PortPartition
  <2> HIDE DEF p
  <2>3. TypeOK'
    BY <2>1, <2>2 DEF TypeOK, insts
  <2>4. p # None /\ \A q \in Ports : q # None
    BY <2>2 DEF Ports
  <2>5. WellFormed'
    BY <2>1, <2>4 DEF WellFormed, insts
  <2>6. PortPartition'
    BY <1>2, <2>1, <2>2, <2>4 DEF PortPartition, TypeOK
  <2>7. RegistryConsistent' /\ CameraAgrees'
    BY <2>1 DEF insts, RegistryConsistent, CameraAgrees
  <2> QED BY <2>3, <2>5, <2>6, <2>7
<1>3. CASE PicCapture
  <2>1. /\ pic = "reserved" /\ encoder[picPort] = None
        /\ encoder' = [encoder EXCEPT ![picPort] = Picture]
        /\ pic' = "capturing"
        /\ UNCHANGED <<pool, insts, pc, ref, picPort, toStop, visiting>>
    BY <1>3 DEF PicCapture
  <2>2. picPort \in Ports
    BY <2>1 DEF TypeOK, WellFormed
  <2>3. TypeOK'
    BY <2>1, <2>2 DEF TypeOK, pool, insts
  <2>4. WellFormed'
    BY <2>1, <2>2 DEF WellFormed, TypeOK, pool, insts, Instances
  <2>5. PortPartition' /\ RegistryConsistent'
    BY <2>1 DEF pool, insts, PortPartition, RegistryConsistent
  <2>6. CameraAgrees'
    BY <2>1, <2>2 DEF insts, CameraAgrees, TypeOK, Instances
  <2> QED BY <2>3, <2>4, <2>5, <2>6
<1>4. CASE PicCaptured \/ (PicRaises /\ pic = "capturing")
  <2>1. /\ pic = "capturing" /\ pic' \in {"idle", "captured"}
        /\ encoder' = [encoder EXCEPT ![picPort] = None]
        /\ picPort' \in {picPort, None}
        /\ pic' # "idle" => picPort' = picPort
        /\ UNCHANGED <<pool, insts, pc, ref, toStop, visiting>>
    BY <1>4 DEF PicCaptured, PicRaises
  <2>2. picPort \in Ports /\ encoder[picPort] = Picture
    BY <2>1 DEF TypeOK, WellFormed
  <2>3. TypeOK'
    BY <2>1, <2>2 DEF TypeOK, pool, insts
  <2>4. WellFormed'
    BY <2>1, <2>2 DEF WellFormed, TypeOK, pool, insts, Instances
  <2>5. PortPartition' /\ RegistryConsistent'
    BY <2>1 DEF pool, insts, PortPartition, RegistryConsistent
  <2>6. CameraAgrees'
    BY <2>1, <2>2 DEF insts, CameraAgrees, TypeOK, Instances
  <2> QED BY <2>3, <2>4, <2>5, <2>6
<1>5. CASE PicRaises /\ pic # "capturing"
  <2>1. /\ pic' = "idle" /\ picPort' = None
        /\ UNCHANGED <<pool, insts, encoder, pc, ref, toStop, visiting>>
    BY <1>5 DEF PicRaises
  <2>2. TypeOK' /\ WellFormed'
    BY <2>1 DEF TypeOK, WellFormed, pool, insts
  <2>3. PortPartition' /\ RegistryConsistent' /\ CameraAgrees'
    BY <2>1 DEF pool, insts, PortPartition, RegistryConsistent, CameraAgrees
  <2> QED BY <2>2, <2>3
<1>6. CASE PicReturn
  <2>1. /\ pic = "captured" /\ ReturnPort(picPort)
        /\ pic' = "idle" /\ picPort' = None
        /\ UNCHANGED <<insts, encoder, pc, ref, toStop, visiting>>
    BY <1>6 DEF PicReturn
  <2>2. picPort \in Ports
    BY <2>1 DEF TypeOK, WellFormed
  <2>3. /\ available' \in Seq(Ports) /\ picturePort' \in Ports \cup {None}
        /\ portmap' \in [Ports -> Keys \cup {None}]
        /\ streamers' \in [Keys -> Instances \cup {None}]
        /\ \A k \in Keys : streamers'[k] # None => streamers'[k] = streamers[k]
        /\ PortPartition' /\ RegistryConsistent'
    BY <2>1, <2>2, ReturnPortKeepsPool DEF insts
  <2>4. TypeOK'
    BY <2>1, <2>3 DEF TypeOK, insts
  <2>5. WellFormed' /\ CameraAgrees'
    BY <2>1, <2>3 DEF WellFormed, CameraAgrees, insts
  <2> QED BY <2>3, <2>4, <2>5
<1> QED BY <1>1, <1>2, <1>3, <1>4, <1>5, <1>6 DEF TakePicture

(* shutdown_streamers.                                                     *)
LEMMA ShutdownKeepsIInv ==
  ASSUME IInv, Shutdown
  PROVE  IInv'
<1> USE PoolAssumption DEF IInv
<1>0. Closer \in Threads
  BY DEF Threads
<1>1. CASE ShutdownBegin
  <2>1. /\ toStop' \in SUBSET Keys
        /\ UNCHANGED <<pool, insts, encoder, pc, ref, pic, picPort, visiting>>
    BY <1>1 DEF ShutdownBegin, Registered
  <2>2. TypeOK' /\ WellFormed'
    BY <2>1 DEF TypeOK, WellFormed, pool, insts
  <2>3. PortPartition' /\ RegistryConsistent' /\ CameraAgrees'
    BY <2>1 DEF pool, insts, PortPartition, RegistryConsistent, CameraAgrees
  <2> QED BY <2>2, <2>3
<1>2. ASSUME NEW k \in Keys, ShutdownStop(k) PROVE IInv'
  <2> DEFINE i == streamers[k]
  <2>1. /\ i # None /\ ReturnPort(portOf[i])
        /\ pc' = [pc EXCEPT ![Closer] = IF isRunning[i] THEN "closing" ELSE "closed"]
        /\ ref' = [ref EXCEPT ![Closer] = i]
        /\ toStop' = toStop \ {k} /\ visiting' = k
        /\ UNCHANGED <<insts, encoder, pic, picPort>>
    BY <1>2 DEF ShutdownStop
  <2>2. i \in Instances /\ i <= created /\ portOf[i] \in Ports
    BY <2>1 DEF TypeOK, WellFormed
  <2> HIDE DEF i
  <2>3. /\ pc' \in [Threads -> {"idle", "closing", "closed"}]
        /\ ref' \in [Threads -> Instances \cup {None}]
    BY <1>0, <2>1, <2>2 DEF TypeOK
  <2>4. \A t \in Threads : ref'[t] # None => ref'[t] <= created
    BY <1>0, <2>1, <2>2 DEF WellFormed, TypeOK
  <2>5. \A t \in Threads : pc'[t] # "idle" => ref'[t] # None
    BY <1>0, <2>1, <2>2 DEF WellFormed, TypeOK
  <2>6. toStop' \in SUBSET Keys /\ visiting' \in Keys \cup {None} /\ visiting' # None
    BY <2>1 DEF TypeOK
  <2>7. writer' \in [Instances -> WriterStates]
    BY <2>1 DEF TypeOK, insts
  <2> QED BY <2>1, <2>2, <2>3, <2>4, <2>5, <2>6, <2>7, ReturningKeepsIInv DEF insts
<1>3. CASE ShutdownClose
  <2> DEFINE i == ref[Closer]
  <2>1. /\ pc[Closer] = "closing" /\ Closed(i)
        /\ pc' = [pc EXCEPT ![Closer] = IF visiting = None THEN "idle" ELSE "closed"]
        /\ UNCHANGED <<pool, ref, pic, picPort, toStop, visiting>>
    BY <1>3 DEF ShutdownClose
  <2>2. i \in Instances /\ i <= created
    BY <1>0, <2>1 DEF TypeOK, WellFormed
  <2>3. /\ pc' \in [Threads -> {"idle", "closing", "closed"}]
        /\ ref' \in [Threads -> Instances \cup {None}]
        /\ \A t \in Threads : ref'[t] # None => ref'[t] <= created
        /\ \A t \in Threads : pc'[t] # "idle" => ref'[t] # None
        /\ pc'[Closer] = "closed" => visiting # None
    BY <1>0, <2>1 DEF TypeOK, WellFormed
  <2> QED BY <2>1, <2>2, <2>3, ClosingKeepsIInv
<1>4. CASE ShutdownAgain
  <2> DEFINE i == streamers[visiting]
  <2>1. /\ pc[Closer] = "closed" /\ i # None /\ ReturnPort(portOf[i])
        /\ pc' = [pc EXCEPT ![Closer] = IF isRunning[i] THEN "closing" ELSE "idle"]
        /\ writer' = IF isRunning[i] THEN writer ELSE WriterStopped(i)
        /\ ref' = [ref EXCEPT ![Closer] = i] /\ visiting' = None
        /\ UNCHANGED <<created, portOf, keyOf, isRunning, isRecording, encoder, pic, picPort, toStop>>
    BY <1>4 DEF ShutdownAgain
  <2>2. visiting \in Keys
    BY <2>1 DEF TypeOK, WellFormed
  <2>3. i \in Instances /\ i <= created /\ portOf[i] \in Ports
    BY <2>1, <2>2 DEF TypeOK, WellFormed
  <2> HIDE DEF i
  <2>4. /\ pc' \in [Threads -> {"idle", "closing", "closed"}]
        /\ ref' \in [Threads -> Instances \cup {None}]
        /\ pc'[Closer] # "closed"
    BY <1>0, <2>1, <2>3 DEF TypeOK
  <2>5. \A t \in Threads : ref'[t] # None => ref'[t] <= created
    BY <1>0, <2>1, <2>3 DEF WellFormed, TypeOK
  <2>6. \A t \in Threads : pc'[t] # "idle" => ref'[t] # None
    BY <1>0, <2>1, <2>3 DEF WellFormed, TypeOK
  <2>7. writer' \in [Instances -> WriterStates]
    BY <2>1, <2>3 DEF TypeOK, WriterStopped, WriterStates
  <2>8. toStop' \in SUBSET Keys /\ visiting' \in Keys \cup {None}
    BY <2>1 DEF TypeOK
  <2> QED BY <2>1, <2>3, <2>4, <2>5, <2>6, <2>7, <2>8, ReturningKeepsIInv
<1>5. CASE ShutdownRaises
  <2>1. /\ pc' = [pc EXCEPT ![Closer] = "idle"] /\ toStop' = {} /\ visiting' = None
        /\ UNCHANGED <<pool, insts, encoder, ref, pic, picPort>>
    BY <1>5 DEF ShutdownRaises
  <2>2. TypeOK'
    BY <1>0, <2>1 DEF TypeOK, pool, insts
  <2>3. WellFormed'
    BY <1>0, <2>1 DEF TypeOK, WellFormed, pool, insts
  <2>4. PortPartition' /\ RegistryConsistent' /\ CameraAgrees'
    BY <2>1 DEF pool, insts, PortPartition, RegistryConsistent, CameraAgrees
  <2> QED BY <2>2, <2>3, <2>4
<1> QED BY <1>1, <1>2, <1>3, <1>4, <1>5 DEF Shutdown

-----------------------------------------------------------------------------
(* IInv is an inductive invariant: every step of every thread keeps it.    *)
THEOREM Invariance == Spec => []IInv
<1>1. IInv /\ [Next]_vars => IInv'
  <2> SUFFICES ASSUME IInv, [Next]_vars PROVE IInv'
    OBVIOUS
  <2>1. ASSUME NEW h \in Holders, Holder(h) PROVE IInv'
    BY <2>1, ObtainKeepsIInv, StartKeepsIInv, StopKeepsIInv DEF Holder
  <2>2. ASSUME NEW i \in Instances, WriterRuns(i) PROVE IInv'
    BY <2>2, WriterKeepsIInv
  <2>3. CASE TakePicture
    BY <2>3, PictureKeepsIInv
  <2>4. CASE Shutdown
    BY <2>4, ShutdownKeepsIInv
  <2>5. CASE UNCHANGED vars
    BY <2>5 DEF vars, pool, insts, IInv, TypeOK, WellFormed, PortPartition,
                RegistryConsistent, CameraAgrees
  <2> QED BY <2>1, <2>2, <2>3, <2>4, <2>5 DEF Next
<1> QED BY InitIInv, <1>1, PTL DEF Spec

(* Every variable keeps its type.                                          *)
THEOREM TypeCorrect == Spec => []TypeOK
BY Invariance, PTL DEF IInv

(* No port is ever lost, listed twice or in two hands, although stop()     *)
(* hands back whatever port the instance remembers.                        *)
THEOREM PortsPartitioned == Spec => []PortPartition
BY Invariance, PTL DEF IInv

(* The two class dictionaries stay inverse to each other.                  *)
THEOREM RegistryIsConsistent == Spec => []RegistryConsistent
BY Invariance, PTL DEF IInv

(* is_recording is true exactly while the camera encodes for the instance. *)
THEOREM CameraAgreement == Spec => []CameraAgrees
BY Invariance, PTL DEF IInv

-----------------------------------------------------------------------------
(* Holders that use the streamers as network serving does: none keeps its  *)
(* reference after stop() (network_serving.py:87-89), no two ask for the   *)
(* same key, and the program goes on.                                      *)
Exclusive ==
  /\ Keepers = {} /\ ~Exits
  /\ \A g, h \in Holders : KeyOf[g] = KeyOf[h] => g = h

(* Then what a holder refers to is what is registered under its key, until *)
(* its own stop() has begun; an instance that records is some holder's;    *)
(* and a port remembered by take_picture is still the picture port.        *)
Held ==
  /\ pc[Closer] = "idle" /\ toStop = {}
  /\ \A h \in Holders : ref[h] # None /\ pc[h] = "idle" => streamers[KeyOf[h]] = ref[h]
  /\ \A h \in Holders : pc[h] # "closed"
  /\ \A i \in Instances : isRecording[i] => isRunning[i] /\ \E h \in Holders : ref[h] = i
  /\ PictureKeepsPort

(* stop() of a holder gives back its own lease and nothing else.           *)
LEMMA OwnLease ==
  ASSUME IInv, Held, NEW h \in Holders, ref[h] # None, pc[h] = "idle", ReturnPort(portOf[ref[h]])
  PROVE  /\ streamers' = [streamers EXCEPT ![KeyOf[h]] = None]
         /\ UNCHANGED picturePort
<1>1. ref[h] \in Instances /\ KeyOf[h] \in Keys /\ streamers[KeyOf[h]] = ref[h]
  BY PoolAssumption DEF IInv, TypeOK, Held, Threads
<1>2. portOf[ref[h]] \in Ports /\ portmap[portOf[ref[h]]] = KeyOf[h] /\ KeyOf[h] # None
  BY <1>1, PoolAssumption DEF IInv, RegistryConsistent, WellFormed
<1> QED BY <1>2 DEF ReturnPort

LEMMA HolderKeepsHeld ==
  ASSUME Exclusive, IInv, Held, NEW h \in Holders, Holder(h)
  PROVE  Held'
<1> USE PoolAssumption DEF Exclusive, IInv, TypeOK, Held, PictureKeepsPort, Threads
<1>1. CASE Reuse(h)
  <2>1. /\ pc[h] = "idle" /\ streamers[KeyOf[h]] # None /\ ref' = [ref EXCEPT ![h] = streamers[KeyOf[h]]]
        /\ UNCHANGED <<picturePort, streamers, isRunning, isRecording, pc, pic, picPort, toStop>>
    BY <1>1 DEF Reuse, pool, insts
  <2>2. \A g \in Holders : ref[g] # None => ref'[g] = ref[g]
    BY <2>1
  <2>3. \A i \in Instances : i # None
    BY DEF Instances
  <2> QED BY <2>1, <2>2, <2>3
<1>2. CASE Create(h)
  <2>1. ref[h] = None
    BY <1>2 DEF Create
  <2>2. /\ streamers' = [streamers EXCEPT ![KeyOf[h]] = created + 1] /\ ref' = [ref EXCEPT ![h] = created + 1]
        /\ UNCHANGED <<picturePort, isRunning, isRecording, pc, pic, picPort, toStop>>
    BY <1>2 DEF Create
  <2>3. created + 1 \in Instances
    BY <1>2 DEF Create, Instances
  <2>4. \A i \in Instances : isRecording[i] => i # None /\ i # created + 1
    BY DEF WellFormed, Instances
  <2> QED BY <2>1, <2>2, <2>3, <2>4
<1>3. CASE StartRecording(h)
  BY <1>3 DEF StartRecording, pool
<1>4. CASE StartRaises(h)
  BY <1>4 DEF StartRaises, pool
<1>5. CASE StopEnter(h)
  <2>1. /\ ref[h] # None /\ pc[h] = "idle" /\ ReturnPort(portOf[ref[h]])
        /\ UNCHANGED <<isRunning, isRecording, pic, picPort, toStop>>
    BY <1>5 DEF StopEnter, insts
  <2>2. /\ streamers' = [streamers EXCEPT ![KeyOf[h]] = None]
        /\ UNCHANGED picturePort
    BY <2>1, OwnLease
  <2>3. \/ pc' = [pc EXCEPT ![h] = "closing"] /\ ref' = ref
        \/ ~isRunning[ref[h]] /\ pc' = pc /\ ref' = [ref EXCEPT ![h] = None]
    BY <1>5 DEF StopEnter, AfterStop
  <2>4. \A g \in Holders : g # h => KeyOf[g] # KeyOf[h]
    OBVIOUS
  <2>5. \A i \in Instances : i # None
    BY DEF Instances
  <2> QED BY <2>1, <2>2, <2>3, <2>4, <2>5
<1>6. CASE StopClose(h)
  <2>1. /\ ref[h] # None /\ ref[h] \in Instances
        /\ pc' = [pc EXCEPT ![h] = "idle"] /\ ref' = [ref EXCEPT ![h] = None]
        /\ isRecording' = [isRecording EXCEPT ![ref[h]] = FALSE]
        /\ isRunning' = [isRunning EXCEPT ![ref[h]] = FALSE]
        /\ UNCHANGED <<picturePort, streamers, pic, picPort, toStop>>
    BY <1>6 DEF StopClose, Closed, AfterStop, WellFormed, pool
  <2> QED BY <2>1
<1> QED BY <1>1, <1>2, <1>3, <1>4, <1>5, <1>6 DEF Holder

LEMMA PictureKeepsHeld ==
  ASSUME Exclusive, IInv, Held, TakePicture
  PROVE  Held'
<1> USE PoolAssumption DEF IInv, TypeOK, Held, PictureKeepsPort, Threads
<1>1. streamers' = streamers /\ UNCHANGED <<isRunning, isRecording, pc, ref, toStop>>
  <2>1. CASE PicReserve \/ PicCapture \/ PicCaptured \/ PicRaises
    BY <2>1 DEF PicReserve, PicCapture, PicCaptured, PicRaises, pool, insts
  <2>2. CASE PicReturn
    <3>1. picPort \in Ports /\ picturePort = picPort /\ ReturnPort(picPort)
      BY <2>2 DEF PicReturn, WellFormed
    <3>2. portmap[picPort] = None
      BY <3>1 DEF PortPartition
    <3> QED BY <2>2, <3>1, <3>2 DEF ReturnPort, PicReturn, insts, pool
  <2> QED BY <2>1, <2>2 DEF TakePicture
<1>2. PictureKeepsPort'
  BY DEF TakePicture, PicReserve, PicCapture, PicCaptured, PicRaises, PicReturn, pool
<1> QED BY <1>1, <1>2

LEMMA ExclusiveHeld == ASSUME Exclusive PROVE Spec => []Held
<1>1. Init => Held
  BY PoolAssumption DEF Init, Held, PictureKeepsPort, Threads
<1>2. IInv /\ Held /\ [Next]_vars => Held'
  <2> SUFFICES ASSUME IInv, Held, [Next]_vars PROVE Held'
    OBVIOUS
  <2>1. ASSUME NEW h \in Holders, Holder(h) PROVE Held'
    BY <2>1, HolderKeepsHeld
  <2>2. ASSUME NEW i \in Instances, WriterRuns(i) PROVE Held'
    BY <2>2 DEF WriterRuns, Held, PictureKeepsPort, pool
  <2>3. CASE TakePicture
    BY <2>3, PictureKeepsHeld
  <2>4. ~Shutdown
    BY DEF Held, Exclusive, Shutdown, ShutdownBegin, ShutdownStop, ShutdownClose, ShutdownAgain, ShutdownRaises
  <2>5. CASE UNCHANGED vars
    BY <2>5 DEF vars, pool, insts, Held, PictureKeepsPort
  <2> QED BY <2>1, <2>2, <2>3, <2>4, <2>5 DEF Next
<1> QED BY <1>1, <1>2, Invariance, PTL DEF Spec

(* With such holders an instance that records has its port leased, from    *)
(* the end of start() to the beginning of its stop()                       *)
(* (streamer.py:100-101, 112-122).                                         *)
THEOREM RecordersHold == ASSUME Exclusive PROVE Spec => []RecordersKeepPort
<1>1. IInv /\ Held => RecordersKeepPort
  <2> SUFFICES ASSUME IInv, Held, NEW i \in 1 .. created, isRecording[i], ~InstanceLocked(i)
               PROVE  Leased(i)
    BY DEF RecordersKeepPort
  <2>1. i \in Instances
    BY PoolAssumption DEF IInv, TypeOK, Instances
  <2>2. PICK h \in Holders : ref[h] = i
    BY <2>1 DEF Held
  <2>3. pc[h] = "idle" /\ i # None /\ KeyOf[h] \in Keys /\ KeyOf[h] # None
    BY <2>1, <2>2, PoolAssumption DEF InstanceLocked, Held, IInv, TypeOK, Threads, Instances
  <2>4. streamers[KeyOf[h]] = i
    BY <2>2, <2>3 DEF Held
  <2>5. portmap[portOf[i]] = KeyOf[h]
    BY <2>3, <2>4 DEF IInv, RegistryConsistent
  <2> QED BY <2>3, <2>4, <2>5 DEF Leased
<1> QED BY <1>1, Invariance, ExclusiveHeld, PTL

(* And the port a picture is taken on stays reserved for pictures          *)
(* (streamer.py:92-109, 129-137).                                          *)
THEOREM PicturesHold == ASSUME Exclusive PROVE Spec => []PictureKeepsPort
<1>1. Held => PictureKeepsPort
  BY DEF Held
<1> QED BY <1>1, ExclusiveHeld, PTL

-----------------------------------------------------------------------------
(* The refinement.  Owners before and after a port comes back.             *)
LEMMA ReturnPortReleases ==
  ASSUME TypeOK, PortPartition, NEW p \in Ports, ReturnPort(p)
  PROVE  (\E q \in Ports : PP!Release(q)) \/ UNCHANGED Owner
<1> USE PoolAssumption DEF TypeOK
<1>1. CASE portmap[p] # None
  <2>1. portmap' = [portmap EXCEPT ![p] = None] /\ picturePort' = picturePort
    BY <1>1 DEF ReturnPort
  <2>2. picturePort # p
    BY <1>1 DEF PortPartition
  <2>3. Owner' = [Owner EXCEPT ![p] = None]
    BY <1>1, <2>1, <2>2 DEF Owner
  <2> QED BY <1>1, <2>3 DEF PP!Release, Owner
<1>2. CASE portmap[p] = None /\ picturePort = p
  <2>1. portmap' = portmap /\ picturePort' = None
    BY <1>2 DEF ReturnPort
  <2>2. \A q \in Ports : q # None
    BY DEF Ports
  <2>3. Owner' = [Owner EXCEPT ![p] = None]
    BY <1>2, <2>1, <2>2 DEF Owner
  <2> QED BY <1>2, <2>3 DEF PP!Release, Owner
<1>3. CASE portmap[p] = None /\ picturePort # p
  BY <1>3 DEF ReturnPort, pool, Owner
<1> QED BY <1>1, <1>2, <1>3

LEMMA CreateLeases ==
  ASSUME IInv, NEW h \in Holders, Create(h)
  PROVE  \E p \in Ports : \E k \in Keys : PP!Lease(p, k)
<1> USE PoolAssumption DEF IInv, TypeOK
<1> DEFINE p == Head(available)
           k == KeyOf[h]
<1>1. /\ available # <<>> /\ streamers[k] = None
      /\ portmap' = [portmap EXCEPT ![p] = k] /\ picturePort' = picturePort
  BY DEF Create
<1>2. p \in Ports /\ p \in Elems(available) /\ k \in Keys
  BY <1>1, TailFacts DEF PortPartition
<1> HIDE DEF p, k
<1>3. portmap[p] = None /\ picturePort # p /\ k # None /\ k # Picture
  BY <1>2 DEF PortPartition
<1>4. \A q \in Ports : portmap[q] # k
  BY <1>1, <1>3 DEF RegistryConsistent
<1>5. Owner[p] = None /\ \A q \in Ports : Owner[q] # k
  BY <1>2, <1>3, <1>4 DEF Owner
<1>6. Owner' = [Owner EXCEPT ![p] = k]
  BY <1>1, <1>2, <1>3 DEF Owner
<1> QED BY <1>2, <1>5, <1>6 DEF PP!Lease

LEMMA PicReserveReserves ==
  ASSUME IInv, PicReserve
  PROVE  (\E p \in Ports : PP!Reserve(p)) \/ UNCHANGED Owner
<1> USE PoolAssumption DEF IInv, TypeOK
<1>1. CASE picturePort # None
  BY <1>1 DEF PicReserve, pool, Owner
<1>2. CASE picturePort = None
  <2> DEFINE p == Head(available)
  <2>1. available # <<>> /\ picturePort' = p /\ portmap' = portmap
    BY <1>2 DEF PicReserve
  <2>2. p \in Ports /\ p \in Elems(available)
    BY <2>1, TailFacts DEF PortPartition
  <2> HIDE DEF p
  <2>3. portmap[p] = None /\ \A q \in Ports : q # None
    BY <2>2 DEF PortPartition, Ports
  <2>4. Owner[p] = None /\ \A q \in Ports : Owner[q] # Picture
    BY <1>2, <2>2, <2>3 DEF Owner
  <2>5. Owner' = [Owner EXCEPT ![p] = Picture]
    BY <1>2, <2>1, <2>2, <2>3 DEF Owner
  <2> QED BY <2>2, <2>4, <2>5 DEF PP!Reserve
<1> QED BY <1>1, <1>2

(* Every behaviour of the code is one of the port pool's: a port changes   *)
(* owner only through being free, and a key never holds two ports.         *)
THEOREM Refinement == Spec => ImplementsPortPool
<1>1. Init => PP!Init
  BY PoolAssumption DEF Init, PP!Init, Owner, Ports
<1>2. IInv /\ [Next]_vars => [PP!Next]_Owner
  <2> SUFFICES ASSUME IInv, [Next]_vars PROVE PP!Next \/ UNCHANGED Owner
    OBVIOUS
  <2> USE DEF PP!Next
  <2>0. ASSUME NEW p, p \in Ports, ReturnPort(p) PROVE PP!Next \/ UNCHANGED Owner
    BY <2>0, ReturnPortReleases DEF IInv
  <2>1. ASSUME UNCHANGED pool PROVE UNCHANGED Owner
    BY <2>1 DEF pool, Owner
  <2>2. ASSUME NEW i \in Instances, i <= created PROVE portOf[i] \in Ports
    BY <2>2 DEF IInv, WellFormed
  <2>3. ASSUME NEW h \in Holders, Holder(h) PROVE PP!Next \/ UNCHANGED Owner
    <3>1. CASE Create(h)
      BY <3>1, CreateLeases
    <3>2. CASE Reuse(h) \/ StartRecording(h) \/ StartRaises(h) \/ StopClose(h)
      BY <3>2, <2>1 DEF Reuse, StartRecording, StartRaises, StopClose
    <3>3. CASE StopEnter(h)
      <4>1. ref[h] # None /\ ReturnPort(portOf[ref[h]])
        BY <3>3 DEF StopEnter
      <4>2. ref[h] \in Instances /\ ref[h] <= created
        BY <4>1 DEF IInv, TypeOK, WellFormed, Threads
      <4> QED BY <2>0, <2>2, <4>1, <4>2
    <3> QED BY <2>3, <3>1, <3>2, <3>3 DEF Holder
  <2>4. ASSUME NEW i \in Instances, WriterRuns(i) PROVE UNCHANGED Owner
    BY <2>1, <2>4 DEF WriterRuns
  <2>5. CASE TakePicture
    <3>1. CASE PicReserve
      BY <3>1, PicReserveReserves
    <3>2. CASE PicCapture \/ PicCaptured \/ PicRaises
      BY <3>2, <2>1 DEF PicCapture, PicCaptured, PicRaises
    <3>3. CASE PicReturn
      <4>1. picPort \in Ports /\ ReturnPort(picPort)
        BY <3>3 DEF PicReturn, IInv, TypeOK, WellFormed
      <4> QED BY <2>0, <4>1
    <3> QED BY <2>5, <3>1, <3>2, <3>3 DEF TakePicture
  <2>6. CASE Shutdown
    <3>1. CASE ShutdownBegin \/ ShutdownClose \/ ShutdownRaises
      BY <3>1, <2>1 DEF ShutdownBegin, ShutdownClose, ShutdownRaises
    <3>2. ASSUME NEW k \in Keys, streamers[k] # None, ReturnPort(portOf[streamers[k]])
          PROVE  PP!Next \/ UNCHANGED Owner
      <4>1. streamers[k] \in Instances /\ streamers[k] <= created
        BY <3>2 DEF IInv, TypeOK, WellFormed
      <4> QED BY <2>0, <2>2, <3>2, <4>1
    <3>3. ASSUME NEW k \in Keys, ShutdownStop(k) PROVE PP!Next \/ UNCHANGED Owner
      BY <3>2, <3>3 DEF ShutdownStop
    <3>4. CASE ShutdownAgain
      <4>1. visiting \in Keys
        BY <3>4 DEF ShutdownAgain, IInv, TypeOK, WellFormed
      <4> QED BY <3>2, <3>4, <4>1 DEF ShutdownAgain
    <3> QED BY <2>6, <3>1, <3>3, <3>4 DEF Shutdown
  <2>7. CASE UNCHANGED vars
    BY <2>1, <2>7 DEF vars
  <2> QED BY <2>3, <2>4, <2>5, <2>6, <2>7 DEF Next
<1> QED BY <1>1, <1>2, Invariance, PTL DEF Spec, PP!Spec, ImplementsPortPool
=============================================================================
