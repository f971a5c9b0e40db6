------------------------ MODULE NetworkServingProofs ------------------------
(***************************************************************************)
(* Proofs about NetworkServing for any number of clients, keys, streams    *)
(* and instances: whose output a client in socket_map is, and what the     *)
(* three dictionaries say of each other.                                   *)
(***************************************************************************)
EXTENDS NetworkServing, FiniteSetTheorems, TLAPS

(* What Cardinality, of the streams and of the outputs, counts.            *)
Countable == IsFiniteSet(Running) /\ \A i \in Instances : IsFiniteSet(outputs[i])

IInv == Inv /\ ClientsServed /\ MapsAgree /\ Countable

LEMMA OneLess ==
  ASSUME NEW S, IsFiniteSet(S), NEW x \in S, NEW n \in Nat, Cardinality(S) <= n
  PROVE  IsFiniteSet(S \ {x}) /\ Cardinality(S \ {x}) <= n
<1>1. IsFiniteSet(S \ {x}) /\ Cardinality(S \ {x}) = Cardinality(S) - 1
  BY FS_RemoveElement
<1>2. Cardinality(S) \in Nat
  BY FS_CardinalityType
<1> QED BY <1>1, <1>2

LEMMA OneMore ==
  ASSUME NEW S, IsFiniteSet(S), NEW x, NEW n \in Nat, Cardinality(S) < n
  PROVE  IsFiniteSet(S \cup {x}) /\ Cardinality(S \cup {x}) <= n
<1>1. IsFiniteSet(S \cup {x}) /\ Cardinality(S \cup {x}) \in {Cardinality(S), Cardinality(S) + 1}
  BY FS_AddElement
<1>2. Cardinality(S) \in Nat
  BY FS_CardinalityType
<1> QED BY <1>1, <1>2

LEMMA LastIsOnly ==
  ASSUME NEW i \in Instances, IsFiniteSet(outputs[i]), NEW c \in outputs[i], LastOutput(i)
  PROVE  outputs[i] = {c}
BY FS_Singleton DEF LastOutput

(* What stop() gives back is an instance's port; its own is given back.    *)
LEMMA Returning ==
  ASSUME IInv, NEW i \in Instances, registry' \in Returns(i)
  PROVE  /\ registry' \in [PortKeys -> Instances \cup {None}]
         /\ \A p \in PortKeys : registry'[p] \in {registry[p], None} /\ registry'[p] # i
<1> USE ServingAssumption DEF IInv, Inv, TypeOK
<1> DEFINE own == {p \in PortKeys : registry[p] = i}
<1>1. i # None
  BY DEF Instances
<1>2. CASE own = {}
  <2>1. registry' = registry \/ \E p \in PortKeys : registry' = [registry EXCEPT ![p] = None]
    BY <1>2 DEF Returns
  <2> QED BY <1>1, <1>2, <2>1
<1>3. CASE own # {}
  <2>1. PICK p \in own : registry' = [registry EXCEPT ![p] = None]
    BY <1>3 DEF Returns
  <2>2. \A q \in PortKeys \ {p} : registry[q] # i
    BY <1>1, <2>1 DEF Numbered, Registered
  <2> QED BY <1>1, <2>1, <2>2
<1> QED BY <1>2, <1>3

LEMMA InitInvariant == Init => IInv
<1> SUFFICES ASSUME Init PROVE IInv
  OBVIOUS
<1> USE ServingAssumption DEF Init
<1>1. Running = {} /\ ~Serving /\ ~Undoing /\ ~Forgotten /\ Linked = {}
  BY DEF Running, Serving, Undoing, Forgotten, Linked
<1>2. IsFiniteSet(Running) /\ Cardinality(Running) <= MaxStreams
  BY <1>1, FS_EmptySet
<1>3. IsFiniteSet({})
  BY FS_EmptySet
<1>4. Countable
  BY <1>2, <1>3 DEF Countable
<1>5. TypeOK
  BY <1>2 DEF TypeOK, WriteStates
<1>6. RunningMapped /\ Numbered /\ Newcomer /\ OneLeft /\ Rounds
  BY <1>1 DEF RunningMapped, Numbered, Entering, Registered, Newcomer, OneLeft, Rounds, Instances
<1>7. ClientsServed /\ MapsAgree
  BY <1>1 DEF ClientsServed, MapsAgree
<1> QED BY <1>4, <1>5, <1>6, <1>7 DEF IInv, Inv

(* A step that touches no stream and none of the three dictionaries.       *)
LEMMA StreamsKept ==
  ASSUME IInv, UNCHANGED <<maps, streams>>
  PROVE  Running' = Running /\ Countable' /\ \A c \in Clients : Served(c)' <=> Served(c)
<1> USE DEF IInv, Inv, maps, streams
<1>1. Running' = Running
  BY DEF Running
<1>2. Countable' /\ \A c \in Clients : Served(c)' <=> Served(c)
  BY <1>1 DEF Countable, Served
<1> QED BY <1>1, <1>2

(* A writer's step of that kind.                                           *)
LEMMA ServerKept ==
  ASSUME IInv, UNCHANGED <<maps, streams, server, closer>>
  PROVE  /\ Running' = Running /\ Countable'
         /\ RunningMapped' /\ Numbered' /\ OneLeft' /\ MapsAgree' /\ ClientsServed'
<1> USE DEF IInv, Inv
<1>1. Running' = Running /\ Countable' /\ \A c \in Clients : Served(c)' <=> Served(c)
  BY StreamsKept
<1> USE DEF maps, streams, server, closer
<1>2. RunningMapped' /\ Numbered'
  BY <1>1 DEF RunningMapped, Numbered, Entering, Registered, Forgotten
<1>3. MapsAgree' /\ OneLeft'
  BY DEF MapsAgree, OneLeft, Left, Linked, Forgotten, Serving
<1>4. ClientsServed'
  BY <1>1 DEF ClientsServed, Serving, TypeOK
<1> QED BY <1>1, <1>2, <1>3, <1>4

-----------------------------------------------------------------------------
(* cleanup_output stops a stream only with its last client, whoever calls  *)
(* it while the runner does not hold _lock: the runner itself on its       *)
(* exception path, a worker, or the thread in shutdown().                  *)
LEMMA CleanupKeeps ==
  ASSUME IInv, NEW c \in socketMap, ModeLockFree, Cleanup(c),
         UNCHANGED <<created, outputs, scur>>,
         spc' = spc \/ (spc = "cleanup" /\ spc' = "stop"),
         cpc' = cpc \/ (cpc = "locking" /\ cpc' = "next")
  PROVE  /\ socketMap' = socketMap \ {c}
         /\ socketToStream' \in [Clients -> Keys \cup {None}]
         /\ streamerMap' \in [Keys -> Instances \cup {None}]
         /\ registry' \in [PortKeys -> Instances \cup {None}]
         /\ running' \in [Instances -> BOOLEAN]
         /\ Cardinality(Running') <= MaxStreams /\ Countable'
         /\ RunningMapped' /\ Numbered' /\ OneLeft' /\ MapsAgree' /\ ClientsServed'
         /\ \A l \in Keys : streamerMap'[l] \in {streamerMap[l], None}
<1> USE ServingAssumption DEF IInv, Inv, TypeOK
<1> DEFINE k == KeyOf[c]
<1> DEFINE i == streamerMap[k]
<1>1. /\ c \in Clients /\ k \in Keys /\ k # None /\ socketToStream[c] \in {k, None}
      /\ Serving' = Serving /\ Forgotten' = Forgotten /\ (Serving => Undoing)
      /\ (cpc' = "done" <=> cpc = "done") /\ spc # "link" /\ spc' # "link"
  BY DEF MapsAgree, Linked, ModeLockFree, Serving, Undoing, Forgotten
<1>2. /\ socketMap' = socketMap \ {c} /\ socketToStream' = [socketToStream EXCEPT ![c] = None]
      /\ \/ i # None /\ LastOutput(i) /\ running' = [running EXCEPT ![i] = FALSE]
            /\ streamerMap' = [streamerMap EXCEPT ![k] = None] /\ registry' \in Returns(i)
         \/ UNCHANGED <<running, streamerMap, registry>>
  BY <1>1 DEF Cleanup
<1>3. Linked' = Linked \ {c} /\ Left' \subseteq Left
  BY <1>1, <1>2 DEF Linked, Left
<1>4. MapsAgree' /\ OneLeft'
  <2>1. \A d \in Linked' : socketToStream'[d] = KeyOf[d]
    BY <1>1, <1>2, <1>3 DEF MapsAgree, Linked
  <2>2. MapsAgree'
    BY <1>1, <1>2, <1>3, <2>1 DEF MapsAgree
  <2>3. OneLeft'
    BY <1>1, <1>3 DEF OneLeft
  <2> QED BY <2>2, <2>3
<1>5. /\ \A j \in Instances : ~Entering(j)
      /\ \A l \in Running : running[streamerMap[l]] \/ l \in Sharing
      /\ \A p \in Registered : running[registry[p]]
  <2>1. \A j \in Instances : ~Entering(j)
    BY <1>1 DEF Entering, ModeLockFree
  <2>2. \A l \in Running : streamerMap[l] \in Instances
    BY DEF Running
  <2>3. \A p \in Registered : registry[p] \in Instances
    BY DEF Registered
  <2> QED BY <2>1, <2>2, <2>3 DEF RunningMapped
<1>6. CASE UNCHANGED <<running, streamerMap, registry>>
  <2>1. Running' = Running /\ Registered' = Registered /\ Countable'
    BY <1>6 DEF Running, Registered, Countable
  <2>2. RunningMapped' /\ Numbered'
    BY <1>5, <1>6, <2>1 DEF RunningMapped, Numbered
  <2>3. ClientsServed'
    BY <1>1, <1>2, <1>6 DEF ClientsServed, Served
  <2> QED BY <1>1, <1>2, <1>4, <1>6, <2>1, <2>2, <2>3
<1>7. CASE /\ i # None /\ LastOutput(i) /\ running' = [running EXCEPT ![i] = FALSE]
           /\ streamerMap' = [streamerMap EXCEPT ![k] = None] /\ registry' \in Returns(i)
  <2>1. i \in Instances /\ k \in Running /\ IsFiniteSet(outputs[i])
    BY <1>1, <1>7 DEF Running, Countable
  <2>2. ASSUME NEW d \in socketMap \ {c}, streamerMap[KeyOf[d]] = i PROVE d = scur /\ Serving
    <3>1. CASE c = scur /\ Serving
      BY <1>1, <2>2, <3>1 DEF Newcomer
    <3>2. CASE ~(c = scur /\ Serving) /\ ~(d = scur /\ Serving)
      <4>1. Served(c) /\ Served(d)
        BY <3>2 DEF ClientsServed
      <4>2. outputs[i] = {c}
        BY <1>7, <2>1, <4>1, LastIsOnly DEF Served
      <4> QED BY <2>2, <4>1, <4>2 DEF Served
    <3> QED BY <2>2, <3>1, <3>2
  <2>3. Running' = Running \ {k}
    BY <1>1, <1>7 DEF Running
  <2>4. Cardinality(Running') <= MaxStreams /\ IsFiniteSet(Running')
    BY <2>1, <2>3, OneLess DEF Countable
  <2>5. Countable'
    BY <2>4 DEF Countable
  <2>6. /\ registry' \in [PortKeys -> Instances \cup {None}]
        /\ \A p \in PortKeys : registry'[p] \in {registry[p], None} /\ registry'[p] # i
    BY <1>7, <2>1, Returning
  <2>7. /\ \A p \in Registered' : p \in Registered /\ registry'[p] = registry[p] /\ registry[p] # i
        /\ \A l \in Running' : l \in Running /\ l # k /\ streamerMap'[l] = streamerMap[l]
    BY <1>7, <2>1, <2>3, <2>6 DEF Registered
  <2>8. Numbered'
    BY <2>7 DEF Numbered
  <2>9. RunningMapped'
    <3>1. ASSUME NEW j \in Instances, running'[j] PROVE \E l \in Keys : streamerMap'[l] = j
      <4>1. j # i /\ running[j]
        BY <1>7, <2>1, <3>1
      <4> QED BY <1>1, <1>7, <4>1 DEF RunningMapped
    <3>2. ASSUME NEW l \in Running' PROVE running'[streamerMap'[l]] \/ l \in Sharing
      <4>1. CASE streamerMap[l] = i
        <5>1. PortKeyOf[l] = PortKeyOf[k] /\ l # k /\ l \in Keys
          BY <2>1, <2>7, <4>1 DEF RunningMapped, Running
        <5> QED BY <1>1, <5>1 DEF Sharing
      <4>2. CASE streamerMap[l] # i
        BY <1>5, <1>7, <2>1, <2>7, <4>2 DEF Running
      <4> QED BY <4>1, <4>2
    <3>3. \A p \in Registered' : running'[registry'[p]]
      BY <1>5, <1>7, <2>1, <2>7 DEF Registered
    <3>4. \A l \in Running', m \in Running' : streamerMap'[l] = streamerMap'[m] => PortKeyOf[l] = PortKeyOf[m]
      BY <2>7 DEF RunningMapped
    <3> QED BY <3>1, <3>2, <3>3, <3>4 DEF RunningMapped
  <2>10. ClientsServed'
    <3>1. ASSUME NEW d \in socketMap \ {c}, ~(d = scur /\ Serving) PROVE Served(d)'
      <4>1. Served(d) /\ streamerMap[KeyOf[d]] # i
        BY <2>2, <3>1 DEF ClientsServed
      <4> QED BY <1>1, <1>7, <2>1, <3>1, <4>1 DEF Served
    <3> QED BY <1>1, <1>2, <3>1 DEF ClientsServed
  <2> QED BY <1>1, <1>2, <1>4, <1>7, <2>1, <2>4, <2>5, <2>6, <2>8, <2>9, <2>10
<1> QED BY <1>2, <1>6, <1>7

(* ... and of what the runner holds on to nothing is touched.              *)
LEMMA CleanupNewcomer ==
  ASSUME IInv, ModeLockFree, UNCHANGED <<conn, outputs, scur>>, socketMap' \subseteq socketMap,
         \A l \in Keys : streamerMap'[l] \in {streamerMap[l], None},
         spc' = spc \/ (spc = "cleanup" /\ spc' = "stop" /\ scur \notin socketMap'),
         ClientsServed'
  PROVE  Newcomer'
<1> USE ServingAssumption DEF IInv, Inv, TypeOK
<1>1. /\ spc \notin {"link", "start", "add"} /\ spc' \notin {"link", "start", "add"}
      /\ Serving' = Serving /\ Undoing' = Undoing /\ (Serving => Undoing)
  BY DEF ModeLockFree, Serving, Undoing
<1>2. ASSUME NEW c \in socketMap', Undoing,
             streamerMap'[KeyOf[c]] = streamerMap'[KeyOf[scur]]
      PROVE  c = scur /\ spc' # "stop"
  <2>1. /\ c \in socketMap /\ c \in Clients /\ KeyOf[c] \in Keys /\ KeyOf[c] # None
        /\ scur \in Clients /\ KeyOf[scur] \in Keys
    BY <1>2 DEF Newcomer, Serving, Undoing
  <2>2. CASE c = scur
    BY <1>2, <2>1, <2>2 DEF Newcomer
  <2>3. CASE c # scur
    <3>1. streamerMap'[KeyOf[c]] # None
      BY <1>2, <2>3 DEF ClientsServed, Served
    <3>2. streamerMap[KeyOf[c]] = streamerMap[KeyOf[scur]]
      BY <1>2, <2>1, <3>1
    <3> QED BY <1>2, <2>1, <2>3, <3>2 DEF Newcomer
  <2> QED BY <2>2, <2>3
<1>3. /\ scur # None <=> Serving \/ spc \in {"parse", "serve"}
      /\ scur # None => conn[scur] # "new"
      /\ \A c \in Clients : conn[c] = "new" \/ c = scur => \A i \in Instances : c \notin outputs[i]
  BY DEF Newcomer
<1>4. spc' \in {"parse", "serve"} <=> spc \in {"parse", "serve"}
  OBVIOUS
<1>5. Undoing' => \A c \in socketMap' : streamerMap'[KeyOf[c]] = streamerMap'[KeyOf[scur]] => c = scur /\ spc' # "stop"
  BY <1>1, <1>2
<1> HIDE DEF IInv, Inv, TypeOK
<1> QED BY <1>1, <1>3, <1>4, <1>5 DEF Newcomer

-----------------------------------------------------------------------------
(* The runner.                                                             *)
LEMMA CheckStep == ASSUME IInv, Check \/ AcceptNobody \/ Parse PROVE IInv'
<1> USE ServingAssumption DEF IInv, Inv, TypeOK, WriteStates
<1>1. UNCHANGED <<maps, streams>>
  BY DEF Check, AcceptNobody, Parse
<1>2. Countable' /\ Running' = Running /\ \A d \in Clients : Served(d)' <=> Served(d)
  BY <1>1, StreamsKept
<1> USE DEF maps, streams, closer, server
<1>3. TypeOK'
  BY <1>1, <1>2 DEF Check, AcceptNobody, Parse
<1>4. RunningMapped' /\ Numbered'
  BY <1>1, <1>2 DEF Check, AcceptNobody, Parse, RunningMapped, Numbered, Entering, Registered, Forgotten, Finished
<1>5. MapsAgree' /\ OneLeft'
  BY <1>1 DEF Check, AcceptNobody, Parse, MapsAgree, OneLeft, Left, Linked, Forgotten, Serving, Finished
<1>6. Newcomer'
  BY <1>1, <1>2 DEF Check, AcceptNobody, Parse, Newcomer, Serving, Undoing, Forgotten
<1>7. Rounds'
  BY <1>1 DEF Check, AcceptNobody, Parse, Rounds
<1>8. ClientsServed'
  BY <1>1, <1>2 DEF Check, AcceptNobody, Parse, ClientsServed, Serving
<1> QED BY <1>2, <1>3, <1>4, <1>5, <1>6, <1>7, <1>8

LEMMA AcceptStep == ASSUME IInv, NEW c \in Clients, Accept(c) PROVE IInv'
<1> USE ServingAssumption DEF IInv, Inv, TypeOK, WriteStates
<1>1. UNCHANGED <<maps, streams>>
  BY DEF Accept
<1>2. Countable' /\ Running' = Running /\ \A d \in Clients : Served(d)' <=> Served(d)
  BY <1>1, StreamsKept
<1> USE DEF maps, streams, closer, server
<1>3. TypeOK'
  BY <1>1, <1>2 DEF Accept
<1>4. RunningMapped' /\ Numbered'
  BY <1>1, <1>2 DEF Accept, RunningMapped, Numbered, Entering, Registered, Forgotten
<1>5. MapsAgree' /\ OneLeft'
  BY <1>1 DEF Accept, MapsAgree, OneLeft, Left, Linked, Forgotten, Serving
<1>6. Newcomer'
  BY <1>1, <1>2 DEF Accept, Newcomer, Serving, Undoing, Forgotten
<1>7. Rounds'
  BY <1>1 DEF Accept, Rounds
<1>8. ClientsServed'
  BY <1>1, <1>2 DEF Accept, ClientsServed, Serving
<1> QED BY <1>2, <1>3, <1>4, <1>5, <1>6, <1>7, <1>8

LEMMA RefuseStep == ASSUME IInv, ParseRaises \/ Refuse PROVE IInv'
<1> USE ServingAssumption DEF IInv, Inv, TypeOK, WriteStates
<1>1. UNCHANGED <<maps, streams>>
  BY DEF ParseRaises, Refuse
<1>2. Countable' /\ Running' = Running /\ \A d \in Clients : Served(d)' <=> Served(d)
  BY <1>1, StreamsKept
<1> USE DEF maps, streams, closer, server
<1>3. TypeOK'
  BY <1>1, <1>2 DEF ParseRaises, Refuse
<1>4. RunningMapped' /\ Numbered'
  BY <1>1, <1>2 DEF ParseRaises, Refuse, RunningMapped, Numbered, Entering, Registered, Forgotten
<1>5. MapsAgree' /\ OneLeft'
  BY <1>1 DEF ParseRaises, Refuse, MapsAgree, OneLeft, Left, Linked, Forgotten, Serving
<1>6. Newcomer'
  BY <1>1, <1>2 DEF ParseRaises, Refuse, Newcomer, Serving, Undoing, Forgotten
<1>7. Rounds'
  BY <1>1 DEF ParseRaises, Refuse, Rounds
<1>8. ClientsServed'
  BY <1>1, <1>2 DEF ParseRaises, Refuse, ClientsServed, Serving
<1> QED BY <1>2, <1>3, <1>4, <1>5, <1>6, <1>7, <1>8

(* Between two clients nothing is entering a dictionary.                   *)
LEMMA AllRun ==
  ASSUME IInv, spc = "serve"
  PROVE  /\ \A j \in Instances : ~Entering(j)
         /\ \A q \in Registered : running[registry[q]]
         /\ \A l \in Running : running[streamerMap[l]] \/ l \in Sharing
<1>1. \A j : ~Entering(j)
  BY DEF Entering
<1> QED BY <1>1 DEF IInv, Inv, RunningMapped

LEMMA ServeNewStep == ASSUME IInv, ServeNew PROVE IInv'
<1> USE ServingAssumption DEF IInv, Inv, TypeOK, WriteStates
<1> DEFINE k == KeyOf[scur]
<1> DEFINE p == PortKeyOf[k]
<1> DEFINE i == created + 1
<1>1. /\ scur \in Clients /\ k \in Keys /\ k \notin Running /\ i \in Instances /\ i # None
      /\ p \in PortKeys /\ registry[p] = None
      /\ ~Serving /\ spc = "serve" /\ created' = i
  BY DEF ServeNew, Newcomer, Running, Instances, Serving
<1>2. /\ socketMap' = socketMap \cup {scur} /\ streamerMap' = [streamerMap EXCEPT ![k] = i]
      /\ registry' = [registry EXCEPT ![p] = i] /\ spc' = "link" /\ cpc' = cpc
      /\ UNCHANGED <<conn, socketToStream, running, outputs, round, write, scur, closer>>
  BY DEF ServeNew, ServeBy, closer
<1>3. Running' = Running \cup {k} /\ Registered' = Registered \cup {p}
  BY <1>1, <1>2 DEF Running, Registered
<1>4. IsFiniteSet(Running') /\ Cardinality(Running') <= MaxStreams
  BY <1>3, OneMore DEF ServeNew, Countable
<1>5. Countable'
  BY <1>2, <1>4 DEF Countable
<1>6. /\ outputs[i] = {} /\ ~running[i]
      /\ \A l \in Keys : streamerMap[l] # i
      /\ \A q \in PortKeys : registry[q] # i
  BY <1>1 DEF RunningMapped, Numbered, Instances, Running, Registered
<1>7. TypeOK'
  BY <1>1, <1>2, <1>4 DEF Instances, closer
<1>8. RunningMapped'
  <2>1. ASSUME NEW j \in Instances, running'[j] PROVE \E l \in Keys : streamerMap'[l] = j
    <3>1. PICK l \in Keys : streamerMap[l] = j
      BY <1>2, <2>1 DEF RunningMapped
    <3>2. l # k
      BY <1>1, <2>1, <3>1 DEF Running, Instances
    <3> QED BY <1>2, <3>1, <3>2
  <2>2. \A l \in Running' : (running[streamerMap[l]] \/ Entering(streamerMap[l]))' \/ l \in Sharing
    BY <1>1, <1>2, <1>3, AllRun DEF Running, Entering
  <2>3. \A l \in Running', m \in Running' : streamerMap'[l] = streamerMap'[m] => PortKeyOf[l] = PortKeyOf[m]
    BY <1>1, <1>2, <1>3, <1>6 DEF RunningMapped, Running
  <2>4. \A q \in Registered' : (running[registry[q]] \/ Entering(registry[q]))'
    BY <1>1, <1>2, <1>3, AllRun DEF Registered, Entering
  <2> QED BY <1>2, <2>1, <2>2, <2>3, <2>4 DEF RunningMapped
<1>9. Numbered'
  <2>1. \A l \in Running' : streamerMap'[l] <= created' /\ (l = k \/ (l \in Running /\ streamerMap'[l] = streamerMap[l]))
    BY <1>1, <1>2, <1>3 DEF Numbered, Running, Instances
  <2>2. \A q \in Registered' : registry'[q] <= created' /\ (q = p \/ (q \in Registered /\ registry'[q] = registry[q]))
    BY <1>1, <1>2, <1>3 DEF Numbered, Registered, Instances
  <2>3. \A j \in Instances : j > created' => outputs'[j] = {}
    BY <1>1, <1>2 DEF Numbered, Instances
  <2>4. streamerMap'[k] = i /\ registry'[p] = i
    BY <1>1, <1>2
  <2>5. Registered' \subseteq PortKeys /\ Running' \subseteq Keys
    BY DEF Registered, Running
  <2> QED BY <1>6, <2>1, <2>2, <2>3, <2>4, <2>5 DEF Numbered
<1>10. ASSUME NEW c \in socketMap
      PROVE  c # scur /\ KeyOf[c] # k /\ Served(c) /\ Served(c)'
  <2>1. Served(c)
    BY <1>1 DEF ClientsServed
  <2>2. KeyOf[c] # k /\ c # scur
    BY <1>1, <2>1 DEF Served, Running, Newcomer
  <2> QED BY <1>1, <1>2, <2>1, <2>2 DEF Served
<1>11. MapsAgree' /\ OneLeft'
  BY <1>1, <1>2, <1>10 DEF MapsAgree, OneLeft, Left, Linked, Forgotten, Serving
<1>12. ClientsServed'
  BY <1>2, <1>10 DEF ClientsServed, Serving
<1>13. Newcomer'
  <2>1. \A c \in socketMap' : streamerMap'[KeyOf[c]] = i => c = scur
    BY <1>1, <1>2, <1>6, <1>10
  <2> QED BY <1>1, <1>2, <1>3, <1>6, <2>1 DEF Newcomer, Serving, Undoing
<1>14. Rounds'
  BY <1>1, <1>2 DEF Rounds, Newcomer
<1> QED BY <1>5, <1>7, <1>8, <1>9, <1>11, <1>12, <1>13, <1>14

LEMMA ServeSharedStep == ASSUME IInv, ServeShared PROVE IInv'
<1> USE ServingAssumption DEF IInv, Inv, TypeOK, WriteStates
<1> DEFINE k == KeyOf[scur]
<1> DEFINE p == PortKeyOf[k]
<1> DEFINE i == registry[p]
<1>1. /\ scur \in Clients /\ k \in Keys /\ k \notin Running /\ i \in Instances /\ i # None
      /\ p \in Registered /\ ~Serving /\ spc = "serve" /\ created' = created
  BY DEF ServeShared, Newcomer, Running, Registered, Instances, Serving
<1>2. /\ socketMap' = socketMap \cup {scur} /\ streamerMap' = [streamerMap EXCEPT ![k] = i]
      /\ registry' = registry /\ spc' = "link" /\ cpc' = cpc
      /\ UNCHANGED <<conn, socketToStream, running, outputs, round, write, scur, closer>>
  BY DEF ServeShared, ServeBy, closer
<1>3. Running' = Running \cup {k} /\ Registered' = Registered
  BY <1>1, <1>2 DEF Running, Registered
<1>4. IsFiniteSet(Running') /\ Cardinality(Running') <= MaxStreams
  BY <1>3, OneMore DEF ServeShared, Countable
<1>5. Countable'
  BY <1>2, <1>4 DEF Countable
<1>6. running[i]
  BY <1>1, AllRun
<1>7. TypeOK'
  BY <1>1, <1>2, <1>4 DEF closer
<1>8. \A l \in Running' : \/ l = k /\ streamerMap'[l] = i
                          \/ l # k /\ l \in Running /\ streamerMap'[l] = streamerMap[l]
  BY <1>1, <1>2, <1>3 DEF Running
<1>9. RunningMapped'
  <2>1. ASSUME NEW j \in Instances, running'[j] PROVE \E l \in Keys : streamerMap'[l] = j
    <3>1. PICK l \in Keys : streamerMap[l] = j
      BY <1>2, <2>1 DEF RunningMapped
    <3>2. l # k
      BY <1>1, <2>1, <3>1 DEF Running, Instances
    <3> QED BY <1>2, <3>1, <3>2
  <2>2. \A l \in Running' : running'[streamerMap'[l]] \/ l \in Sharing
    BY <1>1, <1>2, <1>6, <1>8, AllRun
  <2>3. \A l \in Running', m \in Running' : streamerMap'[l] = streamerMap'[m] => PortKeyOf[l] = PortKeyOf[m]
    <3>1. \A l \in Running : streamerMap[l] = i => PortKeyOf[l] = p
      BY <1>1 DEF Numbered
    <3>2. \A l \in Running, m \in Running : streamerMap[l] = streamerMap[m] => PortKeyOf[l] = PortKeyOf[m]
      BY DEF RunningMapped
    <3> HIDE DEF IInv, Inv, TypeOK
    <3> QED BY <1>8, <3>1, <3>2
  <2>4. \A q \in Registered' : running'[registry'[q]]
    BY <1>1, <1>2, <1>3, AllRun
  <2> QED BY <1>2, <2>1, <2>2, <2>3, <2>4 DEF RunningMapped
<1>10. Numbered'
  <2>1. \A q \in Registered : registry[q] = i => q = p
    BY <1>1 DEF Numbered
  <2> QED BY <1>1, <1>2, <1>3, <1>8, <2>1 DEF Numbered
<1>11. ASSUME NEW c \in socketMap
      PROVE  c # scur /\ KeyOf[c] # k /\ Served(c) /\ Served(c)'
  <2>1. Served(c)
    BY <1>1 DEF ClientsServed
  <2>2. KeyOf[c] # k /\ c # scur
    BY <1>1, <2>1 DEF Served, Running, Newcomer
  <2> QED BY <1>1, <1>2, <2>1, <2>2 DEF Served
<1>12. MapsAgree' /\ OneLeft'
  BY <1>1, <1>2, <1>11 DEF MapsAgree, OneLeft, Left, Linked, Forgotten, Serving
<1>13. ClientsServed'
  BY <1>2, <1>11 DEF ClientsServed, Serving
<1>14. Newcomer'
  BY <1>1, <1>2, <1>3, <1>6 DEF Newcomer, Serving, Undoing
<1>15. Rounds'
  BY <1>1, <1>2 DEF Rounds, Newcomer
<1> QED BY <1>5, <1>7, <1>9, <1>10, <1>12, <1>13, <1>14, <1>15

LEMMA ServeOldStep == ASSUME IInv, ServeOld PROVE IInv'
<1> USE ServingAssumption DEF IInv, Inv, TypeOK, WriteStates
<1> DEFINE k == KeyOf[scur]
<1> DEFINE i == streamerMap[k]
<1>1. /\ scur \in Clients /\ k \in Keys /\ k \in Running /\ i \in Instances /\ i # None
      /\ ~Serving /\ spc = "serve" /\ created' = created /\ registry' = registry
  BY DEF ServeOld, Newcomer, Running, Instances, Serving
<1>2. /\ socketMap' = socketMap \cup {scur} /\ streamerMap' = streamerMap /\ spc' = "link" /\ cpc' = cpc
      /\ UNCHANGED <<conn, socketToStream, running, outputs, round, write, scur, closer>>
  BY <1>1 DEF ServeOld, ServeBy, closer
<1>3. Running' = Running /\ Registered' = Registered /\ Countable'
  BY <1>1, <1>2 DEF Running, Registered, Countable
<1>4. RunningMapped' /\ Numbered'
  <2>1. /\ \A l \in Running : streamerMap[l] \in Instances
        /\ \A q \in Registered : registry[q] \in Instances
    BY DEF Running, Registered
  <2>2. /\ \A q \in Registered' : running'[registry'[q]]
        /\ \A l \in Running' : running'[streamerMap'[l]] \/ l \in Sharing
    BY <1>1, <1>2, <1>3, AllRun
  <2>3. RunningMapped'
    BY <1>1, <1>2, <1>3, <2>2 DEF RunningMapped
  <2> QED BY <1>1, <1>2, <1>3, <2>3 DEF Numbered
<1>5. TypeOK'
  BY <1>1, <1>2, <1>3 DEF closer
<1>6. ASSUME NEW c \in socketMap PROVE c # scur /\ Served(c) /\ Served(c)'
  <2>1. Served(c)
    BY <1>1 DEF ClientsServed
  <2> QED BY <1>1, <1>2, <2>1 DEF Served, Newcomer
<1>7. MapsAgree' /\ OneLeft'
  BY <1>1, <1>2, <1>6 DEF MapsAgree, OneLeft, Left, Linked, Forgotten, Serving
<1>8. ClientsServed'
  BY <1>1, <1>2, <1>6 DEF ClientsServed, Serving
<1>9. Newcomer'
  <2>1. ASSUME ~running[i], NEW c \in socketMap PROVE streamerMap[KeyOf[c]] # i
    BY <1>6, <2>1 DEF Served
  <2> QED BY <1>1, <1>2, <1>3, <2>1 DEF Newcomer, Serving, Undoing
<1>10. Rounds'
  BY <1>1, <1>2 DEF Rounds, Newcomer
<1> QED BY <1>3, <1>4, <1>5, <1>7, <1>8, <1>9, <1>10


LEMMA LinkStep == ASSUME IInv, Link PROVE IInv'
<1> USE ServingAssumption DEF IInv, Inv, TypeOK, WriteStates
<1>1. /\ scur \in Clients /\ KeyOf[scur] \in Keys /\ Serving /\ Serving' /\ spc = "link" /\ spc' = "start"
      /\ scur \in socketMap \/ Forgotten
      /\ socketToStream' = [socketToStream EXCEPT ![scur] = KeyOf[scur]] /\ cpc' = cpc
      /\ UNCHANGED <<conn, socketMap, streamerMap, streams, round, write, scur, closer>>
  BY DEF Link, Newcomer, Serving, closer
<1> USE DEF streams
<1>2. Running' = Running /\ Countable' /\ RunningMapped' /\ Numbered'
  BY <1>1 DEF Running, Countable, RunningMapped, Numbered, Entering, Registered, Forgotten
<1>3. TypeOK'
  BY <1>1, <1>2 DEF closer
<1>4. Linked' = Linked \cup {scur}
  BY <1>1 DEF Linked
<1>5. Left' \subseteq Left \cup {scur} /\ Forgotten' = Forgotten
  BY <1>1, <1>4 DEF Left, Forgotten
<1>6. MapsAgree' /\ OneLeft'
  <2>1. OneLeft'
    BY <1>1, <1>5 DEF OneLeft
  <2>2. \A c \in Linked' : socketToStream'[c] = KeyOf[c]
    BY <1>1, <1>4 DEF MapsAgree, Linked
  <2>3. ~Forgotten' => Linked' = socketMap'
    BY <1>1, <1>4, <1>5 DEF MapsAgree
  <2>4. cpc' = "done" => Forgotten'
    BY DEF Forgotten
  <2> QED BY <1>1, <2>1, <2>2, <2>3, <2>4 DEF MapsAgree, OneLeft
<1>7. ClientsServed'
  BY <1>1 DEF ClientsServed, Served
<1>8. Newcomer'
  BY <1>1, <1>2, <1>5 DEF Newcomer, Serving, Undoing
<1>9. Rounds'
  BY <1>1 DEF Rounds
<1> QED BY <1>2, <1>3, <1>6, <1>7, <1>8, <1>9

LEMMA StartStreamStep == ASSUME IInv, StartStream PROVE IInv'
<1> USE ServingAssumption DEF IInv, Inv, TypeOK, WriteStates
<1> DEFINE i == streamerMap[KeyOf[scur]]
<1>1. /\ scur \in Clients /\ KeyOf[scur] \in Running /\ i \in Instances /\ spc = "start"
      /\ spc' \in {"add", "close"} /\ Serving /\ Serving' /\ Forgotten' = Forgotten /\ Undoing' = (spc' = "close")
      /\ UNCHANGED <<conn, maps, created, registry, outputs, round, write, scur, closer>>
  BY DEF StartStream, Newcomer, Running, Serving, Undoing, Forgotten, closer
<1>2. UNCHANGED <<socketMap, socketToStream, streamerMap, cpc, ccur, toClose>> /\ Running' = Running
  BY <1>1 DEF maps, closer, Running
<1>3. \/ (socketMap = {} \/ running[i]) /\ spc' = "add" /\ running' = running
      \/ ~running[i] /\ running' = [running EXCEPT ![i] = TRUE]
  BY DEF StartStream
<1>4. TypeOK'
  BY <1>1, <1>2, <1>3
<1>5. Countable'
  BY <1>1, <1>2 DEF Countable
<1>6. running'[i] \/ (spc' = "add" /\ Forgotten /\ socketMap = {})
  BY <1>1, <1>3 DEF Newcomer
<1>7. /\ \A j \in Instances : running[j] => running'[j]
      /\ \A j \in Instances : running'[j] => running[j] \/ j = i
  BY <1>1, <1>3
<1>8. RunningMapped' /\ Numbered'
  <2> DEFINE Kept == spc' = "add" /\ Forgotten /\ socketMap = {}
  <2>1. \A j \in Instances : running'[j] => \E k \in Keys : streamerMap'[k] = j
    BY <1>1, <1>2, <1>7 DEF RunningMapped, Running
  <2>2. \A j : Entering(j) => j = i
    BY <1>1 DEF Entering
  <2>3. Kept => \A j : Entering(j)'
    BY <1>1, <1>2 DEF Entering
  <2>4. \A k \in Running : running'[streamerMap[k]] \/ Kept \/ k \in Sharing
    <3>1. \A k \in Running : streamerMap[k] \in Instances
      BY DEF Running
    <3> QED BY <1>6, <1>7, <2>2, <3>1 DEF RunningMapped
  <2>5. Registered' = Registered /\ \A p \in Registered : running'[registry[p]] \/ Kept
    <3>1. Registered' = Registered /\ \A p \in Registered : registry[p] \in Instances
      BY <1>1 DEF Registered
    <3> QED BY <1>6, <1>7, <2>2, <3>1 DEF RunningMapped
  <2>6. RunningMapped'
    BY <1>1, <1>2, <2>1, <2>3, <2>4, <2>5 DEF RunningMapped
  <2> QED BY <1>1, <1>2, <2>5, <2>6 DEF Numbered
<1>9. MapsAgree' /\ OneLeft'
  BY <1>1, <1>2 DEF MapsAgree, OneLeft, Left, Linked
<1>10. ClientsServed'
  BY <1>1, <1>2, <1>7 DEF ClientsServed, Served
<1>11. Newcomer'
  BY <1>1, <1>2, <1>3 DEF Newcomer
<1>12. Rounds'
  BY <1>1, <1>2 DEF Rounds
<1> QED BY <1>4, <1>5, <1>8, <1>9, <1>10, <1>11, <1>12

LEMMA AddOutputStep == ASSUME IInv, AddOutput PROVE IInv'
<1> USE ServingAssumption DEF IInv, Inv, TypeOK, WriteStates
<1> DEFINE i == streamerMap[KeyOf[scur]]
<1>1. /\ scur \in Clients /\ KeyOf[scur] \in Running /\ i \in Instances /\ i # None /\ i \notin round
      /\ running[i] \/ socketMap = {}
      /\ outputs' = [outputs EXCEPT ![i] = @ \cup {scur}] /\ spc = "add" /\ spc' = "check" /\ scur' = None
      /\ UNCHANGED <<conn, maps, created, registry, running, round, write, closer>>
  BY DEF AddOutput, Newcomer, Running, Serving, RunningMapped, Numbered, Entering, Registered
<1>2. UNCHANGED <<socketMap, socketToStream, streamerMap, cpc, ccur, toClose>> /\ Running' = Running
  BY <1>1 DEF maps, closer, Running
<1>3. Countable'
  <2>1. IsFiniteSet(outputs[i] \cup {scur})
    BY <1>1, FS_AddElement DEF Countable
  <2> QED BY <1>1, <1>2, <2>1 DEF Countable
<1>4. RunningMapped' /\ Numbered'
  <2>1. \A j \in Instances : j > created => j # i /\ outputs'[j] = {}
    BY <1>1 DEF RunningMapped, Numbered, Entering, Registered, Instances
  <2> QED BY <1>1, <1>2, <2>1 DEF RunningMapped, Numbered, Entering, Registered, Forgotten
<1>5. TypeOK'
  BY <1>1, <1>2
<1>6. MapsAgree' /\ OneLeft'
  BY <1>1, <1>2 DEF MapsAgree, OneLeft, Left, Linked, Forgotten, Serving
<1>7. ClientsServed'
  <2>1. ASSUME NEW c \in socketMap PROVE Served(c)'
    <3>1. CASE c = scur
      BY <1>1, <1>2, <3>1 DEF Served
    <3>2. CASE c # scur
      <4>1. Served(c)
        BY <3>2 DEF ClientsServed
      <4> QED BY <1>1, <1>2, <4>1 DEF Served
    <3> QED BY <3>1, <3>2
  <2> QED BY <1>2, <2>1 DEF ClientsServed
<1>8. Newcomer'
  BY <1>1, <1>2 DEF Newcomer, Serving, Undoing
<1>9. Rounds'
  BY <1>1, <1>2 DEF Rounds
<1> QED BY <1>3, <1>4, <1>5, <1>6, <1>7, <1>8, <1>9

LEMMA ServeClosesStep == ASSUME IInv, ServeCloses PROVE IInv'
<1> USE ServingAssumption DEF IInv, Inv, TypeOK, WriteStates
<1>1. UNCHANGED <<maps, streams>>
  BY DEF ServeCloses
<1>2. Countable' /\ Running' = Running /\ \A d \in Clients : Served(d)' <=> Served(d)
  BY <1>1, StreamsKept
<1> USE DEF maps, streams, closer, server
<1>3. TypeOK'
  BY <1>1, <1>2 DEF ServeCloses
<1>4. RunningMapped' /\ Numbered'
  BY <1>1, <1>2 DEF ServeCloses, RunningMapped, Numbered, Entering, Registered, Forgotten
<1>5. MapsAgree' /\ OneLeft'
  BY <1>1 DEF ServeCloses, MapsAgree, OneLeft, Left, Linked, Forgotten, Serving
<1>6. Newcomer'
  BY <1>1, <1>2 DEF ServeCloses, Newcomer, Serving, Undoing, Forgotten
<1>7. Rounds'
  BY <1>1 DEF ServeCloses, Rounds
<1>8. ClientsServed'
  BY <1>1, <1>2 DEF ServeCloses, ClientsServed, Serving
<1> QED BY <1>2, <1>3, <1>4, <1>5, <1>6, <1>7, <1>8

LEMMA ServeCleanupStep == ASSUME IInv, ServeCleanup PROVE IInv'
<1> USE ServingAssumption DEF IInv, Inv, TypeOK, WriteStates
<1>1. /\ spc = "cleanup" /\ Serving /\ Undoing /\ ModeLockFree /\ scur \in Clients
      /\ cpc' = cpc /\ UNCHANGED <<conn, created, outputs, round, write, closer>>
  BY DEF ServeCleanup, Serving, Undoing, Newcomer, ModeLockFree, closer
<1>2. CASE scur \in socketMap
  <2>1. Cleanup(scur) /\ spc' = "stop" /\ scur' = scur
    BY <1>2 DEF ServeCleanup
  <2>2. /\ socketMap' = socketMap \ {scur}
        /\ socketToStream' \in [Clients -> Keys \cup {None}]
        /\ streamerMap' \in [Keys -> Instances \cup {None}]
        /\ registry' \in [PortKeys -> Instances \cup {None}]
        /\ running' \in [Instances -> BOOLEAN]
        /\ Cardinality(Running') <= MaxStreams /\ Countable'
        /\ RunningMapped' /\ Numbered' /\ OneLeft' /\ MapsAgree' /\ ClientsServed'
        /\ \A l \in Keys : streamerMap'[l] \in {streamerMap[l], None}
    BY <1>1, <1>2, <2>1, CleanupKeeps
  <2>3. TypeOK'
    BY <1>1, <2>1, <2>2 DEF closer
  <2>4. Newcomer'
    BY <1>1, <2>1, <2>2, CleanupNewcomer
  <2>5. Rounds'
    BY <1>1, <2>1, <2>2 DEF Rounds
  <2> QED BY <2>2, <2>3, <2>4, <2>5
<1>3. CASE scur \notin socketMap
  <2>1. spc' = "check" /\ scur' = None /\ UNCHANGED <<maps, running, registry>>
    BY <1>3 DEF ServeCleanup
  <2>2. UNCHANGED <<maps, streams>>
    BY <1>1, <2>1 DEF streams
  <2>3. Countable' /\ Running' = Running /\ \A c \in Clients : Served(c)' <=> Served(c)
    BY <2>2, StreamsKept
  <2> USE DEF maps, streams, closer
  <2>4. TypeOK'
    BY <1>1, <2>1, <2>2, <2>3
  <2>5. RunningMapped' /\ Numbered'
    BY <1>1, <2>1, <2>2, <2>3 DEF RunningMapped, Numbered, Entering, Registered
  <2>6. MapsAgree' /\ OneLeft'
    BY <1>1, <2>1, <2>2 DEF MapsAgree, OneLeft, Left, Linked, Forgotten, Serving
  <2>7. Newcomer'
    BY <1>1, <2>1, <2>2 DEF Newcomer, Serving, Undoing
  <2>8. Rounds' /\ ClientsServed'
    BY <1>1, <1>3, <2>1, <2>2, <2>3 DEF Rounds, ClientsServed, Serving
  <2> QED BY <2>3, <2>4, <2>5, <2>6, <2>7, <2>8
<1> QED BY <1>2, <1>3

LEMMA ServeStopsStep == ASSUME IInv, ServeStops PROVE IInv'
<1> USE ServingAssumption DEF IInv, Inv, TypeOK, WriteStates
<1> DEFINE k == KeyOf[scur]
<1> DEFINE i == streamerMap[k]
<1>1. /\ spc = "stop" /\ Serving /\ scur \in Clients /\ k \in Keys
      /\ scur \notin socketMap /\ \A c \in socketMap : streamerMap[KeyOf[c]] # i
      /\ socketToStream' = [socketToStream EXCEPT ![scur] = None] /\ spc' = "check" /\ scur' = None
      /\ cpc' = cpc /\ UNCHANGED <<conn, socketMap, created, outputs, round, write, closer>>
  BY DEF ServeStops, Serving, Undoing, Newcomer, closer
<1>2. /\ \A j \in Instances : ~Entering(j)
      /\ \A l \in Running : running[streamerMap[l]] \/ l \in Sharing
      /\ \A p \in Registered : running[registry[p]]
  <2>1. \A j : ~Entering(j)
    BY <1>1 DEF Entering
  <2> QED BY <2>1 DEF RunningMapped
<1>3. Linked' = Linked \ {scur} /\ Left' \subseteq Left /\ Forgotten' = Forgotten
  BY <1>1 DEF Linked, Left, Forgotten
<1>4. MapsAgree' /\ OneLeft'
  <2>1. \A c \in Linked' : socketToStream'[c] = KeyOf[c]
    BY <1>1, <1>3 DEF MapsAgree, Linked
  <2>2. MapsAgree'
    BY <1>1, <1>3, <2>1 DEF MapsAgree
  <2>3. OneLeft'
    BY <1>1, <1>3 DEF OneLeft, Serving
  <2> QED BY <2>2, <2>3
<1>5. Newcomer' /\ Rounds'
  BY <1>1 DEF Newcomer, Rounds, Serving, Undoing
<1>6. ASSUME NEW c \in socketMap PROVE Served(c)
  BY <1>1 DEF ClientsServed
<1>7. CASE i = None
  <2>1. UNCHANGED <<running, registry, streamerMap>>
    BY <1>7 DEF ServeStops
  <2>2. Running' = Running /\ Registered' = Registered /\ Countable'
    BY <1>1, <2>1 DEF Running, Registered, Countable
  <2>3. RunningMapped' /\ Numbered'
    BY <1>1, <1>2, <2>1, <2>2 DEF RunningMapped, Numbered
  <2>4. ClientsServed'
    BY <1>1, <1>6, <2>1 DEF ClientsServed, Served
  <2>5. TypeOK'
    BY <1>1, <2>1, <2>2 DEF closer
  <2> QED BY <1>4, <1>5, <2>2, <2>3, <2>4, <2>5
<1>8. CASE i # None
  <2>1. /\ i \in Instances /\ k \in Running /\ streamerMap' = [streamerMap EXCEPT ![k] = None]
        /\ running' = [running EXCEPT ![i] = FALSE] /\ registry' \in Returns(i)
    BY <1>1, <1>8 DEF ServeStops, Running
  <2>2. Running' = Running \ {k}
    BY <2>1 DEF Running
  <2>3. Cardinality(Running') <= MaxStreams /\ IsFiniteSet(Running')
    BY <2>1, <2>2, OneLess DEF Countable
  <2>4. Countable'
    BY <1>1, <2>3 DEF Countable
  <2>5. /\ registry' \in [PortKeys -> Instances \cup {None}]
        /\ \A p \in PortKeys : registry'[p] \in {registry[p], None} /\ registry'[p] # i
    BY <2>1, Returning
  <2>6. /\ \A p \in Registered' : p \in Registered /\ registry'[p] = registry[p] /\ registry[p] # i
        /\ \A l \in Running' : l \in Running /\ l # k /\ streamerMap'[l] = streamerMap[l]
    BY <2>1, <2>2, <2>5 DEF Registered
  <2>7. Numbered'
    BY <1>1, <2>6 DEF Numbered
  <2>8. RunningMapped'
    <3>1. ASSUME NEW j \in Instances, running'[j] PROVE \E l \in Keys : streamerMap'[l] = j
      <4>1. j # i /\ running[j]
        BY <2>1, <3>1
      <4> QED BY <2>1, <4>1 DEF RunningMapped
    <3>2. ASSUME NEW l \in Running' PROVE running'[streamerMap'[l]] \/ l \in Sharing
      <4>1. CASE streamerMap[l] = i
        <5>1. PortKeyOf[l] = PortKeyOf[k] /\ l # k /\ l \in Keys
          BY <2>1, <2>6, <4>1 DEF RunningMapped, Running
        <5> QED BY <1>1, <5>1 DEF Sharing
      <4>2. CASE streamerMap[l] # i
        BY <1>2, <2>1, <2>6, <4>2 DEF Running
      <4> QED BY <4>1, <4>2
    <3>3. \A p \in Registered' : running'[registry'[p]]
      BY <1>2, <2>1, <2>6 DEF Registered
    <3>4. \A l \in Running', m \in Running' : streamerMap'[l] = streamerMap'[m] => PortKeyOf[l] = PortKeyOf[m]
      BY <2>6 DEF RunningMapped
    <3> QED BY <3>1, <3>2, <3>3, <3>4 DEF RunningMapped
  <2>9. ClientsServed'
    <3>1. ASSUME NEW c \in socketMap PROVE Served(c)'
      <4>1. Served(c) /\ streamerMap[KeyOf[c]] # i
        BY <1>1, <1>6
      <4> QED BY <1>1, <2>1, <4>1 DEF Served
    <3> QED BY <1>1, <3>1 DEF ClientsServed
  <2>10. TypeOK'
    BY <1>1, <2>1, <2>3, <2>5 DEF closer
  <2> QED BY <1>4, <1>5, <2>4, <2>7, <2>8, <2>9, <2>10
<1> QED BY <1>7, <1>8


-----------------------------------------------------------------------------
(* The writers and their workers.                                          *)
LEMMA RoundBeginStep == ASSUME IInv, NEW i \in Instances, RoundBegin(i) PROVE IInv'
<1> USE ServingAssumption DEF IInv, Inv, TypeOK, WriteStates
<1>1. UNCHANGED <<maps, streams, server, closer>>
  BY DEF RoundBegin
<1>2. /\ Running' = Running /\ Countable'
      /\ RunningMapped' /\ Numbered' /\ OneLeft' /\ MapsAgree' /\ ClientsServed'
  BY <1>1, ServerKept
<1> USE DEF maps, streams, closer, server
<1>3. TypeOK'
  BY <1>1, <1>2 DEF RoundBegin
<1>4. Newcomer'
  BY <1>1, <1>2 DEF RoundBegin, Newcomer, Serving, Undoing, Forgotten
<1>5. Rounds'
  BY <1>1 DEF RoundBegin, Rounds
<1> QED BY <1>2, <1>3, <1>4, <1>5

LEMMA RoundEndStep == ASSUME IInv, NEW i \in Instances, RoundEnd(i) PROVE IInv'
<1> USE ServingAssumption DEF IInv, Inv, TypeOK, WriteStates
<1>1. UNCHANGED <<maps, streams, server, closer>>
  BY DEF RoundEnd
<1>2. /\ Running' = Running /\ Countable'
      /\ RunningMapped' /\ Numbered' /\ OneLeft' /\ MapsAgree' /\ ClientsServed'
  BY <1>1, ServerKept
<1> USE DEF maps, streams, closer, server
<1>3. TypeOK'
  BY <1>1, <1>2 DEF RoundEnd
<1>4. Newcomer'
  BY <1>1, <1>2 DEF RoundEnd, Newcomer, Serving, Undoing, Forgotten
<1>5. Rounds'
  BY <1>1 DEF RoundEnd, Rounds
<1> QED BY <1>2, <1>3, <1>4, <1>5

LEMMA WriteStep == ASSUME IInv, NEW c \in Clients, WriteBegin(c) \/ WriteOk(c) \/ WriteFails(c) PROVE IInv'
<1> USE ServingAssumption DEF IInv, Inv, TypeOK, WriteStates
<1>1. UNCHANGED <<maps, streams, server, closer>>
  BY DEF WriteBegin, WriteOk, WriteFails
<1>2. /\ Running' = Running /\ Countable'
      /\ RunningMapped' /\ Numbered' /\ OneLeft' /\ MapsAgree' /\ ClientsServed'
  BY <1>1, ServerKept
<1> USE DEF maps, streams, closer, server
<1>3. TypeOK'
  BY <1>1, <1>2 DEF WriteBegin, WriteOk, WriteFails
<1>4. Newcomer'
  BY <1>1, <1>2 DEF WriteBegin, WriteOk, WriteFails, Newcomer, Serving, Undoing, Forgotten
<1>5. Rounds'
  BY <1>1 DEF WriteBegin, WriteOk, WriteFails, Rounds
<1> QED BY <1>2, <1>3, <1>4, <1>5

LEMMA CollectStep == ASSUME IInv, NEW i \in Instances, NEW c \in Clients, Collect(i, c) PROVE IInv'
<1> USE ServingAssumption DEF IInv, Inv, TypeOK, WriteStates
<1>1. /\ i \in round /\ c \in outputs[i] /\ write[c] \in {"true", "false"}
      /\ write' = [write EXCEPT ![c] = "none"]
      /\ UNCHANGED <<conn, maps, created, registry, running, round, server, closer>>
  BY DEF Collect
<1>2. /\ outputs' \in [Instances -> SUBSET Clients] /\ \A j \in Instances : outputs'[j] \subseteq outputs[j]
      /\ \A j \in Instances, d \in Clients : d \in outputs[j] /\ d \notin outputs'[j] => d = c /\ c \notin socketMap
  BY DEF Collect, Rounds
<1>3. Countable'
  <2>1. Running' = Running
    BY <1>1 DEF maps, Running
  <2>2. ASSUME NEW j \in Instances PROVE IsFiniteSet(outputs'[j])
    BY <1>2, FS_Subset DEF Countable
  <2> QED BY <2>1, <2>2 DEF Countable
<1> USE DEF maps, server, closer
<1>4. Running' = Running /\ RunningMapped' /\ Numbered'
  BY <1>1, <1>2 DEF Running, RunningMapped, Numbered, Entering, Registered, Forgotten
<1>5. MapsAgree' /\ OneLeft'
  BY <1>1 DEF MapsAgree, OneLeft, Left, Linked, Forgotten, Serving
<1>6. TypeOK'
  BY <1>1, <1>2, <1>4
<1>7. Newcomer'
  BY <1>1, <1>2, <1>4 DEF Newcomer, Serving, Undoing, Running, Forgotten
<1>8. ClientsServed'
  BY <1>1, <1>2 DEF ClientsServed, Served, Serving
<1>9. Rounds'
  BY <1>1, <1>2 DEF Rounds
<1> QED BY <1>3, <1>4, <1>5, <1>6, <1>7, <1>8, <1>9

LEMMA WriteCleanupStep == ASSUME IInv, NEW c \in Clients, WriteCleanup(c) PROVE IInv'
<1> USE ServingAssumption DEF IInv, Inv, TypeOK, WriteStates
<1>1. /\ write[c] = "locking" /\ ModeLockFree /\ write' = [write EXCEPT ![c] = "false"]
      /\ UNCHANGED <<conn, created, outputs, round, spc, scur, cpc, server, closer>>
  BY DEF WriteCleanup, server, closer
<1>2. CASE c \in socketMap
  <2>1. Cleanup(c)
    BY <1>2 DEF WriteCleanup
  <2>2. /\ socketMap' = socketMap \ {c}
        /\ socketToStream' \in [Clients -> Keys \cup {None}]
        /\ streamerMap' \in [Keys -> Instances \cup {None}]
        /\ registry' \in [PortKeys -> Instances \cup {None}]
        /\ running' \in [Instances -> BOOLEAN]
        /\ Cardinality(Running') <= MaxStreams /\ Countable'
        /\ RunningMapped' /\ Numbered' /\ OneLeft' /\ MapsAgree' /\ ClientsServed'
        /\ \A l \in Keys : streamerMap'[l] \in {streamerMap[l], None}
    BY <1>1, <1>2, <2>1, CleanupKeeps
  <2>3. TypeOK'
    BY <1>1, <1>2, <2>2 DEF server, closer
  <2>4. Newcomer'
    BY <1>1, <2>1, <2>2, CleanupNewcomer DEF server, closer
  <2>5. Rounds'
    BY <1>1, <1>2, <2>2 DEF Rounds
  <2> QED BY <2>2, <2>3, <2>4, <2>5
<1>3. CASE c \notin socketMap
  <2>1. UNCHANGED <<maps, streams, server, closer>>
    BY <1>1, <1>3 DEF WriteCleanup, streams
  <2>2. /\ Running' = Running /\ Countable'
        /\ RunningMapped' /\ Numbered' /\ OneLeft' /\ MapsAgree' /\ ClientsServed'
    BY <2>1, ServerKept
  <2> USE DEF maps, streams, server, closer
  <2>3. TypeOK'
    BY <1>1, <1>3, <2>1, <2>2
  <2>4. Newcomer'
    BY <1>1, <2>1, <2>2 DEF Newcomer, Serving, Undoing, Forgotten
  <2>5. Rounds'
    BY <1>1, <1>3, <2>1 DEF Rounds
  <2> QED BY <2>2, <2>3, <2>4, <2>5
<1> QED BY <1>2, <1>3

-----------------------------------------------------------------------------
(* The thread in shutdown.                                                 *)
LEMMA CloseStep == ASSUME IInv, CleanupBegin \/ WakeRunner \/ \E c \in Clients : CloseSocket(c) PROVE IInv'
<1> USE ServingAssumption DEF IInv, Inv, TypeOK, WriteStates
<1>1. UNCHANGED <<maps, streams>>
  BY DEF CleanupBegin, WakeRunner, CloseSocket
<1>2. Countable' /\ Running' = Running /\ \A d \in Clients : Served(d)' <=> Served(d)
  BY <1>1, StreamsKept
<1> USE DEF maps, streams, closer, server
<1>3. TypeOK'
  BY <1>1, <1>2 DEF CleanupBegin, WakeRunner, CloseSocket
<1>4. RunningMapped' /\ Numbered'
  BY <1>1, <1>2 DEF CleanupBegin, WakeRunner, CloseSocket, RunningMapped, Numbered, Entering, Registered, Forgotten
<1>5. MapsAgree' /\ OneLeft'
  <2>1. ~Forgotten /\ ~Forgotten' /\ cpc' # "done" /\ spc' = spc /\ scur' = scur
    BY DEF CleanupBegin, WakeRunner, CloseSocket, Forgotten
  <2> QED BY <1>1, <2>1 DEF MapsAgree, OneLeft, Linked, Forgotten
<1>6. Newcomer'
  <2>1. /\ spc' = spc /\ scur' = scur /\ ~Forgotten /\ \A c \in Clients : conn'[c] = "new" => conn[c] = "new"
        /\ scur # None => conn'[scur] # "new"
    BY DEF CleanupBegin, WakeRunner, CloseSocket, Forgotten, Newcomer
  <2> QED BY <1>1, <1>2, <2>1 DEF Newcomer, Serving, Undoing
<1>7. Rounds'
  BY <1>1 DEF CleanupBegin, WakeRunner, CloseSocket, Rounds
<1>8. ClientsServed'
  BY <1>1, <1>2 DEF CleanupBegin, WakeRunner, CloseSocket, ClientsServed, Serving
<1> QED BY <1>2, <1>3, <1>4, <1>5, <1>6, <1>7, <1>8

LEMMA CloseCleanupStep == ASSUME IInv, CloseCleanup PROVE IInv'
<1> USE ServingAssumption DEF IInv, Inv, TypeOK, WriteStates
<1>1. /\ cpc = "locking" /\ ModeLockFree /\ ccur' = None
      /\ UNCHANGED <<conn, created, outputs, round, write, spc, scur, toClose, server>>
  BY DEF CloseCleanup, server
<1>2. CASE ccur \in socketMap
  <2>1. Cleanup(ccur) /\ cpc' = "next"
    BY <1>2 DEF CloseCleanup
  <2>2. /\ socketMap' = socketMap \ {ccur}
        /\ socketToStream' \in [Clients -> Keys \cup {None}]
        /\ streamerMap' \in [Keys -> Instances \cup {None}]
        /\ registry' \in [PortKeys -> Instances \cup {None}]
        /\ running' \in [Instances -> BOOLEAN]
        /\ Cardinality(Running') <= MaxStreams /\ Countable'
        /\ RunningMapped' /\ Numbered' /\ OneLeft' /\ MapsAgree' /\ ClientsServed'
        /\ \A l \in Keys : streamerMap'[l] \in {streamerMap[l], None}
    BY <1>1, <1>2, <2>1, CleanupKeeps
  <2>3. TypeOK'
    BY <1>1, <2>1, <2>2
  <2>4. Newcomer'
    BY <1>1, <2>1, <2>2, CleanupNewcomer DEF server, closer
  <2>5. Rounds'
    BY <1>1, <2>2 DEF Rounds
  <2> QED BY <2>2, <2>3, <2>4, <2>5
<1>3. CASE ccur \notin socketMap
  <2>1. UNCHANGED <<maps, streams>> /\ cpc' = "raised"
    BY <1>1, <1>3 DEF CloseCleanup, streams
  <2>2. Countable' /\ Running' = Running /\ \A d \in Clients : Served(d)' <=> Served(d)
    BY <2>1, StreamsKept
  <2> USE DEF maps, streams, server
  <2>3. TypeOK'
    BY <1>1, <2>1, <2>2
  <2>4. RunningMapped' /\ Numbered'
    BY <1>1, <2>1, <2>2 DEF RunningMapped, Numbered, Entering, Registered, Forgotten
  <2>5. MapsAgree' /\ OneLeft'
    BY <1>1, <2>1 DEF MapsAgree, OneLeft, Left, Linked, Forgotten, Serving
  <2>6. Newcomer'
    BY <1>1, <2>1, <2>2 DEF Newcomer, Serving, Undoing, Forgotten
  <2>7. Rounds'
    BY <1>1, <2>1 DEF Rounds
  <2>8. ClientsServed'
    BY <1>1, <2>1, <2>2 DEF ClientsServed, Serving
  <2> QED BY <2>2, <2>3, <2>4, <2>5, <2>6, <2>7, <2>8
<1> QED BY <1>2, <1>3

LEMMA ForgetSocketsStep == ASSUME IInv, ForgetSockets PROVE IInv'
<1> USE ServingAssumption DEF IInv, Inv, TypeOK, WriteStates
<1>1. /\ socketMap' = {} /\ cpc' = "forget"
      /\ UNCHANGED <<conn, socketToStream, streamerMap, streams, round, write, server, ccur, toClose>>
  BY DEF ForgetSockets
<1> USE DEF streams, server
<1>2. Running' = Running /\ Countable' /\ RunningMapped' /\ Numbered'
  BY <1>1 DEF Running, Countable, RunningMapped, Numbered, Entering, Registered, Forgotten
<1>3. TypeOK'
  BY <1>1, <1>2
<1>4. Forgotten' /\ Left' = {} /\ Linked' = Linked
  BY <1>1 DEF Forgotten, Left, Linked
<1>5. MapsAgree' /\ OneLeft' /\ ClientsServed'
  BY <1>1, <1>4 DEF MapsAgree, OneLeft, ClientsServed
<1>6. Newcomer'
  BY <1>1, <1>2, <1>4 DEF Newcomer, Serving, Undoing
<1>7. Rounds'
  BY <1>1 DEF Rounds
<1> QED BY <1>2, <1>3, <1>5, <1>6, <1>7

LEMMA ForgetStreamsStep == ASSUME IInv, ForgetStreams PROVE IInv'
<1> USE ServingAssumption DEF IInv, Inv, TypeOK, WriteStates
<1>1. /\ cpc = "forget" /\ cpc' = "done" /\ socketToStream' = [c \in Clients |-> None]
      /\ UNCHANGED <<conn, socketMap, streamerMap, streams, round, write, server, ccur, toClose>>
  BY DEF ForgetStreams
<1> USE DEF streams, server
<1>2. Forgotten /\ Forgotten' /\ Linked' = {} /\ Left = socketMap /\ Left' = socketMap
  BY <1>1 DEF Forgotten, Left, Linked
<1>3. Running' = Running /\ Countable' /\ RunningMapped' /\ Numbered'
  BY <1>1, <1>2 DEF Running, Countable, RunningMapped, Numbered, Entering, Registered
<1>4. TypeOK'
  BY <1>1, <1>3
<1>5. MapsAgree' /\ OneLeft'
  BY <1>1, <1>2 DEF MapsAgree, OneLeft, Serving
<1>6. ClientsServed'
  BY <1>1 DEF ClientsServed, Served, Serving
<1>7. Newcomer'
  BY <1>1, <1>2, <1>3 DEF Newcomer, Serving, Undoing
<1>8. Rounds'
  BY <1>1 DEF Rounds
<1> QED BY <1>3, <1>4, <1>5, <1>6, <1>7, <1>8

-----------------------------------------------------------------------------
LEMMA StepInvariant == IInv /\ [Next]_vars => IInv'
<1> SUFFICES ASSUME IInv, [Next]_vars PROVE IInv'
  OBVIOUS
<1>1. CASE UNCHANGED vars
  <2> USE <1>1 DEF vars, IInv, Inv
  <2>1. /\ Running' = Running /\ Countable'
        /\ RunningMapped' /\ Numbered' /\ OneLeft' /\ MapsAgree' /\ ClientsServed'
    BY ServerKept
  <2> USE DEF maps, streams, server, closer
  <2>2. TypeOK'
    BY <2>1 DEF TypeOK
  <2>3. Newcomer' /\ Rounds'
    BY <2>1 DEF Newcomer, Rounds, Serving, Undoing, Forgotten, TypeOK
  <2> QED BY <2>1, <2>2, <2>3
<1>2. CASE Runner
  BY <1>2, CheckStep, AcceptStep, RefuseStep, ServeNewStep, ServeSharedStep, ServeOldStep, LinkStep, StartStreamStep,
     AddOutputStep, ServeClosesStep, ServeCleanupStep, ServeStopsStep DEF Runner
<1>3. CASE \E i \in Instances : Writer(i)
  BY <1>3, RoundBeginStep, CollectStep, RoundEndStep DEF Writer
<1>4. CASE \E c \in Clients : Worker(c)
  BY <1>4, WriteStep, WriteCleanupStep DEF Worker
<1>5. CASE Shutdown
  BY <1>5, CloseStep, CloseCleanupStep, ForgetSocketsStep, ForgetStreamsStep DEF Shutdown
<1> QED BY <1>1, <1>2, <1>3, <1>4, <1>5 DEF Next

LEMMA Invariant == Spec => []IInv
BY InitInvariant, StepInvariant, PTL DEF Spec

(* Never more than max_streams streams, and every one that runs is among   *)
(* those the runner counts (network_serving.py:104-110).                   *)
THEOREM StreamsCounted == Spec => []Inv
<1>1. IInv => Inv
  BY DEF IInv
<1> QED BY Invariant, <1>1, PTL

(* A client in socket_map stays an output of its running stream, whoever   *)
(* else comes, leaves or fails (network_serving.py:81-90).                 *)
THEOREM ClientsStayServed == Spec => []ClientsServed
<1>1. IInv => ClientsServed
  BY DEF IInv
<1> QED BY Invariant, <1>1, PTL

(* socket_map and socket_to_stream name the same clients, but for the one  *)
(* that _cleanup may leave in either (network_serving.py:81-90, 136-137,   *)
(* 169-170).                                                               *)
THEOREM DictionariesAgree == Spec => []MapsAgree
<1>1. IInv => MapsAgree
  BY DEF IInv
<1> QED BY Invariant, <1>1, PTL
=============================================================================
