----------------------- MODULE NetworkStreamingProofs -----------------------
(***************************************************************************)
(* Proofs about NetworkStreaming for any number of hosts and of changes of *)
(* the world: a connected host is served, a dead output is dropped, the    *)
(* sockets follow the hosts file, a complete shutdown leaves nothing.      *)
(***************************************************************************)
EXTENDS NetworkStreaming, FiniteSetTheorems, TLAPS

(* The induction hypothesis.                                               *)
IInv == Inv /\ ConnectedServed

LEMMA InitInvariant == Init => IInv
<1> SUFFICES ASSUME Init PROVE IInv
  OBVIOUS
<1> USE StreamingAssumption DEF Init, Finished
<1>1. TypeOK
  <2>1. \A s \in {up, link, file, bad, hosts, socketMap, connected, outputs, todo,
                  newHosts, toClose, former, formerLink, raced, late} : s \subseteq Hosts
    OBVIOUS
  <2>2. write \in [Hosts -> {"none", "pending", "true", "false"}] /\ changes \in 0 .. MaxChanges /\ size \in Nat
    OBVIOUS
  <2>3. /\ rpc \in {"test", "died"} /\ rcur = None /\ xpc = "off" /\ xcur = None
        /\ streaming = TRUE /\ round = FALSE /\ cut \in BOOLEAN
    OBVIOUS
  <2> HIDE DEF Init
  <2> QED BY <2>1, <2>2, <2>3 DEF TypeOK, RunnerStates
<1>2. WritesToOutputs /\ WriterDropsDead /\ SocketsFollowHosts
  BY DEF WritesToOutputs, WriterDropsDead, SocketsFollowHosts
<1>3. OneHostAtATime /\ Reconnects /\ CleanedUp /\ ConnectedServed
  BY DEF OneHostAtATime, Reconnects, CleanedUp, ConnectedServed
<1> QED BY <1>1, <1>2, <1>3 DEF IInv, Inv

-----------------------------------------------------------------------------
LEMMA ChangesBounded == ASSUME StreamingAssumption PROVE MayChange \in Nat /\ MayChange <= MaxChanges
BY DEF StreamingAssumption, MayChange

(* The world.                                                              *)
LEMMA ChangesStep == ASSUME IInv, Changes PROVE IInv'
<1> USE StreamingAssumption DEF IInv, Inv, TypeOK, Finished
<1> USE DEF env, maps, writer, runner, closer, history, Changes
<1>1. TypeOK'
  <2>1. changes' \in 0 .. MaxChanges
    BY ChangesBounded
  <2>2. file' \subseteq Hosts /\ bad' \subseteq Hosts
    <3>1. UNCHANGED <<file, bad>> \/ (file' \subseteq Hosts /\ bad' \subseteq file')
      OBVIOUS
    <3> HIDE DEF Changes
    <3> QED BY <3>1
  <2>4. up' \subseteq Hosts /\ link' \subseteq Hosts /\ formerLink' \subseteq Hosts
    <3>1. /\ link' \subseteq link /\ formerLink' \subseteq formerLink
          /\ up' \subseteq up \/ \E h \in Hosts : up' = up \cup {h}
      OBVIOUS
    <3> HIDE DEF Changes
    <3> QED BY <3>1
  <2>3. UNCHANGED <<hosts, socketMap, former, connected, outputs, writer, runner, closer, history>>
    OBVIOUS
  <2> HIDE DEF Changes
  <2> QED BY <2>1, <2>2, <2>3, <2>4
<1>2. WritesToOutputs'
  BY DEF WritesToOutputs
<1>3. WriterDropsDead'
  BY DEF WriterDropsDead
<1>4. SocketsFollowHosts'
  BY DEF SocketsFollowHosts
<1>5. OneHostAtATime'
  BY DEF OneHostAtATime
<1>6. Reconnects'
  BY DEF Reconnects, WritesToOutputs, WriterDropsDead
<1>7. CleanedUp'
  BY DEF CleanedUp
<1>8. ConnectedServed'
  BY DEF ConnectedServed, Reconnects
<1> QED BY <1>1, <1>2, <1>3, <1>4, <1>5, <1>6, <1>7, <1>8

-----------------------------------------------------------------------------
(* The runner.                                                             *)
LEMMA TestStep == ASSUME IInv, Test PROVE IInv'
<1> USE StreamingAssumption DEF IInv, Inv, TypeOK, Finished
<1> USE DEF env, maps, writer, runner, closer, history, Test
<1>1. TypeOK'
  BY DEF RunnerStates
<1>2. WritesToOutputs'
  BY DEF WritesToOutputs
<1>3. WriterDropsDead'
  BY DEF WriterDropsDead
<1>4. SocketsFollowHosts'
  BY DEF SocketsFollowHosts
<1>5. OneHostAtATime'
  BY DEF OneHostAtATime
<1>6. Reconnects'
  BY DEF Reconnects, WritesToOutputs, WriterDropsDead
<1>7. CleanedUp'
  BY DEF CleanedUp
<1>8. ConnectedServed'
  BY DEF ConnectedServed, Reconnects
<1> QED BY <1>1, <1>2, <1>3, <1>4, <1>5, <1>6, <1>7, <1>8

LEMMA ScheduleOverStep == ASSUME IInv, ScheduleOver PROVE IInv'
<1> USE StreamingAssumption DEF IInv, Inv, TypeOK, Finished
<1> USE DEF env, maps, writer, runner, closer, history, ScheduleOver
<1>1. TypeOK'
  BY DEF RunnerStates
<1>2. WritesToOutputs'
  BY DEF WritesToOutputs
<1>3. WriterDropsDead'
  BY DEF WriterDropsDead
<1>4. SocketsFollowHosts'
  BY DEF SocketsFollowHosts, OneHostAtATime
<1>5. OneHostAtATime'
  BY DEF OneHostAtATime
<1>6. Reconnects'
  BY DEF Reconnects, WritesToOutputs, WriterDropsDead
<1>7. CleanedUp'
  BY DEF CleanedUp
<1>8. ConnectedServed'
  BY DEF ConnectedServed, Reconnects
<1> QED BY <1>1, <1>2, <1>3, <1>4, <1>5, <1>6, <1>7, <1>8

LEMMA UpdateAddsStep == ASSUME IInv, UpdateAdds PROVE IInv'
<1> USE StreamingAssumption DEF IInv, Inv, TypeOK, Finished
<1> USE DEF env, maps, writer, runner, closer, history, UpdateAdds, Replaces
<1>1. TypeOK'
  BY DEF RunnerStates
<1>2. WritesToOutputs'
  BY DEF WritesToOutputs
<1>3. WriterDropsDead'
  BY DEF WriterDropsDead
<1>4. SocketsFollowHosts'
  BY DEF SocketsFollowHosts, OneHostAtATime
<1>5. OneHostAtATime'
  BY DEF OneHostAtATime
<1>6. Reconnects'
  BY DEF Reconnects, WritesToOutputs, WriterDropsDead
<1>7. CleanedUp'
  BY DEF CleanedUp
<1>8. ConnectedServed'
  BY DEF ConnectedServed, Reconnects
<1> QED BY <1>1, <1>2, <1>3, <1>4, <1>5, <1>6, <1>7, <1>8

LEMMA UpdateRaisesStep == ASSUME IInv, UpdateRaises PROVE IInv'
<1> USE StreamingAssumption DEF IInv, Inv, TypeOK, Finished
<1> USE DEF env, maps, writer, runner, closer, history, UpdateRaises, Replaces
<1>1. TypeOK'
  BY DEF RunnerStates
<1>2. WritesToOutputs'
  BY DEF WritesToOutputs
<1>3. WriterDropsDead'
  BY DEF WriterDropsDead
<1>4. SocketsFollowHosts'
  BY DEF SocketsFollowHosts, OneHostAtATime
<1>5. OneHostAtATime'
  BY DEF OneHostAtATime
<1>6. Reconnects'
  BY DEF Reconnects, WritesToOutputs, WriterDropsDead
<1>7. CleanedUp'
  BY DEF CleanedUp
<1>8. ConnectedServed'
  BY DEF ConnectedServed, Reconnects
<1> QED BY <1>1, <1>2, <1>3, <1>4, <1>5, <1>6, <1>7, <1>8

LEMMA RemoveHostStep == ASSUME IInv, NEW h \in Hosts, RemoveHost(h) PROVE IInv'
<1> USE StreamingAssumption DEF IInv, Inv, TypeOK, Finished
<1> USE DEF env, maps, writer, runner, closer, history, RemoveHost, Close, IsConnected
<1>1. TypeOK'
  BY DEF RunnerStates
<1>2. WritesToOutputs'
  BY DEF WritesToOutputs
<1>3. WriterDropsDead'
  BY DEF WriterDropsDead
<1>4. SocketsFollowHosts'
  BY DEF SocketsFollowHosts, OneHostAtATime
<1>5. OneHostAtATime'
  BY DEF OneHostAtATime
<1>6. Reconnects'
  BY DEF Reconnects, WritesToOutputs, WriterDropsDead
<1>7. CleanedUp'
  BY DEF CleanedUp
<1>8. ConnectedServed'
  BY DEF ConnectedServed, Reconnects
<1> QED BY <1>1, <1>2, <1>3, <1>4, <1>5, <1>6, <1>7, <1>8

LEMMA RemovingHostStep == ASSUME IInv, RemovingHost PROVE IInv'
<1> USE StreamingAssumption DEF IInv, Inv, TypeOK, Finished
<1> USE DEF env, maps, writer, runner, closer, history, RemovingHost, Close, IsConnected
<1>1. TypeOK'
  <2>1. rcur \in Hosts
    BY DEF OneHostAtATime
  <2>2. \A s \in {up, link, file, bad, hosts, socketMap, connected, outputs, todo,
                  newHosts, toClose, former, formerLink, raced, late} : s' \subseteq Hosts
    BY <2>1
  <2>3. CASE rcur \in outputs
    <3>1. rpc' = "remove" /\ cut' = cut
      BY <2>3
    <3> QED BY <2>1, <2>2, <3>1 DEF RunnerStates
  <2>4. CASE rcur \notin outputs
    <3>1. rpc' = "test" /\ cut' = TRUE
      BY <2>4
    <3> QED BY <2>1, <2>2, <3>1 DEF RunnerStates
  <2> QED BY <2>3, <2>4
<1>2. WritesToOutputs'
  BY DEF WritesToOutputs
<1>3. WriterDropsDead'
  BY DEF WriterDropsDead
<1>4. SocketsFollowHosts'
  BY DEF SocketsFollowHosts, OneHostAtATime
<1>5. OneHostAtATime'
  BY DEF OneHostAtATime
<1>6. Reconnects'
  BY DEF Reconnects, WritesToOutputs, WriterDropsDead
<1>7. CleanedUp'
  BY DEF CleanedUp
<1>8. ConnectedServed'
  BY DEF ConnectedServed, Reconnects
<1> QED BY <1>1, <1>2, <1>3, <1>4, <1>5, <1>6, <1>7, <1>8

LEMMA UpdateEndsStep == ASSUME IInv, UpdateEnds PROVE IInv'
<1> USE StreamingAssumption DEF IInv, Inv, TypeOK, Finished
<1> USE DEF env, maps, writer, runner, closer, history, UpdateEnds
<1>1. TypeOK'
  BY DEF RunnerStates
<1>2. WritesToOutputs'
  BY DEF WritesToOutputs
<1>3. WriterDropsDead'
  BY DEF WriterDropsDead
<1>4. SocketsFollowHosts'
  BY DEF SocketsFollowHosts, OneHostAtATime
<1>5. OneHostAtATime'
  BY DEF OneHostAtATime
<1>6. Reconnects'
  BY DEF Reconnects, WritesToOutputs, WriterDropsDead
<1>7. CleanedUp'
  BY DEF CleanedUp
<1>8. ConnectedServed'
  BY DEF ConnectedServed, Reconnects
<1> QED BY <1>1, <1>2, <1>3, <1>4, <1>5, <1>6, <1>7, <1>8

LEMMA ScanStep == ASSUME IInv, NEW h \in Hosts, Scan(h) PROVE IInv'
<1> USE StreamingAssumption DEF IInv, Inv, TypeOK, Finished
<1> USE DEF env, maps, writer, runner, closer, history, Scan, IsConnected
<1>1. TypeOK'
  BY DEF RunnerStates
<1>2. WritesToOutputs'
  BY DEF WritesToOutputs
<1>3. WriterDropsDead'
  BY DEF WriterDropsDead
<1>4. SocketsFollowHosts'
  BY DEF SocketsFollowHosts
<1>5. OneHostAtATime'
  BY DEF OneHostAtATime
<1>6. Reconnects'
  BY DEF Reconnects, WritesToOutputs, WriterDropsDead
<1>7. CleanedUp'
  BY DEF CleanedUp
<1>8. ConnectedServed'
  BY DEF ConnectedServed, Reconnects
<1> QED BY <1>1, <1>2, <1>3, <1>4, <1>5, <1>6, <1>7, <1>8

LEMMA ConnectStep == ASSUME IInv, Connect PROVE IInv'
<1> USE StreamingAssumption DEF IInv, Inv, TypeOK, Finished
<1> USE DEF env, maps, writer, runner, closer, history, Connect
<1>1. TypeOK'
  BY DEF RunnerStates
<1>2. WritesToOutputs'
  BY DEF WritesToOutputs
<1>3. WriterDropsDead'
  BY DEF WriterDropsDead
<1>4. SocketsFollowHosts'
  BY DEF SocketsFollowHosts
<1>5. OneHostAtATime'
  BY DEF OneHostAtATime
<1>6. Reconnects'
  BY DEF Reconnects, WritesToOutputs, WriterDropsDead
<1>7. CleanedUp'
  BY DEF CleanedUp
<1>8. ConnectedServed'
  BY DEF ConnectedServed, Reconnects
<1> QED BY <1>1, <1>2, <1>3, <1>4, <1>5, <1>6, <1>7, <1>8

LEMMA ConnectFailsStep == ASSUME IInv, ConnectFails PROVE IInv'
<1> USE StreamingAssumption DEF IInv, Inv, TypeOK, Finished
<1> USE DEF env, maps, writer, runner, closer, history, ConnectFails
<1>1. TypeOK'
  <2>1. changes' \in 0 .. MaxChanges
    BY ChangesBounded
  <2>2. /\ rpc' = "failed"
        /\ UNCHANGED <<up, link, file, bad, maps, connected, outputs, writer, rcur, todo, newHosts, closer, history>>
    OBVIOUS
  <2> HIDE DEF ConnectFails
  <2> QED BY <2>1, <2>2 DEF RunnerStates
<1>2. WritesToOutputs'
  BY DEF WritesToOutputs
<1>3. WriterDropsDead'
  BY DEF WriterDropsDead
<1>4. SocketsFollowHosts'
  BY DEF SocketsFollowHosts
<1>5. OneHostAtATime'
  BY DEF OneHostAtATime
<1>6. Reconnects'
  BY DEF Reconnects, WritesToOutputs, WriterDropsDead
<1>7. CleanedUp'
  BY DEF CleanedUp
<1>8. ConnectedServed'
  BY DEF ConnectedServed, Reconnects
<1> QED BY <1>1, <1>2, <1>3, <1>4, <1>5, <1>6, <1>7, <1>8

LEMMA JoinedStep == ASSUME IInv, Joined PROVE IInv'
<1> USE StreamingAssumption DEF IInv, Inv, TypeOK, Finished
<1> USE DEF env, maps, writer, runner, closer, history, Joined
<1>1. TypeOK'
  BY DEF RunnerStates
<1>2. WritesToOutputs'
  BY DEF WritesToOutputs
<1>3. WriterDropsDead'
  BY DEF WriterDropsDead
<1>4. SocketsFollowHosts'
  BY DEF SocketsFollowHosts
<1>5. OneHostAtATime'
  BY DEF OneHostAtATime
<1>6. Reconnects'
  BY DEF Reconnects, WritesToOutputs, WriterDropsDead
<1>7. CleanedUp'
  BY DEF CleanedUp
<1>8. ConnectedServed'
  BY DEF ConnectedServed, Reconnects
<1> QED BY <1>1, <1>2, <1>3, <1>4, <1>5, <1>6, <1>7, <1>8

LEMMA AddingStep == ASSUME IInv, Adding PROVE IInv'
<1> USE StreamingAssumption DEF IInv, Inv, TypeOK, Finished
<1> USE DEF env, maps, writer, runner, closer, history, Adding
<1>1. TypeOK'
  BY DEF RunnerStates, OneHostAtATime
<1>2. WritesToOutputs'
  BY DEF WritesToOutputs, OneHostAtATime, Reconnects
<1>3. WriterDropsDead'
  BY DEF WriterDropsDead, Reconnects
<1>4. SocketsFollowHosts'
  BY DEF SocketsFollowHosts
<1>5. OneHostAtATime'
  BY DEF OneHostAtATime
<1>6. Reconnects'
  BY DEF Reconnects, WritesToOutputs, WriterDropsDead
<1>7. CleanedUp'
  BY DEF CleanedUp
<1>8. ConnectedServed'
  BY DEF ConnectedServed, Reconnects
<1> QED BY <1>1, <1>2, <1>3, <1>4, <1>5, <1>6, <1>7, <1>8

LEMMA FailedStep == ASSUME IInv, Failed PROVE IInv'
<1> USE StreamingAssumption DEF IInv, Inv, TypeOK, Finished
<1> USE DEF env, maps, writer, runner, closer, history, Failed
<1>1. TypeOK'
  BY DEF RunnerStates
<1>2. WritesToOutputs'
  BY DEF WritesToOutputs
<1>3. WriterDropsDead'
  BY DEF WriterDropsDead
<1>4. SocketsFollowHosts'
  BY DEF SocketsFollowHosts
<1>5. OneHostAtATime'
  BY DEF OneHostAtATime
<1>6. Reconnects'
  BY DEF Reconnects, WritesToOutputs, WriterDropsDead
<1>7. CleanedUp'
  BY DEF CleanedUp
<1>8. ConnectedServed'
  BY DEF ConnectedServed, Reconnects
<1> QED BY <1>1, <1>2, <1>3, <1>4, <1>5, <1>6, <1>7, <1>8

LEMMA DroppingStep == ASSUME IInv, Dropping PROVE IInv'
<1> USE StreamingAssumption DEF IInv, Inv, TypeOK, Finished
<1> USE DEF env, maps, writer, runner, closer, history, Dropping
<1>1. TypeOK'
  BY DEF RunnerStates
<1>2. WritesToOutputs'
  BY DEF WritesToOutputs
<1>3. WriterDropsDead'
  BY DEF WriterDropsDead
<1>4. SocketsFollowHosts'
  BY DEF SocketsFollowHosts
<1>5. OneHostAtATime'
  BY DEF OneHostAtATime
<1>6. Reconnects'
  BY DEF Reconnects, WritesToOutputs, WriterDropsDead
<1>7. CleanedUp'
  BY DEF CleanedUp
<1>8. ConnectedServed'
  BY DEF ConnectedServed, Reconnects
<1> QED BY <1>1, <1>2, <1>3, <1>4, <1>5, <1>6, <1>7, <1>8

LEMMA ScanEndsStep == ASSUME IInv, ScanEnds PROVE IInv'
<1> USE StreamingAssumption DEF IInv, Inv, TypeOK, Finished
<1> USE DEF env, maps, writer, runner, closer, history, ScanEnds
<1>1. TypeOK'
  BY DEF RunnerStates
<1>2. WritesToOutputs'
  BY DEF WritesToOutputs
<1>3. WriterDropsDead'
  BY DEF WriterDropsDead
<1>4. SocketsFollowHosts'
  BY DEF SocketsFollowHosts
<1>5. OneHostAtATime'
  BY DEF OneHostAtATime
<1>6. Reconnects'
  BY DEF Reconnects, WritesToOutputs, WriterDropsDead
<1>7. CleanedUp'
  BY DEF CleanedUp
<1>8. ConnectedServed'
  BY DEF ConnectedServed, Reconnects
<1> QED BY <1>1, <1>2, <1>3, <1>4, <1>5, <1>6, <1>7, <1>8

-----------------------------------------------------------------------------
(* The stream's writer.                                                    *)
LEMMA RoundBeginStep == ASSUME IInv, RoundBegin PROVE IInv'
<1> USE StreamingAssumption DEF IInv, Inv, TypeOK, Finished
<1> USE DEF env, maps, writer, runner, closer, history, RoundBegin
<1>1. TypeOK'
  BY DEF RunnerStates
<1>2. WritesToOutputs'
  BY DEF WritesToOutputs
<1>3. WriterDropsDead'
  BY DEF WriterDropsDead, WritesToOutputs
<1>4. SocketsFollowHosts'
  BY DEF SocketsFollowHosts
<1>5. OneHostAtATime'
  BY DEF OneHostAtATime
<1>6. Reconnects'
  BY DEF Reconnects, WritesToOutputs, WriterDropsDead
<1>7. CleanedUp'
  BY DEF CleanedUp
<1>8. ConnectedServed'
  BY DEF ConnectedServed, Reconnects
<1> QED BY <1>1, <1>2, <1>3, <1>4, <1>5, <1>6, <1>7, <1>8

LEMMA WriteStep == ASSUME IInv, NEW h \in Hosts, Write(h) PROVE IInv'
<1> USE StreamingAssumption DEF IInv, Inv, TypeOK, Finished
<1> USE DEF env, maps, writer, runner, closer, history, Write
<1>1. TypeOK'
  BY DEF RunnerStates
<1>2. WritesToOutputs'
  BY DEF WritesToOutputs
<1>3. WriterDropsDead'
  BY DEF WriterDropsDead
<1>4. SocketsFollowHosts'
  BY DEF SocketsFollowHosts
<1>5. OneHostAtATime'
  BY DEF OneHostAtATime
<1>6. Reconnects'
  BY DEF Reconnects, WritesToOutputs, WriterDropsDead
<1>7. CleanedUp'
  BY DEF CleanedUp
<1>8. ConnectedServed'
  BY DEF ConnectedServed, Reconnects
<1> QED BY <1>1, <1>2, <1>3, <1>4, <1>5, <1>6, <1>7, <1>8

LEMMA CollectStep == ASSUME IInv, NEW h \in Hosts, Collect(h) PROVE IInv'
<1> USE StreamingAssumption DEF IInv, Inv, TypeOK, Finished
<1> USE DEF env, maps, writer, runner, closer, history, Collect
<1>1. TypeOK'
  BY DEF RunnerStates
<1>2. WritesToOutputs'
  BY DEF WritesToOutputs
<1>3. WriterDropsDead'
  BY DEF WriterDropsDead
<1>4. SocketsFollowHosts'
  BY DEF SocketsFollowHosts
<1>5. OneHostAtATime'
  BY DEF OneHostAtATime
<1>6. Reconnects'
  BY DEF Reconnects, WritesToOutputs, WriterDropsDead
<1>7. CleanedUp'
  BY DEF CleanedUp
<1>8. ConnectedServed'
  BY DEF ConnectedServed, Reconnects
<1> QED BY <1>1, <1>2, <1>3, <1>4, <1>5, <1>6, <1>7, <1>8

LEMMA RoundEndStep == ASSUME IInv, RoundEnd PROVE IInv'
<1> USE StreamingAssumption DEF IInv, Inv, TypeOK, Finished
<1> USE DEF env, maps, writer, runner, closer, history, RoundEnd
<1>1. TypeOK'
  BY DEF RunnerStates
<1>2. WritesToOutputs'
  BY DEF WritesToOutputs
<1>3. WriterDropsDead'
  BY DEF WriterDropsDead
<1>4. SocketsFollowHosts'
  BY DEF SocketsFollowHosts
<1>5. OneHostAtATime'
  BY DEF OneHostAtATime
<1>6. Reconnects'
  BY DEF Reconnects, WritesToOutputs, WriterDropsDead
<1>7. CleanedUp'
  BY DEF CleanedUp
<1>8. ConnectedServed'
  BY DEF ConnectedServed, Reconnects
<1> QED BY <1>1, <1>2, <1>3, <1>4, <1>5, <1>6, <1>7, <1>8

-----------------------------------------------------------------------------
(* shutdown().                                                             *)
LEMMA ShutdownBeginsStep == ASSUME IInv, ShutdownBegins PROVE IInv'
<1> USE StreamingAssumption DEF IInv, Inv, TypeOK, Finished
<1> USE DEF env, maps, writer, runner, closer, history, ShutdownBegins
<1>1. TypeOK'
  <2>1. Cardinality(socketMap) \in Nat
    BY FS_Subset, FS_CardinalityType
  <2> QED BY <2>1 DEF RunnerStates
<1>2. WritesToOutputs'
  BY DEF WritesToOutputs
<1>3. WriterDropsDead'
  BY DEF WriterDropsDead
<1>4. SocketsFollowHosts'
  BY DEF SocketsFollowHosts
<1>5. OneHostAtATime'
  BY DEF OneHostAtATime
<1>6. Reconnects'
  BY DEF Reconnects, WritesToOutputs, WriterDropsDead
<1>7. CleanedUp'
  BY DEF CleanedUp, WritesToOutputs
<1>8. ConnectedServed'
  BY DEF ConnectedServed, Reconnects
<1> QED BY <1>1, <1>2, <1>3, <1>4, <1>5, <1>6, <1>7, <1>8

LEMMA CleanupHostStep == ASSUME IInv, NEW h \in Hosts, CleanupHost(h) PROVE IInv'
<1> USE StreamingAssumption DEF IInv, Inv, TypeOK, Finished
<1> USE DEF env, maps, writer, runner, closer, history, CleanupHost, Close, IsConnected
<1>1. TypeOK'
  BY DEF RunnerStates
<1>2. WritesToOutputs'
  BY DEF WritesToOutputs
<1>3. WriterDropsDead'
  BY DEF WriterDropsDead
<1>4. SocketsFollowHosts'
  BY DEF SocketsFollowHosts
<1>5. OneHostAtATime'
  BY DEF OneHostAtATime
<1>6. Reconnects'
  BY DEF Reconnects, WritesToOutputs, WriterDropsDead
<1>7. CleanedUp'
  BY DEF CleanedUp
<1>8. ConnectedServed'
  BY DEF ConnectedServed, Reconnects
<1> QED BY <1>1, <1>2, <1>3, <1>4, <1>5, <1>6, <1>7, <1>8

LEMMA CleanupRemovesStep == ASSUME IInv, CleanupRemoves PROVE IInv'
<1> USE StreamingAssumption DEF IInv, Inv, TypeOK, Finished
<1> USE DEF env, maps, writer, runner, closer, history, CleanupRemoves, Close, IsConnected
<1>1. TypeOK'
  BY DEF RunnerStates
<1>2. WritesToOutputs'
  BY DEF WritesToOutputs
<1>3. WriterDropsDead'
  BY DEF WriterDropsDead
<1>4. SocketsFollowHosts'
  BY DEF SocketsFollowHosts
<1>5. OneHostAtATime'
  BY DEF OneHostAtATime
<1>6. Reconnects'
  BY DEF Reconnects, WritesToOutputs, WriterDropsDead
<1>7. CleanedUp'
  BY DEF CleanedUp
<1>8. ConnectedServed'
  BY DEF ConnectedServed, Reconnects
<1> QED BY <1>1, <1>2, <1>3, <1>4, <1>5, <1>6, <1>7, <1>8

LEMMA CleanupRaisesStep == ASSUME IInv, CleanupRaises PROVE IInv'
<1> USE StreamingAssumption DEF IInv, Inv, TypeOK, Finished
<1> USE DEF env, maps, writer, runner, closer, history, CleanupRaises
<1>1. TypeOK'
  BY DEF RunnerStates
<1>2. WritesToOutputs'
  BY DEF WritesToOutputs
<1>3. WriterDropsDead'
  BY DEF WriterDropsDead
<1>4. SocketsFollowHosts'
  BY DEF SocketsFollowHosts
<1>5. OneHostAtATime'
  BY DEF OneHostAtATime
<1>6. Reconnects'
  BY DEF Reconnects, WritesToOutputs, WriterDropsDead
<1>7. CleanedUp'
  BY DEF CleanedUp
<1>8. ConnectedServed'
  BY DEF ConnectedServed, Reconnects
<1> QED BY <1>1, <1>2, <1>3, <1>4, <1>5, <1>6, <1>7, <1>8

LEMMA CleanupEndsStep == ASSUME IInv, CleanupEnds PROVE IInv'
<1> USE StreamingAssumption DEF IInv, Inv, TypeOK, Finished
<1> USE DEF env, maps, writer, runner, closer, history, CleanupEnds
<1>1. TypeOK'
  BY DEF RunnerStates
<1>2. WritesToOutputs'
  BY DEF WritesToOutputs
<1>3. WriterDropsDead'
  BY DEF WriterDropsDead
<1>4. SocketsFollowHosts'
  BY DEF SocketsFollowHosts
<1>5. OneHostAtATime'
  BY DEF OneHostAtATime
<1>6. Reconnects'
  BY DEF Reconnects, WritesToOutputs, WriterDropsDead
<1>7. CleanedUp'
  BY DEF CleanedUp
<1>8. ConnectedServed'
  BY DEF ConnectedServed, Reconnects
<1> QED BY <1>1, <1>2, <1>3, <1>4, <1>5, <1>6, <1>7, <1>8

LEMMA ShutdownEndsStep == ASSUME IInv, ShutdownEnds PROVE IInv'
<1> USE StreamingAssumption DEF IInv, Inv, TypeOK, Finished
<1> USE DEF env, maps, writer, runner, closer, history, ShutdownEnds
<1>1. TypeOK'
  BY DEF RunnerStates
<1>2. WritesToOutputs'
  BY DEF WritesToOutputs
<1>3. WriterDropsDead'
  BY DEF WriterDropsDead
<1>4. SocketsFollowHosts'
  BY DEF SocketsFollowHosts
<1>5. OneHostAtATime'
  BY DEF OneHostAtATime
<1>6. Reconnects'
  BY DEF Reconnects, WritesToOutputs, WriterDropsDead
<1>7. CleanedUp'
  BY DEF CleanedUp
<1>8. ConnectedServed'
  BY DEF ConnectedServed, Reconnects
<1> QED BY <1>1, <1>2, <1>3, <1>4, <1>5, <1>6, <1>7, <1>8

-----------------------------------------------------------------------------
LEMMA StepInvariant == IInv /\ [Next]_vars => IInv'
<1> SUFFICES ASSUME IInv, [Next]_vars PROVE IInv'
  OBVIOUS
<1>1. CASE UNCHANGED vars
  <2> USE <1>1 DEF vars, env, maps, writer, runner, closer, history, IInv, Inv, Finished
  <2>1. TypeOK'
    BY DEF TypeOK
  <2>2. WritesToOutputs' /\ WriterDropsDead' /\ SocketsFollowHosts'
    BY DEF WritesToOutputs, WriterDropsDead, SocketsFollowHosts
  <2>3. OneHostAtATime' /\ Reconnects' /\ CleanedUp' /\ ConnectedServed'
    BY DEF OneHostAtATime, Reconnects, CleanedUp, ConnectedServed
  <2> QED BY <2>1, <2>2, <2>3
<1>2. CASE Runner
  BY <1>2, TestStep, UpdateAddsStep, UpdateRaisesStep, RemoveHostStep, RemovingHostStep, UpdateEndsStep,
     ScanStep, ConnectStep, ConnectFailsStep, JoinedStep, AddingStep, FailedStep, DroppingStep, ScanEndsStep DEF Runner
<1>3. CASE Writer
  BY <1>3, RoundBeginStep, WriteStep, CollectStep, RoundEndStep DEF Writer
<1>4. CASE Shutdown
  BY <1>4, ShutdownBeginsStep, CleanupHostStep, CleanupRemovesStep,
     CleanupRaisesStep, CleanupEndsStep, ShutdownEndsStep DEF Shutdown
<1> QED BY <1>1, <1>2, <1>3, <1>4, ChangesStep, ScheduleOverStep DEF Next

LEMMA Invariant == Spec => []IInv
BY InitInvariant, StepInvariant, PTL DEF Spec

(* What is written is an output, a dead one is about to be dropped by the  *)
(* writer, and the hosts with a socket are those of the file unless an     *)
(* update was cut short (network_streaming.py:45-59, 83-106,               *)
(* output_holder.py:79-93).                                                *)
THEOREM SocketsHold == Spec => []Inv
<1>1. IInv => Inv
  BY DEF IInv
<1> QED BY Invariant, <1>1, PTL

(* A host the mode is connected to gets the stream, is about to, or was    *)
(* reconnected while has_output() still found an earlier output            *)
(* (network_streaming.py:90-94).                                           *)
THEOREM ConnectedAreServed == Spec => []ConnectedServed
<1>1. IInv => ConnectedServed
  BY DEF IInv
<1> QED BY Invariant, <1>1, PTL

(* After a complete shutdown the stream goes on only for a host that the   *)
(* runner added after the clean-up (network_streaming.py:94, 101-106).     *)
THEOREM ShutdownIsComplete == Spec => []NothingLeft
<1>1. IInv => NothingLeft
  BY DEF IInv, Inv, CleanedUp, NothingLeft
<1> QED BY Invariant, <1>1, PTL
=============================================================================
