---------------------- MODULE WriterOutputHolderProofs ----------------------
(***************************************************************************)
(* Proofs about WriterOutputHolder for any number of outputs, buffers,     *)
(* additions and rebinds: no gap in what an output is written, nothing     *)
(* written to an output that has been removed, no rebind lost.             *)
(***************************************************************************)
EXTENDS WriterOutputHolder, FiniteSetTheorems, SequenceTheorems, TLAPS

Buffers == 1 .. MaxFrames \cup {Split}

(* A part of a sequence that gets longer behind it.                        *)
LEMMA PartOfAppend ==
  ASSUME NEW S, NEW s \in Seq(S), NEW x \in S, NEW m \in Nat \ {0}, NEW n \in 0 .. Len(s)
  PROVE  SubSeq(Append(s, x), m, n) = SubSeq(s, m, n)
<1>1. /\ Append(s, x) \in Seq(S) /\ Len(s) \in Nat /\ Len(Append(s, x)) = Len(s) + 1
      /\ \A i \in 1 .. Len(s) : Append(s, x)[i] = s[i] /\ s[i] \in S
  OBVIOUS
<1>2. \A i \in m .. n : i \in 1 .. Len(s) /\ s[i] \in S /\ Append(s, x)[i] = s[i]
  BY <1>1
<1>3. /\ SubSeq(s, m, n) \in Seq(S) /\ Len(SubSeq(s, m, n)) = IF m <= n THEN n - m + 1 ELSE 0
      /\ \A i \in 1 .. n - m + 1 : SubSeq(s, m, n)[i] = s[m + i - 1]
  BY <1>2, SubSeqProperties
<1>4. /\ SubSeq(Append(s, x), m, n) \in Seq(S)
      /\ Len(SubSeq(Append(s, x), m, n)) = IF m <= n THEN n - m + 1 ELSE 0
      /\ \A i \in 1 .. n - m + 1 : SubSeq(Append(s, x), m, n)[i] = Append(s, x)[m + i - 1]
  BY <1>2, SubSeqProperties
<1>5. \A i \in 1 .. n - m + 1 : m + i - 1 \in m .. n
  OBVIOUS
<1> QED BY <1>1, <1>2, <1>3, <1>4, <1>5, SeqEqual

(* A part that reaches the end, and the one without the last element.      *)
LEMMA PartUpToLast ==
  ASSUME NEW S, NEW s \in Seq(S), NEW m \in 1 .. Len(s)
  PROVE  SubSeq(s, m, Len(s)) = Append(SubSeq(s, m, Len(s) - 1), s[Len(s)])
<1> DEFINE n == Len(s)
<1>1. n \in Nat \ {0} /\ s[n] \in S /\ SubSeq(s, m, n - 1) \in Seq(S)
  BY SubSeqProperties
<1>2. SubSeq(s, m, n) = SubSeq(s, m, n - 1) \o <<s[n]>>
  BY SubSeqRecursiveSecond
<1> QED BY <1>1, <1>2, AppendIsConcat

(* The induction hypothesis.                                               *)
IInv == Inv /\ NoGaps /\ NoLostRebind

LEMMA InitInvariant == Init => IInv
<1> SUFFICES ASSUME Init PROVE IInv
  OBVIOUS
<1> USE HolderAssumption DEF Init
<1>1. Registered = {} /\ Prepared = {}
  BY DEF Registered, Prepared
<1>2. Cardinality(Ids) \in Nat
  BY FS_CardinalityType
<1>3. TypeOK
  <2>1. \A i \in Ids : \A f \in {outputs, toAdd} : f[i] # None => IdOf[f[i]] = i
    OBVIOUS
  <2>2. buffer \in Seq(1 .. MaxFrames \cup {Split}) /\ taken \in Seq(1 .. MaxFrames \cup {Split})
    OBVIOUS
  <2>3. got \in [Outputs -> Seq(1 .. MaxFrames \cup {Split})] /\ joined \in [Outputs -> Nat]
    OBVIOUS
  <2>4. futures \in [Outputs -> FutureStates] /\ visit \subseteq Ids /\ size \in 0 .. Cardinality(Ids)
    BY <1>2 DEF FutureStates
  <2>5. sent \in 0 .. MaxFrames /\ rebinds \in 0 .. MaxRebinds /\ adds \in 0 .. MaxAdds
    OBVIOUS
  <2>6. outputs \in [Ids -> Outputs \cup {None}] /\ toAdd \in [Ids -> Outputs \cup {None}]
    OBVIOUS
  <2>7. wpc = "unstarted" /\ rpc = "idle" /\ wanted = None /\ current = None
        /\ writable \in BOOLEAN /\ rebound \in BOOLEAN /\ stopped \in BOOLEAN
        /\ fate \in [Ids -> Fates]
    BY DEF Fates
  <2> HIDE DEF Init
  <2> QED BY <2>1, <2>2, <2>3, <2>4, <2>5, <2>6, <2>7 DEF TypeOK
<1>4. NoWriteAfterRemove /\ RoundsInOrder /\ StaysPrepared
  BY <1>1 DEF NoWriteAfterRemove, RoundsInOrder, StaysPrepared
<1>5. NoGaps /\ NoLostRebind
  BY <1>1 DEF NoGaps, NoLostRebind
<1> QED BY <1>3, <1>4, <1>5 DEF IInv, Inv

-----------------------------------------------------------------------------
(* Between two rounds nothing is in flight.                                *)
LEMMA NothingInFlight ==
  ASSUME IInv, wpc # "collect"
  PROVE  \A o \in Outputs : futures[o] = "none" /\ Missing(o) = 0
BY DEF IInv, Inv, RoundsInOrder, Missing

(* An output that joins between two rounds starts with an empty history,   *)
(* and the one it takes the id of leaves.                                  *)
LEMMA Joining ==
  ASSUME IInv, NEW o \in Outputs, Joins(o), wpc # "collect", UNCHANGED futures
  PROVE  /\ outputs' \in [Ids -> Outputs \cup {None}]
         /\ \A i \in Ids : outputs'[i] # None => IdOf[outputs'[i]] = i
         /\ got' \in [Outputs -> Seq(Buffers)] /\ joined' \in [Outputs -> Nat] /\ taken' = taken
         /\ NoGaps' /\ \A p \in Registered' : joined'[p] + Missing(p)' <= Len(taken)
<1> USE HolderAssumption DEF IInv, Inv, TypeOK, Buffers
<1>1. \A p \in Outputs : futures[p] = "none" /\ Missing(p) = 0 /\ Missing(p)' = 0
  BY NothingInFlight DEF Missing
<1>2. Len(taken) \in Nat
  OBVIOUS
<1>3. /\ outputs' = [outputs EXCEPT ![IdOf[o]] = o] /\ taken' = taken
      /\ got' = [p \in Outputs |-> IF IdOf[p] = IdOf[o] THEN <<>> ELSE got[p]]
      /\ joined' = [p \in Outputs |-> IF p = o THEN Len(taken)
                                      ELSE IF IdOf[p] = IdOf[o] THEN 0 ELSE joined[p]]
  BY DEF Joins
<1>4. got' \in [Outputs -> Seq(Buffers)] /\ joined' \in [Outputs -> Nat]
  <2>1. <<>> \in Seq(Buffers)
    OBVIOUS
  <2> QED BY <1>2, <1>3, <2>1
<1>5. outputs' \in [Ids -> Outputs \cup {None}] /\ \A i \in Ids : outputs'[i] # None => IdOf[outputs'[i]] = i
  BY <1>3
<1>6. ASSUME NEW p \in Registered', p # o
      PROVE  p \in Registered /\ got'[p] = got[p] /\ joined'[p] = joined[p]
  BY <1>3, <1>6 DEF Registered
<1>7. got'[o] = <<>> /\ joined'[o] = Len(taken)
  BY <1>3
<1>8. SubSeq(taken, Len(taken) + 1, Len(taken)) = <<>>
  BY <1>2, SubSeqEmpty
<1>9. NoGaps'
  <2>1. ASSUME NEW p \in Registered'
        PROVE  got'[p] = SubSeq(taken, joined'[p] + 1, Len(taken))
    <3>1. p \in Outputs
      BY DEF Registered
    <3>2. CASE p = o
      BY <1>2, <1>7, <1>8, <3>2
    <3>3. CASE p # o
      <4>1. got[p] = SubSeq(taken, joined[p] + 1, Len(taken) - Missing(p))
        BY <1>6, <3>3 DEF NoGaps
      <4>2. Missing(p) = 0 /\ got'[p] = got[p] /\ joined'[p] = joined[p]
        BY <1>1, <1>6, <3>1, <3>3
      <4> HIDE DEF IInv, Inv, TypeOK, Buffers
      <4>3. Len(taken) - Missing(p) = Len(taken)
        BY <1>2, <4>2
      <4> QED BY <4>1, <4>2, <4>3
    <3> QED BY <3>2, <3>3
  <2>2. \A p \in Registered' : Missing(p)' = 0
    BY <1>1 DEF Registered
  <2> HIDE DEF IInv, Inv, TypeOK, Buffers
  <2>3. taken' = taken
    BY <1>3
  <2> QED BY <1>2, <2>1, <2>2, <2>3 DEF NoGaps
<1>10. \A p \in Registered' : joined'[p] + Missing(p)' <= Len(taken)
  <2> TAKE p \in Registered'
  <2>1. p \in Outputs /\ Missing(p)' = 0 /\ Missing(p) = 0
    BY <1>1 DEF Registered
  <2>2. CASE p = o
    BY <1>2, <1>7, <2>1, <2>2
  <2>3. CASE p # o
    <3>1. joined[p] + Missing(p) <= Len(taken)
      BY <1>6, <2>3 DEF RoundsInOrder
    <3> QED BY <1>6, <2>1, <2>3, <3>1
  <2> QED BY <2>2, <2>3
<1> QED BY <1>3, <1>4, <1>5, <1>9, <1>10

(* An output that leaves takes nothing of the others' with it.             *)
LEMMA Leaving ==
  ASSUME IInv, NEW i \in Ids, Leaves(i), \A p \in Outputs : IdOf[p] # i => futures'[p] = futures[p]
  PROVE  /\ outputs' \in [Ids -> Outputs \cup {None}]
         /\ \A j \in Ids : outputs'[j] # None => IdOf[outputs'[j]] = j
         /\ got' \in [Outputs -> Seq(Buffers)] /\ joined' \in [Outputs -> Nat] /\ taken' = taken
         /\ Registered' = {p \in Registered : IdOf[p] # i}
         /\ NoGaps' /\ \A p \in Registered' : joined'[p] + Missing(p)' <= Len(taken)
<1> USE HolderAssumption DEF IInv, Inv, TypeOK, Buffers
<1>1. /\ outputs' = [outputs EXCEPT ![i] = None] /\ taken' = taken
      /\ got' = [p \in Outputs |-> IF IdOf[p] = i THEN <<>> ELSE got[p]]
      /\ joined' = [p \in Outputs |-> IF IdOf[p] = i THEN 0 ELSE joined[p]]
  BY DEF Leaves
<1>2. got' \in [Outputs -> Seq(Buffers)] /\ joined' \in [Outputs -> Nat]
  <2>1. <<>> \in Seq(Buffers)
    OBVIOUS
  <2> QED BY <1>1, <2>1
<1>3. outputs' \in [Ids -> Outputs \cup {None}] /\ \A j \in Ids : outputs'[j] # None => IdOf[outputs'[j]] = j
  BY <1>1
<1>4. Registered' = {p \in Registered : IdOf[p] # i}
  BY <1>1 DEF Registered
<1>5. \A p \in Registered' : /\ p \in Registered /\ Missing(p)' = Missing(p)
                             /\ got'[p] = got[p] /\ joined'[p] = joined[p]
  BY <1>1, <1>4 DEF Registered, Missing
<1>6. NoGaps'
  BY <1>1, <1>5 DEF NoGaps
<1>7. \A p \in Registered' : joined'[p] + Missing(p)' <= Len(taken)
  BY <1>5 DEF RoundsInOrder
<1> QED BY <1>1, <1>2, <1>3, <1>4, <1>6, <1>7

-----------------------------------------------------------------------------
(* The camera, and whoever stops the writer.                               *)
LEMMA WriteStep == ASSUME IInv, Write PROVE IInv'
<1> USE HolderAssumption DEF IInv, Inv, TypeOK, Buffers
<1> USE DEF round, rebind, history
<1>1. TypeOK'
  <2>1. buffer' \in Seq(1 .. MaxFrames \cup {Split}) /\ sent' \in 0 .. MaxFrames
    <3>1. sent + 1 \in 1 .. MaxFrames /\ sent' = sent + 1 /\ buffer' \in {buffer, Append(buffer, sent + 1)}
      BY DEF Write
    <3>2. Append(buffer, sent + 1) \in Seq(1 .. MaxFrames \cup {Split})
      BY <3>1
    <3>3. buffer \in Seq(1 .. MaxFrames \cup {Split})
      OBVIOUS
    <3> HIDE DEF IInv, Inv, TypeOK
    <3> QED BY <3>1, <3>2, <3>3
  <2>2. UNCHANGED <<round, writable, outputs, rebind, adds, history, stopped>>
    BY DEF Write
  <2> QED BY <2>1, <2>2
<1>2. NoWriteAfterRemove'
  BY DEF Write, NoWriteAfterRemove, Registered
<1>3. RoundsInOrder'
  BY DEF Write, RoundsInOrder, Registered, Prepared, Missing
<1>4. StaysPrepared'
  BY DEF Write, StaysPrepared
<1>5. NoGaps'
  BY DEF Write, NoGaps, Registered, Missing
<1>6. NoLostRebind'
  <2>1. sent + 1 \in Buffers
    BY DEF Write
  <2>2. \A n \in 1 .. Len(buffer) : n \in 1 .. Len(buffer') /\ buffer'[n] = buffer[n]
    BY <2>1 DEF Write
  <2> QED BY <2>2 DEF Write, NoLostRebind, MarkerComing
<1> QED BY <1>1, <1>2, <1>3, <1>4, <1>5, <1>6

LEMMA StopStep == ASSUME IInv, Stop PROVE IInv'
<1> USE HolderAssumption DEF IInv, Inv, TypeOK, Buffers
<1> USE DEF round, rebind, history
<1>1. TypeOK'
  BY DEF Stop
<1>2. NoWriteAfterRemove'
  BY DEF Stop, NoWriteAfterRemove, Registered
<1>3. RoundsInOrder'
  BY DEF Stop, RoundsInOrder, Registered, Prepared, Missing
<1>4. StaysPrepared'
  BY DEF Stop, StaysPrepared
<1>5. NoGaps'
  BY DEF Stop, NoGaps, Registered, Missing
<1>6. NoLostRebind'
  BY DEF Stop, NoLostRebind, MarkerComing
<1> QED BY <1>1, <1>2, <1>3, <1>4, <1>5, <1>6

-----------------------------------------------------------------------------
(* The writer.                                                             *)
LEMMA LoopStep == ASSUME IInv, Start \/ Run \/ Exit PROVE IInv'
<1> USE HolderAssumption DEF IInv, Inv, TypeOK, Buffers
<1> USE DEF round, rebind, history
<1>1. TypeOK'
  BY DEF Start, Run, Exit
<1>2. NoWriteAfterRemove'
  BY DEF Start, Run, Exit, NoWriteAfterRemove, Registered
<1>3. RoundsInOrder'
  BY DEF Start, Run, Exit, RoundsInOrder, Registered, Prepared, Missing
<1>4. StaysPrepared'
  BY DEF Start, Run, Exit, StaysPrepared
<1>5. NoGaps'
  BY DEF Start, Run, Exit, NoGaps, Registered, Missing
<1>6. NoLostRebind'
  BY DEF Start, Run, Exit, NoLostRebind, MarkerComing
<1> QED BY <1>1, <1>2, <1>3, <1>4, <1>5, <1>6

LEMMA PopStep == ASSUME IInv, Pop PROVE IInv'
<1> USE HolderAssumption DEF IInv, Inv, TypeOK, Buffers
<1> USE DEF round, rebind, history
<1>1. TypeOK'
  BY DEF Pop
<1>2. NoWriteAfterRemove'
  BY DEF Pop, NoWriteAfterRemove, Registered
<1>3. RoundsInOrder'
  BY DEF Pop, RoundsInOrder, Registered, Prepared, Missing
<1>4. StaysPrepared'
  BY DEF Pop, StaysPrepared
<1>5. NoGaps'
  BY DEF Pop, NoGaps, Registered, Missing
<1>6. NoLostRebind'
  <2>1. ASSUME NEW n \in 1 .. Len(buffer), buffer[n] = Split
        PROVE  current' = Split \/ \E m \in 1 .. Len(buffer') : buffer'[m] = Split
    <3>1. CASE n = 1
      BY <2>1, <3>1 DEF Pop
    <3>2. CASE n > 1
      <4>1. n - 1 \in 1 .. Len(buffer') /\ buffer'[n - 1] = Split
        BY <2>1, <3>2 DEF Pop
      <4> QED BY <4>1
    <3> QED BY <3>1, <3>2
  <2>2. current # Split /\ wpc = "loop"
    BY DEF Pop, RoundsInOrder
  <2> QED BY <2>1, <2>2 DEF Pop, NoLostRebind, MarkerComing
<1> QED BY <1>1, <1>2, <1>3, <1>4, <1>5, <1>6

LEMMA SubmitStep == ASSUME IInv, Submit PROVE IInv'
<1> USE HolderAssumption DEF IInv, Inv, TypeOK, Buffers
<1>1. /\ current \in Buffers /\ taken' = Append(taken, current) /\ taken' \in Seq(Buffers)
      /\ Len(taken) \in Nat /\ Len(taken') = Len(taken) + 1 /\ taken'[Len(taken')] = current
  BY DEF Submit, RoundsInOrder
<1>2. /\ futures' = [o \in Outputs |-> IF o \in Registered THEN "pending" ELSE "none"]
      /\ wpc = "popped" /\ wpc' = "collect" /\ futures' \in [Outputs -> FutureStates]
      /\ UNCHANGED <<writable, buffer, outputs, current, visit, size, rebind, sent, adds, got, joined, stopped>>
  BY DEF Submit, FutureStates
<1>3. Registered' = Registered /\ Registered \subseteq Outputs
  BY <1>2 DEF Registered
<1>4. \A o \in Registered : Missing(o) = 0 /\ Missing(o)' = 1
  BY <1>2, <1>3, NothingInFlight DEF Missing
<1>5. TypeOK'
  BY <1>1, <1>2 DEF rebind
<1>6. NoWriteAfterRemove' /\ StaysPrepared'
  BY <1>2, <1>3 DEF NoWriteAfterRemove, StaysPrepared, rebind
<1>7. RoundsInOrder'
  <2>1. \A o \in Registered' : joined'[o] + Missing(o)' <= Len(taken')
    BY <1>1, <1>2, <1>3, <1>4 DEF RoundsInOrder
  <2>2. \A o \in Outputs : futures'[o] # "none" => wpc' = "collect" /\ o \in Registered'
    BY <1>2, <1>3
  <2>3. taken' # <<>> /\ wpc' = "collect" /\ current' = current
    <3>1. Len(<<>>) = 0 /\ Len(taken') # 0
      BY <1>1
    <3> QED BY <1>2, <3>1
  <2>4. current # None /\ visit = {}
    BY <1>2 DEF RoundsInOrder
  <2>5. visit' = {}
    BY <1>2, <2>4
  <2> HIDE DEF IInv, Inv, TypeOK, Buffers
  <2> QED BY <1>1, <2>1, <2>2, <2>3, <2>4, <2>5 DEF RoundsInOrder
<1>8. NoGaps'
  <2> SUFFICES ASSUME NEW o \in Registered
               PROVE  got[o] = SubSeq(taken', joined[o] + 1, Len(taken') - Missing(o)')
    BY <1>2, <1>3 DEF NoGaps
  <2>1. got[o] = SubSeq(taken, joined[o] + 1, Len(taken))
    BY <1>1, <1>4 DEF NoGaps
  <2>2. joined[o] + 1 \in Nat \ {0} /\ Len(taken) \in 0 .. Len(taken)
    BY <1>1, <1>3
  <2>3. taken \in Seq(Buffers) /\ current \in Buffers
    BY <1>1
  <2> HIDE DEF IInv, Inv, TypeOK, Buffers
  <2>4. SubSeq(taken', joined[o] + 1, Len(taken)) = SubSeq(taken, joined[o] + 1, Len(taken))
    <3>1. \A m \in Nat \ {0}, n \in 0 .. Len(taken) :
            SubSeq(Append(taken, current), m, n) = SubSeq(taken, m, n)
      BY <2>3, PartOfAppend
    <3>2. taken' = Append(taken, current)
      BY <1>1
    <3> QED BY <2>2, <3>1, <3>2
  <2>5. Len(taken') - Missing(o)' = Len(taken)
    BY <1>1, <1>4
  <2> QED BY <2>1, <2>4, <2>5
<1>9. NoLostRebind'
  BY <1>2 DEF NoLostRebind, MarkerComing, rebind
<1> QED BY <1>5, <1>6, <1>7, <1>8, <1>9

LEMMA WorkerStep == ASSUME IInv, NEW o \in Outputs, Worker(o) PROVE IInv'
<1> USE HolderAssumption DEF IInv, Inv, TypeOK, Buffers
<1>1. /\ futures[o] = "pending" /\ wpc = "collect" /\ o \in Registered
      /\ Registered' = Registered /\ Prepared' = Prepared
      /\ UNCHANGED <<wpc, writable, buffer, outputs, current, visit, size, rebind, sent, adds, taken, joined, stopped>>
  BY DEF Worker, RoundsInOrder, Registered, Prepared, rebind
<1>2. /\ taken # <<>> /\ Len(taken) \in Nat \ {0} /\ taken[Len(taken)] = current /\ current \in Buffers
      /\ joined[o] + 1 \in 1 .. Len(taken) /\ Missing(o) = 1
  BY <1>1 DEF RoundsInOrder, Missing
<1>3. /\ futures' \in [Outputs -> FutureStates] /\ futures'[o] \in {"true", "false"}
      /\ \A p \in Outputs \ {o} : futures'[p] = futures[p] /\ Missing(p)' = Missing(p)
  BY DEF Worker, FutureStates, Missing
<1>4. got' \in [Outputs -> Seq(Buffers)] /\ \A p \in Outputs \ {o} : got'[p] = got[p]
  <2>1. Append(got[o], current) \in Seq(Buffers)
    BY <1>2
  <2>2. \/ got' = got
        \/ got' = [got EXCEPT ![o] = Append(got[o], current)]
    BY DEF Worker
  <2>3. got \in [Outputs -> Seq(Buffers)]
    OBVIOUS
  <2> HIDE DEF IInv, Inv, TypeOK, Buffers
  <2> QED BY <2>1, <2>2, <2>3
<1>5. TypeOK' /\ StaysPrepared' /\ NoWriteAfterRemove'
  BY <1>1, <1>3, <1>4 DEF rebind, StaysPrepared, NoWriteAfterRemove
<1>6. RoundsInOrder'
  <2>1. Missing(o)' <= Missing(o) /\ Missing(o)' \in Nat
    BY <1>2 DEF Missing
  <2>2. \A p \in Registered : joined[p] + Missing(p)' <= Len(taken)
    <3> TAKE p \in Registered
    <3>1. p \in Outputs /\ joined[p] \in Nat /\ Len(taken) \in Nat /\ joined[p] + Missing(p) <= Len(taken)
      BY DEF Registered, RoundsInOrder
    <3>2. Missing(p) \in Nat /\ Missing(p)' \in Nat /\ Missing(p)' <= Missing(p)
      BY <1>3, <2>1, <3>1 DEF Missing
    <3> HIDE DEF IInv, Inv, TypeOK, Buffers
    <3> QED BY <3>1, <3>2
  <2> QED BY <1>1, <1>3, <2>2 DEF RoundsInOrder
<1>7. NoGaps'
  <2> SUFFICES ASSUME NEW p \in Registered
               PROVE  got'[p] = SubSeq(taken, joined[p] + 1, Len(taken) - Missing(p)')
    BY <1>1 DEF NoGaps
  <2>1. p \in Outputs /\ got[p] = SubSeq(taken, joined[p] + 1, Len(taken) - Missing(p))
    BY DEF NoGaps, Registered
  <2>2. CASE p # o
    BY <1>3, <1>4, <2>1, <2>2
  <2>3. CASE p = o /\ futures'[o] = "false"
    <3>1. got' = got /\ Missing(o)' = 1
      BY <2>3 DEF Worker, Missing
    <3> QED BY <1>2, <2>1, <2>3, <3>1
  <2>4. CASE p = o /\ futures'[o] = "true"
    <3>1. got'[o] = Append(got[o], current) /\ Missing(o)' = 0
      BY <2>4 DEF Worker, Missing
    <3>2. SubSeq(taken, joined[o] + 1, Len(taken))
            = Append(SubSeq(taken, joined[o] + 1, Len(taken) - 1), taken[Len(taken)])
      BY <1>2, PartUpToLast
    <3> HIDE DEF IInv, Inv, TypeOK, Buffers
    <3>3. Len(taken) - Missing(o) = Len(taken) - 1 /\ Len(taken) - Missing(o)' = Len(taken)
      BY <1>2, <3>1
    <3> QED BY <1>2, <2>1, <2>4, <3>1, <3>2, <3>3
  <2> QED BY <1>3, <2>2, <2>3, <2>4
<1>8. NoLostRebind'
  BY <1>1 DEF NoLostRebind, MarkerComing, rebind
<1> QED BY <1>5, <1>6, <1>7, <1>8

LEMMA CollectStep == ASSUME IInv, NEW o \in Outputs, Collect(o) PROVE IInv'
<1> USE HolderAssumption DEF IInv, Inv, TypeOK, Buffers
<1>1. /\ futures[o] \in {"true", "false"} /\ wpc = "collect" /\ o \in Registered
      /\ futures' = [futures EXCEPT ![o] = "none"] /\ futures' \in [Outputs -> FutureStates]
      /\ UNCHANGED <<wpc, writable, buffer, current, visit, size, rebind, sent, adds, stopped>>
  BY DEF Collect, RoundsInOrder, FutureStates
<1>2. StaysPrepared' /\ Prepared' = Prepared
  BY <1>1 DEF StaysPrepared, Prepared, rebind
<1>3. CASE futures[o] = "true"
  <2>1. UNCHANGED <<outputs, got, taken, joined>> /\ Registered' = Registered
    BY <1>3 DEF Collect, history, Registered
  <2>2. \A p \in Outputs : Missing(p)' = Missing(p)
    BY <1>1, <1>3 DEF Missing
  <2>3. TypeOK' /\ NoWriteAfterRemove'
    BY <1>1, <2>1 DEF rebind, NoWriteAfterRemove
  <2>4. RoundsInOrder'
    BY <1>1, <1>2, <2>1, <2>2 DEF RoundsInOrder, Registered
  <2>5. NoGaps'
    BY <2>1, <2>2 DEF NoGaps, Registered
  <2>6. NoLostRebind'
    BY <1>1 DEF NoLostRebind, MarkerComing, rebind
  <2> QED BY <1>2, <2>3, <2>4, <2>5, <2>6
<1>4. CASE futures[o] = "false"
  <2>1. Leaves(IdOf[o]) /\ IdOf[o] \in Ids /\ \A p \in Outputs : IdOf[p] # IdOf[o] => futures'[p] = futures[p]
    BY <1>1, <1>4 DEF Collect
  <2>2. /\ outputs' \in [Ids -> Outputs \cup {None}]
        /\ \A j \in Ids : outputs'[j] # None => IdOf[outputs'[j]] = j
        /\ got' \in [Outputs -> Seq(Buffers)] /\ joined' \in [Outputs -> Nat] /\ taken' = taken
        /\ Registered' = {p \in Registered : IdOf[p] # IdOf[o]}
        /\ NoGaps' /\ \A p \in Registered' : joined'[p] + Missing(p)' <= Len(taken)
    BY <2>1, Leaving
  <2>3. \A p \in Outputs : futures'[p] # "none" => p \in Registered'
    <3>1. \A p \in Outputs : futures'[p] # "none" => p \in Registered /\ p # o
      BY <1>1 DEF RoundsInOrder
    <3>2. \A p \in Registered : IdOf[p] = IdOf[o] => p = o
      BY <1>1 DEF Registered
    <3> QED BY <2>2, <3>1, <3>2
  <2>4. TypeOK' /\ NoWriteAfterRemove'
    BY <1>1, <2>2, <2>3 DEF rebind, NoWriteAfterRemove
  <2>5. RoundsInOrder'
    BY <1>1, <1>2, <2>2, <2>3 DEF RoundsInOrder
  <2>6. NoLostRebind'
    BY <1>1 DEF NoLostRebind, MarkerComing, rebind
  <2> QED BY <1>2, <2>2, <2>4, <2>5, <2>6
<1> QED BY <1>1, <1>3, <1>4

LEMMA EndRoundStep == ASSUME IInv, EndRound PROVE IInv'
<1> USE HolderAssumption DEF IInv, Inv, TypeOK, Buffers
<1> USE DEF round, rebind, history
<1>1. TypeOK'
  <2>1. Prepared \subseteq Ids /\ Cardinality(Prepared) \in 0 .. Cardinality(Ids)
    <3>1. Prepared \subseteq Ids
      BY DEF Prepared
    <3>2. Cardinality(Prepared) \in Nat /\ Cardinality(Ids) \in Nat /\ Cardinality(Prepared) <= Cardinality(Ids)
      BY <3>1, FS_Subset, FS_CardinalityType
    <3> QED BY <3>1, <3>2
  <2> QED BY <2>1 DEF EndRound
<1>2. NoWriteAfterRemove'
  BY DEF EndRound, NoWriteAfterRemove, Registered
<1>3. RoundsInOrder'
  BY DEF EndRound, RoundsInOrder, Registered, Prepared, Missing
<1>4. StaysPrepared'
  BY DEF EndRound, StaysPrepared, Prepared
<1>5. NoGaps'
  BY DEF EndRound, NoGaps, Registered, Missing
<1>6. NoLostRebind'
  BY DEF EndRound, NoLostRebind, MarkerComing
<1> QED BY <1>1, <1>2, <1>3, <1>4, <1>5, <1>6

LEMMA SplitBindStep == ASSUME IInv, NEW i \in Ids, SplitBind(i) PROVE IInv'
<1> USE HolderAssumption DEF IInv, Inv, TypeOK, Buffers
<1>1. /\ wpc = "split" /\ i \in visit /\ Joins(toAdd[i]) /\ visit' = visit \ {i}
      /\ fate' = [fate EXCEPT ![i] = "bound"] /\ UNCHANGED <<wpc, writable, buffer, current, futures, size>>
      /\ UNCHANGED <<toAdd, rebound, rpc, wanted, rebinds, sent, adds, stopped>>
  BY DEF SplitBind
<1>2. toAdd[i] \in Outputs
  BY <1>1 DEF RoundsInOrder, Prepared
<1>3. /\ outputs' \in [Ids -> Outputs \cup {None}]
      /\ \A j \in Ids : outputs'[j] # None => IdOf[outputs'[j]] = j
      /\ got' \in [Outputs -> Seq(Buffers)] /\ joined' \in [Outputs -> Nat] /\ taken' = taken
      /\ NoGaps' /\ \A p \in Registered' : joined'[p] + Missing(p)' <= Len(taken)
  BY <1>1, <1>2, Joining
<1>4. \A p \in Outputs : futures'[p] = "none"
  BY <1>1, NothingInFlight
<1>5. TypeOK' /\ NoWriteAfterRemove'
  BY <1>1, <1>3, <1>4 DEF Fates, NoWriteAfterRemove
<1>6. RoundsInOrder'
  BY <1>1, <1>3, <1>4 DEF RoundsInOrder, Prepared
<1>7. StaysPrepared' /\ NoLostRebind'
  <2>1. \A j \in Ids : fate'[j] # "bound" => j # i /\ fate'[j] = fate[j]
    BY <1>1
  <2> QED BY <1>1, <2>1 DEF StaysPrepared, NoLostRebind, MarkerComing
<1> QED BY <1>3, <1>5, <1>6, <1>7

LEMMA SplitRaisesStep == ASSUME IInv, SplitRaises PROVE IInv'
<1> USE HolderAssumption DEF IInv, Inv, TypeOK, Buffers
<1> USE DEF round, rebind, history
<1>1. TypeOK'
  <2>1. size' \in 0 .. Cardinality(Ids) /\ visit' \subseteq Ids
    BY FS_CardinalityType DEF SplitRaises
  <2> QED BY <2>1 DEF SplitRaises
<1>2. NoWriteAfterRemove'
  BY DEF SplitRaises, NoWriteAfterRemove, Registered
<1>3. RoundsInOrder'
  BY DEF SplitRaises, RoundsInOrder, Registered, Prepared, Missing
<1>4. StaysPrepared'
  BY DEF SplitRaises, StaysPrepared
<1>5. NoGaps'
  BY DEF SplitRaises, NoGaps, Registered, Missing
<1>6. NoLostRebind'
  BY DEF SplitRaises, NoLostRebind, MarkerComing
<1> QED BY <1>1, <1>2, <1>3, <1>4, <1>5, <1>6

LEMMA SplitBoundStep == ASSUME IInv, SplitBound PROVE IInv'
<1> USE HolderAssumption DEF IInv, Inv, TypeOK, Buffers
<1> USE DEF round, rebind, history
<1>1. TypeOK'
  BY DEF SplitBound
<1>2. NoWriteAfterRemove'
  BY DEF SplitBound, NoWriteAfterRemove, Registered
<1>3. RoundsInOrder'
  BY DEF SplitBound, RoundsInOrder, Registered, Prepared, Missing
<1>4. StaysPrepared'
  BY DEF SplitBound, StaysPrepared
<1>5. NoGaps'
  BY DEF SplitBound, NoGaps, Registered, Missing
<1>6. NoLostRebind'
  BY DEF SplitBound, NoLostRebind, MarkerComing, StaysPrepared
<1> QED BY <1>1, <1>2, <1>3, <1>4, <1>5, <1>6

LEMMA SplitResetStep == ASSUME IInv, SplitReset PROVE IInv'
<1> USE HolderAssumption DEF IInv, Inv, TypeOK, Buffers
<1> USE DEF round, rebind, history
<1>1. TypeOK'
  BY FS_CardinalityType DEF SplitReset
<1>2. NoWriteAfterRemove'
  BY DEF SplitReset, NoWriteAfterRemove, Registered
<1>3. RoundsInOrder'
  BY DEF SplitReset, RoundsInOrder, Registered, Prepared, Missing
<1>4. StaysPrepared'
  BY DEF SplitReset, StaysPrepared
<1>5. NoGaps'
  BY DEF SplitReset, NoGaps, Registered, Missing
<1>6. NoLostRebind'
  BY DEF SplitReset, NoLostRebind, MarkerComing, StaysPrepared
<1> QED BY <1>1, <1>2, <1>3, <1>4, <1>5, <1>6

LEMMA SplitSignalStep == ASSUME IInv, SplitSignal PROVE IInv'
<1> USE HolderAssumption DEF IInv, Inv, TypeOK, Buffers
<1> USE DEF round, rebind, history
<1>1. TypeOK'
  BY FS_CardinalityType DEF SplitSignal
<1>2. NoWriteAfterRemove'
  BY DEF SplitSignal, NoWriteAfterRemove, Registered
<1>3. RoundsInOrder'
  BY DEF SplitSignal, RoundsInOrder, Registered, Prepared, Missing
<1>4. StaysPrepared'
  BY DEF SplitSignal, StaysPrepared
<1>5. NoGaps'
  BY DEF SplitSignal, NoGaps, Registered, Missing
<1>6. NoLostRebind'
  BY DEF SplitSignal, NoLostRebind, MarkerComing
<1> QED BY <1>1, <1>2, <1>3, <1>4, <1>5, <1>6

-----------------------------------------------------------------------------
(* rebind_output.                                                          *)
LEMMA PrepareStep == ASSUME IInv, NEW o \in Outputs, Prepare(o) PROVE IInv'
<1> USE HolderAssumption DEF IInv, Inv, TypeOK, Buffers
<1> USE DEF round, rebind, history
<1>1. TypeOK'
  BY DEF Prepare, Fates
<1>2. NoWriteAfterRemove'
  BY DEF Prepare, NoWriteAfterRemove, Registered
<1>3. RoundsInOrder'
  BY DEF Prepare, RoundsInOrder, Registered, Prepared, Missing
<1>4. StaysPrepared'
  BY DEF Prepare, StaysPrepared
<1>5. NoGaps'
  BY DEF Prepare, NoGaps, Registered, Missing
<1>6. NoLostRebind'
  BY DEF Prepare, NoLostRebind, MarkerComing
<1> QED BY <1>1, <1>2, <1>3, <1>4, <1>5, <1>6

LEMMA SplitFailsStep == ASSUME IInv, SplitFails PROVE IInv'
<1> USE HolderAssumption DEF IInv, Inv, TypeOK, Buffers
<1> USE DEF round, rebind, history
<1>1. TypeOK'
  BY DEF SplitFails
<1>2. NoWriteAfterRemove'
  BY DEF SplitFails, NoWriteAfterRemove, Registered
<1>3. RoundsInOrder'
  BY DEF SplitFails, RoundsInOrder, Registered, Prepared, Missing
<1>4. StaysPrepared'
  BY DEF SplitFails, StaysPrepared
<1>5. NoGaps'
  BY DEF SplitFails, NoGaps, Registered, Missing
<1>6. NoLostRebind'
  BY DEF SplitFails, NoLostRebind, MarkerComing
<1> QED BY <1>1, <1>2, <1>3, <1>4, <1>5, <1>6

LEMMA NotifyStep == ASSUME IInv, NotifySplit PROVE IInv'
<1> USE HolderAssumption DEF IInv, Inv, TypeOK, Buffers
<1> USE DEF round, rebind, history
<1>1. TypeOK'
  <2>1. Append(buffer, Split) \in Seq(Buffers)
    OBVIOUS
  <2>2. fate' \in [Ids -> Fates]
    BY DEF NotifySplit, Fates
  <2> QED BY <2>1, <2>2 DEF NotifySplit
<1>2. NoWriteAfterRemove'
  BY DEF NotifySplit, NoWriteAfterRemove, Registered
<1>3. RoundsInOrder'
  BY DEF NotifySplit, RoundsInOrder, Registered, Prepared, Missing
<1>4. StaysPrepared'
  BY DEF NotifySplit, StaysPrepared
<1>5. NoGaps'
  BY DEF NotifySplit, NoGaps, Registered, Missing
<1>6. NoLostRebind'
  <2>1. Len(buffer') \in 1 .. Len(buffer') /\ buffer'[Len(buffer')] = Split
    BY DEF NotifySplit
  <2> QED BY <2>1 DEF NotifySplit, NoLostRebind, MarkerComing, StaysPrepared
<1> QED BY <1>1, <1>2, <1>3, <1>4, <1>5, <1>6

LEMMA ReboundStep == ASSUME IInv, Rebound PROVE IInv'
<1> USE HolderAssumption DEF IInv, Inv, TypeOK, Buffers
<1> USE DEF round, rebind, history
<1>1. TypeOK'
  BY DEF Rebound
<1>2. NoWriteAfterRemove'
  BY DEF Rebound, NoWriteAfterRemove, Registered
<1>3. RoundsInOrder'
  BY DEF Rebound, RoundsInOrder, Registered, Prepared, Missing
<1>4. StaysPrepared'
  BY DEF Rebound, StaysPrepared
<1>5. NoGaps'
  BY DEF Rebound, NoGaps, Registered, Missing
<1>6. NoLostRebind'
  BY DEF Rebound, NoLostRebind, MarkerComing
<1> QED BY <1>1, <1>2, <1>3, <1>4, <1>5, <1>6

-----------------------------------------------------------------------------
(* Outputs are added and removed between two rounds.                       *)
LEMMA AddStep == ASSUME IInv, NEW o \in Outputs, AddOutput(o) PROVE IInv'
<1> USE HolderAssumption DEF IInv, Inv, TypeOK, Buffers
<1>1. /\ wpc # "collect" /\ Joins(o) /\ adds' \in 0 .. MaxAdds
      /\ UNCHANGED <<round, writable, buffer, rebind, sent, stopped>>
  BY DEF AddOutput, LockFree
<1>2. UNCHANGED <<futures, wpc, visit, current>>
  BY <1>1 DEF round
<1>3. /\ outputs' \in [Ids -> Outputs \cup {None}]
      /\ \A j \in Ids : outputs'[j] # None => IdOf[outputs'[j]] = j
      /\ got' \in [Outputs -> Seq(Buffers)] /\ joined' \in [Outputs -> Nat] /\ taken' = taken
      /\ NoGaps' /\ \A p \in Registered' : joined'[p] + Missing(p)' <= Len(taken)
  BY <1>1, <1>2, Joining
<1>4. \A p \in Outputs : futures'[p] = "none"
  BY <1>1, <1>2, NothingInFlight
<1>5. TypeOK' /\ NoWriteAfterRemove'
  <2>1. \A i \in Ids : \A f \in {outputs', toAdd'} : f[i] # None => IdOf[f[i]] = i
    BY <1>1, <1>3 DEF rebind
  <2> HIDE DEF IInv, Inv, Buffers
  <2>2. /\ TypeOK /\ adds' \in 0 .. MaxAdds /\ taken' = taken
        /\ UNCHANGED <<wpc, writable, buffer, current, toAdd, futures, visit, size>>
        /\ UNCHANGED <<rebound, rpc, wanted, sent, rebinds, fate, stopped>>
    BY <1>1, <1>3 DEF IInv, Inv, rebind, round
  <2>3. got' \in [Outputs -> Seq(1 .. MaxFrames \cup {Split})]
    BY <1>3 DEF Buffers
  <2>4. outputs' \in [Ids -> Outputs \cup {None}] /\ joined' \in [Outputs -> Nat]
    BY <1>3
  <2>5. TypeOK'
    BY <2>1, <2>2, <2>3, <2>4, SMTT(20)
  <2>6. NoWriteAfterRemove'
    BY <1>4 DEF NoWriteAfterRemove
  <2> QED BY <2>5, <2>6
<1>6. RoundsInOrder'
  BY <1>1, <1>3, <1>4 DEF RoundsInOrder, Prepared, round, rebind
<1>7. StaysPrepared' /\ NoLostRebind'
  BY <1>1 DEF StaysPrepared, NoLostRebind, MarkerComing, round, rebind
<1> QED BY <1>3, <1>5, <1>6, <1>7

LEMMA RemoveStep == ASSUME IInv, NEW i \in Ids, RemoveOutput(i) PROVE IInv'
<1> USE HolderAssumption DEF IInv, Inv, TypeOK, Buffers
<1>1. /\ wpc # "collect" /\ Leaves(i)
      /\ UNCHANGED <<round, writable, buffer, rebind, sent, adds, stopped>>
  BY DEF RemoveOutput, LockFree
<1>2. UNCHANGED <<futures, wpc, visit, current>>
  BY <1>1 DEF round
<1>3. /\ outputs' \in [Ids -> Outputs \cup {None}]
      /\ \A j \in Ids : outputs'[j] # None => IdOf[outputs'[j]] = j
      /\ got' \in [Outputs -> Seq(Buffers)] /\ joined' \in [Outputs -> Nat] /\ taken' = taken
      /\ NoGaps' /\ \A p \in Registered' : joined'[p] + Missing(p)' <= Len(taken)
  BY <1>1, <1>2, Leaving
<1>4. \A p \in Outputs : futures'[p] = "none"
  BY <1>1, <1>2, NothingInFlight
<1>5. TypeOK' /\ NoWriteAfterRemove'
  BY <1>1, <1>3, <1>4 DEF rebind, round, NoWriteAfterRemove
<1>6. RoundsInOrder'
  BY <1>1, <1>3, <1>4 DEF RoundsInOrder, Prepared, round, rebind
<1>7. StaysPrepared' /\ NoLostRebind'
  BY <1>1 DEF StaysPrepared, NoLostRebind, MarkerComing, round, rebind
<1> QED BY <1>3, <1>5, <1>6, <1>7

-----------------------------------------------------------------------------
LEMMA StepInvariant == IInv /\ [Next]_vars => IInv'
<1> SUFFICES ASSUME IInv, [Next]_vars PROVE IInv'
  OBVIOUS
<1>1. CASE UNCHANGED vars
  <2> USE <1>1 DEF vars, round, rebind, history, IInv, Inv
  <2>1. TypeOK'
    BY DEF TypeOK
  <2>2. NoWriteAfterRemove' /\ NoGaps'
    BY DEF NoWriteAfterRemove, NoGaps, Registered, Missing
  <2>3. RoundsInOrder' /\ StaysPrepared'
    BY DEF RoundsInOrder, StaysPrepared, Registered, Prepared, Missing
  <2>4. NoLostRebind'
    BY DEF NoLostRebind, MarkerComing
  <2> QED BY <2>1, <2>2, <2>3, <2>4
<1>2. CASE Writer
  BY <1>2, LoopStep, PopStep, SubmitStep, CollectStep, EndRoundStep, SplitBindStep, SplitRaisesStep,
     SplitBoundStep, SplitResetStep, SplitSignalStep DEF Writer
<1>3. CASE Rebinder
  BY <1>3, PrepareStep, SplitFailsStep, NotifyStep, ReboundStep DEF Rebinder
<1>4. CASE Write \/ Stop \/ (\E o \in Outputs : AddOutput(o) \/ Worker(o)) \/ \E i \in Ids : RemoveOutput(i)
  BY <1>4, WriteStep, StopStep, AddStep, WorkerStep, RemoveStep
<1> QED BY <1>1, <1>2, <1>3, <1>4 DEF Next

LEMMA Invariant == Spec => []IInv
BY InitInvariant, StepInvariant, PTL DEF Spec

(* Nothing is being written to an output that remove_output() has let go,  *)
(* and what was prepared while no marker was being handled stays prepared  *)
(* until a marker binds it (output_holder.py:39-42, 58-65, 79-102).        *)
THEOREM RoundsHold == Spec => []Inv
<1>1. IInv => Inv
  BY DEF IInv
<1> QED BY Invariant, <1>1, PTL

(* A registered output has been written every buffer handed out since it   *)
(* joined, in order, whoever joins, leaves or fails (output_holder.py:     *)
(* 79-93).                                                                 *)
THEOREM OutputsHaveNoGaps == Spec => []NoGaps
<1>1. IInv => NoGaps
  BY DEF IInv
<1> QED BY Invariant, <1>1, PTL

(* Unless the writer is stopped a rebind stays prepared, with a marker on  *)
(* its way, until it is bound, and a caller that waits is told; only one   *)
(* prepared while a marker is being handled may be dropped                 *)
(* (output_holder.py:54-72, 95-102).                                       *)
THEOREM RebindsAreKept == Spec => []NoLostRebind
<1>1. IInv => NoLostRebind
  BY DEF IInv
<1> QED BY Invariant, <1>1, PTL
=============================================================================
