------------------------ MODULE BoundedTables_proofs ------------------------
(* Tables of fixed size.  The ring of LAB10/E05.cpp is used correctly for any  *)
(* numbers of producers and consumers and any size.  The tables of open files  *)
(* and of inodes beneath the calls of LAB05/sysfile.c count who uses them, for *)
(* any processes, any sizes of the tables and any names.                       *)
EXTENDS BoundedBuffer, Xv6Files, FiniteSetTheorems, SequenceTheorems, WellFoundedInduction, TLAPS

(* The ring *)

(* Two sets of threads that differ in one thread at most.                     *)
LEMMA CountOneMove ==
    ASSUME NEW S, IsFiniteSet(S), NEW t \in S, NEW A \in SUBSET S, NEW B \in SUBSET S,
           \A s \in S \ {t} : s \in A <=> s \in B
    PROVE  /\ Cardinality(A) \in Nat /\ Cardinality(B) \in Nat
           /\ Cardinality(B) + (IF t \in A THEN 1 ELSE 0)
                 = Cardinality(A) + (IF t \in B THEN 1 ELSE 0)
<1>1. IsFiniteSet(A) /\ IsFiniteSet(B)
  BY FS_Subset
<1>2. Cardinality(A) \in Nat /\ Cardinality(B) \in Nat
  BY <1>1, FS_CardinalityType
<1>3. CASE t \in A <=> t \in B
  <2>1. A = B
    BY <1>3
  <2> QED BY <2>1, <1>2
<1>4. CASE t \notin A /\ t \in B
  <2>1. B = A \cup {t} /\ t \notin A
    BY <1>4
  <2>2. Cardinality(B) = Cardinality(A) + 1
    BY <2>1, <1>1, FS_AddElement
  <2> QED BY <2>2, <1>2, <1>4
<1>5. CASE t \in A /\ t \notin B
  <2>1. A = B \cup {t} /\ t \notin B
    BY <1>5
  <2>2. Cardinality(A) = Cardinality(B) + 1
    BY <2>1, <1>1, FS_AddElement
  <2> QED BY <2>2, <1>2, <1>5
<1> QED BY <1>3, <1>4, <1>5

(* The counts one step of a producer changes, and those it does not.          *)
LEMMA ProducerMove ==
    ASSUME BufferAssumption, TypeOK, NEW p \in Producers,
           NEW from, NEW to, Goto(p, from, to)
    PROVE  /\ Filling' + (IF from \in FillingLabels THEN 1 ELSE 0)
                = Filling + (IF to \in FillingLabels THEN 1 ELSE 0)
           /\ Filled' + (IF from \in FilledLabels THEN 1 ELSE 0)
                = Filled + (IF to \in FilledLabels THEN 1 ELSE 0)
           /\ Emptying' = Emptying /\ Claimed' = Claimed /\ Taken' = Taken
           /\ Filling' \in Nat /\ Filled' \in Nat
<1>1. /\ pc \in [Threads -> Labels] /\ p \in Threads /\ p \notin Consumers
      /\ pc[p] = from /\ pc' = [pc EXCEPT ![p] = to]
  BY DEF BufferAssumption, TypeOK, Goto, Threads
<1>2. IsFiniteSet(Producers) /\ Producers \subseteq Threads
  BY DEF BufferAssumption, Threads
<1>3. ASSUME NEW L
      PROVE  /\ Cardinality(ProducersAt(L)') \in Nat
             /\ Cardinality(ProducersAt(L)') + (IF from \in L THEN 1 ELSE 0)
                   = Cardinality(ProducersAt(L)) + (IF to \in L THEN 1 ELSE 0)
  <2> DEFINE A == {s \in Producers : pc[s] \in L}
             B == {s \in Producers : pc'[s] \in L}
  <2>1. /\ A \in SUBSET Producers /\ B \in SUBSET Producers
        /\ \A s \in Producers \ {p} : s \in A <=> s \in B
        /\ (p \in A <=> from \in L) /\ (p \in B <=> to \in L)
    BY <1>1, <1>2
  <2> HIDE DEF A, B
  <2>2. /\ Cardinality(B) \in Nat
        /\ Cardinality(B) + (IF p \in A THEN 1 ELSE 0)
              = Cardinality(A) + (IF p \in B THEN 1 ELSE 0)
    BY <2>1, <1>2, CountOneMove
  <2>3. Cardinality(B) + (IF from \in L THEN 1 ELSE 0)
              = Cardinality(A) + (IF to \in L THEN 1 ELSE 0)
    BY <2>1, <2>2
  <2> QED BY <2>2, <2>3 DEF A, B, ProducersAt
<1>4. /\ Filling' \in Nat /\ Filled' \in Nat
      /\ Filling' + (IF from \in FillingLabels THEN 1 ELSE 0)
           = Filling + (IF to \in FillingLabels THEN 1 ELSE 0)
      /\ Filled' + (IF from \in FilledLabels THEN 1 ELSE 0)
           = Filled + (IF to \in FilledLabels THEN 1 ELSE 0)
  BY <1>3, Zenon DEF Filling, Filled, FillingLabels, FilledLabels
<1>5. \A c \in Consumers : pc'[c] = pc[c]
  BY <1>1 DEF Threads
<1>6. Emptying' = Emptying /\ Claimed' = Claimed /\ Taken' = Taken
  BY <1>5 DEF Emptying, Claimed, Taken, ConsumersAt
<1> QED BY <1>4, <1>6
(* The counts one step of a consumer changes, and those it does not.          *)
LEMMA ConsumerMove ==
    ASSUME BufferAssumption, TypeOK, NEW c \in Consumers,
           NEW from, NEW to, Goto(c, from, to)
    PROVE  /\ Emptying' + (IF from \in EmptyingLabels THEN 1 ELSE 0)
                = Emptying + (IF to \in EmptyingLabels THEN 1 ELSE 0)
           /\ Claimed' + (IF from \in ClaimedLabels THEN 1 ELSE 0)
                = Claimed + (IF to \in ClaimedLabels THEN 1 ELSE 0)
           /\ Taken' + (IF from \in TakenLabels THEN 1 ELSE 0)
                = Taken + (IF to \in TakenLabels THEN 1 ELSE 0)
           /\ Filling' = Filling /\ Filled' = Filled
           /\ Emptying' \in Nat /\ Claimed' \in Nat /\ Taken' \in Nat
<1>1. /\ pc \in [Threads -> Labels] /\ c \in Threads /\ c \notin Producers
      /\ pc[c] = from /\ pc' = [pc EXCEPT ![c] = to]
  BY DEF BufferAssumption, TypeOK, Goto, Threads
<1>2. IsFiniteSet(Consumers) /\ Consumers \subseteq Threads
  BY DEF BufferAssumption, Threads
<1>3. ASSUME NEW L
      PROVE  /\ Cardinality(ConsumersAt(L)') \in Nat
             /\ Cardinality(ConsumersAt(L)') + (IF from \in L THEN 1 ELSE 0)
                   = Cardinality(ConsumersAt(L)) + (IF to \in L THEN 1 ELSE 0)
  <2> DEFINE A == {s \in Consumers : pc[s] \in L}
             B == {s \in Consumers : pc'[s] \in L}
  <2>1. /\ A \in SUBSET Consumers /\ B \in SUBSET Consumers
        /\ \A s \in Consumers \ {c} : s \in A <=> s \in B
        /\ (c \in A <=> from \in L) /\ (c \in B <=> to \in L)
    BY <1>1, <1>2
  <2> HIDE DEF A, B
  <2>2. /\ Cardinality(B) \in Nat
        /\ Cardinality(B) + (IF c \in A THEN 1 ELSE 0)
              = Cardinality(A) + (IF c \in B THEN 1 ELSE 0)
    BY <2>1, <1>2, CountOneMove
  <2>3. Cardinality(B) + (IF from \in L THEN 1 ELSE 0)
              = Cardinality(A) + (IF to \in L THEN 1 ELSE 0)
    BY <2>1, <2>2
  <2> QED BY <2>2, <2>3 DEF A, B, ConsumersAt
<1>4. /\ Emptying' \in Nat /\ Claimed' \in Nat /\ Taken' \in Nat
      /\ Emptying' + (IF from \in EmptyingLabels THEN 1 ELSE 0)
           = Emptying + (IF to \in EmptyingLabels THEN 1 ELSE 0)
      /\ Claimed' + (IF from \in ClaimedLabels THEN 1 ELSE 0)
           = Claimed + (IF to \in ClaimedLabels THEN 1 ELSE 0)
      /\ Taken' + (IF from \in TakenLabels THEN 1 ELSE 0)
           = Taken + (IF to \in TakenLabels THEN 1 ELSE 0)
  BY <1>3, Zenon DEF Emptying, Claimed, Taken, EmptyingLabels, ClaimedLabels, TakenLabels
<1>5. \A p \in Producers : pc'[p] = pc[p]
  BY <1>1 DEF Threads
<1>6. Filling' = Filling /\ Filled' = Filled
  BY <1>5 DEF Filling, Filled, ProducersAt
<1> QED BY <1>4, <1>6

(* How the counts bound one another.                                          *)
LEMMA CountBounds ==
    ASSUME BufferAssumption
    PROVE  /\ Filling \in Nat /\ Filled \in Nat
           /\ Emptying \in Nat /\ Claimed \in Nat /\ Taken \in Nat
           /\ Filled <= Filling /\ Claimed + Taken <= Emptying
           /\ \A p \in Producers : pc[p] \in {"store", "forward"} => Filled + 1 <= Filling
           /\ \A c \in Consumers : pc[c] \in {"take", "forward"} => Claimed + Taken > 0
<1>1. IsFiniteSet(Producers) /\ IsFiniteSet(Consumers)
  BY DEF BufferAssumption
<1>2. \A L : /\ IsFiniteSet(ProducersAt(L)) /\ Cardinality(ProducersAt(L)) \in Nat
             /\ IsFiniteSet(ConsumersAt(L)) /\ Cardinality(ConsumersAt(L)) \in Nat
  BY <1>1, FS_Subset, FS_CardinalityType DEF ProducersAt, ConsumersAt
<1>3. /\ Filling \in Nat /\ Filled \in Nat
      /\ Emptying \in Nat /\ Claimed \in Nat /\ Taken \in Nat
  BY <1>2 DEF Filling, Filled, Emptying, Claimed, Taken
<1>4. Filled <= Filling
  <2>1. ProducersAt(FilledLabels) \subseteq ProducersAt(FillingLabels)
    BY DEF ProducersAt, FilledLabels, FillingLabels
  <2> QED BY <2>1, <1>2, FS_Subset DEF Filled, Filling
<1>5. Claimed + Taken <= Emptying
  <2>1. /\ ConsumersAt(ClaimedLabels) \cup ConsumersAt(TakenLabels)
              \subseteq ConsumersAt(EmptyingLabels)
        /\ ConsumersAt(ClaimedLabels) \cap ConsumersAt(TakenLabels) = {}
    BY DEF ConsumersAt, ClaimedLabels, TakenLabels, EmptyingLabels
  <2>2. Cardinality(ConsumersAt(ClaimedLabels) \cup ConsumersAt(TakenLabels)) = Claimed + Taken
    <3>1. Cardinality({}) = 0
      BY FS_EmptySet
    <3>2. Cardinality(ConsumersAt(ClaimedLabels) \cup ConsumersAt(TakenLabels))
             = Claimed + Taken - Cardinality(ConsumersAt(ClaimedLabels) \cap ConsumersAt(TakenLabels))
      BY <1>2, FS_Union, Zenon DEF Claimed, Taken
    <3> QED BY <2>1, <3>1, <3>2, <1>3
  <2> QED BY <2>1, <2>2, <1>2, FS_Subset DEF Emptying
<1>6. ASSUME NEW p \in Producers, pc[p] \in {"store", "forward"}
      PROVE  Filled + 1 <= Filling
  <2>1. /\ ProducersAt(FilledLabels) \cup {p} \subseteq ProducersAt(FillingLabels)
        /\ p \notin ProducersAt(FilledLabels)
    BY <1>6 DEF ProducersAt, FilledLabels, FillingLabels
  <2>2. Cardinality(ProducersAt(FilledLabels) \cup {p}) = Filled + 1
    BY <2>1, <1>2, FS_AddElement DEF Filled
  <2> QED BY <2>1, <2>2, <1>2, FS_Subset DEF Filling
<1>7. ASSUME NEW c \in Consumers, pc[c] \in {"take", "forward"}
      PROVE  Claimed + Taken > 0
  <2>1. c \in ConsumersAt(ClaimedLabels) \/ c \in ConsumersAt(TakenLabels)
    BY <1>7 DEF ConsumersAt, ClaimedLabels, TakenLabels
  <2>2. Claimed # 0 \/ Taken # 0
    BY <2>1, <1>2, FS_EmptySet DEF Claimed, Taken
  <2> QED BY <2>2, <1>3
<1> QED BY <1>3, <1>4, <1>5, <1>6, <1>7

-----------------------------------------------------------------------------
(* Each index moves by one slot, each item by one index: RingConsistent holds
   as long as the counts leave room, which SlotsAccounted guarantees. *)
IInv == TypeOK /\ SlotsAccounted /\ RingConsistent

(* The indices stay in the ring, and step along it as Wrap does.              *)
LEMMA NextSlotInRing ==
    ASSUME BufferAssumption, NEW i \in Slots
    PROVE  NextSlot(i) \in Slots
BY DEF BufferAssumption, NextSlot, Slots

LEMMA WriteAdvance ==
    ASSUME BufferAssumption, NEW i \in Slots, NEW k \in Nat, k < Size
    PROVE  NextSlot(Wrap(i + k)) = Wrap(i + (k + 1))
BY DEF BufferAssumption, NextSlot, Slots, Wrap

LEMMA ReadAdvance ==
    ASSUME BufferAssumption, NEW i \in Slots, NEW k \in Nat, k < Size
    PROVE  Wrap(NextSlot(i) + k) = Wrap(i + (k + 1))
BY DEF BufferAssumption, NextSlot, Slots, Wrap

(* The initial state satisfies the invariant.                                 *)
LEMMA InitIInv == ASSUME BufferAssumption, Init PROVE IInv
<1>1. TypeOK
  BY DEF BufferAssumption, Init, TypeOK, Slots, Labels, Threads
<1>2. \A L \in SUBSET (Labels \ {"wait"}) : ProducersAt(L) = {} /\ ConsumersAt(L) = {}
  BY DEF Init, ProducersAt, ConsumersAt, Threads
<1>3. Filling = 0 /\ Filled = 0 /\ Emptying = 0 /\ Claimed = 0 /\ Taken = 0
  <2>1. /\ FillingLabels \in SUBSET (Labels \ {"wait"})
        /\ FilledLabels \in SUBSET (Labels \ {"wait"})
        /\ EmptyingLabels \in SUBSET (Labels \ {"wait"})
        /\ ClaimedLabels \in SUBSET (Labels \ {"wait"})
        /\ TakenLabels \in SUBSET (Labels \ {"wait"})
    BY DEF FillingLabels, FilledLabels, EmptyingLabels, ClaimedLabels, TakenLabels, Labels
  <2> QED BY <1>2, <2>1, FS_EmptySet, Zenon
            DEF Filling, Filled, Emptying, Claimed, Taken
<1>4. SlotsAccounted /\ RingConsistent
  BY <1>3 DEF BufferAssumption, Init, SlotsAccounted, RingConsistent, Used, Wrap
<1> QED BY <1>1, <1>4 DEF IInv

(* A producer's step preserves the invariant.                                 *)
LEMMA ProducerIInv ==
    ASSUME BufferAssumption, IInv, NEW p \in Producers, ProducerStep(p)
    PROVE  IInv'
<1> USE BufferAssumption
<1> DEFINE K == Taken + Used
<1>0. /\ TypeOK /\ SlotsAccounted /\ RingConsistent
      /\ p \in Threads /\ p \notin Consumers /\ p # NoThread
  BY DEF IInv, Threads, BufferAssumption
<1>a. /\ K \in Nat /\ K <= Size /\ Size \in Nat
      /\ pc[p] = "forward" => K < Size
      /\ pc[p] = "release" => fillCount < Size
      /\ Filling \in Nat /\ Filled \in Nat /\ Emptying \in Nat
      /\ Claimed \in Nat /\ Taken \in Nat
  <2>1. pc[p] = "release" => Filling > 0
    <3>1. pc[p] = "release" => ProducersAt(FillingLabels) # {}
      BY DEF ProducersAt, FillingLabels
    <3>2. IsFiniteSet(ProducersAt(FillingLabels))
      BY FS_Subset DEF ProducersAt, BufferAssumption
    <3>3. pc[p] = "release" => Filling # 0
      BY <3>1, <3>2, FS_EmptySet DEF Filling
    <3> QED BY <3>3, CountBounds
  <2> QED BY <1>0, <2>1, CountBounds DEF TypeOK, SlotsAccounted, Used, BufferAssumption
<1>1. CASE ProducerWait(p)
  <2>1. Goto(p, "wait", "enter")
    BY <1>1 DEF ProducerWait
  <2>2. TypeOK'
    BY <1>0, <1>a, <1>1
    DEF ProducerWait, TypeOK, Goto, Labels
  <2>3. /\ Filling' = Filling + 1 /\ Filled' = Filled
        /\ Emptying' = Emptying /\ Claimed' = Claimed /\ Taken' = Taken
    BY <1>0, <1>a, <2>1, ProducerMove DEF FillingLabels, FilledLabels
  <2>4. SlotsAccounted'
    BY <1>0, <1>a, <1>1, <2>3 DEF ProducerWait, TypeOK, SlotsAccounted, Goto
  <2>5. Taken' + Used' = K
    BY <1>0, <1>a, <1>1, <2>3 DEF ProducerWait, TypeOK, Used, Goto
  <2>6. RingConsistent'
    BY <1>0, <1>1, <2>5 DEF ProducerWait, RingConsistent
  <2> QED BY <2>2, <2>4, <2>6 DEF IInv
<1>2. CASE ProducerEnter(p)
  <2>1. Goto(p, "enter", "store")
    BY <1>2 DEF ProducerEnter
  <2>2. TypeOK'
    BY <1>0, <1>a, <1>2
    DEF ProducerEnter, TypeOK, Goto, Labels
  <2>3. /\ Filling' = Filling /\ Filled' = Filled
        /\ Emptying' = Emptying /\ Claimed' = Claimed /\ Taken' = Taken
    BY <1>0, <1>a, <2>1, ProducerMove DEF FillingLabels, FilledLabels
  <2>4. SlotsAccounted'
    BY <1>0, <1>a, <1>2, <2>3 DEF ProducerEnter, TypeOK, SlotsAccounted, Goto
  <2>5. Taken' + Used' = K
    BY <1>0, <1>a, <1>2, <2>3 DEF ProducerEnter, TypeOK, Used, Goto
  <2>6. RingConsistent'
    BY <1>0, <1>2, <2>5 DEF ProducerEnter, RingConsistent
  <2> QED BY <2>2, <2>4, <2>6 DEF IInv
<1>3. CASE ProducerStore(p)
  <2>1. Goto(p, "store", "forward")
    BY <1>3 DEF ProducerStore
  <2>2. TypeOK'
    BY <1>0, <1>a, <1>3
    DEF ProducerStore, TypeOK, Goto, Labels
  <2>3. /\ Filling' = Filling /\ Filled' = Filled
        /\ Emptying' = Emptying /\ Claimed' = Claimed /\ Taken' = Taken
    BY <1>0, <1>a, <2>1, ProducerMove DEF FillingLabels, FilledLabels
  <2>4. SlotsAccounted'
    BY <1>0, <1>a, <1>3, <2>3 DEF ProducerStore, TypeOK, SlotsAccounted, Goto
  <2>5. Taken' + Used' = K
    BY <1>0, <1>a, <1>3, <2>3 DEF ProducerStore, TypeOK, Used, Goto
  <2>6. RingConsistent'
    BY <1>0, <1>3, <2>5 DEF ProducerStore, RingConsistent
  <2> QED BY <2>2, <2>4, <2>6 DEF IInv
<1>4. CASE ProducerForward(p)
  <2>1. Goto(p, "forward", "leave")
    BY <1>4 DEF ProducerForward
  <2>2. TypeOK'
    BY <1>0, <1>a, <1>4, NextSlotInRing
    DEF ProducerForward, TypeOK, Goto, Labels
  <2>3. /\ Filling' = Filling /\ Filled' = Filled + 1
        /\ Emptying' = Emptying /\ Claimed' = Claimed /\ Taken' = Taken
    BY <1>0, <1>a, <2>1, ProducerMove DEF FillingLabels, FilledLabels
  <2>4. write' = NextSlot(Wrap(read + K)) /\ read' = read /\ K < Size /\ read \in Slots
    BY <1>0, <1>a, <1>4 DEF ProducerForward, RingConsistent, Goto, TypeOK
  <2>5. Taken' + Used' = K + 1
    BY <1>0, <1>a, <2>3, <1>4 DEF ProducerForward, Used, TypeOK
  <2>6. RingConsistent'
    BY <1>a, <2>4, <2>5, WriteAdvance DEF RingConsistent
  <2> QED BY <2>2, <2>3, <2>6, <1>0, <1>a, <1>4 DEF IInv, ProducerForward, SlotsAccounted
<1>5. CASE ProducerLeave(p)
  <2>1. Goto(p, "leave", "release")
    BY <1>5 DEF ProducerLeave
  <2>2. TypeOK'
    BY <1>0, <1>a, <1>5
    DEF ProducerLeave, TypeOK, Goto, Labels
  <2>3. /\ Filling' = Filling /\ Filled' = Filled
        /\ Emptying' = Emptying /\ Claimed' = Claimed /\ Taken' = Taken
    BY <1>0, <1>a, <2>1, ProducerMove DEF FillingLabels, FilledLabels
  <2>4. SlotsAccounted'
    BY <1>0, <1>a, <1>5, <2>3 DEF ProducerLeave, TypeOK, SlotsAccounted, Goto
  <2>5. Taken' + Used' = K
    BY <1>0, <1>a, <1>5, <2>3 DEF ProducerLeave, TypeOK, Used, Goto
  <2>6. RingConsistent'
    BY <1>0, <1>5, <2>5 DEF ProducerLeave, RingConsistent
  <2> QED BY <2>2, <2>4, <2>6 DEF IInv
<1>6. CASE ProducerRelease(p)
  <2>1. Goto(p, "release", "wait")
    BY <1>6 DEF ProducerRelease
  <2>2. TypeOK'
    BY <1>0, <1>a, <1>6
    DEF ProducerRelease, TypeOK, Goto, Labels, Post
  <2>3. /\ Filling' = Filling - 1 /\ Filled' = Filled - 1
        /\ Emptying' = Emptying /\ Claimed' = Claimed /\ Taken' = Taken
    BY <1>0, <1>a, <2>1, ProducerMove DEF FillingLabels, FilledLabels
  <2>4. SlotsAccounted'
    BY <1>0, <1>a, <1>6, <2>3 DEF ProducerRelease, TypeOK, SlotsAccounted, Goto, Post
  <2>5. Taken' + Used' = K
    BY <1>0, <1>a, <1>6, <2>3 DEF ProducerRelease, TypeOK, Used, Goto, Post
  <2>6. RingConsistent'
    BY <1>0, <1>6, <2>5 DEF ProducerRelease, RingConsistent
  <2> QED BY <2>2, <2>4, <2>6 DEF IInv
<1> QED BY <1>1, <1>2, <1>3, <1>4, <1>5, <1>6 DEF ProducerStep

(* A consumer's step preserves the invariant.                                 *)
LEMMA ConsumerIInv ==
    ASSUME BufferAssumption, IInv, NEW c \in Consumers, ConsumerStep(c)
    PROVE  IInv'
<1> USE BufferAssumption
<1> DEFINE K == Taken + Used
<1>0. /\ TypeOK /\ SlotsAccounted /\ RingConsistent
      /\ c \in Threads /\ c \notin Producers /\ c # NoThread
  BY DEF IInv, Threads, BufferAssumption
<1>a. /\ K \in Nat /\ K <= Size /\ Size \in Nat
      /\ pc[c] = "forward" => K > 0
      /\ pc[c] = "release" => emptyCount < Size
      /\ Filling \in Nat /\ Filled \in Nat /\ Emptying \in Nat
      /\ Claimed \in Nat /\ Taken \in Nat
  <2>1. pc[c] = "release" => Emptying > 0
    <3>1. pc[c] = "release" => ConsumersAt(EmptyingLabels) # {}
      BY DEF ConsumersAt, EmptyingLabels
    <3>2. IsFiniteSet(ConsumersAt(EmptyingLabels))
      BY FS_Subset DEF ConsumersAt, BufferAssumption
    <3>3. pc[c] = "release" => Emptying # 0
      BY <3>1, <3>2, FS_EmptySet DEF Emptying
    <3> QED BY <3>3, CountBounds
  <2> QED BY <1>0, <2>1, CountBounds DEF TypeOK, SlotsAccounted, Used, BufferAssumption
<1>1. CASE ConsumerWait(c)
  <2>1. Goto(c, "wait", "enter")
    BY <1>1 DEF ConsumerWait
  <2>2. TypeOK'
    BY <1>0, <1>a, <1>1
    DEF ConsumerWait, TypeOK, Goto, Labels
  <2>3. /\ Emptying' = Emptying + 1 /\ Claimed' = Claimed + 1 /\ Taken' = Taken
        /\ Filling' = Filling /\ Filled' = Filled
    BY <1>0, <1>a, <2>1, ConsumerMove DEF EmptyingLabels, ClaimedLabels, TakenLabels
  <2>4. SlotsAccounted'
    BY <1>0, <1>a, <1>1, <2>3 DEF ConsumerWait, TypeOK, SlotsAccounted, Goto
  <2>5. Taken' + Used' = K
    BY <1>0, <1>a, <1>1, <2>3 DEF ConsumerWait, TypeOK, Used, Goto
  <2>6. RingConsistent'
    BY <1>0, <1>1, <2>5 DEF ConsumerWait, RingConsistent
  <2> QED BY <2>2, <2>4, <2>6 DEF IInv
<1>2. CASE ConsumerEnter(c)
  <2>1. Goto(c, "enter", "take")
    BY <1>2 DEF ConsumerEnter
  <2>2. TypeOK'
    BY <1>0, <1>a, <1>2
    DEF ConsumerEnter, TypeOK, Goto, Labels
  <2>3. /\ Emptying' = Emptying /\ Claimed' = Claimed /\ Taken' = Taken
        /\ Filling' = Filling /\ Filled' = Filled
    BY <1>0, <1>a, <2>1, ConsumerMove DEF EmptyingLabels, ClaimedLabels, TakenLabels
  <2>4. SlotsAccounted'
    BY <1>0, <1>a, <1>2, <2>3 DEF ConsumerEnter, TypeOK, SlotsAccounted, Goto
  <2>5. Taken' + Used' = K
    BY <1>0, <1>a, <1>2, <2>3 DEF ConsumerEnter, TypeOK, Used, Goto
  <2>6. RingConsistent'
    BY <1>0, <1>2, <2>5 DEF ConsumerEnter, RingConsistent
  <2> QED BY <2>2, <2>4, <2>6 DEF IInv
<1>3. CASE ConsumerTake(c)
  <2>1. Goto(c, "take", "forward")
    BY <1>3 DEF ConsumerTake
  <2>2. TypeOK'
    BY <1>0, <1>a, <1>3
    DEF ConsumerTake, TypeOK, Goto, Labels
  <2>3. /\ Emptying' = Emptying /\ Claimed' = Claimed - 1 /\ Taken' = Taken + 1
        /\ Filling' = Filling /\ Filled' = Filled
    BY <1>0, <1>a, <2>1, ConsumerMove DEF EmptyingLabels, ClaimedLabels, TakenLabels
  <2>4. SlotsAccounted'
    BY <1>0, <1>a, <1>3, <2>3 DEF ConsumerTake, TypeOK, SlotsAccounted, Goto
  <2>5. Taken' + Used' = K
    BY <1>0, <1>a, <1>3, <2>3 DEF ConsumerTake, TypeOK, Used, Goto
  <2>6. RingConsistent'
    BY <1>0, <1>3, <2>5 DEF ConsumerTake, RingConsistent
  <2> QED BY <2>2, <2>4, <2>6 DEF IInv
<1>4. CASE ConsumerForward(c)
  <2>1. Goto(c, "forward", "leave")
    BY <1>4 DEF ConsumerForward
  <2>2. TypeOK'
    BY <1>0, <1>a, <1>4, NextSlotInRing
    DEF ConsumerForward, TypeOK, Goto, Labels
  <2>3. /\ Emptying' = Emptying /\ Claimed' = Claimed /\ Taken' = Taken - 1
        /\ Filling' = Filling /\ Filled' = Filled
    BY <1>0, <1>a, <2>1, ConsumerMove DEF EmptyingLabels, ClaimedLabels, TakenLabels
  <2>4. read' = NextSlot(read) /\ write' = Wrap(read + K) /\ K \in 1 .. Size /\ read \in Slots
    BY <1>0, <1>a, <1>4 DEF ConsumerForward, RingConsistent, Goto, TypeOK
  <2>5. Taken' + Used' = K - 1
    BY <1>0, <1>a, <2>3, <1>4 DEF ConsumerForward, Used, TypeOK
  <2>6. Wrap(NextSlot(read) + (K - 1)) = Wrap(read + K)
    <3> HIDE DEF K
    <3>1. K - 1 \in Nat /\ K - 1 < Size /\ (K - 1) + 1 = K
      BY <1>a, <2>4
    <3> QED BY <2>4, <3>1, ReadAdvance
  <2>7. RingConsistent'
    BY <2>4, <2>5, <2>6 DEF RingConsistent
  <2> QED BY <2>2, <2>3, <2>7, <1>0, <1>a, <1>4 DEF IInv, ConsumerForward, SlotsAccounted
<1>5. CASE ConsumerLeave(c)
  <2>1. Goto(c, "leave", "release")
    BY <1>5 DEF ConsumerLeave
  <2>2. TypeOK'
    BY <1>0, <1>a, <1>5
    DEF ConsumerLeave, TypeOK, Goto, Labels
  <2>3. /\ Emptying' = Emptying /\ Claimed' = Claimed /\ Taken' = Taken
        /\ Filling' = Filling /\ Filled' = Filled
    BY <1>0, <1>a, <2>1, ConsumerMove DEF EmptyingLabels, ClaimedLabels, TakenLabels
  <2>4. SlotsAccounted'
    BY <1>0, <1>a, <1>5, <2>3 DEF ConsumerLeave, TypeOK, SlotsAccounted, Goto
  <2>5. Taken' + Used' = K
    BY <1>0, <1>a, <1>5, <2>3 DEF ConsumerLeave, TypeOK, Used, Goto
  <2>6. RingConsistent'
    BY <1>0, <1>5, <2>5 DEF ConsumerLeave, RingConsistent
  <2> QED BY <2>2, <2>4, <2>6 DEF IInv
<1>6. CASE ConsumerRelease(c)
  <2>1. Goto(c, "release", "visit")
    BY <1>6 DEF ConsumerRelease
  <2>2. TypeOK'
    BY <1>0, <1>a, <1>6
    DEF ConsumerRelease, TypeOK, Goto, Labels, Post
  <2>3. /\ Emptying' = Emptying - 1 /\ Claimed' = Claimed /\ Taken' = Taken
        /\ Filling' = Filling /\ Filled' = Filled
    BY <1>0, <1>a, <2>1, ConsumerMove DEF EmptyingLabels, ClaimedLabels, TakenLabels
  <2>4. SlotsAccounted'
    BY <1>0, <1>a, <1>6, <2>3 DEF ConsumerRelease, TypeOK, SlotsAccounted, Goto, Post
  <2>5. Taken' + Used' = K
    BY <1>0, <1>a, <1>6, <2>3 DEF ConsumerRelease, TypeOK, Used, Goto, Post
  <2>6. RingConsistent'
    BY <1>0, <1>6, <2>5 DEF ConsumerRelease, RingConsistent
  <2> QED BY <2>2, <2>4, <2>6 DEF IInv
<1>7. CASE ConsumerVisit(c)
  <2>1. Goto(c, "visit", "wait")
    BY <1>7 DEF ConsumerVisit
  <2>2. TypeOK'
    BY <1>0, <1>a, <1>7
    DEF ConsumerVisit, TypeOK, Goto, Labels
  <2>3. /\ Emptying' = Emptying /\ Claimed' = Claimed /\ Taken' = Taken
        /\ Filling' = Filling /\ Filled' = Filled
    BY <1>0, <1>a, <2>1, ConsumerMove DEF EmptyingLabels, ClaimedLabels, TakenLabels
  <2>4. SlotsAccounted'
    BY <1>0, <1>a, <1>7, <2>3 DEF ConsumerVisit, TypeOK, SlotsAccounted, Goto
  <2>5. Taken' + Used' = K
    BY <1>0, <1>a, <1>7, <2>3 DEF ConsumerVisit, TypeOK, Used, Goto
  <2>6. RingConsistent'
    BY <1>0, <1>7, <2>5 DEF ConsumerVisit, RingConsistent
  <2> QED BY <2>2, <2>4, <2>6 DEF IInv
<1> QED BY <1>1, <1>2, <1>3, <1>4, <1>5, <1>6, <1>7 DEF ConsumerStep

(* The invariant holds in every reachable state.                              *)
THEOREM Inductive == Spec => []IInv
<1>1. Init => IInv
  BY BufferAssumption, InitIInv
<1>2. IInv /\ [Next]_vars => IInv'
  <2> SUFFICES ASSUME IInv, [Next]_vars PROVE IInv'
    OBVIOUS
  <2>1. CASE Next
    BY <2>1, BufferAssumption, ProducerIInv, ConsumerIInv DEF Next
  <2>2. CASE UNCHANGED vars
    <3>1. /\ TypeOK' = TypeOK /\ Filling' = Filling /\ Filled' = Filled
          /\ Emptying' = Emptying /\ Claimed' = Claimed /\ Taken' = Taken
      BY <2>2 DEF vars, TypeOK, Filling, Filled, Emptying, Claimed, Taken,
                  ProducersAt, ConsumersAt
    <3> QED BY <2>2, <3>1 DEF vars, IInv, SlotsAccounted, RingConsistent, Used
  <2> QED BY <2>1, <2>2
<1> QED BY <1>1, <1>2, PTL DEF Spec

(* Indices, counters and generated values stay in range (LAB10/E05.cpp).      *)
THEOREM TypeCorrect == Spec => []TypeOK
BY Inductive, PTL DEF IInv

(* Counters and the threads between wait and release account for every slot,
   so no ReleaseSemaphore of E05.cpp ever fails. *)
THEOREM SlotsCorrect == Spec => []SlotsAccounted
BY Inductive, PTL DEF IInv

(* The write index is ahead of the read index by the items in the ring.       *)
THEOREM RingCorrect == Spec => []RingConsistent
BY Inductive, PTL DEF IInv

(* insert and remove may overlap: they never use the same slot.               *)
THEOREM WriterApart == Spec => []WriterApartFromReader
<1>1. ASSUME IInv PROVE WriterApartFromReader
  <2> SUFFICES ASSUME NEW p \in Producers, pc[p] \in {"store", "forward"},
                      NEW c \in Consumers, pc[c] \in {"take", "forward"}
               PROVE  write # read
    BY DEF WriterApartFromReader, ProducersAt, ConsumersAt
  <2>1. Filled + 1 <= Filling /\ Claimed + Taken > 0
    BY BufferAssumption, CountBounds
  <2>2. Taken + Used \in 1 .. Size - 1
    BY <1>1, <2>1, BufferAssumption, CountBounds
    DEF IInv, TypeOK, SlotsAccounted, Used, BufferAssumption
  <2>3. write = Wrap(read + (Taken + Used)) /\ read \in Slots
    BY <1>1 DEF IInv, TypeOK, RingConsistent
  <2> QED BY <2>2, <2>3, BufferAssumption
          DEF Wrap, Slots, BufferAssumption
<1> QED BY <1>1, Inductive, PTL

-----------------------------------------------------------------------------
(* What the channel adds to the invariant: who is inside insert or remove owns
   the critical section, what a producer is about to put was generated, and what
   it has stored stays in its slot until the index moves. *)
Exclusion ==
    /\ \A p \in Producers : pc[p] \in {"store", "forward", "leave"} => csP = p
    /\ \A c \in Consumers : pc[c] \in {"take", "forward", "leave"} => csC = c

Stored ==
    \A p \in Producers :
        /\ pc[p] \in {"store", "forward"} => val[p] \in Values
        /\ pc[p] = "forward" => buffer[write] = val[p]

FifoInv == IInv /\ Exclusion /\ Stored

(* The mapping of ChannelSpec.                                                *)
Queue == [i \in 1 .. Used |-> buffer[Wrap(read + Taken + i - 1)]]
Offered == [p \in Producers |-> IF pc[p] \in {"store", "forward"} THEN val[p] ELSE NoValue]
Got == [c \in Consumers |-> val[c]]

(* Both sides leave the critical section and the values of the other alone.   *)
LEMMA FifoStep ==
    ASSUME FifoInv, [Next]_vars
    PROVE  Exclusion' /\ Stored'
<1>1. /\ TypeOK /\ Exclusion /\ Stored /\ Producers \cap Consumers = {}
      /\ NoThread \notin Producers \cup Consumers
      /\ pc = [t \in Threads |-> pc[t]] /\ val = [t \in Threads |-> val[t]]
      /\ buffer = [j \in Slots |-> buffer[j]] /\ write \in Slots
      /\ Producers \subseteq Threads /\ Consumers \subseteq Threads
  BY BufferAssumption DEF FifoInv, IInv, TypeOK, Threads
<1>2. ASSUME NEW p \in Producers, ProducerStep(p)
      PROVE  Exclusion' /\ Stored'
  <2>1. /\ \A q \in Producers \ {p} : pc'[q] = pc[q] /\ val'[q] = val[q]
        /\ \A c \in Consumers : pc'[c] = pc[c]
        /\ csC' = csC
    BY <1>1, <1>2 DEF ProducerStep, ProducerWait, ProducerEnter, ProducerStore, ProducerForward,
       ProducerLeave, ProducerRelease, Goto
  <2>2. \/ pc'[p] \in {"enter", "release", "wait"} /\ csP' \in {csP, NoThread}
           /\ (csP' = csP \/ pc[p] = "leave") /\ buffer' = buffer /\ write' = write
        \/ csP = NoThread /\ csP' = p /\ pc'[p] = "store" /\ val'[p] \in Values
           /\ buffer' = buffer /\ write' = write
        \/ pc[p] = "store" /\ csP' = csP /\ pc'[p] = "forward" /\ val' = val
           /\ buffer' = [buffer EXCEPT ![write] = val[p]] /\ write' = write
        \/ pc[p] = "forward" /\ csP' = csP /\ pc'[p] = "leave" /\ val' = val
    BY <1>1, <1>2 DEF ProducerStep, ProducerWait, ProducerEnter, ProducerStore, ProducerForward,
       ProducerLeave, ProducerRelease, Goto
  <2>3. \A q \in Producers \ {p} : pc[q] \in {"store", "forward", "leave"} =>
           csP = q /\ pc[p] \notin {"store", "forward", "leave"}
    BY <1>1 DEF Exclusion
  <2>4. Exclusion'
    BY <1>1, <2>1, <2>2, <2>3 DEF Exclusion
  <2>5. \A q \in Producers \ {p} : pc'[q] = "forward" => buffer' = buffer /\ write' = write
    BY <1>1, <2>1, <2>2, <2>3
  <2>6. pc'[p] = "forward" => buffer'[write'] = val'[p]
    BY <1>1, <2>2
  <2>7. pc'[p] \in {"store", "forward"} => val'[p] \in Values
    BY <1>1, <2>2 DEF Stored
  <2> QED BY <1>1, <2>1, <2>4, <2>5, <2>6, <2>7 DEF Stored
<1>3. ASSUME NEW c \in Consumers, ConsumerStep(c)
      PROVE  Exclusion' /\ Stored'
  <2>1. /\ \A p \in Producers : pc'[p] = pc[p] /\ val'[p] = val[p]
        /\ \A d \in Consumers \ {c} : pc'[d] = pc[d]
        /\ csP' = csP /\ buffer' = buffer /\ write' = write
    BY <1>1, <1>3 DEF ConsumerStep, ConsumerWait, ConsumerEnter, ConsumerTake, ConsumerForward,
       ConsumerLeave, ConsumerRelease, ConsumerVisit, Goto
  <2>2. \/ pc'[c] \notin {"take", "forward", "leave"} /\ csC' \in {csC, NoThread}
           /\ (csC' = csC \/ pc[c] = "leave")
        \/ csC = NoThread /\ csC' = c
        \/ pc[c] \in {"take", "forward"} /\ csC' = csC
    BY <1>1, <1>3 DEF ConsumerStep, ConsumerWait, ConsumerEnter, ConsumerTake, ConsumerForward,
       ConsumerLeave, ConsumerRelease, ConsumerVisit, Goto
  <2>3. Exclusion'
    BY <1>1, <2>1, <2>2 DEF Exclusion
  <2>4. Stored'
    BY <1>1, <2>1 DEF Stored
  <2> QED BY <2>3, <2>4
<1>4. CASE UNCHANGED vars
  BY <1>1, <1>4 DEF vars, Exclusion, Stored
<1> QED BY <1>2, <1>3, <1>4 DEF Next

(* The invariant, with what the channel adds, holds in every reachable state. *)
THEOREM FifoInductive == Spec => []FifoInv
<1>1. Init => Exclusion /\ Stored
  BY DEF Init, Exclusion, Stored, Threads
<1>2. IInv /\ IInv' /\ Exclusion /\ Stored /\ [Next]_vars => Exclusion' /\ Stored'
  BY FifoStep DEF FifoInv
<1> QED BY <1>1, <1>2, Inductive, PTL DEF Spec, FifoInv

-----------------------------------------------------------------------------
(* The items of the ring never reach around to the slot after them.           *)
LEMMA QueueType ==
    ASSUME IInv
    PROVE  /\ Used \in Nat /\ Taken \in Nat /\ Taken + Used <= Size /\ Size \in Nat \ {0}
           /\ read \in Slots /\ write \in Slots /\ buffer \in [Slots -> Values \cup {NoValue}]
           /\ \A k \in 0 .. Size : Wrap(read + k) \in Slots
           /\ \A j, k \in 0 .. Size - 1 : Wrap(read + j) = Wrap(read + k) => j = k
           /\ Queue \in Seq(Values \cup {NoValue}) /\ Len(Queue) = Used
<1>1. /\ Used \in Nat /\ Taken \in Nat /\ Taken + Used <= Size /\ Size \in Nat \ {0}
  BY BufferAssumption, CountBounds DEF IInv, TypeOK, SlotsAccounted, Used, BufferAssumption
<1>2. read \in Slots /\ write \in Slots /\ buffer \in [Slots -> Values \cup {NoValue}]
  BY DEF IInv, TypeOK
<1>3. \A k \in 0 .. Size : Wrap(read + k) \in Slots
  BY <1>1, <1>2 DEF Wrap, Slots
<1>4. \A j, k \in 0 .. Size - 1 : Wrap(read + j) = Wrap(read + k) => j = k
  BY <1>1, <1>2 DEF Wrap, Slots
<1>5. \A i \in 1 .. Used : buffer[Wrap(read + Taken + i - 1)] \in Values \cup {NoValue}
  <2> SUFFICES ASSUME NEW i \in 1 .. Used
               PROVE  buffer[Wrap(read + Taken + i - 1)] \in Values \cup {NoValue}
    OBVIOUS
  <2>1. /\ Taken + (i - 1) \in 0 .. Size
        /\ read + Taken + i - 1 = read + (Taken + (i - 1))
    BY <1>1, <1>2 DEF Slots
  <2>2. Wrap(read + Taken + i - 1) \in Slots
    BY <2>1, <1>3
  <2> QED BY <2>2, <1>2
<1>6. Queue \in [1 .. Used -> Values \cup {NoValue}]
  BY <1>5 DEF Queue
<1> QED BY <1>1, <1>2, <1>3, <1>4, <1>6

(* What the steps do to the number of items in the ring.                      *)
LEMMA UsedByProducer ==
    ASSUME IInv, NEW p \in Producers, ProducerStep(p)
    PROVE  Taken' = Taken /\ Used' = Used + (IF pc[p] = "forward" THEN 1 ELSE 0)
<1> USE BufferAssumption
<1>0. TypeOK /\ Filled \in Nat /\ Claimed \in Nat /\ fillCount \in Nat /\ Size \in Nat
      /\ fillCount <= Size
  BY CountBounds DEF IInv, TypeOK, BufferAssumption
<1>1. CASE ProducerRelease(p)
  <2>1. Goto(p, "release", "wait")
    BY <1>1 DEF ProducerRelease
  <2>2. fillCount < Size
    <3>1. p \in ProducersAt(FillingLabels) /\ IsFiniteSet(ProducersAt(FillingLabels))
      BY <2>1, FS_Subset DEF ProducersAt, FillingLabels, Goto, BufferAssumption
    <3>2. Filling # 0
      BY <3>1, FS_EmptySet DEF Filling
    <3>3. Filling \in Nat /\ Emptying \in Nat /\ emptyCount \in Nat
      BY CountBounds DEF IInv, TypeOK, BufferAssumption
    <3>4. emptyCount + fillCount + Filling + Emptying = Size
      BY DEF IInv, SlotsAccounted
    <3> QED BY <3>2, <3>3, <3>4, <1>0
  <2>3. Filled' = Filled - 1 /\ Claimed' = Claimed /\ Taken' = Taken
    BY <1>0, <2>1, ProducerMove DEF FillingLabels, FilledLabels
  <2> QED BY <1>0, <1>1, <2>1, <2>2, <2>3 DEF ProducerRelease, Used, Goto, Post
<1>2. CASE ProducerForward(p)
  <2>1. Goto(p, "forward", "leave")
    BY <1>2 DEF ProducerForward
  <2>2. Filled' = Filled + 1 /\ Claimed' = Claimed /\ Taken' = Taken
    BY <1>0, <2>1, ProducerMove DEF FillingLabels, FilledLabels
  <2> QED BY <1>0, <1>2, <2>1, <2>2 DEF ProducerForward, Used, Goto
<1>3. ASSUME NEW from, NEW to, Goto(p, from, to), fillCount' = fillCount,
             from \notin FilledLabels \cup {"forward"}, to \notin FilledLabels
      PROVE  Taken' = Taken /\ Used' = Used + (IF pc[p] = "forward" THEN 1 ELSE 0)
  <2>1. Filled' = Filled /\ Claimed' = Claimed /\ Taken' = Taken
    BY <1>0, <1>3, ProducerMove
  <2> QED BY <1>0, <1>3, <2>1 DEF Used, Goto
<1>4. CASE ProducerLeave(p)
  <2>1. Goto(p, "leave", "release")
    BY <1>4 DEF ProducerLeave
  <2>2. Filled' = Filled /\ Claimed' = Claimed /\ Taken' = Taken
    BY <1>0, <2>1, ProducerMove DEF FilledLabels
  <2> QED BY <1>0, <1>4, <2>1, <2>2 DEF ProducerLeave, Used, Goto
<1>5. CASE ProducerWait(p)
  BY <1>3, <1>5 DEF ProducerWait, FilledLabels
<1>6. CASE ProducerEnter(p)
  BY <1>3, <1>6 DEF ProducerEnter, FilledLabels
<1>7. CASE ProducerStore(p)
  BY <1>3, <1>7 DEF ProducerStore, FilledLabels
<1> QED BY <1>1, <1>2, <1>4, <1>5, <1>6, <1>7 DEF ProducerStep

LEMMA UsedByConsumer ==
    ASSUME IInv, NEW c \in Consumers, ConsumerStep(c)
    PROVE  /\ Taken' = Taken + (IF pc[c] = "take" THEN 1 ELSE IF pc[c] = "forward" THEN -1 ELSE 0)
           /\ Used' = Used - (IF pc[c] = "take" THEN 1 ELSE 0)
<1> USE BufferAssumption
<1>0. /\ TypeOK /\ Filled \in Nat /\ Claimed \in Nat /\ Taken \in Nat /\ fillCount \in Nat
  BY CountBounds DEF IInv, TypeOK, BufferAssumption
<1>1. CASE ConsumerWait(c)
  <2>1. Goto(c, "wait", "enter")
    BY <1>1 DEF ConsumerWait
  <2>2. Claimed' = Claimed + 1 /\ Filled' = Filled /\ Taken' = Taken
    BY <1>0, <2>1, ConsumerMove DEF ClaimedLabels, TakenLabels
  <2> QED BY <1>0, <1>1, <2>1, <2>2 DEF ConsumerWait, Used, Goto
<1>2. CASE ConsumerEnter(c)
  <2>1. Goto(c, "enter", "take")
    BY <1>2 DEF ConsumerEnter
  <2>2. Claimed' = Claimed /\ Filled' = Filled /\ Taken' = Taken
    BY <1>0, <2>1, ConsumerMove DEF ClaimedLabels, TakenLabels
  <2> QED BY <1>0, <1>2, <2>1, <2>2 DEF ConsumerEnter, Used, Goto
<1>3. CASE ConsumerTake(c)
  <2>1. Goto(c, "take", "forward")
    BY <1>3 DEF ConsumerTake
  <2>2. Claimed' = Claimed - 1 /\ Filled' = Filled /\ Taken' = Taken + 1
    BY <1>0, <2>1, ConsumerMove DEF ClaimedLabels, TakenLabels
  <2> QED BY <1>0, <1>3, <2>1, <2>2 DEF ConsumerTake, Used, Goto
<1>4. CASE ConsumerForward(c)
  <2>1. Goto(c, "forward", "leave")
    BY <1>4 DEF ConsumerForward
  <2>2. Claimed' = Claimed /\ Filled' = Filled /\ Taken' = Taken - 1
    BY <1>0, <2>1, ConsumerMove DEF ClaimedLabels, TakenLabels
  <2> QED BY <1>0, <1>4, <2>1, <2>2 DEF ConsumerForward, Used, Goto
<1>5. ASSUME NEW from, NEW to, Goto(c, from, to), fillCount' = fillCount,
             from \notin {"enter", "take", "forward"}, to \notin {"enter", "take", "forward"}
      PROVE  Taken' = Taken /\ Used' = Used
  <2>1. Filled' = Filled /\ Claimed' = Claimed /\ Taken' = Taken
    BY <1>0, <1>5, ConsumerMove DEF ClaimedLabels, TakenLabels
  <2> QED BY <1>0, <1>5, <2>1 DEF Used
<1>6. CASE ConsumerLeave(c) \/ ConsumerRelease(c) \/ ConsumerVisit(c)
  <2>1. Taken' = Taken /\ Used' = Used
    BY <1>5, <1>6 DEF ConsumerLeave, ConsumerRelease, ConsumerVisit
  <2>2. Used \in Nat
    BY <1>0 DEF Used
  <2> QED BY <1>0, <1>6, <2>1, <2>2 DEF ConsumerLeave, ConsumerRelease, ConsumerVisit, Goto
<1> QED BY <1>1, <1>2, <1>3, <1>4, <1>6 DEF ConsumerStep

(* At most one consumer is inside remove: when one takes, none has taken.     *)
LEMMA NoneTaken ==
    ASSUME FifoInv, NEW c \in Consumers, pc[c] = "take"
    PROVE  Taken = 0 /\ Used > 0
<1>1. ConsumersAt(TakenLabels) = {}
  BY DEF FifoInv, Exclusion, ConsumersAt, TakenLabels
<1>2. Taken = 0
  BY <1>1, FS_EmptySet DEF Taken
<1>3. Claimed + Taken > 0 /\ Claimed \in Nat /\ Filled \in Nat /\ fillCount \in Nat
  BY BufferAssumption, CountBounds DEF FifoInv, IInv, TypeOK, BufferAssumption
<1> QED BY <1>2, <1>3 DEF Used

-----------------------------------------------------------------------------
(* A producer offers when it generates, and puts when the index moves.        *)
LEMMA ProducerPuts ==
    ASSUME FifoInv, FifoInv', NEW p \in Producers, ProducerStep(p)
    PROVE  \/ UNCHANGED <<Queue, Offered, Got>>
           \/ /\ Offered[p] = NoValue /\ \E v \in Values : Offered' = [Offered EXCEPT ![p] = v]
              /\ UNCHANGED <<Queue, Got>>
           \/ /\ Offered[p] # NoValue /\ Len(Queue) < Size
              /\ Queue' = Append(Queue, Offered[p])
              /\ Offered' = [Offered EXCEPT ![p] = NoValue] /\ UNCHANGED Got
<1> DEFINE V == Values \cup {NoValue}
<1>0. /\ IInv /\ Exclusion /\ Stored /\ Producers \cap Consumers = {} /\ NoValue \notin Values
      /\ pc = [t \in Threads |-> pc[t]] /\ val = [t \in Threads |-> val[t]]
      /\ Producers \subseteq Threads /\ Consumers \subseteq Threads
  BY BufferAssumption DEF FifoInv, IInv, TypeOK, Threads
<1>1. /\ Used \in Nat /\ Taken \in Nat /\ Taken + Used <= Size /\ Size \in Nat
      /\ read \in Slots /\ write \in Slots /\ buffer \in [Slots -> V]
      /\ write = Wrap(read + (Taken + Used)) /\ read \in Nat
      /\ \A j, k \in 0 .. Size - 1 : Wrap(read + j) = Wrap(read + k) => j = k
      /\ Queue \in Seq(V) /\ Len(Queue) = Used
  BY <1>0, QueueType DEF IInv, RingConsistent, Slots
<1>2. Taken' = Taken /\ Used' = Used + (IF pc[p] = "forward" THEN 1 ELSE 0)
  BY <1>0, UsedByProducer
<1>3. Got' = Got
  <2>1. \A c \in Consumers : val'[c] = val[c]
    BY <1>0 DEF ProducerStep, ProducerWait, ProducerEnter, ProducerStore, ProducerForward,
       ProducerLeave, ProducerRelease
  <2> QED BY <2>1 DEF Got
<1>4. pc[p] \in {"store", "forward"} => Taken + Used < Size
  <2>1. pc[p] \in {"store", "forward"} => Filled + 1 <= Filling
    BY BufferAssumption, CountBounds
  <2> QED BY <2>1, <1>0, BufferAssumption, CountBounds
          DEF IInv, TypeOK, SlotsAccounted, Used, BufferAssumption
<1>5. ASSUME read' = read, buffer' = buffer, pc[p] # "forward"
      PROVE  Queue' = Queue
  BY <1>1, <1>2, <1>5 DEF Queue, Wrap
<1>6. CASE ProducerWait(p) \/ ProducerLeave(p) \/ ProducerRelease(p)
  <2>1. Queue' = Queue
    BY <1>5, <1>6 DEF ProducerWait, ProducerLeave, ProducerRelease, Goto
  <2>2. Offered' = Offered
    BY <1>0, <1>6 DEF ProducerWait, ProducerLeave, ProducerRelease, Goto, Offered
  <2> QED BY <2>1, <2>2, <1>3
<1>7. CASE ProducerEnter(p)
  <2>1. Queue' = Queue
    BY <1>5, <1>7 DEF ProducerEnter, Goto
  <2>2. PICK v \in Values : val' = [val EXCEPT ![p] = v]
    BY <1>7 DEF ProducerEnter
  <2>3. Offered[p] = NoValue /\ Offered' = [Offered EXCEPT ![p] = v]
    BY <1>0, <1>7, <2>2 DEF ProducerEnter, Goto, Offered
  <2> QED BY <2>1, <2>3, <1>3
<1>8. CASE ProducerStore(p)
  <2>1. /\ read' = read /\ buffer' = [buffer EXCEPT ![write] = val[p]] /\ pc[p] = "store"
    BY <1>8 DEF ProducerStore, Goto
  <2>2. ASSUME NEW i \in 1 .. Used
        PROVE  buffer'[Wrap(read + Taken + i - 1)] = buffer[Wrap(read + Taken + i - 1)]
    <3>1. /\ Taken + (i - 1) \in 0 .. Size - 1 /\ Taken + Used \in 0 .. Size - 1
          /\ Taken + (i - 1) # Taken + Used
          /\ read + Taken + i - 1 = read + (Taken + (i - 1))
      BY <1>1, <1>4, <2>1
    <3>2. Wrap(read + Taken + i - 1) # write
      BY <3>1, <1>1
    <3> QED BY <3>2, <2>1, <1>1
  <2>5. Used' = Used /\ Taken' = Taken
    BY <2>1, <1>1, <1>2
  <2>3. Queue' = Queue
    <3>1. Queue' = [i \in 1 .. Used |-> buffer'[Wrap(read + Taken + i - 1)]]
      BY <2>1, <2>5 DEF Queue, Wrap
    <3> QED BY <3>1, <2>2 DEF Queue
  <2>4. Offered' = Offered
    BY <1>0, <1>8 DEF ProducerStore, Goto, Offered
  <2> QED BY <2>3, <2>4, <1>3
<1>9. CASE ProducerForward(p)
  <2>1. /\ read' = read /\ buffer' = buffer /\ pc[p] = "forward"
        /\ pc' = [pc EXCEPT ![p] = "leave"] /\ val' = val
    BY <1>9 DEF ProducerForward, Goto
  <2>2. buffer[write] = val[p] /\ val[p] \in Values
    BY <2>1, <1>0 DEF Stored
  <2>3. Offered[p] = val[p] /\ Offered' = [Offered EXCEPT ![p] = NoValue]
    BY <1>0, <2>1 DEF Offered
  <2>4. Queue' = Append(Queue, val[p])
    <3>1. Queue' = [i \in 1 .. Used + 1 |-> buffer[Wrap(read + Taken + i - 1)]]
      BY <2>1, <1>2 DEF Queue, Wrap
    <3>2. ASSUME NEW i \in 1 .. Used
          PROVE  Queue'[i] = Queue[i]
      <4>1. i \in 1 .. Used + 1
        BY <1>1
      <4> QED BY <3>1, <4>1 DEF Queue
    <3>3. Queue'[Used + 1] = val[p]
      <4>1. read + Taken + (Used + 1) - 1 = read + (Taken + Used)
        BY <1>1
      <4>2. Used + 1 \in 1 .. Used + 1
        BY <1>1
      <4> QED BY <3>1, <4>1, <4>2, <2>2, <1>1
    <3>4. /\ Append(Queue, val[p]) \in [1 .. Used + 1 -> V]
          /\ \A i \in 1 .. Used : Append(Queue, val[p])[i] = Queue[i]
          /\ Append(Queue, val[p])[Used + 1] = val[p]
      <4> HIDE DEF Queue
      <4>1. val[p] \in V /\ Queue \in Seq(V) /\ Len(Queue) = Used /\ Used \in Nat
        BY <1>1, <2>2
      <4>2. /\ Append(Queue, val[p]) \in Seq(V) /\ Len(Append(Queue, val[p])) = Used + 1
            /\ \A i \in 1 .. Used : Append(Queue, val[p])[i] = Queue[i]
            /\ Append(Queue, val[p])[Used + 1] = val[p]
        BY <4>1, AppendProperties
      <4> QED BY <4>1, <4>2, LenProperties
    <3>5. ASSUME NEW i \in 1 .. Used + 1
          PROVE  Queue'[i] = Append(Queue, val[p])[i]
      <4>1. i \in 1 .. Used \/ i = Used + 1
        BY <1>1
      <4> QED BY <4>1, <3>2, <3>3, <3>4
    <3> HIDE DEF Queue
    <3>6. Queue' = [i \in 1 .. Used + 1 |-> Queue'[i]]
      BY <3>1
    <3> QED BY <3>4, <3>5, <3>6
  <2> QED BY <2>2, <2>3, <2>4, <1>0, <1>1, <1>3, <1>4, <2>1
<1> QED BY <1>6, <1>7, <1>8, <1>9 DEF ProducerStep

(* A consumer gets the oldest item when it reads the slot.                    *)
LEMMA ConsumerGets ==
    ASSUME FifoInv, FifoInv', NEW c \in Consumers, ConsumerStep(c)
    PROVE  \/ UNCHANGED <<Queue, Offered, Got>>
           \/ /\ Queue # <<>> /\ Got' = [Got EXCEPT ![c] = Head(Queue)]
              /\ Queue' = Tail(Queue) /\ UNCHANGED Offered
<1> DEFINE V == Values \cup {NoValue}
<1>0. /\ IInv /\ IInv' /\ Producers \cap Consumers = {}
      /\ pc = [t \in Threads |-> pc[t]] /\ val = [t \in Threads |-> val[t]]
      /\ Producers \subseteq Threads /\ Consumers \subseteq Threads
  BY BufferAssumption DEF FifoInv, IInv, TypeOK, Threads
<1>1. /\ Used \in Nat /\ Taken \in Nat /\ Taken + Used <= Size /\ Size \in Nat
      /\ read \in Slots /\ read \in Nat
      /\ Queue \in Seq(V) /\ Len(Queue) = Used
  BY <1>0, QueueType DEF Slots
<1>2. /\ Taken' = Taken + (IF pc[c] = "take" THEN 1 ELSE IF pc[c] = "forward" THEN -1 ELSE 0)
      /\ Used' = Used - (IF pc[c] = "take" THEN 1 ELSE 0)
  BY <1>0, UsedByConsumer
<1>3. Offered' = Offered
  <2>1. \A p \in Producers : pc'[p] = pc[p] /\ val'[p] = val[p]
    BY <1>0 DEF ConsumerStep, ConsumerWait, ConsumerEnter, ConsumerTake, ConsumerForward,
       ConsumerLeave, ConsumerRelease, ConsumerVisit, Goto
  <2> QED BY <2>1 DEF Offered
<1>4. CASE ConsumerWait(c) \/ ConsumerEnter(c) \/ ConsumerLeave(c) \/ ConsumerRelease(c)
           \/ ConsumerVisit(c)
  <2>1. read' = read /\ buffer' = buffer /\ val' = val /\ pc[c] \notin {"take", "forward"}
    BY <1>4 DEF ConsumerWait, ConsumerEnter, ConsumerLeave, ConsumerRelease, ConsumerVisit, Goto
  <2>2. Used' = Used /\ Taken' = Taken
    BY <2>1, <1>1, <1>2
  <2> QED BY <2>1, <2>2, <1>3 DEF Queue, Got, Wrap
<1>5. CASE ConsumerTake(c)
  <2>1. /\ pc[c] = "take" /\ read' = read /\ buffer' = buffer
        /\ val' = [val EXCEPT ![c] = buffer[read]]
    BY <1>5 DEF ConsumerTake, Goto
  <2>2. Taken = 0 /\ Used > 0 /\ Taken' = 1 /\ Used' = Used - 1
    BY <2>1, <1>1, <1>2, NoneTaken
  <2>3. Queue # <<>> /\ Queue[1] = buffer[read]
    <3>1. 1 \in 1 .. Used /\ read + Taken + 1 - 1 = read /\ Wrap(read) = read
      BY <2>2, <1>1 DEF Wrap, Slots
    <3>2. Queue[1] = buffer[read]
      BY <3>1 DEF Queue
    <3> QED BY <3>2, <2>2, <1>1
  <2>4. Queue' = Tail(Queue)
    <3>1. Queue' = [i \in 1 .. Used - 1 |-> buffer[Wrap(read + 1 + i - 1)]]
      BY <2>1, <2>2 DEF Queue, Wrap
    <3>2. \A i \in 1 .. Used - 1 : Queue'[i] = Queue[i + 1]
      <4> SUFFICES ASSUME NEW i \in 1 .. Used - 1
                   PROVE  Queue'[i] = Queue[i + 1]
        OBVIOUS
      <4>1. i + 1 \in 1 .. Used /\ read + Taken + (i + 1) - 1 = read + 1 + i - 1
        BY <2>2, <1>1
      <4> QED BY <4>1, <3>1 DEF Queue
    <3>3. /\ Tail(Queue) \in Seq(V) /\ Len(Tail(Queue)) = Used - 1
          /\ \A i \in 1 .. Used - 1 : Tail(Queue)[i] = Queue[i + 1]
      BY <1>1, <2>3, HeadTailProperties
    <3>4. Tail(Queue) = [i \in 1 .. Used - 1 |-> Tail(Queue)[i]]
      BY <3>3, LenProperties
    <3>5. Queue' = [i \in 1 .. Used - 1 |-> Queue'[i]]
      BY <3>1
    <3> QED BY <3>2, <3>3, <3>4, <3>5
  <2>5. Got' = [Got EXCEPT ![c] = Head(Queue)]
    <3>1. Head(Queue) = buffer[read]
      BY <2>3, <1>1, HeadTailProperties
    <3>2. c \in Threads
      BY <1>0
    <3> QED BY <2>1, <3>1, <3>2, <1>0 DEF Got
  <2> QED BY <2>3, <2>4, <2>5, <1>3
<1>6. CASE ConsumerForward(c)
  <2>1. /\ pc[c] = "forward" /\ read' = NextSlot(read) /\ buffer' = buffer /\ val' = val
    BY <1>6 DEF ConsumerForward, Goto
  <2>0. Taken # 0
    <3>1. c \in ConsumersAt(TakenLabels) /\ IsFiniteSet(ConsumersAt(TakenLabels))
      BY <2>1, BufferAssumption, FS_Subset DEF ConsumersAt, TakenLabels, BufferAssumption
    <3> QED BY <3>1, FS_EmptySet DEF Taken
  <2>2. Taken' = Taken - 1 /\ Used' = Used /\ Taken' \in Nat
    BY <2>1, <2>0, <1>1, <1>2
  <2>3. ASSUME NEW i \in 1 .. Used
        PROVE  Wrap(NextSlot(read) + Taken' + i - 1) = Wrap(read + Taken + i - 1)
    <3>1. /\ (Taken - 1) + (i - 1) \in Nat /\ (Taken - 1) + (i - 1) < Size
          /\ read + (((Taken - 1) + (i - 1)) + 1) = read + Taken + i - 1
      BY <2>2, <1>1
    <3>2. NextSlot(read) \in Nat
      BY <1>1 DEF NextSlot, Slots
    <3>3. NextSlot(read) + Taken' + i - 1 = NextSlot(read) + ((Taken - 1) + (i - 1))
      BY <3>1, <3>2, <2>2, <1>1
    <3> QED BY <3>1, <3>3, <1>1, BufferAssumption, ReadAdvance
  <2>4. Queue' = Queue
    BY <2>1, <2>2, <2>3 DEF Queue, Wrap
  <2> QED BY <2>1, <2>4, <1>3 DEF Got
<1> QED BY <1>4, <1>5, <1>6 DEF ConsumerStep

(* The ring of E05.cpp is a FIFO channel of Size places: every value a producer
   generates is put once and got once, in the order of the puts. *)
THEOREM ImplementsChannel == Spec => ChannelSpec
<1>1. Init => Channel!Init
  <2> SUFFICES ASSUME Init
               PROVE  Channel!Init
    OBVIOUS
  <2>1. Used = 0
    <3>1. ProducersAt(FilledLabels) = {} /\ ConsumersAt(ClaimedLabels) = {}
      BY DEF Init, ProducersAt, ConsumersAt, FilledLabels, ClaimedLabels, Threads
    <3>2. Filled = 0 /\ Claimed = 0
      BY <3>1, FS_EmptySet DEF Filled, Claimed
    <3> QED BY <3>2 DEF Used, Init
  <2>2. Queue = <<>>
    BY <2>1 DEF Queue
  <2> QED BY <2>2 DEF Init, Channel!Init, Threads, Queue
<1>2. FifoInv /\ FifoInv' /\ [Next]_vars => [Channel!Next]_(Channel!channelVars)
  <2> SUFFICES ASSUME FifoInv, FifoInv', [Next]_vars
               PROVE  [Channel!Next]_(Channel!channelVars)
    OBVIOUS
  <2>1. ASSUME NEW p \in Producers, ProducerStep(p)
        PROVE  [Channel!Next]_(Channel!channelVars)
    BY <2>1, ProducerPuts DEF Channel!Next, Channel!channelVars, Channel!Offer, Channel!Put,
       Queue, Offered, Got
  <2>2. ASSUME NEW c \in Consumers, ConsumerStep(c)
        PROVE  [Channel!Next]_(Channel!channelVars)
    BY <2>2, ConsumerGets DEF Channel!Next, Channel!channelVars, Channel!Get,
       Queue, Offered, Got
  <2>3. CASE UNCHANGED vars
    BY <2>3 DEF vars, Channel!channelVars, Used, Filled, Claimed, Taken, ProducersAt, ConsumersAt,
       Wrap
  <2> QED BY <2>1, <2>2, <2>3 DEF Next
<1> QED BY <1>1, <1>2, FifoInductive, PTL DEF Spec, ChannelSpec, Channel!Spec

-----------------------------------------------------------------------------
(* The files of xv6 *)

FileRecords == [ref : Nat, type : {"none", "inode", "pipe"}, ip : 0 .. NINODE, off : Nat,
                readable : BOOLEAN, writable : BOOLEAN]
InodeRecords == [type : {"free", "file", "dir", "dev"}, nlink : Nat, ref : Nat, size : Nat,
                 entries : [Names -> 0 .. NINODE]]
InodeTables == [Inodes -> InodeRecords]

(* What a process has looked up is an inode, a directory or a file; only what
   the code goes on to use is said. *)
HandTyped(found) ==
    /\ found.op \in {"iput", "link"} => found.ip \in Inodes
    /\ found.op = "link" => found.new \in Paths
    /\ found.op = "unlink" => found.dp \in Inodes /\ found.name \in Names
    /\ found.op = "write" =>
          /\ found.file \in 1 .. NFILE
          /\ found = [op |-> "write", file |-> found.file, left |-> found.left]
PendingTyped ==
    /\ pending = [p \in Callers |-> pending[p]]
    /\ \A p \in Callers : HandTyped(pending[p])

FilesTyped ==
    /\ ftable \in [1 .. NFILE -> FileRecords]
    /\ ofile \in [Callers -> [1 .. NOFILE -> 0 .. NFILE]]
    /\ inode \in InodeTables
    /\ PendingTyped

(* The descriptors that are the open file f, and the open files and the
   processes that use the inode i *)
Descriptors(fds, f) == {x \in Callers \X (1 .. NOFILE) : fds[x[1]][x[2]] = f}
OnInode(file, i) == file.type = "inode" /\ file.ip = i
Opened(ft, i) == {f \in 1 .. NFILE : OnInode(ft[f], i)}
InHand(found, i) ==
    \/ found.op \in {"iput", "link"} /\ found.ip = i
    \/ found.op = "unlink" /\ found.dp = i
Holders(looked, i) == {p \in Callers : InHand(looked[p], i)}

(* In a table of inodes: the names of the inode i, and the directories in it *)
Named(t, i) == {x \in Inodes \X Names : t[x[1]].entries[x[2]] = i}
Inside(t, i) == {n \in Names : t[i].entries[n] # 0 /\ t[t[i].entries[n]].type = "dir"}

(* Who is not born has no descriptor, and a free entry uses no inode. *)
FreeFiles ==
    /\ \A f \in 1 .. NFILE : ftable[f].ref = 0 => ftable[f].type # "inode"
    /\ \A f \in 1 .. NFILE : ftable[f].type = "inode" => ftable[f].ip # 0
    /\ \A p \in Callers \ alive : \A fd \in 1 .. NOFILE : ofile[p][fd] = 0

(* Names lead from directories to other inodes than themselves and the root; a
   directory that has no name is empty.  Link counts are right, and what has
   neither names nor users is free. *)
LinksRight(t) ==
    \A i \in Inodes :
        t[i].nlink = Cardinality(Named(t, i)) + Cardinality(Inside(t, i))
                     + (IF i = ROOT THEN 1 ELSE 0)
Freed(t) == \A i \in Inodes : t[i].type = "free" <=> (t[i].nlink = 0 /\ t[i].ref = 0)
Tree(t) ==
    /\ t \in InodeTables
    /\ t[ROOT].type = "dir"
    /\ \A i \in Inodes, n \in Names : t[i].entries[n] # ROOT /\ t[i].entries[n] # i
    /\ \A i \in Inodes, n \in Names : t[i].type # "dir" => t[i].entries[n] = 0
    /\ \A i \in Inodes \ {ROOT} : Named(t, i) = {} => \A n \in Names : t[i].entries[n] = 0
    /\ LinksRight(t)
    /\ Freed(t)

FilesCounted ==
    \A f \in 1 .. NFILE : ftable[f].ref = Cardinality(Descriptors(ofile, f))
InodesCounted ==
    \A i \in Inodes :
        inode[i].ref = Cardinality(Opened(ftable, i)) + Cardinality(Holders(pending, i))

FilesIInv == FilesTyped /\ FreeFiles /\ FilesCounted /\ InodesCounted /\ Tree(inode)

-----------------------------------------------------------------------------

(* A set that changes in one element *)
LEMMA OneChanged ==
    ASSUME NEW A, NEW B, NEW d, IsFiniteSet(A), \A x : x # d => (x \in A <=> x \in B)
    PROVE  /\ IsFiniteSet(B) /\ Cardinality(A) \in Nat /\ Cardinality(B) \in Nat
           /\ Cardinality(B) = Cardinality(A)
                 - (IF d \in A THEN 1 ELSE 0) + (IF d \in B THEN 1 ELSE 0)
<1>1. Cardinality(A) \in Nat
  BY FS_CardinalityType
<1>2. CASE d \in A /\ d \in B
  <2>1. A = B
    BY <1>2
  <2> QED BY <1>1, <1>2, <2>1
<1>3. CASE d \in A /\ d \notin B
  <2>1. B = A \ {d}
    BY <1>3
  <2>2. IsFiniteSet(B) /\ Cardinality(B) = Cardinality(A) - 1
    BY <1>3, <2>1, FS_RemoveElement
  <2>3. Cardinality(B) \in Nat
    BY <2>2, FS_CardinalityType
  <2> QED BY <1>1, <1>3, <2>2, <2>3
<1>4. CASE d \notin A /\ d \in B
  <2>1. B = A \cup {d}
    BY <1>4
  <2>2. IsFiniteSet(B) /\ Cardinality(B) = Cardinality(A) + 1
    BY <1>4, <2>1, FS_AddElement
  <2> QED BY <1>1, <1>4, <2>2
<1>5. CASE d \notin A /\ d \notin B
  <2>1. A = B
    BY <1>5
  <2> QED BY <1>1, <1>5, <2>1
<1> QED BY <1>2, <1>3, <1>4, <1>5

(* What the assumption on the constants says of the ranges *)
LEMMA Numbers ==
    /\ NOFILE \in Nat /\ NFILE \in Nat /\ NINODE \in Nat /\ ROOT \in Inodes /\ 0 \notin Inodes
    /\ 1 .. NFILE \subseteq Nat /\ 1 .. NOFILE \subseteq Nat /\ Inodes \subseteq Nat
    /\ 0 \notin 1 .. NFILE /\ 0 .. NFILE = (1 .. NFILE) \cup {0}
    /\ 0 .. NINODE = Inodes \cup {0}
BY FilesAssumption DEF ROOT, Inodes

(* What is counted is finite. *)
LEMMA FiniteDescriptors ==
    ASSUME NEW fds, NEW f
    PROVE  IsFiniteSet(Descriptors(fds, f)) /\ Cardinality(Descriptors(fds, f)) \in Nat
<1>1. IsFiniteSet(Callers) /\ IsFiniteSet(1 .. NOFILE)
  BY FilesAssumption, FS_Interval
<1>2. IsFiniteSet(Callers \X (1 .. NOFILE))
  BY <1>1, FS_Product
<1>3. IsFiniteSet(Descriptors(fds, f))
  BY <1>2, FS_Subset DEF Descriptors
<1> QED BY <1>3, FS_CardinalityType

LEMMA FiniteUsers ==
    ASSUME NEW ft, NEW looked, NEW i
    PROVE  /\ IsFiniteSet(Opened(ft, i)) /\ Cardinality(Opened(ft, i)) \in Nat
           /\ IsFiniteSet(Holders(looked, i)) /\ Cardinality(Holders(looked, i)) \in Nat
<1>1. IsFiniteSet(Callers) /\ IsFiniteSet(1 .. NFILE)
  BY FilesAssumption, FS_Interval
<1>2. IsFiniteSet(Opened(ft, i))
  BY <1>1, FS_Subset DEF Opened
<1>3. IsFiniteSet(Holders(looked, i))
  BY <1>1, FS_Subset DEF Holders
<1> QED BY <1>2, <1>3, FS_CardinalityType

LEMMA FiniteNames ==
    ASSUME NEW t
    PROVE  \A i \in Inodes : /\ IsFiniteSet(Named(t, i)) /\ Cardinality(Named(t, i)) \in Nat
                             /\ IsFiniteSet(Inside(t, i)) /\ Cardinality(Inside(t, i)) \in Nat
<1>1. IsFiniteSet(Names) /\ IsFiniteSet(Inodes)
  BY FilesAssumption, FS_Interval DEF Inodes
<1>2. IsFiniteSet(Inodes \X Names)
  BY <1>1, FS_Product
<1>3. \A i \in Inodes : IsFiniteSet(Named(t, i))
  BY <1>2, FS_Subset DEF Named
<1>4. \A i \in Inodes : IsFiniteSet(Inside(t, i))
  BY <1>1, FS_Subset DEF Inside
<1> QED BY <1>3, <1>4, FS_CardinalityType

(* What is selected in a table is an index of an entry that is free. *)
LEMMA LeastOf ==
    ASSUME NEW S, S \subseteq Nat, S # {}
    PROVE  Min(S) \in S
<1>1. PICK x \in S : \A y \in S : ~ (<<y, x>> \in OpToRel(<, Nat))
  BY NatLessThanWellFounded, WFMin
<1>2. \A y \in S : x =< y
  <2>1. \A y \in S : ~ (y < x)
    BY <1>1 DEF OpToRel
  <2> QED BY <2>1
<1> QED BY <1>2 DEF Min

LEMMA LengthOf ==
    ASSUME NEW S, NEW n \in Nat, NEW s \in [1 .. n -> S]
    PROVE  Len(s) = n
<1>1. s \in Seq(S)
  BY SeqDef
<1> QED BY <1>1, LenProperties

(* filealloc, fdalloc and ialloc return an index of an entry that is free. *)
LEMMA FreeFileFound ==
    ASSUME NEW S, NEW ft \in [1 .. NFILE -> S], filealloc(ft) # 0
    PROVE  filealloc(ft) \in 1 .. NFILE /\ ft[filealloc(ft)].ref = 0
<1> DEFINE I == {f \in 1 .. NFILE : ft[f].ref = 0}
<1>1. Len(ft) = NFILE
  BY Numbers, LengthOf
<1>2. filealloc(ft) = IF I # {} THEN Min(I) ELSE 0
  BY <1>1 DEF filealloc, SelectInSeq
<1>3. I # {} /\ filealloc(ft) = Min(I)
  BY <1>2
<1>4. Min(I) \in I
  BY <1>3, LeastOf, Numbers
<1> QED BY <1>3, <1>4

LEMMA FreeDescriptorFound ==
    ASSUME NEW S, NEW fds \in [1 .. NOFILE -> S], fdalloc(fds) # 0
    PROVE  fdalloc(fds) \in 1 .. NOFILE /\ fds[fdalloc(fds)] = 0
<1> DEFINE I == {f \in 1 .. NOFILE : fds[f] = 0}
<1>1. Len(fds) = NOFILE
  BY Numbers, LengthOf
<1>2. fdalloc(fds) = IF I # {} THEN Min(I) ELSE 0
  BY <1>1 DEF fdalloc, SelectInSeq
<1>3. I # {} /\ fdalloc(fds) = Min(I)
  BY <1>2
<1>4. Min(I) \in I
  BY <1>3, LeastOf, Numbers
<1> QED BY <1>3, <1>4

LEMMA FreeInodeFound ==
    ASSUME NEW S, NEW t \in [Inodes -> S], ialloc(t) # 0
    PROVE  ialloc(t) \in Inodes /\ t[ialloc(t)].type = "free"
<1> DEFINE I == {i \in Inodes : t[i].type = "free"}
<1>1. Len(t) = NINODE
  BY Numbers, LengthOf DEF Inodes
<1>2. ialloc(t) = IF I # {} THEN Min(I) ELSE 0
  BY <1>1 DEF ialloc, SelectInSeq, Inodes
<1>3. I # {} /\ ialloc(t) = Min(I)
  BY <1>2
<1>4. Min(I) \in I
  BY <1>3, LeastOf, Numbers
<1> QED BY <1>3, <1>4

-----------------------------------------------------------------------------

(* A name leads to an inode that is in use, from a directory that is. *)
LEMMA DirectoryCounted ==
    ASSUME NEW t, Tree(t), NEW i \in Inodes, NEW n \in Names, t[i].entries[n] # 0
    PROVE  t[i].nlink >= 1
<1>1. i = ROOT \/ Cardinality(Named(t, i)) # 0
  <2>1. i # ROOT => Named(t, i) # {}
    BY DEF Tree
  <2> QED BY <2>1, FiniteNames, FS_EmptySet
<1>2. t[i].nlink = Cardinality(Named(t, i)) + Cardinality(Inside(t, i))
                   + (IF i = ROOT THEN 1 ELSE 0)
  BY DEF Tree, LinksRight
<1>3. Cardinality(Named(t, i)) \in Nat /\ Cardinality(Inside(t, i)) \in Nat
  BY FiniteNames
<1> QED BY <1>1, <1>2, <1>3

(* Where the name leads: to another inode, which has it among its links; a
   directory that holds another has a link besides its own name. *)
LEMMA NameLeads ==
    ASSUME NEW t, Tree(t), NEW i \in Inodes, NEW n \in Names, NEW k, k = t[i].entries[n], k # 0
    PROVE  /\ k \in Inodes /\ k # i /\ k # ROOT /\ <<i, n>> \in Named(t, k)
           /\ t[k].nlink >= 1 /\ t[k].type # "free"
           /\ t[i].type = "dir" /\ t[i].nlink >= 1
           /\ t[k].type = "dir" => n \in Inside(t, i) /\ t[i].nlink >= 2
<1>1. t \in InodeTables
  BY DEF Tree
<1>2. k \in Inodes
  BY <1>1, Numbers DEF InodeTables, InodeRecords
<1>3. k # i /\ k # ROOT /\ t[i].type = "dir"
  BY DEF Tree
<1>4. <<i, n>> \in Named(t, k)
  BY DEF Named
<1>5. t[i].nlink \in Nat /\ t[k].nlink \in Nat
  BY <1>1, <1>2 DEF InodeTables, InodeRecords
<1>6. /\ t[k].nlink = Cardinality(Named(t, k)) + Cardinality(Inside(t, k))
      /\ t[i].nlink = Cardinality(Named(t, i)) + Cardinality(Inside(t, i))
                      + (IF i = ROOT THEN 1 ELSE 0)
  <2>1. /\ t[k].nlink = Cardinality(Named(t, k)) + Cardinality(Inside(t, k))
                        + (IF k = ROOT THEN 1 ELSE 0)
        /\ t[i].nlink = Cardinality(Named(t, i)) + Cardinality(Inside(t, i))
                        + (IF i = ROOT THEN 1 ELSE 0)
    BY <1>2 DEF Tree, LinksRight
  <2>2. Cardinality(Named(t, k)) \in Nat /\ Cardinality(Inside(t, k)) \in Nat
    BY <1>2, FiniteNames
  <2> QED BY <1>3, <2>1, <2>2
<1>7. /\ Cardinality(Named(t, k)) \in Nat /\ Cardinality(Inside(t, k)) \in Nat
      /\ Cardinality(Named(t, i)) \in Nat /\ Cardinality(Inside(t, i)) \in Nat
  BY <1>2, FiniteNames
<1>8. Cardinality(Named(t, k)) # 0
  BY <1>2, <1>4, FiniteNames, FS_EmptySet
<1>9. t[k].nlink >= 1
  BY <1>6, <1>7, <1>8
<1>10. t[k].type # "free"
  BY <1>2, <1>9 DEF Tree, Freed
<1>11. i = ROOT \/ Cardinality(Named(t, i)) # 0
  <2>1. i # ROOT => Named(t, i) # {}
    BY DEF Tree
  <2> QED BY <2>1, FiniteNames, FS_EmptySet
<1>12. t[i].nlink >= 1
  BY <1>6, <1>7, <1>11
<1>13. ASSUME t[k].type = "dir" PROVE n \in Inside(t, i) /\ t[i].nlink >= 2
  <2>1. n \in Inside(t, i)
    BY <1>13 DEF Inside
  <2>2. Cardinality(Inside(t, i)) # 0
    BY <2>1, FiniteNames, FS_EmptySet
  <2> QED BY <1>6, <1>7, <1>11, <2>1, <2>2
<1> QED BY <1>2, <1>3, <1>4, <1>9, <1>10, <1>12, <1>13

(* What a name leads to is not free. *)
LEMMA NameInUse ==
    ASSUME NEW t, Tree(t), NEW i \in Inodes, NEW n \in Names, t[i].entries[n] # 0
    PROVE  t[t[i].entries[n]].type # "free"
<1> DEFINE k == t[i].entries[n]
<1>1. k \in Inodes /\ t[k].nlink >= 1
  BY NameLeads
<1> QED BY <1>1 DEF Tree, Freed

(* What neither names nor types of inodes are changed by *)
LEMMA SameLinks ==
    ASSUME NEW t, Tree(t), NEW u \in InodeTables, Freed(u),
           \A j \in Inodes : /\ u[j].type = t[j].type /\ u[j].nlink = t[j].nlink
                             /\ u[j].entries = t[j].entries
    PROVE  Tree(u)
<1>1. \A j \in Inodes : Named(u, j) = Named(t, j)
  BY DEF Named
<1>2. \A j \in Inodes : Inside(u, j) = Inside(t, j)
  <2>1. \A j \in Inodes, n \in Names : t[j].entries[n] # 0 => t[j].entries[n] \in Inodes
    BY NameLeads
  <2> QED BY <2>1 DEF Inside
<1>3. LinksRight(u)
  BY <1>1, <1>2 DEF Tree, LinksRight
<1>4. /\ u[ROOT].type = "dir"
      /\ \A i \in Inodes, n \in Names : u[i].entries[n] # ROOT /\ u[i].entries[n] # i
      /\ \A i \in Inodes, n \in Names : u[i].type # "dir" => u[i].entries[n] = 0
  BY Numbers DEF Tree
<1>5. \A i \in Inodes \ {ROOT} : Named(u, i) = {} => \A n \in Names : u[i].entries[n] = 0
  BY <1>1 DEF Tree
<1> QED BY <1>3, <1>4, <1>5 DEF Tree

(* A reference more, and one less of several or to what has a name *)
LEMMA IgetKeeps ==
    ASSUME NEW t, Tree(t), NEW i \in Inodes, t[i].type # "free"
    PROVE  /\ Tree(iget(t, i))
           /\ \A j \in Inodes : iget(t, i)[j].nlink = t[j].nlink
           /\ \A j \in Inodes : iget(t, i)[j].ref = t[j].ref + (IF j = i THEN 1 ELSE 0)
<1> DEFINE u == iget(t, i)
<1>1. t \in InodeTables
  BY DEF Tree
<1>2. u \in InodeTables
  BY <1>1 DEF iget, InodeTables, InodeRecords
<1>3. \A j \in Inodes : /\ u[j].type = t[j].type /\ u[j].nlink = t[j].nlink
                        /\ u[j].entries = t[j].entries
                        /\ u[j].ref = t[j].ref + (IF j = i THEN 1 ELSE 0)
  BY <1>1 DEF iget, InodeTables, InodeRecords
<1>4. Freed(u)
  <2> SUFFICES ASSUME NEW j \in Inodes
               PROVE  u[j].type = "free" <=> (u[j].nlink = 0 /\ u[j].ref = 0)
    BY DEF Freed
  <2>1. t[j].type = "free" <=> (t[j].nlink = 0 /\ t[j].ref = 0)
    BY DEF Tree, Freed
  <2>2. t[j].ref \in Nat
    BY <1>1 DEF InodeTables, InodeRecords
  <2> HIDE DEF u
  <2> QED BY <1>3, <2>1, <2>2
<1> HIDE DEF u
<1>5. Tree(u)
  BY <1>2, <1>3, <1>4, SameLinks
<1> QED BY <1>3, <1>5 DEF u

(* The last reference frees what has no name. *)
LEMMA IputKeeps ==
    ASSUME NEW t, Tree(t), NEW i \in Inodes, t[i].ref >= 1
    PROVE  /\ Tree(iput(t, i))
           /\ \A j \in Inodes : iput(t, i)[j].ref = t[j].ref - (IF j = i THEN 1 ELSE 0)
<1> DEFINE u == iput(t, i)
<1>1. t \in InodeTables /\ t[i].ref \in Nat /\ t[i].nlink \in Nat
  BY DEF Tree, InodeTables, InodeRecords
<1>2. t[i].type # "free"
  BY <1>1 DEF Tree, Freed
<1>3. CASE ~ (t[i].ref = 1 /\ t[i].nlink = 0)
  <2>1. u = [t EXCEPT ![i].ref = @ - 1]
    BY <1>3 DEF iput
  <2>2. u \in InodeTables
    BY <1>1, <2>1 DEF InodeTables, InodeRecords
  <2>3. \A j \in Inodes : /\ u[j].type = t[j].type /\ u[j].nlink = t[j].nlink
                          /\ u[j].entries = t[j].entries
                          /\ u[j].ref = t[j].ref - (IF j = i THEN 1 ELSE 0)
    BY <1>1, <2>1 DEF InodeTables, InodeRecords
  <2>4. Freed(u)
    <3> SUFFICES ASSUME NEW j \in Inodes
                 PROVE  u[j].type = "free" <=> (u[j].nlink = 0 /\ u[j].ref = 0)
      BY DEF Freed
    <3>1. t[j].type = "free" <=> (t[j].nlink = 0 /\ t[j].ref = 0)
      BY DEF Tree, Freed
    <3>2. t[j].ref \in Nat
      BY <1>1 DEF InodeTables, InodeRecords
    <3> HIDE DEF u
    <3> QED BY <1>1, <1>2, <1>3, <2>3, <3>1, <3>2
  <2> HIDE DEF u
  <2>5. Tree(u)
    BY <2>2, <2>3, <2>4, SameLinks
  <2> QED BY <2>3, <2>5 DEF u
<1>4. CASE t[i].ref = 1 /\ t[i].nlink = 0
  <2>1. u = [t EXCEPT ![i] = FreeInode]
    BY <1>4 DEF iput
  <2>2. Cardinality(Named(t, i)) = 0 /\ Cardinality(Inside(t, i)) = 0 /\ i # ROOT
    <3>1. t[i].nlink = Cardinality(Named(t, i)) + Cardinality(Inside(t, i))
                       + (IF i = ROOT THEN 1 ELSE 0)
      BY DEF Tree, LinksRight
    <3> QED BY <1>4, <3>1, FiniteNames
  <2>3. Named(t, i) = {}
    BY <2>2, FiniteNames, FS_EmptySet
  <2>4. \A n \in Names : t[i].entries[n] = 0
    BY <2>2, <2>3 DEF Tree
  <2>5. t[i].entries = [n \in Names |-> 0]
    BY <1>1, <2>4 DEF InodeTables, InodeRecords
  <2>6. u \in InodeTables
    BY <1>1, <2>1, Numbers DEF FreeInode, InodeTables, InodeRecords
  <2>7. /\ u[i] = FreeInode
        /\ \A j \in Inodes : j # i => u[j] = t[j]
    BY <1>1, <2>1 DEF InodeTables
  <2>8. \A j \in Inodes : u[j].entries = t[j].entries /\ u[j].nlink = t[j].nlink
    BY <1>4, <2>5, <2>7 DEF FreeInode
  <2>9. \A j \in Inodes : Named(u, j) = Named(t, j)
    BY <2>8 DEF Named
  <2>10. \A j \in Inodes, n \in Names :
            t[j].entries[n] # 0 => t[j].entries[n] \in Inodes /\ t[j].entries[n] # i
    BY <2>3, NameLeads
  <2>11. \A j \in Inodes : Inside(u, j) = Inside(t, j)
    BY <2>7, <2>8, <2>10 DEF Inside
  <2>12. LinksRight(u)
    BY <2>8, <2>9, <2>11 DEF Tree, LinksRight
  <2>13. Freed(u)
    <3>1. FreeInode.type = "free" /\ FreeInode.nlink = 0 /\ FreeInode.ref = 0
      BY DEF FreeInode
    <3> QED BY <2>7, <3>1 DEF Tree, Freed
  <2>14. /\ u[ROOT].type = "dir"
         /\ \A j \in Inodes, n \in Names : u[j].entries[n] # ROOT /\ u[j].entries[n] # j
    BY <2>2, <2>7, <2>8, Numbers DEF Tree
  <2>15. \A j \in Inodes, n \in Names : u[j].type # "dir" => u[j].entries[n] = 0
    BY <2>4, <2>7, <2>8 DEF Tree
  <2>16. \A j \in Inodes \ {ROOT} : Named(u, j) = {} => \A n \in Names : u[j].entries[n] = 0
    BY <2>8, <2>9 DEF Tree
  <2>17. Tree(u)
    BY <2>6, <2>12, <2>13, <2>14, <2>15, <2>16 DEF Tree
  <2>18. \A j \in Inodes : u[j].ref = t[j].ref - (IF j = i THEN 1 ELSE 0)
    BY <1>1, <1>4, <2>7 DEF FreeInode, InodeTables, InodeRecords
  <2> HIDE DEF u
  <2> QED BY <1>4, <2>7, <2>8, <2>17, <2>18 DEF u
<1> QED BY <1>3, <1>4

(* One entry of the directory dp is another; the types of other inodes that
   have names are as they were. *)
EntrySet(t, u, dp, n, k) ==
    /\ \A j \in Inodes, m \in Names :
          u[j].entries[m] = IF j = dp /\ m = n THEN k ELSE t[j].entries[m]
    /\ \A j \in Inodes : t[j].type # "free" => u[j].type = t[j].type

Has(S, x) == IF x \in S THEN 1 ELSE 0

(* The directories in a directory, and the names of an inode, differ by that
   entry alone. *)
LEMMA InsideElsewhere ==
    ASSUME NEW t, NEW u, Tree(t), NEW dp \in Inodes, NEW n \in Names, NEW k,
           EntrySet(t, u, dp, n, k), NEW j \in Inodes, NEW m, j # dp \/ m # n
    PROVE  m \in Inside(t, j) <=> m \in Inside(u, j)
<1>1. m \in Inside(t, j) \/ m \in Inside(u, j) => m \in Names
  BY DEF Inside
<1>2. ASSUME m \in Names PROVE m \in Inside(t, j) <=> m \in Inside(u, j)
  <2>1. u[j].entries[m] = t[j].entries[m]
    BY <1>2 DEF EntrySet
  <2>2. t[j].entries[m] # 0 => u[t[j].entries[m]].type = t[t[j].entries[m]].type
    <3>1. t[j].entries[m] # 0 => /\ t[j].entries[m] \in Inodes
                                 /\ t[t[j].entries[m]].type # "free"
      BY <1>2, NameLeads, NameInUse
    <3> QED BY <3>1 DEF EntrySet
  <2> QED BY <2>1, <2>2 DEF Inside
<1> QED BY <1>1, <1>2

LEMMA InsideCounts ==
    ASSUME NEW t, NEW u, Tree(t), NEW dp \in Inodes, NEW n \in Names, NEW k,
           EntrySet(t, u, dp, n, k)
    PROVE  Cardinality(Inside(u, dp)) =
              Cardinality(Inside(t, dp)) - Has(Inside(t, dp), n) + Has(Inside(u, dp), n)
<1>1. \A m : m # n => (m \in Inside(t, dp) <=> m \in Inside(u, dp))
  BY InsideElsewhere
<1>2. IsFiniteSet(Inside(t, dp))
  BY FiniteNames
<1> QED BY <1>1, <1>2, OneChanged DEF Has

LEMMA NamedElsewhere ==
    ASSUME NEW t, NEW u, NEW dp \in Inodes, NEW n \in Names, NEW k,
           EntrySet(t, u, dp, n, k), NEW j \in Inodes, NEW x, x # <<dp, n>>
    PROVE  x \in Named(t, j) <=> x \in Named(u, j)
BY DEF Named, EntrySet

LEMMA NamedCounts ==
    ASSUME NEW t, NEW u, NEW dp \in Inodes, NEW n \in Names, NEW k,
           EntrySet(t, u, dp, n, k), NEW j \in Inodes
    PROVE  Cardinality(Named(u, j)) = Cardinality(Named(t, j))
              - (IF t[dp].entries[n] = j THEN 1 ELSE 0) + (IF k = j THEN 1 ELSE 0)
<1>1. \A x : x # <<dp, n>> => (x \in Named(t, j) <=> x \in Named(u, j))
  BY NamedElsewhere
<1>2. /\ <<dp, n>> \in Named(t, j) <=> t[dp].entries[n] = j
      /\ <<dp, n>> \in Named(u, j) <=> k = j
  BY DEF Named, EntrySet
<1>3. IsFiniteSet(Named(t, j))
  BY FiniteNames
<1>4. Cardinality(Named(u, j)) = Cardinality(Named(t, j))
         - (IF <<dp, n>> \in Named(t, j) THEN 1 ELSE 0)
         + (IF <<dp, n>> \in Named(u, j) THEN 1 ELSE 0)
  BY <1>1, <1>3, OneChanged
<1> QED BY <1>2, <1>4

(* A directory in which an entry may be made *)
Reached(t, dp) == dp \in Inodes /\ t[dp].type = "dir" /\ (dp = ROOT \/ Named(t, dp) # {})

(* A name is given to the inode k, in a free entry of a directory. *)
LEMMA NameGiven ==
    ASSUME NEW t, Tree(t), NEW u \in InodeTables, NEW dp, Reached(t, dp),
           NEW n \in Names, t[dp].entries[n] = 0, NEW k \in Inodes, k # dp, k # ROOT,
           EntrySet(t, u, dp, n, k), Freed(u),
           t[k].type = "free" \/ u[k].type # "dir", u[ROOT].type = "dir",
           \A j \in Inodes : u[j].type = t[j].type \/ j = k,
           \A j \in Inodes : u[j].nlink = t[j].nlink + (IF j = k THEN 1 ELSE 0)
                                + (IF j = dp /\ u[k].type = "dir" THEN 1 ELSE 0)
    PROVE  Tree(u)
<1>1. t \in InodeTables /\ dp \in Inodes /\ t[dp].type = "dir"
  BY DEF Tree, Reached
<1>2. n \notin Inside(t, dp)
  BY DEF Inside
<1>3. n \in Inside(u, dp) <=> u[k].type = "dir"
  <2>1. u[dp].entries[n] = k
    BY <1>1 DEF EntrySet
  <2> QED BY <2>1, Numbers DEF Inside
<1>4. LinksRight(u)
  <2> SUFFICES ASSUME NEW j \in Inodes
               PROVE  u[j].nlink = Cardinality(Named(u, j)) + Cardinality(Inside(u, j))
                                   + (IF j = ROOT THEN 1 ELSE 0)
    BY DEF LinksRight
  <2>1. t[j].nlink = Cardinality(Named(t, j)) + Cardinality(Inside(t, j))
                     + (IF j = ROOT THEN 1 ELSE 0)
    BY DEF Tree, LinksRight
  <2>2. Cardinality(Named(t, j)) \in Nat /\ Cardinality(Inside(t, j)) \in Nat
    BY FiniteNames
  <2>3. Cardinality(Named(u, j)) = Cardinality(Named(t, j)) + (IF k = j THEN 1 ELSE 0)
    <3>1. Cardinality(Named(u, j)) = Cardinality(Named(t, j))
             - (IF t[dp].entries[n] = j THEN 1 ELSE 0) + (IF k = j THEN 1 ELSE 0)
      BY <1>1, NamedCounts
    <3> QED BY <2>2, <3>1, Numbers
  <2>4. Cardinality(Inside(u, j)) = Cardinality(Inside(t, j))
                                    + (IF j = dp /\ u[k].type = "dir" THEN 1 ELSE 0)
    <3>1. ASSUME j # dp PROVE Inside(u, j) = Inside(t, j)
      <4>1. \A m : m \in Inside(t, j) <=> m \in Inside(u, j)
        BY <1>1, <3>1, InsideElsewhere
      <4> QED BY <4>1
    <3>2. Cardinality(Inside(u, dp)) =
             Cardinality(Inside(t, dp)) - Has(Inside(t, dp), n) + Has(Inside(u, dp), n)
      BY <1>1, InsideCounts
    <3> QED BY <1>2, <1>3, <2>2, <3>1, <3>2 DEF Has
  <2> QED BY <2>1, <2>2, <2>3, <2>4
<1>5. \A i \in Inodes, m \in Names : u[i].entries[m] # ROOT /\ u[i].entries[m] # i
  BY DEF Tree, EntrySet
<1>6. \A i \in Inodes, m \in Names : u[i].type # "dir" => u[i].entries[m] = 0
  <2> SUFFICES ASSUME NEW i \in Inodes, NEW m \in Names, u[i].entries[m] # 0
               PROVE  u[i].type = "dir"
    OBVIOUS
  <2>1. i = dp => u[i].type = "dir"
    BY <1>1
  <2>2. i # dp => t[i].entries[m] # 0
    BY DEF EntrySet
  <2>3. i # dp => t[i].type = "dir"
    BY <2>2 DEF Tree
  <2>4. i = k => t[k].type = "free" \/ u[i].type = "dir" \/ i = dp
    <3>1. SUFFICES ASSUME i = k, t[k].type # "free", i # dp PROVE u[i].type = "dir"
      OBVIOUS
    <3> QED BY <2>3, <3>1 DEF EntrySet
  <2> QED BY <2>1, <2>3, <2>4
<1>7. \A i \in Inodes \ {ROOT} : Named(u, i) = {} => \A m \in Names : u[i].entries[m] = 0
  <2> SUFFICES ASSUME NEW i \in Inodes \ {ROOT}, Named(u, i) = {}, NEW m \in Names
               PROVE  u[i].entries[m] = 0
    OBVIOUS
  <2>1. Named(t, i) = {}
    <3>1. \A x : x # <<dp, n>> => (x \in Named(t, i) <=> x \in Named(u, i))
      BY <1>1, NamedElsewhere
    <3>2. <<dp, n>> \notin Named(t, i)
      BY Numbers DEF Named
    <3> QED BY <3>1, <3>2
  <2>2. i # dp
    BY <2>1 DEF Reached
  <2>3. t[i].entries[m] = 0
    BY <2>1 DEF Tree
  <2> QED BY <2>2, <2>3 DEF EntrySet
<1> QED BY <1>4, <1>5, <1>6, <1>7 DEF Tree

(* The name n of the directory dp is taken from the inode k, which is an empty
   directory or no directory. *)
LEMMA NameTaken ==
    ASSUME NEW t, Tree(t), NEW u \in InodeTables, NEW dp \in Inodes,
           NEW n \in Names, NEW k, k = t[dp].entries[n], k # 0,
           EntrySet(t, u, dp, n, 0), Freed(u),
           t[k].type = "dir" => \A m \in Names : t[k].entries[m] = 0,
           \A j \in Inodes : u[j].type = t[j].type,
           \A j \in Inodes : u[j].nlink = t[j].nlink - (IF j = k THEN 1 ELSE 0)
                                - (IF j = dp /\ t[k].type = "dir" THEN 1 ELSE 0)
    PROVE  Tree(u)
<1>1. /\ t \in InodeTables /\ k \in Inodes /\ k # dp /\ k # ROOT
      /\ n \in Inside(t, dp) <=> t[k].type = "dir"
  BY NameLeads DEF Tree, Inside
<1>2. n \notin Inside(u, dp)
  BY DEF Inside, EntrySet
<1>3. LinksRight(u)
  <2> SUFFICES ASSUME NEW j \in Inodes
               PROVE  u[j].nlink = Cardinality(Named(u, j)) + Cardinality(Inside(u, j))
                                   + (IF j = ROOT THEN 1 ELSE 0)
    BY DEF LinksRight
  <2>1. t[j].nlink = Cardinality(Named(t, j)) + Cardinality(Inside(t, j))
                     + (IF j = ROOT THEN 1 ELSE 0)
    BY DEF Tree, LinksRight
  <2>2. Cardinality(Named(t, j)) \in Nat /\ Cardinality(Inside(t, j)) \in Nat
    BY FiniteNames
  <2>3. Cardinality(Named(u, j)) = Cardinality(Named(t, j)) - (IF k = j THEN 1 ELSE 0)
    <3>1. Cardinality(Named(u, j)) = Cardinality(Named(t, j))
             - (IF t[dp].entries[n] = j THEN 1 ELSE 0) + (IF 0 = j THEN 1 ELSE 0)
      BY NamedCounts
    <3> QED BY <2>2, <3>1, Numbers
  <2>4. Cardinality(Inside(u, j)) = Cardinality(Inside(t, j))
                                    - (IF j = dp /\ t[k].type = "dir" THEN 1 ELSE 0)
    <3>1. ASSUME j # dp PROVE Inside(u, j) = Inside(t, j)
      <4>1. \A m : m \in Inside(t, j) <=> m \in Inside(u, j)
        BY <3>1, InsideElsewhere
      <4> QED BY <4>1
    <3>2. Cardinality(Inside(u, dp)) =
             Cardinality(Inside(t, dp)) - Has(Inside(t, dp), n) + Has(Inside(u, dp), n)
      BY InsideCounts
    <3> QED BY <1>1, <1>2, <2>2, <3>1, <3>2 DEF Has
  <2> QED BY <2>1, <2>2, <2>3, <2>4
<1>4. /\ u[ROOT].type = "dir"
      /\ \A i \in Inodes, m \in Names : u[i].entries[m] # ROOT /\ u[i].entries[m] # i
      /\ \A i \in Inodes, m \in Names : u[i].type # "dir" => u[i].entries[m] = 0
  BY Numbers DEF Tree, EntrySet
<1>5. \A i \in Inodes \ {ROOT} : Named(u, i) = {} => \A m \in Names : u[i].entries[m] = 0
  <2> SUFFICES ASSUME NEW i \in Inodes \ {ROOT}, Named(u, i) = {}, NEW m \in Names
               PROVE  u[i].entries[m] = 0
    OBVIOUS
  <2>1. \A x : x # <<dp, n>> => (x \in Named(t, i) <=> x \in Named(u, i))
    BY NamedElsewhere
  <2>2. CASE i = k
    <3>1. t[i].entries[m] = 0
      BY <2>2 DEF Tree
    <3> QED BY <3>1 DEF EntrySet
  <2>3. CASE i # k
    <3>1. <<dp, n>> \notin Named(t, i)
      BY <2>3 DEF Named
    <3>2. Named(t, i) = {}
      BY <2>1, <3>1
    <3>3. t[i].entries[m] = 0
      BY <3>2 DEF Tree
    <3> QED BY <3>3 DEF EntrySet
  <2> QED BY <2>2, <2>3
<1> QED BY <1>3, <1>4, <1>5 DEF Tree

(* Where a lookup leads *)
LEMMA LookupLeads ==
    ASSUME NEW t, Tree(t), NEW path \in Paths
    PROVE  /\ Last(path) \in Names
           /\ nameiparent(t, path) # 0 => Reached(t, nameiparent(t, path))
           /\ namei(t, path) # 0 => /\ nameiparent(t, path) # 0
                                    /\ namei(t, path) \in Inodes
                                    /\ namei(t, path) # ROOT
                                    /\ t[namei(t, path)].type # "free"
                                    /\ t[namei(t, path)].nlink >= 1
<1>1. path \in Seq(Names) /\ Len(path) \in {1, 2}
  BY FilesAssumption
<1>2. Last(path) \in Names /\ path[1] \in Names
  BY <1>1, ElementOfSeq DEF Last
<1>3. ASSUME nameiparent(t, path) # 0 PROVE Reached(t, nameiparent(t, path))
  <2>1. CASE Len(path) = 1
    BY <2>1, Numbers DEF nameiparent, Reached, Tree
  <2>2. CASE Len(path) # 1
    <3> DEFINE d == t[ROOT].entries[path[1]]
    <3>1. d # 0 /\ t[d].type = "dir" /\ nameiparent(t, path) = d
      BY <1>3, <2>2 DEF nameiparent
    <3>2. d \in Inodes /\ <<ROOT, path[1]>> \in Named(t, d)
      BY <1>2, <3>1, NameLeads, Numbers
    <3> QED BY <3>1, <3>2 DEF Reached
  <2> QED BY <2>1, <2>2
<1>4. ASSUME namei(t, path) # 0
      PROVE  /\ nameiparent(t, path) # 0 /\ namei(t, path) \in Inodes /\ namei(t, path) # ROOT
             /\ t[namei(t, path)].type # "free" /\ t[namei(t, path)].nlink >= 1
  <2>1. /\ nameiparent(t, path) # 0
        /\ namei(t, path) = t[nameiparent(t, path)].entries[Last(path)]
    BY <1>4 DEF namei
  <2>2. nameiparent(t, path) \in Inodes
    BY <1>3, <2>1 DEF Reached
  <2> HIDE DEF namei
  <2> DEFINE k == namei(t, path)
  <2>3. k = t[nameiparent(t, path)].entries[Last(path)] /\ k # 0
    BY <1>4, <2>1
  <2> HIDE DEF k
  <2>4. k \in Inodes /\ k # ROOT /\ t[k].nlink >= 1
    BY <1>2, <2>2, <2>3, NameLeads
  <2>5. t[k].type # "free"
    BY <1>2, <2>2, <2>3, NameInUse
  <2> QED BY <2>1, <2>4, <2>5 DEF k
<1> QED BY <1>2, <1>3, <1>4

(* A record with another link count, or another entry *)
LEMMA LinksSet ==
    ASSUME NEW r \in InodeRecords, NEW c \in Nat
    PROVE  /\ [r EXCEPT !.nlink = c] \in InodeRecords
           /\ [r EXCEPT !.nlink = c].nlink = c /\ [r EXCEPT !.nlink = c].type = r.type
           /\ [r EXCEPT !.nlink = c].ref = r.ref /\ [r EXCEPT !.nlink = c].entries = r.entries
BY DEF InodeRecords

LEMMA RefSet ==
    ASSUME NEW r \in InodeRecords, NEW c \in Nat
    PROVE  /\ [r EXCEPT !.ref = c] \in InodeRecords
           /\ [r EXCEPT !.ref = c].ref = c /\ [r EXCEPT !.ref = c].type = r.type
           /\ [r EXCEPT !.ref = c].nlink = r.nlink /\ [r EXCEPT !.ref = c].entries = r.entries
BY DEF InodeRecords

LEMMA NameSet ==
    ASSUME NEW r \in InodeRecords, NEW n \in Names, NEW k \in 0 .. NINODE
    PROVE  /\ [r EXCEPT !.entries[n] = k] \in InodeRecords
           /\ [r EXCEPT !.entries[n] = k].entries = [r.entries EXCEPT ![n] = k]
           /\ [r EXCEPT !.entries[n] = k].nlink = r.nlink
           /\ [r EXCEPT !.entries[n] = k].type = r.type
           /\ [r EXCEPT !.entries[n] = k].ref = r.ref
<1> DEFINE s == [r EXCEPT !.entries[n] = k]
<1>1. r.entries \in [Names -> 0 .. NINODE]
  BY DEF InodeRecords
<1>2. /\ s.entries = [r.entries EXCEPT ![n] = k] /\ s.nlink = r.nlink /\ s.type = r.type
      /\ s.ref = r.ref /\ s.size = r.size
      /\ s = [f \in {"type", "nlink", "ref", "size", "entries"} |-> s[f]]
  BY DEF InodeRecords
<1>3. s.entries \in [Names -> 0 .. NINODE]
  BY <1>1, <1>2
<1> HIDE DEF s
<1>4. s \in InodeRecords
  BY <1>2, <1>3 DEF InodeRecords
<1> QED BY <1>2, <1>4 DEF s

(* create returns an inode with a name and one reference more. *)
LEMMA CreateKeeps ==
    ASSUME NEW t, Tree(t), NEW path \in Paths, NEW type \in {"file", "dir", "dev"},
           ialloc(t) # 0, create(t, path, type).ip # 0
    PROVE  /\ create(t, path, type).ip \in Inodes
           /\ Tree(create(t, path, type).table)
           /\ create(t, path, type).table[create(t, path, type).ip].nlink # 0
           /\ \A j \in Inodes : create(t, path, type).table[j].ref =
                 t[j].ref + (IF j = create(t, path, type).ip THEN 1 ELSE 0)
<1> DEFINE dp == nameiparent(t, path)
           ip == namei(t, path)
           new == ialloc(t)
           n == Last(path)
           linked == [t EXCEPT ![dp].entries[n] = new,
                               ![dp].nlink = IF type = "dir" THEN @ + 1 ELSE @,
                               ![new] = [FreeInode EXCEPT !.type = type, !.nlink = 1, !.ref = 1]]
           made == create(t, path, type)
<1>1. t \in InodeTables
  BY DEF Tree
<1>2. dp # 0 /\ (ip = 0 \/ (type = "file" /\ t[ip].type = "file"))
  BY DEF create
<1>3. Reached(t, dp) /\ n \in Names
  BY <1>2, LookupLeads
<1>4. CASE ip # 0
  <2>1. made.ip = ip /\ made.table = iget(t, ip)
    BY <1>2, <1>4 DEF create
  <2>2. ip \in Inodes /\ t[ip].type # "free" /\ t[ip].nlink >= 1
    BY <1>4, LookupLeads
  <2>3. t[ip].nlink # 0
    BY <2>2
  <2> HIDE DEF ip, made
  <2>4. /\ Tree(iget(t, ip)) /\ iget(t, ip)[ip].nlink = t[ip].nlink
        /\ \A j \in Inodes : iget(t, ip)[j].ref = t[j].ref + (IF j = ip THEN 1 ELSE 0)
    BY <2>2, IgetKeeps
  <2>5. made.ip \in Inodes /\ Tree(made.table) /\ made.table[made.ip].nlink # 0
    BY <2>1, <2>2, <2>3, <2>4
  <2>6. \A j \in Inodes : made.table[j].ref = t[j].ref + (IF j = made.ip THEN 1 ELSE 0)
    BY <2>1, <2>4
  <2> QED BY <2>5, <2>6 DEF made
<1>5. CASE ip = 0
  <2>1. made.ip = new /\ made.table = linked
    BY <1>2, <1>5 DEF create
  <2>2. new \in Inodes /\ t[new].type = "free"
    BY <1>1, FreeInodeFound DEF InodeTables
  <2>3. dp \in Inodes /\ t[dp].type = "dir" /\ dp # new
    BY <1>3, <2>2 DEF Reached
  <2>4. t[dp].entries[n] = 0
    BY <1>2, <1>5 DEF namei
  <2>5. new # ROOT
    BY <2>2 DEF Tree
  <2>6. t[new].nlink = 0 /\ t[new].ref = 0 /\ \A m \in Names : t[new].entries[m] = 0
    BY <2>2 DEF Tree, Freed
  <2> HIDE DEF dp, ip, new, n, made
  <2> DEFINE newRecord == [FreeInode EXCEPT !.type = type, !.nlink = 1, !.ref = 1]
             dpRecord == [t[dp] EXCEPT !.entries[n] = new,
                                       !.nlink = IF type = "dir" THEN @ + 1 ELSE @]
  <2>16. t[dp] \in InodeRecords /\ DOMAIN t = Inodes
    BY <1>1, <2>3 DEF InodeTables
  <2>17. /\ linked[new] = newRecord /\ linked[dp] = dpRecord
         /\ \A j \in Inodes : j # dp /\ j # new => linked[j] = t[j]
         /\ linked = [j \in Inodes |-> linked[j]]
    BY <2>2, <2>3, <2>16
  <2>18. /\ newRecord.type = type /\ newRecord.nlink = 1 /\ newRecord.ref = 1
         /\ newRecord.size = 0 /\ newRecord.entries = [m \in Names |-> 0]
         /\ newRecord \in InodeRecords
    BY Numbers DEF FreeInode, InodeRecords
  <2>19. /\ dpRecord.type = t[dp].type /\ dpRecord.ref = t[dp].ref /\ dpRecord.size = t[dp].size
         /\ dpRecord.nlink = t[dp].nlink + (IF type = "dir" THEN 1 ELSE 0)
         /\ dpRecord.entries = [t[dp].entries EXCEPT ![n] = new]
         /\ dpRecord \in InodeRecords
    <3>1. n \in Names /\ t[dp].nlink \in Nat /\ t[dp].entries \in [Names -> 0 .. NINODE]
      BY <1>3, <2>16 DEF InodeRecords
    <3>2. /\ dpRecord.type = t[dp].type /\ dpRecord.ref = t[dp].ref
          /\ dpRecord.size = t[dp].size
      BY <2>16 DEF InodeRecords
    <3>3. dpRecord.nlink = t[dp].nlink + (IF type = "dir" THEN 1 ELSE 0)
      BY <2>16, <3>1 DEF InodeRecords
    <3>4. dpRecord.entries = [t[dp].entries EXCEPT ![n] = new]
      BY <2>16 DEF InodeRecords
    <3>5. dpRecord.entries \in [Names -> 0 .. NINODE] /\ dpRecord.nlink \in Nat
      BY <2>2, <3>1, <3>3, <3>4, Numbers
    <3>6. dpRecord = [f \in {"type", "nlink", "ref", "size", "entries"} |-> dpRecord[f]]
      BY <2>16 DEF InodeRecords
    <3> HIDE DEF dpRecord
    <3>7. dpRecord \in InodeRecords
      BY <2>16, <3>2, <3>5, <3>6 DEF InodeRecords
    <3> QED BY <3>2, <3>3, <3>4, <3>7
  <2> HIDE DEF linked, newRecord, dpRecord
  <2>7. /\ linked[new].type = type /\ linked[new].nlink = 1 /\ linked[new].ref = 1
        /\ linked[new].size = 0 /\ linked[new].entries = [m \in Names |-> 0]
    BY <2>17, <2>18
  <2>8. ASSUME NEW j \in Inodes \ {new}
        PROVE  /\ linked[j].type = t[j].type /\ linked[j].ref = t[j].ref
               /\ linked[j].nlink = t[j].nlink + (IF j = dp /\ type = "dir" THEN 1 ELSE 0)
               /\ linked[j].entries =
                     IF j = dp THEN [t[j].entries EXCEPT ![n] = new] ELSE t[j].entries
    <3>1. t[j].nlink \in Nat
      BY <1>1 DEF InodeTables, InodeRecords
    <3>2. CASE j = dp
      BY <2>17, <2>19, <3>2
    <3>3. CASE j # dp
      BY <2>17, <3>1, <3>3
    <3> QED BY <3>2, <3>3
  <2>9. linked \in InodeTables
    <3>1. \A j \in Inodes : linked[j] \in InodeRecords
      BY <1>1, <2>17, <2>18, <2>19 DEF InodeTables
    <3> QED BY <2>17, <3>1 DEF InodeTables
  <2>10. EntrySet(t, linked, dp, n, new)
    <3>1. \A j \in Inodes, m \in Names :
             linked[j].entries[m] = IF j = dp /\ m = n THEN new ELSE t[j].entries[m]
      <4> SUFFICES ASSUME NEW j \in Inodes, NEW m \in Names
                   PROVE  linked[j].entries[m] = IF j = dp /\ m = n THEN new ELSE t[j].entries[m]
        OBVIOUS
      <4>1. CASE j = new
        BY <2>3, <2>6, <2>7, <4>1
      <4>2. CASE j # new
        <5>1. t[j].entries \in [Names -> 0 .. NINODE]
          BY <1>1 DEF InodeTables, InodeRecords
        <5> QED BY <2>8, <4>2, <5>1
      <4> QED BY <4>1, <4>2
    <3>2. \A j \in Inodes : t[j].type # "free" => linked[j].type = t[j].type
      BY <2>2, <2>8
    <3> QED BY <3>1, <3>2 DEF EntrySet
  <2>11. Freed(linked)
    <3>1. \A j \in Inodes \ {new} : t[j].nlink \in Nat
      BY <1>1 DEF InodeTables, InodeRecords
    <3>2. t[dp].nlink # 0 \/ t[dp].ref # 0
      BY <2>3 DEF Tree, Freed
    <3>3. \A j \in Inodes \ {new} :
             linked[j].type = "free" <=> (linked[j].nlink = 0 /\ linked[j].ref = 0)
      <4> SUFFICES ASSUME NEW j \in Inodes \ {new}
                   PROVE  linked[j].type = "free" <=> (linked[j].nlink = 0 /\ linked[j].ref = 0)
        OBVIOUS
      <4>1. t[j].type = "free" <=> (t[j].nlink = 0 /\ t[j].ref = 0)
        BY DEF Tree, Freed
      <4>2. /\ linked[j].type = t[j].type /\ linked[j].ref = t[j].ref
            /\ linked[j].nlink = t[j].nlink + (IF j = dp /\ type = "dir" THEN 1 ELSE 0)
        BY <2>8
      <4>3. t[j].nlink \in Nat
        BY <3>1
      <4>4. CASE j = dp
        BY <2>3, <4>2, <4>3, <4>4, <3>2
      <4>5. CASE j # dp
        BY <4>1, <4>2, <4>3, <4>5
      <4> QED BY <4>4, <4>5
    <3>4. linked[new].type # "free"
      BY <2>7
    <3> QED BY <2>7, <3>3, <3>4 DEF Freed
  <2>12. \A j \in Inodes : linked[j].nlink = t[j].nlink + (IF j = new THEN 1 ELSE 0)
                              + (IF j = dp /\ linked[new].type = "dir" THEN 1 ELSE 0)
    <3> SUFFICES ASSUME NEW j \in Inodes
                 PROVE  linked[j].nlink = t[j].nlink + (IF j = new THEN 1 ELSE 0)
                              + (IF j = dp /\ linked[new].type = "dir" THEN 1 ELSE 0)
      OBVIOUS
    <3>1. t[j].nlink \in Nat
      BY <1>1 DEF InodeTables, InodeRecords
    <3>2. CASE j = new
      BY <2>3, <2>6, <2>7, <3>2
    <3>3. CASE j # new
      <4>1. linked[j].nlink = t[j].nlink + (IF j = dp /\ type = "dir" THEN 1 ELSE 0)
        BY <2>8, <3>3
      <4> QED BY <2>7, <3>1, <3>3, <4>1
    <3> QED BY <3>2, <3>3
  <2>13. linked[ROOT].type = "dir" /\ \A j \in Inodes : linked[j].type = t[j].type \/ j = new
    BY <2>5, <2>8, Numbers DEF Tree
  <2>14. Tree(linked)
    BY <1>3, <2>2, <2>3, <2>4, <2>5, <2>9, <2>10, <2>11, <2>12, <2>13, NameGiven
  <2>15. \A j \in Inodes : linked[j].ref = t[j].ref + (IF j = new THEN 1 ELSE 0)
    <3> SUFFICES ASSUME NEW j \in Inodes
                 PROVE  linked[j].ref = t[j].ref + (IF j = new THEN 1 ELSE 0)
      OBVIOUS
    <3>1. t[j].ref \in Nat
      BY <1>1 DEF InodeTables, InodeRecords
    <3>2. j # new => linked[j].ref = t[j].ref
      BY <2>8
    <3> QED BY <2>6, <2>7, <3>1, <3>2
  <2> QED BY <2>1, <2>2, <2>7, <2>14, <2>15 DEF made
<1> QED BY <1>4, <1>5

(* Whoever ends a link has one reference less; the inode has the new name, or
   as many links as before. *)
LEMMA LinkKeeps ==
    ASSUME Tree(inode), NEW p \in Callers, PendingTyped, Link(p), inode[pending[p].ip].ref >= 1
    PROVE  /\ Tree(inode')
           /\ \A j \in Inodes : inode'[j].ref = inode[j].ref - (IF j = pending[p].ip THEN 1 ELSE 0)
<1> DEFINE ip == pending[p].ip
           new == pending[p].new
           raised == [inode EXCEPT ![ip].nlink = @ + 1]
           dp == nameiparent(raised, new)
           named == [raised EXCEPT ![dp].entries[Last(new)] = ip]
<1>1. inode \in InodeTables
  BY DEF Tree
<1>2. ip \in Inodes /\ new \in Paths /\ inode[ip].ref >= 1
  BY DEF PendingTyped, HandTyped, Link
<1>3. inode[ip].ref \in Nat /\ inode[ip].nlink \in Nat /\ inode[ip].type # "free"
  <2>1. inode[ip].ref \in Nat /\ inode[ip].nlink \in Nat
    BY <1>1, <1>2 DEF InodeTables, InodeRecords
  <2> QED BY <1>2, <2>1 DEF Tree, Freed
<1>4. [raised EXCEPT ![ip].nlink = @ - 1] = inode
  <2> DEFINE back == [raised EXCEPT ![ip].nlink = @ - 1]
             up == [inode[ip] EXCEPT !.nlink = @ + 1]
  <2>3. inode[ip] \in InodeRecords
    BY <1>1, <1>2 DEF InodeTables
  <2>4. back[ip] = [up EXCEPT !.nlink = @ - 1]
    BY <1>1, <1>2 DEF InodeTables
  <2>5. up.nlink - 1 = inode[ip].nlink
    BY <1>3, <2>3 DEF InodeRecords
  <2>1. back[ip] = inode[ip]
    BY <2>3, <2>4, <2>5 DEF InodeRecords
  <2>2. \A j \in Inodes : back[j] = inode[j]
    BY <1>1, <1>2, <2>1 DEF InodeTables
  <2> QED BY <1>1, <2>2 DEF InodeTables
<1>5. \/ inode' = iput(inode, ip)
      \/ /\ inode[ip].type # "dir" /\ dp # 0 /\ raised[dp].entries[Last(new)] = 0
         /\ inode' = iput(named, ip)
  BY <1>4 DEF Link
<1>6. CASE inode' = iput(inode, ip)
  BY <1>2, <1>6, IputKeeps
<1>7. CASE /\ inode[ip].type # "dir" /\ dp # 0 /\ raised[dp].entries[Last(new)] = 0
           /\ inode' = iput(named, ip)
  <2>1. \A j \in Inodes : /\ raised[j].entries = inode[j].entries /\ raised[j].type = inode[j].type
    BY <1>1, <1>2 DEF InodeTables, InodeRecords
  <2>2. dp = nameiparent(inode, new)
    <3>1. Len(new) # 1 => inode[ROOT].entries[new[1]] \in Inodes \cup {0}
      <4>1. Len(new) # 1 => new[1] \in Names
        BY <1>2, FilesAssumption, ElementOfSeq
      <4> QED BY <1>1, <4>1, Numbers DEF InodeTables, InodeRecords
    <3>2. CASE Len(new) = 1
      BY <3>2 DEF nameiparent
    <3>3. CASE Len(new) # 1
      <4> DEFINE d == inode[ROOT].entries[new[1]]
      <4>1. raised[ROOT].entries[new[1]] = d
        BY <2>1, Numbers
      <4>2. d # 0 => raised[d].type = inode[d].type
        BY <2>1, <3>1, <3>3
      <4>3. /\ dp = IF d # 0 /\ raised[d].type = "dir" THEN d ELSE 0
            /\ nameiparent(inode, new) = IF d # 0 /\ inode[d].type = "dir" THEN d ELSE 0
        BY <3>3, <4>1 DEF nameiparent
      <4> HIDE DEF d, raised, dp
      <4> QED BY <4>2, <4>3
    <3> QED BY <3>2, <3>3
  <2>3. Reached(inode, dp) /\ Last(new) \in Names
    BY <1>2, <1>7, <2>2, LookupLeads
  <2>4. dp \in Inodes /\ inode[dp].type = "dir" /\ dp # ip /\ inode[dp].entries[Last(new)] = 0
    BY <1>7, <2>1, <2>3 DEF Reached
  <2> HIDE DEF dp, new
  <2> DEFINE n == Last(new)
  <2> HIDE DEF n
  <2>16. /\ named[ip] = [inode[ip] EXCEPT !.nlink = @ + 1]
         /\ named[dp] = [inode[dp] EXCEPT !.entries[n] = ip]
         /\ \A j \in Inodes : j # ip /\ j # dp => named[j] = inode[j]
         /\ named = [j \in Inodes |-> named[j]]
    BY <1>1, <1>2, <2>4 DEF InodeTables, n
  <2>17. \A j \in Inodes : inode[j] \in InodeRecords
    BY <1>1 DEF InodeTables
  <2> HIDE DEF named, raised, ip
  <2>18. /\ named[ip].nlink = inode[ip].nlink + 1 /\ named[ip].type = inode[ip].type
         /\ named[ip].ref = inode[ip].ref /\ named[ip].entries = inode[ip].entries
         /\ named[ip] \in InodeRecords
    <3>1. inode[ip] \in InodeRecords /\ inode[ip].nlink + 1 \in Nat
      BY <1>2, <1>3, <2>17
    <3> QED BY <2>16, <3>1, LinksSet
  <2>19. /\ named[dp].nlink = inode[dp].nlink /\ named[dp].type = inode[dp].type
         /\ named[dp].ref = inode[dp].ref
         /\ named[dp].entries = [inode[dp].entries EXCEPT ![n] = ip]
    BY <2>4, <2>16, <2>17 DEF InodeRecords
  <2>20. named[dp] \in InodeRecords
    <3>1. inode[dp] \in InodeRecords /\ n \in Names /\ ip \in 0 .. NINODE
      BY <1>2, <2>3, <2>4, <2>17, Numbers DEF n
    <3> QED BY <2>16, <3>1, NameSet
  <2>5. /\ \A j \in Inodes : named[j].type = inode[j].type
        /\ \A j \in Inodes : named[j].ref = inode[j].ref
        /\ \A j \in Inodes : j # ip => named[j].nlink = inode[j].nlink
        /\ \A j \in Inodes : j # dp => named[j].entries = inode[j].entries
    BY <2>16, <2>18, <2>19
  <2>6. named \in InodeTables
    <3>1. \A j \in Inodes : named[j] \in InodeRecords
      BY <2>16, <2>17, <2>18, <2>20
    <3> QED BY <2>16, <3>1 DEF InodeTables
  <2>7. n \in Names /\ inode[dp].entries[n] = 0
    BY <2>3, <2>4 DEF n
  <2>8. EntrySet(inode, named, dp, n, ip)
    <3>1. \A j \in Inodes : inode[j].entries \in [Names -> 0 .. NINODE]
      BY <1>1 DEF InodeTables, InodeRecords
    <3> QED BY <2>4, <2>5, <2>19, <3>1 DEF EntrySet
  <2>9. Freed(named)
    <3> SUFFICES ASSUME NEW j \in Inodes
                 PROVE  named[j].type = "free" <=> (named[j].nlink = 0 /\ named[j].ref = 0)
      BY DEF Freed
    <3>1. inode[j].type = "free" <=> (inode[j].nlink = 0 /\ inode[j].ref = 0)
      BY DEF Tree, Freed
    <3>2. named[j].type = inode[j].type /\ named[j].ref = inode[j].ref
      BY <2>5
    <3>3. CASE j = ip
      BY <1>3, <2>18, <3>2, <3>3
    <3>4. CASE j # ip
      BY <2>5, <3>1, <3>2, <3>4
    <3> QED BY <3>3, <3>4
  <2>10. ip # ROOT /\ named[ROOT].type = "dir" /\ named[ip].type # "dir"
    <3>1. inode[ROOT].type = "dir" /\ inode[ip].type # "dir"
      BY <1>7 DEF Tree
    <3> QED BY <1>2, <2>5, <3>1, Numbers
  <2>11. \A j \in Inodes : named[j].nlink = inode[j].nlink + (IF j = ip THEN 1 ELSE 0)
                              + (IF j = dp /\ named[ip].type = "dir" THEN 1 ELSE 0)
    <3> SUFFICES ASSUME NEW j \in Inodes
                 PROVE  named[j].nlink = inode[j].nlink + (IF j = ip THEN 1 ELSE 0)
                              + (IF j = dp /\ named[ip].type = "dir" THEN 1 ELSE 0)
      OBVIOUS
    <3>1. inode[j].nlink \in Nat
      BY <1>1 DEF InodeTables, InodeRecords
    <3>2. j # ip => named[j].nlink = inode[j].nlink
      BY <2>5
    <3> QED BY <2>10, <2>18, <3>1, <3>2
  <2>12. Tree(named)
    BY <1>2, <2>3, <2>4, <2>5, <2>6, <2>7, <2>8, <2>9, <2>10, <2>11, NameGiven
  <2>13. named[ip].ref >= 1
    BY <1>2, <2>5
  <2>14. Tree(iput(named, ip))
    BY <1>2, <2>12, <2>13, IputKeeps
  <2>15. \A j \in Inodes : iput(named, ip)[j].ref = named[j].ref - (IF j = ip THEN 1 ELSE 0)
    BY <1>2, <2>12, <2>13, IputKeeps
  <2> QED BY <1>7, <2>5, <2>14, <2>15 DEF ip
<1> QED BY <1>5, <1>6, <1>7

(* The name of the inode ip is taken, its directory is put and the inode got. *)
Unnamed(t, dp, name) ==
    [t EXCEPT ![dp].entries[name] = 0,
              ![dp].nlink = IF t[t[dp].entries[name]].type = "dir" THEN @ - 1 ELSE @]
Dropped(t, dp, name) ==
    LET ip == t[dp].entries[name]
    IN  [iget(iput(Unnamed(t, dp, name), dp), ip) EXCEPT ![ip].nlink = @ - 1]

LEMMA NameDropped ==
    ASSUME NEW t, Tree(t), NEW dp \in Inodes, NEW name \in Names, NEW ip, ip = t[dp].entries[name],
           ip # 0, t[dp].ref >= 1, t[ip].type = "dir" => \A m \in Names : t[ip].entries[m] = 0
    PROVE  /\ Tree(Dropped(t, dp, name)) /\ ip \in Inodes
           /\ \A j \in Inodes : Dropped(t, dp, name)[j].ref =
                 t[j].ref - (IF j = dp THEN 1 ELSE 0) + (IF j = ip THEN 1 ELSE 0)
<1> DEFINE gone == Unnamed(t, dp, name)
           u == Dropped(t, dp, name)
           isdir == t[ip].type = "dir"
<1> HIDE DEF gone, u, isdir
<1>1. t \in InodeTables
  BY DEF Tree
<1>2. /\ ip \in Inodes /\ ip # dp /\ t[dp].type = "dir"
      /\ t[ip].nlink >= 1 /\ t[dp].nlink >= 1
      /\ isdir => t[dp].nlink >= 2
  <2>1. t \in InodeTables
    BY DEF Tree
  <2>2. t[dp].type = "dir" /\ ip # dp
    BY DEF Tree
  <2>3. ip \in Inodes
    BY <2>1, Numbers DEF InodeTables, InodeRecords
  <2>4. t[ip].nlink >= 1
    BY NameLeads, Zenon
  <2>5. t[dp].nlink >= 1
    BY DirectoryCounted
  <2>6. isdir => t[dp].nlink >= 2
    BY NameLeads, Zenon DEF isdir
  <2> QED BY <2>2, <2>3, <2>4, <2>5, <2>6
<1>3. t[ip].type # "free"
  BY NameInUse
<1>4. t[dp] \in InodeRecords /\ t[ip] \in InodeRecords
  BY <1>1, <1>2 DEF InodeTables
<1>5. t[dp].ref \in Nat /\ t[dp].nlink \in Nat /\ t[ip].ref \in Nat /\ t[ip].nlink \in Nat
  BY <1>4 DEF InodeRecords
<1> DEFINE less == IF isdir THEN t[dp].nlink - 1 ELSE t[dp].nlink
           named0 == [t[dp] EXCEPT !.entries[name] = 0]
<1>6. less \in Nat /\ less # 0
  BY <1>2, <1>5
<1>7. /\ named0 \in InodeRecords /\ named0.type = t[dp].type
      /\ named0.entries = [t[dp].entries EXCEPT ![name] = 0]
      /\ named0.nlink = t[dp].nlink /\ named0.ref = t[dp].ref
  BY <1>4, NameSet, Numbers
<1>8. /\ gone[dp] = [named0 EXCEPT !.nlink = less]
      /\ \A j \in Inodes : j # dp => gone[j] = t[j]
      /\ gone = [j \in Inodes |-> gone[j]]
  <2>1. DOMAIN t = Inodes
    BY <1>1 DEF InodeTables
  <2>2. gone[dp] = [t[dp] EXCEPT !.entries[name] = 0,
                                 !.nlink = IF isdir THEN @ - 1 ELSE @]
    BY <2>1 DEF gone, Unnamed, isdir
  <2>3. gone[dp] = [named0 EXCEPT !.nlink = less]
    BY <2>2, <1>4, <1>7 DEF InodeRecords
  <2>4. \A j \in Inodes : j # dp => gone[j] = t[j]
    BY <2>1 DEF gone, Unnamed
  <2>5. gone = [j \in Inodes |-> gone[j]]
    BY <2>1 DEF gone, Unnamed
  <2> QED BY <2>3, <2>4, <2>5
<1> HIDE DEF named0, less
<1>9. /\ gone[dp] \in InodeRecords /\ gone[dp].nlink = less
      /\ gone[dp].ref = t[dp].ref /\ gone[dp].type = t[dp].type
      /\ gone[dp].entries = [t[dp].entries EXCEPT ![name] = 0]
  BY <1>6, <1>7, <1>8, LinksSet
<1> DEFINE put == iput(gone, dp)
<1>10. put = [gone EXCEPT ![dp].ref = @ - 1]
  BY <1>6, <1>9 DEF iput
<1>11. /\ put[dp] = [gone[dp] EXCEPT !.ref = gone[dp].ref - 1]
       /\ \A j \in Inodes : j # dp => put[j] = t[j]
       /\ put = [j \in Inodes |-> put[j]]
  <2>1. DOMAIN gone = Inodes
    BY <1>8
  <2>2. put[dp] = [gone[dp] EXCEPT !.ref = gone[dp].ref - 1]
    BY <1>10, <2>1
  <2>3. \A j \in Inodes : j # dp => put[j] = t[j]
    BY <1>8, <1>10, <2>1
  <2>4. put = [j \in Inodes |-> put[j]]
    BY <1>10, <2>1
  <2> QED BY <2>2, <2>3, <2>4
<1>12. u = [iget(put, ip) EXCEPT ![ip].nlink = @ - 1]
  BY DEF u, put, gone, Dropped
<1> HIDE DEF put
<1> DEFINE held == [t[ip] EXCEPT !.ref = t[ip].ref + 1]
<1>13. /\ u[dp] = put[dp]
       /\ u[ip] = [held EXCEPT !.nlink = held.nlink - 1]
       /\ \A j \in Inodes : j # dp /\ j # ip => u[j] = t[j]
       /\ u = [j \in Inodes |-> u[j]]
  <2>1. DOMAIN put = Inodes /\ put[ip] = t[ip]
    BY <1>2, <1>11
  <2> DEFINE got == iget(put, ip)
  <2>2. /\ got[ip] = held /\ DOMAIN got = Inodes
        /\ \A j \in Inodes : j # ip => got[j] = put[j]
    BY <1>2, <2>1 DEF iget
  <2>3. u = [got EXCEPT ![ip].nlink = @ - 1]
    BY <1>12
  <2> HIDE DEF got, held
  <2>4. u[ip] = [held EXCEPT !.nlink = held.nlink - 1]
    BY <1>2, <2>2, <2>3
  <2>5. \A j \in Inodes : j # ip => u[j] = put[j]
    BY <2>2, <2>3
  <2>6. u = [j \in Inodes |-> u[j]]
    BY <2>2, <2>3
  <2> QED BY <1>2, <1>11, <2>4, <2>5, <2>6
<1>14. /\ u[dp] \in InodeRecords /\ u[dp].nlink = less
       /\ u[dp].ref = t[dp].ref - 1 /\ u[dp].type = t[dp].type
       /\ u[dp].entries = [t[dp].entries EXCEPT ![name] = 0]
  <2>1. gone[dp].ref - 1 \in Nat
    BY <1>5, <1>9
  <2>2. /\ put[dp] \in InodeRecords /\ put[dp].ref = gone[dp].ref - 1
        /\ put[dp].nlink = gone[dp].nlink /\ put[dp].type = gone[dp].type
        /\ put[dp].entries = gone[dp].entries
    BY <1>9, <1>11, <2>1, RefSet
  <2> QED BY <1>9, <1>13, <2>2
<1>15. /\ u[ip] \in InodeRecords /\ u[ip].nlink = t[ip].nlink - 1
       /\ u[ip].ref = t[ip].ref + 1 /\ u[ip].type = t[ip].type /\ u[ip].entries = t[ip].entries
  <2>1. t[ip].ref + 1 \in Nat /\ t[ip].nlink - 1 \in Nat
    BY <1>2, <1>5
  <2>2. /\ held \in InodeRecords /\ held.ref = t[ip].ref + 1 /\ held.nlink = t[ip].nlink
        /\ held.type = t[ip].type /\ held.entries = t[ip].entries
    BY <1>4, <2>1, RefSet
  <2> HIDE DEF held
  <2> QED BY <1>13, <2>1, <2>2, LinksSet
<1> HIDE DEF held
<1>16. u \in InodeTables
  <2>1. \A j \in Inodes : u[j] \in InodeRecords
    BY <1>1, <1>13, <1>14, <1>15 DEF InodeTables
  <2> QED BY <1>13, <2>1 DEF InodeTables
<1>17. \A j \in Inodes : u[j].type = t[j].type
  BY <1>13, <1>14, <1>15
<1>18. EntrySet(t, u, dp, name, 0)
  <2>1. \A j \in Inodes : j # dp => u[j].entries = t[j].entries
    BY <1>13, <1>15
  <2>2. t[dp].entries \in [Names -> 0 .. NINODE]
    BY <1>4 DEF InodeRecords
  <2>3. \A j \in Inodes, m \in Names :
           u[j].entries[m] = IF j = dp /\ m = name THEN 0 ELSE t[j].entries[m]
    BY <1>14, <2>1, <2>2
  <2> QED BY <1>17, <2>3 DEF EntrySet
<1>19. Freed(u)
  <2> SUFFICES ASSUME NEW j \in Inodes
               PROVE  u[j].type = "free" <=> (u[j].nlink = 0 /\ u[j].ref = 0)
    BY DEF Freed
  <2>1. CASE j = dp
    <3>1. u[j].type # "free" /\ u[j].nlink # 0
      BY <1>2, <1>6, <1>14, <2>1
    <3> QED BY <3>1
  <2>2. CASE j = ip
    <3>1. u[j].type # "free" /\ u[j].ref # 0
      BY <1>3, <1>5, <1>15, <2>2
    <3> QED BY <3>1
  <2>3. CASE j # dp /\ j # ip
    <3>1. t[j].type = "free" <=> (t[j].nlink = 0 /\ t[j].ref = 0)
      BY DEF Tree, Freed
    <3> QED BY <1>13, <2>3, <3>1
  <2> QED BY <2>1, <2>2, <2>3
<1>20. ASSUME NEW j \in Inodes
       PROVE  u[j].nlink = t[j].nlink - (IF j = ip THEN 1 ELSE 0)
                              - (IF j = dp /\ isdir THEN 1 ELSE 0)
  <2>1. t[j].nlink \in Nat
    BY <1>1 DEF InodeTables, InodeRecords
  <2>2. CASE j = dp
    BY <1>2, <1>14, <2>1, <2>2 DEF less
  <2>3. CASE j = ip
    BY <1>2, <1>15, <2>1, <2>3
  <2>4. CASE j # dp /\ j # ip
    BY <1>13, <2>1, <2>4
  <2> QED BY <2>2, <2>3, <2>4
<1>21. Tree(u)
  BY <1>16, <1>17, <1>18, <1>19, <1>20, NameTaken DEF isdir
<1>22. ASSUME NEW j \in Inodes
       PROVE  u[j].ref = t[j].ref - (IF j = dp THEN 1 ELSE 0) + (IF j = ip THEN 1 ELSE 0)
  <2>1. t[j].ref \in Nat
    BY <1>1 DEF InodeTables, InodeRecords
  <2>2. CASE j = dp
    BY <1>2, <1>14, <2>1, <2>2
  <2>3. CASE j = ip
    BY <1>2, <1>15, <2>1, <2>3
  <2>4. CASE j # dp /\ j # ip
    BY <1>13, <2>1, <2>4
  <2> QED BY <2>2, <2>3, <2>4
<1> QED BY <1>2, <1>21, <1>22 DEF u

(* Whoever ends an unlink has one reference less to the directory, and the inode
   that loses its name is let go of. *)
LEMMA UnlinkKeeps ==
    ASSUME Tree(inode), NEW p \in Callers, PendingTyped, Unlink(p), inode[pending[p].dp].ref >= 1
    PROVE  /\ Tree(inode')
           /\ \A j \in Inodes : inode'[j].ref = inode[j].ref - (IF j = pending[p].dp THEN 1 ELSE 0)
<1> DEFINE dp == pending[p].dp
           name == pending[p].name
           ip == inode[dp].entries[name]
           unlinked == Dropped(inode, dp, name)
<1>1. inode \in InodeTables
  BY DEF Tree
<1>2. dp \in Inodes /\ name \in Names /\ inode[dp].ref >= 1
  BY DEF PendingTyped, HandTyped, Unlink
<1>3. \/ inode' = iput(inode, dp)
      \/ /\ ip # 0 /\ (inode[ip].type = "dir" => isdirempty(inode, ip))
         /\ inode' = iput(unlinked, ip)
  BY DEF Unlink, Dropped, Unnamed
<1>4. CASE inode' = iput(inode, dp)
  BY <1>2, <1>4, IputKeeps
<1>5. CASE /\ ip # 0 /\ (inode[ip].type = "dir" => isdirempty(inode, ip))
           /\ inode' = iput(unlinked, ip)
  <2>1. inode[ip].type = "dir" => \A m \in Names : inode[ip].entries[m] = 0
    BY <1>5 DEF isdirempty
  <2>2. ip = inode[dp].entries[name] /\ unlinked = Dropped(inode, dp, name)
    OBVIOUS
  <2> HIDE DEF unlinked, ip, name, dp
  <2>3. /\ Tree(unlinked) /\ ip \in Inodes
        /\ \A j \in Inodes : unlinked[j].ref = inode[j].ref - (IF j = dp THEN 1 ELSE 0)
                                               + (IF j = ip THEN 1 ELSE 0)
    BY <1>2, <1>5, <2>1, <2>2, NameDropped
  <2>4. \A j \in Inodes : inode[j].ref \in Nat
    BY <1>1 DEF InodeTables, InodeRecords
  <2>5. unlinked[ip].ref >= 1
    BY <1>2, <2>3, <2>4
  <2>6. /\ Tree(iput(unlinked, ip))
        /\ \A j \in Inodes : iput(unlinked, ip)[j].ref = unlinked[j].ref - (IF j = ip THEN 1 ELSE 0)
    BY <2>3, <2>5, IputKeeps
  <2>7. ASSUME NEW j \in Inodes
        PROVE  inode'[j].ref = inode[j].ref - (IF j = dp THEN 1 ELSE 0)
    BY <1>5, <2>3, <2>4, <2>6
  <2> QED BY <1>5, <2>6, <2>7 DEF dp
<1> QED BY <1>3, <1>4, <1>5

-----------------------------------------------------------------------------

(* One descriptor is another file; one open file, or what one process has
   looked up, is another. *)
SameBut(D, a, b, d) == \A e \in D : e # d => b[e] = a[e]
SameButOne(a, b, p, fd) ==
    \A q \in Callers, e \in 1 .. NOFILE : q # p \/ e # fd => b[q][e] = a[q][e]

FollowsDescriptor(a, b, p, fd, f) ==
    Cardinality(Descriptors(b, f)) = Cardinality(Descriptors(a, f))
        - (IF a[p][fd] = f THEN 1 ELSE 0) + (IF b[p][fd] = f THEN 1 ELSE 0)

LEMMA DescriptorSet ==
    ASSUME NEW a, NEW b, NEW p \in Callers, NEW fd \in 1 .. NOFILE, NEW f,
           SameButOne(a, b, p, fd)
    PROVE  FollowsDescriptor(a, b, p, fd, f)
<1>1. \A x : x # <<p, fd>> => (x \in Descriptors(a, f) <=> x \in Descriptors(b, f))
  BY DEF Descriptors, SameButOne
<1>2. /\ <<p, fd>> \in Descriptors(a, f) <=> a[p][fd] = f
      /\ <<p, fd>> \in Descriptors(b, f) <=> b[p][fd] = f
  BY DEF Descriptors
<1>3. IsFiniteSet(Descriptors(a, f))
  BY FiniteDescriptors
<1>4. Cardinality(Descriptors(b, f)) = Cardinality(Descriptors(a, f))
         - (IF <<p, fd>> \in Descriptors(a, f) THEN 1 ELSE 0)
         + (IF <<p, fd>> \in Descriptors(b, f) THEN 1 ELSE 0)
  BY <1>1, <1>3, OneChanged
<1> QED BY <1>2, <1>4 DEF FollowsDescriptor

LEMMA FileChanged ==
    ASSUME NEW a, NEW b, NEW f \in 1 .. NFILE, NEW i,
           SameBut(1 .. NFILE, a, b, f)
    PROVE  Cardinality(Opened(b, i)) = Cardinality(Opened(a, i))
              - (IF OnInode(a[f], i) THEN 1 ELSE 0)
              + (IF OnInode(b[f], i) THEN 1 ELSE 0)
<1>1. \A g : g # f => (g \in Opened(a, i) <=> g \in Opened(b, i))
  BY DEF Opened, SameBut
<1>2. /\ f \in Opened(a, i) <=> OnInode(a[f], i)
      /\ f \in Opened(b, i) <=> OnInode(b[f], i)
  BY DEF Opened
<1>3. IsFiniteSet(Opened(a, i))
  BY FiniteUsers
<1>4. Cardinality(Opened(b, i)) = Cardinality(Opened(a, i))
         - (IF f \in Opened(a, i) THEN 1 ELSE 0) + (IF f \in Opened(b, i) THEN 1 ELSE 0)
  BY <1>1, <1>3, OneChanged
<1> QED BY <1>2, <1>4

LEMMA HandChanged ==
    ASSUME NEW a, NEW b, NEW p \in Callers, NEW i,
           SameBut(Callers, a, b, p)
    PROVE  Cardinality(Holders(b, i)) = Cardinality(Holders(a, i))
              - (IF InHand(a[p], i) THEN 1 ELSE 0) + (IF InHand(b[p], i) THEN 1 ELSE 0)
<1>1. \A q : q # p => (q \in Holders(a, i) <=> q \in Holders(b, i))
  BY DEF Holders, SameBut
<1>2. /\ p \in Holders(a, i) <=> InHand(a[p], i)
      /\ p \in Holders(b, i) <=> InHand(b[p], i)
  BY DEF Holders
<1>3. IsFiniteSet(Holders(a, i))
  BY FiniteUsers
<1>4. Cardinality(Holders(b, i)) = Cardinality(Holders(a, i))
         - (IF p \in Holders(a, i) THEN 1 ELSE 0) + (IF p \in Holders(b, i) THEN 1 ELSE 0)
  BY <1>1, <1>3, OneChanged
<1> QED BY <1>2, <1>4

(* Nothing in hand *)
LEMMA EmptyHand == \A i : ~ InHand(Nothing, i)
BY DEF InHand, Nothing

(* What p has in hand is another thing. *)
LEMMA HandSet ==
    ASSUME PendingTyped, NEW p \in Callers, NEW found, HandTyped(found),
           pending' = [pending EXCEPT ![p] = found]
    PROVE  /\ PendingTyped' /\ pending'[p] = found
           /\ SameBut(Callers, pending, pending', p)
<1>1. /\ pending'[p] = found
      /\ SameBut(Callers, pending, pending', p)
      /\ pending' = [q \in Callers |-> pending'[q]]
  BY DEF PendingTyped, SameBut
<1>2. \A q \in Callers : HandTyped(pending'[q])
  BY <1>1 DEF PendingTyped, SameBut
<1> QED BY <1>1, <1>2 DEF PendingTyped

LEMMA HandsEmpty == HandTyped(Nothing)
BY DEF HandTyped, Nothing

(* The inodes' references follow what p has in hand, and an open file. *)
LEMMA CountedInHand ==
    ASSUME InodesCounted, inode \in InodeTables, NEW p \in Callers,
           SameBut(Callers, pending, pending', p),
           \A i \in Inodes : Opened(ftable', i) = Opened(ftable, i),
           \A i \in Inodes : inode'[i].ref = inode[i].ref
               - (IF InHand(pending[p], i) THEN 1 ELSE 0)
               + (IF InHand(pending'[p], i) THEN 1 ELSE 0)
    PROVE  InodesCounted'
<1> SUFFICES ASSUME NEW i \in Inodes
             PROVE  inode'[i].ref =
                       Cardinality(Opened(ftable', i)) + Cardinality(Holders(pending', i))
  BY DEF InodesCounted
<1>1. inode[i].ref = Cardinality(Opened(ftable, i)) + Cardinality(Holders(pending, i))
  BY DEF InodesCounted
<1>2. Cardinality(Holders(pending', i)) = Cardinality(Holders(pending, i))
         - (IF InHand(pending[p], i) THEN 1 ELSE 0) + (IF InHand(pending'[p], i) THEN 1 ELSE 0)
  BY HandChanged
<1>3. Cardinality(Opened(ftable, i)) \in Nat /\ Cardinality(Holders(pending, i)) \in Nat
  BY FiniteUsers
<1> QED BY <1>1, <1>2, <1>3

RefsFollow(p, f) ==
    \A i \in Inodes : inode'[i].ref = inode[i].ref
        - (IF InHand(pending[p], i) THEN 1 ELSE 0) + (IF InHand(pending'[p], i) THEN 1 ELSE 0)
        - (IF OnInode(ftable[f], i) THEN 1 ELSE 0) + (IF OnInode(ftable'[f], i) THEN 1 ELSE 0)

LEMMA CountedInFile ==
    ASSUME InodesCounted, NEW p \in Callers, NEW f \in 1 .. NFILE, RefsFollow(p, f),
           SameBut(Callers, pending, pending', p),
           SameBut(1 .. NFILE, ftable, ftable', f)
    PROVE  InodesCounted'
<1> SUFFICES ASSUME NEW i \in Inodes
             PROVE  inode'[i].ref =
                       Cardinality(Opened(ftable', i)) + Cardinality(Holders(pending', i))
  BY DEF InodesCounted
<1>1. inode[i].ref = Cardinality(Opened(ftable, i)) + Cardinality(Holders(pending, i))
  BY DEF InodesCounted
<1>2. Cardinality(Holders(pending', i)) = Cardinality(Holders(pending, i))
         - (IF InHand(pending[p], i) THEN 1 ELSE 0) + (IF InHand(pending'[p], i) THEN 1 ELSE 0)
  BY HandChanged
<1>3. Cardinality(Opened(ftable', i)) = Cardinality(Opened(ftable, i))
         - (IF OnInode(ftable[f], i) THEN 1 ELSE 0) + (IF OnInode(ftable'[f], i) THEN 1 ELSE 0)
  BY FileChanged
<1>4. Cardinality(Opened(ftable, i)) \in Nat /\ Cardinality(Holders(pending, i)) \in Nat
  BY FiniteUsers
<1> QED BY <1>1, <1>2, <1>3, <1>4 DEF RefsFollow

(* A call that is over or begins and touches inodes alone: what it has in hand
   and the references follow each other. *)
LEMMA HandMoves ==
    ASSUME FilesIInv, NEW p \in Callers, NEW found, HandTyped(found), Tree(inode'),
           pending' = [pending EXCEPT ![p] = found], UNCHANGED <<ftable, ofile, alive>>,
           \A i \in Inodes : inode'[i].ref = inode[i].ref
               - (IF InHand(pending[p], i) THEN 1 ELSE 0) + (IF InHand(found, i) THEN 1 ELSE 0)
    PROVE  FilesIInv'
<1>1. FilesTyped /\ FreeFiles /\ FilesCounted /\ InodesCounted
  BY DEF FilesIInv
<1>2. /\ PendingTyped' /\ pending'[p] = found
      /\ SameBut(Callers, pending, pending', p)
  BY <1>1, HandSet DEF FilesTyped
<1>3. FilesTyped'
  BY <1>1, <1>2 DEF FilesTyped, Tree
<1>4. FreeFiles' /\ FilesCounted'
  BY <1>1 DEF FreeFiles, FilesCounted
<1>5. InodesCounted'
  BY <1>1, <1>2, CountedInHand DEF FilesTyped
<1> QED BY <1>3, <1>4, <1>5 DEF FilesIInv

(* An inode that is in hand has a reference. *)
LEMMA InHandUsed ==
    ASSUME FilesIInv, NEW p \in Callers, NEW i \in Inodes, InHand(pending[p], i)
    PROVE  inode[i].ref >= 1
<1>1. p \in Holders(pending, i)
  BY DEF Holders
<1>2. Cardinality(Holders(pending, i)) \in Nat /\ Cardinality(Holders(pending, i)) # 0
  BY <1>1, FiniteUsers, FS_EmptySet
<1>3. Cardinality(Opened(ftable, i)) \in Nat
  BY FiniteUsers
<1>4. inode[i].ref = Cardinality(Opened(ftable, i)) + Cardinality(Holders(pending, i))
  BY DEF FilesIInv, InodesCounted
<1> QED BY <1>2, <1>3, <1>4

-----------------------------------------------------------------------------
(* write: the file is looked up, and nothing counts it. *)
LEMMA WriteBegins ==
    ASSUME FilesIInv, NEW p \in Callers, sys_write(p)
    PROVE  FilesIInv'
<1>1. PICK fd \in 1 .. NOFILE, n \in 1 .. 2 :
         /\ ofile[p][fd] # 0
         /\ pending' = [pending EXCEPT ![p] = [op |-> "write", file |-> ofile[p][fd], left |-> n]]
  BY DEF sys_write, IsOpen
<1> DEFINE found == [op |-> "write", file |-> ofile[p][fd], left |-> n]
<1>2. ofile[p][fd] \in 1 .. NFILE
  BY <1>1, Numbers DEF FilesIInv, FilesTyped
<1>3. HandTyped(found) /\ \A i : ~ InHand(found, i)
  BY <1>2 DEF HandTyped, InHand
<1>4. pending[p] = Nothing /\ UNCHANGED <<ftable, ofile, inode, alive>>
  BY DEF sys_write, Ready
<1>5. Tree(inode') /\ \A i \in Inodes : inode[i].ref \in Nat
  BY <1>4 DEF FilesIInv, Tree, InodeTables, InodeRecords
<1>6. \A i \in Inodes : inode'[i].ref = inode[i].ref
         - (IF InHand(pending[p], i) THEN 1 ELSE 0) + (IF InHand(found, i) THEN 1 ELSE 0)
  BY <1>3, <1>4, <1>5, EmptyHand
<1>7. pending' = [pending EXCEPT ![p] = found]
  BY <1>1
<1> HIDE DEF found
<1> QED BY <1>3, <1>4, <1>5, <1>6, <1>7, HandMoves

(* What p has in hand, when it ends the call *)
LEMMA CallEnds ==
    ASSUME FilesIInv, NEW p \in Callers, NEW i \in Inodes, \A j : InHand(pending[p], j) <=> j = i,
           Tree(inode'), \A j \in Inodes : inode'[j].ref = inode[j].ref - (IF j = i THEN 1 ELSE 0),
           pending' = [pending EXCEPT ![p] = Nothing], UNCHANGED <<ftable, ofile, alive>>
    PROVE  FilesIInv'
<1>1. \A j \in Inodes : inode[j].ref \in Nat
  BY DEF FilesIInv, Tree, InodeTables, InodeRecords
<1>2. \A j \in Inodes : inode'[j].ref = inode[j].ref
         - (IF InHand(pending[p], j) THEN 1 ELSE 0) + (IF InHand(Nothing, j) THEN 1 ELSE 0)
  BY <1>1, EmptyHand
<1> QED BY <1>2, HandsEmpty, HandMoves

LEMMA CallBegins ==
    ASSUME FilesIInv, NEW p \in Callers, NEW i \in Inodes, NEW found, HandTyped(found),
           \A j : InHand(found, j) <=> j = i, pending[p] = Nothing, inode[i].type # "free",
           inode' = iget(inode, i),
           pending' = [pending EXCEPT ![p] = found], UNCHANGED <<ftable, ofile, alive>>
    PROVE  FilesIInv'
<1>1. Tree(inode) /\ \A j \in Inodes : inode[j].ref \in Nat
  BY DEF FilesIInv, Tree, InodeTables, InodeRecords
<1>2. Tree(inode') /\ \A j \in Inodes : inode'[j].ref = inode[j].ref + (IF j = i THEN 1 ELSE 0)
  BY <1>1, IgetKeeps
<1>3. \A j \in Inodes : inode'[j].ref = inode[j].ref
         - (IF InHand(pending[p], j) THEN 1 ELSE 0) + (IF InHand(found, j) THEN 1 ELSE 0)
  BY <1>1, <1>2, EmptyHand
<1> QED BY <1>2, <1>3, HandMoves

(* The transaction that puts the inode of a closed file *)
LEMMA PutClosedKeeps ==
    ASSUME FilesIInv, NEW p \in Callers, PutClosed(p)
    PROVE  FilesIInv'
<1> DEFINE i == pending[p].ip
<1>1. i \in Inodes /\ \A j : InHand(pending[p], j) <=> j = i
  BY DEF PutClosed, InHand, FilesIInv, FilesTyped, PendingTyped, HandTyped
<1>2. inode[i].ref >= 1
  BY <1>1, InHandUsed
<1>3. /\ inode' = iput(inode, i) /\ pending' = [pending EXCEPT ![p] = Nothing]
      /\ UNCHANGED <<ftable, ofile, alive>>
  BY DEF PutClosed
<1> HIDE DEF i
<1>4. Tree(inode') /\ \A j \in Inodes : inode'[j].ref = inode[j].ref - (IF j = i THEN 1 ELSE 0)
  BY <1>1, <1>2, <1>3, IputKeeps DEF FilesIInv
<1> QED BY <1>1, <1>3, <1>4, CallEnds

(* link: the old name is looked up and its inode kept in hand, then put. *)
LEMMA LinkBegins ==
    ASSUME FilesIInv, NEW p \in Callers, sys_link(p)
    PROVE  FilesIInv'
<1>1. PICK old \in Paths, new \in Paths :
         /\ namei(inode, old) # 0 /\ inode' = iget(inode, namei(inode, old))
         /\ pending' = [pending EXCEPT ![p] =
               [op |-> "link", ip |-> namei(inode, old), new |-> new]]
  BY DEF sys_link
<1> DEFINE i == namei(inode, old)
           found == [op |-> "link", ip |-> i, new |-> new]
<1>2. pending[p] = Nothing /\ UNCHANGED <<ftable, ofile, alive>>
  BY DEF sys_link, Ready
<1>3. i \in Inodes /\ inode[i].type # "free"
  BY <1>1, LookupLeads DEF FilesIInv
<1>4. inode' = iget(inode, i) /\ pending' = [pending EXCEPT ![p] = found]
  BY <1>1
<1> HIDE DEF i
<1>5. HandTyped(found) /\ \A j : InHand(found, j) <=> j = i
  BY <1>3 DEF HandTyped, InHand
<1> HIDE DEF found
<1> QED BY <1>2, <1>3, <1>4, <1>5, CallBegins

LEMMA LinkEnds ==
    ASSUME FilesIInv, NEW p \in Callers, Link(p)
    PROVE  FilesIInv'
<1> DEFINE i == pending[p].ip
<1>1. i \in Inodes /\ \A j : InHand(pending[p], j) <=> j = i
  BY DEF Link, InHand, FilesIInv, FilesTyped, PendingTyped, HandTyped
<1>2. inode[i].ref >= 1
  BY <1>1, InHandUsed
<1>3. pending' = [pending EXCEPT ![p] = Nothing] /\ UNCHANGED <<ftable, ofile, alive>>
  BY DEF Link
<1>4. Tree(inode') /\ \A j \in Inodes : inode'[j].ref = inode[j].ref - (IF j = i THEN 1 ELSE 0)
  BY <1>2, LinkKeeps DEF FilesIInv, FilesTyped
<1> HIDE DEF i
<1> QED BY <1>1, <1>3, <1>4, CallEnds

(* unlink: the directory is looked up and kept in hand, then put. *)
LEMMA UnlinkBegins ==
    ASSUME FilesIInv, NEW p \in Callers, sys_unlink(p)
    PROVE  FilesIInv'
<1>1. PICK path \in Paths :
         /\ nameiparent(inode, path) # 0 /\ inode' = iget(inode, nameiparent(inode, path))
         /\ pending' = [pending EXCEPT ![p] =
               [op |-> "unlink", dp |-> nameiparent(inode, path), name |-> Last(path)]]
  BY DEF sys_unlink
<1> DEFINE i == nameiparent(inode, path)
           found == [op |-> "unlink", dp |-> i, name |-> Last(path)]
<1>2. pending[p] = Nothing /\ UNCHANGED <<ftable, ofile, alive>>
  BY DEF sys_unlink, Ready
<1>3. i \in Inodes /\ inode[i].type # "free" /\ Last(path) \in Names
  BY <1>1, LookupLeads DEF FilesIInv, Reached
<1>4. inode' = iget(inode, i) /\ pending' = [pending EXCEPT ![p] = found]
  BY <1>1
<1> HIDE DEF i
<1>5. HandTyped(found) /\ \A j : InHand(found, j) <=> j = i
  BY <1>3 DEF HandTyped, InHand
<1> HIDE DEF found
<1> QED BY <1>2, <1>3, <1>4, <1>5, CallBegins

LEMMA UnlinkEnds ==
    ASSUME FilesIInv, NEW p \in Callers, Unlink(p)
    PROVE  FilesIInv'
<1> DEFINE i == pending[p].dp
<1>1. i \in Inodes /\ \A j : InHand(pending[p], j) <=> j = i
  BY DEF Unlink, InHand, FilesIInv, FilesTyped, PendingTyped, HandTyped
<1>2. inode[i].ref >= 1
  BY <1>1, InHandUsed
<1>3. pending' = [pending EXCEPT ![p] = Nothing] /\ UNCHANGED <<ftable, ofile, alive>>
  BY DEF Unlink
<1>4. Tree(inode') /\ \A j \in Inodes : inode'[j].ref = inode[j].ref - (IF j = i THEN 1 ELSE 0)
  BY <1>2, UnlinkKeeps DEF FilesIInv, FilesTyped
<1> HIDE DEF i
<1> QED BY <1>1, <1>3, <1>4, CallEnds

(* What moves in an open file only moves its offset. *)
SameFile(r, s) ==
    /\ s.ref = r.ref /\ s.type = r.type /\ s.ip = r.ip
    /\ s.readable = r.readable /\ s.writable = r.writable

LEMMA OffsetMoves ==
    ASSUME ftable \in [1 .. NFILE -> FileRecords], NEW f \in 1 .. NFILE,
           ftable' = [ftable EXCEPT ![f].off = @ + 1]
    PROVE  /\ ftable' \in [1 .. NFILE -> FileRecords]
           /\ \A g \in 1 .. NFILE : SameFile(ftable[g], ftable'[g])
<1>1. ftable[f] \in FileRecords
  OBVIOUS
<1>2. ftable'[f] = [ftable[f] EXCEPT !.off = @ + 1]
  OBVIOUS
<1>3. ftable'[f] \in FileRecords /\ SameFile(ftable[f], ftable'[f])
  BY <1>1, <1>2 DEF FileRecords, SameFile
<1>4. \A g \in 1 .. NFILE : g # f => ftable'[g] = ftable[g]
  OBVIOUS
<1>5. ftable' = [g \in 1 .. NFILE |-> ftable'[g]]
  OBVIOUS
<1>6. \A g \in 1 .. NFILE : ftable'[g] \in FileRecords
  BY <1>3, <1>4
<1>7. \A g \in 1 .. NFILE : SameFile(ftable[g], ftable'[g])
  BY <1>3, <1>4 DEF SameFile
<1> QED BY <1>5, <1>6, <1>7

LEMMA SameFiles ==
    ASSUME FreeFiles, FilesCounted, \A g \in 1 .. NFILE : SameFile(ftable[g], ftable'[g]),
           UNCHANGED <<ofile, alive>>
    PROVE  /\ FreeFiles' /\ FilesCounted'
           /\ \A i \in Inodes : Opened(ftable', i) = Opened(ftable, i)
<1>1. \A i, g : g \in 1 .. NFILE => (OnInode(ftable'[g], i) <=> OnInode(ftable[g], i))
  BY DEF SameFile, OnInode
<1>2. \A i \in Inodes : Opened(ftable', i) = Opened(ftable, i)
  BY <1>1 DEF Opened
<1>3. FreeFiles'
  BY DEF FreeFiles, SameFile
<1>4. FilesCounted'
  BY DEF FilesCounted, SameFile
<1> QED BY <1>2, <1>3, <1>4

(* read and a chunk of write: an offset and a size move. *)
LEMMA ReadKeeps ==
    ASSUME FilesIInv, NEW p \in Callers, sys_read(p)
    PROVE  FilesIInv'
<1>1. /\ FilesTyped /\ FreeFiles /\ FilesCounted /\ InodesCounted /\ Tree(inode)
      /\ UNCHANGED <<ofile, inode, pending, alive>>
  BY DEF FilesIInv, sys_read
<1>2. PICK fd \in 1 .. NOFILE :
         ofile[p][fd] # 0 /\ ftable' = [ftable EXCEPT ![ofile[p][fd]].off = @ + 1]
  BY DEF sys_read, IsOpen
<1>3. ofile[p][fd] \in 1 .. NFILE
  BY <1>1, <1>2, Numbers DEF FilesTyped
<1>4. /\ ftable' \in [1 .. NFILE -> FileRecords]
      /\ \A g \in 1 .. NFILE : SameFile(ftable[g], ftable'[g])
  BY <1>1, <1>2, <1>3, OffsetMoves DEF FilesTyped
<1>5. /\ FreeFiles' /\ FilesCounted'
      /\ \A i \in Inodes : Opened(ftable', i) = Opened(ftable, i)
  BY <1>1, <1>4, SameFiles
<1>6. InodesCounted'
  BY <1>1, <1>5 DEF InodesCounted
<1>7. FilesTyped'
  BY <1>1, <1>4 DEF FilesTyped, PendingTyped
<1> QED BY <1>1, <1>5, <1>6, <1>7 DEF FilesIInv

LEMMA ChunkKeeps ==
    ASSUME FilesIInv, NEW p \in Callers, filewrite(p)
    PROVE  FilesIInv'
<1>1. /\ FilesTyped /\ FreeFiles /\ FilesCounted /\ InodesCounted /\ Tree(inode)
      /\ UNCHANGED <<ofile, alive>> /\ pending[p].op = "write"
  BY DEF FilesIInv, filewrite
<1> DEFINE f == pending[p].file
           i == ftable[f].ip
           found == IF pending[p].left = 1 THEN Nothing
                    ELSE [op |-> "write", file |-> f, left |-> pending[p].left - 1]
<1>2. /\ ftable' = [ftable EXCEPT ![f].off = @ + 1]
      /\ inode' = [inode EXCEPT ![i].size = IF ftable[f].off = @ THEN @ + 1 ELSE @]
  BY DEF filewrite, Chunk
<1>3. pending' = [pending EXCEPT ![p] = found]
  BY DEF filewrite
<1>4. f \in 1 .. NFILE /\ pending[p] = [op |-> "write", file |-> f, left |-> pending[p].left]
  BY <1>1 DEF FilesTyped, PendingTyped, HandTyped
<1>5. found = Nothing \/ found = [op |-> "write", file |-> f, left |-> pending[p].left - 1]
  BY <1>4
<1>6. HandTyped(found) /\ \A j : ~ InHand(found, j) /\ ~ InHand(pending[p], j)
  <2>1. \A j : ~ InHand(pending[p], j)
    BY <1>1 DEF InHand
  <2>2. CASE found = Nothing
    BY <2>1, <2>2, HandsEmpty, EmptyHand
  <2>3. CASE found = [op |-> "write", file |-> f, left |-> pending[p].left - 1]
    <3> HIDE DEF found, f
    <3>1. found.op = "write" /\ found.file = f /\ found.left = pending[p].left - 1
      BY <2>3
    <3>2. HandTyped(found)
      BY <1>4, <2>3, <3>1 DEF HandTyped
    <3>3. \A j : ~ InHand(found, j)
      BY <3>1 DEF InHand
    <3> QED BY <2>1, <3>2, <3>3
  <2> QED BY <1>5, <2>2, <2>3
<1>7. /\ ftable' \in [1 .. NFILE -> FileRecords]
      /\ \A g \in 1 .. NFILE : SameFile(ftable[g], ftable'[g])
  BY <1>1, <1>2, <1>4, OffsetMoves DEF FilesTyped
<1>8. /\ FreeFiles' /\ FilesCounted'
      /\ \A j \in Inodes : Opened(ftable', j) = Opened(ftable, j)
  BY <1>1, <1>7, SameFiles
<1>9. /\ Tree(inode') /\ \A j \in Inodes : inode'[j].ref = inode[j].ref
  <2>1. inode \in InodeTables
    BY <1>1 DEF Tree
  <2> HIDE DEF i, f
  <2> DEFINE size == IF ftable[f].off = inode[i].size THEN inode[i].size + 1 ELSE inode[i].size
             r == [inode[i] EXCEPT !.size = size]
  <2>2. CASE i \notin Inodes
    <3>1. inode' = inode
      BY <1>2, <2>1, <2>2 DEF InodeTables
    <3> QED BY <1>1, <3>1
  <2>3. CASE i \in Inodes
    <3>1. inode[i] \in InodeRecords /\ size \in Nat
      BY <2>1, <2>3 DEF InodeTables, InodeRecords
    <3>2. inode' = [inode EXCEPT ![i] = r]
      BY <1>2, <2>1, <2>3 DEF InodeTables
    <3> HIDE DEF size
    <3>3. /\ r \in InodeRecords /\ r.type = inode[i].type /\ r.nlink = inode[i].nlink
          /\ r.entries = inode[i].entries /\ r.ref = inode[i].ref
      BY <3>1 DEF InodeRecords
    <3> HIDE DEF r
    <3>4. inode' \in InodeTables
      BY <2>1, <3>2, <3>3 DEF InodeTables
    <3>5. \A j \in Inodes : j # i => inode'[j] = inode[j]
      BY <2>1, <3>2 DEF InodeTables
    <3>6. inode'[i] = r
      BY <2>1, <2>3, <3>2 DEF InodeTables
    <3>7. \A j \in Inodes : /\ inode'[j].type = inode[j].type /\ inode'[j].nlink = inode[j].nlink
                            /\ inode'[j].entries = inode[j].entries
      BY <3>3, <3>5, <3>6
    <3>8. \A j \in Inodes : inode'[j].ref = inode[j].ref
      BY <3>3, <3>5, <3>6
    <3>9. Freed(inode')
      BY <1>1, <3>7, <3>8 DEF Tree, Freed
    <3>10. Tree(inode')
      BY <1>1, <3>4, <3>7, <3>9, SameLinks
    <3> QED BY <3>8, <3>10
  <2> QED BY <2>2, <2>3
<1> HIDE DEF found, f, i
<1>10. /\ PendingTyped' /\ pending'[p] = found /\ SameBut(Callers, pending, pending', p)
  BY <1>1, <1>3, <1>6, HandSet DEF FilesTyped
<1>11. InodesCounted'
  <2>1. \A j \in Inodes : inode[j].ref \in Nat
    BY <1>1 DEF Tree, InodeTables, InodeRecords
  <2>2. \A j \in Inodes : inode'[j].ref = inode[j].ref
           - (IF InHand(pending[p], j) THEN 1 ELSE 0) + (IF InHand(pending'[p], j) THEN 1 ELSE 0)
    BY <1>6, <1>9, <1>10, <2>1
  <2> QED BY <1>1, <1>8, <1>10, <2>2, CountedInHand DEF Tree
<1>12. FilesTyped'
  <2>1. ofile' \in [Callers -> [1 .. NOFILE -> 0 .. NFILE]] /\ inode' \in InodeTables
    BY <1>1, <1>9 DEF FilesTyped, Tree
  <2> QED BY <1>7, <1>10, <2>1 DEF FilesTyped
<1> QED BY <1>8, <1>9, <1>11, <1>12 DEF FilesIInv

(* mkdir and mknod: the inode that create returned is put. *)
LEMMA MkdirKeeps ==
    ASSUME FilesIInv, NEW p \in Callers, sys_mkdir(p)
    PROVE  FilesIInv'
<1>1. /\ FilesTyped /\ FreeFiles /\ FilesCounted /\ InodesCounted /\ Tree(inode)
      /\ UNCHANGED <<ftable, ofile, pending, alive>> /\ ialloc(inode) # 0
  BY DEF FilesIInv, sys_mkdir, InodeLeft
<1>2. PICK path \in Paths, type \in {"dir", "dev"} :
         /\ create(inode, path, type).ip # 0
         /\ inode' = iput(create(inode, path, type).table, create(inode, path, type).ip)
  BY DEF sys_mkdir
<1> DEFINE i == create(inode, path, type).ip
           table == create(inode, path, type).table
<1>3. /\ i \in Inodes /\ Tree(table)
      /\ \A j \in Inodes : table[j].ref = inode[j].ref + (IF j = i THEN 1 ELSE 0)
  BY <1>1, <1>2, CreateKeeps
<1>4. inode' = iput(table, i)
  BY <1>2
<1> HIDE DEF i, table
<1>5. \A j \in Inodes : inode[j].ref \in Nat
  BY <1>1 DEF Tree, InodeTables, InodeRecords
<1>6. table[i].ref >= 1
  BY <1>3, <1>5
<1>7. /\ Tree(inode')
      /\ \A j \in Inodes : inode'[j].ref = table[j].ref - (IF j = i THEN 1 ELSE 0)
  BY <1>3, <1>4, <1>6, IputKeeps
<1>8. \A j \in Inodes : inode'[j].ref = inode[j].ref
  BY <1>3, <1>5, <1>7
<1>9. FreeFiles' /\ FilesCounted' /\ InodesCounted'
  BY <1>1, <1>8 DEF FreeFiles, FilesCounted, InodesCounted
<1>10. FilesTyped'
  BY <1>1, <1>7 DEF FilesTyped, PendingTyped, Tree
<1> QED BY <1>7, <1>9, <1>10 DEF FilesIInv

(* open: an inode is got and given back, or is in an open file and a descriptor
   that were free. *)
LEMMA OpenKeeps ==
    ASSUME FilesIInv, NEW p \in Callers, p \in alive, NEW ip \in Inodes, NEW table, Tree(table),
           \A j \in Inodes : table[j].ref = inode[j].ref + (IF j = ip THEN 1 ELSE 0),
           NEW readable \in BOOLEAN, NEW writable \in BOOLEAN,
           OpenInto(p, ip, table, readable, writable), UNCHANGED <<pending, alive>>
    PROVE  FilesIInv'
<1>1. FilesTyped /\ FreeFiles /\ FilesCounted /\ InodesCounted /\ Tree(inode)
  BY DEF FilesIInv
<1>2. \A j \in Inodes : inode[j].ref \in Nat
  BY <1>1 DEF Tree, InodeTables, InodeRecords
<1> DEFINE f == filealloc(ftable)
           fd == fdalloc(ofile[p])
           file == [ref |-> 1, type |-> "inode", ip |-> ip, off |-> 0,
                    readable |-> readable, writable |-> writable]
<1>3. CASE f = 0 \/ fd = 0
  <2>1. inode' = iput(table, ip) /\ UNCHANGED <<ftable, ofile>>
    BY <1>3 DEF OpenInto
  <2>2. table[ip].ref >= 1
    BY <1>2
  <2>3. /\ Tree(inode')
        /\ \A j \in Inodes : inode'[j].ref = table[j].ref - (IF j = ip THEN 1 ELSE 0)
    BY <2>1, <2>2, IputKeeps
  <2>4. \A j \in Inodes : inode'[j].ref = inode[j].ref
    BY <1>2, <2>3
  <2>5. FreeFiles' /\ FilesCounted' /\ InodesCounted'
    BY <1>1, <2>1, <2>4 DEF FreeFiles, FilesCounted, InodesCounted
  <2>6. FilesTyped'
    BY <1>1, <2>1, <2>3 DEF FilesTyped, PendingTyped, Tree
  <2> QED BY <2>3, <2>5, <2>6 DEF FilesIInv
<1>4. CASE ~ (f = 0 \/ fd = 0)
  <2>1. /\ ftable' = [ftable EXCEPT ![f] = file] /\ inode' = table
        /\ ofile' = [ofile EXCEPT ![p][fd] = f]
    BY <1>4 DEF OpenInto
  <2>2. f \in 1 .. NFILE /\ ftable[f].ref = 0
    BY <1>1, <1>4, FreeFileFound DEF FilesTyped
  <2>3. fd \in 1 .. NOFILE /\ ofile[p][fd] = 0
    <3>1. ofile[p] \in [1 .. NOFILE -> 0 .. NFILE]
      BY <1>1 DEF FilesTyped
    <3> QED BY <1>4, <3>1, FreeDescriptorFound
  <2>4. file \in FileRecords
    BY Numbers DEF FileRecords
  <2>5. /\ file.ref = 1 /\ \A j : OnInode(file, j) <=> j = ip
        /\ file.type = "inode" /\ file.ip = ip
    BY DEF OnInode
  <2> HIDE DEF f, fd, file
  <2>6. /\ ftable' \in [1 .. NFILE -> FileRecords] /\ ftable'[f] = file
        /\ \A g \in 1 .. NFILE : g # f => ftable'[g] = ftable[g]
    BY <1>1, <2>1, <2>2, <2>4 DEF FilesTyped
  <2>7. /\ ofile' \in [Callers -> [1 .. NOFILE -> 0 .. NFILE]] /\ ofile'[p][fd] = f
        /\ SameButOne(ofile, ofile', p, fd)
    BY <1>1, <2>1, <2>2, <2>3, Numbers DEF FilesTyped, SameButOne
  <2>8. FilesTyped'
    BY <1>1, <2>1, <2>6, <2>7 DEF FilesTyped, PendingTyped, Tree
  <2>9. FreeFiles'
    <3>1. \A g \in 1 .. NFILE : ftable'[g].ref = 0 => ftable'[g].type # "inode"
      BY <1>1, <2>5, <2>6 DEF FreeFiles
    <3>2. \A g \in 1 .. NFILE : ftable'[g].type = "inode" => ftable'[g].ip # 0
      BY <1>1, <2>5, <2>6, Numbers DEF FreeFiles
    <3>3. \A q \in Callers \ alive' : \A e \in 1 .. NOFILE : ofile'[q][e] = 0
      BY <1>1, <2>7 DEF FreeFiles, SameButOne
    <3> QED BY <3>1, <3>2, <3>3 DEF FreeFiles
  <2>10. FilesCounted'
    <3> SUFFICES ASSUME NEW g \in 1 .. NFILE
                 PROVE  ftable'[g].ref = Cardinality(Descriptors(ofile', g))
      BY DEF FilesCounted
    <3>1. FollowsDescriptor(ofile, ofile', p, fd, g)
      BY <2>3, <2>7, DescriptorSet
    <3>2. ftable[g].ref = Cardinality(Descriptors(ofile, g))
      BY <1>1 DEF FilesCounted
    <3>3. Cardinality(Descriptors(ofile, g)) \in Nat
      BY FiniteDescriptors
    <3>4. g # 0
      BY Numbers
    <3> QED BY <2>2, <2>3, <2>5, <2>6, <2>7, <3>1, <3>2, <3>3, <3>4 DEF FollowsDescriptor
  <2>11. InodesCounted'
    <3>1. \A j : ~ OnInode(ftable[f], j)
      BY <1>1, <2>2 DEF FreeFiles, OnInode
    <3>2. RefsFollow(p, f)
      BY <1>2, <2>1, <2>5, <2>6, <3>1 DEF RefsFollow
    <3>3. /\ SameBut(Callers, pending, pending', p)
          /\ SameBut(1 .. NFILE, ftable, ftable', f)
      BY <2>6 DEF SameBut
    <3> QED BY <1>1, <2>2, <3>2, <3>3, CountedInFile
  <2> QED BY <2>1, <2>8, <2>9, <2>10, <2>11 DEF FilesIInv
<1> QED BY <1>3, <1>4

(* open of an inode that is there, and of one that create returns *)
LEMMA OpenExisting ==
    ASSUME FilesIInv, NEW p \in Callers, sys_open(p)
    PROVE  FilesIInv'
<1>1. PICK path \in Paths, mode \in Modes :
         /\ namei(inode, path) # 0
         /\ OpenInto(p, namei(inode, path), iget(inode, namei(inode, path)), mode[1], mode[2])
  BY DEF sys_open
<1>2. p \in alive /\ UNCHANGED <<pending, alive>> /\ Tree(inode)
  BY DEF sys_open, Ready, FilesIInv
<1>3. mode[1] \in BOOLEAN /\ mode[2] \in BOOLEAN
  BY FilesAssumption
<1> DEFINE ip == namei(inode, path)
           table == iget(inode, ip)
<1>4. ip \in Inodes /\ inode[ip].type # "free"
  BY <1>1, <1>2, LookupLeads
<1>5. OpenInto(p, ip, table, mode[1], mode[2])
  BY <1>1
<1> HIDE DEF ip
<1>6. Tree(table) /\ \A j \in Inodes : table[j].ref = inode[j].ref + (IF j = ip THEN 1 ELSE 0)
  BY <1>2, <1>4, IgetKeeps
<1> HIDE DEF table
<1> QED BY <1>2, <1>3, <1>4, <1>5, <1>6, OpenKeeps

LEMMA OpenNew ==
    ASSUME FilesIInv, NEW p \in Callers, OpenCreating(p)
    PROVE  FilesIInv'
<1>1. PICK path \in Paths, mode \in Modes :
         /\ create(inode, path, "file").ip # 0
         /\ OpenInto(p, create(inode, path, "file").ip, create(inode, path, "file").table,
                     mode[1], mode[2])
  BY DEF OpenCreating
<1>2. p \in alive /\ UNCHANGED <<pending, alive>> /\ Tree(inode) /\ ialloc(inode) # 0
  BY DEF OpenCreating, Ready, FilesIInv, InodeLeft
<1>3. mode[1] \in BOOLEAN /\ mode[2] \in BOOLEAN
  BY FilesAssumption
<1> DEFINE ip == create(inode, path, "file").ip
           table == create(inode, path, "file").table
<1>4. OpenInto(p, ip, table, mode[1], mode[2])
  BY <1>1
<1>5. /\ ip \in Inodes /\ Tree(table)
      /\ \A j \in Inodes : table[j].ref = inode[j].ref + (IF j = ip THEN 1 ELSE 0)
  BY <1>1, <1>2, CreateKeeps
<1> HIDE DEF ip, table
<1> QED BY <1>2, <1>3, <1>4, <1>5, OpenKeeps

(* A file that is open has a reference. *)
LEMMA OpenCounted ==
    ASSUME FilesIInv, NEW p \in Callers, NEW fd \in 1 .. NOFILE, ofile[p][fd] # 0
    PROVE  /\ ofile[p][fd] \in 1 .. NFILE /\ ftable[ofile[p][fd]] \in FileRecords
           /\ ftable[ofile[p][fd]].ref \in Nat /\ ftable[ofile[p][fd]].ref >= 1
<1> DEFINE f == ofile[p][fd]
<1>1. f \in 1 .. NFILE /\ ftable[f] \in FileRecords
  BY Numbers DEF FilesIInv, FilesTyped
<1>2. <<p, fd>> \in Descriptors(ofile, f)
  BY DEF Descriptors
<1>3. Cardinality(Descriptors(ofile, f)) \in Nat /\ Cardinality(Descriptors(ofile, f)) # 0
  BY <1>2, FiniteDescriptors, FS_EmptySet
<1>4. ftable[f].ref = Cardinality(Descriptors(ofile, f))
  BY <1>1 DEF FilesIInv, FilesCounted
<1> QED BY <1>1, <1>3, <1>4

(* dup: one descriptor and one reference more *)
LEMMA DupKeeps ==
    ASSUME FilesIInv, NEW p \in Callers, sys_dup(p)
    PROVE  FilesIInv'
<1>1. /\ FilesTyped /\ FreeFiles /\ FilesCounted /\ InodesCounted /\ Tree(inode)
      /\ UNCHANGED <<inode, pending, alive>> /\ p \in alive /\ fdalloc(ofile[p]) # 0
  BY DEF FilesIInv, sys_dup, Ready
<1>2. PICK old \in 1 .. NOFILE :
         /\ ofile[p][old] # 0
         /\ ofile' = [ofile EXCEPT ![p][fdalloc(ofile[p])] = ofile[p][old]]
         /\ ftable' = filedup(ftable, ofile[p][old])
  BY DEF sys_dup, IsOpen
<1> DEFINE f == ofile[p][old]
           fd == fdalloc(ofile[p])
           file == [ftable[f] EXCEPT !.ref = ftable[f].ref + 1]
<1>3. f \in 1 .. NFILE /\ ftable[f] \in FileRecords /\ ftable[f].ref \in Nat
  BY <1>2, OpenCounted
<1>4. fd \in 1 .. NOFILE /\ ofile[p][fd] = 0
  <2>1. ofile[p] \in [1 .. NOFILE -> 0 .. NFILE]
    BY <1>1 DEF FilesTyped
  <2> QED BY <1>1, <2>1, FreeDescriptorFound
<1>5. ofile' = [ofile EXCEPT ![p][fd] = f] /\ ftable' = [ftable EXCEPT ![f] = file]
  BY <1>2 DEF filedup
<1> HIDE DEF f, fd
<1>6. /\ file \in FileRecords /\ file.ref = ftable[f].ref + 1
      /\ file.type = ftable[f].type /\ file.ip = ftable[f].ip
  BY <1>3 DEF FileRecords
<1> HIDE DEF file
<1>7. /\ ftable' \in [1 .. NFILE -> FileRecords] /\ ftable'[f] = file
      /\ \A g \in 1 .. NFILE : g # f => ftable'[g] = ftable[g]
  BY <1>1, <1>3, <1>5, <1>6 DEF FilesTyped
<1>8. /\ ofile' \in [Callers -> [1 .. NOFILE -> 0 .. NFILE]] /\ ofile'[p][fd] = f
      /\ SameButOne(ofile, ofile', p, fd)
  BY <1>1, <1>3, <1>4, <1>5, Numbers DEF FilesTyped, SameButOne
<1>9. FilesTyped'
  BY <1>1, <1>7, <1>8 DEF FilesTyped, PendingTyped
<1>10. FreeFiles'
  <2>1. \A g \in 1 .. NFILE : ftable'[g].ref = 0 => ftable'[g].type # "inode"
    <3>1. file.ref # 0
      BY <1>3, <1>6
    <3> QED BY <1>1, <1>7, <3>1 DEF FreeFiles
  <2>2. \A g \in 1 .. NFILE : ftable'[g].type = "inode" => ftable'[g].ip # 0
    BY <1>1, <1>3, <1>6, <1>7 DEF FreeFiles
  <2>3. \A q \in Callers \ alive' : \A e \in 1 .. NOFILE : ofile'[q][e] = 0
    BY <1>1, <1>8 DEF FreeFiles, SameButOne
  <2> QED BY <2>1, <2>2, <2>3 DEF FreeFiles
<1>11. FilesCounted'
  <2> SUFFICES ASSUME NEW g \in 1 .. NFILE
               PROVE  ftable'[g].ref = Cardinality(Descriptors(ofile', g))
    BY DEF FilesCounted
  <2>1. FollowsDescriptor(ofile, ofile', p, fd, g)
    BY <1>4, <1>8, DescriptorSet
  <2>2. ftable[g].ref = Cardinality(Descriptors(ofile, g))
    BY <1>1 DEF FilesCounted
  <2>3. Cardinality(Descriptors(ofile, g)) \in Nat /\ g # 0
    BY FiniteDescriptors, Numbers
  <2> QED BY <1>4, <1>6, <1>7, <1>8, <2>1, <2>2, <2>3 DEF FollowsDescriptor
<1>12. InodesCounted'
  <2>1. \A i, g : g \in 1 .. NFILE => (OnInode(ftable'[g], i) <=> OnInode(ftable[g], i))
    BY <1>6, <1>7 DEF OnInode
  <2>2. \A i \in Inodes : Opened(ftable', i) = Opened(ftable, i)
    BY <2>1 DEF Opened
  <2> QED BY <1>1, <2>2 DEF InodesCounted
<1> QED BY <1>1, <1>9, <1>10, <1>11, <1>12 DEF FilesIInv

Closed(ft, after, f) ==
    /\ after \in [1 .. NFILE -> FileRecords]
    /\ after[f].ref = ft[f].ref - 1 /\ after[f].ip = ft[f].ip
    /\ after[f].type = IF ft[f].ref = 1 THEN "none" ELSE ft[f].type
    /\ \A g \in 1 .. NFILE : g # f => after[g] = ft[g]

(* fileclose takes a reference, and the type with the last one. *)
LEMMA FileClosed ==
    ASSUME NEW ft \in [1 .. NFILE -> FileRecords], NEW f \in 1 .. NFILE, ft[f].ref >= 1
    PROVE  Closed(ft, fileclose(ft, f), f)
<1>1. ft[f] \in FileRecords /\ ft[f].ref \in Nat
  BY DEF FileRecords
<1> DEFINE after == fileclose(ft, f)
<1>2. CASE ft[f].ref > 1
  <2> DEFINE file == [ft[f] EXCEPT !.ref = ft[f].ref - 1]
  <2>1. after = [ft EXCEPT ![f] = file]
    BY <1>2 DEF fileclose
  <2>2. /\ file \in FileRecords /\ file.ref = ft[f].ref - 1 /\ file.ip = ft[f].ip
        /\ file.type = ft[f].type
    BY <1>1, <1>2 DEF FileRecords
  <2> HIDE DEF file, after
  <2>3. /\ after \in [1 .. NFILE -> FileRecords] /\ after[f] = file
        /\ \A g \in 1 .. NFILE : g # f => after[g] = ft[g]
    BY <2>1, <2>2
  <2>4. ft[f].ref # 1
    BY <1>1, <1>2
  <2> QED BY <2>2, <2>3, <2>4 DEF after, Closed
<1>3. CASE ~ (ft[f].ref > 1)
  <2> DEFINE file == [[ft[f] EXCEPT !.ref = 0] EXCEPT !.type = "none"]
  <2>1. after = [ft EXCEPT ![f] = file]
    BY <1>3 DEF fileclose
  <2>2. /\ file \in FileRecords /\ file.ref = 0 /\ file.ip = ft[f].ip /\ file.type = "none"
    BY <1>1 DEF FileRecords
  <2> HIDE DEF file, after
  <2>3. /\ after \in [1 .. NFILE -> FileRecords] /\ after[f] = file
        /\ \A g \in 1 .. NFILE : g # f => after[g] = ft[g]
    BY <2>1, <2>2
  <2>4. ft[f].ref = 1
    BY <1>1, <1>3
  <2> QED BY <2>2, <2>3, <2>4 DEF after, Closed
<1> QED BY <1>2, <1>3

(* close: the inode of the last reference goes from the open file to the hand
   of who closed it. *)
LEMMA CloseKeeps ==
    ASSUME FilesIInv, NEW p \in Callers, sys_close(p)
    PROVE  FilesIInv'
<1>1. /\ FilesTyped /\ FreeFiles /\ FilesCounted /\ InodesCounted /\ Tree(inode)
      /\ UNCHANGED <<inode, alive>> /\ p \in alive /\ pending[p] = Nothing
  BY DEF FilesIInv, sys_close, Ready
<1>2. PICK fd \in 1 .. NOFILE :
         /\ ofile[p][fd] # 0
         /\ ofile' = [ofile EXCEPT ![p][fd] = 0]
         /\ ftable' = fileclose(ftable, ofile[p][fd])
         /\ pending' = [pending EXCEPT ![p] =
               IF ftable[ofile[p][fd]].ref = 1 /\ ftable[ofile[p][fd]].type = "inode"
                 THEN [op |-> "iput", ip |-> ftable[ofile[p][fd]].ip] ELSE Nothing]
  BY DEF sys_close, IsOpen
<1> DEFINE f == ofile[p][fd]
           last == ftable[f].ref = 1 /\ ftable[f].type = "inode"
           found == IF last THEN [op |-> "iput", ip |-> ftable[f].ip] ELSE Nothing
<1>3. /\ f \in 1 .. NFILE /\ ftable[f] \in FileRecords
      /\ ftable[f].ref \in Nat /\ ftable[f].ref >= 1
  BY <1>2, OpenCounted
<1>4. /\ ofile[p][fd] = f /\ ofile' = [ofile EXCEPT ![p][fd] = 0]
      /\ ftable' = fileclose(ftable, f) /\ pending' = [pending EXCEPT ![p] = found]
  BY <1>2
<1> HIDE DEF f
<1>5. ftable[f].type = "inode" => ftable[f].ip \in Inodes
  BY <1>1, <1>3, Numbers DEF FreeFiles, FileRecords
<1>6. HandTyped(found) /\ \A i : InHand(found, i) <=> last /\ i = ftable[f].ip
  <2>1. CASE last
    BY <1>5, <2>1 DEF HandTyped, InHand
  <2>2. CASE ~ last
    <3>1. found = Nothing
      BY <2>2
    <3> HIDE DEF found
    <3> QED BY <2>2, <3>1, HandsEmpty, EmptyHand
  <2> QED BY <2>1, <2>2
<1> HIDE DEF found
<1>7. /\ ftable' \in [1 .. NFILE -> FileRecords]
      /\ ftable'[f].ref = ftable[f].ref - 1 /\ ftable'[f].ip = ftable[f].ip
      /\ ftable'[f].type = IF ftable[f].ref = 1 THEN "none" ELSE ftable[f].type
      /\ \A g \in 1 .. NFILE : g # f => ftable'[g] = ftable[g]
  <2>1. Closed(ftable, ftable', f)
    BY <1>1, <1>3, <1>4, FileClosed DEF FilesTyped
  <2> QED BY <2>1 DEF Closed
<1>8. /\ ofile' \in [Callers -> [1 .. NOFILE -> 0 .. NFILE]] /\ ofile'[p][fd] = 0
      /\ SameButOne(ofile, ofile', p, fd)
  BY <1>1, <1>4, Numbers DEF FilesTyped, SameButOne
<1>9. /\ PendingTyped' /\ pending'[p] = found /\ SameBut(Callers, pending, pending', p)
  BY <1>1, <1>4, <1>6, HandSet DEF FilesTyped
<1>10. FilesTyped'
  BY <1>1, <1>7, <1>8, <1>9 DEF FilesTyped
<1>11. FreeFiles'
  <2>1. \A g \in 1 .. NFILE : ftable'[g].ref = 0 => ftable'[g].type # "inode"
    <3>1. ftable'[f].ref = 0 => ftable'[f].type # "inode"
      BY <1>3, <1>7
    <3> QED BY <1>1, <1>7, <3>1 DEF FreeFiles
  <2>2. \A g \in 1 .. NFILE : ftable'[g].type = "inode" => ftable'[g].ip # 0
    <3>1. ftable'[f].type = "inode" => ftable'[f].ip # 0
      BY <1>1, <1>3, <1>7 DEF FreeFiles
    <3> QED BY <1>1, <1>7, <3>1 DEF FreeFiles
  <2>3. \A q \in Callers \ alive' : \A e \in 1 .. NOFILE : ofile'[q][e] = 0
    BY <1>1, <1>8 DEF FreeFiles, SameButOne
  <2> QED BY <2>1, <2>2, <2>3 DEF FreeFiles
<1>12. FilesCounted'
  <2> SUFFICES ASSUME NEW g \in 1 .. NFILE
               PROVE  ftable'[g].ref = Cardinality(Descriptors(ofile', g))
    BY DEF FilesCounted
  <2>1. FollowsDescriptor(ofile, ofile', p, fd, g)
    BY <1>8, DescriptorSet
  <2>2. ftable[g].ref = Cardinality(Descriptors(ofile, g))
    BY <1>1 DEF FilesCounted
  <2>3. Cardinality(Descriptors(ofile, g)) \in Nat /\ g # 0
    BY FiniteDescriptors, Numbers
  <2> QED BY <1>4, <1>7, <1>8, <2>1, <2>2, <2>3 DEF FollowsDescriptor
<1>13. InodesCounted'
  <2>1. \A i : OnInode(ftable'[f], i) <=> OnInode(ftable[f], i) /\ ~ last
    BY <1>7 DEF OnInode
  <2>2. \A i : InHand(found, i) <=> last /\ OnInode(ftable[f], i)
    BY <1>6 DEF OnInode
  <2>3. \A i \in Inodes : inode[i].ref \in Nat
    BY <1>1 DEF Tree, InodeTables, InodeRecords
  <2> HIDE DEF last
  <2>4. RefsFollow(p, f)
    BY <1>1, <1>9, <2>1, <2>2, <2>3, EmptyHand DEF RefsFollow
  <2>5. SameBut(1 .. NFILE, ftable, ftable', f)
    BY <1>7 DEF SameBut
  <2> QED BY <1>1, <1>3, <1>9, <2>4, <2>5, CountedInFile
<1> QED BY <1>1, <1>10, <1>11, <1>12, <1>13 DEF FilesIInv

(* An action that leaves inodes alone, and what open files have of them *)
LEMMA InodesAlone ==
    ASSUME FilesIInv, UNCHANGED <<inode, pending>>,
           \A i : \A f \in 1 .. NFILE : OnInode(ftable'[f], i) <=> OnInode(ftable[f], i)
    PROVE  InodesCounted' /\ Tree(inode') /\ PendingTyped'
<1>1. InodesCounted /\ Tree(inode) /\ PendingTyped
  BY DEF FilesIInv, FilesTyped
<1>2. \A i \in Inodes : Opened(ftable', i) = Opened(ftable, i)
  BY DEF Opened
<1> QED BY <1>1, <1>2 DEF InodesCounted, PendingTyped

(* A free entry of the table becomes one end of a pipe. *)
PipeEnd(readable) ==
    [FreeFile EXCEPT !.ref = 1, !.type = "pipe", !.readable = readable, !.writable = ~ readable]
Made(ft, after, f) ==
    /\ f \in 1 .. NFILE /\ ft[f].ref = 0
    /\ after \in [1 .. NFILE -> FileRecords]
    /\ after[f].ref = 1 /\ after[f].type = "pipe"
    /\ \A g \in 1 .. NFILE : g # f => after[g] = ft[g]

LEMMA EndMade ==
    ASSUME NEW ft \in [1 .. NFILE -> FileRecords], filealloc(ft) # 0, NEW readable \in BOOLEAN
    PROVE  Made(ft, [ft EXCEPT ![filealloc(ft)] = PipeEnd(readable)], filealloc(ft))
<1> DEFINE f == filealloc(ft)
           file == PipeEnd(readable)
<1>1. f \in 1 .. NFILE /\ ft[f].ref = 0
  BY FreeFileFound
<1>2. file.ref = 1 /\ file.type = "pipe" /\ file \in FileRecords
  BY Numbers DEF FreeFile, FileRecords, PipeEnd
<1> HIDE DEF f, file
<1>3. Made(ft, [ft EXCEPT ![f] = file], f)
  BY <1>1, <1>2 DEF Made
<1> QED BY <1>3 DEF f, file

(* pipe: two files and two descriptors, or none of them *)
LEMMA PipeKeeps ==
    ASSUME FilesIInv, NEW p \in Callers, sys_pipe(p)
    PROVE  FilesIInv'
<1>1. /\ FilesTyped /\ FreeFiles /\ FilesCounted /\ InodesCounted /\ Tree(inode)
      /\ UNCHANGED <<inode, pending, alive>> /\ p \in alive
  BY DEF FilesIInv, sys_pipe, Ready
<1> DEFINE rf == filealloc(ftable)
           one == [ftable EXCEPT ![rf] = PipeEnd(TRUE)]
           wf == filealloc(one)
           two == [one EXCEPT ![wf] = PipeEnd(FALSE)]
           fd0 == fdalloc(ofile[p])
           with0 == [ofile[p] EXCEPT ![fd0] = rf]
           fd1 == fdalloc(with0)
<1>2. rf # 0 /\ wf # 0 /\ fd0 # 0
  BY DEF sys_pipe, PipeEnd
<1>3. \/ /\ fd1 = 0
         /\ ofile' = [ofile EXCEPT ![p] = [with0 EXCEPT ![fd0] = 0]]
         /\ ftable' = fileclose(fileclose(two, rf), wf)
      \/ /\ fd1 # 0
         /\ ofile' = [ofile EXCEPT ![p] = [with0 EXCEPT ![fd1] = wf]]
         /\ ftable' = two
  BY DEF sys_pipe, PipeEnd
<1>4. Made(ftable, one, rf)
  BY <1>1, <1>2, EndMade DEF FilesTyped
<1>5. Made(one, two, wf)
  <2>1. one \in [1 .. NFILE -> FileRecords]
    BY <1>4 DEF Made
  <2> HIDE DEF one
  <2> QED BY <1>2, <2>1, EndMade
<1>6. fd0 \in 1 .. NOFILE /\ ofile[p][fd0] = 0 /\ ofile[p] \in [1 .. NOFILE -> 0 .. NFILE]
  <2>1. ofile[p] \in [1 .. NOFILE -> 0 .. NFILE]
    BY <1>1 DEF FilesTyped
  <2> QED BY <1>2, <2>1, FreeDescriptorFound
<1> HIDE DEF fd0
<1>7. /\ rf \in 1 .. NFILE /\ ftable[rf].ref = 0 /\ one \in [1 .. NFILE -> FileRecords]
      /\ one[rf].ref = 1 /\ one[rf].type = "pipe"
      /\ \A g \in 1 .. NFILE : g # rf => one[g] = ftable[g]
  BY <1>4 DEF Made
<1>8. /\ with0 \in [1 .. NOFILE -> 0 .. NFILE] /\ with0[fd0] = rf
      /\ \A e \in 1 .. NOFILE : e # fd0 => with0[e] = ofile[p][e]
  BY <1>6, <1>7, Numbers
<1> HIDE DEF rf, one
<1>9. /\ wf \in 1 .. NFILE /\ one[wf].ref = 0 /\ two \in [1 .. NFILE -> FileRecords]
      /\ two[wf].ref = 1 /\ two[wf].type = "pipe"
      /\ \A g \in 1 .. NFILE : g # wf => two[g] = one[g]
  BY <1>5 DEF Made
<1> HIDE DEF wf, two
<1>10. wf # rf /\ ftable[wf].ref = 0 /\ two[rf] = one[rf]
  BY <1>7, <1>9
<1>11. \A g \in 1 .. NFILE : g # rf /\ g # wf => two[g] = ftable[g]
  BY <1>7, <1>9
<1>12. /\ \A i : ~ OnInode(ftable[rf], i) /\ ~ OnInode(ftable[wf], i)
       /\ Cardinality(Descriptors(ofile, rf)) = 0 /\ Cardinality(Descriptors(ofile, wf)) = 0
  BY <1>1, <1>7, <1>9, <1>10 DEF FreeFiles, FilesCounted, OnInode
<1>13. CASE /\ fd1 = 0
            /\ ofile' = [ofile EXCEPT ![p] = [with0 EXCEPT ![fd0] = 0]]
            /\ ftable' = fileclose(fileclose(two, rf), wf)
  <2>1. ofile' = ofile
    <3>1. [with0 EXCEPT ![fd0] = 0] = ofile[p]
      BY <1>6, <1>8
    <3> QED BY <1>1, <1>13, <3>1 DEF FilesTyped
  <2> DEFINE closed == fileclose(two, rf)
  <2>2. /\ closed \in [1 .. NFILE -> FileRecords] /\ closed[rf].ref = 0
        /\ closed[rf].type = "none"
        /\ \A g \in 1 .. NFILE : g # rf => closed[g] = two[g]
    <3>1. two[rf].ref = 1 /\ two[rf].ref >= 1
      BY <1>7, <1>10
    <3>2. Closed(two, closed, rf)
      BY <1>7, <1>9, <3>1, FileClosed
    <3> QED BY <3>1, <3>2 DEF Closed
  <2> HIDE DEF closed
  <2>3. /\ ftable' \in [1 .. NFILE -> FileRecords] /\ ftable'[wf].ref = 0
        /\ ftable'[wf].type = "none"
        /\ \A g \in 1 .. NFILE : g # wf => ftable'[g] = closed[g]
    <3>1. closed[wf].ref = 1 /\ closed[wf].ref >= 1 /\ ftable' = fileclose(closed, wf)
      BY <1>9, <1>10, <1>13, <2>2 DEF closed
    <3>2. Closed(closed, ftable', wf)
      BY <1>9, <2>2, <3>1, FileClosed
    <3> QED BY <3>1, <3>2 DEF Closed
  <2>4. ftable'[rf].ref = 0 /\ ftable'[rf].type = "none"
    BY <1>7, <1>10, <2>2, <2>3
  <2>5. \A g \in 1 .. NFILE : g # rf /\ g # wf => ftable'[g] = ftable[g]
    BY <1>11, <2>2, <2>3
  <2>6. \A i : \A g \in 1 .. NFILE : OnInode(ftable'[g], i) <=> OnInode(ftable[g], i)
    BY <1>12, <2>3, <2>4, <2>5 DEF OnInode
  <2>7. InodesCounted' /\ Tree(inode') /\ PendingTyped'
    BY <1>1, <2>6, InodesAlone
  <2>8. FilesTyped'
    BY <1>1, <2>1, <2>3, <2>7 DEF FilesTyped, Tree
  <2>9. FilesCounted'
    BY <1>1, <1>12, <2>1, <2>3, <2>4, <2>5 DEF FilesCounted
  <2>10. FreeFiles'
    BY <1>1, <2>1, <2>3, <2>4, <2>5 DEF FreeFiles
  <2> QED BY <2>7, <2>8, <2>9, <2>10 DEF FilesIInv
<1>14. CASE /\ fd1 # 0
            /\ ofile' = [ofile EXCEPT ![p] = [with0 EXCEPT ![fd1] = wf]]
            /\ ftable' = two
  <2>1. fd1 \in 1 .. NOFILE /\ with0[fd1] = 0
    BY <1>8, <1>14, FreeDescriptorFound
  <2> HIDE DEF fd1, with0
  <2>2. fd1 # fd0 /\ ofile[p][fd1] = 0
    BY <1>7, <1>8, <2>1, Numbers
  <2> DEFINE mid == [ofile EXCEPT ![p] = with0]
             last == [with0 EXCEPT ![fd1] = wf]
  <2>3. /\ last \in [1 .. NOFILE -> 0 .. NFILE] /\ last[fd1] = wf
        /\ \A e \in 1 .. NOFILE : e # fd1 => last[e] = with0[e]
    BY <1>8, <1>9, <2>1, Numbers
  <2> HIDE DEF last
  <2>4. /\ mid[p] = with0 /\ ofile'[p] = last
        /\ \A q \in Callers : q # p => mid[q] = ofile[q] /\ ofile'[q] = ofile[q]
        /\ ofile' \in [Callers -> [1 .. NOFILE -> 0 .. NFILE]]
    <3>1. ofile' = [ofile EXCEPT ![p] = last]
      BY <1>14 DEF last
    <3> QED BY <1>1, <1>8, <2>3, <3>1 DEF FilesTyped
  <2> HIDE DEF mid
  <2>5. SameButOne(ofile, mid, p, fd0) /\ SameButOne(mid, ofile', p, fd1)
    BY <1>8, <2>3, <2>4 DEF SameButOne
  <2>6. \A i : \A g \in 1 .. NFILE : OnInode(ftable'[g], i) <=> OnInode(ftable[g], i)
    <3>1. \A i : ~ OnInode(two[rf], i) /\ ~ OnInode(two[wf], i)
      BY <1>7, <1>9, <1>10 DEF OnInode
    <3> QED BY <1>11, <1>12, <1>14, <3>1
  <2>7. InodesCounted' /\ Tree(inode') /\ PendingTyped'
    BY <1>1, <2>6, InodesAlone
  <2>8. FilesTyped'
    BY <1>1, <1>9, <1>14, <2>4, <2>7 DEF FilesTyped, Tree
  <2>9. FilesCounted'
    <3> SUFFICES ASSUME NEW g \in 1 .. NFILE
                 PROVE  ftable'[g].ref = Cardinality(Descriptors(ofile', g))
      BY DEF FilesCounted
    <3>1. FollowsDescriptor(ofile, mid, p, fd0, g)
      BY <1>6, <2>5, DescriptorSet
    <3>2. FollowsDescriptor(mid, ofile', p, fd1, g)
      BY <2>1, <2>5, DescriptorSet
    <3>3. ftable[g].ref = Cardinality(Descriptors(ofile, g))
      BY <1>1 DEF FilesCounted
    <3>4. Cardinality(Descriptors(ofile, g)) \in Nat /\ g # 0
      BY FiniteDescriptors, Numbers
    <3>5. /\ ofile[p][fd0] = 0 /\ mid[p][fd0] = rf
          /\ mid[p][fd1] = 0 /\ ofile'[p][fd1] = wf
      BY <1>6, <1>8, <2>1, <2>3, <2>4
    <3>6. Cardinality(Descriptors(ofile', g)) = Cardinality(Descriptors(ofile, g))
             + (IF rf = g THEN 1 ELSE 0) + (IF wf = g THEN 1 ELSE 0)
      BY <3>1, <3>2, <3>4, <3>5 DEF FollowsDescriptor
    <3>7. CASE g = rf
      BY <1>7, <1>10, <1>12, <1>14, <3>6, <3>7
    <3>8. CASE g = wf
      BY <1>9, <1>10, <1>12, <1>14, <3>6, <3>8
    <3>9. CASE g # rf /\ g # wf
      BY <1>11, <1>14, <3>3, <3>4, <3>6, <3>9
    <3> QED BY <3>7, <3>8, <3>9
  <2>10. FreeFiles'
    <3>1. \A g \in 1 .. NFILE : ftable'[g].ref = 0 => ftable'[g].type # "inode"
      BY <1>1, <1>7, <1>9, <1>10, <1>11, <1>14 DEF FreeFiles
    <3>2. \A g \in 1 .. NFILE : ftable'[g].type = "inode" => ftable'[g].ip # 0
      BY <1>1, <1>7, <1>9, <1>10, <1>11, <1>14 DEF FreeFiles
    <3>3. \A q \in Callers \ alive' : \A e \in 1 .. NOFILE : ofile'[q][e] = 0
      BY <1>1, <2>4 DEF FreeFiles
    <3> QED BY <3>1, <3>2, <3>3 DEF FreeFiles
  <2> QED BY <2>7, <2>8, <2>9, <2>10 DEF FilesIInv
<1> QED BY <1>3, <1>13, <1>14

(* The child's descriptors are the parent's; each file counts both. *)
LEMMA ForkKeeps ==
    ASSUME FilesIInv, NEW p \in Callers, NEW q \in Callers, fork_dup(p, q)
    PROVE  FilesIInv'
<1> DEFINE Mine(f) == {fd \in 1 .. NOFILE : ofile[p][fd] = f}
<1>1. /\ FilesTyped /\ FreeFiles /\ FilesCounted /\ InodesCounted /\ Tree(inode)
      /\ UNCHANGED <<inode, pending>> /\ p \in alive /\ q \notin alive
      /\ alive' = alive \cup {q} /\ ofile' = [ofile EXCEPT ![q] = ofile[p]]
  BY DEF FilesIInv, fork_dup, Ready
<1>2. ftable' = [f \in 1 .. NFILE |-> [ftable[f] EXCEPT !.ref = @ + Cardinality(Mine(f))]]
  BY DEF fork_dup
<1>3. \A f : IsFiniteSet(Mine(f)) /\ Cardinality(Mine(f)) \in Nat
  <2> TAKE f
  <2>1. IsFiniteSet(1 .. NOFILE)
    BY Numbers, FS_Interval
  <2>2. IsFiniteSet(Mine(f))
    BY <2>1, FS_Subset
  <2> QED BY <2>2, FS_CardinalityType
<1>4. /\ ofile' \in [Callers -> [1 .. NOFILE -> 0 .. NFILE]] /\ ofile'[q] = ofile[p]
      /\ \A r \in Callers : r # q => ofile'[r] = ofile[r]
  BY <1>1 DEF FilesTyped
<1>5. \A fd \in 1 .. NOFILE : ofile[q][fd] = 0
  BY <1>1 DEF FreeFiles
<1>6. ASSUME NEW f \in 1 .. NFILE
      PROVE  Cardinality(Descriptors(ofile', f)) =
                Cardinality(Descriptors(ofile, f)) + Cardinality(Mine(f))
  <2>1. Descriptors(ofile', f) = Descriptors(ofile, f) \cup ({q} \X Mine(f))
    <3>1. ASSUME NEW r \in Callers, NEW fd \in 1 .. NOFILE
          PROVE  ofile'[r][fd] = f <=> ofile[r][fd] = f \/ (r = q /\ ofile[p][fd] = f)
      BY <1>4, <1>5, Numbers
    <3> QED BY <3>1 DEF Descriptors
  <2>2. Descriptors(ofile, f) \cap ({q} \X Mine(f)) = {}
    BY <1>5, Numbers DEF Descriptors
  <2>3. /\ IsFiniteSet(Descriptors(ofile, f)) /\ IsFiniteSet({q} \X Mine(f))
        /\ Cardinality({q} \X Mine(f)) = 1 * Cardinality(Mine(f))
    <3> HIDE DEF Mine
    <3>1. IsFiniteSet({q}) /\ Cardinality({q}) = 1
      BY FS_Singleton
    <3> QED BY <1>3, <3>1, FiniteDescriptors, FS_Product
  <2>4. Cardinality(Descriptors(ofile', f)) = Cardinality(Descriptors(ofile, f))
           + Cardinality({q} \X Mine(f)) - Cardinality({})
    BY <2>1, <2>2, <2>3, FS_Union
  <2>5. Cardinality({}) = 0 /\ Cardinality(Descriptors(ofile, f)) \in Nat
    BY FS_EmptySet, FiniteDescriptors
  <2> HIDE DEF Mine
  <2> QED BY <1>3, <2>3, <2>4, <2>5
<1> HIDE DEF Mine
<1>7. ASSUME NEW f \in 1 .. NFILE
      PROVE  /\ ftable'[f] \in FileRecords /\ ftable[f].ref \in Nat
             /\ ftable'[f].ref = ftable[f].ref + Cardinality(Mine(f))
             /\ ftable'[f].type = ftable[f].type /\ ftable'[f].ip = ftable[f].ip
  <2>1. ftable[f] \in FileRecords
    BY <1>1 DEF FilesTyped
  <2>2. ftable'[f] = [ftable[f] EXCEPT !.ref = ftable[f].ref + Cardinality(Mine(f))]
    BY <1>2
  <2> QED BY <1>3, <2>1, <2>2 DEF FileRecords
<1>8. ftable' \in [1 .. NFILE -> FileRecords]
  <2>1. ftable' = [f \in 1 .. NFILE |-> ftable'[f]]
    BY <1>2
  <2> QED BY <1>7, <2>1
<1>9. InodesCounted' /\ Tree(inode') /\ PendingTyped'
  <2>1. \A i : \A f \in 1 .. NFILE : OnInode(ftable'[f], i) <=> OnInode(ftable[f], i)
    BY <1>7 DEF OnInode
  <2> QED BY <1>1, <2>1, InodesAlone
<1>10. FilesTyped'
  BY <1>4, <1>8, <1>9 DEF FilesTyped, Tree
<1>11. FilesCounted'
  BY <1>1, <1>6, <1>7 DEF FilesCounted
<1>12. FreeFiles'
  <2>1. \A f \in 1 .. NFILE : ftable'[f].ref = 0 => ftable'[f].type # "inode"
    <3> SUFFICES ASSUME NEW f \in 1 .. NFILE, ftable'[f].ref = 0
                 PROVE  ftable'[f].type # "inode"
      OBVIOUS
    <3>1. ftable[f].ref = 0
      BY <1>3, <1>7
    <3> QED BY <1>1, <1>7, <3>1 DEF FreeFiles
  <2>2. \A f \in 1 .. NFILE : ftable'[f].type = "inode" => ftable'[f].ip # 0
    BY <1>1, <1>7 DEF FreeFiles
  <2>3. \A r \in Callers \ alive' : \A fd \in 1 .. NOFILE : ofile'[r][fd] = 0
    BY <1>1, <1>4 DEF FreeFiles
  <2> QED BY <2>1, <2>2, <2>3 DEF FreeFiles
<1> QED BY <1>9, <1>10, <1>11, <1>12 DEF FilesIInv

-----------------------------------------------------------------------------

(* At first there is the root, with no names, and nothing is open. *)
LEMMA FilesStart ==
    ASSUME FileInit
    PROVE  FilesIInv
<1>1. /\ ftable = [f \in 1 .. NFILE |-> FreeFile]
      /\ ofile = [p \in Callers |-> [fd \in 1 .. NOFILE |-> 0]]
      /\ inode = [i \in Inodes |-> IF i = ROOT THEN [FreeInode EXCEPT !.type = "dir", !.nlink = 1]
                                   ELSE FreeInode]
      /\ pending = [p \in Callers |-> Nothing]
  BY DEF FileInit
<1>2. FreeFile \in FileRecords /\ FreeFile.ref = 0 /\ FreeFile.type = "none"
  BY Numbers DEF FreeFile, FileRecords
<1> DEFINE root == [FreeInode EXCEPT !.type = "dir", !.nlink = 1]
<1>3. /\ FreeInode \in InodeRecords /\ root \in InodeRecords
      /\ FreeInode.type = "free" /\ FreeInode.nlink = 0 /\ FreeInode.ref = 0
      /\ root.type = "dir" /\ root.nlink = 1 /\ root.ref = 0
      /\ FreeInode.entries = [n \in Names |-> 0] /\ root.entries = [n \in Names |-> 0]
  BY Numbers DEF FreeInode, InodeRecords
<1>4. /\ inode[ROOT] = root /\ \A i \in Inodes \ {ROOT} : inode[i] = FreeInode
      /\ inode = [i \in Inodes |-> inode[i]]
  BY <1>1, Numbers
<1> HIDE DEF root
<1>5. inode \in InodeTables
  <2>1. \A i \in Inodes : inode[i] \in InodeRecords
    BY <1>3, <1>4
  <2> QED BY <1>4, <2>1 DEF InodeTables
<1>6. \A i \in Inodes : inode[i].ref = 0 /\ \A n \in Names : inode[i].entries[n] = 0
  BY <1>3, <1>4
<1>7. \A p \in Callers : pending[p] = Nothing
  BY <1>1
<1>8. FilesTyped
  <2>1. PendingTyped
    BY <1>1, <1>7, HandsEmpty DEF PendingTyped
  <2>2. ftable \in [1 .. NFILE -> FileRecords]
    BY <1>1, <1>2
  <2>3. ofile \in [Callers -> [1 .. NOFILE -> 0 .. NFILE]]
    BY <1>1, Numbers
  <2> QED BY <1>5, <2>1, <2>2, <2>3 DEF FilesTyped
<1>9. FreeFiles
  <2>1. \A f \in 1 .. NFILE : ftable[f].type = "none"
    BY <1>1, <1>2
  <2> QED BY <1>1, <2>1 DEF FreeFiles
<1>10. FilesCounted
  <2> SUFFICES ASSUME NEW f \in 1 .. NFILE
               PROVE  ftable[f].ref = Cardinality(Descriptors(ofile, f))
    BY DEF FilesCounted
  <2>1. Descriptors(ofile, f) = {}
    BY <1>1, Numbers DEF Descriptors
  <2> QED BY <1>1, <1>2, <2>1, FS_EmptySet
<1>11. InodesCounted
  <2> SUFFICES ASSUME NEW i \in Inodes
               PROVE  inode[i].ref =
                         Cardinality(Opened(ftable, i)) + Cardinality(Holders(pending, i))
    BY DEF InodesCounted
  <2>1. Opened(ftable, i) = {}
    BY <1>1, <1>2 DEF Opened, OnInode
  <2>2. Holders(pending, i) = {}
    BY <1>7, EmptyHand DEF Holders
  <2>3. Cardinality({}) = 0
    BY FS_EmptySet
  <2> QED BY <1>6, <2>1, <2>2, <2>3
<1>12. Tree(inode)
  <2>1. \A i \in Inodes : Named(inode, i) = {} /\ Inside(inode, i) = {}
    BY <1>6, Numbers DEF Named, Inside
  <2>2. LinksRight(inode)
    <3> SUFFICES ASSUME NEW i \in Inodes
                 PROVE  inode[i].nlink = Cardinality(Named(inode, i))
                           + Cardinality(Inside(inode, i)) + (IF i = ROOT THEN 1 ELSE 0)
      BY DEF LinksRight
    <3>1. Named(inode, i) = {} /\ Inside(inode, i) = {} /\ Cardinality({}) = 0
      BY <2>1, FS_EmptySet
    <3>2. inode[i].nlink = IF i = ROOT THEN 1 ELSE 0
      BY <1>3, <1>4
    <3> QED BY <3>1, <3>2
  <2>3. Freed(inode)
    BY <1>3, <1>4 DEF Freed
  <2>4. /\ inode[ROOT].type = "dir"
        /\ \A i \in Inodes, n \in Names : inode[i].entries[n] # ROOT /\ inode[i].entries[n] # i
    BY <1>3, <1>4, <1>6, Numbers
  <2> QED BY <1>5, <1>6, <2>2, <2>3, <2>4 DEF Tree
<1> QED BY <1>8, <1>9, <1>10, <1>11, <1>12 DEF FilesIInv

(* Each action keeps the invariant. *)
LEMMA FilesStep ==
    ASSUME FilesIInv, [FileNext]_fileVars
    PROVE  FilesIInv'
<1>1. ASSUME UNCHANGED fileVars PROVE FilesIInv'
  BY <1>1 DEF fileVars, FilesIInv, FilesTyped, PendingTyped, FreeFiles, FilesCounted, InodesCounted
<1>2. ASSUME NEW p \in Callers, NEW q \in Callers, fork_dup(p, q) PROVE FilesIInv'
  BY <1>2, ForkKeeps
<1>3. ASSUME NEW p \in Callers,
             \/ sys_dup(p) \/ sys_read(p) \/ sys_write(p) \/ filewrite(p) \/ sys_close(p)
             \/ PutClosed(p) \/ sys_link(p) \/ Link(p) \/ sys_unlink(p) \/ Unlink(p)
             \/ sys_open(p) \/ OpenCreating(p) \/ sys_mkdir(p) \/ sys_pipe(p)
      PROVE  FilesIInv'
  BY <1>3, DupKeeps, ReadKeeps, WriteBegins, ChunkKeeps, CloseKeeps, PutClosedKeeps, LinkBegins,
     LinkEnds, UnlinkBegins, UnlinkEnds, OpenExisting, OpenNew, MkdirKeeps, PipeKeeps
<1> QED BY <1>1, <1>2, <1>3 DEF FileNext

(* The counts of the invariant are the ones the properties name. *)
LEMMA CountsAreRight ==
    ASSUME FilesIInv
    PROVE  ReferencesCounted /\ LinksCounted
<1>1. \A f \in 1 .. NFILE :
         ftable[f].ref = Cardinality({x \in Callers \X (1 .. NOFILE) : ofile[x[1]][x[2]] = f})
  BY DEF FilesIInv, FilesCounted, Descriptors
<1>2. \A i \in Inodes :
         inode[i].ref =
            Cardinality({f \in 1 .. NFILE : ftable[f].type = "inode" /\ ftable[f].ip = i})
            + Cardinality({p \in Callers : Holds(p, i)})
  <2>1. \A i : {p \in Callers : Holds(p, i)} = Holders(pending, i)
    BY DEF Holds, Holders, InHand
  <2>2. \A i : {f \in 1 .. NFILE : ftable[f].type = "inode" /\ ftable[f].ip = i} = Opened(ftable, i)
    BY DEF Opened, OnInode
  <2> QED BY <2>1, <2>2 DEF FilesIInv, InodesCounted
<1>3. LinksRight(inode) /\ Freed(inode)
  BY DEF FilesIInv, Tree
<1>4. LinksCounted
  BY <1>3 DEF LinksCounted, LinksRight, Freed, Named, Inside
<1> QED BY <1>1, <1>2, <1>4 DEF ReferencesCounted

(* The tables of files and inodes of xv6 are kept as FilesIInv says. *)
THEOREM FilesInvariant == FileSpec => []FilesIInv
BY FilesStart, FilesStep, PTL DEF FileSpec

(* Open files and inodes count who uses them: sysfile.c and file.c. *)
THEOREM ReferencesRight == FileSpec => []ReferencesCounted
BY FilesInvariant, CountsAreRight, PTL

(* Link counts are the numbers of names. *)
THEOREM LinkCountsRight == FileSpec => []LinksCounted
BY FilesInvariant, CountsAreRight, PTL
=============================================================================
