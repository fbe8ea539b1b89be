--------------------------- MODULE BoundedBuffer ---------------------------
(* LAB10/E05.cpp: producers and consumers around a circular buffer.  The two *)
(* sides count free and used slots with the semaphores emptyCount and        *)
(* fillCount; producers exclude one another with csP, consumers with csC, so *)
(* an insert and a remove run at the same time.                              *)
EXTENDS Naturals, FiniteSets, Sequences

CONSTANTS
    Producers, Consumers,  \* thread identities
    Values,                \* what a producer may generate (rand() % 100)
    Size,                  \* circularBufferSize
    NoValue,               \* content of a variable not assigned yet
    NoThread,              \* owner of a free critical section
    VisitEnds              \* what the build makes of "pos = pos++" in visit

ASSUME BufferAssumption ==
    /\ IsFiniteSet(Producers) /\ IsFiniteSet(Consumers)
    /\ Producers \cap Consumers = {}
    /\ NoThread \notin Producers \cup Consumers
    /\ NoValue \notin Values
    /\ Size \in Nat \ {0}
    /\ VisitEnds \in BOOLEAN

VARIABLES
    buffer, read, write,    \* the LIST: buffer[0..Size-1] and its two indices
    emptyCount, fillCount,  \* semaphores
    csP, csC,               \* owner of each critical section, or NoThread
    pc,                     \* the operation each thread executes next
    val                     \* generatedValue of a producer, extractValue of a consumer

vars == <<buffer, read, write, emptyCount, fillCount, csP, csC, pc, val>>

Threads == Producers \cup Consumers
Slots == 0 .. Size - 1

(* init, and the semaphores and critical sections made in _tmain.  The zeros  *)
(* init stores are no item any producer generated: NoValue stands for them.  *)
Init ==
    /\ buffer = [i \in Slots |-> NoValue]
    /\ read = 0 /\ write = 0
    /\ emptyCount = Size /\ fillCount = 0
    /\ csP = NoThread /\ csC = NoThread
    /\ pc = [t \in Threads |-> "wait"]
    /\ val = [t \in Threads |-> NoValue]

(* "write++; if (write > size - 1) write = 0", and the same for read *)
NextSlotUnwrapped(i) == i + 1
NextSlot(i) == IF i + 1 > Size - 1 THEN 0 ELSE i + 1

(* ReleaseSemaphore(sem, 1): fails without effect at the maximum *)
PostLost(count) == count
Post(count) == IF count < Size THEN count + 1 ELSE count

Goto(t, from, to) ==
    /\ pc[t] = from
    /\ pc' = [pc EXCEPT ![t] = to]

-----------------------------------------------------------------------------
(* Producer *)

ProducerWaitUncounted(p) ==
    /\ Goto(p, "wait", "enter")
    /\ emptyCount > 0
    /\ UNCHANGED <<buffer, read, write, emptyCount, fillCount, csP, csC, val>>

ProducerWait(p) ==
    /\ Goto(p, "wait", "enter")
    /\ emptyCount > 0
    /\ emptyCount' = emptyCount - 1
    /\ UNCHANGED <<buffer, read, write, fillCount, csP, csC, val>>

ProducerEnterUnlocked(p) ==
    /\ Goto(p, "enter", "store")
    /\ csP' = p
    /\ \E v \in Values : val' = [val EXCEPT ![p] = v]
    /\ UNCHANGED <<buffer, read, write, emptyCount, fillCount, csC>>

ProducerEnter(p) ==
    /\ csP = NoThread
    /\ Goto(p, "enter", "store")
    /\ csP' = p
    /\ \E v \in Values : val' = [val EXCEPT ![p] = v]
    /\ UNCHANGED <<buffer, read, write, emptyCount, fillCount, csC>>

(* insert: the slot is filled, then the index moves *)
ProducerStore(p) ==
    /\ Goto(p, "store", "forward")
    /\ buffer' = [buffer EXCEPT ![write] = val[p]]
    /\ UNCHANGED <<read, write, emptyCount, fillCount, csP, csC, val>>

ProducerForward(p) ==
    /\ Goto(p, "forward", "leave")
    /\ write' = NextSlot(write)
    /\ UNCHANGED <<buffer, read, emptyCount, fillCount, csP, csC, val>>

ProducerLeave(p) ==
    /\ Goto(p, "leave", "release")
    /\ csP' = NoThread
    /\ UNCHANGED <<buffer, read, write, emptyCount, fillCount, csC, val>>

ProducerRelease(p) ==
    /\ Goto(p, "release", "wait")
    /\ fillCount' = Post(fillCount)
    /\ UNCHANGED <<buffer, read, write, emptyCount, csP, csC, val>>

-----------------------------------------------------------------------------
(* Consumer *)

ConsumerWait(c) ==
    /\ Goto(c, "wait", "enter")
    /\ fillCount > 0
    /\ fillCount' = fillCount - 1
    /\ UNCHANGED <<buffer, read, write, emptyCount, csP, csC, val>>

ConsumerEnter(c) ==
    /\ csC = NoThread
    /\ Goto(c, "enter", "take")
    /\ csC' = c
    /\ UNCHANGED <<buffer, read, write, emptyCount, fillCount, csP, val>>

(* remove: the slot is read, then the index moves *)
ConsumerTake(c) ==
    /\ Goto(c, "take", "forward")
    /\ val' = [val EXCEPT ![c] = buffer[read]]
    /\ UNCHANGED <<buffer, read, write, emptyCount, fillCount, csP, csC>>

ConsumerForward(c) ==
    /\ Goto(c, "forward", "leave")
    /\ read' = NextSlot(read)
    /\ UNCHANGED <<buffer, write, emptyCount, fillCount, csP, csC, val>>

ConsumerLeave(c) ==
    /\ Goto(c, "leave", "release")
    /\ csC' = NoThread
    /\ UNCHANGED <<buffer, read, write, emptyCount, fillCount, csP, val>>

ConsumerRelease(c) ==
    /\ Goto(c, "release", "visit")
    /\ emptyCount' = Post(emptyCount)
    /\ UNCHANGED <<buffer, read, write, fillCount, csP, csC, val>>

(* visit prints the buffer with no lock held.  Its loop step "pos = pos++"   *)
(* either advances pos or leaves it: then the call never returns.            *)
ConsumerVisit(c) ==
    /\ VisitEnds
    /\ Goto(c, "visit", "wait")
    /\ UNCHANGED <<buffer, read, write, emptyCount, fillCount, csP, csC, val>>

-----------------------------------------------------------------------------
ProducerStep(p) ==
    \/ ProducerWait(p) \/ ProducerEnter(p) \/ ProducerStore(p)
    \/ ProducerForward(p) \/ ProducerLeave(p) \/ ProducerRelease(p)

ConsumerStep(c) ==
    \/ ConsumerWait(c) \/ ConsumerEnter(c) \/ ConsumerTake(c)
    \/ ConsumerForward(c) \/ ConsumerLeave(c) \/ ConsumerRelease(c)
    \/ ConsumerVisit(c)

Next ==
    \/ \E p \in Producers : ProducerStep(p)
    \/ \E c \in Consumers : ConsumerStep(c)

Spec == Init /\ [][Next]_vars

(* The system scheduler runs every thread that can run: weak fairness for    *)
(* each.  Which of several waiters obtains a semaphore is not promised.      *)
Fairness ==
    /\ \A p \in Producers : WF_vars(ProducerStep(p))
    /\ \A c \in Consumers : WF_vars(ConsumerStep(c))

FairSpec == Spec /\ Fairness

-----------------------------------------------------------------------------
(* Properties *)

ProducersAt(labels) == {p \in Producers : pc[p] \in labels}
ConsumersAt(labels) == {c \in Consumers : pc[c] \in labels}

Labels == {"wait", "enter", "store", "take", "forward", "leave", "release", "visit"}

(* Values in range; indices inside the ring, semaphores within their maximum. *)
TypeOK ==
    /\ buffer \in [Slots -> Values \cup {NoValue}]
    /\ read \in Slots /\ write \in Slots
    /\ emptyCount \in 0 .. Size /\ fillCount \in 0 .. Size
    /\ csP \in Producers \cup {NoThread}
    /\ csC \in Consumers \cup {NoThread}
    /\ pc \in [Threads -> Labels]
    /\ \A p \in Producers : pc[p] \notin {"take", "visit"}
    /\ \A c \in Consumers : pc[c] # "store"
    /\ val \in [Threads -> Values \cup {NoValue}]

(* Where a producer holds a slot, and where it has filled it; where a consumer
   holds an item's slot, has still to read it, has just read it. *)
FillingLabels == {"enter", "store", "forward", "leave", "release"}
FilledLabels == {"leave", "release"}
EmptyingLabels == {"enter", "take", "forward", "leave", "release"}
ClaimedLabels == {"enter", "take"}
TakenLabels == {"forward"}

Filling == Cardinality(ProducersAt(FillingLabels))
Filled == Cardinality(ProducersAt(FilledLabels))
Emptying == Cardinality(ConsumersAt(EmptyingLabels))
Claimed == Cardinality(ConsumersAt(ClaimedLabels))
Taken == Cardinality(ConsumersAt(TakenLabels))

(* A producer between its wait and its release owns a free slot or has just
   filled one; a consumer owns a used slot or has just emptied one.  With the
   two counters they account for every slot, so neither release can fail. *)
SlotsAccounted == emptyCount + fillCount + Filling + Emptying = Size

(* The items in the ring: those a token stands for, and those just inserted
   or not yet removed. *)
Used == fillCount + Filled + Claimed

(* The slot reached after k steps from slot 0, for k < 2 * Size. *)
Wrap(k) == IF k < Size THEN k ELSE k - Size

(* write is ahead of read by exactly the slots that hold an item. *)
RingConsistent == write = Wrap(read + (Taken + Used))

(* The slot a producer fills is never the slot a consumer reads, although
   insert and remove run under different critical sections. *)
WriterApartFromReader ==
    \A p \in ProducersAt({"store", "forward"}), c \in ConsumersAt({"take", "forward"}) :
        write # read

Channel == INSTANCE FifoChannel WITH
    Capacity <- Size,
    queue <- [i \in 1 .. Used |-> buffer[Wrap(read + Taken + i - 1)]],
    offered <- [p \in Producers |->
                  IF pc[p] \in {"store", "forward"} THEN val[p] ELSE NoValue],
    got <- [c \in Consumers |-> val[c]]

(* The ring is a bounded FIFO channel: nothing lost, repeated or reordered. *)
ChannelSpec == Channel!Spec

(* No item stays in the ring for ever: while there is one, the read index
   moves again. *)
ItemsFlow ==
    \A i \in Slots : (read = i /\ Used > 0) ~> (read # i)
=============================================================================
