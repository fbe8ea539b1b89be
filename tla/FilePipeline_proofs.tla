---------------------------- MODULE FilePipeline_proofs ----------------------------
(* The stages of EXAMS/2016-07-01/main.cpp for any number of threads and any  *)
(* size of the rings: until a stage is shut down there is one permit in it,   *)
(* and whoever looks for a record in its queues finds one, also afterwards.   *)
EXTENDS FilePipeline, FiniteSetTheorems, TLAPS

Slots == 0 .. QSize - 1
Read == [id : Ids, upper : BOOLEAN]      \* a record that has been read
Rings == [read : Slots, write : Slots, buffer : [Slots -> RecordSet]]
Places == Threads \cup {Main}

Typed ==
    /\ fill \in [Stages -> 0 .. N] /\ empty \in [Stages -> 0 .. N]
    /\ cs \in [Stages -> Threads \cup {NoOne}]
    /\ queue \in [Stages -> [Files -> Rings]]
    /\ isDone \in [Stages -> BOOLEAN]
    /\ csFileOpening \in A \cup {NoOne} /\ hashOpenedFileA \subseteq Files
    /\ file \in [A -> 0 .. N] /\ nRead \in [Files -> Nat]
    /\ record \in [A -> RecordSet]
    /\ extractedValue \in [B \cup C -> {<<>>} \cup (Files \X Slots)]
    /\ output \in Seq(RecordSet)
    /\ pc = [t \in Places |-> pc[t]]

(* A thread A past its open has a file, and past its read a record.          *)
OpenedAt(t) ==
    /\ pc[t] \in {"read", "waitEmpty", "enterPut", "put", "leavePut", "releaseFill"} =>
          file[t] \in Files
    /\ pc[t] \in {"waitEmpty", "enterPut", "put"} => record[t] \in Read

(* A pointer that is still needed is there, and a B finds a record behind it. *)
PointsAt(t) ==
    pc[t] \in {"leaveGet", "releaseEmpty", "waitEmpty", "enterPut", "put"} =>
        extractedValue[t] \in Files \X Slots /\ Target("AB", extractedValue[t]) \in Read
WritesAt(t) == pc[t] = "write" => extractedValue[t] \in Files \X Slots

InHand ==
    /\ \A t \in A : OpenedAt(t)
    /\ \A t \in B : PointsAt(t)
    /\ \A t \in C : WritesAt(t)

(* The two ends of a stage, and the permit in the hands of a thread of them.  *)
Putter(c) == IF c = "AB" THEN A ELSE B
Getter(c) == IF c = "AB" THEN B ELSE C
PutLabels == {"enterPut", "put", "leavePut", "releaseFill"}
GetLabels == {"check", "enterGet", "extract", "write", "leaveGet", "releaseEmpty"}
Holder(c, t) ==
    \/ t \in Putter(c) /\ pc[t] \in PutLabels
    \/ t \in Getter(c) /\ (pc[t] \in GetLabels \/ (cs[c] = t /\ pc[t] = "returned"))

(* The permit in hand stands for a record in the queues.                      *)
Carried(c, t) ==
    \/ t \in Putter(c) /\ pc[t] \in {"leavePut", "releaseFill"}
    \/ t \in Getter(c) /\ pc[t] \in {"check", "enterGet", "extract"}

Void(c) == \A q \in Files : queue[c][q].read = queue[c][q].write
Loaded(c) ==
    \E q \in Files :
        /\ queue[c][q].write = (queue[c][q].read + 1) % QSize
        /\ queue[c][q].buffer[queue[c][q].read] \in Read
        /\ \A o \in Files \ {q} : queue[c][o].read = queue[c][o].write

(* The section of a stage is in the hands of the thread that holds the permit. *)
Inside == {"put", "leavePut", "extract", "write", "leaveGet", "returned"}
Sectioned(c) ==
    /\ cs[c] # NoOne => Holder(c, cs[c]) /\ pc[cs[c]] \in Inside
    /\ \A t \in Getter(c) : pc[t] \in {"extract", "write", "leaveGet"} => cs[c] = t

(* Where the one permit of a stage is, and with it the one record.            *)
Running(c) ==
    \/ /\ empty[c] = 1 /\ fill[c] = 0 /\ Void(c) /\ \A t \in Threads : ~ Holder(c, t)
    \/ /\ empty[c] = 0 /\ fill[c] = 1 /\ Loaded(c) /\ \A t \in Threads : ~ Holder(c, t)
    \/ /\ empty[c] = 0 /\ fill[c] = 0
       /\ \E t \in Threads :
             /\ Holder(c, t) /\ \A u \in Threads : Holder(c, u) => u = t
             /\ IF Carried(c, t) THEN Loaded(c) ELSE Void(c)

(* A stage that has been shut down: one thread at most is still to extract.   *)
Finding(c, t) == t \in Getter(c) /\ pc[t] \in {"enterGet", "extract"}
Finished(c) ==
    /\ \A t \in Putter(c) : pc[t] = "returned"
    /\ \A t \in Threads : Finding(c, t) =>
          Loaded(c) /\ \A u \in Threads : Finding(c, u) => u = t

StageOK(c) == IF isDone[c] THEN Finished(c) ELSE Sectioned(c) /\ Running(c)

(* The main thread wakes the next kind up after it has set the flag. *)
WakesWhenDone ==
    (pc[Main] = "wakeB" => isDone["AB"]) /\ (pc[Main] = "wakeC" => isDone["BC"])

IInv ==
    /\ Typed /\ InHand /\ WakesWhenDone
    /\ \A c \in Stages : StageOK(c)

-----------------------------------------------------------------------------
(* Threads and moves *)

QueueMap == [Stages -> [Files -> Rings]]

(* Thread u goes on, and no other thread.                                     *)
Moves(u, from, to) ==
    /\ pc[u] = from /\ pc'[u] = to
    /\ \A v \in Places \ {u} : pc'[v] = pc[v]
    /\ pc' = [v \in Places |-> pc'[v]]

LEMMA GotoMoves ==
    ASSUME Typed, NEW u \in Places, NEW from, NEW to, Goto(u, from, to)
    PROVE  Moves(u, from, to)
BY DEF Typed, Goto, Moves

(* Which thread is at which end of a stage.                                   *)
LEMMA Ends ==
    ASSUME NEW c \in Stages
    PROVE  /\ Putter(c) \subseteq Threads /\ Getter(c) \subseteq Threads
           /\ Putter(c) \cap Getter(c) = {}
           /\ Putter("AB") = A /\ Getter("AB") = B /\ Putter("BC") = B /\ Getter("BC") = C
           /\ Main \notin Threads /\ NoOne \notin Threads /\ Threads \subseteq Places
           /\ Main \in Places /\ A \subseteq Threads /\ B \subseteq Threads /\ C \subseteq Threads
           /\ A \cap B = {} /\ B \cap C = {} /\ A \cap C = {}
BY PipelineAssumption DEF Putter, Getter, Threads, Stages, Places

(* There are two slots at least, and an index goes round them.                *)
LEMMA RingSize ==
    /\ QSize \in Nat \ {0, 1} /\ N \in Nat \ {0} /\ Slots \subseteq Nat
    /\ \A k \in Slots : (k + 1) % QSize \in Slots /\ (k + 1) % QSize # k
BY PipelineAssumption DEF Slots

-----------------------------------------------------------------------------
(* Changes of a ring *)

SlotSet(R, c, q, w, rec) == [R EXCEPT ![c][q].buffer[w] = rec]
WriteMoved(R, c, q) == [R EXCEPT ![c][q].write = (@ + 1) % QSize]
ReadMoved(R, c, q) == [R EXCEPT ![c][q].read = (@ + 1) % QSize]

LEMMA SlotSets ==
    ASSUME NEW R \in QueueMap, NEW c \in Stages, NEW q \in Files, NEW w \in Slots,
           NEW rec \in RecordSet, NEW R2, R2 = SlotSet(R, c, q, w, rec)
    PROVE  /\ R2 \in QueueMap
           /\ \A d \in Stages, o \in Files : d # c \/ o # q => R2[d][o] = R[d][o]
           /\ R2[c][q].read = R[c][q].read /\ R2[c][q].write = R[c][q].write
           /\ R2[c][q].buffer[w] = rec
           /\ \A j \in Slots \ {w} : R2[c][q].buffer[j] = R[c][q].buffer[j]
<1> DEFINE S == R[c][q]
           S2 == [S EXCEPT !.buffer[w] = rec]
<1>1. S \in Rings
  BY DEF QueueMap
<1>2. /\ S2 \in Rings /\ S2.read = S.read /\ S2.write = S.write /\ S2.buffer[w] = rec
      /\ \A j \in Slots \ {w} : S2.buffer[j] = S.buffer[j]
  <2> HIDE DEF S
  <2> QED BY <1>1 DEF Rings
<1>3. R2 = [R EXCEPT ![c] = [R[c] EXCEPT ![q] = S2]]
  BY DEF QueueMap, SlotSet
<1> HIDE DEF S2
<1>4. R2 \in QueueMap /\ R2[c][q] = S2
  BY <1>2, <1>3 DEF QueueMap
<1>5. \A d \in Stages, o \in Files : d # c \/ o # q => R2[d][o] = R[d][o]
  BY <1>3 DEF QueueMap
<1> QED BY <1>2, <1>4, <1>5 DEF S

LEMMA WriteMoves ==
    ASSUME NEW R \in QueueMap, NEW c \in Stages, NEW q \in Files, NEW R2,
           R2 = WriteMoved(R, c, q)
    PROVE  /\ R2 \in QueueMap
           /\ \A d \in Stages, o \in Files : d # c \/ o # q => R2[d][o] = R[d][o]
           /\ R2[c][q].read = R[c][q].read
           /\ R2[c][q].write = (R[c][q].write + 1) % QSize
           /\ R2[c][q].buffer = R[c][q].buffer
<1> DEFINE S == R[c][q]
           k == (S.write + 1) % QSize
           S2 == [S EXCEPT !.write = k]
<1>1. S \in Rings
  BY DEF QueueMap
<1>2. k \in Slots
  <2>1. S.write \in Slots
    BY <1>1 DEF Rings
  <2> QED BY <2>1, RingSize
<1> HIDE DEF k
<1>3. /\ S2 \in Rings /\ S2.read = S.read /\ S2.write = k /\ S2.buffer = S.buffer
  <2> HIDE DEF S
  <2> QED BY <1>1, <1>2 DEF Rings
<1>4. R2 = [R EXCEPT ![c] = [R[c] EXCEPT ![q] = S2]]
  BY DEF QueueMap, k, WriteMoved
<1> HIDE DEF S2
<1>5. R2 \in QueueMap /\ R2[c][q] = S2
  BY <1>3, <1>4 DEF QueueMap
<1>6. \A d \in Stages, o \in Files : d # c \/ o # q => R2[d][o] = R[d][o]
  BY <1>4 DEF QueueMap
<1> QED BY <1>3, <1>5, <1>6 DEF S, k

LEMMA ReadMoves ==
    ASSUME NEW R \in QueueMap, NEW c \in Stages, NEW q \in Files, NEW R2,
           R2 = ReadMoved(R, c, q)
    PROVE  /\ R2 \in QueueMap
           /\ \A d \in Stages, o \in Files : d # c \/ o # q => R2[d][o] = R[d][o]
           /\ R2[c][q].read = (R[c][q].read + 1) % QSize
           /\ R2[c][q].write = R[c][q].write
           /\ R2[c][q].buffer = R[c][q].buffer
<1> DEFINE S == R[c][q]
           k == (S.read + 1) % QSize
           S2 == [S EXCEPT !.read = k]
<1>1. S \in Rings
  BY DEF QueueMap
<1>2. k \in Slots
  <2>1. S.read \in Slots
    BY <1>1 DEF Rings
  <2> QED BY <2>1, RingSize
<1> HIDE DEF k
<1>3. /\ S2 \in Rings /\ S2.read = k /\ S2.write = S.write /\ S2.buffer = S.buffer
  <2> HIDE DEF S
  <2> QED BY <1>1, <1>2 DEF Rings
<1>4. R2 = [R EXCEPT ![c] = [R[c] EXCEPT ![q] = S2]]
  BY DEF QueueMap, k, ReadMoved
<1> HIDE DEF S2
<1>5. R2 \in QueueMap /\ R2[c][q] = S2
  BY <1>3, <1>4 DEF QueueMap
<1>6. \A d \in Stages, o \in Files : d # c \/ o # q => R2[d][o] = R[d][o]
  BY <1>4 DEF QueueMap
<1> QED BY <1>3, <1>5, <1>6 DEF S, k

(* insert puts a record into the slot of the write index, and moves that.     *)
InsertedAt(c, q, w, rec) ==
    /\ w = queue[c][q].write
    /\ \A d \in Stages \ {c} : queue'[d] = queue[d]
    /\ \A f \in Files : queue'[c][f].read = queue[c][f].read
    /\ \A f \in Files \ {q} : queue'[c][f].write = queue[c][f].write
    /\ queue'[c][q].write = (w + 1) % QSize
    /\ \A f \in Files, k \in Slots :
          queue'[c][f].buffer[k] = IF f = q /\ k = w THEN rec ELSE queue[c][f].buffer[k]

LEMMA InsertEffect ==
    ASSUME Typed, NEW c \in Stages, NEW q \in Files, NEW rec \in Read, insert(c, q, rec)
    PROVE  queue' \in QueueMap /\ InsertedAt(c, q, queue[c][q].write, rec)
<1> DEFINE w == queue[c][q].write
           mid == SlotSet(queue, c, q, w, rec)
<1>1. queue \in QueueMap /\ w \in Slots /\ rec \in RecordSet
  BY DEF Typed, QueueMap, Rings, RecordSet, Read
<1>2. /\ mid \in QueueMap
      /\ \A d \in Stages, o \in Files : d # c \/ o # q => mid[d][o] = queue[d][o]
      /\ mid[c][q].read = queue[c][q].read /\ mid[c][q].write = w
      /\ mid[c][q].buffer[w] = rec
      /\ \A j \in Slots \ {w} : mid[c][q].buffer[j] = queue[c][q].buffer[j]
  <2>1. mid = SlotSet(queue, c, q, w, rec) /\ w = queue[c][q].write
    OBVIOUS
  <2> HIDE DEF mid, w
  <2>2. queue \in QueueMap /\ w \in Slots /\ rec \in RecordSet
    BY <1>1
  <2> QED BY <2>1, <2>2, SlotSets
<1>3. queue' = WriteMoved(mid, c, q)
  BY <1>1 DEF insert, WriteMoved, SlotSet
<1> HIDE DEF mid
<1>4. /\ queue' \in QueueMap
      /\ \A d \in Stages, o \in Files : d # c \/ o # q => queue'[d][o] = mid[d][o]
      /\ queue'[c][q].read = mid[c][q].read
      /\ queue'[c][q].write = (mid[c][q].write + 1) % QSize
      /\ queue'[c][q].buffer = mid[c][q].buffer
  <2>1. mid \in QueueMap
    BY <1>2
  <2> QED BY <2>1, <1>3, WriteMoves
<1>5. /\ \A d \in Stages, o \in Files : d # c \/ o # q => queue'[d][o] = queue[d][o]
      /\ queue'[c][q].read = queue[c][q].read /\ queue'[c][q].write = (w + 1) % QSize
      /\ queue'[c][q].buffer[w] = rec
      /\ \A j \in Slots \ {w} : queue'[c][q].buffer[j] = queue[c][q].buffer[j]
  BY <1>2, <1>4
<1>6. \A d \in Stages \ {c} : queue'[d] = queue[d]
  BY <1>1, <1>4, <1>5 DEF QueueMap
<1>7. /\ \A f \in Files : queue'[c][f].read = queue[c][f].read
      /\ \A f \in Files \ {q} : queue'[c][f].write = queue[c][f].write
      /\ queue'[c][q].write = (w + 1) % QSize
  BY <1>5
<1>8. \A f \in Files, k \in Slots :
         queue'[c][f].buffer[k] = IF f = q /\ k = w THEN rec ELSE queue[c][f].buffer[k]
  BY <1>5
<1>9. w = queue[c][q].write
  OBVIOUS
<1> HIDE DEF w
<1> QED BY <1>4, <1>6, <1>7, <1>8, <1>9 DEF InsertedAt

(* There is a record then, and what was one behind a pointer remains one.     *)
LEMMA InsertFills ==
    ASSUME Typed, NEW c \in Stages, NEW q \in Files, NEW rec \in Read, insert(c, q, rec)
    PROVE  /\ queue' \in QueueMap /\ \A d \in Stages \ {c} : queue'[d] = queue[d]
           /\ Void(c) => Loaded(c)'
           /\ \A f \in Files, k \in Slots :
                 queue["AB"][f].buffer[k] \in Read => queue'["AB"][f].buffer[k] \in Read
<1>1. PICK w \in Slots : queue' \in QueueMap /\ InsertedAt(c, q, w, rec)
  <2>1. queue[c][q].write \in Slots
    BY DEF Typed, Rings
  <2> QED BY <2>1, InsertEffect
<1>2. ASSUME Void(c) PROVE Loaded(c)'
  <2>1. queue[c][q].read = w
    BY <1>1, <1>2 DEF Void, InsertedAt
  <2>2. /\ \A o \in Files \ {q} : queue'[c][o].read = queue'[c][o].write
        /\ queue'[c][q].write = (queue'[c][q].read + 1) % QSize
        /\ queue'[c][q].buffer[queue'[c][q].read] \in Read
    BY <1>1, <1>2, <2>1 DEF Void, InsertedAt
  <2> QED BY <2>2 DEF Loaded
<1>3. ASSUME NEW f \in Files, NEW k \in Slots, queue["AB"][f].buffer[k] \in Read
      PROVE  queue'["AB"][f].buffer[k] \in Read
  BY <1>1, <1>3 DEF InsertedAt, Stages
<1> QED BY <1>1, <1>2, <1>3 DEF InsertedAt

(* The loop over the queues takes out the one record there is. *)
TakenOut(c, q) ==
    queue' = [queue EXCEPT ![c][q].buffer[queue[c][q].read] = Rewritten(c, @),
                           ![c][q].read = (@ + 1) % QSize]

(* What is behind the read index is rewritten, and the index moves.           *)
TakenFrom(c, q, s) ==
    /\ s = queue[c][q].read
    /\ \A d \in Stages \ {c} : queue'[d] = queue[d]
    /\ \A f \in Files \ {q} : queue'[c][f].read = queue[c][f].read
    /\ queue'[c][q].read = (s + 1) % QSize
    /\ \A f \in Files : queue'[c][f].write = queue[c][f].write
    /\ \A f \in Files, k \in Slots :
          queue'[c][f].buffer[k] = IF f = q /\ k = s THEN Rewritten(c, queue[c][f].buffer[k])
                                                    ELSE queue[c][f].buffer[k]

LEMMA ExtractEffect ==
    ASSUME Typed, NEW c \in Stages, Loaded(c), NEW q \in Files, q \in NonEmpty(c),
           TakenOut(c, q)
    PROVE  /\ queue' \in QueueMap /\ TakenFrom(c, q, queue[c][q].read)
           /\ queue[c][q].read \in Slots
           /\ queue[c][q].write = (queue[c][q].read + 1) % QSize
           /\ queue[c][q].buffer[queue[c][q].read] \in Read
           /\ \A o \in Files \ {q} : queue[c][o].read = queue[c][o].write
<1> DEFINE s == queue[c][q].read
           rec == Rewritten(c, queue[c][q].buffer[s])
           mid == SlotSet(queue, c, q, s, rec)
<1>1. queue \in QueueMap /\ q \in Files /\ s \in Slots /\ queue[c][q].write \in Slots
  BY DEF Typed, QueueMap, Rings, NonEmpty
<1>2. /\ queue[c][q].write = (s + 1) % QSize /\ queue[c][q].buffer[s] \in Read
      /\ \A o \in Files \ {q} : queue[c][o].read = queue[c][o].write
  BY DEF Loaded, NonEmpty
<1>3. rec \in Read /\ rec \in RecordSet
  BY <1>2 DEF Rewritten, Read, RecordSet
<1>4. /\ mid \in QueueMap
      /\ \A d \in Stages, o \in Files : d # c \/ o # q => mid[d][o] = queue[d][o]
      /\ mid[c][q].read = s /\ mid[c][q].write = queue[c][q].write
      /\ mid[c][q].buffer[s] = rec
      /\ \A j \in Slots \ {s} : mid[c][q].buffer[j] = queue[c][q].buffer[j]
  <2>1. mid = SlotSet(queue, c, q, s, rec) /\ s = queue[c][q].read
    OBVIOUS
  <2> HIDE DEF mid, s, rec
  <2>2. queue \in QueueMap /\ s \in Slots /\ rec \in RecordSet /\ q \in Files
    BY <1>1, <1>3
  <2> QED BY <2>1, <2>2, SlotSets
<1>5. queue' = ReadMoved(mid, c, q)
  BY <1>1 DEF TakenOut, ReadMoved, SlotSet
<1>r. rec = Rewritten(c, queue[c][q].buffer[s])
  OBVIOUS
<1> HIDE DEF mid, rec
<1>6. /\ queue' \in QueueMap
      /\ \A d \in Stages, o \in Files : d # c \/ o # q => queue'[d][o] = mid[d][o]
      /\ queue'[c][q].read = (mid[c][q].read + 1) % QSize
      /\ queue'[c][q].write = mid[c][q].write
      /\ queue'[c][q].buffer = mid[c][q].buffer
  <2>1. mid \in QueueMap /\ q \in Files
    BY <1>1, <1>4
  <2> QED BY <2>1, <1>5, ReadMoves
<1>7. /\ \A d \in Stages, o \in Files : d # c \/ o # q => queue'[d][o] = queue[d][o]
      /\ queue'[c][q].read = (s + 1) % QSize /\ queue'[c][q].write = queue[c][q].write
      /\ queue'[c][q].buffer[s] = rec
      /\ \A j \in Slots \ {s} : queue'[c][q].buffer[j] = queue[c][q].buffer[j]
  <2> HIDE DEF s
  <2> QED BY <1>4, <1>6
<1> HIDE DEF s
<1>8. \A d \in Stages \ {c} : queue'[d] = queue[d]
  BY <1>1, <1>6, <1>7 DEF QueueMap
<1>9. /\ \A f \in Files \ {q} : queue'[c][f].read = queue[c][f].read
      /\ queue'[c][q].read = (s + 1) % QSize
      /\ \A f \in Files : queue'[c][f].write = queue[c][f].write
  BY <1>7
<1>10. \A f \in Files, k \in Slots :
          queue'[c][f].buffer[k] = IF f = q /\ k = s THEN Rewritten(c, queue[c][f].buffer[k])
                                                    ELSE queue[c][f].buffer[k]
  BY <1>7, <1>r
<1>11. s = queue[c][q].read
  BY DEF s
<1>12. queue[c][q].write = (s + 1) % QSize /\ queue[c][q].buffer[s] \in Read
  BY <1>2 DEF s
<1> QED BY <1>1, <1>2, <1>6, <1>8, <1>9, <1>10, <1>11, <1>12 DEF TakenFrom

LEMMA ExtractEmpties ==
    ASSUME Typed, NEW c \in Stages, Loaded(c), NEW q \in Files, q \in NonEmpty(c),
           TakenOut(c, q)
    PROVE  /\ queue' \in QueueMap /\ \A d \in Stages \ {c} : queue'[d] = queue[d]
           /\ Void(c)' /\ q \in Files /\ queue[c][q].read \in Slots
           /\ c = "AB" => queue'[c][q].buffer[queue[c][q].read] \in Read
           /\ \A f \in Files, k \in Slots :
                 queue["AB"][f].buffer[k] \in Read => queue'["AB"][f].buffer[k] \in Read
<1>1. PICK s \in Slots :
         /\ queue' \in QueueMap /\ TakenFrom(c, q, s) /\ s = queue[c][q].read
         /\ queue[c][q].write = (s + 1) % QSize /\ queue[c][q].buffer[s] \in Read
         /\ \A o \in Files \ {q} : queue[c][o].read = queue[c][o].write
  BY ExtractEffect
<1>2. \A rec \in Read : Rewritten(c, rec) \in Read
  BY DEF Rewritten, Read
<1>3. Void(c)'
  BY <1>1 DEF Void, TakenFrom
<1>4. queue'[c][q].buffer[s] \in Read
  BY <1>1, <1>2 DEF TakenFrom
<1>5. ASSUME NEW f \in Files, NEW k \in Slots, queue["AB"][f].buffer[k] \in Read
      PROVE  queue'["AB"][f].buffer[k] \in Read
  BY <1>1, <1>2, <1>5 DEF TakenFrom, Stages
<1> QED BY <1>1, <1>3, <1>4, <1>5 DEF TakenFrom

-----------------------------------------------------------------------------
(* Permits *)

(* A thread that does not stand in a stage: it has not come there, or left.   *)
Role(d, u, label) ==
    \/ u \in Putter(d) /\ label \in PutLabels
    \/ u \in Getter(d) /\ label \in GetLabels
Unchanged(d) ==
    /\ empty'[d] = empty[d] /\ fill'[d] = fill[d] /\ cs'[d] = cs[d]
    /\ queue'[d] = queue[d] /\ isDone'[d] = isDone[d]

(* What a thread does elsewhere leaves a stage as it is.                      *)
LEMMA ElsewhereKeeps ==
    ASSUME Typed, NEW d \in Stages, NEW u \in Places, NEW from, NEW to, Moves(u, from, to),
           StageOK(d), Unchanged(d), ~ Role(d, u, from), ~ Role(d, u, to), from # "returned"
    PROVE  StageOK(d)'
<1>1. /\ (Void(d)' <=> Void(d)) /\ (Loaded(d)' <=> Loaded(d))
      /\ \A v \in Threads \ {u} : pc'[v] = pc[v]
      /\ pc[u] = from /\ pc'[u] = to /\ isDone'[d] = isDone[d] /\ cs'[d] = cs[d]
      /\ empty'[d] = empty[d] /\ fill'[d] = fill[d]
  <2>1. Threads \subseteq Places
    BY Ends
  <2> QED BY <2>1 DEF Unchanged, Void, Loaded, Moves
<1>2. CASE isDone[d]
  <2>1. Finished(d)
    BY <1>2 DEF StageOK
  <2>2. u \notin Putter(d)
    BY <1>1, <2>1 DEF Finished
  <2>3. \A v \in Threads : Finding(d, v)' <=> Finding(d, v)
    <3>1. ~ Finding(d, u) /\ ~ Finding(d, u)'
      BY <1>1 DEF Finding, Role, GetLabels
    <3>2. \A v \in Threads \ {u} : Finding(d, v)' <=> Finding(d, v)
      BY <1>1 DEF Finding
    <3> QED BY <3>1, <3>2
  <2>4. \A v \in Putter(d) : pc'[v] = "returned"
    BY <1>1, <2>1, <2>2, Ends DEF Finished
  <2> QED BY <1>1, <1>2, <2>1, <2>3, <2>4 DEF Finished, StageOK
<1>3. CASE ~ isDone[d]
  <2>1. Sectioned(d) /\ Running(d)
    BY <1>3 DEF StageOK
  <2>2. ~ Holder(d, u) /\ (u \in Threads => cs[d] # u)
    <3>1. ~ Holder(d, u) \/ (cs[d] = u /\ pc[u] = "returned")
      BY <1>1 DEF Holder, Role
    <3>2. ~ Holder(d, u)
      BY <1>1, <3>1
    <3>3. ASSUME u \in Threads, cs[d] = u PROVE FALSE
      <4>1. cs[d] # NoOne
        BY <3>3, Ends
      <4> QED BY <2>1, <3>2, <3>3, <4>1 DEF Sectioned
    <3> QED BY <3>2, <3>3
  <2>3. ~ Holder(d, u)' /\ ~ Carried(d, u)'
    BY <1>1, <2>2, Ends DEF Holder, Carried, Role, PutLabels, GetLabels
  <2>4. \A v \in Threads \ {u} :
           (Holder(d, v)' <=> Holder(d, v)) /\ (Carried(d, v)' <=> Carried(d, v))
    BY <1>1 DEF Holder, Carried
  <2>5. Running(d)'
    BY <1>1, <2>1, <2>2, <2>3, <2>4 DEF Running
  <2>6. Sectioned(d)'
    <3>1. \A v \in Getter(d) \ {u} : pc'[v] \in {"extract", "write", "leaveGet"} => cs[d] = v
      BY <1>1, <2>1, Ends DEF Sectioned
    <3>2. u \in Getter(d) => to \notin {"extract", "write", "leaveGet"}
      BY DEF Role, GetLabels
    <3>3. cs[d] # NoOne => cs[d] \in Threads \ {u}
      BY <2>2 DEF Typed
    <3> QED BY <1>1, <2>1, <2>4, <3>1, <3>2, <3>3 DEF Sectioned
  <2> QED BY <1>1, <1>3, <2>5, <2>6 DEF StageOK
<1> QED BY <1>2, <1>3

(* Who holds the permit of a stage holds it alone. *)
LEMMA HolderAlone ==
    ASSUME NEW c \in Stages, Running(c), NEW u \in Threads, Holder(c, u)
    PROVE  /\ empty[c] = 0 /\ fill[c] = 0
           /\ \A v \in Threads : Holder(c, v) => v = u
           /\ IF Carried(c, u) THEN Loaded(c) ELSE Void(c)
BY DEF Running

(* The holder goes on, or gives the permit back as one of empty or of fill.   *)
LEMMA HolderMoves ==
    ASSUME Typed, NEW c \in Stages, NEW u \in Threads, NEW from, NEW to, Moves(u, from, to),
           ~ isDone[c], ~ isDone'[c], StageOK(c), Holder(c, u),
           cs'[c] # NoOne => cs'[c] = u /\ Holder(c, u)' /\ to \in Inside,
           u \in Getter(c) /\ to \in {"extract", "write", "leaveGet"} => cs'[c] = u,
           \/ /\ empty'[c] = 0 /\ fill'[c] = 0 /\ Holder(c, u)'
              /\ IF Carried(c, u)' THEN Loaded(c)' ELSE Void(c)'
           \/ empty'[c] = 1 /\ fill'[c] = 0 /\ Void(c)' /\ ~ Holder(c, u)'
           \/ empty'[c] = 0 /\ fill'[c] = 1 /\ Loaded(c)' /\ ~ Holder(c, u)'
    PROVE  StageOK(c)'
<1>1. Sectioned(c) /\ Running(c)
  BY DEF StageOK
<1>2. \A v \in Threads \ {u} : ~ Holder(c, v) /\ pc'[v] = pc[v]
  BY <1>1, HolderAlone, Ends DEF Moves
<1>3. \A v \in Threads \ {u} : ~ Holder(c, v)'
  <2>1. \A v \in Threads \ {u} : cs'[c] # v
    BY Ends
  <2> QED BY <1>2, <2>1 DEF Holder
<1>4. Running(c)'
  BY <1>3 DEF Running
<1>5. Sectioned(c)'
  <2>1. \A v \in Getter(c) \ {u} : pc'[v] \notin {"extract", "write", "leaveGet"}
    BY <1>2, Ends DEF Holder, GetLabels
  <2>2. pc'[u] = to
    BY DEF Moves
  <2> QED BY <2>1, <2>2 DEF Sectioned
<1> QED BY <1>4, <1>5 DEF StageOK

(* A thread takes the permit out of empty or out of fill. *)
LEMMA PermitTaken ==
    ASSUME Typed, NEW c \in Stages, NEW u \in Threads, NEW from, NEW to, Moves(u, from, to),
           ~ isDone[c], ~ isDone'[c], StageOK(c), cs'[c] = cs[c], queue'[c] = queue[c],
           Holder(c, u)', to \notin Inside,
           \/ /\ empty[c] > 0 /\ empty'[c] = empty[c] - 1 /\ fill'[c] = fill[c]
              /\ ~ Carried(c, u)'
           \/ /\ fill[c] > 0 /\ fill'[c] = fill[c] - 1 /\ empty'[c] = empty[c]
              /\ Carried(c, u)'
    PROVE  StageOK(c)'
<1>1. Sectioned(c) /\ Running(c) /\ (Void(c)' <=> Void(c)) /\ (Loaded(c)' <=> Loaded(c))
  BY DEF StageOK, Void, Loaded
<1>2. /\ \A v \in Threads : ~ Holder(c, v)
      /\ empty'[c] = 0 /\ fill'[c] = 0 /\ IF Carried(c, u)' THEN Loaded(c)' ELSE Void(c)'
  BY <1>1 DEF Running
<1>3. cs[c] = NoOne
  BY <1>1, <1>2 DEF Sectioned, Typed
<1>4. \A v \in Threads \ {u} : ~ Holder(c, v)' /\ pc'[v] = pc[v]
  BY <1>2, <1>3, Ends DEF Holder, Moves
<1>5. Running(c)'
  BY <1>2, <1>4 DEF Running
<1>6. Sectioned(c)'
  <2>1. \A v \in Getter(c) \ {u} : pc'[v] \notin {"extract", "write", "leaveGet"}
    BY <1>2, <1>4, Ends DEF Holder, GetLabels
  <2>2. pc'[u] = to
    BY DEF Moves
  <2> QED BY <1>3, <2>1, <2>2 DEF Sectioned, Inside
<1> QED BY <1>5, <1>6 DEF StageOK

(* In a stage that is shut down nobody begins to look for a record. *)
LEMMA FinishedKept ==
    ASSUME Typed, NEW c \in Stages, NEW u \in Threads, NEW from, NEW to, Moves(u, from, to),
           isDone[c], isDone'[c], StageOK(c), from # "returned",
           Finding(c, u)' => Finding(c, u) /\ queue'[c] = queue[c],
           queue'[c] = queue[c] \/ Finding(c, u)
    PROVE  StageOK(c)'
<1>1. Finished(c)
  BY DEF StageOK
<1>2. pc[u] = from /\ pc'[u] = to /\ \A v \in Threads \ {u} : pc'[v] = pc[v]
  BY Ends DEF Moves
<1>3. \A v \in Putter(c) : pc'[v] = "returned"
  BY <1>1, <1>2, Ends DEF Finished
<1>4. \A v \in Threads : Finding(c, v)' => Finding(c, v)
  BY <1>2 DEF Finding
<1>5. \A v \in Threads : Finding(c, v)' => queue'[c] = queue[c]
  BY <1>1, <1>2, <1>4 DEF Finished
<1>6. queue'[c] = queue[c] => (Loaded(c)' <=> Loaded(c))
  BY DEF Loaded
<1>7. Finished(c)'
  BY <1>1, <1>3, <1>4, <1>5, <1>6 DEF Finished
<1> QED BY <1>7 DEF StageOK

-----------------------------------------------------------------------------
(* The two ends of a stage *)

LEMMA PutterAt ==
    ASSUME NEW c \in Stages, NEW u \in Putter(c)
    PROVE  /\ u \in Threads /\ u \notin Getter(c)
           /\ Holder(c, u) <=> pc[u] \in PutLabels
           /\ Holder(c, u)' <=> pc'[u] \in PutLabels
           /\ Carried(c, u) <=> pc[u] \in {"leavePut", "releaseFill"}
           /\ Carried(c, u)' <=> pc'[u] \in {"leavePut", "releaseFill"}
<1>1. u \in Threads /\ u \notin Getter(c)
  BY Ends
<1> QED BY <1>1 DEF Holder, Carried

LEMMA GetterAt ==
    ASSUME NEW c \in Stages, NEW u \in Getter(c)
    PROVE  /\ u \in Threads /\ u \notin Putter(c)
           /\ Holder(c, u) <=> pc[u] \in GetLabels \/ (cs[c] = u /\ pc[u] = "returned")
           /\ Holder(c, u)' <=> pc'[u] \in GetLabels \/ (cs'[c] = u /\ pc'[u] = "returned")
           /\ Carried(c, u) <=> pc[u] \in {"check", "enterGet", "extract"}
           /\ Carried(c, u)' <=> pc'[u] \in {"check", "enterGet", "extract"}
           /\ Finding(c, u) <=> pc[u] \in {"enterGet", "extract"}
           /\ Finding(c, u)' <=> pc'[u] \in {"enterGet", "extract"}
<1>1. u \in Threads /\ u \notin Putter(c)
  BY Ends
<1> QED BY <1>1 DEF Holder, Carried, Finding

(* Whoever puts into a stage has not been joined. *)
LEMMA PutterRuns ==
    ASSUME NEW c \in Stages, StageOK(c), NEW u \in Putter(c), pc[u] # "returned"
    PROVE  ~ isDone[c]
BY DEF StageOK, Finished

(* At one end of a stage a thread does nothing to the other stage.            *)
LEMMA OthersKept ==
    ASSUME Typed, NEW c \in Stages, NEW u \in Threads, NEW from, NEW to, Moves(u, from, to),
           from # "returned", \A d \in Stages : StageOK(d),
           \/ u \in Putter(c) /\ from \notin GetLabels /\ to \notin GetLabels
           \/ u \in Getter(c) /\ from \notin PutLabels /\ to \notin PutLabels,
           \A d \in Stages \ {c} : Unchanged(d)
    PROVE  \A d \in Stages \ {c} : StageOK(d)'
<1> SUFFICES ASSUME NEW d \in Stages, d # c PROVE StageOK(d)'
  OBVIOUS
<1>1. ~ Role(d, u, from) /\ ~ Role(d, u, to)
  BY PipelineAssumption DEF Role, Putter, Getter, Stages
<1>2. u \in Places
  BY Ends
<1> QED BY <1>1, <1>2, ElsewhereKeeps

LEMMA WaitEmptyKeeps ==
    ASSUME IInv, NEW c \in Stages, NEW u \in Putter(c), WaitEmpty(u, c)
    PROVE  \A d \in Stages : StageOK(d)'
<1>1. Typed /\ StageOK(c) /\ u \in Threads /\ Moves(u, "waitEmpty", "enterPut")
  BY GotoMoves, Ends DEF IInv, WaitEmpty
<1>2. pc[u] = "waitEmpty" /\ pc'[u] = "enterPut"
  BY <1>1 DEF Moves
<1>3. /\ empty[c] > 0 /\ empty'[c] = empty[c] - 1 /\ fill' = fill /\ cs' = cs /\ queue' = queue
      /\ isDone' = isDone /\ \A d \in Stages \ {c} : Unchanged(d)
  BY <1>1 DEF WaitEmpty, Typed, Unchanged
<1>4. StageOK(c)'
  BY <1>1, <1>2, <1>3, PutterRuns, PutterAt, PermitTaken DEF PutLabels, Inside
<1>5. \A d \in Stages \ {c} : StageOK(d)'
  BY <1>1, <1>3, OthersKept DEF GetLabels, IInv
<1> QED BY <1>4, <1>5

LEMMA WaitFillKeeps ==
    ASSUME IInv, NEW c \in Stages, NEW u \in Getter(c), WaitFill(u, c)
    PROVE  \A d \in Stages : StageOK(d)'
<1>1. Typed /\ StageOK(c) /\ u \in Threads /\ Moves(u, "waitFill", "check")
  BY GotoMoves, Ends DEF IInv, WaitFill
<1>2. pc[u] = "waitFill" /\ pc'[u] = "check"
  BY <1>1 DEF Moves
<1>3. /\ fill[c] > 0 /\ fill'[c] = fill[c] - 1 /\ empty' = empty /\ cs' = cs /\ queue' = queue
      /\ isDone' = isDone /\ \A d \in Stages \ {c} : Unchanged(d)
  BY <1>1 DEF WaitFill, Typed, Unchanged
<1>4. ASSUME ~ isDone[c] PROVE StageOK(c)'
  <2>1. ~ isDone'[c] /\ cs'[c] = cs[c] /\ queue'[c] = queue[c] /\ empty'[c] = empty[c]
    BY <1>3, <1>4
  <2>2. Holder(c, u)' /\ Carried(c, u)' /\ "check" \notin Inside
    BY <1>2, GetterAt DEF GetLabels, Inside
  <2> QED BY <1>1, <1>3, <1>4, <2>1, <2>2, PermitTaken
<1>5. ASSUME isDone[c] PROVE StageOK(c)'
  <2>1. isDone'[c] /\ queue'[c] = queue[c]
    BY <1>3, <1>5
  <2>2. Finding(c, u)' => Finding(c, u)
    BY <1>2, GetterAt
  <2> QED BY <1>1, <1>5, <2>1, <2>2, FinishedKept
<1>6. \A d \in Stages \ {c} : StageOK(d)'
  BY <1>1, <1>3, OthersKept DEF PutLabels, IInv
<1> QED BY <1>4, <1>5, <1>6

LEMMA EnterPutKeeps ==
    ASSUME IInv, NEW c \in Stages, NEW u \in Putter(c), EnterCS(u, c, "enterPut", "put")
    PROVE  \A d \in Stages : StageOK(d)'
<1>1. Typed /\ StageOK(c) /\ u \in Threads /\ Moves(u, "enterPut", "put")
  BY GotoMoves, Ends DEF IInv, EnterCS
<1>2. pc[u] = "enterPut" /\ pc'[u] = "put"
  BY <1>1 DEF Moves
<1>3. /\ cs'[c] = u /\ empty' = empty /\ fill' = fill /\ queue' = queue /\ isDone' = isDone
      /\ \A d \in Stages \ {c} : Unchanged(d)
  BY <1>1 DEF EnterCS, Typed, Unchanged
<1>4. ~ isDone[c] /\ Holder(c, u) /\ Holder(c, u)' /\ ~ Carried(c, u) /\ ~ Carried(c, u)'
  BY <1>1, <1>2, PutterRuns, PutterAt DEF PutLabels
<1>5. empty[c] = 0 /\ fill[c] = 0 /\ Void(c)'
  BY <1>1, <1>3, <1>4, HolderAlone DEF StageOK, Void
<1>6. StageOK(c)'
  BY <1>1, <1>3, <1>4, <1>5, PutterAt, HolderMoves DEF Inside
<1>7. \A d \in Stages \ {c} : StageOK(d)'
  BY <1>1, <1>3, OthersKept DEF GetLabels, IInv
<1> QED BY <1>6, <1>7

LEMMA EnterGetKeeps ==
    ASSUME IInv, NEW c \in Stages, NEW u \in Getter(c), EnterCS(u, c, "enterGet", "extract")
    PROVE  \A d \in Stages : StageOK(d)'
<1>1. Typed /\ StageOK(c) /\ u \in Threads /\ Moves(u, "enterGet", "extract")
  BY GotoMoves, Ends DEF IInv, EnterCS
<1>2. pc[u] = "enterGet" /\ pc'[u] = "extract"
  BY <1>1 DEF Moves
<1>3. /\ cs'[c] = u /\ empty' = empty /\ fill' = fill /\ queue' = queue /\ isDone' = isDone
      /\ \A d \in Stages \ {c} : Unchanged(d)
  BY <1>1 DEF EnterCS, Typed, Unchanged
<1>4. ASSUME ~ isDone[c] PROVE StageOK(c)'
  <2>1. Holder(c, u) /\ Holder(c, u)' /\ Carried(c, u) /\ Carried(c, u)'
    BY <1>2, GetterAt DEF GetLabels
  <2>2. empty[c] = 0 /\ fill[c] = 0 /\ Loaded(c)'
    BY <1>1, <1>3, <1>4, <2>1, HolderAlone DEF StageOK, Loaded
  <2>3. ~ isDone'[c] /\ empty'[c] = 0 /\ fill'[c] = 0
    BY <1>3, <1>4, <2>2
  <2> QED BY <1>1, <1>3, <1>4, <2>1, <2>2, <2>3, HolderMoves DEF Inside
<1>5. ASSUME isDone[c] PROVE StageOK(c)'
  <2>1. isDone'[c] /\ queue'[c] = queue[c]
    BY <1>3, <1>5
  <2>2. Finding(c, u)' => Finding(c, u)
    BY <1>2, GetterAt
  <2> QED BY <1>1, <1>5, <2>1, <2>2, FinishedKept
<1>6. \A d \in Stages \ {c} : StageOK(d)'
  BY <1>1, <1>3, OthersKept DEF PutLabels, IInv
<1> QED BY <1>4, <1>5, <1>6

LEMMA LeavePutKeeps ==
    ASSUME IInv, NEW c \in Stages, NEW u \in Putter(c), LeaveCS(u, c, "leavePut", "releaseFill")
    PROVE  \A d \in Stages : StageOK(d)'
<1>1. Typed /\ StageOK(c) /\ u \in Threads /\ Moves(u, "leavePut", "releaseFill")
  BY GotoMoves, Ends DEF IInv, LeaveCS
<1>2. pc[u] = "leavePut" /\ pc'[u] = "releaseFill"
  BY <1>1 DEF Moves
<1>3. /\ cs'[c] = NoOne /\ empty' = empty /\ fill' = fill /\ queue' = queue /\ isDone' = isDone
      /\ \A d \in Stages \ {c} : Unchanged(d)
  BY <1>1 DEF LeaveCS, Typed, Unchanged
<1>4. ~ isDone[c] /\ Holder(c, u) /\ Holder(c, u)' /\ Carried(c, u) /\ Carried(c, u)'
  BY <1>1, <1>2, PutterRuns, PutterAt DEF PutLabels
<1>5. empty[c] = 0 /\ fill[c] = 0 /\ Loaded(c)'
  BY <1>1, <1>3, <1>4, HolderAlone DEF StageOK, Loaded
<1>6. StageOK(c)'
  BY <1>1, <1>3, <1>4, <1>5, PutterAt, HolderMoves DEF Inside
<1>7. \A d \in Stages \ {c} : StageOK(d)'
  BY <1>1, <1>3, OthersKept DEF GetLabels, IInv
<1> QED BY <1>6, <1>7

LEMMA LeaveGetKeeps ==
    ASSUME IInv, NEW c \in Stages, NEW u \in Getter(c), LeaveCS(u, c, "leaveGet", "releaseEmpty")
    PROVE  \A d \in Stages : StageOK(d)'
<1>1. Typed /\ StageOK(c) /\ u \in Threads /\ Moves(u, "leaveGet", "releaseEmpty")
  BY GotoMoves, Ends DEF IInv, LeaveCS
<1>2. pc[u] = "leaveGet" /\ pc'[u] = "releaseEmpty"
  BY <1>1 DEF Moves
<1>3. /\ cs'[c] = NoOne /\ empty' = empty /\ fill' = fill /\ queue' = queue /\ isDone' = isDone
      /\ \A d \in Stages \ {c} : Unchanged(d)
  BY <1>1 DEF LeaveCS, Typed, Unchanged
<1>4. ASSUME ~ isDone[c] PROVE StageOK(c)'
  <2>1. Holder(c, u) /\ Holder(c, u)' /\ ~ Carried(c, u) /\ ~ Carried(c, u)'
    BY <1>2, GetterAt DEF GetLabels
  <2>2. empty[c] = 0 /\ fill[c] = 0 /\ Void(c)'
    BY <1>1, <1>3, <1>4, <2>1, HolderAlone DEF StageOK, Void
  <2>3. ~ isDone'[c] /\ empty'[c] = 0 /\ fill'[c] = 0
    BY <1>3, <1>4, <2>2
  <2> QED BY <1>1, <1>3, <1>4, <2>1, <2>2, <2>3, HolderMoves DEF Inside
<1>5. ASSUME isDone[c] PROVE StageOK(c)'
  <2>1. isDone'[c] /\ queue'[c] = queue[c]
    BY <1>3, <1>5
  <2>2. Finding(c, u)' => Finding(c, u)
    BY <1>2, GetterAt
  <2> QED BY <1>1, <1>5, <2>1, <2>2, FinishedKept
<1>6. \A d \in Stages \ {c} : StageOK(d)'
  BY <1>1, <1>3, OthersKept DEF PutLabels, IInv
<1> QED BY <1>4, <1>5, <1>6

(* The permit is the only one: fill is not at its maximum, and no release fails. *)
LEMMA ReleaseFillKeeps ==
    ASSUME IInv, NEW c \in Stages, NEW u \in Putter(c), NEW to \in {"read", "waitFill"},
           ReleaseFill(u, c, to)
    PROVE  \A d \in Stages : StageOK(d)'
<1>1. Typed /\ StageOK(c) /\ u \in Threads /\ pc[u] = "releaseFill"
  BY Ends DEF IInv, ReleaseFill, Goto
<1>2. ~ isDone[c] /\ Holder(c, u) /\ Carried(c, u)
  BY <1>1, PutterRuns, PutterAt DEF PutLabels
<1>3. /\ empty[c] = 0 /\ fill[c] = 0 /\ Loaded(c) /\ cs[c] = NoOne
  <2>1. /\ empty[c] = 0 /\ fill[c] = 0 /\ Loaded(c) /\ Sectioned(c)
        /\ \A v \in Threads : Holder(c, v) => v = u
    BY <1>1, <1>2, HolderAlone DEF StageOK
  <2>2. ASSUME cs[c] # NoOne PROVE FALSE
    <3>1. cs[c] \in Threads /\ Holder(c, cs[c]) /\ pc[cs[c]] \in Inside
      BY <1>1, <2>1, <2>2 DEF Typed, Sectioned
    <3> QED BY <1>1, <2>1, <3>1 DEF Inside
  <2> QED BY <2>1, <2>2
<1>4. Moves(u, "releaseFill", to)
  <2>1. Goto(u, "releaseFill", to)
    BY <1>3, RingSize DEF ReleaseFill
  <2> QED BY <1>1, <2>1, GotoMoves, Ends
<1>5. /\ fill'[c] = 1 /\ empty' = empty /\ cs' = cs /\ queue' = queue /\ isDone' = isDone
      /\ \A d \in Stages \ {c} : Unchanged(d)
  BY <1>1, <1>3, RingSize DEF ReleaseFill, Typed, Unchanged
<1>6. ~ Holder(c, u)' /\ Loaded(c)'
  BY <1>3, <1>4, <1>5, PutterAt DEF Moves, PutLabels, Loaded
<1>7. StageOK(c)'
  BY <1>1, <1>2, <1>3, <1>4, <1>5, <1>6, PutterAt, HolderMoves
<1>8. \A d \in Stages \ {c} : StageOK(d)'
  BY <1>1, <1>4, <1>5, OthersKept DEF GetLabels, IInv
<1> QED BY <1>7, <1>8

LEMMA ReleaseEmptyKeeps ==
    ASSUME IInv, NEW c \in Stages, NEW u \in Getter(c), NEW to \in {"waitEmpty", "waitFill"},
           ReleaseEmpty(u, c, to)
    PROVE  \A d \in Stages : StageOK(d)'
<1>1. Typed /\ StageOK(c) /\ u \in Threads /\ pc[u] = "releaseEmpty"
  BY Ends DEF IInv, ReleaseEmpty, Goto
<1>2. /\ fill' = fill /\ cs' = cs /\ queue' = queue /\ isDone' = isDone
      /\ \A d \in Stages \ {c} : Unchanged(d)
  BY <1>1 DEF ReleaseEmpty, Typed, Unchanged
<1>3. PICK l \in {to, "returned"} : Moves(u, "releaseEmpty", l) /\ (empty[c] < N => l = to)
  <2>1. Goto(u, "releaseEmpty", IF empty[c] < N THEN to ELSE "returned")
    BY DEF ReleaseEmpty
  <2>2. Moves(u, "releaseEmpty", IF empty[c] < N THEN to ELSE "returned")
    BY <1>1, <2>1, GotoMoves, Ends
  <2> QED BY <2>2
<1>4. ASSUME ~ isDone[c] PROVE StageOK(c)'
  <2>1. Holder(c, u) /\ ~ Carried(c, u)
    BY <1>1, GetterAt DEF GetLabels
  <2>2. empty[c] = 0 /\ fill[c] = 0 /\ Void(c) /\ cs[c] = NoOne
    <3>1. /\ empty[c] = 0 /\ fill[c] = 0 /\ Void(c) /\ Sectioned(c)
          /\ \A v \in Threads : Holder(c, v) => v = u
      BY <1>1, <1>4, <2>1, HolderAlone DEF StageOK
    <3>2. ASSUME cs[c] # NoOne PROVE FALSE
      <4>1. cs[c] \in Threads /\ Holder(c, cs[c]) /\ pc[cs[c]] \in Inside
        BY <1>1, <3>1, <3>2 DEF Typed, Sectioned
      <4> QED BY <1>1, <3>1, <4>1 DEF Inside
    <3> QED BY <3>1, <3>2
  <2>3. l = to /\ empty'[c] = 1
    BY <1>1, <1>3, <2>2, RingSize DEF ReleaseEmpty, Typed
  <2>4. pc'[u] = to
    BY <1>3, <2>3 DEF Moves
  <2>5. ~ Holder(c, u)' /\ Void(c)'
    BY <1>2, <2>2, <2>4, GetterAt DEF GetLabels, Void
  <2>6. ~ isDone'[c] /\ cs'[c] = NoOne /\ fill'[c] = 0 /\ Moves(u, "releaseEmpty", to)
    BY <1>2, <1>3, <1>4, <2>2, <2>3
  <2>7. to \notin {"extract", "write", "leaveGet"}
    OBVIOUS
  <2> QED BY <1>1, <1>4, <2>1, <2>3, <2>5, <2>6, <2>7, HolderMoves
<1>5. ASSUME isDone[c] PROVE StageOK(c)'
  <2>1. pc'[u] = l
    BY <1>3 DEF Moves
  <2>2. ~ Finding(c, u)'
    BY <2>1, GetterAt
  <2>3. isDone'[c] /\ queue'[c] = queue[c]
    BY <1>2, <1>5
  <2> QED BY <1>1, <1>3, <1>5, <2>2, <2>3, FinishedKept
<1>6. \A d \in Stages \ {c} : StageOK(d)'
  BY <1>1, <1>2, <1>3, OthersKept DEF PutLabels, IInv
<1> QED BY <1>4, <1>5, <1>6

(* The section is free, or in the hands of the holder. *)
LEMMA HolderSection ==
    ASSUME IInv, NEW c \in Stages, NEW u \in Threads, ~ isDone[c], Holder(c, u)
    PROVE  cs[c] # NoOne => cs[c] = u /\ pc[u] \in Inside
<1>1. Sectioned(c) /\ Running(c) /\ Typed
  BY DEF IInv, StageOK
<1>2. cs[c] # NoOne => cs[c] \in Threads
  BY <1>1 DEF Typed
<1> QED BY <1>1, <1>2, HolderAlone DEF Sectioned

LEMMA CheckDoneKeeps ==
    ASSUME IInv, NEW c \in Stages, NEW u \in Getter(c), CheckDone(u, c)
    PROVE  \A d \in Stages : StageOK(d)'
<1>1. /\ Typed /\ StageOK(c) /\ u \in Threads /\ pc[u] = "check"
      /\ fill' = fill /\ empty' = empty /\ cs' = cs /\ queue' = queue /\ isDone' = isDone
      /\ \A d \in Stages \ {c} : Unchanged(d)
  BY Ends DEF IInv, CheckDone, Goto, shared, Unchanged
<1>2. PICK l \in {"returned", "enterGet"} :
         Moves(u, "check", l) /\ (l = "enterGet" <=> ~ isDone[c])
  <2>1. Moves(u, "check", IF isDone[c] THEN "returned" ELSE "enterGet")
    BY <1>1, GotoMoves, Ends DEF CheckDone
  <2> QED BY <2>1
<1>3. pc'[u] = l
  BY <1>2 DEF Moves
<1>4. ASSUME ~ isDone[c] PROVE StageOK(c)'
  <2>1. Holder(c, u) /\ Holder(c, u)' /\ Carried(c, u) /\ Carried(c, u)' /\ l = "enterGet"
    BY <1>1, <1>2, <1>3, <1>4, GetterAt DEF GetLabels
  <2>2. cs'[c] = NoOne
    BY <1>1, <1>4, <2>1, HolderSection DEF Inside
  <2>3. ~ isDone'[c] /\ empty'[c] = 0 /\ fill'[c] = 0 /\ Loaded(c)'
    BY <1>1, <1>4, <2>1, HolderAlone DEF StageOK, Loaded
  <2>4. Moves(u, "check", "enterGet")
    BY <1>2, <2>1
  <2> QED BY <1>1, <1>4, <2>1, <2>2, <2>3, <2>4, HolderMoves
<1>5. ASSUME isDone[c] PROVE StageOK(c)'
  <2>1. ~ Finding(c, u)' /\ isDone'[c] /\ queue'[c] = queue[c] /\ Moves(u, "check", "returned")
    BY <1>1, <1>2, <1>3, <1>5, GetterAt
  <2> QED BY <1>1, <1>5, <2>1, FinishedKept
<1>6. \A d \in Stages \ {c} : StageOK(d)'
  BY <1>1, <1>2, OthersKept DEF PutLabels, IInv
<1> QED BY <1>4, <1>5, <1>6

(* A thread that is let through to the queues finds a record there. *)
LEMMA SomethingToExtract ==
    ASSUME IInv, NEW c \in Stages, NEW u \in Getter(c), pc[u] \in {"enterGet", "extract"}
    PROVE  Loaded(c) /\ NonEmpty(c) # {}
<1>1. Typed /\ StageOK(c) /\ u \in Threads
  BY Ends DEF IInv
<1>2. Loaded(c)
  <2>1. CASE isDone[c]
    BY <1>1, <2>1, GetterAt DEF StageOK, Finished
  <2>2. CASE ~ isDone[c]
    <3>1. Holder(c, u) /\ Carried(c, u)
      BY GetterAt DEF GetLabels
    <3> QED BY <1>1, <2>2, <3>1, HolderAlone DEF StageOK
  <2> QED BY <2>1, <2>2
<1>3. PICK q \in Files : queue[c][q].write = (queue[c][q].read + 1) % QSize
  BY <1>2 DEF Loaded
<1>4. queue[c][q].read \in Slots
  BY <1>1 DEF Typed, Rings
<1>5. queue[c][q].read # queue[c][q].write
  BY <1>3, <1>4, RingSize
<1> QED BY <1>2, <1>5 DEF NonEmpty

LEMMA ExtractKeeps ==
    ASSUME IInv, NEW c \in Stages, NEW u \in Getter(c), Extract(u, c)
    PROVE  /\ \A d \in Stages : StageOK(d)'
           /\ queue' \in QueueMap
           /\ \A f \in Files, k \in Slots :
                 queue["AB"][f].buffer[k] \in Read => queue'["AB"][f].buffer[k] \in Read
           /\ Moves(u, "extract", IF u \in B THEN "leaveGet" ELSE "write")
           /\ \E q \in Files, s \in Slots :
                 /\ extractedValue' = [extractedValue EXCEPT ![u] = <<q, s>>]
                 /\ c = "AB" => queue'["AB"][q].buffer[s] \in Read
<1>1. /\ Typed /\ StageOK(c) /\ u \in Threads /\ pc[u] = "extract"
      /\ fill' = fill /\ empty' = empty /\ cs' = cs /\ isDone' = isDone
  BY Ends DEF IInv, Extract, Goto
<1>2. PICK l \in {"leaveGet", "write"} :
         Moves(u, "extract", l) /\ l = IF u \in B THEN "leaveGet" ELSE "write"
  <2>1. Moves(u, "extract", IF u \in B THEN "leaveGet" ELSE "write")
    BY <1>1, GotoMoves, Ends DEF Extract
  <2> QED BY <2>1
<1>3. Loaded(c)
  BY <1>1, SomethingToExtract
<1>4. PICK q \in NonEmpty(c) :
         /\ extractedValue' = [extractedValue EXCEPT ![u] = <<q, queue[c][q].read>>]
         /\ TakenOut(c, q)
  BY DEF Extract, TakenOut
<1>5. q \in Files
  BY DEF NonEmpty
<1>6. /\ queue' \in QueueMap /\ \A d \in Stages \ {c} : queue'[d] = queue[d]
      /\ Void(c)' /\ queue[c][q].read \in Slots
      /\ c = "AB" => queue'[c][q].buffer[queue[c][q].read] \in Read
      /\ \A f \in Files, k \in Slots :
            queue["AB"][f].buffer[k] \in Read => queue'["AB"][f].buffer[k] \in Read
  BY <1>1, <1>3, <1>4, <1>5, ExtractEmpties
<1>7. pc'[u] = l
  BY <1>2 DEF Moves
<1>8. \A d \in Stages \ {c} : Unchanged(d)
  BY <1>1, <1>6 DEF Unchanged
<1>9. ASSUME ~ isDone[c] PROVE StageOK(c)'
  <2>1. Holder(c, u) /\ Holder(c, u)' /\ Carried(c, u) /\ ~ Carried(c, u)'
    BY <1>1, <1>7, GetterAt DEF GetLabels
  <2>2. ~ isDone'[c] /\ empty'[c] = 0 /\ fill'[c] = 0 /\ cs'[c] = u /\ l \in Inside
    BY <1>1, <1>9, <2>1, HolderAlone DEF StageOK, Sectioned, Inside
  <2> QED BY <1>1, <1>2, <1>6, <1>9, <2>1, <2>2, HolderMoves
<1>10. ASSUME isDone[c] PROVE StageOK(c)'
  <2>1. ~ Finding(c, u)' /\ Finding(c, u) /\ isDone'[c]
    BY <1>1, <1>7, <1>10, GetterAt
  <2> QED BY <1>1, <1>2, <1>10, <2>1, FinishedKept
<1>11. \A d \in Stages \ {c} : StageOK(d)'
  BY <1>1, <1>2, <1>8, OthersKept DEF PutLabels, IInv
<1>12. \A d \in Stages : StageOK(d)'
  BY <1>9, <1>10, <1>11
<1>13. Moves(u, "extract", IF u \in B THEN "leaveGet" ELSE "write")
  BY <1>2
<1>14. PICK s \in Slots : s = queue[c][q].read
  BY <1>6
<1>15. /\ extractedValue' = [extractedValue EXCEPT ![u] = <<q, s>>]
       /\ c = "AB" => queue'["AB"][q].buffer[s] \in Read
  BY <1>4, <1>6, <1>14
<1> QED BY <1>5, <1>6, <1>12, <1>13, <1>15

LEMMA InsertKeeps ==
    ASSUME IInv, NEW c \in Stages, NEW u \in Putter(c), NEW q \in Files, NEW rec \in Read,
           Moves(u, "put", "leavePut"), insert(c, q, rec), UNCHANGED <<fill, empty, cs, isDone>>
    PROVE  \A d \in Stages : StageOK(d)'
<1>1. Typed /\ StageOK(c) /\ u \in Threads /\ pc[u] = "put" /\ pc'[u] = "leavePut"
  BY Ends DEF IInv, Moves
<1>2. ~ isDone[c] /\ Holder(c, u) /\ Holder(c, u)' /\ ~ Carried(c, u) /\ Carried(c, u)'
  BY <1>1, PutterRuns, PutterAt DEF PutLabels
<1>3. Void(c) /\ empty'[c] = 0 /\ fill'[c] = 0 /\ ~ isDone'[c]
  BY <1>1, <1>2, HolderAlone DEF StageOK
<1>4. Loaded(c)' /\ \A d \in Stages \ {c} : queue'[d] = queue[d]
  BY <1>1, <1>3, InsertFills
<1>5. cs'[c] # NoOne => cs'[c] = u
  BY <1>1, <1>2, HolderSection
<1>6. StageOK(c)'
  BY <1>1, <1>2, <1>3, <1>4, <1>5, PutterAt, HolderMoves DEF Inside
<1>7. \A d \in Stages \ {c} : StageOK(d)'
  <2>1. \A d \in Stages \ {c} : Unchanged(d)
    BY <1>4 DEF Unchanged
  <2> QED BY <1>1, <2>1, OthersKept DEF GetLabels, IInv
<1> QED BY <1>6, <1>7

LEMMA WriteOutKeeps ==
    ASSUME IInv, NEW u \in C, WriteOut(u)
    PROVE  /\ \A d \in Stages : StageOK(d)'
           /\ \E l \in {"leaveGet", "returned"} : Moves(u, "write", l)
<1> DEFINE c == "BC"
<1>1. /\ Typed /\ c \in Stages /\ StageOK(c) /\ u \in Getter(c) /\ u \in Threads
      /\ pc[u] = "write" /\ fill' = fill /\ empty' = empty /\ cs' = cs /\ queue' = queue
      /\ isDone' = isDone /\ \A d \in Stages \ {c} : Unchanged(d)
  BY Ends DEF IInv, WriteOut, Goto, shared, Unchanged, Stages
<1>2. PICK l \in {"leaveGet", "returned"} : Moves(u, "write", l)
  BY <1>1, GotoMoves, Ends DEF WriteOut
<1> HIDE DEF c
<1>3. pc'[u] = l
  BY <1>2 DEF Moves
<1>4. ASSUME ~ isDone[c] PROVE StageOK(c)'
  <2>1. Holder(c, u) /\ ~ Carried(c, u) /\ ~ Carried(c, u)'
    BY <1>1, <1>3, GetterAt DEF GetLabels
  <2>2. cs[c] = u
    BY <1>1, <1>4 DEF StageOK, Sectioned
  <2>3. Holder(c, u)' /\ l \in Inside /\ cs'[c] = u
    BY <1>1, <1>3, <2>2, GetterAt DEF GetLabels, Inside
  <2>4. ~ isDone'[c] /\ empty'[c] = 0 /\ fill'[c] = 0 /\ Void(c)'
    BY <1>1, <1>4, <2>1, HolderAlone DEF StageOK, Void
  <2> QED BY <1>1, <1>2, <1>4, <2>1, <2>3, <2>4, HolderMoves
<1>5. ASSUME isDone[c] PROVE StageOK(c)'
  <2>1. ~ Finding(c, u)' /\ isDone'[c] /\ queue'[c] = queue[c]
    BY <1>1, <1>3, <1>5, GetterAt
  <2> QED BY <1>1, <1>2, <1>5, <2>1, FinishedKept
<1>6. \A d \in Stages \ {c} : StageOK(d)'
  BY <1>1, <1>2, OthersKept DEF PutLabels, IInv
<1> QED BY <1>2, <1>4, <1>5, <1>6

(* A stage is shut down when those who put into it are through: whoever has the
   permit then may still look for the record that came with it.               *)
LEMMA JoinKeeps ==
    ASSUME IInv, NEW c \in Stages, NEW from, NEW to, Join(Putter(c), c, from, to),
           from # "returned"
    PROVE  \A d \in Stages : StageOK(d)'
<1>1. /\ Typed /\ StageOK(c) /\ Moves(Main, from, to) /\ Main \in Places
      /\ queue' = queue /\ isDone'[c] = TRUE /\ \A d \in Stages \ {c} : Unchanged(d)
  BY GotoMoves, Ends DEF IInv, Join, Typed, Unchanged
<1>2. \A t \in Threads : pc'[t] = pc[t]
  BY <1>1, Ends DEF Moves
<1>3. \A t \in Putter(c) : pc'[t] = "returned"
  BY <1>2, Ends DEF Join
<1>4. ASSUME NEW t \in Threads, Finding(c, t)
      PROVE  Loaded(c) /\ \A u \in Threads : Finding(c, u) => u = t
  <2>1. CASE isDone[c]
    BY <1>1, <1>4, <2>1 DEF StageOK, Finished
  <2>2. CASE ~ isDone[c]
    <3>1. \A u \in Threads : Finding(c, u) => Holder(c, u) /\ Carried(c, u)
      BY DEF Finding, Holder, Carried, GetLabels
    <3> QED BY <1>1, <1>4, <2>2, <3>1, HolderAlone DEF StageOK
  <2> QED BY <2>1, <2>2
<1>5. \A t \in Threads : Finding(c, t)' <=> Finding(c, t)
  BY <1>2 DEF Finding
<1>6. Loaded(c)' <=> Loaded(c)
  BY <1>1 DEF Loaded
<1>7. Finished(c)'
  BY <1>3, <1>4, <1>5, <1>6 DEF Finished
<1>8. StageOK(c)'
  BY <1>1, <1>7 DEF StageOK
<1>9. ASSUME NEW d \in Stages, d # c PROVE StageOK(d)'
  <2>1. ~ Role(d, Main, from) /\ ~ Role(d, Main, to)
    BY Ends DEF Role
  <2> QED BY <1>1, <1>9, <2>1, ElsewhereKeeps DEF IInv
<1> QED BY <1>8, <1>9

LEMMA WakeAllKeeps ==
    ASSUME IInv, NEW c \in Stages, NEW from, NEW to, WakeAll(c, from, to), isDone[c],
           from # "returned"
    PROVE  \A d \in Stages : StageOK(d)'
<1>1. /\ Typed /\ StageOK(c) /\ Moves(Main, from, to) /\ Main \in Places
      /\ queue' = queue /\ isDone' = isDone /\ \A d \in Stages \ {c} : Unchanged(d)
  BY GotoMoves, Ends DEF IInv, WakeAll, Typed, Unchanged
<1>2. \A t \in Threads : pc'[t] = pc[t]
  BY <1>1, Ends DEF Moves
<1>3. Finished(c)
  BY <1>1 DEF StageOK
<1>4. Loaded(c)' <=> Loaded(c)
  BY <1>1 DEF Loaded
<1>5. Finished(c)'
  BY <1>2, <1>3, <1>4, Ends DEF Finished, Finding
<1>6. StageOK(c)'
  BY <1>1, <1>5 DEF StageOK
<1>7. ASSUME NEW d \in Stages, d # c PROVE StageOK(d)'
  <2>1. ~ Role(d, Main, from) /\ ~ Role(d, Main, to)
    BY Ends DEF Role
  <2> QED BY <1>1, <1>7, <2>1, ElsewhereKeeps DEF IInv
<1> QED BY <1>6, <1>7


-----------------------------------------------------------------------------
(* What the threads have in hand, and types *)

LEMMA Kinds ==
    /\ A \subseteq Threads /\ B \subseteq Threads /\ C \subseteq Threads
    /\ A \cap B = {} /\ B \cap C = {} /\ A \cap C = {}
    /\ Threads \subseteq Places /\ Main \in Places \ Threads /\ NoOne \notin Threads
    /\ Stages = {"AB", "BC"} /\ Putter("AB") = A /\ Getter("AB") = B
    /\ Putter("BC") = B /\ Getter("BC") = C
BY PipelineAssumption DEF Threads, Places, Stages, Putter, Getter

(* The files, records and pointers of the other threads stay good.            *)
LEMMA HandsKept ==
    ASSUME IInv, NEW u \in Places, NEW from, NEW to, Moves(u, from, to),
           \A f \in Files, k \in Slots :
              queue["AB"][f].buffer[k] \in Read => queue'["AB"][f].buffer[k] \in Read,
           \A v \in A \ {u} : file'[v] = file[v] /\ record'[v] = record[v],
           \A v \in (B \cup C) \ {u} : extractedValue'[v] = extractedValue[v],
           u \in A => OpenedAt(u)', u \in B => PointsAt(u)', u \in C => WritesAt(u)'
    PROVE  InHand'
<1>1. \A v \in Threads \ {u} : pc'[v] = pc[v]
  BY Kinds DEF Moves
<1>2. ASSUME NEW v \in A, v # u PROVE OpenedAt(v)'
  BY <1>1, <1>2, Kinds DEF IInv, InHand, OpenedAt
<1>3. ASSUME NEW v \in B, v # u PROVE PointsAt(v)'
  <2>1. PointsAt(v) /\ pc'[v] = pc[v] /\ extractedValue'[v] = extractedValue[v]
    BY <1>1, <1>3, Kinds DEF IInv, InHand
  <2>2. ASSUME extractedValue[v] \in Files \X Slots, Target("AB", extractedValue[v]) \in Read
        PROVE  Target("AB", extractedValue[v])' \in Read
    BY <2>1, <2>2 DEF Target
  <2> QED BY <2>1, <2>2 DEF PointsAt
<1>4. ASSUME NEW v \in C, v # u PROVE WritesAt(v)'
  BY <1>1, <1>4, Kinds DEF IInv, InHand, WritesAt
<1> QED BY <1>2, <1>3, <1>4 DEF InHand

(* A step that moves a permit or a section and no data.                       *)
Quiet(u, from, to) ==
    /\ Moves(u, from, to) /\ queue' = queue /\ isDone' = isDone
    /\ UNCHANGED <<input, extractedValue, output>>
    /\ fill' \in [Stages -> 0 .. N] /\ empty' \in [Stages -> 0 .. N]
    /\ cs' \in [Stages -> Threads \cup {NoOne}]

LEMMA QuietSteps ==
    ASSUME Typed, NEW u \in Threads, NEW c \in Stages
    PROVE  /\ WaitEmpty(u, c) => Quiet(u, "waitEmpty", "enterPut")
           /\ WaitFill(u, c) => Quiet(u, "waitFill", "check")
           /\ \A from, to : EnterCS(u, c, from, to) => Quiet(u, from, to)
           /\ \A from, to : LeaveCS(u, c, from, to) => Quiet(u, from, to)
           /\ CheckDone(u, c) =>
                 Quiet(u, "check", "returned") \/ Quiet(u, "check", "enterGet")
           /\ \A to : ReleaseFill(u, c, to) =>
                 Quiet(u, "releaseFill", to) \/ Quiet(u, "releaseFill", "returned")
           /\ \A to : ReleaseEmpty(u, c, to) =>
                 Quiet(u, "releaseEmpty", to) \/ Quiet(u, "releaseEmpty", "returned")
<1>1. \A from, to : Goto(u, from, to) => Moves(u, from, to)
  BY GotoMoves, Ends
<1>2. /\ fill \in [Stages -> 0 .. N] /\ empty \in [Stages -> 0 .. N]
      /\ cs \in [Stages -> Threads \cup {NoOne}] /\ N \in Nat
  BY RingSize DEF Typed
<1>3. WaitEmpty(u, c) => Quiet(u, "waitEmpty", "enterPut")
  BY <1>1, <1>2 DEF WaitEmpty, Quiet
<1>4. WaitFill(u, c) => Quiet(u, "waitFill", "check")
  BY <1>1, <1>2 DEF WaitFill, Quiet
<1>5. ASSUME NEW from, NEW to, EnterCS(u, c, from, to) PROVE Quiet(u, from, to)
  BY <1>1, <1>2, <1>5 DEF EnterCS, Quiet
<1>6. ASSUME NEW from, NEW to, LeaveCS(u, c, from, to) PROVE Quiet(u, from, to)
  BY <1>1, <1>2, <1>6 DEF LeaveCS, Quiet
<1>7. CheckDone(u, c) => Quiet(u, "check", "returned") \/ Quiet(u, "check", "enterGet")
  BY <1>1, <1>2 DEF CheckDone, Quiet, shared
<1>8. ASSUME NEW to, ReleaseFill(u, c, to)
      PROVE  Quiet(u, "releaseFill", to) \/ Quiet(u, "releaseFill", "returned")
  <2>1. Moves(u, "releaseFill", to) \/ Moves(u, "releaseFill", "returned")
    BY <1>1, <1>8 DEF ReleaseFill
  <2>2. fill' \in [Stages -> 0 .. N]
    BY <1>2, <1>8 DEF ReleaseFill
  <2> QED BY <1>2, <1>8, <2>1, <2>2 DEF ReleaseFill, Quiet
<1>9. ASSUME NEW to, ReleaseEmpty(u, c, to)
      PROVE  Quiet(u, "releaseEmpty", to) \/ Quiet(u, "releaseEmpty", "returned")
  <2>1. Moves(u, "releaseEmpty", to) \/ Moves(u, "releaseEmpty", "returned")
    BY <1>1, <1>9 DEF ReleaseEmpty
  <2>2. empty' \in [Stages -> 0 .. N]
    BY <1>2, <1>9 DEF ReleaseEmpty
  <2> QED BY <1>2, <1>9, <2>1, <2>2 DEF ReleaseEmpty, Quiet
<1> QED BY <1>3, <1>4, <1>5, <1>6, <1>7, <1>8, <1>9

(* Such a step goes on with what the thread had in hand before.               *)
LEMMA QuietKeeps ==
    ASSUME IInv, NEW u \in Threads, NEW from, NEW to, Quiet(u, from, to),
           \A d \in Stages : StageOK(d)',
           u \in A => /\ to \in {"read", "waitEmpty", "enterPut", "put", "leavePut",
                               "releaseFill"} =>
                            from \in {"read", "waitEmpty", "enterPut", "put", "leavePut",
                                      "releaseFill"}
                      /\ to \in {"waitEmpty", "enterPut", "put"} =>
                            from \in {"waitEmpty", "enterPut", "put"},
           u \in B => (to \in {"leaveGet", "releaseEmpty", "waitEmpty", "enterPut", "put"} =>
                       from \in {"leaveGet", "releaseEmpty", "waitEmpty", "enterPut", "put"}),
           to # "write"
    PROVE  IInv'
<1>1. /\ Moves(u, from, to) /\ queue' = queue /\ isDone' = isDone
      /\ file' = file /\ record' = record /\ extractedValue' = extractedValue
      /\ csFileOpening' = csFileOpening /\ hashOpenedFileA' = hashOpenedFileA
      /\ nRead' = nRead /\ output' = output
  BY DEF Quiet, input
<1>2. pc[u] = from /\ pc'[u] = to /\ pc'[Main] = pc[Main]
      /\ pc' = [t \in Places |-> pc'[t]]
  BY <1>1, Kinds DEF Moves
<1>3. Typed'
  BY <1>1, <1>2 DEF IInv, Typed, Quiet
<1>4. InHand'
  <2>1. u \in A => OpenedAt(u)'
    BY <1>1, <1>2 DEF IInv, InHand, OpenedAt
  <2>2. u \in B => PointsAt(u)'
    BY <1>1, <1>2 DEF IInv, InHand, PointsAt, Target
  <2>3. u \in C => WritesAt(u)'
    BY <1>2 DEF WritesAt
  <2> QED BY <1>1, <2>1, <2>2, <2>3, HandsKept, Kinds
<1>5. WakesWhenDone'
  BY <1>1, <1>2 DEF IInv, WakesWhenDone
<1> QED BY <1>3, <1>4, <1>5 DEF IInv

-----------------------------------------------------------------------------
(* The steps that move data *)

LEMMA WakesKept ==
    ASSUME IInv, NEW u \in Threads, NEW from, NEW to, Moves(u, from, to), isDone' = isDone
    PROVE  WakesWhenDone'
BY Kinds DEF IInv, WakesWhenDone, Moves

(* Before and between the stages nothing of a stage moves.                    *)
LEMMA OutsideKeeps ==
    ASSUME IInv, NEW u \in Places, NEW from, NEW to, Moves(u, from, to), UNCHANGED shared,
           u = Main \/ {from, to} \cap (PutLabels \cup GetLabels) = {}, from # "returned"
    PROVE  \A d \in Stages : StageOK(d)'
<1> SUFFICES ASSUME NEW d \in Stages PROVE StageOK(d)'
  OBVIOUS
<1>1. ~ Role(d, u, from) /\ ~ Role(d, u, to)
  BY Ends DEF Role
<1>2. Unchanged(d)
  BY DEF Unchanged, shared
<1> QED BY <1>1, <1>2, ElsewhereKeeps DEF IInv

LEMMA OpenFileKeeps ==
    ASSUME IInv, NEW u \in A, OpenFile(u)
    PROVE  IInv'
<1>1. Typed /\ u \in Threads /\ u \in Places /\ u \notin B /\ u \notin C
  BY Kinds DEF IInv
<1>2. PICK f \in Files, l \in {"read", "returned"} :
         /\ Moves(u, "open", l) /\ (l = "read" => file' = [file EXCEPT ![u] = f])
         /\ l = "returned" => file' = file
         /\ csFileOpening' \in {csFileOpening, u} /\ hashOpenedFileA' \subseteq Files
  BY <1>1, GotoMoves DEF OpenFile, Typed
<1>3. /\ queue' = queue /\ isDone' = isDone /\ fill' = fill /\ empty' = empty /\ cs' = cs
      /\ nRead' = nRead /\ record' = record /\ extractedValue' = extractedValue
      /\ output' = output
  BY DEF OpenFile, shared
<1>4. file' \in [A -> 0 .. N] /\ (l = "read" => file'[u] \in Files)
      /\ \A v \in A \ {u} : file'[v] = file[v]
  <2>1. file \in [A -> 0 .. N] /\ f \in 0 .. N
    BY <1>1, RingSize DEF Typed, Files
  <2>2. CASE l = "read"
    <3>1. file' = [file EXCEPT ![u] = f]
      BY <1>2, <2>2
    <3> QED BY <2>1, <3>1
  <2>3. CASE l = "returned"
    BY <1>2, <2>1, <2>3
  <2> QED BY <2>2, <2>3
<1>5. Typed'
  BY <1>1, <1>2, <1>3, <1>4 DEF Typed, Moves
<1>6. InHand'
  <2>1. OpenedAt(u)'
    BY <1>2, <1>4 DEF OpenedAt, Moves
  <2> QED BY <1>1, <1>2, <1>3, <1>4, <2>1, HandsKept
<1>7. \A d \in Stages : StageOK(d)'
  <2>1. {"open", l} \cap (PutLabels \cup GetLabels) = {}
    BY DEF PutLabels, GetLabels
  <2>2. UNCHANGED shared
    BY <1>3 DEF shared
  <2> QED BY <1>1, <1>2, <2>1, <2>2, OutsideKeeps
<1>8. WakesWhenDone'
  BY <1>1, <1>2, <1>3, WakesKept
<1> QED BY <1>5, <1>6, <1>7, <1>8 DEF IInv

LEMMA ReadRecordKeeps ==
    ASSUME IInv, NEW u \in A, ReadRecord(u)
    PROVE  IInv'
<1>1. Typed /\ u \in Threads /\ u \in Places /\ u \notin B /\ u \notin C
  BY Kinds DEF IInv
<1>2. file[u] \in Files
  BY DEF IInv, InHand, OpenedAt, ReadRecord
<1>3. PICK l \in {"waitEmpty", "returned"} :
         /\ Moves(u, "read", l) /\ nRead' \in [Files -> Nat] /\ record' \in [A -> RecordSet]
         /\ l = "waitEmpty" => record'[u] \in Read
         /\ \A v \in A \ {u} : record'[v] = record[v]
  <2> DEFINE f == file[u]
             rec == [id |-> <<f, nRead[f]>>, upper |-> FALSE]
  <2>1. CASE nRead[f] < Records[f] /\ Goto(u, "read", "waitEmpty")
             /\ nRead' = [nRead EXCEPT ![f] = @ + 1] /\ record' = [record EXCEPT ![u] = rec]
    <3>1. nRead[f] \in Nat /\ Records[f] \in Nat
      BY <1>1, <1>2, PipelineAssumption DEF Typed
    <3>2. <<f, nRead[f]>> \in Ids
      <4>1. nRead[f] \in 0 .. Records[f] - 1
        BY <2>1, <3>1
      <4> HIDE DEF f
      <4>2. <<f, nRead[f]>> \in {f} \X (0 .. Records[f] - 1) /\ f \in Files
        BY <1>2, <4>1 DEF f
      <4> QED BY <4>2 DEF Ids
    <3>3. rec \in Read /\ rec \in RecordSet
      BY <3>2 DEF Read, RecordSet
    <3>4. nRead' \in [Files -> Nat] /\ Moves(u, "read", "waitEmpty")
      BY <1>1, <1>2, <2>1, <3>1, GotoMoves DEF Typed
    <3> HIDE DEF rec
    <3>5. record' \in [A -> RecordSet] /\ record'[u] = rec
          /\ \A v \in A \ {u} : record'[v] = record[v]
      BY <1>1, <2>1, <3>3 DEF Typed
    <3> QED BY <3>3, <3>4, <3>5
  <2>2. CASE Goto(u, "read", "returned") /\ UNCHANGED <<nRead, record>>
    <3>1. /\ Moves(u, "read", "returned") /\ nRead' \in [Files -> Nat] /\ record' = record
          /\ record \in [A -> RecordSet]
      BY <1>1, <2>2, GotoMoves DEF Typed
    <3> QED BY <3>1
  <2> QED BY <2>1, <2>2 DEF ReadRecord
<1>4. /\ queue' = queue /\ isDone' = isDone /\ fill' = fill /\ empty' = empty /\ cs' = cs
      /\ file' = file /\ extractedValue' = extractedValue /\ output' = output
      /\ csFileOpening' = csFileOpening /\ hashOpenedFileA' = hashOpenedFileA
  BY DEF ReadRecord, shared
<1>5. Typed'
  BY <1>1, <1>3, <1>4 DEF Typed, Moves
<1>6. InHand'
  <2>1. OpenedAt(u)'
    BY <1>2, <1>3, <1>4 DEF OpenedAt, Moves
  <2> QED BY <1>1, <1>3, <1>4, <2>1, HandsKept
<1>7. \A d \in Stages : StageOK(d)'
  <2>1. {"read", l} \cap (PutLabels \cup GetLabels) = {}
    BY DEF PutLabels, GetLabels
  <2>2. UNCHANGED shared
    BY <1>4 DEF shared
  <2> QED BY <1>1, <1>3, <2>1, <2>2, OutsideKeeps
<1>8. WakesWhenDone'
  BY <1>1, <1>3, <1>4, WakesKept
<1> QED BY <1>5, <1>6, <1>7, <1>8 DEF IInv

LEMMA InsertReadKeeps ==
    ASSUME IInv, NEW u \in A, InsertRead(u)
    PROVE  IInv'
<1>1. /\ Typed /\ u \in Threads /\ u \in Places /\ u \notin B /\ u \notin C
      /\ "AB" \in Stages /\ u \in Putter("AB") /\ pc[u] = "put"
  BY Kinds DEF IInv, InsertRead, Goto
<1>2. Moves(u, "put", "leavePut") /\ record[u] \in Read /\ file[u] \in Files
  BY <1>1, GotoMoves DEF IInv, InHand, OpenedAt, InsertRead
<1>3. PICK q \in Files : insert("AB", q, record[u])
  BY DEF InsertRead
<1>4. UNCHANGED <<fill, empty, cs, isDone>> /\ UNCHANGED <<input, extractedValue, output>>
  BY DEF InsertRead
<1>5. /\ queue' \in QueueMap
      /\ \A f \in Files, k \in Slots :
            queue["AB"][f].buffer[k] \in Read => queue'["AB"][f].buffer[k] \in Read
  BY <1>1, <1>2, <1>3, InsertFills
<1>6. Typed'
  BY <1>1, <1>2, <1>4, <1>5 DEF Typed, Moves, QueueMap, input
<1>7. InHand'
  <2>1. OpenedAt(u)' /\ file' = file /\ record' = record /\ extractedValue' = extractedValue
    BY <1>2, <1>4 DEF OpenedAt, Moves, input
  <2> QED BY <1>1, <1>2, <1>5, <2>1, HandsKept
<1>8. \A d \in Stages : StageOK(d)'
  BY <1>1, <1>2, <1>3, <1>4, InsertKeeps
<1>9. WakesWhenDone'
  BY <1>1, <1>2, <1>4, WakesKept
<1> QED BY <1>6, <1>7, <1>8, <1>9 DEF IInv

LEMMA InsertExtractedKeeps ==
    ASSUME IInv, NEW u \in B, InsertExtracted(u)
    PROVE  IInv'
<1>1. /\ Typed /\ u \in Threads /\ u \in Places /\ u \notin A /\ u \notin C
      /\ "BC" \in Stages /\ u \in Putter("BC") /\ pc[u] = "put"
  BY Kinds DEF IInv, InsertExtracted, Goto
<1>2. Moves(u, "put", "leavePut") /\ Target("AB", extractedValue[u]) \in Read
  BY <1>1, GotoMoves DEF IInv, InHand, PointsAt, InsertExtracted
<1>3. PICK q \in Files : insert("BC", q, Target("AB", extractedValue[u]))
  BY DEF InsertExtracted
<1>4. /\ UNCHANGED <<fill, empty, cs, isDone>> /\ UNCHANGED <<input, output>>
      /\ extractedValue' = [extractedValue EXCEPT ![u] = <<>>]
  BY DEF InsertExtracted
<1>5. /\ queue' \in QueueMap
      /\ \A f \in Files, k \in Slots :
            queue["AB"][f].buffer[k] \in Read => queue'["AB"][f].buffer[k] \in Read
  BY <1>1, <1>2, <1>3, InsertFills
<1>6. /\ extractedValue' \in [B \cup C -> {<<>>} \cup (Files \X Slots)]
      /\ \A v \in (B \cup C) \ {u} : extractedValue'[v] = extractedValue[v]
  BY <1>1, <1>4 DEF Typed
<1>7. Typed'
  BY <1>1, <1>2, <1>4, <1>5, <1>6 DEF Typed, Moves, QueueMap, input
<1>8. InHand'
  <2>1. PointsAt(u)' /\ file' = file /\ record' = record
    BY <1>2, <1>4 DEF PointsAt, Moves, input
  <2> QED BY <1>1, <1>2, <1>5, <1>6, <2>1, HandsKept
<1>9. \A d \in Stages : StageOK(d)'
  BY <1>1, <1>2, <1>3, <1>4, InsertKeeps
<1>10. WakesWhenDone'
  BY <1>1, <1>2, <1>4, WakesKept
<1> QED BY <1>7, <1>8, <1>9, <1>10 DEF IInv

LEMMA ExtractSteps ==
    ASSUME IInv, NEW c \in Stages, NEW u \in Getter(c), Extract(u, c)
    PROVE  IInv'
<1>1. /\ Typed /\ u \in Threads /\ u \in Places /\ u \notin A /\ u \in B \cup C
      /\ (u \in B => c = "AB" /\ u \notin C) /\ (u \in C => c = "BC")
  BY Kinds DEF IInv
<1>2. PICK q \in Files, s \in Slots :
         /\ extractedValue' = [extractedValue EXCEPT ![u] = <<q, s>>]
         /\ c = "AB" => queue'["AB"][q].buffer[s] \in Read
  BY ExtractKeeps
<1>3. /\ queue' \in QueueMap /\ \A d \in Stages : StageOK(d)'
      /\ \A f \in Files, k \in Slots :
            queue["AB"][f].buffer[k] \in Read => queue'["AB"][f].buffer[k] \in Read
  BY ExtractKeeps
<1>4. PICK l \in {"leaveGet", "write"} :
         Moves(u, "extract", l) /\ l = IF u \in B THEN "leaveGet" ELSE "write"
  BY ExtractKeeps
<1>5. UNCHANGED <<fill, empty, cs, isDone>> /\ UNCHANGED <<input, output>>
  BY DEF Extract
<1>6. /\ extractedValue' \in [B \cup C -> {<<>>} \cup (Files \X Slots)]
      /\ extractedValue'[u] = <<q, s>>
      /\ \A v \in (B \cup C) \ {u} : extractedValue'[v] = extractedValue[v]
  BY <1>1, <1>2 DEF Typed
<1>7. Typed'
  BY <1>1, <1>3, <1>4, <1>5, <1>6 DEF Typed, Moves, QueueMap, input
<1>8. InHand'
  <2>1. ASSUME u \in B PROVE PointsAt(u)'
    BY <1>1, <1>2, <1>6, <2>1 DEF PointsAt, Target
  <2>2. ASSUME u \in C PROVE WritesAt(u)'
    BY <1>6 DEF WritesAt
  <2>3. file' = file /\ record' = record
    BY <1>5 DEF input
  <2> QED BY <1>1, <1>3, <1>4, <1>6, <2>1, <2>2, <2>3, HandsKept
<1>9. WakesWhenDone'
  BY <1>1, <1>4, <1>5, WakesKept
<1> QED BY <1>3, <1>7, <1>8, <1>9 DEF IInv

LEMMA WriteOutSteps ==
    ASSUME IInv, NEW u \in C, WriteOut(u)
    PROVE  IInv'
<1>1. /\ Typed /\ u \in Threads /\ u \in Places /\ u \notin A /\ u \notin B
      /\ pc[u] = "write" /\ UNCHANGED shared /\ UNCHANGED input
  BY Kinds DEF IInv, WriteOut, Goto
<1>2. PICK l \in {"leaveGet", "returned"} : Moves(u, "write", l)
  BY WriteOutKeeps
<1>3. extractedValue[u] \in Files \X Slots
  BY <1>1 DEF IInv, InHand, WritesAt
<1>4. Target("BC", extractedValue[u]) \in RecordSet
  <2>1. queue["BC"][extractedValue[u][1]] \in Rings /\ extractedValue[u][2] \in Slots
    BY <1>1, <1>3, Kinds DEF Typed
  <2> QED BY <2>1 DEF Target, Rings
<1>5. /\ output' \in Seq(RecordSet)
      /\ extractedValue' \in [B \cup C -> {<<>>} \cup (Files \X Slots)]
      /\ \A v \in (B \cup C) \ {u} : extractedValue'[v] = extractedValue[v]
  <2>1. /\ output \in Seq(RecordSet)
        /\ extractedValue \in [B \cup C -> {<<>>} \cup (Files \X Slots)]
    BY <1>1 DEF Typed
  <2>2. CASE output' = Append(output, Target("BC", extractedValue[u]))
             /\ extractedValue' = [extractedValue EXCEPT ![u] = <<>>]
    <3>1. output' \in Seq(RecordSet)
      BY <1>4, <2>1, <2>2
    <3>2. /\ extractedValue' \in [B \cup C -> {<<>>} \cup (Files \X Slots)]
          /\ \A v \in (B \cup C) \ {u} : extractedValue'[v] = extractedValue[v]
      BY <2>1, <2>2
    <3> QED BY <3>1, <3>2
  <2>3. CASE UNCHANGED <<output, extractedValue>>
    BY <2>1, <2>3
  <2> QED BY <2>2, <2>3 DEF WriteOut
<1>6. Typed'
  BY <1>1, <1>2, <1>5 DEF Typed, Moves, shared, input
<1>7. InHand'
  <2>1. WritesAt(u)' /\ file' = file /\ record' = record /\ queue' = queue
    BY <1>1, <1>2 DEF WritesAt, Moves, shared, input
  <2> QED BY <1>1, <1>2, <1>5, <2>1, HandsKept
<1>8. \A d \in Stages : StageOK(d)'
  BY WriteOutKeeps
<1>9. isDone' = isDone
  BY <1>1 DEF shared
<1>10. WakesWhenDone'
  BY <1>1, <1>2, <1>9, WakesKept
<1> QED BY <1>6, <1>7, <1>8, <1>10 DEF IInv

-----------------------------------------------------------------------------
(* The main thread *)

LEMMA MainKeeps ==
    ASSUME IInv, MainStep
    PROVE  IInv'
<1>1. /\ Typed /\ Main \in Places /\ Main \notin A /\ Main \notin B /\ Main \notin C
      /\ "AB" \in Stages /\ "BC" \in Stages
  BY Kinds DEF IInv
<1>2. PICK from \in {"joinA", "wakeB", "joinB", "wakeC", "joinC"},
           to \in {"wakeB", "joinB", "wakeC", "joinC", "end"} :
         /\ Goto(Main, from, to)
         /\ UNCHANGED <<empty, cs, queue>> /\ UNCHANGED <<input, extractedValue, output>>
         /\ isDone' \in [Stages -> BOOLEAN] /\ fill' \in [Stages -> 0 .. N]
         /\ to = "wakeB" => isDone'["AB"]
         /\ to = "wakeC" => isDone'["BC"]
  <2>1. isDone \in [Stages -> BOOLEAN] /\ fill \in [Stages -> 0 .. N] /\ N \in Nat
    BY <1>1, RingSize DEF Typed
  <2>2. CASE Join(A, "AB", "joinA", "wakeB")
    BY <1>1, <2>1, <2>2 DEF Join
  <2>3. CASE WakeAll("AB", "wakeB", "joinB")
    <3>1. fill' = [fill EXCEPT !["AB"] = IF @ + N <= N THEN @ + N ELSE @] /\ isDone' = isDone
      BY <2>3 DEF WakeAll
    <3>2. (IF fill["AB"] + N <= N THEN fill["AB"] + N ELSE fill["AB"]) \in 0 .. N
      BY <1>1, <2>1
    <3>3. fill' \in [Stages -> 0 .. N]
      BY <1>1, <2>1, <3>1, <3>2
    <3> QED BY <2>1, <2>3, <3>1, <3>3 DEF WakeAll
  <2>4. CASE Join(B, "BC", "joinB", "wakeC")
    BY <1>1, <2>1, <2>4 DEF Join
  <2>5. CASE WakeAll("BC", "wakeC", "joinC")
    <3>1. fill' = [fill EXCEPT !["BC"] = IF @ + N <= N THEN @ + N ELSE @] /\ isDone' = isDone
      BY <2>5 DEF WakeAll
    <3>2. (IF fill["BC"] + N <= N THEN fill["BC"] + N ELSE fill["BC"]) \in 0 .. N
      BY <1>1, <2>1
    <3>3. fill' \in [Stages -> 0 .. N]
      BY <1>1, <2>1, <3>1, <3>2
    <3> QED BY <2>1, <2>5, <3>1, <3>3 DEF WakeAll
  <2>6. CASE JoinLast
    BY <2>1, <2>6 DEF JoinLast, shared
  <2> QED BY <2>2, <2>3, <2>4, <2>5, <2>6 DEF MainStep
<1>3. Moves(Main, from, to)
  BY <1>1, <1>2, GotoMoves
<1>4. Typed'
  BY <1>1, <1>2, <1>3 DEF Typed, Moves, input
<1>5. InHand'
  <2>1. file' = file /\ record' = record /\ queue' = queue /\ extractedValue' = extractedValue
    BY <1>2 DEF input
  <2> QED BY <1>1, <1>3, <2>1, HandsKept
<1>6. WakesWhenDone'
  BY <1>2, <1>3 DEF WakesWhenDone, Moves
<1>7. \A d \in Stages : StageOK(d)'
  <2>1. CASE Join(A, "AB", "joinA", "wakeB")
    BY <1>1, <2>1, JoinKeeps, Kinds
  <2>2. CASE WakeAll("AB", "wakeB", "joinB")
    <3>1. isDone["AB"]
      BY <2>2 DEF IInv, WakesWhenDone, WakeAll, Goto
    <3> QED BY <1>1, <2>2, <3>1, WakeAllKeeps
  <2>3. CASE Join(B, "BC", "joinB", "wakeC")
    BY <1>1, <2>3, JoinKeeps, Kinds
  <2>4. CASE WakeAll("BC", "wakeC", "joinC")
    <3>1. isDone["BC"]
      BY <2>4 DEF IInv, WakesWhenDone, WakeAll, Goto
    <3> QED BY <1>1, <2>4, <3>1, WakeAllKeeps
  <2>5. CASE JoinLast
    <3>1. Moves(Main, "joinC", "end") /\ UNCHANGED shared
      BY <1>1, <2>5, GotoMoves DEF JoinLast
    <3> QED BY <1>1, <3>1, OutsideKeeps
  <2> QED BY <2>1, <2>2, <2>3, <2>4, <2>5 DEF MainStep
<1> QED BY <1>4, <1>5, <1>6, <1>7 DEF IInv

-----------------------------------------------------------------------------
(* The threads *)

LEMMA AWorks ==
    ASSUME IInv, NEW u \in A, ThAWork(u)
    PROVE  IInv'
<1>1. /\ Typed /\ u \in Threads /\ u \notin B /\ "AB" \in Stages /\ u \in Putter("AB")
  BY Kinds DEF IInv
<1>2. CASE OpenFile(u)
  BY <1>2, OpenFileKeeps
<1>3. CASE ReadRecord(u)
  BY <1>3, ReadRecordKeeps
<1>4. CASE WaitEmpty(u, "AB")
  <2>1. Quiet(u, "waitEmpty", "enterPut") /\ \A d \in Stages : StageOK(d)'
    BY <1>1, <1>4, QuietSteps, WaitEmptyKeeps
  <2> QED BY <1>1, <2>1, QuietKeeps
<1>5. CASE EnterCS(u, "AB", "enterPut", "put")
  <2>1. Quiet(u, "enterPut", "put") /\ \A d \in Stages : StageOK(d)'
    BY <1>1, <1>5, QuietSteps, EnterPutKeeps
  <2> QED BY <1>1, <2>1, QuietKeeps
<1>6. CASE InsertRead(u)
  BY <1>6, InsertReadKeeps
<1>7. CASE LeaveCS(u, "AB", "leavePut", "releaseFill")
  <2>1. Quiet(u, "leavePut", "releaseFill") /\ \A d \in Stages : StageOK(d)'
    BY <1>1, <1>7, QuietSteps, LeavePutKeeps
  <2> QED BY <1>1, <2>1, QuietKeeps
<1>8. CASE ReleaseFill(u, "AB", "read")
  <2>1. Quiet(u, "releaseFill", "read") \/ Quiet(u, "releaseFill", "returned")
    BY <1>1, <1>8, QuietSteps
  <2>2. \A d \in Stages : StageOK(d)'
    BY <1>1, <1>8, ReleaseFillKeeps
  <2>3. CASE Quiet(u, "releaseFill", "read")
    BY <1>1, <2>2, <2>3, QuietKeeps
  <2>4. CASE Quiet(u, "releaseFill", "returned")
    BY <1>1, <2>2, <2>4, QuietKeeps
  <2> QED BY <2>1, <2>3, <2>4
<1> QED BY <1>2, <1>3, <1>4, <1>5, <1>6, <1>7, <1>8 DEF ThAWork

LEMMA BWorks ==
    ASSUME IInv, NEW u \in B, ThBWork(u)
    PROVE  IInv'
<1>1. /\ Typed /\ u \in Threads /\ u \notin A /\ Stages = {"AB", "BC"}
      /\ u \in Getter("AB") /\ u \in Putter("BC")
  BY Kinds DEF IInv
<1>2. CASE WaitFill(u, "AB")
  <2>1. Quiet(u, "waitFill", "check") /\ \A d \in Stages : StageOK(d)'
    BY <1>1, <1>2, QuietSteps, WaitFillKeeps
  <2> QED BY <1>1, <2>1, QuietKeeps
<1>3. CASE CheckDone(u, "AB")
  <2>1. Quiet(u, "check", "returned") \/ Quiet(u, "check", "enterGet")
    BY <1>1, <1>3, QuietSteps
  <2>2. \A d \in Stages : StageOK(d)'
    BY <1>1, <1>3, CheckDoneKeeps
  <2>3. CASE Quiet(u, "check", "returned")
    BY <1>1, <2>2, <2>3, QuietKeeps
  <2>4. CASE Quiet(u, "check", "enterGet")
    BY <1>1, <2>2, <2>4, QuietKeeps
  <2> QED BY <2>1, <2>3, <2>4
<1>4. CASE EnterCS(u, "AB", "enterGet", "extract")
  <2>1. Quiet(u, "enterGet", "extract") /\ \A d \in Stages : StageOK(d)'
    BY <1>1, <1>4, QuietSteps, EnterGetKeeps
  <2> QED BY <1>1, <2>1, QuietKeeps
<1>5. CASE Extract(u, "AB")
  BY <1>1, <1>5, ExtractSteps
<1>6. CASE LeaveCS(u, "AB", "leaveGet", "releaseEmpty")
  <2>1. Quiet(u, "leaveGet", "releaseEmpty") /\ \A d \in Stages : StageOK(d)'
    BY <1>1, <1>6, QuietSteps, LeaveGetKeeps
  <2> QED BY <1>1, <2>1, QuietKeeps
<1>7. CASE ReleaseEmpty(u, "AB", "waitEmpty")
  <2>1. Quiet(u, "releaseEmpty", "waitEmpty") \/ Quiet(u, "releaseEmpty", "returned")
    BY <1>1, <1>7, QuietSteps
  <2>2. \A d \in Stages : StageOK(d)'
    BY <1>1, <1>7, ReleaseEmptyKeeps
  <2>3. CASE Quiet(u, "releaseEmpty", "waitEmpty")
    BY <1>1, <2>2, <2>3, QuietKeeps
  <2>4. CASE Quiet(u, "releaseEmpty", "returned")
    BY <1>1, <2>2, <2>4, QuietKeeps
  <2> QED BY <2>1, <2>3, <2>4
<1>8. CASE WaitEmpty(u, "BC")
  <2>1. Quiet(u, "waitEmpty", "enterPut") /\ \A d \in Stages : StageOK(d)'
    BY <1>1, <1>8, QuietSteps, WaitEmptyKeeps
  <2> QED BY <1>1, <2>1, QuietKeeps
<1>9. CASE EnterCS(u, "BC", "enterPut", "put")
  <2>1. Quiet(u, "enterPut", "put") /\ \A d \in Stages : StageOK(d)'
    BY <1>1, <1>9, QuietSteps, EnterPutKeeps
  <2> QED BY <1>1, <2>1, QuietKeeps
<1>10. CASE InsertExtracted(u)
  BY <1>10, InsertExtractedKeeps
<1>11. CASE LeaveCS(u, "BC", "leavePut", "releaseFill")
  <2>1. Quiet(u, "leavePut", "releaseFill") /\ \A d \in Stages : StageOK(d)'
    BY <1>1, <1>11, QuietSteps, LeavePutKeeps
  <2> QED BY <1>1, <2>1, QuietKeeps
<1>12. CASE ReleaseFill(u, "BC", "waitFill")
  <2>1. Quiet(u, "releaseFill", "waitFill") \/ Quiet(u, "releaseFill", "returned")
    BY <1>1, <1>12, QuietSteps
  <2>2. \A d \in Stages : StageOK(d)'
    BY <1>1, <1>12, ReleaseFillKeeps
  <2>3. CASE Quiet(u, "releaseFill", "waitFill")
    BY <1>1, <2>2, <2>3, QuietKeeps
  <2>4. CASE Quiet(u, "releaseFill", "returned")
    BY <1>1, <2>2, <2>4, QuietKeeps
  <2> QED BY <2>1, <2>3, <2>4
<1> QED BY <1>2, <1>3, <1>4, <1>5, <1>6, <1>7, <1>8, <1>9, <1>10, <1>11, <1>12 DEF ThBWork

LEMMA CWorks ==
    ASSUME IInv, NEW u \in C, ThCWork(u)
    PROVE  IInv'
<1>1. /\ Typed /\ u \in Threads /\ u \notin A /\ u \notin B /\ "BC" \in Stages
      /\ u \in Getter("BC")
  BY Kinds DEF IInv
<1>2. CASE WaitFill(u, "BC")
  <2>1. Quiet(u, "waitFill", "check") /\ \A d \in Stages : StageOK(d)'
    BY <1>1, <1>2, QuietSteps, WaitFillKeeps
  <2> QED BY <1>1, <2>1, QuietKeeps
<1>3. CASE CheckDone(u, "BC")
  <2>1. Quiet(u, "check", "returned") \/ Quiet(u, "check", "enterGet")
    BY <1>1, <1>3, QuietSteps
  <2>2. \A d \in Stages : StageOK(d)'
    BY <1>1, <1>3, CheckDoneKeeps
  <2> QED BY <1>1, <2>1, <2>2, QuietKeeps
<1>4. CASE EnterCS(u, "BC", "enterGet", "extract")
  <2>1. Quiet(u, "enterGet", "extract") /\ \A d \in Stages : StageOK(d)'
    BY <1>1, <1>4, QuietSteps, EnterGetKeeps
  <2> QED BY <1>1, <2>1, QuietKeeps
<1>5. CASE Extract(u, "BC")
  BY <1>1, <1>5, ExtractSteps
<1>6. CASE WriteOut(u)
  BY <1>6, WriteOutSteps
<1>7. CASE LeaveCS(u, "BC", "leaveGet", "releaseEmpty")
  <2>1. Quiet(u, "leaveGet", "releaseEmpty") /\ \A d \in Stages : StageOK(d)'
    BY <1>1, <1>7, QuietSteps, LeaveGetKeeps
  <2> QED BY <1>1, <2>1, QuietKeeps
<1>8. CASE ReleaseEmpty(u, "BC", "waitFill")
  <2>1. Quiet(u, "releaseEmpty", "waitFill") \/ Quiet(u, "releaseEmpty", "returned")
    BY <1>1, <1>8, QuietSteps
  <2>2. \A d \in Stages : StageOK(d)'
    BY <1>1, <1>8, ReleaseEmptyKeeps
  <2> QED BY <1>1, <2>1, <2>2, QuietKeeps
<1> QED BY <1>2, <1>3, <1>4, <1>5, <1>6, <1>7, <1>8 DEF ThCWork

-----------------------------------------------------------------------------
(* The program *)

LEMMA Starts ==
    ASSUME Init
    PROVE  IInv
<1>1. /\ \A t \in A : pc[t] = "open"
      /\ \A t \in B \cup C : pc[t] = "waitFill"
      /\ pc[Main] = "joinA" /\ pc = [t \in Places |-> pc[t]]
  BY Kinds DEF Init, Start, Places
<1>2. Typed
  <2>1. queue \in [Stages -> [Files -> Rings]]
    BY RingSize DEF Init, Rings, Slots, RecordSet
  <2>2. 0 \in 0 .. N /\ 1 \in 0 .. N
    BY RingSize
  <2>3. /\ fill \in [Stages -> 0 .. N] /\ empty \in [Stages -> 0 .. N]
        /\ file \in [A -> 0 .. N] /\ nRead \in [Files -> Nat]
    BY <2>2 DEF Init
  <2>4. record \in [A -> RecordSet] /\ output \in Seq(RecordSet)
    BY DEF Init, RecordSet
  <2> QED BY <1>1, <2>1, <2>3, <2>4 DEF Init, Typed
<1>3. InHand /\ WakesWhenDone
  BY <1>1, Kinds DEF InHand, OpenedAt, PointsAt, WritesAt, WakesWhenDone
<1>4. ASSUME NEW c \in Stages PROVE StageOK(c)
  <2>1. /\ empty[c] = 1 /\ fill[c] = 0 /\ cs[c] = NoOne /\ ~ isDone[c]
    BY DEF Init
  <2>2. Void(c)
    BY DEF Init, Void
  <2>3. \A t \in Threads : pc[t] \in {"open", "waitFill"}
    BY <1>1 DEF Threads
  <2>4. \A t \in Threads : ~ Holder(c, t)
    BY <2>3 DEF Holder, PutLabels, GetLabels
  <2>5. Running(c)
    BY <2>1, <2>2, <2>4 DEF Running
  <2>6. Sectioned(c)
    BY <2>1, <2>3, Ends DEF Sectioned
  <2> QED BY <2>1, <2>5, <2>6 DEF StageOK
<1> QED BY <1>2, <1>3, <1>4 DEF IInv

(* Every step of EXAMS/2016-07-01/main.cpp keeps the one permit of a running  *)
(* stage, and with it the one record, in one place.                           *)
THEOREM Inductive == Spec => []IInv
<1>1. Init => IInv
  BY Starts
<1>2. IInv /\ [Next]_vars => IInv'
  <2> SUFFICES ASSUME IInv, [Next]_vars PROVE IInv'
    OBVIOUS
  <2>1. CASE MainStep
    BY <2>1, MainKeeps
  <2>2. ASSUME NEW t \in Threads, Step(t) PROVE IInv'
    BY <2>2, AWorks, BWorks, CWorks DEF Step
  <2>3. CASE UNCHANGED vars
    <3>1. Typed' /\ WakesWhenDone'
      BY <2>3 DEF vars, IInv, Typed, WakesWhenDone
    <3>2. InHand'
      BY <2>3 DEF vars, IInv, InHand, OpenedAt, PointsAt, WritesAt, Target
    <3>3. ASSUME NEW c \in Stages PROVE StageOK(c)'
      <4>1. /\ Finished(c)' <=> Finished(c)
            /\ Sectioned(c)' <=> Sectioned(c)
        BY <2>3 DEF vars, Finished, Finding, Loaded, Sectioned, Holder
      <4>2. Running(c)' <=> Running(c)
        <5>1. /\ \A t \in Threads : (Holder(c, t)' <=> Holder(c, t))
                                  /\ (Carried(c, t)' <=> Carried(c, t))
              /\ Void(c)' <=> Void(c)
              /\ Loaded(c)' <=> Loaded(c)
              /\ empty' = empty /\ fill' = fill
          BY <2>3 DEF vars, Holder, Carried, Void, Loaded
        <5> QED BY <5>1 DEF Running
      <4>3. StageOK(c) /\ isDone' = isDone
        BY <2>3 DEF vars, IInv
      <4> QED BY <4>1, <4>2, <4>3 DEF StageOK
    <3> QED BY <3>1, <3>2, <3>3 DEF IInv
  <2> QED BY <2>1, <2>2, <2>3 DEF Next
<1> QED BY <1>1, <1>2, PTL DEF Spec

LEMMA OneHand ==
    ASSUME IInv, NEW c \in Stages, ~ isDone[c]
    PROVE  empty[c] + fill[c] + Cardinality(Putting(c)) + Cardinality(Getting(c)) = 1
<1>1. Running(c)
  BY DEF IInv, StageOK
<1>2. /\ Putting(c) = {t \in Threads : t \in Putter(c) /\ pc[t] \in PutLabels}
      /\ Getting(c) = {t \in Threads : t \in Getter(c) /\
            (pc[t] \in GetLabels \/ (cs[c] = t /\ pc[t] = "returned"))}
  BY Ends DEF Putting, Getting, Putter, Getter, PutLabels, GetLabels
<1>3. /\ \A t \in Threads : Holder(c, t) <=> t \in Putting(c) \cup Getting(c)
      /\ Putting(c) \cap Getting(c) = {} /\ Putting(c) \cup Getting(c) \subseteq Threads
  BY <1>2, Ends DEF Holder
<1>4. Cardinality({}) = 0 /\ \A t : Cardinality({t}) = 1
  BY FS_EmptySet, FS_Singleton
<1>5. CASE \A t \in Threads : ~ Holder(c, t)
  <2>1. Putting(c) = {} /\ Getting(c) = {}
    BY <1>3, <1>5
  <2>2. empty[c] + fill[c] = 1
    BY <1>1, <1>5 DEF Running
  <2> QED BY <1>4, <2>1, <2>2
<1>6. ASSUME NEW t \in Threads, Holder(c, t)
      PROVE  empty[c] + fill[c] + Cardinality(Putting(c)) + Cardinality(Getting(c)) = 1
  <2>1. empty[c] = 0 /\ fill[c] = 0 /\ \A u \in Threads : Holder(c, u) => u = t
    BY <1>1, <1>6, HolderAlone
  <2>2. \/ Putting(c) = {t} /\ Getting(c) = {}
        \/ Putting(c) = {} /\ Getting(c) = {t}
    BY <1>3, <1>6, <2>1
  <2>3. \/ Cardinality(Putting(c)) = 1 /\ Cardinality(Getting(c)) = 0
        \/ Cardinality(Putting(c)) = 0 /\ Cardinality(Getting(c)) = 1
    BY <1>4, <2>2
  <2> QED BY <2>1, <2>3
<1> QED BY <1>5, <1>6

(* emptyAB and emptyBC of EXAMS/2016-07-01/main.cpp start at 1: until a stage *)
(* is shut down one permit goes round in it, whatever the number of threads.  *)
THEOREM PermitAlone == Spec => []OnePermit
<1>1. IInv => OnePermit
  BY OneHand DEF OnePermit
<1> QED BY <1>1, Inductive, PTL

(* A thread B or C of EXAMS/2016-07-01/main.cpp that has come to the loop over *)
(* randomly drawn queues has one to find that is not empty, before and after  *)
(* the shutdown: it does not spin in the critical section over empty queues.  *)
THEOREM LoopsEnd == Spec => []ExtractFinds
<1>1. ASSUME IInv PROVE ExtractFinds
  <2>1. TypeOK
    <3>1. Typed
      BY <1>1 DEF IInv
    <3>2. \A c \in Stages, q \in Files : queue[c][q] \in Rings
      BY <3>1 DEF Typed
    <3>3. \A c \in Stages, q \in Files :
             /\ {queue[c][q].read, queue[c][q].write} \subseteq 0 .. QSize - 1
             /\ queue[c][q].buffer \in [0 .. QSize - 1 -> RecordSet]
      BY <3>2 DEF Rings, Slots
    <3> QED BY <3>1, <3>3 DEF Typed, TypeOK, Slots
  <2>2. ASSUME NEW c \in Stages, NEW t \in Getting(c), pc[t] = "extract"
        PROVE  NonEmpty(c) # {}
    <3>1. t \in Getter(c)
      BY DEF Getting, Getter
    <3> QED BY <1>1, <2>2, <3>1, SomethingToExtract
  <2> QED BY <2>1, <2>2 DEF ExtractFinds
<1> QED BY <1>1, Inductive, PTL

-----------------------------------------------------------------------------
(* Records, as long as no ring has turned *)

Cells == Files \X Slots
Filled(c) == {p \in Cells : Target(c, p) # NoRecord}

(* The cell of a record that is queued and not taken out yet.                 *)
Waiting(c, p) == queue[c][p[1]].read = p[2] /\ queue[c][p[1]].write # p[2]

Carries(t) == pc[t] \in {"waitEmpty", "enterPut", "put"}
Holds(t) == pc[t] \in {"leaveGet", "releaseEmpty", "waitEmpty", "enterPut", "put"}
Writes(t) == pc[t] = "write"

(* A record is in one cell of a stage, and was read.                          *)
OnceQueued ==
    \A c \in Stages : \A p \in Filled(c) :
        /\ Target(c, p).id \in WasRead
        /\ \A o \in Filled(c) : Target(c, o).id = Target(c, p).id => o = p

(* What an A brings is in no cell, and no other A has it.                     *)
Brought(t) ==
    Carries(t) =>
        /\ record[t].id \in WasRead
        /\ \A c \in Stages : \A p \in Filled(c) : Target(c, p).id # record[t].id
        /\ \A u \in A \ {t} : Carries(u) => record[u].id # record[t].id

(* The cells of a ring are filled one after the other.                        *)
FilledInTurn ==
    \A c \in Stages, q \in Files :
        LET w == queue[c][q].write IN
        \/ \A k \in Slots : <<q, k>> \in Filled(c) <=> k < w
        \/ w = 0 /\ \A k \in Slots : <<q, k>> \in Filled(c)

WaitingFilled == \A c \in Stages : \A p \in Cells : Waiting(c, p) => p \in Filled(c)

(* What a B points to is its own, turned to upper case, and not passed on.    *)
Held(t) ==
    Holds(t) =>
        /\ extractedValue[t] \in Filled("AB") /\ ~ Waiting("AB", extractedValue[t])
        /\ Target("AB", extractedValue[t]).upper
        /\ \A p \in Filled("BC") : Target("BC", p).id # Target("AB", extractedValue[t]).id
        /\ \A u \in B \ {t} : Holds(u) => extractedValue[u] # extractedValue[t]

PassedOn ==
    \A p \in Filled("BC") :
        /\ Target("BC", p).upper
        /\ \A o \in Filled("AB") : Waiting("AB", o) => Target("AB", o).id # Target("BC", p).id

(* What a C points to is its own, and not written.                            *)
ToWrite(t) ==
    Writes(t) =>
        /\ extractedValue[t] \in Filled("BC") /\ ~ Waiting("BC", extractedValue[t])
        /\ \A i \in DOMAIN output : output[i].id # Target("BC", extractedValue[t]).id
        /\ \A u \in C \ {t} : Writes(u) => extractedValue[u] # extractedValue[t]

(* What is written was passed on, and taken out.                              *)
WrittenOnce ==
    /\ \A i \in DOMAIN output :
          /\ output[i].upper
          /\ \E p \in Filled("BC") : ~ Waiting("BC", p) /\ Target("BC", p).id = output[i].id
          /\ \A j \in DOMAIN output : output[j].id = output[i].id => j = i

Tracked ==
    /\ OnceQueued /\ FilledInTurn /\ WaitingFilled /\ PassedOn /\ WrittenOnce
    /\ \A t \in A : Brought(t)
    /\ \A t \in B : Held(t)
    /\ \A t \in C : ToWrite(t)

Unturned == Cardinality(WasRead) <= QSize

-----------------------------------------------------------------------------
(* Counting what was read *)

LEMMA IdsFinite == IsFiniteSet(Ids)
<1> DEFINE Of(f) == {f} \X (0 .. Records[f] - 1)
           S == {Of(f) : f \in Files}
           g == [f \in Files |-> Of(f)]
<1>1. IsFiniteSet(Files)
  BY RingSize, FS_Interval DEF Files
<1>2. g \in Surjection(Files, S)
  BY DEF Surjection, Range
<1>3. IsFiniteSet(S)
  <2> HIDE DEF S, g
  <2> QED BY <1>1, <1>2, FS_Surjection
<1>4. ASSUME NEW T \in S PROVE IsFiniteSet(T)
  <2>1. PICK f \in Files : T = {f} \X (0 .. Records[f] - 1)
    OBVIOUS
  <2>2. IsFiniteSet({f})
    BY FS_Singleton
  <2>3. Records[f] - 1 \in Int
    BY PipelineAssumption
  <2>4. IsFiniteSet(0 .. Records[f] - 1)
    BY <2>3, FS_Interval
  <2> QED BY <2>1, <2>2, <2>4, FS_Product
<1>5. IsFiniteSet(UNION S)
  <2> HIDE DEF S
  <2> QED BY <1>3, <1>4, FS_UNION
<1> QED BY <1>5 DEF Ids

LEMMA ReadFinite ==
    /\ IsFiniteSet(WasRead) /\ Cardinality(WasRead) \in Nat
<1>1. WasRead \in SUBSET Ids
  BY DEF WasRead
<1> QED BY <1>1, IdsFinite, FS_Subset, FS_CardinalityType

(* Reading on does not make the number of records read smaller.               *)
LEMMA ReadGrows ==
    ASSUME nRead \in [Files -> Nat], nRead' \in [Files -> Nat],
           \A f \in Files : nRead[f] <= nRead'[f]
    PROVE  WasRead \subseteq WasRead' /\ (Unturned' => Unturned)
<1>1. \A x \in Ids : x[1] \in Files /\ x[2] \in Nat
  BY PipelineAssumption DEF Ids
<1>2. WasRead \subseteq WasRead'
  BY <1>1 DEF WasRead
<1>3. IsFiniteSet(WasRead')
  <2>1. WasRead' \in SUBSET Ids
    BY DEF WasRead
  <2> QED BY <2>1, IdsFinite, FS_Subset
<1>4. Cardinality(WasRead) <= Cardinality(WasRead') /\ Cardinality(WasRead') \in Nat
  BY <1>2, <1>3, FS_Subset, FS_CardinalityType
<1> QED BY <1>2, <1>4, ReadFinite, RingSize DEF Unturned

-----------------------------------------------------------------------------
(* Cells *)

LEMMA CellFacts ==
    ASSUME Typed, NEW c \in Stages, NEW f \in Files, NEW k \in Slots
    PROVE  /\ <<f, k>> \in Cells /\ Target(c, <<f, k>>) = queue[c][f].buffer[k]
           /\ Target(c, <<f, k>>) \in RecordSet
           /\ Waiting(c, <<f, k>>) <=> queue[c][f].read = k /\ queue[c][f].write # k
           /\ queue[c][f].read \in Slots /\ queue[c][f].write \in Slots
           /\ <<f, k>> \in Filled(c) <=> Target(c, <<f, k>>) # NoRecord
BY DEF Typed, Rings, Cells, Target, Waiting, Filled

LEMMA CellPairs ==
    ASSUME NEW p \in Cells
    PROVE  p[1] \in Files /\ p[2] \in Slots /\ p = <<p[1], p[2]>>
BY DEF Cells

(* What is in a filled cell is a record.                                      *)
LEMMA FilledRead ==
    ASSUME Typed, NEW c \in Stages, NEW p \in Filled(c)
    PROVE  p \in Cells /\ Target(c, p) \in Read
<1>1. p \in Cells /\ Target(c, p) # NoRecord
  BY DEF Filled
<1>2. Target(c, p) \in RecordSet
  BY <1>1, CellFacts, CellPairs
<1> QED BY <1>1, <1>2 DEF RecordSet, Read

LEMMA ReadNotNone == NoRecord \notin Read
BY PipelineAssumption DEF Read

(* Another record fits in a ring, whichever it is put into.                   *)
LEMMA RoomLeft ==
    ASSUME Typed, NEW c \in Stages, NEW q \in Files, OnceQueued, FilledInTurn, Unturned,
           NEW id \in WasRead, \A p \in Filled(c) : Target(c, p).id # id
    PROVE  \A k \in Slots : <<q, k>> \in Filled(c) <=> k < queue[c][q].write
<1> SUFFICES ASSUME \A k \in Slots : <<q, k>> \in Filled(c)
             PROVE  FALSE
  BY DEF FilledInTurn
<1> DEFINE g == [k \in Slots |-> Target(c, <<q, k>>).id]
<1>1. g \in [Slots -> WasRead \ {id}]
  BY DEF OnceQueued
<1>2. ASSUME NEW k \in Slots, NEW j \in Slots, g[k] = g[j] PROVE k = j
  <2>1. Target(c, <<q, k>>).id = Target(c, <<q, j>>).id
    BY <1>2
  <2>2. <<q, k>> = <<q, j>>
    BY <2>1 DEF OnceQueued
  <2> QED BY <2>2
<1>3. g \in Injection(Slots, WasRead \ {id})
  <2> HIDE DEF g
  <2> QED BY <1>1, <1>2 DEF Injection, IsInjective
<1>4. /\ IsFiniteSet(WasRead \ {id})
      /\ Cardinality(WasRead \ {id}) = Cardinality(WasRead) - 1
  BY ReadFinite, FS_RemoveElement
<1>5. Cardinality(Slots) <= Cardinality(WasRead \ {id})
  <2> HIDE DEF g
  <2> QED BY <1>3, <1>4, FS_Injection
<1>6. Cardinality(Slots) = QSize
  <2>1. 0 \in Int /\ QSize - 1 \in Int /\ ~ (0 > QSize - 1) /\ QSize - 1 - 0 + 1 = QSize
    BY RingSize
  <2> QED BY <2>1, FS_Interval DEF Slots
<1> QED BY <1>4, <1>5, <1>6, ReadFinite, RingSize DEF Unturned

(* What an insertion does to the cells: a new one is filled, and waits.       *)
CellAdded(c, p, rec) ==
    /\ p \in Cells \ Filled(c) /\ Filled(c)' = Filled(c) \cup {p}
    /\ Target(c, p)' = rec
    /\ \A o \in Filled(c) : Target(c, o)' = Target(c, o)
    /\ \A o \in Cells : Waiting(c, o)' <=> o = p
    /\ \A d \in Stages \ {c} :
          /\ Filled(d)' = Filled(d)
          /\ \A o \in Cells : Target(d, o)' = Target(d, o) /\ (Waiting(d, o)' <=> Waiting(d, o))

LEMMA InsertTracks ==
    ASSUME Typed, Typed', NEW c \in Stages, NEW q \in Files, NEW w \in Slots, NEW rec \in Read,
           InsertedAt(c, q, w, rec), Void(c), nRead' = nRead,
           OnceQueued, FilledInTurn, WaitingFilled, Unturned,
           rec.id \in WasRead, \A p \in Filled(c) : Target(c, p).id # rec.id
    PROVE  CellAdded(c, <<q, w>>, rec) /\ OnceQueued' /\ FilledInTurn' /\ WaitingFilled'
<1> DEFINE new == <<q, w>>
<1>1. \A k \in Slots : <<q, k>> \in Filled(c) <=> k < w
  BY RoomLeft DEF InsertedAt
<1>2. new \in Cells \ Filled(c)
  BY <1>1, CellFacts, RingSize
<1>3. \A f \in Files, k \in Slots :
         Target(c, <<f, k>>)' = IF f = q /\ k = w THEN rec ELSE Target(c, <<f, k>>)
  BY CellFacts, CellFacts DEF InsertedAt, Target
<1>4. \A o \in Cells : Target(c, o)' = IF o = new THEN rec ELSE Target(c, o)
  BY <1>3, CellPairs
<1>5. Filled(c)' = Filled(c) \cup {new}
  BY <1>2, <1>4, ReadNotNone DEF Filled
<1>6. ASSUME NEW o \in Cells PROVE Waiting(c, o)' <=> o = new
  <2>1. o[1] \in Files /\ o[2] \in Slots /\ o = <<o[1], o[2]>>
    BY CellPairs
  <2>2. queue[c][o[1]].read = queue[c][o[1]].write /\ queue[c][q].read = w
    BY <2>1 DEF Void, InsertedAt
  <2>3. (w + 1) % QSize # w
    BY RingSize
  <2> QED BY <2>1, <2>2, <2>3 DEF Waiting, InsertedAt
<1>7. ASSUME NEW d \in Stages \ {c}
      PROVE  /\ Filled(d)' = Filled(d)
             /\ \A o \in Cells : Target(d, o)' = Target(d, o) /\ (Waiting(d, o)' <=> Waiting(d, o))
  BY DEF InsertedAt, Filled, Target, Waiting
<1>8. CellAdded(c, new, rec)
  <2> HIDE DEF new
  <2> QED BY <1>2, <1>4, <1>5, <1>6, <1>7 DEF CellAdded, Filled
<1>9. WasRead' = WasRead
  BY DEF WasRead
<1>10. OnceQueued'
  <2>1. ASSUME NEW d \in Stages, NEW p \in Filled(d)', NEW o \in Filled(d)'
        PROVE  /\ Target(d, p)'.id \in WasRead'
               /\ Target(d, o)'.id = Target(d, p)'.id => o = p
    <3>1. CASE d # c
      <4>1. p \in Filled(d) /\ o \in Filled(d) /\ p \in Cells /\ o \in Cells
        BY <1>7, <3>1 DEF Filled
      <4>2. Target(d, p)' = Target(d, p) /\ Target(d, o)' = Target(d, o)
        BY <1>7, <3>1, <4>1
      <4> QED BY <1>9, <4>1, <4>2 DEF OnceQueued
    <3>2. CASE d = c
      <4> HIDE DEF new
      <4>1. \A x \in Filled(c)' : \/ x = new /\ Target(c, x)' = rec
                                  \/ x \in Filled(c) /\ Target(c, x)' = Target(c, x)
        BY <1>8 DEF CellAdded
      <4>2. \/ p = new /\ Target(c, p)' = rec
            \/ p \in Filled(c) /\ Target(c, p)' = Target(c, p)
        BY <3>2, <4>1
      <4>3. \/ o = new /\ Target(c, o)' = rec
            \/ o \in Filled(c) /\ Target(c, o)' = Target(c, o)
        BY <3>2, <4>1
      <4> QED BY <1>9, <3>2, <4>2, <4>3 DEF OnceQueued
    <3> QED BY <3>1, <3>2
  <2> QED BY <2>1 DEF OnceQueued
<1>11. FilledInTurn'
  <2>1. ASSUME NEW d \in Stages, NEW f \in Files, d # c \/ f # q
        PROVE  /\ queue'[d][f].write = queue[d][f].write
               /\ \A k \in Slots : <<f, k>> \in Filled(d)' <=> <<f, k>> \in Filled(d)
    <3>1. CASE d # c
      BY <1>7, <3>1 DEF InsertedAt
    <3>2. CASE d = c
      BY <1>5, <2>1, <3>2 DEF InsertedAt
    <3> QED BY <3>1, <3>2
  <2>2. \A k \in Slots : <<q, k>> \in Filled(c)' <=> k <= w
    <3>1. \A k \in Slots : <<q, k>> \in Filled(c)' <=> k < w \/ k = w
      BY <1>1, <1>5
    <3> QED BY <3>1, RingSize
  <2>3. \/ \A k \in Slots : <<q, k>> \in Filled(c)' <=> k < queue'[c][q].write
        \/ queue'[c][q].write = 0 /\ \A k \in Slots : <<q, k>> \in Filled(c)'
    <3>1. queue'[c][q].write = (w + 1) % QSize
      BY DEF InsertedAt
    <3>2. CASE w + 1 = QSize
      <4>1. queue'[c][q].write = 0
        BY <3>1, <3>2, RingSize
      <4>2. \A k \in Slots : k <= w
        BY <3>2, RingSize DEF Slots
      <4> QED BY <2>2, <4>1, <4>2
    <3>3. CASE w + 1 # QSize
      <4>1. w \in 0 .. QSize - 1 /\ QSize \in Nat
        BY RingSize DEF Slots
      <4>2. queue'[c][q].write = w + 1
        BY <3>1, <3>3, <4>1
      <4> QED BY <2>2, <4>2, RingSize
    <3> QED BY <3>2, <3>3
  <2>4. ASSUME NEW d \in Stages, NEW f \in Files
        PROVE  \/ \A k \in Slots : <<f, k>> \in Filled(d)' <=> k < queue'[d][f].write
               \/ queue'[d][f].write = 0 /\ \A k \in Slots : <<f, k>> \in Filled(d)'
    <3>1. CASE d = c /\ f = q
      BY <2>3, <3>1
    <3>2. CASE d # c \/ f # q
      <4>1. \/ \A k \in Slots : <<f, k>> \in Filled(d) <=> k < queue[d][f].write
            \/ queue[d][f].write = 0 /\ \A k \in Slots : <<f, k>> \in Filled(d)
        BY DEF FilledInTurn
      <4> QED BY <2>1, <3>2, <4>1
    <3> QED BY <3>1, <3>2
  <2> QED BY <2>4 DEF FilledInTurn
<1>12. WaitingFilled'
  <2>1. ASSUME NEW d \in Stages, NEW p \in Cells, Waiting(d, p)' PROVE p \in Filled(d)'
    BY <1>5, <1>6, <1>7, <2>1 DEF WaitingFilled
  <2> QED BY <2>1 DEF WaitingFilled, Cells
<1> QED BY <1>8, <1>10, <1>11, <1>12

(* What an extraction does to the cells: a record that waited does no more.   *)
CellTaken(c, p) ==
    /\ p \in Filled(c) /\ Waiting(c, p)
    /\ Target(c, p)' = Rewritten(c, Target(c, p)) /\ Target(c, p)'.id = Target(c, p).id
    /\ \A d \in Stages :
          /\ Filled(d)' = Filled(d)
          /\ \A o \in Cells : d # c \/ o # p => Target(d, o)' = Target(d, o)
          /\ \A o \in Filled(d) : Target(d, o)'.id = Target(d, o).id
          /\ \A o \in Cells : Waiting(d, o)' <=> Waiting(d, o) /\ d # c

LEMMA TakeTracks ==
    ASSUME Typed, Typed', NEW c \in Stages, NEW q \in Files, NEW s \in Slots, TakenFrom(c, q, s),
           queue[c][q].write = (s + 1) % QSize,
           \A o \in Files \ {q} : queue[c][o].read = queue[c][o].write,
           queue[c][q].buffer[s] \in Read, nRead' = nRead,
           OnceQueued, FilledInTurn, WaitingFilled
    PROVE  CellTaken(c, <<q, s>>) /\ OnceQueued' /\ FilledInTurn' /\ WaitingFilled'
<1> DEFINE p == <<q, s>>
<1>1. p \in Cells /\ Target(c, p) \in Read /\ Waiting(c, p)
  <2>1. (s + 1) % QSize # s
    BY RingSize
  <2> QED BY <2>1, CellFacts DEF TakenFrom
<1>2. p \in Filled(c)
  BY <1>1, ReadNotNone DEF Filled
<1>3. Rewritten(c, Target(c, p)) \in Read /\ Rewritten(c, Target(c, p)).id = Target(c, p).id
  <2> HIDE DEF p
  <2> QED BY <1>1 DEF Rewritten, Read
<1>4. \A f \in Files, k \in Slots :
         Target(c, <<f, k>>)' = IF f = q /\ k = s THEN Rewritten(c, Target(c, <<f, k>>))
                                                 ELSE Target(c, <<f, k>>)
  BY CellFacts DEF TakenFrom, Target
<1>5. \A o \in Cells : Target(c, o)' = IF o = p THEN Rewritten(c, Target(c, o)) ELSE Target(c, o)
  BY <1>4, CellPairs
<1>6. \A d \in Stages \ {c} : \A o \in Cells :
         Target(d, o)' = Target(d, o) /\ (Waiting(d, o)' <=> Waiting(d, o))
  BY DEF TakenFrom, Target, Waiting
<1>7. ASSUME NEW o \in Cells PROVE ~ Waiting(c, o)'
  <2>1. o[1] \in Files /\ o[2] \in Slots
    BY CellPairs
  <2>2. queue'[c][o[1]].read = queue'[c][o[1]].write
    BY <2>1 DEF TakenFrom
  <2> QED BY <2>2 DEF Waiting
<1> HIDE DEF p
<1>8. \A d \in Stages : Filled(d)' = Filled(d)
  <2>1. ASSUME NEW d \in Stages, NEW o \in Cells
        PROVE  Target(d, o)' # NoRecord <=> Target(d, o) # NoRecord
    BY <1>1, <1>3, <1>5, <1>6, ReadNotNone
  <2> QED BY <2>1 DEF Filled
<1>9. \A d \in Stages : \A o \in Cells : d # c \/ o # p => Target(d, o)' = Target(d, o)
  BY <1>5, <1>6
<1>10. \A d \in Stages : \A o \in Filled(d) : Target(d, o)'.id = Target(d, o).id
  BY <1>1, <1>3, <1>5, <1>9 DEF Filled
<1>11. CellTaken(c, p)
  BY <1>1, <1>2, <1>3, <1>5, <1>6, <1>7, <1>8, <1>9, <1>10 DEF CellTaken
<1>12. OnceQueued'
  <2>1. WasRead' = WasRead
    BY DEF WasRead
  <2> QED BY <1>8, <1>10, <2>1 DEF OnceQueued
<1>13. FilledInTurn'
  <2>1. \A d \in Stages, f \in Files : queue'[d][f].write = queue[d][f].write
    BY DEF TakenFrom
  <2> QED BY <1>8, <2>1 DEF FilledInTurn
<1>14. WaitingFilled'
  <2>1. ASSUME NEW d \in Stages, NEW o \in Cells, Waiting(d, o)' PROVE o \in Filled(d)'
    BY <1>6, <1>7, <1>8, <2>1 DEF WaitingFilled
  <2> QED BY <2>1 DEF WaitingFilled, Cells
<1> QED BY <1>11, <1>12, <1>13, <1>14 DEF p

-----------------------------------------------------------------------------
(* The steps of the threads *)

LEMMA QuietTracks ==
    ASSUME Tracked, UNCHANGED <<queue, nRead, record, extractedValue, output>>,
           \A t \in A : Carries(t)' => Carries(t),
           \A t \in B : Holds(t)' => Holds(t),
           \A t \in C : Writes(t)' => Writes(t)
    PROVE  Tracked'
<1>1. /\ WasRead' = WasRead /\ \A c \in Stages : Filled(c)' = Filled(c)
      /\ \A c, p : Target(c, p)' = Target(c, p) /\ (Waiting(c, p)' <=> Waiting(c, p))
      /\ queue' = queue /\ record' = record /\ extractedValue' = extractedValue
      /\ output' = output
  BY DEF WasRead, Filled, Target, Waiting
<1>2. "AB" \in Stages /\ "BC" \in Stages
  BY DEF Stages
<1>3. OnceQueued' /\ FilledInTurn' /\ WaitingFilled'
  <2>1. OnceQueued' /\ WaitingFilled'
    BY <1>1 DEF Tracked, OnceQueued, WaitingFilled, Cells
  <2>2. FilledInTurn'
    BY <1>1 DEF Tracked, FilledInTurn
  <2> QED BY <2>1, <2>2
<1>4. PassedOn' /\ WrittenOnce'
  BY <1>1, <1>2 DEF Tracked, PassedOn, WrittenOnce
<1>5. ASSUME NEW t \in A PROVE Brought(t)'
  BY <1>1, <1>2 DEF Tracked, Brought
<1>6. ASSUME NEW t \in B PROVE Held(t)'
  BY <1>1, <1>2 DEF Tracked, Held
<1>7. ASSUME NEW t \in C PROVE ToWrite(t)'
  BY <1>1, <1>2 DEF Tracked, ToWrite
<1> QED BY <1>3, <1>4, <1>5, <1>6, <1>7 DEF Tracked

LEMMA ReadRecordTracks ==
    ASSUME Typed, Tracked, NEW u \in A, ReadRecord(u), file[u] \in Files
    PROVE  Tracked'
<1>1. /\ queue' = queue /\ extractedValue' = extractedValue /\ output' = output
      /\ \A c, p : Target(c, p)' = Target(c, p) /\ (Waiting(c, p)' <=> Waiting(c, p))
      /\ \A c \in Stages : Filled(c)' = Filled(c)
  BY DEF ReadRecord, shared, Target, Waiting, Filled
<1>2. "AB" \in Stages /\ "BC" \in Stages /\ u \in Places /\ u \notin B /\ u \notin C
      /\ A \subseteq Places /\ B \subseteq Places /\ C \subseteq Places
  BY Kinds
<1>3. CASE Goto(u, "read", "returned") /\ UNCHANGED <<nRead, record>>
  <2>1. Moves(u, "read", "returned")
    BY <1>2, <1>3, GotoMoves
  <2> QED BY <1>1, <1>2, <1>3, <2>1, QuietTracks DEF Moves, Carries, Holds, Writes
<1>4. CASE /\ nRead[file[u]] < Records[file[u]] /\ Goto(u, "read", "waitEmpty")
           /\ nRead' = [nRead EXCEPT ![file[u]] = @ + 1]
           /\ record' = [record EXCEPT ![u] = [id |-> <<file[u], nRead[file[u]]>>, upper |-> FALSE]]
  <2> DEFINE f == file[u]
             new == <<f, nRead[f]>>
  <2>1. /\ nRead[f] \in Nat /\ Records[f] \in Nat /\ nRead'[f] = nRead[f] + 1
        /\ \A o \in Files \ {f} : nRead'[o] = nRead[o]
        /\ \A o \in Files : nRead[o] \in Nat
    BY <1>4, PipelineAssumption DEF Typed
  <2>2. new \notin WasRead /\ new \in WasRead' /\ WasRead \subseteq WasRead'
    <3>1. new \in Ids
      <4>1. nRead[f] \in 0 .. Records[f] - 1
        BY <1>4, <2>1
      <4> HIDE DEF f
      <4>2. new \in {f} \X (0 .. Records[f] - 1) /\ f \in Files
        BY <4>1 DEF f
      <4> QED BY <4>2 DEF Ids
    <3>2. \A x \in Ids : x[1] \in Files /\ x[2] \in Nat
      BY PipelineAssumption DEF Ids
    <3>3. \A o \in Files : nRead[o] <= nRead'[o]
      BY <2>1
    <3>4. WasRead \subseteq WasRead'
      BY <2>1, <3>2, <3>3 DEF WasRead
    <3>5. new[1] = f /\ new[2] = nRead[f]
      OBVIOUS
    <3> HIDE DEF new, f
    <3>6. ~ (nRead[f] < nRead[f]) /\ nRead[f] < nRead'[f]
      BY <2>1
    <3> QED BY <3>1, <3>4, <3>5, <3>6 DEF WasRead
  <2>3. record'[u].id = new /\ \A t \in A \ {u} : record'[t] = record[t]
    BY <1>4 DEF Typed
  <2>4. Moves(u, "read", "waitEmpty")
    BY <1>2, <1>4, GotoMoves
  <2>5. /\ \A t \in A \ {u} : Carries(t)' <=> Carries(t)
        /\ \A t \in B : Holds(t)' <=> Holds(t)
        /\ \A t \in C : Writes(t)' <=> Writes(t)
    BY <1>2, <2>4 DEF Moves, Carries, Holds, Writes
  <2> HIDE DEF new
  <2>6. OnceQueued' /\ FilledInTurn' /\ WaitingFilled'
    <3>1. OnceQueued' /\ WaitingFilled'
      BY <1>1, <2>2 DEF Tracked, OnceQueued, WaitingFilled, Cells
    <3>2. FilledInTurn'
      BY <1>1 DEF Tracked, FilledInTurn
    <3> QED BY <3>1, <3>2
  <2>7. PassedOn' /\ WrittenOnce'
    BY <1>1, <1>2 DEF Tracked, PassedOn, WrittenOnce
  <2>8. ASSUME NEW t \in A PROVE Brought(t)'
    <3>1. \A c \in Stages : \A p \in Filled(c) : Target(c, p).id \in WasRead
      BY <1>2 DEF Tracked, OnceQueued
    <3>2. \A v \in A \ {u} : Carries(v) => record[v].id \in WasRead
      BY DEF Tracked, Brought
    <3>3. CASE t = u
      BY <1>1, <1>2, <2>2, <2>3, <2>5, <3>1, <3>2, <3>3 DEF Brought
    <3>4. CASE t # u
      <4>1. Brought(t)
        BY DEF Tracked
      <4> QED BY <1>1, <1>2, <2>2, <2>3, <2>5, <3>2, <3>4, <4>1 DEF Brought
    <3> QED BY <3>3, <3>4
  <2>9. ASSUME NEW t \in B PROVE Held(t)'
    BY <1>1, <1>2, <2>5 DEF Tracked, Held
  <2>10. ASSUME NEW t \in C PROVE ToWrite(t)'
    BY <1>1, <1>2, <2>5 DEF Tracked, ToWrite
  <2> QED BY <2>6, <2>7, <2>8, <2>9, <2>10 DEF Tracked
<1> QED BY <1>3, <1>4 DEF ReadRecord

(* Who is to insert a record finds the queues empty.                          *)
LEMMA VoidAtPut ==
    ASSUME IInv, NEW c \in Stages, NEW u \in Putter(c), pc[u] = "put"
    PROVE  Void(c)
<1>1. StageOK(c) /\ u \in Threads
  BY Ends DEF IInv
<1>2. Holder(c, u) /\ ~ Carried(c, u)
  BY PutterAt DEF PutLabels
<1>3. ~ isDone[c]
  BY <1>1, PutterRuns
<1> QED BY <1>1, <1>2, <1>3, HolderAlone DEF StageOK

LEMMA InsertReadTracks ==
    ASSUME IInv, Typed', Tracked, Unturned, NEW u \in A, InsertRead(u)
    PROVE  Tracked'
<1>1. /\ Typed /\ u \in Threads /\ u \in Places /\ u \notin B /\ u \notin C
      /\ "AB" \in Stages /\ "BC" \in Stages /\ u \in Putter("AB") /\ pc[u] = "put"
      /\ A \subseteq Places /\ B \subseteq Places /\ C \subseteq Places
  BY Kinds DEF IInv, InsertRead, Goto
<1>2. Moves(u, "put", "leavePut") /\ record[u] \in Read
  BY <1>1, GotoMoves DEF IInv, InHand, OpenedAt, InsertRead
<1>3. Void("AB")
  BY <1>1, VoidAtPut
<1>4. Carries(u) /\ Brought(u)
  BY <1>1 DEF Carries, Tracked
<1>5. PICK q \in Files : insert("AB", q, record[u])
  BY DEF InsertRead
<1>6. PICK w \in Slots : InsertedAt("AB", q, w, record[u])
  <2>1. queue["AB"][q].write \in Slots
    BY <1>1 DEF Typed, Rings
  <2> QED BY <1>1, <1>2, <1>5, <2>1, InsertEffect
<1>7. nRead' = nRead /\ record' = record /\ extractedValue' = extractedValue /\ output' = output
      /\ WasRead' = WasRead
  BY DEF InsertRead, input, WasRead
<1>8. PICK p \in Cells :
         CellAdded("AB", p, record[u]) /\ OnceQueued' /\ FilledInTurn' /\ WaitingFilled'
  <2>1. <<q, w>> \in Cells
    BY DEF Cells
  <2> QED BY <1>1, <1>2, <1>3, <1>4, <1>6, <1>7, <2>1, InsertTracks DEF Tracked, Brought
<1>9. /\ \A o \in Filled("AB") : Target("AB", o)' = Target("AB", o) /\ ~ Waiting("AB", o)'
      /\ p \notin Filled("AB") /\ Filled("AB")' = Filled("AB") \cup {p}
      /\ Target("AB", p)' = record[u]
      /\ Filled("BC")' = Filled("BC") /\ Filled("BC") \subseteq Cells
      /\ \A o \in Cells : /\ Target("BC", o)' = Target("BC", o)
                          /\ Waiting("BC", o)' <=> Waiting("BC", o)
  <2>1. Filled("AB") \subseteq Cells /\ Filled("BC") \subseteq Cells /\ "BC" # "AB"
    BY DEF Filled
  <2> QED BY <1>1, <1>8, <2>1 DEF CellAdded
<1>10. /\ \A t \in A : Carries(t)' => Carries(t) /\ t # u
       /\ \A t \in B : Holds(t)' <=> Holds(t)
       /\ \A t \in C : Writes(t)' <=> Writes(t)
  BY <1>1, <1>2 DEF Moves, Carries, Holds, Writes
<1>11. PassedOn'
  <2>1. ASSUME NEW b \in Filled("BC")
        PROVE  /\ Target("BC", b)'.upper
               /\ \A o \in Filled("AB")' : Waiting("AB", o)' =>
                     Target("AB", o)'.id # Target("BC", b)'.id
    <3>1. Target("BC", b)' = Target("BC", b) /\ Target("BC", b).upper
      BY <1>9 DEF Tracked, PassedOn
    <3>2. Target("BC", b).id # record[u].id
      BY <1>1, <1>4 DEF Brought
    <3> QED BY <1>9, <3>1, <3>2
  <2> QED BY <1>9, <2>1 DEF PassedOn
<1>12. WrittenOnce'
  <2>1. \A o \in Filled("BC") :
           Target("BC", o)' = Target("BC", o) /\ (Waiting("BC", o)' <=> Waiting("BC", o))
    BY <1>9
  <2> QED BY <1>7, <1>9, <2>1 DEF Tracked, WrittenOnce
<1>13. ASSUME NEW t \in A PROVE Brought(t)'
  <2>1. ASSUME Carries(t)' PROVE Carries(t) /\ t # u /\ Brought(t)
    BY <1>10, <2>1 DEF Tracked
  <2>2. ASSUME Carries(t)', NEW c \in Stages, NEW o \in Filled(c)'
        PROVE  Target(c, o)'.id # record[t].id
    <3>1. Carries(t) /\ t # u /\ Brought(t)
      BY <2>1, <2>2
    <3>2. CASE c = "AB"
      <4>1. record[u].id # record[t].id
        BY <1>4, <3>1 DEF Brought
      <4> QED BY <1>1, <1>9, <2>2, <3>1, <3>2, <4>1 DEF Brought
    <3>3. CASE c = "BC"
      BY <1>1, <1>9, <2>2, <3>1, <3>3 DEF Brought
    <3> QED BY <3>2, <3>3 DEF Stages
  <2> QED BY <1>7, <1>10, <2>1, <2>2 DEF Brought
<1>14. ASSUME NEW t \in B PROVE Held(t)'
  <2>1. ASSUME Holds(t) PROVE extractedValue[t] \in Filled("AB") /\ Held(t)
    BY <2>1 DEF Tracked, Held
  <2> QED BY <1>7, <1>9, <1>10, <2>1 DEF Held
<1>15. ASSUME NEW t \in C PROVE ToWrite(t)'
  <2>1. ASSUME Writes(t) PROVE extractedValue[t] \in Filled("BC") /\ ToWrite(t)
    BY <2>1 DEF Tracked, ToWrite
  <2> QED BY <1>7, <1>9, <1>10, <2>1 DEF ToWrite
<1> QED BY <1>8, <1>11, <1>12, <1>13, <1>14, <1>15 DEF Tracked

LEMMA InsertExtractedTracks ==
    ASSUME IInv, Typed', Tracked, Unturned, NEW u \in B, InsertExtracted(u)
    PROVE  Tracked'
<1> DEFINE ptr == extractedValue[u]
           rec == Target("AB", ptr)
<1>1. /\ Typed /\ u \in Threads /\ u \in Places /\ u \notin A /\ u \notin C
      /\ "AB" \in Stages /\ "BC" \in Stages /\ u \in Putter("BC") /\ pc[u] = "put"
      /\ A \subseteq Places /\ B \subseteq Places /\ C \subseteq Places
  BY Kinds DEF IInv, InsertExtracted, Goto
<1>2. Moves(u, "put", "leavePut") /\ rec \in Read
  BY <1>1, GotoMoves DEF IInv, InHand, PointsAt, InsertExtracted
<1>3. Void("BC")
  BY <1>1, VoidAtPut
<1>4. Holds(u) /\ Held(u)
  BY <1>1 DEF Holds, Tracked
<1>5. /\ ptr \in Filled("AB") /\ ~ Waiting("AB", ptr) /\ rec.upper /\ rec.id \in WasRead
      /\ \A p \in Filled("BC") : Target("BC", p).id # rec.id
      /\ \A o \in Filled("AB") : Target("AB", o).id = rec.id => o = ptr
  BY <1>1, <1>4 DEF Held, Tracked, OnceQueued
<1>6. PICK q \in Files : insert("BC", q, rec)
  BY DEF InsertExtracted
<1>7. /\ nRead' = nRead /\ record' = record /\ output' = output /\ WasRead' = WasRead
      /\ \A t \in (B \cup C) \ {u} : extractedValue'[t] = extractedValue[t]
  BY <1>1 DEF InsertExtracted, input, WasRead, Typed
<1> HIDE DEF rec
<1>8. PICK w \in Slots : InsertedAt("BC", q, w, rec)
  <2>1. queue["BC"][q].write \in Slots
    BY <1>1 DEF Typed, Rings
  <2> QED BY <1>1, <1>2, <1>6, <2>1, InsertEffect
<1>9. PICK p \in Cells :
         CellAdded("BC", p, rec) /\ OnceQueued' /\ FilledInTurn' /\ WaitingFilled'
  <2>1. <<q, w>> \in Cells
    BY DEF Cells
  <2> QED BY <1>1, <1>2, <1>3, <1>5, <1>7, <1>8, <2>1, InsertTracks DEF Tracked
<1>10. /\ \A o \in Filled("BC") : Target("BC", o)' = Target("BC", o) /\ ~ Waiting("BC", o)'
       /\ Filled("BC")' = Filled("BC") \cup {p} /\ Target("BC", p)' = rec
       /\ Filled("AB")' = Filled("AB")
       /\ \A o \in Filled("AB") : /\ Target("AB", o)' = Target("AB", o)
                                  /\ Waiting("AB", o)' <=> Waiting("AB", o)
  <2>1. Filled("AB") \subseteq Cells /\ Filled("BC") \subseteq Cells /\ "BC" # "AB"
    BY DEF Filled
  <2> QED BY <1>1, <1>9, <2>1 DEF CellAdded
<1>11. /\ \A t \in A : Carries(t)' <=> Carries(t)
       /\ \A t \in B : Holds(t)' => Holds(t) /\ t # u
       /\ \A t \in C : Writes(t)' <=> Writes(t)
  BY <1>1, <1>2 DEF Moves, Carries, Holds, Writes
<1>12. PassedOn'
  <2>1. ASSUME NEW b \in Filled("BC")', NEW o \in Filled("AB"), Waiting("AB", o)
        PROVE  Target("AB", o).id # Target("BC", b)'.id
    <3>1. CASE b = p
      BY <1>5, <1>10, <2>1, <3>1
    <3>2. CASE b \in Filled("BC")
      BY <1>10, <2>1, <3>2 DEF Tracked, PassedOn
    <3> QED BY <1>10, <3>1, <3>2
  <2>2. \A b \in Filled("BC")' : Target("BC", b)'.upper
    BY <1>5, <1>10 DEF Tracked, PassedOn
  <2> QED BY <1>10, <2>1, <2>2 DEF PassedOn
<1>13. WrittenOnce'
  BY <1>7, <1>10 DEF Tracked, WrittenOnce
<1>14. ASSUME NEW t \in A PROVE Brought(t)'
  <2>1. ASSUME Carries(t), NEW c \in Stages, NEW o \in Filled(c)'
        PROVE  Target(c, o)'.id # record[t].id
    <3>1. Brought(t)
      BY DEF Tracked
    <3>2. rec.id # record[t].id
      BY <1>1, <1>5, <2>1, <3>1 DEF Brought, rec
    <3>3. c = "AB" \/ c = "BC"
      BY DEF Stages
    <3> QED BY <1>1, <1>10, <2>1, <3>1, <3>2, <3>3 DEF Brought
  <2>2. Brought(t)
    BY DEF Tracked
  <2> QED BY <1>7, <1>11, <2>1, <2>2 DEF Brought
<1>15. ASSUME NEW t \in B, Holds(t)' PROVE Held(t)'
  <2>1. Holds(t) /\ t # u /\ Held(t) /\ extractedValue'[t] = extractedValue[t]
    BY <1>7, <1>11, <1>15 DEF Tracked
  <2>2. extractedValue[t] \in Filled("AB") /\ extractedValue[t] # ptr
    BY <1>4, <2>1 DEF Held
  <2>3. Target("AB", extractedValue[t]).id # rec.id
    BY <1>5, <2>2
  <2>4. \A v \in B \ {t} : Holds(v)' => extractedValue'[v] # extractedValue'[t]
    BY <1>7, <1>11, <2>1 DEF Held
  <2> QED BY <1>10, <2>1, <2>2, <2>3, <2>4 DEF Held
<1>16. ASSUME NEW t \in B PROVE Held(t)'
  BY <1>15 DEF Held
<1>17. ASSUME NEW t \in C PROVE ToWrite(t)'
  <2>1. ASSUME Writes(t) PROVE extractedValue[t] \in Filled("BC") /\ ToWrite(t)
    BY <2>1 DEF Tracked, ToWrite
  <2>2. \A v \in C : extractedValue'[v] = extractedValue[v]
    BY <1>1, <1>7
  <2> QED BY <1>7, <1>10, <1>11, <2>1, <2>2 DEF ToWrite
<1> QED BY <1>9, <1>12, <1>13, <1>14, <1>16, <1>17 DEF Tracked

(* An extraction, by a B or a C.                                              *)
LEMMA ExtractTakes ==
    ASSUME IInv, Typed', Tracked, NEW c \in Stages, NEW u \in Getter(c), Extract(u, c)
    PROVE  \E p \in Filled(c) :
              /\ CellTaken(c, p) /\ OnceQueued' /\ FilledInTurn' /\ WaitingFilled'
              /\ extractedValue'[u] = p
              /\ \A t \in (B \cup C) \ {u} : extractedValue'[t] = extractedValue[t]
<1>1. Typed /\ pc[u] = "extract" /\ u \in B \cup C
  BY Kinds DEF IInv, Extract, Goto
<1>2. Loaded(c)
  BY <1>1, SomethingToExtract
<1>3. PICK q \in NonEmpty(c) :
         /\ extractedValue' = [extractedValue EXCEPT ![u] = <<q, queue[c][q].read>>]
         /\ TakenOut(c, q)
  BY DEF Extract, TakenOut
<1>4. q \in Files
  BY DEF NonEmpty
<1>5. PICK s \in Slots :
         /\ TakenFrom(c, q, s) /\ s = queue[c][q].read
         /\ queue[c][q].write = (s + 1) % QSize /\ queue[c][q].buffer[s] \in Read
         /\ \A o \in Files \ {q} : queue[c][o].read = queue[c][o].write
  BY <1>1, <1>2, <1>3, <1>4, ExtractEffect
<1>6. nRead' = nRead
  BY DEF Extract, input
<1>7. CellTaken(c, <<q, s>>) /\ OnceQueued' /\ FilledInTurn' /\ WaitingFilled'
  BY <1>1, <1>4, <1>5, <1>6, TakeTracks DEF Tracked
<1>8. /\ extractedValue'[u] = <<q, s>>
      /\ \A t \in (B \cup C) \ {u} : extractedValue'[t] = extractedValue[t]
  BY <1>1, <1>3, <1>5 DEF Typed
<1> QED BY <1>7, <1>8 DEF CellTaken

LEMMA ExtractBTracks ==
    ASSUME IInv, Typed', Tracked, NEW u \in B, Extract(u, "AB")
    PROVE  Tracked'
<1>1. /\ Typed /\ u \in Threads /\ u \in Places /\ u \notin A /\ u \notin C
      /\ "AB" \in Stages /\ "BC" \in Stages /\ u \in Getter("AB") /\ pc[u] = "extract"
      /\ A \subseteq Places /\ B \subseteq Places /\ C \subseteq Places
  BY Kinds DEF IInv, Extract, Goto
<1>2. Moves(u, "extract", "leaveGet")
  BY <1>1, GotoMoves DEF Extract
<1>3. PICK p \in Filled("AB") :
         /\ CellTaken("AB", p) /\ OnceQueued' /\ FilledInTurn' /\ WaitingFilled'
         /\ extractedValue'[u] = p
         /\ \A t \in (B \cup C) \ {u} : extractedValue'[t] = extractedValue[t]
  BY <1>1, ExtractTakes
<1>4. nRead' = nRead /\ record' = record /\ output' = output /\ WasRead' = WasRead
  BY DEF Extract, input, WasRead
<1>5. Target("AB", p) \in Read
  BY <1>1, FilledRead
<1>6. /\ Waiting("AB", p) /\ Target("AB", p)'.upper
      /\ Filled("AB")' = Filled("AB") /\ Filled("BC")' = Filled("BC")
      /\ \A o \in Filled("AB") : /\ Target("AB", o)'.id = Target("AB", o).id
                                 /\ ~ Waiting("AB", o)'
                                 /\ o # p => Target("AB", o)' = Target("AB", o)
      /\ \A o \in Filled("BC") : /\ Target("BC", o)' = Target("BC", o)
                                 /\ Waiting("BC", o)' <=> Waiting("BC", o)
  <2>1. Filled("AB") \subseteq Cells /\ Filled("BC") \subseteq Cells /\ "BC" # "AB"
    BY DEF Filled
  <2>2. Rewritten("AB", Target("AB", p)).upper
    BY <1>5 DEF Rewritten, Read
  <2> QED BY <1>1, <1>3, <2>1, <2>2 DEF CellTaken
<1>7. /\ \A t \in A : Carries(t)' <=> Carries(t)
      /\ \A t \in B : Holds(t)' => Holds(t) \/ t = u
      /\ \A t \in C : Writes(t)' <=> Writes(t)
  BY <1>1, <1>2 DEF Moves, Carries, Holds, Writes
<1>8. PassedOn' /\ WrittenOnce'
  BY <1>4, <1>6 DEF Tracked, PassedOn, WrittenOnce
<1>9. ASSUME NEW t \in A PROVE Brought(t)'
  <2>1. Brought(t)
    BY DEF Tracked
  <2>2. ASSUME Carries(t), NEW c \in Stages, NEW o \in Filled(c)'
        PROVE  Target(c, o)'.id # record[t].id
    <3>1. c = "AB" \/ c = "BC"
      BY DEF Stages
    <3> QED BY <1>6, <2>1, <2>2, <3>1 DEF Brought
  <2> QED BY <1>4, <1>7, <2>1, <2>2 DEF Brought
<1>10. ASSUME NEW t \in B, t # u, Holds(t)'
       PROVE  Held(t)' /\ extractedValue'[t] # p
  <2>1. /\ Holds(t) /\ Held(t) /\ extractedValue'[t] = extractedValue[t]
        /\ extractedValue[t] \in Filled("AB") /\ extractedValue[t] # p
    BY <1>3, <1>6, <1>7, <1>10 DEF Tracked, Held
  <2>2. Target("AB", extractedValue[t])' = Target("AB", extractedValue[t])
    BY <1>6, <2>1
  <2>3. ASSUME NEW v \in B \ {t}, Holds(v)' PROVE extractedValue'[v] # extractedValue'[t]
    BY <1>3, <1>7, <2>1, <2>3 DEF Held
  <2> QED BY <1>6, <2>1, <2>2, <2>3 DEF Held
<1>11. Held(u)'
  <2>1. \A b \in Filled("BC") : Target("BC", b)'.id # Target("AB", p)'.id
    BY <1>6 DEF Tracked, PassedOn
  <2> QED BY <1>3, <1>6, <1>10, <2>1 DEF Held
<1>12. ASSUME NEW t \in B PROVE Held(t)'
  <2>1. CASE t # u /\ ~ Holds(t)'
    BY <2>1 DEF Held
  <2> QED BY <1>10, <1>11, <2>1
<1>13. ASSUME NEW t \in C PROVE ToWrite(t)'
  <2>1. ASSUME Writes(t) PROVE extractedValue[t] \in Filled("BC") /\ ToWrite(t)
    BY <2>1 DEF Tracked, ToWrite
  <2>2. \A v \in C : extractedValue'[v] = extractedValue[v]
    BY <1>1, <1>3
  <2> QED BY <1>4, <1>6, <1>7, <2>1, <2>2 DEF ToWrite
<1> QED BY <1>3, <1>8, <1>9, <1>12, <1>13 DEF Tracked

LEMMA ExtractCTracks ==
    ASSUME IInv, Typed', Tracked, NEW u \in C, Extract(u, "BC")
    PROVE  Tracked'
<1>1. /\ Typed /\ u \in Threads /\ u \in Places /\ u \notin A /\ u \notin B
      /\ "AB" \in Stages /\ "BC" \in Stages /\ u \in Getter("BC") /\ pc[u] = "extract"
      /\ A \subseteq Places /\ B \subseteq Places /\ C \subseteq Places
  BY Kinds DEF IInv, Extract, Goto
<1>2. Moves(u, "extract", "write")
  BY <1>1, GotoMoves DEF Extract
<1>3. PICK p \in Filled("BC") :
         /\ CellTaken("BC", p) /\ OnceQueued' /\ FilledInTurn' /\ WaitingFilled'
         /\ extractedValue'[u] = p
         /\ \A t \in (B \cup C) \ {u} : extractedValue'[t] = extractedValue[t]
  BY <1>1, ExtractTakes
<1>4. nRead' = nRead /\ record' = record /\ output' = output /\ WasRead' = WasRead
  BY DEF Extract, input, WasRead
<1>5. /\ Waiting("BC", p)
      /\ Filled("AB")' = Filled("AB") /\ Filled("BC")' = Filled("BC")
      /\ \A o \in Filled("AB") : /\ Target("AB", o)' = Target("AB", o)
                                 /\ Waiting("AB", o)' <=> Waiting("AB", o)
      /\ \A o \in Filled("BC") : Target("BC", o)' = Target("BC", o) /\ ~ Waiting("BC", o)'
  <2>1. Filled("AB") \subseteq Cells /\ Filled("BC") \subseteq Cells /\ "BC" # "AB"
    BY DEF Filled
  <2>2. Rewritten("BC", Target("BC", p)) = Target("BC", p)
    BY DEF Rewritten
  <2> QED BY <1>1, <1>3, <2>1, <2>2 DEF CellTaken
<1>6. /\ \A t \in A : Carries(t)' <=> Carries(t)
      /\ \A t \in B : Holds(t)' <=> Holds(t)
      /\ \A t \in C : Writes(t)' => Writes(t) \/ t = u
  BY <1>1, <1>2 DEF Moves, Carries, Holds, Writes
<1>7. PassedOn' /\ WrittenOnce'
  BY <1>4, <1>5 DEF Tracked, PassedOn, WrittenOnce
<1>8. ASSUME NEW t \in A PROVE Brought(t)'
  <2>1. Brought(t)
    BY DEF Tracked
  <2>2. ASSUME Carries(t), NEW c \in Stages, NEW o \in Filled(c)'
        PROVE  Target(c, o)'.id # record[t].id
    <3>1. c = "AB" \/ c = "BC"
      BY DEF Stages
    <3> QED BY <1>5, <2>1, <2>2, <3>1 DEF Brought
  <2> QED BY <1>4, <1>6, <2>1, <2>2 DEF Brought
<1>9. ASSUME NEW t \in B PROVE Held(t)'
  <2>1. ASSUME Holds(t) PROVE extractedValue[t] \in Filled("AB") /\ Held(t)
    BY <2>1 DEF Tracked, Held
  <2>2. \A v \in B : extractedValue'[v] = extractedValue[v]
    BY <1>1, <1>3
  <2> QED BY <1>5, <1>6, <2>1, <2>2 DEF Held
<1>10. ASSUME NEW t \in C, t # u, Writes(t)'
       PROVE  ToWrite(t)' /\ extractedValue'[t] # p
  <2>1. /\ Writes(t) /\ ToWrite(t) /\ extractedValue'[t] = extractedValue[t]
        /\ extractedValue[t] \in Filled("BC") /\ extractedValue[t] # p
    BY <1>3, <1>5, <1>6, <1>10 DEF Tracked, ToWrite
  <2>2. ASSUME NEW v \in C \ {t}, Writes(v)' PROVE extractedValue'[v] # extractedValue'[t]
    BY <1>3, <1>6, <2>1, <2>2 DEF ToWrite
  <2> QED BY <1>4, <1>5, <2>1, <2>2 DEF ToWrite
<1>11. ToWrite(u)'
  <2>1. ASSUME NEW i \in DOMAIN output PROVE output[i].id # Target("BC", p).id
    <3>1. PICK o \in Filled("BC") : ~ Waiting("BC", o) /\ Target("BC", o).id = output[i].id
      BY DEF Tracked, WrittenOnce
    <3>2. o # p
      BY <1>5, <3>1
    <3> QED BY <1>1, <3>1, <3>2 DEF Tracked, OnceQueued
  <2> QED BY <1>3, <1>4, <1>5, <1>10, <2>1 DEF ToWrite
<1>12. ASSUME NEW t \in C PROVE ToWrite(t)'
  <2>1. CASE t # u /\ ~ Writes(t)'
    BY <2>1 DEF ToWrite
  <2> QED BY <1>10, <1>11, <2>1
<1> QED BY <1>3, <1>7, <1>8, <1>9, <1>12 DEF Tracked

LEMMA WriteOutTracks ==
    ASSUME Typed, Tracked, NEW u \in C, WriteOut(u)
    PROVE  Tracked'
<1>1. /\ u \in Threads /\ u \in Places /\ u \notin A /\ u \notin B
      /\ "AB" \in Stages /\ "BC" \in Stages /\ pc[u] = "write"
      /\ A \subseteq Places /\ B \subseteq Places /\ C \subseteq Places
      /\ queue' = queue /\ nRead' = nRead /\ record' = record
  BY Kinds DEF WriteOut, Goto, shared, input
<1>2. CASE Goto(u, "write", "returned") /\ UNCHANGED <<output, extractedValue>>
  <2>1. Moves(u, "write", "returned")
    BY <1>1, <1>2, GotoMoves
  <2> QED BY <1>1, <1>2, <2>1, QuietTracks DEF Moves, Carries, Holds, Writes
<1>3. CASE /\ Goto(u, "write", "leaveGet")
           /\ output' = Append(output, Target("BC", extractedValue[u]))
           /\ extractedValue' = [extractedValue EXCEPT ![u] = <<>>]
  <2> DEFINE ptr == extractedValue[u]
             rec == Target("BC", ptr)
  <2>1. Moves(u, "write", "leaveGet")
    BY <1>1, <1>3, GotoMoves
  <2>2. /\ WasRead' = WasRead /\ \A c \in Stages : Filled(c)' = Filled(c)
        /\ \A c, p : Target(c, p)' = Target(c, p) /\ (Waiting(c, p)' <=> Waiting(c, p))
    BY <1>1 DEF WasRead, Filled, Target, Waiting
  <2>3. \A t \in (B \cup C) \ {u} : extractedValue'[t] = extractedValue[t]
    BY <1>3 DEF Typed
  <2>4. /\ \A t \in A : Carries(t)' <=> Carries(t)
        /\ \A t \in B : Holds(t)' <=> Holds(t)
        /\ \A t \in C : Writes(t)' => Writes(t) /\ t # u
    BY <1>1, <2>1 DEF Moves, Carries, Holds, Writes
  <2>5. /\ Writes(u) /\ ptr \in Filled("BC") /\ ~ Waiting("BC", ptr)
        /\ \A i \in DOMAIN output : output[i].id # rec.id
        /\ \A t \in C \ {u} : Writes(t) => extractedValue[t] # ptr
    BY <1>1 DEF Tracked, ToWrite, Writes
  <2>6. rec.upper /\ \A o \in Filled("BC") : Target("BC", o).id = rec.id => o = ptr
    BY <1>1, <2>5 DEF Tracked, PassedOn, OnceQueued
  <2>7. /\ \A i \in DOMAIN output : i \in DOMAIN output' /\ output'[i] = output[i]
        /\ \A i \in DOMAIN output' : i \in DOMAIN output \/ i = Len(output) + 1
        /\ output'[Len(output) + 1] = rec /\ Len(output) + 1 \notin DOMAIN output
    <3>1. output \in Seq(RecordSet)
      BY DEF Typed
    <3> HIDE DEF rec
    <3>2. output' = Append(output, rec)
      BY <1>3 DEF rec
    <3> QED BY <3>1, <3>2
  <2> HIDE DEF rec
  <2>8. OnceQueued' /\ FilledInTurn' /\ WaitingFilled'
    <3>1. OnceQueued' /\ WaitingFilled'
      BY <2>2 DEF Tracked, OnceQueued, WaitingFilled, Cells
    <3>2. FilledInTurn'
      BY <1>1, <2>2 DEF Tracked, FilledInTurn
    <3> QED BY <3>1, <3>2
  <2>9. PassedOn'
    BY <1>1, <2>2 DEF Tracked, PassedOn
  <2>10. WrittenOnce'
    <3>1. ASSUME NEW i \in DOMAIN output'
          PROVE  /\ output'[i].upper
                 /\ \E p \in Filled("BC") :
                       ~ Waiting("BC", p) /\ Target("BC", p).id = output'[i].id
      <4>1. CASE i \in DOMAIN output
        BY <2>7, <4>1 DEF Tracked, WrittenOnce
      <4>2. CASE i = Len(output) + 1
        BY <2>5, <2>6, <2>7, <4>2 DEF rec
      <4> QED BY <2>7, <4>1, <4>2
    <3>2. ASSUME NEW i \in DOMAIN output', NEW j \in DOMAIN output',
                 output'[j].id = output'[i].id
          PROVE  j = i
      <4>1. CASE i \in DOMAIN output /\ j \in DOMAIN output
        BY <2>7, <3>2, <4>1 DEF Tracked, WrittenOnce
      <4>2. CASE i = Len(output) + 1 /\ j = Len(output) + 1
        BY <4>2
      <4>3. CASE i = Len(output) + 1 /\ j \in DOMAIN output
        BY <2>5, <2>7, <3>2, <4>3
      <4>4. CASE i \in DOMAIN output /\ j = Len(output) + 1
        BY <2>5, <2>7, <3>2, <4>4
      <4> QED BY <2>7, <4>1, <4>2, <4>3, <4>4
    <3> QED BY <1>1, <2>2, <3>1, <3>2 DEF WrittenOnce
  <2>11. ASSUME NEW t \in A PROVE Brought(t)'
    BY <1>1, <2>2, <2>4 DEF Tracked, Brought
  <2>12. ASSUME NEW t \in B PROVE Held(t)'
    <3>1. \A v \in B : extractedValue'[v] = extractedValue[v]
      BY <1>1, <2>3
    <3> QED BY <1>1, <2>2, <2>4, <3>1 DEF Tracked, Held
  <2>13. ASSUME NEW t \in C, Writes(t)' PROVE ToWrite(t)'
    <3>1. /\ Writes(t) /\ ToWrite(t) /\ t # u /\ extractedValue'[t] = extractedValue[t]
          /\ extractedValue[t] \in Filled("BC") /\ extractedValue[t] # ptr
      BY <2>3, <2>4, <2>5, <2>13 DEF Tracked, ToWrite
    <3>2. ASSUME NEW i \in DOMAIN output'
          PROVE  output'[i].id # Target("BC", extractedValue[t]).id
      <4>1. CASE i \in DOMAIN output
        BY <2>7, <3>1, <4>1 DEF ToWrite
      <4>2. CASE i = Len(output) + 1
        BY <2>6, <2>7, <3>1, <4>2
      <4> QED BY <2>7, <4>1, <4>2
    <3>3. ASSUME NEW v \in C \ {t}, Writes(v)' PROVE extractedValue'[v] # extractedValue'[t]
      BY <2>3, <2>4, <3>1, <3>3 DEF ToWrite
    <3> QED BY <1>1, <2>2, <3>1, <3>2, <3>3 DEF ToWrite
  <2>14. ASSUME NEW t \in C PROVE ToWrite(t)'
    BY <2>13 DEF ToWrite
  <2> QED BY <2>8, <2>9, <2>10, <2>11, <2>12, <2>14 DEF Tracked
<1> QED BY <1>2, <1>3 DEF WriteOut

(* A step that moves a permit, a section or a file.                           *)
LEMMA QuietMoves ==
    ASSUME Tracked, NEW u \in Threads, NEW from, NEW to, Moves(u, from, to),
           UNCHANGED <<queue, nRead, record, extractedValue, output>>,
           u \in A => (to \in {"waitEmpty", "enterPut", "put"} =>
                       from \in {"waitEmpty", "enterPut", "put"}),
           u \in B => (to \in {"leaveGet", "releaseEmpty", "waitEmpty", "enterPut", "put"} =>
                       from \in {"leaveGet", "releaseEmpty", "waitEmpty", "enterPut", "put"}),
           to # "write"
    PROVE  Tracked'
<1>1. A \subseteq Places /\ B \subseteq Places /\ C \subseteq Places
  BY Kinds
<1>2. \A t \in A : Carries(t)' => Carries(t)
  BY <1>1 DEF Moves, Carries
<1>3. \A t \in B : Holds(t)' => Holds(t)
  BY <1>1 DEF Moves, Holds
<1>4. \A t \in C : Writes(t)' => Writes(t)
  BY <1>1 DEF Moves, Writes
<1> QED BY <1>2, <1>3, <1>4, QuietTracks

LEMMA ATracks ==
    ASSUME IInv, Typed', Tracked, Unturned, NEW u \in A, ThAWork(u)
    PROVE  Tracked'
<1>1. Typed /\ u \in Threads /\ u \in Places /\ u \notin B /\ "AB" \in Stages
  BY Kinds DEF IInv
<1>2. CASE OpenFile(u)
  <2>1. Moves(u, "open", "read") \/ Moves(u, "open", "returned")
    BY <1>1, <1>2, GotoMoves DEF OpenFile
  <2> QED BY <1>1, <1>2, <2>1, QuietMoves DEF OpenFile, shared
<1>3. CASE ReadRecord(u)
  <2>1. file[u] \in Files
    BY <1>3 DEF IInv, InHand, OpenedAt, ReadRecord
  <2> QED BY <1>1, <1>3, <2>1, ReadRecordTracks
<1>4. CASE WaitEmpty(u, "AB")
  BY <1>1, <1>4, QuietSteps, QuietMoves DEF Quiet, input
<1>5. CASE EnterCS(u, "AB", "enterPut", "put")
  BY <1>1, <1>5, QuietSteps, QuietMoves DEF Quiet, input
<1>6. CASE InsertRead(u)
  BY <1>6, InsertReadTracks
<1>7. CASE LeaveCS(u, "AB", "leavePut", "releaseFill")
  BY <1>1, <1>7, QuietSteps, QuietMoves DEF Quiet, input
<1>8. CASE ReleaseFill(u, "AB", "read")
  <2>1. Quiet(u, "releaseFill", "read") \/ Quiet(u, "releaseFill", "returned")
    BY <1>1, <1>8, QuietSteps
  <2> QED BY <1>1, <2>1, QuietMoves DEF Quiet, input
<1> QED BY <1>2, <1>3, <1>4, <1>5, <1>6, <1>7, <1>8 DEF ThAWork

LEMMA BTracks ==
    ASSUME IInv, Typed', Tracked, Unturned, NEW u \in B, ThBWork(u)
    PROVE  Tracked'
<1>1. /\ Typed /\ u \in Threads /\ u \in Places /\ u \notin A
      /\ "AB" \in Stages /\ "BC" \in Stages
  BY Kinds DEF IInv
<1>2. CASE WaitFill(u, "AB")
  BY <1>1, <1>2, QuietSteps, QuietMoves DEF Quiet, input
<1>3. CASE CheckDone(u, "AB")
  <2>1. Quiet(u, "check", "returned") \/ Quiet(u, "check", "enterGet")
    BY <1>1, <1>3, QuietSteps
  <2> QED BY <1>1, <2>1, QuietMoves DEF Quiet, input
<1>4. CASE EnterCS(u, "AB", "enterGet", "extract")
  BY <1>1, <1>4, QuietSteps, QuietMoves DEF Quiet, input
<1>5. CASE Extract(u, "AB")
  BY <1>5, ExtractBTracks
<1>6. CASE LeaveCS(u, "AB", "leaveGet", "releaseEmpty")
  BY <1>1, <1>6, QuietSteps, QuietMoves DEF Quiet, input
<1>7. CASE ReleaseEmpty(u, "AB", "waitEmpty")
  <2>1. Quiet(u, "releaseEmpty", "waitEmpty") \/ Quiet(u, "releaseEmpty", "returned")
    BY <1>1, <1>7, QuietSteps
  <2> QED BY <1>1, <2>1, QuietMoves DEF Quiet, input
<1>8. CASE WaitEmpty(u, "BC")
  BY <1>1, <1>8, QuietSteps, QuietMoves DEF Quiet, input
<1>9. CASE EnterCS(u, "BC", "enterPut", "put")
  BY <1>1, <1>9, QuietSteps, QuietMoves DEF Quiet, input
<1>10. CASE InsertExtracted(u)
  BY <1>10, InsertExtractedTracks
<1>11. CASE LeaveCS(u, "BC", "leavePut", "releaseFill")
  BY <1>1, <1>11, QuietSteps, QuietMoves DEF Quiet, input
<1>12. CASE ReleaseFill(u, "BC", "waitFill")
  <2>1. Quiet(u, "releaseFill", "waitFill") \/ Quiet(u, "releaseFill", "returned")
    BY <1>1, <1>12, QuietSteps
  <2> QED BY <1>1, <2>1, QuietMoves DEF Quiet, input
<1> QED BY <1>2, <1>3, <1>4, <1>5, <1>6, <1>7, <1>8, <1>9, <1>10, <1>11, <1>12 DEF ThBWork

LEMMA CTracks ==
    ASSUME IInv, Typed', Tracked, NEW u \in C, ThCWork(u)
    PROVE  Tracked'
<1>1. Typed /\ u \in Threads /\ u \in Places /\ u \notin A /\ u \notin B /\ "BC" \in Stages
  BY Kinds DEF IInv
<1>2. CASE WaitFill(u, "BC")
  BY <1>1, <1>2, QuietSteps, QuietMoves DEF Quiet, input
<1>3. CASE CheckDone(u, "BC")
  <2>1. Quiet(u, "check", "returned") \/ Quiet(u, "check", "enterGet")
    BY <1>1, <1>3, QuietSteps
  <2> QED BY <1>1, <2>1, QuietMoves DEF Quiet, input
<1>4. CASE EnterCS(u, "BC", "enterGet", "extract")
  BY <1>1, <1>4, QuietSteps, QuietMoves DEF Quiet, input
<1>5. CASE Extract(u, "BC")
  BY <1>5, ExtractCTracks
<1>6. CASE WriteOut(u)
  BY <1>1, <1>6, WriteOutTracks
<1>7. CASE LeaveCS(u, "BC", "leaveGet", "releaseEmpty")
  BY <1>1, <1>7, QuietSteps, QuietMoves DEF Quiet, input
<1>8. CASE ReleaseEmpty(u, "BC", "waitFill")
  <2>1. Quiet(u, "releaseEmpty", "waitFill") \/ Quiet(u, "releaseEmpty", "returned")
    BY <1>1, <1>8, QuietSteps
  <2> QED BY <1>1, <2>1, QuietMoves DEF Quiet, input
<1> QED BY <1>2, <1>3, <1>4, <1>5, <1>6, <1>7, <1>8 DEF ThCWork

(* The main thread moves no record.                                           *)
LEMMA MainTracks ==
    ASSUME Typed, Tracked, MainStep
    PROVE  Tracked'
<1>1. UNCHANGED <<queue, nRead, record, extractedValue, output>>
  BY DEF MainStep, Join, WakeAll, JoinLast, shared, input
<1>2. Main \in Places /\ Main \notin Threads
  BY Kinds
<1>3. \A t \in Threads : pc'[t] = pc[t]
  <2>1. \A from, to : Goto(Main, from, to) => Moves(Main, from, to)
    BY <1>2, GotoMoves
  <2>2. \E from, to : Goto(Main, from, to)
    BY DEF MainStep, Join, WakeAll, JoinLast
  <2> QED BY <1>2, <2>1, <2>2, Kinds DEF Moves
<1>4. /\ \A t \in A : Carries(t)' <=> Carries(t)
      /\ \A t \in B : Holds(t)' <=> Holds(t)
      /\ \A t \in C : Writes(t)' <=> Writes(t)
  BY <1>3, Kinds DEF Carries, Holds, Writes
<1> QED BY <1>1, <1>4, QuietTracks

LEMMA StartsTracked ==
    ASSUME Init
    PROVE  Tracked
<1>1. /\ \A t \in A : pc[t] = "open"
      /\ \A t \in B \cup C : pc[t] = "waitFill"
  BY Kinds DEF Init, Start
<1>2. /\ \A c \in Stages, p \in Cells : Target(c, p) = NoRecord /\ ~ Waiting(c, p)
      /\ \A c \in Stages, q \in Files : queue[c][q].write = 0
  BY CellPairs DEF Init, Target, Waiting, Slots
<1>3. \A c \in Stages : Filled(c) = {}
  BY <1>2 DEF Filled
<1>4. OnceQueued /\ WaitingFilled /\ PassedOn
  BY <1>2, <1>3, Kinds DEF OnceQueued, WaitingFilled, PassedOn
<1>5. FilledInTurn
  BY <1>2, <1>3, RingSize DEF FilledInTurn
<1>6. WrittenOnce
  BY DEF Init, WrittenOnce
<1>7. /\ \A t \in A : Brought(t)
      /\ \A t \in B : Held(t)
      /\ \A t \in C : ToWrite(t)
  BY <1>1 DEF Brought, Carries, Held, Holds, ToWrite, Writes
<1> QED BY <1>4, <1>5, <1>6, <1>7 DEF Tracked

(* Every step of EXAMS/2016-07-01/main.cpp keeps track of each record, as     *)
(* long as no more were read than a ring has slots.                           *)
LEMMA TracksKept ==
    ASSUME IInv, IInv', Unturned => Tracked, [Next]_vars, Unturned'
    PROVE  Tracked'
<1>1. Typed /\ Typed'
  BY DEF IInv
<1>2. Unturned
  <2>1. \A f \in Files : nRead[f] <= nRead'[f]
    <3>1. \A f \in Files : nRead[f] \in Nat
      BY <1>1 DEF Typed
    <3>2. nRead' = nRead \/ \E f \in Files : nRead' = [nRead EXCEPT ![f] = @ + 1]
      <4>1. CASE UNCHANGED vars
        BY <4>1 DEF vars
      <4>2. CASE MainStep
        BY <4>2 DEF MainStep, Join, WakeAll, JoinLast, input
      <4>3. ASSUME NEW t \in A, ThAWork(t)
            PROVE  nRead' = nRead \/ \E f \in Files : nRead' = [nRead EXCEPT ![f] = @ + 1]
        <5>1. CASE ReadRecord(t)
          <6>1. file[t] \in Files
            BY <4>3, <5>1 DEF IInv, InHand, OpenedAt, ReadRecord
          <6> QED BY <5>1, <6>1 DEF ReadRecord
        <5>2. CASE ~ ReadRecord(t)
          BY <4>3, <5>2 DEF ThAWork, OpenFile, WaitEmpty, EnterCS, InsertRead, LeaveCS,
                            ReleaseFill, input
        <5> QED BY <5>1, <5>2
      <4>4. ASSUME NEW t \in B, ThBWork(t) PROVE nRead' = nRead
        BY <4>4 DEF ThBWork, WaitFill, CheckDone, EnterCS, Extract, LeaveCS, ReleaseEmpty,
                    WaitEmpty, InsertExtracted, ReleaseFill, input
      <4>5. ASSUME NEW t \in C, ThCWork(t) PROVE nRead' = nRead
        BY <4>5 DEF ThCWork, WaitFill, CheckDone, EnterCS, Extract, LeaveCS, ReleaseEmpty,
                    WriteOut, input
      <4> QED BY <4>1, <4>2, <4>3, <4>4, <4>5 DEF Next, Step
    <3> QED BY <1>1, <3>1, <3>2 DEF Typed
  <2> QED BY <1>1, <2>1, ReadGrows DEF Typed
<1>3. CASE MainStep
  BY <1>1, <1>2, <1>3, MainTracks
<1>4. ASSUME NEW t \in Threads, Step(t) PROVE Tracked'
  BY <1>1, <1>2, <1>4, ATracks, BTracks, CTracks DEF Step
<1>5. CASE UNCHANGED vars
  <2>1. /\ UNCHANGED <<queue, nRead, record, extractedValue, output>>
        /\ pc' = pc
    BY <1>5 DEF vars
  <2> QED BY <1>2, <2>1, QuietTracks DEF Carries, Holds, Writes
<1> QED BY <1>3, <1>4, <1>5 DEF Next

(* The pointer a B of EXAMS/2016-07-01/main.cpp follows after it has left the *)
(* critical section (line 473) is good, however many threads and files there  *)
(* are, as long as no more records were read than a ring has slots: each      *)
(* record that is written out is in upper case, and is written once.          *)
THEOREM RecordsKept == Spec => []RecordsIntact
<1> DEFINE T == Unturned => Tracked
<1>1. Init => T
  BY StartsTracked
<1>2. IInv /\ IInv' /\ T /\ [Next]_vars => T'
  BY TracksKept
<1>3. T => RecordsIntact
  <2> SUFFICES ASSUME Tracked PROVE Intact
    BY DEF RecordsIntact, Unturned
  <2>1. /\ \A i \in DOMAIN output : output[i].upper
        /\ \A i, j \in DOMAIN output : output[i] = output[j] => i = j
    BY DEF Tracked, WrittenOnce
  <2> QED BY <2>1 DEF Intact, IsInjective
<1> HIDE DEF T
<1> QED BY <1>1, <1>2, <1>3, Inductive, PTL DEF Spec

=============================================================================
