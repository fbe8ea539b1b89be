---------------------------- MODULE FilePipeline ----------------------------
(* EXAMS/2016-07-01/main.cpp (LAB12/E01.cpp is the same program): N threads   *)
(* A read records from the input files and pass them, through N ring queues, *)
(* to N threads B, and these through N more queues to N threads C, which     *)
(* write them to the output files.  A pair of semaphores fill/empty and a    *)
(* critical section guard all the queues of a stage together.                *)
EXTENDS Integers, Sequences, FiniteSets, SequencesExt

CONSTANTS
    A, B, C,   \* the threads of each kind
    Main,      \* the main thread
    N,         \* numThread: threads of a kind, queues of a stage, input files
    QSize,     \* size of a ring (10 in the code)
    Records,   \* Records[f]: how many records input file f has
    MayFail,   \* the input files that CreateFile may fail to open
    OutFails,  \* whether CreateFile may fail on an output file
    NoRecord,  \* the content of a slot never written
    NoOne      \* owner of a free critical section

Files == 1 .. N
Stages == {"AB", "BC"}
Threads == A \cup B \cup C
Ids == UNION {{f} \X (0 .. Records[f] - 1) : f \in Files}     \* file, place in it

ASSUME PipelineAssumption ==
    /\ N \in Nat \ {0} /\ QSize \in Nat \ {0, 1}
    /\ Records \in [Files -> Nat] /\ MayFail \subseteq Files /\ OutFails \in BOOLEAN
    /\ \A kind \in {A, B, C} : IsFiniteSet(kind) /\ Cardinality(kind) = N
    /\ A \cap B = {} /\ B \cap C = {} /\ A \cap C = {}
    /\ {NoOne, Main} \cap Threads = {}
    /\ NoRecord \notin [id : Ids, upper : BOOLEAN]

VARIABLES
    fill, empty,     \* the semaphores fillAB, fillBC and emptyAB, emptyBC
    cs,              \* who holds csAB, csBC
    queue,           \* queue["AB"] is the array queueA, queue["BC"] is queueB
    isDone,          \* isDoneA, isDoneB
    csFileOpening,   \* who holds csFileOpening
    hashOpenedFileA, \* the input files opened
    file,            \* the input file of each A
    nRead,           \* records read from each input file
    record,          \* the local recordApp of each A
    extractedValue,  \* the pointer of each B and C: <<queue, slot>>
    output,          \* the records written, all output files together
    pc

shared == <<fill, empty, cs, queue, isDone>>
input == <<csFileOpening, hashOpenedFileA, file, nRead, record>>
vars == <<fill, empty, cs, queue, isDone, csFileOpening, hashOpenedFileA, file, nRead,
          record, extractedValue, output, pc>>

Start(t) == IF t \in A THEN "open" ELSE IF t = Main THEN "joinA" ELSE "waitFill"

Init ==
    /\ fill = [c \in Stages |-> 0] /\ empty = [c \in Stages |-> 1]
    /\ cs = [c \in Stages |-> NoOne]
    /\ queue = [c \in Stages |-> [q \in Files |->
           [read |-> 0, write |-> 0, buffer |-> [i \in 0 .. QSize - 1 |-> NoRecord]]]]
    /\ isDone = [c \in Stages |-> FALSE]
    /\ csFileOpening = NoOne /\ hashOpenedFileA = {}
    /\ file = [t \in A |-> 0] /\ nRead = [f \in Files |-> 0]
    /\ record = [t \in A |-> NoRecord]
    /\ extractedValue = [t \in B \cup C |-> <<>>]
    /\ output = <<>>
    /\ pc = [t \in Threads \cup {Main} |-> Start(t)]

Goto(t, from, to) ==
    /\ pc[t] = from
    /\ pc' = [pc EXCEPT ![t] = to]

-----------------------------------------------------------------------------
(* The ring.  insert does not look whether it is full; remove gives back a    *)
(* pointer into the buffer and not a copy.                                   *)

insert(c, q, rec) ==
    queue' = [queue EXCEPT ![c][q].buffer[queue[c][q].write] = rec,
                           ![c][q].write = (@ + 1) % QSize]

NonEmpty(c) == {q \in Files : queue[c][q].read # queue[c][q].write}

Target(c, ptr) == queue[c][ptr[1]].buffer[ptr[2]]

(* B turns letters to upper case in the slot itself *)
Rewritten(c, rec) == IF c = "AB" THEN [rec EXCEPT !.upper = TRUE] ELSE rec

-----------------------------------------------------------------------------
(* The two ends of a stage; a thread goes on at "to". *)

WaitEmpty(t, c) ==
    /\ Goto(t, "waitEmpty", "enterPut")
    /\ empty[c] > 0
    /\ empty' = [empty EXCEPT ![c] = @ - 1]
    /\ UNCHANGED <<fill, cs, queue, isDone>> /\ UNCHANGED <<input, extractedValue, output>>

EnterCS(t, c, from, to) ==
    /\ Goto(t, from, to)
    /\ cs[c] = NoOne
    /\ cs' = [cs EXCEPT ![c] = t]
    /\ UNCHANGED <<fill, empty, queue, isDone>> /\ UNCHANGED <<input, extractedValue, output>>

LeaveCS(t, c, from, to) ==
    /\ Goto(t, from, to)
    /\ cs' = [cs EXCEPT ![c] = NoOne]
    /\ UNCHANGED <<fill, empty, queue, isDone>> /\ UNCHANGED <<input, extractedValue, output>>

(* ReleaseSemaphore fails at the maximum N and the thread returns. *)
ReleaseFill(t, c, to) ==
    /\ Goto(t, "releaseFill", IF fill[c] < N THEN to ELSE "returned")
    /\ fill' = [fill EXCEPT ![c] = IF @ < N THEN @ + 1 ELSE @]
    /\ UNCHANGED <<empty, cs, queue, isDone>> /\ UNCHANGED <<input, extractedValue, output>>

WaitFill(t, c) ==
    /\ Goto(t, "waitFill", "check")
    /\ fill[c] > 0
    /\ fill' = [fill EXCEPT ![c] = @ - 1]
    /\ UNCHANGED <<empty, cs, queue, isDone>> /\ UNCHANGED <<input, extractedValue, output>>

(* The flag is read after the wait; what is still queued stays there. *)
CheckDoneNot(t, c) ==
    /\ Goto(t, "check", "enterGet")
    /\ UNCHANGED shared /\ UNCHANGED <<input, extractedValue, output>>
CheckDone(t, c) ==
    /\ Goto(t, "check", IF isDone[c] THEN "returned" ELSE "enterGet")
    /\ UNCHANGED shared /\ UNCHANGED <<input, extractedValue, output>>

(* Random queues are tried until one is not empty; when all are empty the
   loop never ends, with the critical section held. *)
ExtractUnmoved(t, c) ==
    /\ Goto(t, "extract", IF t \in B THEN "leaveGet" ELSE "write")
    /\ \E q \in NonEmpty(c) :
          LET s == queue[c][q].read
          IN  /\ extractedValue' = [extractedValue EXCEPT ![t] = <<q, s>>]
              /\ queue' = [queue EXCEPT ![c][q].buffer[s] = Rewritten(c, @)]
    /\ UNCHANGED <<fill, empty, cs, isDone>> /\ UNCHANGED <<input, output>>
Extract(t, c) ==
    /\ Goto(t, "extract", IF t \in B THEN "leaveGet" ELSE "write")
    /\ \E q \in NonEmpty(c) :
          LET s == queue[c][q].read
          IN  /\ extractedValue' = [extractedValue EXCEPT ![t] = <<q, s>>]
              /\ queue' = [queue EXCEPT ![c][q].buffer[s] = Rewritten(c, @),
                                        ![c][q].read = (@ + 1) % QSize]
    /\ UNCHANGED <<fill, empty, cs, isDone>> /\ UNCHANGED <<input, output>>

ReleaseEmptyTwice(t, c, to) ==
    /\ Goto(t, "releaseEmpty", IF empty[c] < N THEN to ELSE "returned")
    /\ empty' = [empty EXCEPT ![c] = IF @ < N THEN @ + 2 ELSE @]
    /\ UNCHANGED <<fill, cs, queue, isDone>> /\ UNCHANGED <<input, extractedValue, output>>
ReleaseEmpty(t, c, to) ==
    /\ Goto(t, "releaseEmpty", IF empty[c] < N THEN to ELSE "returned")
    /\ empty' = [empty EXCEPT ![c] = IF @ < N THEN @ + 1 ELSE @]
    /\ UNCHANGED <<fill, cs, queue, isDone>> /\ UNCHANGED <<input, extractedValue, output>>

-----------------------------------------------------------------------------
(* ThAWork *)

(* A file nobody opened is drawn; when it does not open, the thread returns
   and keeps csFileOpening. *)
OpenFile(t) ==
    /\ csFileOpening = NoOne
    /\ \E f \in Files \ hashOpenedFileA :
          \/ /\ Goto(t, "open", "read")
             /\ file' = [file EXCEPT ![t] = f]
             /\ hashOpenedFileA' = hashOpenedFileA \cup {f}
             /\ UNCHANGED csFileOpening
          \/ /\ f \in MayFail
             /\ Goto(t, "open", "returned")
             /\ csFileOpening' = t
             /\ UNCHANGED <<file, hashOpenedFileA>>
    /\ UNCHANGED shared /\ UNCHANGED <<nRead, record, extractedValue, output>>

ReadRecord(t) ==
    /\ pc[t] = "read"
    /\ LET f == file[t]
       IN  \/ /\ nRead[f] < Records[f]
              /\ Goto(t, "read", "waitEmpty")
              /\ nRead' = [nRead EXCEPT ![f] = @ + 1]
              /\ record' = [record EXCEPT ![t] = [id |-> <<f, nRead[f]>>, upper |-> FALSE]]
           \/ /\ nRead[f] = Records[f]
              /\ Goto(t, "read", "returned")
              /\ UNCHANGED <<nRead, record>>
    /\ UNCHANGED shared
    /\ UNCHANGED <<csFileOpening, hashOpenedFileA, file, extractedValue, output>>

InsertRead(t) ==
    /\ Goto(t, "put", "leavePut")
    /\ \E q \in Files : insert("AB", q, record[t])
    /\ UNCHANGED <<fill, empty, cs, isDone>> /\ UNCHANGED <<input, extractedValue, output>>

ThAWork(t) ==
    \/ OpenFile(t) \/ ReadRecord(t)
    \/ WaitEmpty(t, "AB") \/ EnterCS(t, "AB", "enterPut", "put") \/ InsertRead(t)
    \/ LeaveCS(t, "AB", "leavePut", "releaseFill") \/ ReleaseFill(t, "AB", "read")

-----------------------------------------------------------------------------
(* ThBWork: the slot of queue A is read again, after csAB was left, to fill
   the slot of queue B. *)
InsertExtracted(t) ==
    /\ Goto(t, "put", "leavePut")
    /\ \E q \in Files : insert("BC", q, Target("AB", extractedValue[t]))
    /\ extractedValue' = [extractedValue EXCEPT ![t] = <<>>]
    /\ UNCHANGED <<fill, empty, cs, isDone>> /\ UNCHANGED <<input, output>>

ThBWork(t) ==
    \/ WaitFill(t, "AB") \/ CheckDone(t, "AB")
    \/ EnterCS(t, "AB", "enterGet", "extract") \/ Extract(t, "AB")
    \/ LeaveCS(t, "AB", "leaveGet", "releaseEmpty") \/ ReleaseEmpty(t, "AB", "waitEmpty")
    \/ WaitEmpty(t, "BC") \/ EnterCS(t, "BC", "enterPut", "put") \/ InsertExtracted(t)
    \/ LeaveCS(t, "BC", "leavePut", "releaseFill") \/ ReleaseFill(t, "BC", "waitFill")

-----------------------------------------------------------------------------
(* ThCWork: when the output file does not open, the thread returns and keeps
   csBC. *)
WriteOut(t) ==
    /\ \/ /\ Goto(t, "write", "leaveGet")
          /\ output' = Append(output, Target("BC", extractedValue[t]))
          /\ extractedValue' = [extractedValue EXCEPT ![t] = <<>>]
       \/ /\ OutFails
          /\ Goto(t, "write", "returned")
          /\ UNCHANGED <<output, extractedValue>>
    /\ UNCHANGED shared /\ UNCHANGED input

ThCWork(t) ==
    \/ WaitFill(t, "BC") \/ CheckDone(t, "BC")
    \/ EnterCS(t, "BC", "enterGet", "extract") \/ Extract(t, "BC") \/ WriteOut(t)
    \/ LeaveCS(t, "BC", "leaveGet", "releaseEmpty") \/ ReleaseEmpty(t, "BC", "waitFill")

-----------------------------------------------------------------------------
(* _tmain: join the threads of a kind, set the flag, wake the next kind up *)

Join(kind, c, from, to) ==
    /\ Goto(Main, from, to)
    /\ \A t \in kind : pc[t] = "returned"
    /\ isDone' = [isDone EXCEPT ![c] = TRUE]
    /\ UNCHANGED <<fill, empty, cs, queue>> /\ UNCHANGED <<input, extractedValue, output>>

(* Releasing N permits at once fails, and adds none, when one is there *)
WakeAll(c, from, to) ==
    /\ Goto(Main, from, to)
    /\ fill' = [fill EXCEPT ![c] = IF @ + N <= N THEN @ + N ELSE @]
    /\ UNCHANGED <<empty, cs, queue, isDone>> /\ UNCHANGED <<input, extractedValue, output>>

JoinLast ==
    /\ Goto(Main, "joinC", "end")
    /\ \A t \in C : pc[t] = "returned"
    /\ UNCHANGED shared /\ UNCHANGED <<input, extractedValue, output>>

MainStep ==
    \/ Join(A, "AB", "joinA", "wakeB") \/ WakeAll("AB", "wakeB", "joinB")
    \/ Join(B, "BC", "joinB", "wakeC") \/ WakeAll("BC", "wakeC", "joinC")
    \/ JoinLast

-----------------------------------------------------------------------------
Step(t) == (t \in A /\ ThAWork(t)) \/ (t \in B /\ ThBWork(t)) \/ (t \in C /\ ThCWork(t))

Next == MainStep \/ \E t \in Threads : Step(t)

Spec == Init /\ [][Next]_vars

(* A thread that can run is scheduled; semaphores and critical sections serve
   every thread that waits (Windows queues the waiters). *)
Fairness == WF_vars(MainStep) /\ \A t \in Threads : SF_vars(Step(t))
FairSpec == Spec /\ Fairness

-----------------------------------------------------------------------------
(* Properties *)

RecordSet == [id : Ids, upper : BOOLEAN] \cup {NoRecord}

TypeOK ==
    /\ fill \in [Stages -> 0 .. N] /\ empty \in [Stages -> 0 .. N]
    /\ cs \in [Stages -> Threads \cup {NoOne}]
    /\ \A c \in Stages, q \in Files :
          /\ {queue[c][q].read, queue[c][q].write} \subseteq 0 .. QSize - 1
          /\ queue[c][q].buffer \in [0 .. QSize - 1 -> RecordSet]
    /\ isDone \in [Stages -> BOOLEAN]
    /\ csFileOpening \in A \cup {NoOne} /\ hashOpenedFileA \subseteq Files
    /\ file \in [A -> 0 .. N] /\ nRead \in [Files -> Nat]
    /\ record \in [A -> RecordSet]
    /\ extractedValue \in [B \cup C -> {<<>>} \cup (Files \X (0 .. QSize - 1))]
    /\ output \in Seq(RecordSet)

Putting(c) == {t \in (IF c = "AB" THEN A ELSE B) :
                 pc[t] \in {"enterPut", "put", "leavePut", "releaseFill"}}
Getting(c) == {t \in (IF c = "AB" THEN B ELSE C) :
                 \/ pc[t] \in {"check", "enterGet", "extract", "write", "leaveGet", "releaseEmpty"}
                 \/ cs[c] = t /\ pc[t] = "returned"}

(* emptyAB and emptyBC start at 1: until a stage is shut down one permit goes
   round in it, so that no two threads are ever busy with its queues. *)
OnePermit ==
    \A c \in Stages :
        ~ isDone[c] => empty[c] + fill[c] + Cardinality(Putting(c)) + Cardinality(Getting(c)) = 1

(* A thread that looks for a record finds one: it never spins for ever with
   the critical section of the stage held. *)
ExtractFinds ==
    /\ TypeOK
    /\ \A c \in Stages : \A t \in Getting(c) : pc[t] = "extract" => NonEmpty(c) # {}

WasRead == {id \in Ids : id[2] < nRead[id[1]]}
Intact == IsInjective(output) /\ \A i \in DOMAIN output : output[i].upper

(* What is written out was upper-cased, and no record is written twice: the
   slot a B points to is not reused while it is needed.  Only the size of the
   rings ensures it, so nothing is said once more records were read. *)
RecordsIntact == Cardinality(WasRead) <= QSize => Intact

(* The program ends, and when no file failed every record is written: the
   threads "stop following a proper and clean procedure". *)
CleanStop ==
    <>(/\ pc[Main] = "end"
       /\ {output[i].id : i \in DOMAIN output}
            = UNION {{<<f, n>> : n \in 0 .. Records[f] - 1} : f \in Files})
=============================================================================
