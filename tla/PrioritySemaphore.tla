------------------------- MODULE PrioritySemaphore -------------------------
(* EXAMS/2011-09-14/main.c: a semaphore whose waiters are served by class,   *)
(* built from a counter, a sorted list of private semaphores and a mutex.    *)
(* The threads report to the main thread through a pipe; the main thread     *)
(* signals once for each request it reads there.                             *)
EXTENDS Integers, Sequences, FiniteSets, SequencesExt

CONSTANTS
    K,         \* number of threads
    Rounds,    \* bound: requests a thread makes (the code loops for ever)
    PipeWords, \* ints the pipe holds
    Main,      \* the main thread
    NoOne      \* owner of a free mutex

Threads == 0 .. K - 1
Classes == 0 .. 2

SemaphoreAssumption ==
    /\ K \in Nat \ {0} /\ Rounds \in Nat \ {0} /\ PipeWords \in Nat \ {0}
    /\ Main \notin Threads /\ NoOne \notin Threads /\ Main # NoOne

VARIABLES
    cnt,       \* s->cnt
    sem_list,  \* the waiters in list order (sentinels left out)
    posted,    \* the value of each waiter's private semaphore
    mutex,     \* who holds s->mutex
    pipe,      \* ints written and not yet read
    class,     \* the class drawn for each thread
    round,     \* requests a thread has completed
    psPc,      \* next step of each thread and of Main
    msg        \* t_id, priority, N as far as Main has read them

psVars == <<cnt, sem_list, posted, mutex, pipe, class, round, psPc, msg>>

PSInit ==
    /\ cnt = 0 /\ sem_list = <<>> /\ mutex = NoOne
    /\ posted = [t \in Threads |-> 0]
    /\ pipe = <<>> /\ msg = <<>>
    /\ class \in [Threads -> Classes]
    /\ round = [t \in Threads |-> 0]
    /\ psPc = [t \in Threads \cup {Main} |-> IF t = Main THEN "read" ELSE "id0"]

PSGoto(t, from, to) ==
    /\ psPc[t] = from
    /\ psPc' = [psPc EXCEPT ![t] = to]

(* mutex, a semaphore of value 1 *)
Acquire(t) == mutex = NoOne /\ mutex' = t
Release(t) == mutex' = NoOne

(* The new element goes behind the n-th. *)
PutBehind(list, n, t) == SubSeq(list, 1, n) \o <<t>> \o SubSeq(list, n + 1, Len(list))

(* enqueue_sorted: the search passes the waiters of the same or a higher class
   and stops at the first of a lower one. *)
enqueue_strict(list, t) ==
    LET passed == {i \in DOMAIN list : \A j \in 1 .. i : class[list[j]] > class[t]}
    IN  PutBehind(list, Cardinality(passed), t)
enqueue_sorted(list, t) ==
    LET passed == {i \in DOMAIN list : \A j \in 1 .. i : class[list[j]] >= class[t]}
    IN  PutBehind(list, Cardinality(passed), t)

-----------------------------------------------------------------------------
(* th_work *)

(* Each of the three ints of a report is a write of its own. *)
Write(t, from, word, to) ==
    /\ PSGoto(t, from, to)
    /\ Len(pipe) < PipeWords
    /\ pipe' = Append(pipe, word)
    /\ UNCHANGED <<cnt, sem_list, posted, mutex, class, msg>>

Report(t) ==
    \/ round[t] < Rounds /\ Write(t, "id0", t, "class0") /\ UNCHANGED round
    \/ Write(t, "class0", class[t], "status0") /\ UNCHANGED round
    \/ Write(t, "status0", 0, "lock") /\ UNCHANGED round
    \/ Write(t, "id1", t, "class1") /\ UNCHANGED round
    \/ Write(t, "class1", class[t], "status1") /\ UNCHANGED round
    \/ Write(t, "status1", 1, "id0") /\ round' = [round EXCEPT ![t] = @ + 1]

WaitLock(t) ==
    /\ PSGoto(t, "lock", "count")
    /\ Acquire(t)
    /\ UNCHANGED <<cnt, sem_list, posted, pipe, class, round, msg>>

(* "--s->cnt < 0": the thread enters the list before it gives the mutex back *)
WaitCount(t) ==
    /\ cnt' = cnt - 1
    /\ \/ /\ cnt - 1 < 0
          /\ sem_list' = enqueue_sorted(sem_list, t)
          /\ PSGoto(t, "count", "unlock")
       \/ /\ cnt - 1 >= 0
          /\ UNCHANGED sem_list
          /\ PSGoto(t, "count", "pass")
    /\ UNCHANGED <<posted, mutex, pipe, class, round, msg>>

WaitUnlock(t) ==
    /\ \/ PSGoto(t, "unlock", "block")
       \/ PSGoto(t, "pass", "id1")
    /\ Release(t)
    /\ UNCHANGED <<cnt, sem_list, posted, pipe, class, round, msg>>

(* sem_wait on the private semaphore *)
Block(t) ==
    /\ PSGoto(t, "block", "id1")
    /\ posted[t] > 0
    /\ posted' = [posted EXCEPT ![t] = @ - 1]
    /\ UNCHANGED <<cnt, sem_list, mutex, pipe, class, round, msg>>

-----------------------------------------------------------------------------
(* main *)

ReadWord ==
    /\ psPc[Main] = "read"
    /\ Len(msg) < 3 /\ pipe # <<>>
    /\ msg' = Append(msg, Head(pipe))
    /\ pipe' = Tail(pipe)
    /\ UNCHANGED <<cnt, sem_list, posted, mutex, class, round, psPc>>

(* The line is logged; N = 0 calls ps_signal, which locks first *)
Log ==
    /\ Len(msg) = 3
    /\ msg' = <<>>
    /\ \/ msg[3] = 0 /\ Acquire(Main) /\ PSGoto(Main, "read", "signal")
       \/ msg[3] # 0 /\ psPc[Main] = "read" /\ UNCHANGED <<mutex, psPc>>
    /\ UNCHANGED <<cnt, sem_list, posted, pipe, class, round>>

(* "++s->cnt <= 0": the head of the list is taken out and its semaphore posted *)
SignalCountUnposted ==
    /\ PSGoto(Main, "signal", "unlock")
    /\ cnt' = cnt + 1
    /\ sem_list' = IF cnt + 1 <= 0 THEN Tail(sem_list) ELSE sem_list
    /\ UNCHANGED <<posted, mutex, pipe, class, round, msg>>
SignalCountStrict ==
    /\ PSGoto(Main, "signal", "unlock")
    /\ cnt' = cnt + 1
    /\ \/ /\ cnt + 1 < 0
          /\ posted' = [posted EXCEPT ![Head(sem_list)] = @ + 1]
          /\ sem_list' = Tail(sem_list)
       \/ /\ cnt + 1 >= 0
          /\ UNCHANGED <<posted, sem_list>>
    /\ UNCHANGED <<mutex, pipe, class, round, msg>>
SignalCount ==
    /\ PSGoto(Main, "signal", "unlock")
    /\ cnt' = cnt + 1
    /\ \/ /\ cnt + 1 <= 0
          /\ posted' = [posted EXCEPT ![Head(sem_list)] = @ + 1]
          /\ sem_list' = Tail(sem_list)
       \/ /\ cnt + 1 > 0
          /\ UNCHANGED <<posted, sem_list>>
    /\ UNCHANGED <<mutex, pipe, class, round, msg>>

SignalUnlock ==
    /\ PSGoto(Main, "unlock", "read")
    /\ Release(Main)
    /\ UNCHANGED <<cnt, sem_list, posted, pipe, class, round, msg>>

-----------------------------------------------------------------------------
th_work(t) == Report(t) \/ WaitLock(t) \/ WaitCount(t) \/ WaitUnlock(t) \/ Block(t)
MainStep == ReadWord \/ Log \/ SignalCount \/ SignalUnlock

PSNext == MainStep \/ \E t \in Threads : th_work(t)

PSSpec == PSInit /\ [][PSNext]_psVars

-----------------------------------------------------------------------------
(* Properties *)

PSTypeOK ==
    /\ cnt \in Int
    /\ sem_list \in Seq(Threads)
    /\ posted \in [Threads -> {0, 1}]
    /\ mutex \in Threads \cup {Main, NoOne}
    /\ pipe \in Seq(Nat) /\ Len(pipe) <= PipeWords
    /\ class \in [Threads -> Classes]
    /\ round \in [Threads -> 0 .. Rounds]
    /\ psPc \in [Threads \cup {Main} -> {"id0", "class0", "status0", "lock", "count", "pass",
                                         "unlock", "block", "id1", "class1", "status1",
                                         "read", "signal"}]
    /\ msg \in Seq(Nat) /\ Len(msg) <= 3

(* The sign of cnt tells ps_signal whether to dequeue: the list never runs
   empty under a negative counter, nor keeps a waiter under a positive one. *)
CountMatchesList ==
    /\ PSTypeOK
    /\ IF cnt < 0 THEN Len(sem_list) = - cnt ELSE sem_list = <<>>

(* A thread that must sleep is in the list or has been posted, never both and
   never neither, even before it reaches its sem_wait: no wakeup is lost. *)
NoLostWakeup ==
    \A t \in Threads :
        /\ psPc[t] \in {"unlock", "block"} <=> posted[t] = 1 \/ Contains(sem_list, t)
        /\ ~ (posted[t] = 1 /\ Contains(sem_list, t))

(* The threads ps_wait has let through, or is about to *)
Admitted == {t \in Threads : posted[t] = 1 \/ psPc[t] \in {"pass", "id1", "class1", "status1"}}

(* How many waiters of a list are of class k or higher.  The list is sorted: those
   of class k stand behind those of a higher class. *)
Rank(list, k) == Cardinality({i \in DOMAIN list : class[list[i]] >= k})
Line(list, k) == SubSeq(list, Rank(list, k + 1) + 1, Rank(list, k))

Gate == INSTANCE PriorityGate WITH
    tokens <- IF cnt > 0 THEN cnt ELSE 0,
    queues <- [k \in Classes |-> Line(sem_list, k)],
    admitted <- Admitted

(* Signals serve the waiters by class, and in order of arrival in a class. *)
GateSpec == Gate!Spec
=============================================================================
