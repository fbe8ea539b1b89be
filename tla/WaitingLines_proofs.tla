------------------------- MODULE WaitingLines_proofs -------------------------
(* Threads that stand in a line.  The semaphore with classes of                *)
(* EXAMS/2011-09-14/main.c: its counter always tells whether somebody waits,   *)
(* and no wakeup is lost or given twice, for any number of threads and of      *)
(* rounds and any size of the pipe.  The trains of EXAMS/2013-07-22/main.c: no *)
(* station track ever holds two of them, and the permits of the tracks between *)
(* stations are conserved, for any number of trains and of stations.           *)
EXTENDS PrioritySemaphore, CircleLine, FiniteSetTheorems, FunctionTheorems, SequenceTheorems,
        WellFoundedInduction, TLAPS

(* The semaphore with classes *)

(* A thread enters the list when it is not there.                             *)
NoneTwice ==
    \A i, j \in 1 .. Len(sem_list) : sem_list[i] = sem_list[j] => i = j

(* A thread reports only in rounds that are left to it.                       *)
RoundLeft == \A t \in Threads : psPc[t] # "id0" => round[t] < Rounds

PSIInv == CountMatchesList /\ NoLostWakeup /\ NoneTwice /\ RoundLeft

-----------------------------------------------------------------------------
(* Lists *)

(* Where PutBehind leaves the new element and the others.                     *)
LEMMA PutBehindProperties ==
    ASSUME NEW S, NEW list \in Seq(S), NEW n \in 0 .. Len(list), NEW e \in S
    PROVE  LET ins == PutBehind(list, n, e)
           IN  /\ ins \in Seq(S) /\ Len(ins) = Len(list) + 1
               /\ \A i \in 1 .. Len(list) + 1 :
                     ins[i] = IF i <= n THEN list[i] ELSE IF i = n + 1 THEN e ELSE list[i - 1]
<1> DEFINE l == Len(list)
           front == SubSeq(list, 1, n)
           back == SubSeq(list, n + 1, l)
           withE == front \o <<e>>
           ins == withE \o back
<1>1. l \in Nat /\ n \in Nat /\ n <= l /\ \A i \in 1 .. l : list[i] \in S
  BY LenProperties
<1>2. front \in Seq(S) /\ Len(front) = n /\ \A i \in 1 .. n : front[i] = list[i]
  <2>1. 1 \in Int /\ n \in Int /\ \A i \in 1 .. n : list[i] \in S
    BY <1>1
  <2>2. /\ front \in Seq(S) /\ Len(front) = IF 1 <= n THEN n - 1 + 1 ELSE 0
        /\ \A i \in 1 .. n - 1 + 1 : front[i] = list[1 + i - 1]
    BY <2>1, SubSeqProperties
  <2> HIDE DEF front
  <2> QED BY <1>1, <2>2
<1>3. back \in Seq(S) /\ Len(back) = l - n /\ \A i \in 1 .. l - n : back[i] = list[n + i]
  <2>1. n + 1 \in Int /\ l \in Int /\ \A i \in n + 1 .. l : list[i] \in S
    BY <1>1
  <2>2. /\ back \in Seq(S) /\ Len(back) = IF n + 1 <= l THEN l - (n + 1) + 1 ELSE 0
        /\ \A i \in 1 .. l - (n + 1) + 1 : back[i] = list[(n + 1) + i - 1]
    BY <2>1, SubSeqProperties
  <2> HIDE DEF back
  <2> QED BY <1>1, <2>2
<1>4. <<e>> \in Seq(S) /\ Len(<<e>>) = 1 /\ <<e>>[1] = e
  OBVIOUS
<1>5. /\ withE \in Seq(S) /\ Len(withE) = n + 1
      /\ \A i \in 1 .. n + 1 : withE[i] = IF i <= n THEN list[i] ELSE e
  <2>1. /\ withE \in Seq(S) /\ Len(withE) = Len(front) + Len(<<e>>)
        /\ \A i \in 1 .. Len(front) + Len(<<e>>) :
              withE[i] = IF i <= Len(front) THEN front[i] ELSE <<e>>[i - Len(front)]
    BY <1>2, <1>4, ConcatProperties
  <2> HIDE DEF withE, front
  <2> QED BY <1>1, <1>2, <1>4, <2>1
<1>6. /\ ins \in Seq(S) /\ Len(ins) = l + 1
      /\ \A i \in 1 .. l + 1 :
            ins[i] = IF i <= n THEN list[i] ELSE IF i = n + 1 THEN e ELSE list[i - 1]
  <2>1. /\ ins \in Seq(S) /\ Len(ins) = Len(withE) + Len(back)
        /\ \A i \in 1 .. Len(withE) + Len(back) :
              ins[i] = IF i <= Len(withE) THEN withE[i] ELSE back[i - Len(withE)]
    BY <1>3, <1>5, ConcatProperties
  <2> HIDE DEF ins, withE, back
  <2>2. Len(ins) = l + 1
    BY <1>1, <1>3, <1>5, <2>1
  <2>3. ASSUME NEW i \in 1 .. l + 1
        PROVE  ins[i] = IF i <= n THEN list[i] ELSE IF i = n + 1 THEN e ELSE list[i - 1]
    <3>1. CASE i <= n + 1
      <4>1. i \in 1 .. n + 1 /\ i \in 1 .. Len(withE) + Len(back) /\ i <= Len(withE)
        BY <1>1, <1>3, <1>5, <3>1
      <4>2. ins[i] = withE[i]
        BY <2>1, <4>1
      <4> QED BY <1>1, <1>5, <4>1, <4>2
    <3>2. CASE i > n + 1
      <4>1. i - (n + 1) \in 1 .. l - n /\ n + (i - (n + 1)) = i - 1
        BY <1>1, <3>2
      <4>2. ins[i] = back[i - (n + 1)]
        BY <1>1, <1>3, <1>5, <2>1, <3>2
      <4>3. back[i - (n + 1)] = list[i - 1]
        BY <4>1, <1>3
      <4> QED BY <1>1, <3>2, <4>2, <4>3
    <3> QED BY <1>1, <3>1, <3>2
  <2> QED BY <2>1, <2>2, <2>3
<1>7. PutBehind(list, n, e) = ins
  BY DEF PutBehind
<1> HIDE DEF ins
<1> QED BY <1>6, <1>7

(* enqueue_sorted keeps the waiters it finds, and adds the new one to them.   *)
LEMMA EnqueueProperties ==
    ASSUME NEW list \in Seq(Threads), NEW t \in Threads,
           \A i, j \in 1 .. Len(list) : list[i] = list[j] => i = j
    PROVE  LET longer == enqueue_sorted(list, t)
           IN  /\ longer \in Seq(Threads) /\ Len(longer) = Len(list) + 1
               /\ \A u \in Threads : Contains(longer, u) <=> u = t \/ Contains(list, u)
               /\ ~ Contains(list, t) =>
                     \A i, j \in 1 .. Len(longer) : longer[i] = longer[j] => i = j
<1> DEFINE passed == {i \in DOMAIN list : \A j \in 1 .. i : class[list[j]] >= class[t]}
           n == Cardinality(passed)
           longer == enqueue_sorted(list, t)
<1>1. Len(list) \in Nat /\ DOMAIN list = 1 .. Len(list)
  BY LenProperties
<1>2. n \in 0 .. Len(list)
  <2>1. IsFiniteSet(DOMAIN list) /\ Cardinality(DOMAIN list) = Len(list)
    BY <1>1, FS_Interval
  <2>2. passed \subseteq DOMAIN list
    OBVIOUS
  <2>3. IsFiniteSet(passed) /\ n <= Len(list)
    BY <2>1, <2>2, FS_Subset
  <2>4. n \in Nat
    BY <2>3, FS_CardinalityType
  <2> HIDE DEF n
  <2> QED BY <1>1, <2>3, <2>4
<1>3. longer = PutBehind(list, n, t)
  BY DEF enqueue_sorted
<1> HIDE DEF longer, n
<1>4. /\ longer \in Seq(Threads) /\ Len(longer) = Len(list) + 1
      /\ \A i \in 1 .. Len(list) + 1 :
            longer[i] = IF i <= n THEN list[i] ELSE IF i = n + 1 THEN t ELSE list[i - 1]
  <2> DEFINE ins == PutBehind(list, n, t)
  <2>1. /\ ins \in Seq(Threads) /\ Len(ins) = Len(list) + 1
        /\ \A i \in 1 .. Len(list) + 1 :
              ins[i] = IF i <= n THEN list[i] ELSE IF i = n + 1 THEN t ELSE list[i - 1]
    BY <1>2, PutBehindProperties
  <2> HIDE DEF ins
  <2>2. longer = ins
    BY <1>3 DEF ins
  <2> QED BY <2>1, <2>2
<1>5. ASSUME NEW u \in Threads
      PROVE  Contains(longer, u) <=> u = t \/ Contains(list, u)
  <2>1. ASSUME Contains(longer, u)
        PROVE  u = t \/ Contains(list, u)
    <3>1. PICK i \in 1 .. Len(list) + 1 : longer[i] = u
      BY <2>1, <1>4 DEF Contains
    <3>2. CASE i <= n
      BY <1>1, <1>2, <1>4, <3>1, <3>2 DEF Contains
    <3>3. CASE i = n + 1
      BY <1>1, <1>2, <1>4, <3>1, <3>3
    <3>4. CASE i > n + 1
      <4>1. i - 1 \in 1 .. Len(list) /\ longer[i] = list[i - 1]
        BY <1>1, <1>2, <1>4, <3>4
      <4> QED BY <4>1, <3>1 DEF Contains
    <3> QED BY <1>1, <1>2, <3>2, <3>3, <3>4
  <2>2. ASSUME u = t
        PROVE  Contains(longer, u)
    <3>1. n + 1 \in 1 .. Len(list) + 1 /\ longer[n + 1] = t
      BY <1>1, <1>2, <1>4
    <3> QED BY <2>2, <3>1, <1>4 DEF Contains
  <2>3. ASSUME Contains(list, u)
        PROVE  Contains(longer, u)
    <3>1. PICK i \in 1 .. Len(list) : list[i] = u
      BY <2>3 DEF Contains
    <3>2. CASE i <= n
      <4>1. i \in 1 .. Len(list) + 1 /\ longer[i] = u
        BY <1>1, <1>2, <1>4, <3>1, <3>2
      <4> QED BY <4>1, <1>4 DEF Contains
    <3>3. CASE i > n
      <4>1. i + 1 \in 1 .. Len(list) + 1 /\ ~ (i + 1 <= n) /\ i + 1 # n + 1 /\ (i + 1) - 1 = i
        BY <1>1, <1>2, <3>3
      <4>2. longer[i + 1] = u
        BY <4>1, <1>4, <3>1
      <4> QED BY <4>1, <4>2, <1>4 DEF Contains
    <3> QED BY <1>1, <1>2, <3>2, <3>3
  <2> QED BY <2>1, <2>2, <2>3
<1>6. ASSUME ~ Contains(list, t), NEW i \in 1 .. Len(longer), NEW j \in 1 .. Len(longer),
             longer[i] = longer[j]
      PROVE  i = j
  <2>1. \A k \in 1 .. Len(list) : list[k] # t
    BY <1>6 DEF Contains
  <2>2. i \in 1 .. Len(list) + 1 /\ j \in 1 .. Len(list) + 1
    BY <1>4
  <2>3. \A k \in 1 .. Len(list) + 1 :
           k > n + 1 => k - 1 \in 1 .. Len(list) /\ longer[k] = list[k - 1]
    BY <1>1, <1>2, <1>4
  <2>4. \A k \in 1 .. Len(list) + 1 : k <= n => k \in 1 .. Len(list) /\ longer[k] = list[k]
    BY <1>1, <1>2, <1>4
  <2>5. \A k \in 1 .. Len(list) + 1 : k = n + 1 => longer[k] = t
    BY <1>1, <1>2, <1>4
  <2>6. i \in Nat /\ j \in Nat /\ n \in Nat
    BY <1>1, <1>2, <2>2
  <2>7. \A k \in 1 .. Len(list) + 1 : longer[k] = t => k = n + 1
    BY <1>1, <1>2, <2>1, <2>3, <2>4
  <2>8. CASE i = n + 1 \/ j = n + 1
    BY <2>2, <2>5, <2>7, <2>8, <1>6
  <2>9. CASE i # n + 1 /\ j # n + 1
    <3>1. \A k \in 1 .. Len(list) + 1 : k # n + 1 => k <= n \/ k > n + 1
      BY <2>6
    <3>2. \A a, b \in 1 .. Len(list) : list[a] = list[b] => a = b
      OBVIOUS
    <3>3. CASE i <= n /\ j <= n
      BY <2>2, <2>4, <3>2, <3>3, <1>6
    <3>4. CASE i <= n /\ j > n + 1
      <4>1. /\ i \in 1 .. Len(list) /\ longer[i] = list[i]
            /\ j - 1 \in 1 .. Len(list) /\ longer[j] = list[j - 1]
        BY <2>2, <2>3, <2>4, <3>4
      <4>2. i = j - 1
        BY <4>1, <3>2, <1>6
      <4> QED BY <4>2, <2>6, <3>4
    <3>5. CASE i > n + 1 /\ j <= n
      <4>1. /\ j \in 1 .. Len(list) /\ longer[j] = list[j]
            /\ i - 1 \in 1 .. Len(list) /\ longer[i] = list[i - 1]
        BY <2>2, <2>3, <2>4, <3>5
      <4>2. j = i - 1
        BY <4>1, <3>2, <1>6
      <4> QED BY <4>2, <2>6, <3>5
    <3>6. CASE i > n + 1 /\ j > n + 1
      <4>1. /\ i - 1 \in 1 .. Len(list) /\ longer[i] = list[i - 1]
            /\ j - 1 \in 1 .. Len(list) /\ longer[j] = list[j - 1]
        BY <2>2, <2>3, <3>6
      <4>2. i - 1 = j - 1
        BY <4>1, <3>2, <1>6
      <4> QED BY <4>2, <2>6
    <3> QED BY <2>2, <2>9, <3>1, <3>3, <3>4, <3>5, <3>6
  <2> QED BY <2>8, <2>9
<1> QED BY <1>4, <1>5, <1>6 DEF longer

-----------------------------------------------------------------------------
(* Steps *)

(* The labels of the threads, of which Main uses "unlock" too.                *)
Labels == {"id0", "class0", "status0", "lock", "count", "pass", "unlock", "block", "id1",
           "class1", "status1", "read", "signal"}

(* What a step does to the counter, the list and the private semaphores.      *)
LEMMA Effects ==
    ASSUME PSIInv, SemaphoreAssumption, PSNext
    PROVE  \/ /\ cnt' = cnt /\ sem_list' = sem_list /\ posted' = posted
              /\ \A u \in Threads :
                       psPc'[u] \in {"unlock", "block"} <=> psPc[u] \in {"unlock", "block"}
           \/ \E t \in Threads :
                 /\ cnt' = cnt - 1 /\ posted' = posted /\ psPc[t] = "count"
                 /\ IF cnt - 1 < 0
                      THEN psPc'[t] = "unlock" /\ sem_list' = enqueue_sorted(sem_list, t)
                      ELSE psPc'[t] = "pass" /\ sem_list' = sem_list
                 /\ \A u \in Threads \ {t} : psPc'[u] = psPc[u]
           \/ \E t \in Threads :
                 /\ cnt' = cnt /\ sem_list' = sem_list
                 /\ posted[t] = 1 /\ posted' = [posted EXCEPT ![t] = 0]
                 /\ psPc[t] = "block" /\ psPc'[t] = "id1"
                 /\ \A u \in Threads \ {t} : psPc'[u] = psPc[u]
           \/ /\ cnt' = cnt + 1 /\ \A u \in Threads : psPc'[u] = psPc[u]
              /\ IF cnt + 1 <= 0
                   THEN /\ posted' = [posted EXCEPT ![Head(sem_list)] = @ + 1]
                        /\ sem_list' = Tail(sem_list)
                   ELSE posted' = posted /\ sem_list' = sem_list
<1>1. /\ Main \notin Threads /\ cnt \in Int /\ posted \in [Threads -> {0, 1}]
      /\ psPc \in [Threads \cup {Main} -> Labels]
  BY DEF PSIInv, CountMatchesList, PSTypeOK, SemaphoreAssumption, Labels
<1>2. ASSUME NEW t \in Threads, Report(t)
      PROVE  /\ cnt' = cnt /\ sem_list' = sem_list /\ posted' = posted
             /\ \A u \in Threads :
                      psPc'[u] \in {"unlock", "block"} <=> psPc[u] \in {"unlock", "block"}
  BY <1>1, <1>2 DEF Report, Write, PSGoto
<1>3. ASSUME NEW t \in Threads, WaitLock(t)
      PROVE  /\ cnt' = cnt /\ sem_list' = sem_list /\ posted' = posted
             /\ \A u \in Threads :
                      psPc'[u] \in {"unlock", "block"} <=> psPc[u] \in {"unlock", "block"}
  BY <1>1, <1>3 DEF WaitLock, PSGoto
<1>4. ASSUME NEW t \in Threads, WaitUnlock(t)
      PROVE  /\ cnt' = cnt /\ sem_list' = sem_list /\ posted' = posted
             /\ \A u \in Threads :
                      psPc'[u] \in {"unlock", "block"} <=> psPc[u] \in {"unlock", "block"}
  BY <1>1, <1>4 DEF WaitUnlock, PSGoto
<1>5. ASSUME NEW t \in Threads, WaitCount(t)
      PROVE  /\ cnt' = cnt - 1 /\ posted' = posted /\ psPc[t] = "count"
             /\ IF cnt - 1 < 0
                  THEN psPc'[t] = "unlock" /\ sem_list' = enqueue_sorted(sem_list, t)
                  ELSE psPc'[t] = "pass" /\ sem_list' = sem_list
             /\ \A u \in Threads \ {t} : psPc'[u] = psPc[u]
  BY <1>1, <1>5 DEF WaitCount, PSGoto
<1>6. ASSUME NEW t \in Threads, Block(t)
      PROVE  /\ cnt' = cnt /\ sem_list' = sem_list
             /\ posted[t] = 1 /\ posted' = [posted EXCEPT ![t] = 0]
             /\ psPc[t] = "block" /\ psPc'[t] = "id1"
             /\ \A u \in Threads \ {t} : psPc'[u] = psPc[u]
  <2>1. posted[t] = 1
    BY <1>1, <1>6 DEF Block
  <2> QED BY <1>1, <1>6, <2>1 DEF Block, PSGoto
<1>7. ASSUME ReadWord \/ Log \/ SignalUnlock
      PROVE  /\ cnt' = cnt /\ sem_list' = sem_list /\ posted' = posted
             /\ \A u \in Threads :
                      psPc'[u] \in {"unlock", "block"} <=> psPc[u] \in {"unlock", "block"}
  BY <1>1, <1>7 DEF ReadWord, Log, SignalUnlock, PSGoto
<1>8. ASSUME SignalCount
      PROVE  /\ cnt' = cnt + 1 /\ \A u \in Threads : psPc'[u] = psPc[u]
             /\ IF cnt + 1 <= 0
                  THEN /\ posted' = [posted EXCEPT ![Head(sem_list)] = @ + 1]
                       /\ sem_list' = Tail(sem_list)
                  ELSE posted' = posted /\ sem_list' = sem_list
  BY <1>1, <1>8 DEF SignalCount, PSGoto
<1> QED BY <1>2, <1>3, <1>4, <1>5, <1>6, <1>7, <1>8 DEF PSNext, MainStep, th_work

(* Locks, words, rounds and labels stay in range.                             *)
LEMMA Types ==
    ASSUME PSIInv, SemaphoreAssumption, PSNext
    PROVE  /\ mutex' \in Threads \cup {Main, NoOne}
           /\ pipe' \in Seq(Nat) /\ Len(pipe') <= PipeWords
           /\ class' = class
           /\ round' \in [Threads -> 0 .. Rounds] /\ RoundLeft'
           /\ psPc' \in [Threads \cup {Main} -> Labels]
           /\ msg' \in Seq(Nat) /\ Len(msg') <= 3
<1>1. /\ Main \notin Threads /\ mutex \in Threads \cup {Main, NoOne}
      /\ pipe \in Seq(Nat) /\ Len(pipe) <= PipeWords /\ class \in [Threads -> Classes]
      /\ round \in [Threads -> 0 .. Rounds] /\ psPc \in [Threads \cup {Main} -> Labels]
      /\ msg \in Seq(Nat) /\ Len(msg) <= 3 /\ Rounds \in Nat /\ PipeWords \in Nat
      /\ \A t \in Threads : psPc[t] # "id0" => round[t] < Rounds
  BY DEF PSIInv, CountMatchesList, PSTypeOK, SemaphoreAssumption, Labels, RoundLeft
<1>2. ASSUME NEW t \in Threads, Report(t)
      PROVE  /\ mutex' = mutex /\ pipe' \in Seq(Nat) /\ Len(pipe') <= PipeWords
             /\ class' = class /\ round' \in [Threads -> 0 .. Rounds] /\ RoundLeft'
             /\ psPc' \in [Threads \cup {Main} -> Labels] /\ msg' = msg
  <2>1. PICK from \in Labels, to \in Labels, word \in Nat :
           /\ Write(t, from, word, to)
           /\ \/ from = "id0" /\ round[t] < Rounds /\ round' = round
              \/ from \notin {"id0", "status1"} /\ round' = round
              \/ from = "status1" /\ to = "id0" /\ round' = [round EXCEPT ![t] = @ + 1]
    <3>1. t \in Nat /\ class[t] \in Nat /\ 0 \in Nat /\ 1 \in Nat
      BY <1>1 DEF Threads, Classes
    <3> QED BY <1>2, <3>1 DEF Report, Labels
  <2>2. /\ mutex' = mutex /\ class' = class /\ msg' = msg /\ psPc[t] = from
        /\ psPc' = [psPc EXCEPT ![t] = to] /\ pipe' = Append(pipe, word) /\ Len(pipe) < PipeWords
    BY <2>1 DEF Write, PSGoto
  <2>3. pipe' \in Seq(Nat) /\ Len(pipe') = Len(pipe) + 1 /\ Len(pipe) \in Nat
    BY <1>1, <2>2, AppendProperties, LenProperties
  <2>4. round' \in [Threads -> 0 .. Rounds]
    BY <1>1, <2>1, <2>2
  <2>5. RoundLeft'
    BY <1>1, <2>1, <2>2 DEF RoundLeft
  <2> QED BY <1>1, <2>2, <2>3, <2>4, <2>5
<1>3. ASSUME NEW t \in Threads, WaitLock(t) \/ WaitCount(t) \/ WaitUnlock(t) \/ Block(t)
      PROVE  /\ mutex' \in {mutex, t, NoOne} /\ pipe' = pipe /\ class' = class /\ round' = round
             /\ RoundLeft' /\ psPc' \in [Threads \cup {Main} -> Labels] /\ msg' = msg
  <2>1. PICK from \in Labels \ {"id0"}, to \in Labels :
           /\ PSGoto(t, from, to) /\ mutex' \in {mutex, t, NoOne} /\ pipe' = pipe
           /\ class' = class /\ round' = round /\ msg' = msg
    BY <1>3 DEF WaitLock, WaitCount, WaitUnlock, Block, Acquire, Release, Labels
  <2> QED BY <1>1, <2>1 DEF PSGoto, RoundLeft
<1>4. CASE ReadWord
  <2>1. /\ msg' = Append(msg, Head(pipe)) /\ pipe' = Tail(pipe) /\ pipe # <<>> /\ Len(msg) < 3
        /\ mutex' = mutex /\ class' = class /\ round' = round /\ psPc' = psPc
    BY <1>4 DEF ReadWord
  <2>2. Head(pipe) \in Nat /\ pipe' \in Seq(Nat) /\ Len(pipe') = Len(pipe) - 1 /\ Len(pipe) \in Nat
    BY <1>1, <2>1, HeadTailProperties, LenProperties
  <2>3. msg' \in Seq(Nat) /\ Len(msg') = Len(msg) + 1 /\ Len(msg) \in Nat
    BY <1>1, <2>1, <2>2, AppendProperties, LenProperties
  <2> QED BY <1>1, <2>1, <2>2, <2>3 DEF RoundLeft
<1>5. CASE Log \/ SignalCount \/ SignalUnlock
  <2>1. /\ mutex' \in {mutex, Main, NoOne} /\ msg' \in {msg, <<>>}
        /\ pipe' = pipe /\ class' = class /\ round' = round
        /\ psPc' = psPc \/ \E to \in Labels : psPc' = [psPc EXCEPT ![Main] = to]
    BY <1>5 DEF Log, SignalCount, SignalUnlock, Acquire, Release, PSGoto, Labels
  <2>2. psPc' \in [Threads \cup {Main} -> Labels] /\ \A u \in Threads : psPc'[u] = psPc[u]
    BY <1>1, <2>1
  <2>3. RoundLeft'
    BY <1>1, <2>1, <2>2 DEF RoundLeft
  <2>4. msg' \in Seq(Nat) /\ Len(msg') <= 3
    <3>1. <<>> \in Seq(Nat) /\ Len(<<>>) = 0
      BY EmptySeq, Zenon
    <3>2. msg' = msg \/ msg' = <<>>
      BY <2>1
    <3>3. CASE msg' = msg
      BY <1>1, <3>3
    <3>4. CASE msg' = <<>>
      <4>1. Len(msg') = 0
        BY <3>1, <3>4, Zenon
      <4> QED BY <3>1, <3>4, <4>1
    <3> QED BY <3>2, <3>3, <3>4
  <2> QED BY <1>1, <2>1, <2>2, <2>3, <2>4
<1> QED BY <1>1, <1>2, <1>3, <1>4, <1>5 DEF PSNext, MainStep, th_work

(* Whom a signal takes out of the list.                                       *)
LEMMA HeadTail ==
    ASSUME NEW list \in Seq(Threads), list # <<>>,
           \A i, j \in 1 .. Len(list) : list[i] = list[j] => i = j
    PROVE  /\ Head(list) \in Threads /\ Contains(list, Head(list))
           /\ Tail(list) \in Seq(Threads) /\ Len(Tail(list)) = Len(list) - 1
           /\ \A i, j \in 1 .. Len(Tail(list)) : Tail(list)[i] = Tail(list)[j] => i = j
           /\ \A u \in Threads : Contains(Tail(list), u) <=> Contains(list, u) /\ u # Head(list)
<1>1. Len(list) \in Nat \ {0} /\ Head(list) = list[1]
  BY EmptySeq, LenProperties
<1>2. /\ Head(list) \in Threads /\ Tail(list) \in Seq(Threads)
      /\ Len(Tail(list)) = Len(list) - 1
      /\ \A i \in 1 .. Len(list) - 1 : Tail(list)[i] = list[i + 1]
  BY HeadTailProperties
<1>3. Contains(list, Head(list))
  BY <1>1 DEF Contains
<1>4. \A i \in 1 .. Len(list) - 1 : i + 1 \in 1 .. Len(list) /\ i + 1 # 1
  BY <1>1
<1>5. \A i \in 1 .. Len(list) : i # 1 => i - 1 \in 1 .. Len(list) - 1 /\ Tail(list)[i - 1] = list[i]
  BY <1>1, <1>2
<1>6. ASSUME NEW i \in 1 .. Len(list) - 1, NEW j \in 1 .. Len(list) - 1,
             Tail(list)[i] = Tail(list)[j]
      PROVE  i = j
  <2>1. i + 1 = j + 1
    BY <1>2, <1>4, <1>6
  <2> QED BY <2>1, <1>1
<1>7. ASSUME NEW u \in Threads
      PROVE  Contains(Tail(list), u) <=> Contains(list, u) /\ u # Head(list)
  <2>1. ASSUME Contains(Tail(list), u)
        PROVE  Contains(list, u) /\ u # Head(list)
    <3>1. PICK i \in 1 .. Len(list) - 1 : Tail(list)[i] = u
      BY <2>1, <1>2 DEF Contains
    <3>2. list[i + 1] = u /\ i + 1 \in 1 .. Len(list) /\ i + 1 # 1 /\ 1 \in 1 .. Len(list)
      BY <1>1, <1>2, <1>4, <3>1
    <3> QED BY <3>2, <1>1 DEF Contains
  <2>2. ASSUME Contains(list, u), u # Head(list)
        PROVE  Contains(Tail(list), u)
    <3>1. PICK i \in 1 .. Len(list) : list[i] = u
      BY <2>2 DEF Contains
    <3>2. i # 1
      BY <3>1, <2>2, <1>1
    <3> QED BY <3>1, <3>2, <1>2, <1>5 DEF Contains
  <2> QED BY <2>1, <2>2
<1> QED BY <1>2, <1>3, <1>6, <1>7

-----------------------------------------------------------------------------
(* Counter, list and private semaphores stay in step.                         *)
LEMMA Waiters ==
    ASSUME PSIInv, SemaphoreAssumption, PSNext
    PROVE  /\ cnt' \in Int /\ sem_list' \in Seq(Threads) /\ posted' \in [Threads -> {0, 1}]
           /\ IF cnt' < 0 THEN Len(sem_list') = - cnt' ELSE sem_list' = <<>>
           /\ NoLostWakeup' /\ NoneTwice'
<1>1. /\ cnt \in Int /\ sem_list \in Seq(Threads) /\ posted \in [Threads -> {0, 1}]
      /\ IF cnt < 0 THEN Len(sem_list) = - cnt ELSE sem_list = <<>>
      /\ \A i, j \in 1 .. Len(sem_list) : sem_list[i] = sem_list[j] => i = j
  BY DEF PSIInv, CountMatchesList, PSTypeOK, NoneTwice
<1>2. \A t \in Threads :
        /\ psPc[t] \in {"unlock", "block"} <=> posted[t] = 1 \/ Contains(sem_list, t)
        /\ ~ (posted[t] = 1 /\ Contains(sem_list, t))
  BY DEF PSIInv, NoLostWakeup
<1>3. ASSUME cnt' = cnt, sem_list' = sem_list, posted' = posted,
             \A u \in Threads : psPc'[u] \in {"unlock", "block"} <=> psPc[u] \in {"unlock", "block"}
      PROVE  NoLostWakeup' /\ NoneTwice'
  BY <1>1, <1>2, <1>3 DEF NoLostWakeup, NoneTwice
<1>4. ASSUME NEW t \in Threads, cnt' = cnt - 1, posted' = posted, psPc[t] = "count",
             cnt - 1 < 0, psPc'[t] = "unlock", sem_list' = enqueue_sorted(sem_list, t),
             \A u \in Threads \ {t} : psPc'[u] = psPc[u]
      PROVE  /\ sem_list' \in Seq(Threads) /\ Len(sem_list') = - cnt'
             /\ NoLostWakeup' /\ NoneTwice'
  <2>1. ~ Contains(sem_list, t) /\ posted[t] # 1
    BY <1>2, <1>4
  <2>2. /\ sem_list' \in Seq(Threads) /\ Len(sem_list') = Len(sem_list) + 1
        /\ \A u \in Threads : Contains(sem_list', u) <=> u = t \/ Contains(sem_list, u)
        /\ \A i, j \in 1 .. Len(sem_list') : sem_list'[i] = sem_list'[j] => i = j
    <3> DEFINE longer == enqueue_sorted(sem_list, t)
    <3>1. /\ longer \in Seq(Threads) /\ Len(longer) = Len(sem_list) + 1
          /\ \A u \in Threads : Contains(longer, u) <=> u = t \/ Contains(sem_list, u)
          /\ \A i, j \in 1 .. Len(longer) : longer[i] = longer[j] => i = j
      BY <1>1, <2>1, EnqueueProperties
    <3>2. sem_list' = longer
      BY <1>4
    <3> HIDE DEF longer
    <3> QED BY <3>1, <3>2
  <2>3. Len(sem_list') = - cnt'
    <3>1. CASE cnt < 0
      BY <1>1, <1>4, <2>2, <3>1
    <3>2. CASE ~ (cnt < 0)
      <4>1. Len(sem_list) = 0
        BY <1>1, <3>2, EmptySeq
      <4>2. cnt \in Int /\ cnt <= 0 /\ 0 <= cnt
        BY <1>1, <1>4, <3>2
      <4>3. Len(sem_list') = 1
        BY <4>1, <2>2
      <4>4. - (cnt - 1) = 1
        BY <4>2
      <4> QED BY <4>3, <4>4, <1>4
    <3> QED BY <1>1, <1>4, <3>1, <3>2
  <2>4. NoLostWakeup'
    BY <1>2, <1>4, <2>1, <2>2 DEF NoLostWakeup
  <2>5. NoneTwice'
    BY <2>2 DEF NoneTwice
  <2> QED BY <2>2, <2>3, <2>4, <2>5
<1>5. ASSUME NEW t \in Threads, cnt' = cnt - 1, posted' = posted, psPc[t] = "count",
             ~ (cnt - 1 < 0), psPc'[t] = "pass", sem_list' = sem_list,
             \A u \in Threads \ {t} : psPc'[u] = psPc[u]
      PROVE  NoLostWakeup' /\ NoneTwice'
  <2>1. NoLostWakeup'
    BY <1>2, <1>5 DEF NoLostWakeup
  <2> QED BY <2>1, <1>1, <1>5 DEF NoneTwice
<1>6. ASSUME NEW t \in Threads, sem_list' = sem_list, posted[t] = 1,
             posted' = [posted EXCEPT ![t] = 0], psPc[t] = "block", psPc'[t] = "id1",
             \A u \in Threads \ {t} : psPc'[u] = psPc[u]
      PROVE  NoLostWakeup' /\ NoneTwice'
  <2>1. NoLostWakeup'
    BY <1>1, <1>2, <1>6 DEF NoLostWakeup
  <2> QED BY <2>1, <1>1, <1>6 DEF NoneTwice
<1>7. ASSUME cnt' = cnt + 1, \A u \in Threads : psPc'[u] = psPc[u], cnt + 1 <= 0,
             posted' = [posted EXCEPT ![Head(sem_list)] = @ + 1], sem_list' = Tail(sem_list)
      PROVE  /\ sem_list' \in Seq(Threads) /\ posted' \in [Threads -> {0, 1}]
             /\ IF cnt' < 0 THEN Len(sem_list') = - cnt' ELSE sem_list' = <<>>
             /\ NoLostWakeup' /\ NoneTwice'
  <2> DEFINE h == Head(sem_list)
  <2>1. cnt < 0 /\ Len(sem_list) = - cnt /\ sem_list # <<>>
    BY <1>1, <1>7
  <2>2. /\ h \in Threads /\ Contains(sem_list, h)
        /\ sem_list' \in Seq(Threads) /\ Len(sem_list') = Len(sem_list) - 1
        /\ \A i, j \in 1 .. Len(sem_list') : sem_list'[i] = sem_list'[j] => i = j
        /\ \A u \in Threads : Contains(sem_list', u) <=> Contains(sem_list, u) /\ u # h
    BY <1>1, <1>7, <2>1, HeadTail
  <2> HIDE DEF h
  <2>3. posted[h] = 0 /\ posted' = [posted EXCEPT ![h] = 1]
    <3>1. posted[h] = 0
      BY <1>1, <1>2, <2>2
    <3>2. posted' = [posted EXCEPT ![h] = @ + 1]
      BY <1>7 DEF h
    <3> QED BY <3>1, <3>2
  <2>4. IF cnt' < 0 THEN Len(sem_list') = - cnt' ELSE sem_list' = <<>>
    <3>1. Len(sem_list') = - cnt'
      BY <1>1, <1>7, <2>1, <2>2
    <3>2. cnt' = 0 => sem_list' = <<>>
      BY <3>1, <2>2, EmptySeq
    <3> QED BY <1>1, <1>7, <3>1, <3>2
  <2>5. NoLostWakeup'
    <3> SUFFICES ASSUME NEW u \in Threads
                 PROVE  /\ psPc'[u] \in {"unlock", "block"} <=>
                              posted'[u] = 1 \/ Contains(sem_list', u)
                        /\ ~ (posted'[u] = 1 /\ Contains(sem_list', u))
      BY DEF NoLostWakeup
    <3>1. CASE u = h
      BY <1>1, <1>2, <1>7, <2>2, <2>3, <3>1
    <3>2. CASE u # h
      <4>1. posted'[u] = posted[u] /\ (Contains(sem_list', u) <=> Contains(sem_list, u))
        BY <1>1, <2>2, <2>3, <3>2
      <4> QED BY <4>1, <1>2, <1>7
    <3> QED BY <3>1, <3>2
  <2> QED BY <1>1, <2>2, <2>3, <2>4, <2>5 DEF NoneTwice
<1>8. ASSUME cnt' = cnt + 1, \A u \in Threads : psPc'[u] = psPc[u], ~ (cnt + 1 <= 0),
             posted' = posted, sem_list' = sem_list
      PROVE  NoLostWakeup' /\ NoneTwice'
  BY <1>1, <1>2, <1>8 DEF NoLostWakeup, NoneTwice
<1>9. CASE /\ cnt' = cnt /\ sem_list' = sem_list /\ posted' = posted
           /\ \A u \in Threads :
                    psPc'[u] \in {"unlock", "block"} <=> psPc[u] \in {"unlock", "block"}
  BY <1>1, <1>3, <1>9
<1>10. CASE \E t \in Threads :
               /\ cnt' = cnt - 1 /\ posted' = posted /\ psPc[t] = "count"
               /\ IF cnt - 1 < 0
                    THEN psPc'[t] = "unlock" /\ sem_list' = enqueue_sorted(sem_list, t)
                    ELSE psPc'[t] = "pass" /\ sem_list' = sem_list
               /\ \A u \in Threads \ {t} : psPc'[u] = psPc[u]
  <2>1. PICK t \in Threads :
               /\ cnt' = cnt - 1 /\ posted' = posted /\ psPc[t] = "count"
               /\ IF cnt - 1 < 0
                    THEN psPc'[t] = "unlock" /\ sem_list' = enqueue_sorted(sem_list, t)
                    ELSE psPc'[t] = "pass" /\ sem_list' = sem_list
               /\ \A u \in Threads \ {t} : psPc'[u] = psPc[u]
    BY <1>10
  <2>2. CASE cnt - 1 < 0
    BY <1>1, <1>4, <2>1, <2>2
  <2>3. CASE ~ (cnt - 1 < 0)
    BY <1>1, <1>5, <2>1, <2>3
  <2> QED BY <2>2, <2>3
<1>11. CASE \E t \in Threads :
               /\ cnt' = cnt /\ sem_list' = sem_list
               /\ posted[t] = 1 /\ posted' = [posted EXCEPT ![t] = 0]
               /\ psPc[t] = "block" /\ psPc'[t] = "id1"
               /\ \A u \in Threads \ {t} : psPc'[u] = psPc[u]
  BY <1>1, <1>6, <1>11
<1>12. CASE /\ cnt' = cnt + 1 /\ \A u \in Threads : psPc'[u] = psPc[u]
            /\ IF cnt + 1 <= 0
                 THEN /\ posted' = [posted EXCEPT ![Head(sem_list)] = @ + 1]
                      /\ sem_list' = Tail(sem_list)
                 ELSE posted' = posted /\ sem_list' = sem_list
  <2>1. CASE cnt + 1 <= 0
    BY <1>1, <1>7, <1>12, <2>1
  <2>2. CASE ~ (cnt + 1 <= 0)
    BY <1>1, <1>8, <1>12, <2>2
  <2> QED BY <2>1, <2>2
<1> QED BY <1>9, <1>10, <1>11, <1>12, Effects

-----------------------------------------------------------------------------
(* The invariant holds in every reachable state.                              *)
THEOREM PSInductive == SemaphoreAssumption => (PSSpec => []PSIInv)
<1> SUFFICES ASSUME SemaphoreAssumption PROVE PSSpec => []PSIInv
  OBVIOUS
<1>1. PSInit => PSIInv
  <2> SUFFICES ASSUME PSInit PROVE PSIInv
    OBVIOUS
  <2>1. PSTypeOK
    BY DEF PSInit, PSTypeOK, SemaphoreAssumption
  <2>2. \A t \in Threads : psPc[t] = "id0" /\ posted[t] = 0
    BY DEF PSInit, SemaphoreAssumption
  <2>3. CountMatchesList
    BY <2>1 DEF PSInit, CountMatchesList
  <2>4. NoLostWakeup
    BY <2>2 DEF PSInit, NoLostWakeup, Contains
  <2>5. NoneTwice
    BY DEF PSInit, NoneTwice
  <2> QED BY <2>2, <2>3, <2>4, <2>5 DEF PSIInv, RoundLeft
<1>2. PSIInv /\ [PSNext]_psVars => PSIInv'
  <2> SUFFICES ASSUME PSIInv, [PSNext]_psVars PROVE PSIInv'
    OBVIOUS
  <2>1. CASE PSNext
    <3>1. class' \in [Threads -> Classes]
      BY <2>1, Types DEF PSIInv, CountMatchesList, PSTypeOK
    <3> QED BY <2>1, <3>1, Types, Waiters DEF PSIInv, CountMatchesList, PSTypeOK, Labels
  <2>2. CASE UNCHANGED psVars
    BY <2>2 DEF psVars, PSIInv, CountMatchesList, PSTypeOK, NoLostWakeup, NoneTwice, RoundLeft
  <2> QED BY <2>1, <2>2
<1> QED BY <1>1, <1>2, PTL DEF PSSpec

(* The sign of s->cnt in ps_signal tells whether the list has a head to take. *)
THEOREM CounterTells == SemaphoreAssumption => (PSSpec => []CountMatchesList)
BY PSInductive, PTL DEF PSIInv

(* A thread of main.c that has entered the list is posted exactly once, also
   when the post comes before its sem_wait. *)
THEOREM WakeupsKept == SemaphoreAssumption => (PSSpec => []NoLostWakeup)
BY PSInductive, PTL DEF PSIInv

-----------------------------------------------------------------------------
(* The gate.  What it adds to the invariant: enqueue_sorted keeps the list
   sorted by class. *)
InOrder(list) ==
    \A i, j \in 1 .. Len(list) : i <= j => class[list[i]] >= class[list[j]]

(* The mapping of GateSpec.                                                   *)
Tokens == IF cnt > 0 THEN cnt ELSE 0
Queues == [k \in Classes |-> Line(sem_list, k)]

(* The positions that a rank counts, when they are the first of the list.     *)
LEMMA RankUnique ==
    ASSUME NEW list \in Seq(Threads), NEW k, NEW n \in 0 .. Len(list),
           \A i \in 1 .. Len(list) : i <= n <=> class[list[i]] >= k
    PROVE  Rank(list, k) = n
<1>1. Len(list) \in Nat /\ DOMAIN list = 1 .. Len(list)
  BY LenProperties
<1>2. {i \in DOMAIN list : class[list[i]] >= k} = 1 .. n
  BY <1>1
<1>3. Cardinality(1 .. n) = n
  BY <1>1, FS_Interval
<1> QED BY <1>2, <1>3 DEF Rank

(* In a sorted list the waiters of class k or higher come first.              *)
LEMMA RankSplits ==
    ASSUME NEW list \in Seq(Threads), class \in [Threads -> Classes], InOrder(list), NEW k \in Int
    PROVE  /\ Rank(list, k) \in 0 .. Len(list)
           /\ \A i \in 1 .. Len(list) : i <= Rank(list, k) <=> class[list[i]] >= k
<1>1. Len(list) \in Nat
  BY LenProperties
<1>2. \A i \in 1 .. Len(list) : class[list[i]] \in Int
  <2>1. \A i \in 1 .. Len(list) : list[i] \in Threads
    BY LenProperties
  <2> QED BY <2>1 DEF Classes
<1> DEFINE Low == {m \in Nat : m < Len(list) => class[list[m + 1]] < k}
<1>3. Low \subseteq Nat /\ Len(list) \in Low
  BY <1>1
<1>4. PICK n \in Low : \A m \in Low : ~ (m < n)
  <2>1. PICK n \in Low : \A m \in Low : ~ (<<m, n>> \in OpToRel(<, Nat))
    BY <1>3, NatLessThanWellFounded, WFMin
  <2> QED BY <2>1, <1>3 DEF OpToRel
<1>5. n \in Nat /\ n <= Len(list)
  BY <1>1, <1>3, <1>4
<1>6. ASSUME NEW i \in 1 .. Len(list)
      PROVE  i <= n <=> class[list[i]] >= k
  <2>1. CASE i <= n
    <3>1. i - 1 \in Nat /\ i - 1 < n
      BY <1>5, <2>1
    <3>2. i - 1 \notin Low
      BY <1>4, <3>1
    <3>3. ~ (class[list[(i - 1) + 1]] < k)
      BY <3>1, <3>2
    <3>4. (i - 1) + 1 = i
      BY <3>1
    <3> QED BY <1>2, <2>1, <3>3, <3>4
  <2>2. CASE n < i
    <3>1. n < Len(list) /\ n + 1 \in 1 .. Len(list) /\ n + 1 <= i
      BY <1>1, <1>5, <2>2
    <3>2. class[list[n + 1]] < k
      BY <1>4, <1>5, <3>1
    <3>3. class[list[n + 1]] >= class[list[i]]
      BY <3>1 DEF InOrder
    <3> QED BY <1>2, <1>5, <2>2, <3>1, <3>2, <3>3
  <2> QED BY <1>5, <2>1, <2>2
<1>7. Rank(list, k) = n
  BY <1>1, <1>5, <1>6, RankUnique
<1> QED BY <1>1, <1>5, <1>6, <1>7

(* Higher classes are ranked before lower ones.                               *)
LEMMA RankOrder ==
    ASSUME NEW list \in Seq(Threads), class \in [Threads -> Classes], InOrder(list),
           NEW j \in Int, NEW k \in Int, j <= k
    PROVE  Rank(list, k) <= Rank(list, j)
<1>1. /\ Len(list) \in Nat /\ Rank(list, k) \in 0 .. Len(list) /\ Rank(list, j) \in 0 .. Len(list)
      /\ \A i \in 1 .. Len(list) : i <= Rank(list, k) <=> class[list[i]] >= k
      /\ \A i \in 1 .. Len(list) : i <= Rank(list, j) <=> class[list[i]] >= j
  BY LenProperties, RankSplits
<1>2. CASE Rank(list, k) = 0
  BY <1>1, <1>2
<1>3. CASE Rank(list, k) # 0
  <2> DEFINE i == Rank(list, k)
  <2>1. i \in 1 .. Len(list) /\ class[list[i]] >= k
    BY <1>1, <1>3
  <2>2. class[list[i]] \in Int
    BY <2>1, LenProperties DEF Classes
  <2>3. class[list[i]] >= j
    BY <2>1, <2>2
  <2> QED BY <1>1, <2>1, <2>3
<1> QED BY <1>2, <1>3

(* The waiters of class k, one after the other.                               *)
LEMMA LineProperties ==
    ASSUME NEW list \in Seq(Threads), class \in [Threads -> Classes], InOrder(list), NEW k \in Int
    PROVE  /\ Line(list, k) \in Seq(Threads)
           /\ Len(Line(list, k)) = Rank(list, k) - Rank(list, k + 1)
           /\ \A i \in 1 .. Rank(list, k) - Rank(list, k + 1) :
                 /\ Line(list, k)[i] = list[Rank(list, k + 1) + i]
                 /\ Rank(list, k + 1) + i \in 1 .. Len(list)
<1> DEFINE a == Rank(list, k + 1)
           b == Rank(list, k)
<1>1. Len(list) \in Nat /\ a \in 0 .. Len(list) /\ b \in 0 .. Len(list) /\ a <= b
  <2>1. k + 1 \in Int /\ k <= k + 1
    OBVIOUS
  <2>2. a \in 0 .. Len(list) /\ b \in 0 .. Len(list)
    BY <2>1, RankSplits
  <2>3. a <= b
    BY <2>1, RankOrder
  <2> QED BY <2>2, <2>3, LenProperties
<1>2. \A i \in 1 .. Len(list) : list[i] \in Threads
  BY LenProperties
<1>3. Line(list, k) = SubSeq(list, a + 1, b)
  BY DEF Line
<1> HIDE DEF a, b
<1>4. a + 1 \in Int /\ b \in Int /\ \A i \in a + 1 .. b : list[i] \in Threads
  BY <1>1, <1>2
<1> DEFINE line == SubSeq(list, a + 1, b)
<1>5. /\ line \in Seq(Threads) /\ Len(line) = IF a + 1 <= b THEN b - (a + 1) + 1 ELSE 0
      /\ \A i \in 1 .. b - (a + 1) + 1 : line[i] = list[(a + 1) + i - 1]
  BY <1>4, SubSeqProperties
<1> HIDE DEF line
<1>6. /\ line \in Seq(Threads) /\ Len(line) = b - a
      /\ \A i \in 1 .. b - a : line[i] = list[a + i] /\ a + i \in 1 .. Len(list)
  BY <1>1, <1>5
<1> QED BY <1>3, <1>6 DEF a, b, line

-----------------------------------------------------------------------------
(* A waiter enters its class's line at the end, and no other line.            *)
LEMMA EnqueueLines ==
    ASSUME NEW list \in Seq(Threads), class \in [Threads -> Classes], InOrder(list),
           NEW t \in Threads
    PROVE  LET longer == enqueue_sorted(list, t)
           IN  /\ InOrder(longer)
               /\ \A k \in Classes : Line(longer, k) =
                     IF k = class[t] THEN Append(Line(list, k), t) ELSE Line(list, k)
<1> DEFINE c == class[t]
           n == Rank(list, c)
           longer == enqueue_sorted(list, t)
<1>1. /\ Len(list) \in Nat /\ DOMAIN list = 1 .. Len(list) /\ c \in Int /\ c \in Classes
      /\ \A i \in 1 .. Len(list) : list[i] \in Threads /\ class[list[i]] \in Int
  BY LenProperties DEF Classes
<1>2. n \in 0 .. Len(list) /\ \A i \in 1 .. Len(list) : i <= n <=> class[list[i]] >= c
  BY <1>1, RankSplits
<1>3. longer = PutBehind(list, n, t)
  <2>1. {i \in DOMAIN list : \A j \in 1 .. i : class[list[j]] >= class[t]}
           = {i \in DOMAIN list : class[list[i]] >= class[t]}
    <3>1. ASSUME NEW i \in 1 .. Len(list), class[list[i]] >= c, NEW j \in 1 .. i
          PROVE  class[list[j]] >= c
      <4>1. j \in 1 .. Len(list) /\ j <= i
        BY <1>1
      <4>2. class[list[j]] >= class[list[i]]
        BY <4>1 DEF InOrder
      <4> QED BY <1>1, <3>1, <4>1, <4>2
    <3>2. \A i \in 1 .. Len(list) : i \in 1 .. i
      BY <1>1
    <3> QED BY <1>1, <3>1, <3>2
  <2> QED BY <2>1, Zenon DEF enqueue_sorted, Rank
<1> HIDE DEF longer, n, c
<1>4. /\ longer \in Seq(Threads) /\ Len(longer) = Len(list) + 1
      /\ \A i \in 1 .. Len(list) + 1 :
            longer[i] = IF i <= n THEN list[i] ELSE IF i = n + 1 THEN t ELSE list[i - 1]
  <2> DEFINE ins == PutBehind(list, n, t)
  <2>1. /\ ins \in Seq(Threads) /\ Len(ins) = Len(list) + 1
        /\ \A i \in 1 .. Len(list) + 1 :
              ins[i] = IF i <= n THEN list[i] ELSE IF i = n + 1 THEN t ELSE list[i - 1]
    BY <1>2, PutBehindProperties
  <2> HIDE DEF ins
  <2>2. longer = ins
    BY <1>3 DEF ins
  <2> QED BY <2>1, <2>2
<1>5. \A i \in 1 .. Len(list) + 1 :
         /\ i <= n => i \in 1 .. Len(list) /\ longer[i] = list[i]
         /\ i = n + 1 => longer[i] = t
         /\ i > n + 1 => i - 1 \in 1 .. Len(list) /\ i - 1 > n /\ longer[i] = list[i - 1]
         /\ i <= n \/ i = n + 1 \/ i > n + 1
  BY <1>1, <1>2, <1>4
<1>6. class[t] = c
  BY DEF c
<1>7. ASSUME NEW i \in 1 .. Len(list) + 1, NEW j \in 1 .. Len(list) + 1, i <= j
      PROVE  class[longer[i]] >= class[longer[j]]
  <2>1. \A a, b \in 1 .. Len(list) : a <= b => class[list[a]] >= class[list[b]]
    BY DEF InOrder
  <2>2. i \in Int /\ j \in Int /\ n \in Int
    BY <1>1, <1>2
  <2>3. CASE i <= n /\ j <= n
    BY <1>5, <1>7, <2>1, <2>3
  <2>4. CASE i <= n /\ j = n + 1
    BY <1>2, <1>5, <1>6, <2>4
  <2>5. CASE i <= n /\ j > n + 1
    <3>1. i \in 1 .. Len(list) /\ j - 1 \in 1 .. Len(list) /\ i <= j - 1
          /\ longer[i] = list[i] /\ longer[j] = list[j - 1]
      BY <1>5, <2>2, <2>5
    <3> QED BY <2>1, <3>1
  <2>6. CASE i = n + 1 /\ j = n + 1
    BY <1>1, <1>5, <1>6, <2>6
  <2>7. CASE i = n + 1 /\ j > n + 1
    <3>1. j - 1 \in 1 .. Len(list) /\ ~ (j - 1 <= n) /\ longer[j] = list[j - 1] /\ longer[i] = t
      BY <1>5, <2>2, <2>7
    <3>2. ~ (class[list[j - 1]] >= c) /\ class[list[j - 1]] \in Int
      BY <1>1, <1>2, <3>1
    <3> QED BY <1>1, <1>6, <3>1, <3>2
  <2>8. CASE i > n + 1 /\ j > n + 1
    <3>1. i - 1 \in 1 .. Len(list) /\ j - 1 \in 1 .. Len(list) /\ i - 1 <= j - 1
          /\ longer[i] = list[i - 1] /\ longer[j] = list[j - 1]
      BY <1>5, <1>7, <2>2, <2>8
    <3> QED BY <2>1, <3>1
  <2> QED BY <1>5, <1>7, <2>2, <2>3, <2>4, <2>5, <2>6, <2>7, <2>8
<1>8. InOrder(longer)
  BY <1>4, <1>7 DEF InOrder
<1>9. ASSUME NEW k \in Int
      PROVE  Rank(longer, k) = Rank(list, k) + (IF c >= k THEN 1 ELSE 0)
  <2> DEFINE m == Rank(list, k)
  <2>1. m \in 0 .. Len(list) /\ \A i \in 1 .. Len(list) : i <= m <=> class[list[i]] >= k
    BY RankSplits
  <2> HIDE DEF m
  <2>2. CASE c >= k
    <3>1. n <= m
      <4>1. CASE n = 0
        BY <2>1, <4>1
      <4>2. CASE n # 0
        <5>1. n \in 1 .. Len(list) /\ class[list[n]] >= c /\ class[list[n]] \in Int
          BY <1>1, <1>2, <4>2
        <5>2. class[list[n]] >= k
          BY <5>1, <1>1, <2>2
        <5> QED BY <2>1, <5>1, <5>2
      <4> QED BY <4>1, <4>2
    <3>2. m + 1 \in 0 .. Len(longer)
      BY <1>1, <1>4, <2>1
    <3>3. ASSUME NEW i \in 1 .. Len(longer)
          PROVE  i <= m + 1 <=> class[longer[i]] >= k
      <4>1. i \in 1 .. Len(list) + 1 /\ i \in Int /\ m \in Int /\ n \in Int
        BY <1>1, <1>2, <1>4, <2>1
      <4>2. CASE i <= n
        BY <1>5, <2>1, <3>1, <4>1, <4>2
      <4>3. CASE i = n + 1
        BY <1>5, <1>6, <2>2, <3>1, <4>1, <4>3
      <4>4. CASE i > n + 1
        <5>1. i - 1 \in 1 .. Len(list) /\ longer[i] = list[i - 1]
          BY <1>5, <4>1, <4>4
        <5>2. i - 1 <= m <=> class[longer[i]] >= k
          BY <2>1, <5>1
        <5> QED BY <4>1, <5>2
      <4> QED BY <1>5, <4>1, <4>2, <4>3, <4>4
    <3>4. Rank(longer, k) = m + 1
      BY <1>4, <3>2, <3>3, RankUnique
    <3> QED BY <2>2, <3>4 DEF m
  <2>3. CASE ~ (c >= k)
    <3>1. m <= n
      <4>1. CASE m = 0
        BY <1>2, <4>1
      <4>2. CASE m # 0
        <5>1. m \in 1 .. Len(list) /\ class[list[m]] >= k /\ class[list[m]] \in Int
          BY <1>1, <2>1, <4>2
        <5>2. class[list[m]] >= c
          BY <5>1, <1>1, <2>3
        <5> QED BY <1>2, <5>1, <5>2
      <4> QED BY <4>1, <4>2
    <3>2. m \in 0 .. Len(longer)
      BY <1>1, <1>4, <2>1
    <3>3. ASSUME NEW i \in 1 .. Len(longer)
          PROVE  i <= m <=> class[longer[i]] >= k
      <4>1. i \in 1 .. Len(list) + 1 /\ i \in Int /\ m \in Int /\ n \in Int
        BY <1>1, <1>2, <1>4, <2>1
      <4>2. CASE i <= n
        BY <1>5, <2>1, <4>1, <4>2
      <4>3. CASE i = n + 1
        BY <1>5, <1>6, <2>3, <3>1, <4>1, <4>3
      <4>4. CASE i > n + 1
        <5>1. i - 1 \in 1 .. Len(list) /\ longer[i] = list[i - 1] /\ ~ (i - 1 <= m) /\ ~ (i <= m)
          BY <1>5, <3>1, <4>1, <4>4
        <5> QED BY <2>1, <5>1
      <4> QED BY <1>5, <4>1, <4>2, <4>3, <4>4
    <3>4. Rank(longer, k) = m
      BY <1>4, <3>2, <3>3, RankUnique
    <3> QED BY <2>1, <2>3, <3>4 DEF m
  <2> QED BY <2>2, <2>3
<1>10. ASSUME NEW k \in Classes
       PROVE  Line(longer, k) = IF k = c THEN Append(Line(list, k), t) ELSE Line(list, k)
  <2> DEFINE a == Rank(list, k + 1)
             b == Rank(list, k)
             before == Line(list, k)
             after == Line(longer, k)
  <2>1. k \in Int /\ k + 1 \in Int /\ k <= k + 1
    BY DEF Classes
  <2>2. /\ a \in 0 .. Len(list) /\ b \in 0 .. Len(list)
        /\ \A i \in 1 .. Len(list) : i <= a <=> class[list[i]] >= k + 1
        /\ \A i \in 1 .. Len(list) : i <= b <=> class[list[i]] >= k
    BY <2>1, RankSplits
  <2>3. a <= b
    BY <2>1, RankOrder
  <2>4. /\ Rank(longer, k + 1) = a + (IF c >= k + 1 THEN 1 ELSE 0)
        /\ Rank(longer, k) = b + (IF c >= k THEN 1 ELSE 0)
    BY <1>9, <2>1
  <2>5. /\ before \in Seq(Threads) /\ Len(before) = b - a
        /\ \A i \in 1 .. b - a : before[i] = list[a + i] /\ a + i \in 1 .. Len(list)
    BY <2>1, LineProperties
  <2>6. /\ after \in Seq(Threads) /\ Len(after) = Rank(longer, k) - Rank(longer, k + 1)
        /\ \A i \in 1 .. Rank(longer, k) - Rank(longer, k + 1) :
              after[i] = longer[Rank(longer, k + 1) + i]
    BY <1>4, <1>8, <2>1, LineProperties
  <2> HIDE DEF a, b, before, after
  <2>7. CASE c > k
    <3>1. Rank(longer, k + 1) = a + 1 /\ Rank(longer, k) = b + 1
      BY <1>1, <2>1, <2>4, <2>7
    <3>2. Len(after) = b - a /\ \A i \in 1 .. b - a : after[i] = longer[a + 1 + i]
      <4>1. a \in Int /\ b \in Int /\ Rank(longer, k) - Rank(longer, k + 1) = b - a
        BY <2>2, <3>1
      <4> QED BY <2>6, <3>1, <4>1
    <3>3. n <= a
      <4>1. CASE n = 0
        BY <2>2, <4>1
      <4>2. CASE n # 0
        <5>1. n \in 1 .. Len(list) /\ class[list[n]] >= c /\ class[list[n]] \in Int
          BY <1>1, <1>2, <4>2
        <5>2. class[list[n]] >= k + 1
          BY <5>1, <1>1, <2>1, <2>7
        <5> QED BY <2>2, <5>1, <5>2
      <4> QED BY <4>1, <4>2
    <3>4. ASSUME NEW i \in 1 .. b - a
          PROVE  after[i] = before[i]
      <4>1. /\ a + 1 + i \in 1 .. Len(list) + 1 /\ a + 1 + i > n + 1
            /\ (a + 1 + i) - 1 = a + i
        BY <1>1, <1>2, <2>2, <2>3, <3>3
      <4>2. longer[a + 1 + i] = list[a + i]
        BY <1>5, <4>1
      <4> QED BY <2>5, <3>2, <4>2
    <3>5. after = before
      BY <2>5, <2>6, <3>2, <3>4, SeqEqual
    <3> QED BY <1>1, <2>1, <2>7, <3>5 DEF after, before
  <2>8. CASE c < k
    <3>1. Rank(longer, k + 1) = a /\ Rank(longer, k) = b
      BY <1>1, <2>1, <2>2, <2>4, <2>8
    <3>2. Len(after) = b - a /\ \A i \in 1 .. b - a : after[i] = longer[a + i]
      BY <2>6, <3>1
    <3>3. b <= n
      <4>1. CASE b = 0
        BY <1>2, <4>1
      <4>2. CASE b # 0
        <5>1. b \in 1 .. Len(list) /\ class[list[b]] >= k /\ class[list[b]] \in Int
          BY <1>1, <2>2, <4>2
        <5>2. class[list[b]] >= c
          BY <5>1, <1>1, <2>1, <2>8
        <5> QED BY <1>2, <5>1, <5>2
      <4> QED BY <4>1, <4>2
    <3>4. ASSUME NEW i \in 1 .. b - a
          PROVE  after[i] = before[i]
      <4>1. a + i \in 1 .. Len(list) + 1 /\ a + i <= n
        BY <1>1, <1>2, <2>2, <2>3, <3>3
      <4>2. longer[a + i] = list[a + i]
        BY <1>5, <4>1
      <4> QED BY <2>5, <3>2, <4>2
    <3>5. after = before
      BY <2>5, <2>6, <3>2, <3>4, SeqEqual
    <3> QED BY <1>1, <2>1, <2>8, <3>5 DEF after, before
  <2>9. CASE c = k
    <3>1. Rank(longer, k + 1) = a /\ Rank(longer, k) = b + 1 /\ b = n
      BY <1>1, <2>1, <2>2, <2>4, <2>9 DEF b, n
    <3>2. Len(after) = b - a + 1 /\ \A i \in 1 .. b - a + 1 : after[i] = longer[a + i]
      BY <2>2, <2>3, <2>6, <3>1
    <3>3. /\ Append(before, t) \in Seq(Threads) /\ Len(Append(before, t)) = b - a + 1
          /\ \A i \in 1 .. b - a : Append(before, t)[i] = before[i]
          /\ Append(before, t)[b - a + 1] = t
      BY <2>5, AppendProperties
    <3>4. ASSUME NEW i \in 1 .. b - a + 1
          PROVE  after[i] = Append(before, t)[i]
      <4>1. CASE i \in 1 .. b - a
        <5>1. a + i \in 1 .. Len(list) + 1 /\ a + i <= n
          BY <1>1, <1>2, <2>2, <2>3, <3>1, <4>1
        <5>2. longer[a + i] = list[a + i]
          BY <1>5, <5>1
        <5> QED BY <2>5, <3>2, <3>3, <4>1, <5>2
      <4>2. CASE i = b - a + 1
        <5>1. a + i = n + 1 /\ a + i \in 1 .. Len(list) + 1
          BY <1>1, <1>2, <2>2, <2>3, <3>1, <4>2
        <5>2. longer[a + i] = t
          BY <1>5, <5>1
        <5> QED BY <3>2, <3>3, <4>2, <5>2
      <4>3. b - a \in Nat
        BY <2>2, <2>3
      <4>4. i \in 1 .. b - a \/ i = b - a + 1
        BY <4>3
      <4> QED BY <4>1, <4>2, <4>4
    <3>5. after = Append(before, t)
      <4> DEFINE more == Append(before, t)
      <4>1. /\ more \in Seq(Threads) /\ Len(after) = Len(more)
            /\ \A i \in 1 .. Len(after) : after[i] = more[i]
        BY <3>2, <3>3, <3>4
      <4> HIDE DEF more
      <4>2. after = more
        BY <4>1, <2>6, SeqEqual
      <4> QED BY <4>2 DEF more
    <3> QED BY <2>9, <3>5 DEF after, before
  <2> QED BY <1>1, <2>1, <2>7, <2>8, <2>9
<1> QED BY <1>8, <1>10 DEF longer, c

(* The head of the list is the first of the highest class that waits.         *)
LEMMA DequeueLines ==
    ASSUME NEW list \in Seq(Threads), class \in [Threads -> Classes], InOrder(list), list # <<>>
    PROVE  LET c == class[Head(list)]
           IN  /\ InOrder(Tail(list)) /\ c \in Classes
               /\ Line(list, c) # <<>> /\ Head(Line(list, c)) = Head(list)
               /\ \A k \in Classes : k > c => Line(list, k) = <<>>
               /\ \A k \in Classes : Line(Tail(list), k) =
                     IF k = c THEN Tail(Line(list, k)) ELSE Line(list, k)
<1> DEFINE h == Head(list)
           c == class[h]
           rest == Tail(list)
<1>1. /\ Len(list) \in Nat \ {0} /\ h = list[1]
      /\ \A i \in 1 .. Len(list) : list[i] \in Threads /\ class[list[i]] \in Int
  BY EmptySeq, LenProperties DEF Classes
<1>2. /\ h \in Threads /\ rest \in Seq(Threads) /\ Len(rest) = Len(list) - 1
      /\ \A i \in 1 .. Len(rest) : rest[i] = list[i + 1]
  BY HeadTailProperties
<1>3. c \in Int /\ c \in Classes /\ class[list[1]] = c
  BY <1>1, <1>2 DEF Classes
<1> HIDE DEF rest, c, h
<1>4. \A i \in 1 .. Len(list) : class[list[i]] <= c
  <2> SUFFICES ASSUME NEW i \in 1 .. Len(list) PROVE class[list[i]] <= c
    OBVIOUS
  <2>1. class[list[1]] >= class[list[i]]
    BY <1>1 DEF InOrder
  <2> QED BY <1>1, <1>3, <2>1
<1>5. ASSUME NEW i \in 1 .. Len(rest), NEW j \in 1 .. Len(rest), i <= j
      PROVE  class[rest[i]] >= class[rest[j]]
  <2>1. i + 1 \in 1 .. Len(list) /\ j + 1 \in 1 .. Len(list) /\ i + 1 <= j + 1
    BY <1>1, <1>2, <1>5
  <2>2. class[list[i + 1]] >= class[list[j + 1]]
    BY <2>1 DEF InOrder
  <2> QED BY <1>2, <2>2
<1>6. InOrder(rest)
  BY <1>5 DEF InOrder
<1>7. ASSUME NEW k \in Int
      PROVE  /\ k > c => Rank(list, k) = 0 /\ Rank(rest, k) = 0
             /\ k <= c => Rank(list, k) \in Nat \ {0} /\ Rank(rest, k) = Rank(list, k) - 1
  <2> DEFINE m == Rank(list, k)
  <2>1. m \in 0 .. Len(list) /\ \A i \in 1 .. Len(list) : i <= m <=> class[list[i]] >= k
    BY RankSplits
  <2> HIDE DEF m
  <2>2. CASE k > c
    <3>1. m = 0
      <4>1. 1 \in 1 .. Len(list) /\ ~ (class[list[1]] >= k)
        BY <1>1, <1>3, <2>2
      <4> QED BY <2>1, <4>1
    <3>2. \A i \in 1 .. Len(rest) : i <= 0 <=> class[rest[i]] >= k
      <4> SUFFICES ASSUME NEW i \in 1 .. Len(rest) PROVE ~ (class[rest[i]] >= k) /\ ~ (i <= 0)
        OBVIOUS
      <4>1. i + 1 \in 1 .. Len(list) /\ rest[i] = list[i + 1] /\ ~ (i <= 0)
        BY <1>1, <1>2
      <4> QED BY <1>1, <1>3, <1>4, <2>2, <4>1
    <3>3. Rank(rest, k) = 0
      <4>1. 0 \in 0 .. Len(rest)
        BY <1>1, <1>2
      <4> QED BY <1>2, <3>2, <4>1, RankUnique
    <3> QED BY <1>3, <2>2, <3>1, <3>3 DEF m
  <2>3. CASE k <= c
    <3>1. m # 0
      <4>1. 1 \in 1 .. Len(list) /\ class[list[1]] >= k
        BY <1>1, <1>3, <2>3
      <4> QED BY <2>1, <4>1
    <3>2. m - 1 \in 0 .. Len(rest)
      BY <1>1, <1>2, <2>1, <3>1
    <3>3. \A i \in 1 .. Len(rest) : i <= m - 1 <=> class[rest[i]] >= k
      <4> SUFFICES ASSUME NEW i \in 1 .. Len(rest) PROVE i <= m - 1 <=> class[rest[i]] >= k
        OBVIOUS
      <4>1. i + 1 \in 1 .. Len(list) /\ rest[i] = list[i + 1] /\ i \in Int /\ m \in Int
        BY <1>1, <1>2, <2>1
      <4>2. i + 1 <= m <=> class[rest[i]] >= k
        BY <2>1, <4>1
      <4> QED BY <4>1, <4>2
    <3>4. Rank(rest, k) = m - 1
      BY <1>2, <3>2, <3>3, RankUnique
    <3> QED BY <1>3, <2>1, <2>3, <3>1, <3>4 DEF m
  <2> QED BY <1>3, <2>2, <2>3
<1>8. ASSUME NEW k \in Classes
      PROVE  /\ k > c => Line(list, k) = <<>>
             /\ k = c => Line(list, k) # <<>> /\ Head(Line(list, k)) = h
             /\ Line(rest, k) = IF k = c THEN Tail(Line(list, k)) ELSE Line(list, k)
  <2> DEFINE a == Rank(list, k + 1)
             b == Rank(list, k)
             before == Line(list, k)
             after == Line(rest, k)
  <2>1. k \in Int /\ k + 1 \in Int /\ k <= k + 1
    BY DEF Classes
  <2>2. a \in 0 .. Len(list) /\ b \in 0 .. Len(list) /\ a <= b
    BY <2>1, RankSplits, RankOrder
  <2>3. /\ k > c => b = 0 /\ Rank(rest, k) = 0
        /\ k <= c => b # 0 /\ Rank(rest, k) = b - 1
        /\ k + 1 > c => a = 0 /\ Rank(rest, k + 1) = 0
        /\ k + 1 <= c => a # 0 /\ Rank(rest, k + 1) = a - 1
    BY <1>7, <2>1
  <2>4. /\ before \in Seq(Threads) /\ Len(before) = b - a
        /\ \A i \in 1 .. b - a : before[i] = list[a + i] /\ a + i \in 1 .. Len(list)
    BY <2>1, LineProperties
  <2>5. /\ after \in Seq(Threads) /\ Len(after) = Rank(rest, k) - Rank(rest, k + 1)
        /\ \A i \in 1 .. Rank(rest, k) - Rank(rest, k + 1) :
              after[i] = rest[Rank(rest, k + 1) + i] /\ Rank(rest, k + 1) + i \in 1 .. Len(rest)
    BY <1>2, <1>6, <2>1, LineProperties
  <2> HIDE DEF a, b, before, after
  <2>6. CASE k > c
    <3>1. a = 0 /\ b = 0 /\ Rank(rest, k + 1) = 0 /\ Rank(rest, k) = 0
      BY <1>3, <2>1, <2>3, <2>6
    <3>2. Len(before) = 0 /\ Len(after) = 0
      BY <2>4, <2>5, <3>1
    <3>3. before = <<>> /\ after = <<>>
      BY <2>4, <2>5, <3>2, EmptySeq
    <3> QED BY <1>3, <2>1, <2>6, <3>3 DEF before, after
  <2>7. CASE k < c
    <3>1. a # 0 /\ b # 0 /\ Rank(rest, k + 1) = a - 1 /\ Rank(rest, k) = b - 1
      BY <1>3, <2>1, <2>3, <2>7
    <3>2. /\ Len(after) = b - a
          /\ \A i \in 1 .. b - a : after[i] = rest[a - 1 + i] /\ a - 1 + i \in 1 .. Len(rest)
      <4>1. (b - 1) - (a - 1) = b - a
        BY <2>2
      <4> QED BY <2>5, <3>1, <4>1
    <3>3. ASSUME NEW i \in 1 .. b - a
          PROVE  after[i] = before[i]
      <4>1. (a - 1 + i) + 1 = a + i
        BY <2>2
      <4> QED BY <1>2, <2>4, <3>2, <4>1
    <3>4. after = before
      BY <2>4, <2>5, <3>2, <3>3, SeqEqual
    <3> QED BY <1>3, <2>1, <2>7, <3>4 DEF before, after
  <2>8. CASE k = c
    <3>1. a = 0 /\ b # 0 /\ Rank(rest, k + 1) = 0 /\ Rank(rest, k) = b - 1
      BY <1>3, <2>1, <2>3, <2>8
    <3>2. b \in Nat \ {0} /\ Len(before) = b /\ \A i \in 1 .. b : before[i] = list[i]
      BY <2>2, <2>4, <3>1
    <3>3. before # <<>>
      BY <3>2, EmptySeq
    <3>4. /\ Tail(before) \in Seq(Threads) /\ Len(Tail(before)) = b - 1
          /\ \A i \in 1 .. b - 1 : Tail(before)[i] = before[i + 1]
      BY <2>4, <3>2, <3>3, HeadTailProperties
    <3>5. Head(before) = h
      BY <1>1, <2>4, <3>2, <3>3
    <3>6. /\ Len(after) = b - 1
          /\ \A i \in 1 .. b - 1 : after[i] = rest[i] /\ i \in 1 .. Len(rest)
      BY <2>5, <3>1, <3>2
    <3>7. ASSUME NEW i \in 1 .. b - 1
          PROVE  after[i] = Tail(before)[i]
      <4>1. i + 1 \in 1 .. b
        BY <3>2
      <4> QED BY <1>2, <3>2, <3>4, <3>6, <4>1
    <3>8. after = Tail(before)
      BY <2>5, <3>4, <3>6, <3>7, SeqEqual
    <3> QED BY <1>3, <2>1, <2>8, <3>3, <3>5, <3>8 DEF before, after
  <2> QED BY <1>3, <2>1, <2>6, <2>7, <2>8
<1> QED BY <1>3, <1>6, <1>8 DEF rest, c, h

(* Nobody is in a line who is not in the list.                                *)
LEMMA LineFromList ==
    ASSUME NEW list \in Seq(Threads), class \in [Threads -> Classes], InOrder(list),
           NEW t, ~ Contains(list, t), NEW k \in Classes
    PROVE  \A i \in 1 .. Len(Line(list, k)) : Line(list, k)[i] # t
<1>1. k \in Int
  BY DEF Classes
<1>2. /\ Len(Line(list, k)) = Rank(list, k) - Rank(list, k + 1)
      /\ \A i \in 1 .. Rank(list, k) - Rank(list, k + 1) :
            /\ Line(list, k)[i] = list[Rank(list, k + 1) + i]
            /\ Rank(list, k + 1) + i \in 1 .. Len(list)
  BY <1>1, LineProperties
<1> QED BY <1>2 DEF Contains

(* An empty list has empty lines.                                             *)
LEMMA EmptyLines ==
    ASSUME class \in [Threads -> Classes], NEW k \in Classes
    PROVE  Line(<<>>, k) = <<>>
<1>1. /\ {i \in DOMAIN <<>> : class[<<>>[i]] >= k} = {}
      /\ {i \in DOMAIN <<>> : class[<<>>[i]] >= k + 1} = {}
  OBVIOUS
<1>2. Rank(<<>>, k) = 0 /\ Rank(<<>>, k + 1) = 0
  BY <1>1, FS_EmptySet DEF Rank
<1>3. SubSeq(<<>>, 0 + 1, 0) = <<>>
  BY SubSeqEmpty
<1> QED BY <1>2, <1>3 DEF Line

-----------------------------------------------------------------------------
(* Steps and the gate *)

(* What a step does to the threads that are let through.                      *)
LEMMA GateEffects ==
    ASSUME PSIInv, SemaphoreAssumption, PSNext
    PROVE  \/ cnt' = cnt /\ sem_list' = sem_list /\ Admitted' = Admitted
           \/ /\ cnt' = cnt /\ sem_list' = sem_list
              /\ \E t \in Admitted : Admitted' = Admitted \ {t}
           \/ \E t \in Threads :
                 /\ cnt' = cnt - 1 /\ ~ Contains(sem_list, t) /\ t \notin Admitted
                 /\ IF cnt - 1 < 0
                      THEN sem_list' = enqueue_sorted(sem_list, t) /\ Admitted' = Admitted
                      ELSE sem_list' = sem_list /\ Admitted' = Admitted \cup {t}
           \/ /\ cnt' = cnt + 1
              /\ IF cnt + 1 <= 0
                   THEN /\ sem_list' = Tail(sem_list)
                        /\ Admitted' = Admitted \cup {Head(sem_list)}
                   ELSE sem_list' = sem_list /\ Admitted' = Admitted
<1>1. /\ Main \notin Threads /\ cnt \in Int /\ posted \in [Threads -> {0, 1}]
      /\ psPc \in [Threads \cup {Main} -> Labels]
      /\ \A t \in Threads :
            /\ psPc[t] \in {"unlock", "block"} <=> posted[t] = 1 \/ Contains(sem_list, t)
            /\ ~ (posted[t] = 1 /\ Contains(sem_list, t))
  BY DEF PSIInv, CountMatchesList, PSTypeOK, SemaphoreAssumption, Labels, NoLostWakeup
<1> DEFINE Passing == {"pass", "id1", "class1", "status1"}
<1>2. ASSUME NEW t \in Threads, Report(t)
      PROVE  /\ cnt' = cnt /\ sem_list' = sem_list
             /\ Admitted' = Admitted \/ (t \in Admitted /\ Admitted' = Admitted \ {t})
  <2>1. PICK from \in Labels, to \in Labels :
           /\ PSGoto(t, from, to) /\ posted' = posted /\ cnt' = cnt /\ sem_list' = sem_list
           /\ (from \in Passing <=> to \in Passing) \/ (from = "status1" /\ to = "id0")
    BY <1>2 DEF Report, Write, Labels
  <2>2. \A u \in Threads \ {t} : u \in Admitted' <=> u \in Admitted
    BY <1>1, <2>1 DEF Admitted, PSGoto
  <2>3. CASE from \in Passing <=> to \in Passing
    <3>1. t \in Admitted' <=> t \in Admitted
      BY <1>1, <2>1, <2>3 DEF Admitted, PSGoto
    <3>2. Admitted' = Admitted
      BY <2>2, <3>1 DEF Admitted
    <3> QED BY <2>1, <3>2
  <2>4. CASE from = "status1" /\ to = "id0"
    <3>1. t \in Admitted /\ t \notin Admitted'
      BY <1>1, <2>1, <2>4 DEF Admitted, PSGoto
    <3>2. Admitted' = Admitted \ {t}
      BY <2>2, <3>1 DEF Admitted
    <3> QED BY <2>1, <3>1, <3>2
  <2> QED BY <2>1, <2>3, <2>4
<1>3. ASSUME NEW t \in Threads, WaitLock(t) \/ WaitUnlock(t) \/ Block(t)
      PROVE  cnt' = cnt /\ sem_list' = sem_list /\ Admitted' = Admitted
  <2>1. /\ cnt' = cnt /\ sem_list' = sem_list
        /\ \A u \in Threads \ {t} : psPc'[u] = psPc[u] /\ posted'[u] = posted[u]
    BY <1>1, <1>3 DEF WaitLock, WaitUnlock, Block, PSGoto
  <2>2. t \in Admitted' <=> t \in Admitted
    <3>1. CASE WaitLock(t) \/ WaitUnlock(t)
      BY <1>1, <3>1 DEF WaitLock, WaitUnlock, PSGoto, Admitted
    <3>2. CASE Block(t)
      <4>1. posted[t] = 1 /\ psPc'[t] = "id1"
        BY <1>1, <3>2 DEF Block, PSGoto
      <4> QED BY <4>1 DEF Admitted
    <3> QED BY <1>3, <3>1, <3>2
  <2>3. Admitted' = Admitted
    BY <2>1, <2>2 DEF Admitted
  <2> QED BY <2>1, <2>3
<1>4. ASSUME NEW t \in Threads, WaitCount(t)
      PROVE  /\ cnt' = cnt - 1 /\ ~ Contains(sem_list, t) /\ t \notin Admitted
             /\ IF cnt - 1 < 0
                  THEN sem_list' = enqueue_sorted(sem_list, t) /\ Admitted' = Admitted
                  ELSE sem_list' = sem_list /\ Admitted' = Admitted \cup {t}
  <2>1. /\ cnt' = cnt - 1 /\ psPc[t] = "count" /\ posted' = posted
        /\ \A u \in Threads \ {t} : psPc'[u] = psPc[u]
        /\ IF cnt - 1 < 0
             THEN sem_list' = enqueue_sorted(sem_list, t) /\ psPc'[t] = "unlock"
             ELSE sem_list' = sem_list /\ psPc'[t] = "pass"
    BY <1>1, <1>4 DEF WaitCount, PSGoto
  <2>2. ~ Contains(sem_list, t) /\ posted[t] # 1 /\ t \notin Admitted
    BY <1>1, <2>1 DEF Admitted
  <2>3. \A u \in Threads \ {t} : u \in Admitted' <=> u \in Admitted
    BY <2>1 DEF Admitted
  <2>4. CASE cnt - 1 < 0
    <3>1. t \notin Admitted'
      BY <2>1, <2>2, <2>4 DEF Admitted
    <3>2. Admitted' = Admitted
      BY <2>2, <2>3, <3>1 DEF Admitted
    <3> QED BY <2>1, <2>2, <2>4, <3>2
  <2>5. CASE ~ (cnt - 1 < 0)
    <3>1. t \in Admitted'
      BY <2>1, <2>5 DEF Admitted
    <3>2. Admitted' = Admitted \cup {t}
      BY <2>3, <3>1 DEF Admitted
    <3> QED BY <2>1, <2>2, <2>5, <3>2
  <2> QED BY <2>4, <2>5
<1>5. ASSUME ReadWord \/ Log \/ SignalUnlock
      PROVE  cnt' = cnt /\ sem_list' = sem_list /\ Admitted' = Admitted
  <2>1. /\ cnt' = cnt /\ sem_list' = sem_list /\ posted' = posted
        /\ \A u \in Threads : psPc'[u] = psPc[u]
    BY <1>1, <1>5 DEF ReadWord, Log, SignalUnlock, PSGoto
  <2> QED BY <2>1 DEF Admitted
<1>6. ASSUME SignalCount
      PROVE  /\ cnt' = cnt + 1
             /\ IF cnt + 1 <= 0
                  THEN /\ sem_list' = Tail(sem_list)
                       /\ Admitted' = Admitted \cup {Head(sem_list)}
                  ELSE sem_list' = sem_list /\ Admitted' = Admitted
  <2>1. /\ cnt' = cnt + 1 /\ \A u \in Threads : psPc'[u] = psPc[u]
        /\ IF cnt + 1 <= 0
             THEN /\ posted' = [posted EXCEPT ![Head(sem_list)] = @ + 1]
                  /\ sem_list' = Tail(sem_list)
             ELSE posted' = posted /\ sem_list' = sem_list
    BY <1>1, <1>6 DEF SignalCount, PSGoto
  <2>2. CASE cnt + 1 <= 0
    <3> DEFINE h == Head(sem_list)
    <3>1. h \in Threads /\ Contains(sem_list, h)
      <4>1. sem_list \in Seq(Threads) /\ Len(sem_list) = - cnt /\ cnt < 0
        BY <1>1, <2>2 DEF PSIInv, CountMatchesList, PSTypeOK
      <4>2. sem_list # <<>>
        BY <1>1, <4>1, EmptySeq
      <4> QED BY <4>1, <4>2, HeadTail DEF PSIInv, NoneTwice
    <3> HIDE DEF h
    <3>2. posted[h] = 0
      BY <1>1, <3>1
    <3>3. posted'[h] = 1 /\ \A u \in Threads \ {h} : posted'[u] = posted[u]
      <4>1. posted' = [posted EXCEPT ![h] = @ + 1]
        BY <2>1, <2>2 DEF h
      <4> QED BY <1>1, <3>1, <3>2, <4>1
    <3>4. Admitted' = Admitted \cup {h}
      BY <2>1, <3>1, <3>3 DEF Admitted
    <3> QED BY <2>1, <2>2, <3>4 DEF h
  <2>3. CASE ~ (cnt + 1 <= 0)
    BY <2>1, <2>3 DEF Admitted
  <2> QED BY <2>1, <2>2, <2>3
<1> QED BY <1>2, <1>3, <1>4, <1>5, <1>6 DEF PSNext, MainStep, th_work

(* The step each of them is for the gate.                                     *)
LEMMA GateStep ==
    ASSUME PSIInv, PSIInv', InOrder(sem_list), SemaphoreAssumption, PSNext
    PROVE  /\ InOrder(sem_list)'
           /\ \/ UNCHANGED <<Tokens, Queues, Admitted>>
              \/ \E t \in Admitted : Admitted' = Admitted \ {t} /\ UNCHANGED <<Tokens, Queues>>
              \/ \E t \in Threads :
                    /\ \A k \in Classes : \A i \in 1 .. Len(Queues[k]) : Queues[k][i] # t
                    /\ t \notin Admitted
                    /\ \/ /\ Tokens > 0 /\ Tokens' = Tokens - 1
                          /\ Admitted' = Admitted \cup {t} /\ UNCHANGED Queues
                       \/ /\ Tokens = 0 /\ UNCHANGED <<Tokens, Admitted>>
                          /\ \E k \in Classes : Queues' = [Queues EXCEPT ![k] = Append(@, t)]
              \/ /\ \A k \in Classes : Queues[k] = <<>>
                 /\ Tokens' = Tokens + 1 /\ UNCHANGED <<Queues, Admitted>>
              \/ \E k \in Classes :
                    /\ Queues[k] # <<>>
                    /\ \A j \in Classes : j > k => Queues[j] = <<>>
                    /\ Queues' = [Queues EXCEPT ![k] = Tail(@)]
                    /\ Admitted' = Admitted \cup {Head(Queues[k])}
                    /\ UNCHANGED Tokens
<1>1. /\ cnt \in Int /\ sem_list \in Seq(Threads) /\ class \in [Threads -> Classes]
      /\ IF cnt < 0 THEN Len(sem_list) = - cnt ELSE sem_list = <<>>
  BY DEF PSIInv, CountMatchesList, PSTypeOK
<1>2. class' = class
  BY Types
<1>4. Queues' = [k \in Classes |-> Line(sem_list', k)]
  BY <1>2 DEF Queues, Line, Rank
<1>5. InOrder(sem_list)' <=> InOrder(sem_list')
  BY <1>2 DEF InOrder
<1>6. ASSUME sem_list' = sem_list
      PROVE  Queues' = Queues /\ InOrder(sem_list)'
  BY <1>4, <1>5, <1>6 DEF Queues
<1>7. CASE cnt' = cnt /\ sem_list' = sem_list /\ Admitted' = Admitted
  BY <1>6, <1>7 DEF Tokens
<1>8. CASE /\ cnt' = cnt /\ sem_list' = sem_list
           /\ \E t \in Admitted : Admitted' = Admitted \ {t}
  BY <1>6, <1>8 DEF Tokens
<1>9. ASSUME NEW t \in Threads, cnt' = cnt - 1, ~ Contains(sem_list, t), t \notin Admitted,
             IF cnt - 1 < 0
               THEN sem_list' = enqueue_sorted(sem_list, t) /\ Admitted' = Admitted
               ELSE sem_list' = sem_list /\ Admitted' = Admitted \cup {t}
      PROVE  /\ InOrder(sem_list)'
             /\ \A k \in Classes : \A i \in 1 .. Len(Queues[k]) : Queues[k][i] # t
             /\ \/ /\ Tokens > 0 /\ Tokens' = Tokens - 1
                   /\ Admitted' = Admitted \cup {t} /\ UNCHANGED Queues
                \/ /\ Tokens = 0 /\ UNCHANGED <<Tokens, Admitted>>
                   /\ \E k \in Classes : Queues' = [Queues EXCEPT ![k] = Append(@, t)]
  <2>1. \A k \in Classes : \A i \in 1 .. Len(Queues[k]) : Queues[k][i] # t
    BY <1>1, <1>9, LineFromList DEF Queues
  <2>2. CASE cnt - 1 < 0
    <3>1. Tokens = 0 /\ Tokens' = 0
      BY <1>1, <1>9, <2>2 DEF Tokens
    <3> DEFINE longer == enqueue_sorted(sem_list, t)
    <3>2. sem_list' = longer /\ Admitted' = Admitted
      BY <1>9, <2>2
    <3>3. /\ InOrder(longer)
          /\ \A k \in Classes : Line(longer, k) =
                IF k = class[t] THEN Append(Line(sem_list, k), t) ELSE Line(sem_list, k)
      BY <1>1, EnqueueLines
    <3> HIDE DEF longer
    <3>4. Queues' = [Queues EXCEPT ![class[t]] = Append(@, t)] /\ class[t] \in Classes
      BY <1>1, <1>4, <3>2, <3>3 DEF Queues
    <3>5. InOrder(sem_list)'
      BY <1>5, <3>2, <3>3
    <3> QED BY <2>1, <3>1, <3>2, <3>4, <3>5
  <2>3. CASE ~ (cnt - 1 < 0)
    <3>1. Tokens > 0 /\ Tokens' = Tokens - 1
      BY <1>1, <1>9, <2>3 DEF Tokens
    <3> QED BY <1>6, <1>9, <2>1, <2>3, <3>1
  <2> QED BY <2>2, <2>3
<1>10. CASE /\ cnt' = cnt + 1 /\ cnt + 1 <= 0 /\ sem_list' = Tail(sem_list)
            /\ Admitted' = Admitted \cup {Head(sem_list)}
  <2>1. cnt < 0 /\ sem_list # <<>>
    BY <1>1, <1>10, EmptySeq
  <2> DEFINE c == class[Head(sem_list)]
             rest == Tail(sem_list)
  <2>2. /\ InOrder(rest) /\ c \in Classes
        /\ Line(sem_list, c) # <<>> /\ Head(Line(sem_list, c)) = Head(sem_list)
        /\ \A k \in Classes : k > c => Line(sem_list, k) = <<>>
        /\ \A k \in Classes : Line(rest, k) =
              IF k = c THEN Tail(Line(sem_list, k)) ELSE Line(sem_list, k)
    BY <1>1, <2>1, DequeueLines
  <2>3. sem_list' = rest
    BY <1>10
  <2> HIDE DEF c, rest
  <2>4. Queues' = [Queues EXCEPT ![c] = Tail(@)]
    BY <1>4, <2>2, <2>3 DEF Queues
  <2>5. InOrder(sem_list)'
    BY <1>5, <2>2, <2>3
  <2>6. Queues[c] # <<>> /\ Head(Queues[c]) = Head(sem_list)
        /\ \A j \in Classes : j > c => Queues[j] = <<>>
    BY <2>2 DEF Queues
  <2>7. Tokens' = Tokens
    BY <1>1, <1>10, <2>1 DEF Tokens
  <2> QED BY <1>10, <2>2, <2>4, <2>5, <2>6, <2>7
<1>11. CASE /\ cnt' = cnt + 1 /\ ~ (cnt + 1 <= 0) /\ sem_list' = sem_list
            /\ Admitted' = Admitted
  <2>1. sem_list = <<>> /\ Tokens' = Tokens + 1
    BY <1>1, <1>11 DEF Tokens
  <2>2. \A k \in Classes : Queues[k] = <<>>
    BY <1>1, <2>1, EmptyLines DEF Queues
  <2> QED BY <1>6, <1>11, <2>1, <2>2
<1>12. CASE \E t \in Threads :
                 /\ cnt' = cnt - 1 /\ ~ Contains(sem_list, t) /\ t \notin Admitted
                 /\ IF cnt - 1 < 0
                      THEN sem_list' = enqueue_sorted(sem_list, t) /\ Admitted' = Admitted
                      ELSE sem_list' = sem_list /\ Admitted' = Admitted \cup {t}
  BY <1>9, <1>12
<1>13. CASE /\ cnt' = cnt + 1
            /\ IF cnt + 1 <= 0
                 THEN sem_list' = Tail(sem_list) /\ Admitted' = Admitted \cup {Head(sem_list)}
                 ELSE sem_list' = sem_list /\ Admitted' = Admitted
  <2>1. CASE cnt + 1 <= 0
    BY <1>10, <1>13, <2>1
  <2>2. CASE ~ (cnt + 1 <= 0)
    BY <1>11, <1>13, <2>2
  <2> QED BY <2>1, <2>2
<1> QED BY <1>7, <1>8, <1>12, <1>13, GateEffects

(* The semaphore of main.c is a gate that serves the highest class first, and
   within a class whoever came first. *)
THEOREM ImplementsGate == SemaphoreAssumption => (PSSpec => GateSpec)
<1> SUFFICES ASSUME SemaphoreAssumption PROVE PSSpec => GateSpec
  OBVIOUS
<1>1. PSInit => Gate!Init /\ InOrder(sem_list)
  <2> SUFFICES ASSUME PSInit PROVE Gate!Init /\ InOrder(sem_list)
    OBVIOUS
  <2>1. sem_list = <<>> /\ cnt = 0 /\ class \in [Threads -> Classes]
    BY DEF PSInit
  <2>2. Queues = [k \in Classes |-> <<>>]
    BY <2>1, EmptyLines DEF Queues
  <2>3. Admitted = {}
    BY DEF PSInit, Admitted, SemaphoreAssumption
  <2>4. InOrder(sem_list)
    BY <2>1, EmptySeq DEF InOrder
  <2> QED BY <2>1, <2>2, <2>3, <2>4 DEF Gate!Init, Queues
<1>2. PSIInv /\ PSIInv' /\ InOrder(sem_list) /\ [PSNext]_psVars
         => InOrder(sem_list)' /\ [Gate!Next]_(Gate!gateVars)
  <2> SUFFICES ASSUME PSIInv, PSIInv', InOrder(sem_list), [PSNext]_psVars
               PROVE  InOrder(sem_list)' /\ [Gate!Next]_(Gate!gateVars)
    OBVIOUS
  <2>1. Admitted \subseteq Threads
    BY DEF Admitted
  <2>2. CASE PSNext
    <3>0. InOrder(sem_list)'
      BY <2>2, GateStep
    <3> SUFFICES [Gate!Next]_(Gate!gateVars)
      BY <3>0
    <3>1. CASE UNCHANGED <<Tokens, Queues, Admitted>>
      BY <2>1, <3>1 DEF Gate!gateVars, Tokens, Queues
    <3>2. CASE \E t \in Admitted : Admitted' = Admitted \ {t} /\ UNCHANGED <<Tokens, Queues>>
      BY <2>1, <3>2 DEF Gate!Next, Gate!Depart, Tokens, Queues
    <3>3. CASE \E t \in Threads :
                 /\ \A k \in Classes : \A i \in 1 .. Len(Queues[k]) : Queues[k][i] # t
                 /\ t \notin Admitted
                 /\ \/ /\ Tokens > 0 /\ Tokens' = Tokens - 1
                       /\ Admitted' = Admitted \cup {t} /\ UNCHANGED Queues
                    \/ /\ Tokens = 0 /\ UNCHANGED <<Tokens, Admitted>>
                       /\ \E k \in Classes : Queues' = [Queues EXCEPT ![k] = Append(@, t)]
      BY <2>1, <3>3 DEF Gate!Next, Gate!Arrive, Gate!Waiting, Tokens, Queues
    <3>4. CASE /\ \A k \in Classes : Queues[k] = <<>>
               /\ Tokens' = Tokens + 1 /\ UNCHANGED <<Queues, Admitted>>
      BY <2>1, <3>4 DEF Gate!Next, Gate!Signal, Tokens, Queues
    <3>5. CASE \E k \in Classes :
                 /\ Queues[k] # <<>>
                 /\ \A j \in Classes : j > k => Queues[j] = <<>>
                 /\ Queues' = [Queues EXCEPT ![k] = Tail(@)]
                 /\ Admitted' = Admitted \cup {Head(Queues[k])}
                 /\ UNCHANGED Tokens
      BY <2>1, <3>5 DEF Gate!Next, Gate!Signal, Tokens, Queues
    <3> QED BY <2>2, <3>1, <3>2, <3>3, <3>4, <3>5, GateStep
  <2>3. CASE UNCHANGED psVars
    BY <2>3 DEF psVars, InOrder, Gate!gateVars, Line, Rank, Admitted
  <2> QED BY <2>2, <2>3
<1> QED BY <1>1, <1>2, PSInductive, PTL DEF PSSpec, GateSpec, Gate!Spec

-----------------------------------------------------------------------------
(* The circle line *)

(* A train at a stop has its station's permit of that direction.              *)
StopHasPermit == \A t \in AtStop : s_station[direction[t]][station[t]] = 0

IInv == StationTrackExclusive /\ StopHasPermit /\ RailsConserved

-----------------------------------------------------------------------------
(* Tracks ahead, tracks given back and next stations are stations.            *)
LEMMA Places ==
    ASSUME TypeOK, NEW t \in Trains
    PROVE  /\ RailAhead(t) \in Stations /\ RailGivenBack(t) \in Stations
           /\ NextStation(t) \in Stations
           /\ direction[t] \in {Forward, Backward} /\ station[t] \in Stations
<1>1. direction[t] \in {Forward, Backward} /\ station[t] \in 0 .. nStations - 1
      /\ nStations \in Nat \ {0}
  BY LineAssumption DEF LineAssumption, TypeOK, Stations
<1>2. RailAhead(t) \in 0 .. nStations - 1
  BY <1>1 DEF RailAhead
<1>3. RailGivenBack(t) \in 0 .. nStations - 1
  BY <1>1 DEF RailGivenBack
<1>4. NextStation(t) \in 0 .. nStations - 1
  BY <1>1 DEF NextStation
<1> QED BY <1>1, <1>2, <1>3, <1>4 DEF Stations

-----------------------------------------------------------------------------
(* Station tracks *)

LEMMA StationSafe ==
    ASSUME StationTrackExclusive, StopHasPermit, NEW t \in Trains, work(t)
    PROVE  /\ s_station' \in [{Forward, Backward} -> [Stations -> {0, 1}]]
           /\ direction' \in [Trains -> {Forward, Backward}]
           /\ station' \in [Trains -> Stations] /\ app' \in [Trains -> Stations]
           /\ pc' \in [Trains -> {"arrived", "stop", "depart", "travel"}]
           /\ \A u, v \in AtStop' :
                 direction'[u] = direction'[v] /\ station'[u] = station'[v] => u = v
           /\ StopHasPermit'
<1> DEFINE D == direction[t]
           I == station[t]
<1>0. /\ TypeOK /\ D \in {Forward, Backward} /\ I \in Stations
      /\ RailAhead(t) \in Stations /\ NextStation(t) \in Stations
  BY Places DEF StationTrackExclusive
<1>1. /\ s_station = [d \in {Forward, Backward} |-> [k \in Stations |-> s_station[d][k]]]
      /\ \A d \in {Forward, Backward}, k \in Stations : s_station[d][k] \in {0, 1}
      /\ direction = [u \in Trains |-> direction[u]]
      /\ \A u \in Trains : direction[u] \in {Forward, Backward}
      /\ station = [u \in Trains |-> station[u]] /\ \A u \in Trains : station[u] \in Stations
      /\ app = [u \in Trains |-> app[u]] /\ \A u \in Trains : app[u] \in Stations
      /\ pc = [u \in Trains |-> pc[u]]
      /\ \A u \in Trains : pc[u] \in {"arrived", "stop", "depart", "travel"}
  BY <1>0 DEF TypeOK
<1>2. /\ \A u, v \in AtStop : direction[u] = direction[v] /\ station[u] = station[v] => u = v
      /\ \A u \in AtStop : s_station[direction[u]][station[u]] = 0
  BY DEF StationTrackExclusive, StopHasPermit
<1>3. CASE EnterStation(t)
  <2>1. /\ pc' = [pc EXCEPT ![t] = "stop"] /\ s_station[D][I] = 1
        /\ s_station' = [s_station EXCEPT ![D][I] = 0]
        /\ direction' = direction /\ station' = station /\ app' = app
    <3>1. /\ pc' = [pc EXCEPT ![t] = "stop"] /\ s_station[D][I] > 0
          /\ s_station' = [s_station EXCEPT ![D][I] = @ - 1]
          /\ direction' = direction /\ station' = station /\ app' = app
      BY <1>3 DEF EnterStation, Goto
    <3>2. s_station[D][I] = 1
      BY <1>0, <1>1, <3>1
    <3> QED BY <3>1, <3>2
  <2>2. AtStop' = AtStop \cup {t}
    BY <1>1, <2>1 DEF AtStop
  <2>3. \A u \in AtStop : ~ (direction[u] = D /\ station[u] = I)
    BY <1>2, <2>1
  <2>4. s_station'[D][I] = 0 /\ \A d \in {Forward, Backward}, k \in Stations :
           d # D \/ k # I => s_station'[d][k] = s_station[d][k]
    BY <1>0, <1>1, <2>1
  <2>5. s_station' \in [{Forward, Backward} -> [Stations -> {0, 1}]]
    BY <1>0, <1>1, <2>1
  <2>6. pc' \in [Trains -> {"arrived", "stop", "depart", "travel"}]
    BY <1>1, <2>1
  <2>7. \A u, v \in AtStop' :
                 direction'[u] = direction'[v] /\ station'[u] = station'[v] => u = v
    BY <1>2, <2>1, <2>2, <2>3
  <2>8. StopHasPermit'
    <3> SUFFICES ASSUME NEW u \in AtStop'
                 PROVE  s_station'[direction'[u]][station'[u]] = 0
      BY DEF StopHasPermit
    <3>1. u = t \/ (u \in AtStop /\ u \in Trains)
      BY <2>2 DEF AtStop
    <3>2. CASE u = t
      BY <3>2, <2>1, <2>4
    <3>3. CASE u \in AtStop /\ u \in Trains
      <4>1. s_station[direction[u]][station[u]] = 0 /\ direction[u] \in {Forward, Backward}
            /\ station[u] \in Stations
        BY <3>3, <1>1, <1>2
      <4>2. s_station'[direction[u]][station[u]] = s_station[direction[u]][station[u]]
        BY <4>1, <3>3, <2>3, <2>4
      <4> QED BY <4>1, <4>2, <2>1
    <3> QED BY <3>1, <3>2, <3>3
  <2> QED BY <1>1, <2>1, <2>5, <2>6, <2>7, <2>8
<1>4. CASE TakeRail(t)
  <2>1. /\ pc[t] = "stop" /\ pc' = [pc EXCEPT ![t] = "depart"] /\ s_station' = s_station
        /\ direction' = direction /\ station' = station
        /\ app' = [app EXCEPT ![t] = RailAhead(t)]
    BY <1>4 DEF TakeRail, Goto
  <2>2. AtStop' = AtStop
    BY <1>1, <2>1 DEF AtStop
  <2>3. StopHasPermit'
    BY <1>2, <2>1, <2>2 DEF StopHasPermit
  <2> QED BY <1>0, <1>1, <1>2, <2>1, <2>2, <2>3
<1>5. CASE LeaveStation(t)
  <2>1. /\ pc[t] = "depart" /\ pc' = [pc EXCEPT ![t] = "travel"]
        /\ s_station' = [s_station EXCEPT ![D][I] = @ + 1]
        /\ direction' = direction /\ station' = station /\ app' = app
    BY <1>5 DEF LeaveStation, Goto
  <2>2. AtStop' = AtStop \ {t} /\ t \in AtStop
    BY <1>1, <2>1 DEF AtStop
  <2>3. s_station[D][I] = 0
    BY <1>2, <2>2
  <2>4. \A u \in AtStop' : u \in AtStop /\ ~ (direction[u] = D /\ station[u] = I)
    BY <1>2, <2>2
  <2>5. \A d \in {Forward, Backward}, k \in Stations :
           d # D \/ k # I => s_station'[d][k] = s_station[d][k]
    BY <1>0, <1>1, <2>1
  <2>6. s_station' \in [{Forward, Backward} -> [Stations -> {0, 1}]]
    BY <1>0, <1>1, <2>1, <2>3
  <2>7. pc' \in [Trains -> {"arrived", "stop", "depart", "travel"}]
    BY <1>1, <2>1
  <2>8. StopHasPermit'
    <3> SUFFICES ASSUME NEW u \in AtStop'
                 PROVE  s_station'[direction'[u]][station'[u]] = 0
      BY DEF StopHasPermit
    <3>1. u \in AtStop /\ u \in Trains /\ ~ (direction[u] = D /\ station[u] = I)
      BY <2>4 DEF AtStop
    <3>2. s_station[direction[u]][station[u]] = 0 /\ direction[u] \in {Forward, Backward}
          /\ station[u] \in Stations
      BY <3>1, <1>1, <1>2
    <3>3. s_station'[direction[u]][station[u]] = s_station[direction[u]][station[u]]
      BY <3>1, <3>2, <2>5
    <3> QED BY <3>2, <3>3, <2>1
  <2> QED BY <1>1, <1>2, <2>1, <2>2, <2>6, <2>7, <2>8
<1>6. CASE Arrive(t)
  <2>1. /\ pc[t] = "travel" /\ pc' = [pc EXCEPT ![t] = "arrived"] /\ s_station' = s_station
        /\ direction' = direction /\ station' = [station EXCEPT ![t] = NextStation(t)]
        /\ app' = app
    BY <1>6 DEF Arrive, Goto
  <2>2. AtStop' = AtStop /\ t \notin AtStop
    BY <1>1, <2>1 DEF AtStop
  <2>3. \A u \in AtStop : station'[u] = station[u]
    BY <1>1, <2>1, <2>2 DEF AtStop
  <2>4. StopHasPermit'
    BY <1>2, <2>1, <2>2, <2>3 DEF StopHasPermit
  <2> QED BY <1>0, <1>1, <1>2, <2>1, <2>2, <2>3, <2>4
<1> QED BY <1>3, <1>4, <1>5, <1>6 DEF work

-----------------------------------------------------------------------------
(* Tracks between stations *)

(* The permits of tracks with f[i] of them.                                   *)
PermitsOn(f) == UNION {{i} \X (1 .. f[i]) : i \in Stations}

(* The permits, as pairs; there are finitely many, and at least as many as any
   one track has. *)
LEMMA PermitsOf ==
    ASSUME NEW f \in [Stations -> Nat]
    PROVE  /\ \A q : q \in PermitsOn(f) <=>
                 \E i \in Stations, k \in Nat : q = <<i, k>> /\ 1 <= k /\ k <= f[i]
           /\ IsFiniteSet(PermitsOn(f)) /\ Cardinality(PermitsOn(f)) \in Nat
           /\ \A i \in Stations : f[i] <= Cardinality(PermitsOn(f))
<1>1. \A q : q \in PermitsOn(f) <=>
                 \E i \in Stations, k \in Nat : q = <<i, k>> /\ 1 <= k /\ k <= f[i]
  <2>1. ASSUME NEW q, q \in PermitsOn(f)
        PROVE  \E i \in Stations, k \in Nat : q = <<i, k>> /\ 1 <= k /\ k <= f[i]
    <3>1. PICK i \in Stations : q \in {i} \X (1 .. f[i])
      BY <2>1 DEF PermitsOn
    <3>2. f[i] \in Nat
      OBVIOUS
    <3>3. PICK k \in 1 .. f[i] : q = <<i, k>>
      BY <3>1
    <3> QED BY <3>2, <3>3
  <2>2. ASSUME NEW i \in Stations, NEW k \in Nat, 1 <= k, k <= f[i]
        PROVE  <<i, k>> \in PermitsOn(f)
    <3>1. f[i] \in Nat
      OBVIOUS
    <3>2. <<i, k>> \in {i} \X (1 .. f[i])
      BY <2>2, <3>1
    <3> QED BY <3>2 DEF PermitsOn
  <2> QED BY <2>1, <2>2
<1>2. \A i \in Stations : /\ IsFiniteSet({i} \X (1 .. f[i]))
                          /\ Cardinality({i} \X (1 .. f[i])) = f[i]
  <2> SUFFICES ASSUME NEW i \in Stations
               PROVE  /\ IsFiniteSet({i} \X (1 .. f[i]))
                      /\ Cardinality({i} \X (1 .. f[i])) = f[i]
    OBVIOUS
  <2>1. f[i] \in Nat
    OBVIOUS
  <2>2. IsFiniteSet(1 .. f[i])
        /\ Cardinality(1 .. f[i]) = f[i]
    BY <2>1, FS_Interval
  <2>3. IsFiniteSet({i}) /\ Cardinality({i}) = 1
    BY FS_Singleton
  <2>4. /\ IsFiniteSet({i} \X (1 .. f[i]))
        /\ Cardinality({i} \X (1 .. f[i])) = Cardinality({i}) * Cardinality(1 .. f[i])
    BY <2>2, <2>3, FS_Product
  <2> QED BY <2>1, <2>2, <2>3, <2>4
<1>3. IsFiniteSet(Stations)
  BY FS_Interval, LineAssumption DEF Stations, LineAssumption
<1>4. IsFiniteSet({{i} \X (1 .. f[i]) : i \in Stations})
  <2> DEFINE T == {{i} \X (1 .. f[i]) : i \in Stations}
             g == [i \in Stations |-> {i} \X (1 .. f[i])]
  <2>1. g \in [Stations -> T] /\ \A X \in T : \E i \in Stations : g[i] = X
    OBVIOUS
  <2> HIDE DEF g, T
  <2>2. g \in Surjection(Stations, T)
    BY <2>1, Fun_IsSurj
  <2> QED BY <1>3, <2>2, FS_Surjection DEF T
<1>5. IsFiniteSet(PermitsOn(f))
  <2>1. \A X \in {{i} \X (1 .. f[i]) : i \in Stations} : IsFiniteSet(X)
    BY <1>2
  <2> QED BY <1>4, <2>1, FS_UNION DEF PermitsOn
<1>6. \A i \in Stations : f[i] <= Cardinality(PermitsOn(f))
  <2> SUFFICES ASSUME NEW i \in Stations
               PROVE  f[i] <= Cardinality(PermitsOn(f))
    OBVIOUS
  <2>1. {i} \X (1 .. f[i]) \subseteq PermitsOn(f)
    BY DEF PermitsOn
  <2>2. Cardinality({i} \X (1 .. f[i])) <= Cardinality(PermitsOn(f))
    BY <1>5, <2>1, FS_Subset
  <2> QED BY <1>2, <2>2
<1> QED BY <1>1, <1>5, <1>6, FS_CardinalityType

(* A station's n permits, one each. *)
LEMMA RailsInit ==
    ASSUME Init
    PROVE  RailsConserved
<1>1. s_station_change = [i \in Stations |-> 1] /\ OnRail = {}
  BY DEF Init, OnRail
<1>2. IsFiniteSet(Stations) /\ Cardinality(Stations) = nStations
  <2>1. nStations \in Nat /\ 0 <= nStations - 1
    BY LineAssumption DEF LineAssumption
  <2> QED BY <2>1, FS_Interval DEF Stations
<1>3. RailPermits = Stations \X {1}
  <2>1. s_station_change \in [Stations -> Nat]
    BY <1>1
  <2>2. \A q : q \in RailPermits <=> \E i \in Stations : q = <<i, 1>>
    BY <2>1, <1>1, PermitsOf DEF PermitsOn, RailPermits
  <2> QED BY <2>2
<1>4. Cardinality(RailPermits) = nStations * 1
  <2>1. IsFiniteSet({1}) /\ Cardinality({1}) = 1
    BY FS_Singleton
  <2>2. Cardinality(Stations \X {1}) = Cardinality(Stations) * Cardinality({1})
    BY <1>2, <2>1, FS_Product
  <2> QED BY <1>2, <1>3, <2>1, <2>2
<1> QED BY <1>1, <1>4, FS_EmptySet, LineAssumption DEF RailsConserved, LineAssumption

LEMMA RailsSafe ==
    ASSUME TypeOK, RailsConserved, NEW t \in Trains, work(t)
    PROVE  /\ s_station_change' \in [Stations -> 0 .. nStations]
           /\ RailsConserved'
<1> DEFINE G == RailGivenBack(t)
           H == RailAhead(t)
<1>0. /\ H \in Stations /\ G \in Stations /\ nStations \in Nat
      /\ s_station_change \in [Stations -> 0 .. nStations] /\ IsFiniteSet(Trains)
      /\ pc = [u \in Trains |-> pc[u]]
  BY Places, LineAssumption DEF LineAssumption, TypeOK
<1>1. s_station_change \in [Stations -> Nat]
  BY <1>0
<1>2. IsFiniteSet(OnRail) /\ Cardinality(OnRail) \in Nat
  BY <1>0, FS_Subset, FS_CardinalityType DEF OnRail
<1>3. IsFiniteSet(RailPermits) /\ Cardinality(RailPermits) \in Nat
  BY <1>1, PermitsOf DEF PermitsOn, RailPermits
<1>4. Cardinality(RailPermits) + Cardinality(OnRail) = nStations
  BY DEF RailsConserved
<1>5. ASSUME s_station_change' = s_station_change, OnRail' = OnRail
      PROVE  RailsConserved'
  BY <1>5, <1>4 DEF RailsConserved, RailPermits
<1>6. CASE EnterStation(t)
  <2>1. OnRail' = OnRail /\ s_station_change' = s_station_change
    BY <1>0, <1>6 DEF EnterStation, Goto, OnRail
  <2> QED BY <2>1, <1>0, <1>5
<1>7. CASE LeaveStation(t)
  <2>1. OnRail' = OnRail /\ s_station_change' = s_station_change
    BY <1>0, <1>7 DEF LeaveStation, Goto, OnRail
  <2> QED BY <2>1, <1>0, <1>5
<1>8. CASE TakeRail(t)
  <2>1. /\ pc[t] = "stop" /\ pc' = [pc EXCEPT ![t] = "depart"]
        /\ s_station_change[H] > 0
        /\ s_station_change' = [s_station_change EXCEPT ![H] = @ - 1]
    BY <1>8 DEF TakeRail, Goto
  <2>2. s_station_change' \in [Stations -> 0 .. nStations]
    BY <1>0, <2>1
  <2>3. t \notin OnRail /\ OnRail' = OnRail \cup {t}
    BY <1>0, <2>1 DEF OnRail
  <2>4. s_station_change' \in [Stations -> Nat]
    BY <2>2, <1>0
  <2>5. /\ \A q : q \in RailPermits <=>
              \E i \in Stations, k \in Nat : q = <<i, k>> /\ 1 <= k /\ k <= s_station_change[i]
        /\ \A q : q \in RailPermits' <=>
              \E i \in Stations, k \in Nat : q = <<i, k>> /\ 1 <= k /\ k <= s_station_change'[i]
    BY <1>1, <2>4, PermitsOf DEF PermitsOn, RailPermits
  <2>6. \A i \in Stations, k \in Nat :
           k <= s_station_change'[i] <=>
              k <= s_station_change[i] /\ <<i, k>> # <<H, s_station_change[H]>>
    BY <1>0, <1>1, <2>1
  <2>7. /\ RailPermits' = RailPermits \ {<<H, s_station_change[H]>>}
        /\ <<H, s_station_change[H]>> \in RailPermits
    BY <1>0, <1>1, <2>1, <2>5, <2>6
  <2>8. Cardinality(RailPermits') = Cardinality(RailPermits) - 1
    BY <1>3, <2>7, FS_RemoveElement
  <2>9. Cardinality(OnRail') = Cardinality(OnRail) + 1
    BY <1>2, <2>3, FS_AddElement
  <2> QED BY <1>2, <1>3, <1>4, <2>2, <2>8, <2>9 DEF RailsConserved
<1>9. CASE Arrive(t)
  <2>1. /\ pc[t] = "travel" /\ pc' = [pc EXCEPT ![t] = "arrived"]
        /\ s_station_change' = [s_station_change EXCEPT ![G] = @ + 1]
    BY <1>9 DEF Arrive, Goto
  <2>3. t \in OnRail /\ OnRail' = OnRail \ {t}
    BY <1>0, <2>1 DEF OnRail
  <2>4. s_station_change' \in [Stations -> Nat]
    BY <2>1, <1>0, <1>1
  <2>5. /\ \A q : q \in RailPermits <=>
              \E i \in Stations, k \in Nat : q = <<i, k>> /\ 1 <= k /\ k <= s_station_change[i]
        /\ \A q : q \in RailPermits' <=>
              \E i \in Stations, k \in Nat : q = <<i, k>> /\ 1 <= k /\ k <= s_station_change'[i]
    BY <1>1, <2>4, PermitsOf DEF PermitsOn, RailPermits
  <2>6. \A i \in Stations, k \in Nat :
           k <= s_station_change'[i] <=>
              k <= s_station_change[i] \/ <<i, k>> = <<G, s_station_change[G] + 1>>
    BY <1>0, <1>1, <2>1
  <2>7. /\ RailPermits' = RailPermits \cup {<<G, s_station_change[G] + 1>>}
        /\ <<G, s_station_change[G] + 1>> \notin RailPermits
    BY <1>0, <1>1, <2>1, <2>5, <2>6
  <2>8. Cardinality(RailPermits') = Cardinality(RailPermits) + 1
    BY <1>3, <2>7, FS_AddElement
  <2>9. Cardinality(OnRail') = Cardinality(OnRail) - 1 /\ Cardinality(OnRail) > 0
    BY <1>2, <2>3, FS_RemoveElement, FS_EmptySet
  <2>10. s_station_change' \in [Stations -> 0 .. nStations]
    <3>1. \A i \in Stations : s_station_change'[i] <= Cardinality(RailPermits')
      BY <2>4, PermitsOf DEF PermitsOn, RailPermits
    <3>2. Cardinality(RailPermits') <= nStations
      BY <1>2, <1>3, <1>4, <2>8, <2>9
    <3>3. Cardinality(RailPermits') \in Nat
      BY <1>3, <2>8
    <3> QED BY <3>1, <3>2, <3>3, <2>4, <1>0
  <2> QED BY <1>2, <1>3, <1>4, <2>10, <2>8, <2>9 DEF RailsConserved
<1> QED BY <1>6, <1>7, <1>8, <1>9 DEF work

-----------------------------------------------------------------------------
(* The invariant holds in every reachable state.                              *)
THEOREM Inductive == Spec => []IInv
<1>1. Init => IInv
  <2> SUFFICES ASSUME Init PROVE IInv
    OBVIOUS
  <2>1. TypeOK
    BY LineAssumption DEF Init, TypeOK, Stations, LineAssumption
  <2>2. AtStop = {}
    BY DEF Init, AtStop
  <2> QED BY <2>1, <2>2, RailsInit DEF IInv, StationTrackExclusive, StopHasPermit
<1>2. IInv /\ [Next]_vars => IInv'
  <2> SUFFICES ASSUME IInv, [Next]_vars PROVE IInv'
    OBVIOUS
  <2>1. ASSUME NEW t \in Trains, work(t)
        PROVE  IInv'
    <3>1. /\ s_station_change' \in [Stations -> 0 .. nStations] /\ RailsConserved'
      BY <2>1, RailsSafe DEF IInv, StationTrackExclusive
    <3> QED BY <2>1, <3>1, StationSafe DEF IInv, StationTrackExclusive, TypeOK
  <2>2. CASE UNCHANGED vars
    BY <2>2 DEF vars, IInv, StationTrackExclusive, TypeOK, StopHasPermit, RailsConserved,
       RailPermits, AtStop, OnRail
  <2> QED BY <2>1, <2>2 DEF Next
<1> QED BY <1>1, <1>2, PTL DEF Spec

(* A station's track of a direction never holds two trains: the post of a train
   that leaves comes before its index moves (EXAMS/2013-07-22/main.c). *)
THEOREM StationTracksSafe == Spec => []StationTrackExclusive
BY Inductive, PTL DEF IInv

(* The tracks between the stations of main.c get back as many permits as were
   taken, though not the same ones. *)
THEOREM RailsKept == Spec => []RailsConserved
BY Inductive, PTL DEF IInv
==============================================================================
