------------------------- MODULE TaskQueues_proofs --------------------------
(* Proofs that the rings of EXAMS/2012-02-28/main.cpp hand every task of the   *)
(* file on once and in order, for any numbers of clients, servers and queues,  *)
(* any size of a ring and any file, also while the servers are shut down.      *)
EXTENDS TaskQueues, FiniteSetTheorems, SequenceTheorems, WellFoundedInduction, TLAPS

ClientLabels == {"read", "empty", "enter", "store", "forward", "leave", "release", "end"}
ServerLabels == {"wait", "check", "enter", "take", "forward", "run", "release", "end"}

(* Every thread is at a place of its own program.                              *)
Typed ==
    /\ TypeOK /\ pc = [t \in Threads |-> pc[t]]
    /\ \A c \in Clients : pc[c] \in ClientLabels
    /\ \A s \in Servers : pc[s] \in ServerLabels
    /\ pc[Main] \in {"join", "wake", "end"}

(* The flag is set when the last client has ended.                             *)
DoneAfterClients ==
    /\ is_done <=> pc[Main] # "join"
    /\ is_done => \A c \in Clients : pc[c] = "end"

(* The threads that have a place in ring i: clients that fill one and those that
   have filled it, servers that will take a task, may take one, are in the
   section with a task not yet passed, and those that have emptied a place. *)
Filling(i) == Cardinality(ClientsAt(i, {"enter", "store", "forward"}))
Filled(i) == Cardinality(ClientsAt(i, {"leave", "release"}))
Claiming(i) == Cardinality(ServersAt(i, {"check", "enter", "take"}))
Claimed(i) == Cardinality(ServersAt(i, {"enter", "take"}))
Taken(i) == Cardinality(ServersAt(i, {"forward"}))
Emptying(i) == Cardinality(ServersAt(i, {"forward", "run", "release"}))

(* While clients are at work, a permit of full stands for a task.  A server that
   is about to take a task finds one, also during the shutdown.  The write index
   is ahead of the read index by the tasks in the ring and the one being taken. *)
Accounted(i) ==
    /\ ~ is_done => Held(i) = full[i] + Filled(i) + Claiming(i)
    /\ Held(i) >= Claimed(i)
    /\ write[i] = Wrap(read[i] + (Taken(i) + Held(i)))

(* One client and one server at most are at the indices of a ring.             *)
Exclusion ==
    /\ \A c \in Clients : pc[c] \in {"store", "forward", "leave"} => cs_client[index[c]] = c
    /\ \A s \in Servers : pc[s] \in {"take", "forward", "run"} => cs_server[index[s]] = s

(* What a client has in hand is the last record it read, with its queue; it is
   in the ring once it has been stored. *)
InHand ==
    \A c \in Clients :
        /\ pc[c] \in {"empty", "enter", "store", "forward"} =>
              /\ r[c] = file_pos[c] - 1 /\ r[c] \in 1 .. Len(Tasks) /\ Tasks[r[c]].C = c
              /\ QueueOf(r[c]) = index[c]
        /\ pc[c] = "forward" => buffer[index[c]][write[index[c]]] = r[c]

IInv == /\ Typed /\ DoneAfterClients /\ Exclusion /\ InHand
        /\ \A i \in Queues : Accounted(i)

-----------------------------------------------------------------------------
(* The smallest of a set of numbers *)

LEMMA MinIs ==
    ASSUME NEW S \in SUBSET Int, NEW k \in S, \A j \in S : k <= j
    PROVE  Min(S) = k
<1>1. \A x \in S : (\A y \in S : x <= y) => x = k
  OBVIOUS
<1> QED BY <1>1 DEF Min

LEMMA MinOfNaturals ==
    ASSUME NEW S \in SUBSET Nat, S # {}
    PROVE  Min(S) \in S
<1>1. PICK n \in S : \A m \in S : ~ (<<m, n>> \in OpToRel(<, Nat))
  BY NatLessThanWellFounded, WFMin
<1>2. \A m \in S : n <= m
  <2>1. \A m \in S : ~ (m < n)
    BY <1>1 DEF OpToRel
  <2> QED BY <2>1
<1>3. Min(S) = n
  BY <1>2, MinIs
<1> QED BY <1>3

-----------------------------------------------------------------------------
(* Types *)

LEMMA Roles ==
    /\ Q \in Nat \ {0} /\ Size \in Nat \ {0} /\ Queues = 0 .. Q - 1 /\ 0 \in Queues
    /\ IsFiniteSet(Clients) /\ IsFiniteSet(Servers) /\ Clients \cap Servers = {}
    /\ Threads = Clients \cup Servers \cup {Main} /\ Main \notin Clients \cup Servers
    /\ NoOne \notin Clients \cup Servers
    /\ Cardinality(Servers) \in Nat /\ Len(Tasks) \in Nat /\ NoTask \notin 1 .. Len(Tasks)
    /\ \A k \in Slots : k \in Nat /\ k < Size /\ Advance(k) \in Slots
    /\ 0 \in Slots
<1>1. Cardinality(Servers) \in Nat
  BY QueuesAssumption, FS_CardinalityType DEF QueuesAssumption
<1>2. Len(Tasks) \in Nat
  BY QueuesAssumption, LenProperties DEF QueuesAssumption
<1> QED BY <1>1, <1>2, QueuesAssumption DEF QueuesAssumption, Queues, Threads, Slots, Advance

(* The semaphore that wakes a server is one of the queues'.                    *)
LEMMA ReadyFirst ==
    ASSUME Typed, Ready # {}
    PROVE  Min(Ready) \in Queues /\ full[Min(Ready)] > 0
<1>1. Ready \in SUBSET Nat
  BY Roles DEF Ready
<1> QED BY <1>1, MinOfNaturals DEF Ready

(* One thread goes on, from a place of its program to another.                 *)
LEMMA Moves ==
    ASSUME Typed, NEW t \in Threads, NEW from, NEW to, Goto(t, from, to)
    PROVE  /\ pc[t] = from /\ pc'[t] = to
           /\ \A u \in Threads \ {t} : pc'[u] = pc[u]
           /\ pc' = [u \in Threads |-> pc'[u]]
BY DEF Typed, Goto

LEMMA ClientTypes ==
    ASSUME Typed, NEW c \in Clients, client_work(c)
    PROVE  Typed'
<1> USE DEF TypeOK, Post
<1>0. c \in Threads /\ c # Main /\ c \notin Servers /\ c \in Clients \cup Servers /\ TypeOK
  BY Roles DEF Typed
<1>1. TypeOK'
  <2>1. CASE ReadTask(c)
    <3>1. file_pos[c] \in 1 .. Len(Tasks) /\ file_pos[c] + 1 \in 1 .. Len(Tasks) + 1
      <4>1. file_pos[c] \in 1 .. Len(Tasks) + 1 /\ file_pos[c] <= Len(Tasks) /\ Len(Tasks) \in Nat
        BY <1>0, <2>1, Roles DEF ReadTask
      <4> QED BY <4>1
    <3>2. file_pos' \in [Clients -> 1 .. Len(Tasks) + 1]
      BY <1>0, <2>1, <3>1 DEF ReadTask
    <3>3. /\ r' \in [Clients \cup Servers -> (1 .. Len(Tasks)) \cup {NoTask}]
          /\ index' \in [Clients \cup Servers -> Queues]
      <4>1. CASE /\ QueueOf(file_pos[c]) \in Queues
                 /\ r' = [r EXCEPT ![c] = file_pos[c]]
                 /\ index' = [index EXCEPT ![c] = QueueOf(file_pos[c])]
        BY <1>0, <3>1, <4>1
      <4>2. CASE r' = r /\ index' = index
        BY <1>0, <4>2
      <4> QED BY <2>1, <4>1, <4>2 DEF ReadTask
    <3> QED BY <1>0, <2>1, <3>2, <3>3 DEF ReadTask, rings
  <2>2. CASE EndOfFile(c)
    BY <1>0, <2>2 DEF EndOfFile, rings, locals
  <2>3. CASE WaitEmpty(c)
    <3>1. index[c] \in Queues /\ empty[index[c]] - 1 \in 0 .. Size
      BY <1>0, <2>3, Roles DEF WaitEmpty
    <3>2. empty' \in [Queues -> 0 .. Size]
      BY <1>0, <2>3, <3>1 DEF WaitEmpty
    <3> QED BY <1>0, <2>3, <3>2 DEF WaitEmpty, rings, locals
  <2>4. CASE EnterClient(c)
    BY <1>0, <2>4 DEF EnterClient, rings, locals
  <2>5. CASE Store(c)
    BY <1>0, <2>5 DEF Store, rings, locals
  <2>6. CASE StoreForward(c)
    BY <1>0, <2>6, Roles DEF StoreForward, locals
  <2>7. CASE LeaveClient(c)
    BY <1>0, <2>7 DEF LeaveClient, rings, locals
  <2>8. CASE ReleaseFull(c)
    <3>1. index[c] \in Queues /\ Post(full[index[c]]) \in 0 .. Size
      BY <1>0, Roles
    <3>2. full' \in [Queues -> 0 .. Size]
      BY <1>0, <2>8, <3>1 DEF ReleaseFull
    <3> QED BY <1>0, <2>8, <3>2 DEF ReleaseFull, rings, locals
  <2> QED BY <2>1, <2>2, <2>3, <2>4, <2>5, <2>6, <2>7, <2>8 DEF client_work
<1>2. \/ pc' = pc
      \/ \E from \in ClientLabels, to \in ClientLabels : Goto(c, from, to)
  <2>1. CASE ReadTask(c)
    BY <2>1 DEF ReadTask, ClientLabels
  <2>2. CASE EndOfFile(c)
    BY <2>2 DEF EndOfFile, ClientLabels
  <2>3. CASE WaitEmpty(c) \/ EnterClient(c) \/ Store(c)
    BY <2>3 DEF WaitEmpty, EnterClient, Store, ClientLabels
  <2>4. CASE StoreForward(c) \/ LeaveClient(c) \/ ReleaseFull(c)
    BY <2>4 DEF StoreForward, LeaveClient, ReleaseFull, ClientLabels
  <2> QED BY <2>1, <2>2, <2>3, <2>4 DEF client_work
<1>3. CASE pc' = pc
  BY <1>1, <1>3 DEF Typed
<1>4. ASSUME NEW from \in ClientLabels, NEW to \in ClientLabels, Goto(c, from, to)
      PROVE  Typed'
  <2>1. pc'[c] = to /\ (\A u \in Threads \ {c} : pc'[u] = pc[u])
        /\ pc' = [u \in Threads |-> pc'[u]]
    BY <1>0, <1>4, Moves
  <2> QED BY <1>0, <1>1, <1>4, <2>1, Roles, Zenon DEF Typed
<1> QED BY <1>2, <1>3, <1>4

LEMMA ServerTypes ==
    ASSUME Typed, NEW s \in Servers, server_work(s)
    PROVE  Typed'
<1> USE DEF TypeOK, Post
<1>0. s \in Threads /\ s # Main /\ s \notin Clients /\ s \in Clients \cup Servers /\ TypeOK
  BY Roles DEF Typed
<1>1. TypeOK'
  <2>1. CASE WaitAny(s)
    <3>1. Min(Ready) \in Queues /\ full[Min(Ready)] - 1 \in 0 .. Size
      BY <1>0, <2>1, Roles, ReadyFirst DEF WaitAny
    <3>2. full' \in [Queues -> 0 .. Size] /\ index' \in [Clients \cup Servers -> Queues]
      BY <1>0, <2>1, <3>1 DEF WaitAny
    <3> QED BY <1>0, <2>1, <3>2 DEF WaitAny, rings
  <2>2. CASE CheckDone(s)
    BY <1>0, <2>2 DEF CheckDone, rings, locals
  <2>3. CASE EnterServer(s)
    BY <1>0, <2>3 DEF EnterServer, rings, locals
  <2>4. CASE Take(s)
    BY <1>0, <2>4 DEF Take, rings
  <2>5. CASE TakeForward(s)
    BY <1>0, <2>5, Roles DEF TakeForward, locals
  <2>6. CASE RunAndLeave(s)
    BY <1>0, <2>6 DEF RunAndLeave, rings, locals
  <2>7. CASE ReleaseEmpty(s)
    <3>1. index[s] \in Queues /\ Post(empty[index[s]]) \in 0 .. Size
      BY <1>0, Roles
    <3>2. empty' \in [Queues -> 0 .. Size]
      BY <1>0, <2>7, <3>1 DEF ReleaseEmpty
    <3> QED BY <1>0, <2>7, <3>2 DEF ReleaseEmpty, rings, locals
  <2> QED BY <2>1, <2>2, <2>3, <2>4, <2>5, <2>6, <2>7 DEF server_work
<1>2. \E from \in ServerLabels, to \in ServerLabels : Goto(s, from, to)
  <2>1. CASE WaitAny(s) \/ EnterServer(s) \/ Take(s)
    BY <2>1 DEF WaitAny, EnterServer, Take, ServerLabels
  <2>2. CASE CheckDone(s)
    BY <2>2 DEF CheckDone, ServerLabels
  <2>3. CASE TakeForward(s) \/ RunAndLeave(s) \/ ReleaseEmpty(s)
    BY <2>3 DEF TakeForward, RunAndLeave, ReleaseEmpty, ServerLabels
  <2> QED BY <2>1, <2>2, <2>3 DEF server_work
<1>3. pc'[s] \in ServerLabels /\ (\A u \in Threads \ {s} : pc'[u] = pc[u])
      /\ pc' = [u \in Threads |-> pc'[u]]
  BY <1>0, <1>2, Moves
<1> QED BY <1>0, <1>1, <1>3, Roles, Zenon DEF Typed

LEMMA MainTypes ==
    ASSUME Typed, MainStep
    PROVE  Typed'
<1> USE DEF TypeOK, Post
<1>0. Main \in Threads /\ TypeOK
  BY Roles DEF Typed
<1>1. TypeOK'
  <2>1. CASE JoinClients
    BY <1>0, <2>1 DEF JoinClients, rings, locals
  <2>2. CASE WakeOne
    <3>1. 0 \in Queues /\ Post(full[0]) \in 0 .. Size /\ woken + 1 \in 0 .. Cardinality(Servers)
      BY <1>0, <2>2, Roles DEF WakeOne
    <3>2. full' \in [Queues -> 0 .. Size]
      BY <1>0, <2>2, <3>1 DEF WakeOne
    <3> QED BY <1>0, <2>2, <3>1, <3>2 DEF WakeOne, rings, locals
  <2>3. CASE JoinServers
    BY <1>0, <2>3 DEF JoinServers, rings, locals
  <2> QED BY <2>1, <2>2, <2>3 DEF MainStep
<1>2. \E from \in {"join", "wake", "end"}, to \in {"join", "wake", "end"} : Goto(Main, from, to)
  BY DEF MainStep, JoinClients, WakeOne, JoinServers
<1>3. pc'[Main] \in {"join", "wake", "end"} /\ (\A u \in Threads \ {Main} : pc'[u] = pc[u])
      /\ pc' = [u \in Threads |-> pc'[u]]
  BY <1>0, <1>2, Moves
<1> QED BY <1>0, <1>1, <1>3, Roles, Zenon DEF Typed

-----------------------------------------------------------------------------
(* Counting threads *)

LEMMA CountOneMove ==
    ASSUME NEW S, IsFiniteSet(S), NEW t \in S, NEW A \in SUBSET S, NEW B \in SUBSET S,
           \A s \in S \ {t} : s \in A <=> s \in B
    PROVE  /\ Cardinality(A) \in Nat /\ Cardinality(B) \in Nat
           /\ Cardinality(B) + (IF t \in A THEN 1 ELSE 0)
                 = Cardinality(A) + (IF t \in B THEN 1 ELSE 0)
<1>1. IsFiniteSet(A) /\ IsFiniteSet(B)
  BY FS_Subset
<1>2. Cardinality(A) \in Nat /\ Cardinality(B) \in Nat
  BY <1>1, FS_CardinalityType
<1>3. CASE t \in A <=> t \in B
  <2>1. A = B
    BY <1>3
  <2> QED BY <2>1, <1>2
<1>4. CASE t \notin A /\ t \in B
  <2>1. B = A \cup {t}
    BY <1>4
  <2>2. Cardinality(B) = Cardinality(A) + 1
    BY <2>1, <1>1, <1>4, FS_AddElement
  <2> QED BY <2>2, <1>2, <1>4
<1>5. CASE t \in A /\ t \notin B
  <2>1. A = B \cup {t}
    BY <1>5
  <2>2. Cardinality(A) = Cardinality(B) + 1
    BY <2>1, <1>1, <1>5, FS_AddElement
  <2> QED BY <2>2, <1>2, <1>5
<1> QED BY <1>3, <1>4, <1>5

(* The counts are numbers, and how they bound one another.                     *)
LEMMA Counts ==
    ASSUME NEW i
    PROVE  /\ Filling(i) \in Nat /\ Filled(i) \in Nat /\ Claiming(i) \in Nat
           /\ Claimed(i) \in Nat /\ Taken(i) \in Nat /\ Emptying(i) \in Nat
           /\ Claimed(i) <= Claiming(i) /\ Taken(i) <= Emptying(i)
           /\ Held(i) = Size - empty[i] - Filling(i) - Emptying(i)
<1>1. \A L : /\ IsFiniteSet(ClientsAt(i, L)) /\ Cardinality(ClientsAt(i, L)) \in Nat
             /\ IsFiniteSet(ServersAt(i, L)) /\ Cardinality(ServersAt(i, L)) \in Nat
  BY Roles, FS_Subset, FS_CardinalityType DEF ClientsAt, ServersAt
<1>2. /\ ServersAt(i, {"enter", "take"}) \subseteq ServersAt(i, {"check", "enter", "take"})
      /\ ServersAt(i, {"forward"}) \subseteq ServersAt(i, {"forward", "run", "release"})
  BY DEF ServersAt
<1>3. Claimed(i) <= Claiming(i) /\ Taken(i) <= Emptying(i)
  BY <1>1, <1>2, FS_Subset DEF Claimed, Claiming, Taken, Emptying
<1> QED BY <1>1, <1>3 DEF Filling, Filled, Claiming, Claimed, Taken, Emptying, Held

(* A thread that is counted makes its count positive.                          *)
LEMMA Counted ==
    ASSUME NEW i
    PROVE  /\ \A c \in Clients : index[c] = i =>
                 /\ pc[c] \in {"enter", "store", "forward"} => Filling(i) > 0
                 /\ pc[c] \in {"leave", "release"} => Filled(i) > 0
           /\ \A s \in Servers : index[s] = i =>
                 /\ pc[s] \in {"enter", "take"} => Claimed(i) > 0
                 /\ pc[s] = "forward" => Taken(i) > 0
                 /\ pc[s] \in {"forward", "run", "release"} => Emptying(i) > 0
<1>1. \A L : /\ IsFiniteSet(ClientsAt(i, L)) /\ Cardinality(ClientsAt(i, L)) \in Nat
             /\ IsFiniteSet(ServersAt(i, L)) /\ Cardinality(ServersAt(i, L)) \in Nat
  BY Roles, FS_Subset, FS_CardinalityType DEF ClientsAt, ServersAt
<1>2. \A L : /\ ClientsAt(i, L) # {} => Cardinality(ClientsAt(i, L)) > 0
             /\ ServersAt(i, L) # {} => Cardinality(ServersAt(i, L)) > 0
  BY <1>1, FS_EmptySet
<1>3. ASSUME NEW c \in Clients, NEW L, index[c] = i, pc[c] \in L
      PROVE  Cardinality(ClientsAt(i, L)) > 0
  BY <1>2, <1>3 DEF ClientsAt
<1>4. ASSUME NEW s \in Servers, NEW L, index[s] = i, pc[s] \in L
      PROVE  Cardinality(ServersAt(i, L)) > 0
  BY <1>2, <1>4 DEF ServersAt
<1> QED BY <1>3, <1>4 DEF Filling, Filled, Claimed, Taken, Emptying

(* One if thread t is at ring i and at one of the places.                      *)
At(t, i, L) == IF index[t] = i /\ pc[t] \in L THEN 1 ELSE 0

(* The step of a client, and what it does to the counts.                       *)
ClientAlone(c) ==
    /\ \A d \in Clients \ {c} : pc'[d] = pc[d] /\ index'[d] = index[d]
    /\ \A s \in Servers : pc'[s] = pc[s] /\ index'[s] = index[s]

LEMMA ClientCounts ==
    ASSUME NEW c \in Clients, ClientAlone(c), NEW i
    PROVE  /\ Filling(i)' + At(c, i, {"enter", "store", "forward"})
                 = Filling(i) + At(c, i, {"enter", "store", "forward"})'
           /\ Filled(i)' + At(c, i, {"leave", "release"})
                 = Filled(i) + At(c, i, {"leave", "release"})'
           /\ Claiming(i)' = Claiming(i) /\ Claimed(i)' = Claimed(i)
           /\ Taken(i)' = Taken(i) /\ Emptying(i)' = Emptying(i)
           /\ Filling(i)' \in Nat /\ Filled(i)' \in Nat
<1>1. ASSUME NEW L
      PROVE  /\ Cardinality(ClientsAt(i, L)') + At(c, i, L)
                   = Cardinality(ClientsAt(i, L)) + At(c, i, L)'
             /\ Cardinality(ClientsAt(i, L)') \in Nat
  <2> DEFINE X == {d \in Clients : index[d] = i /\ pc[d] \in L}
             Y == {d \in Clients : index'[d] = i /\ pc'[d] \in L}
  <2>1. /\ X \in SUBSET Clients /\ Y \in SUBSET Clients
        /\ \A d \in Clients \ {c} : d \in X <=> d \in Y
        /\ (c \in X <=> index[c] = i /\ pc[c] \in L)
        /\ (c \in Y <=> index'[c] = i /\ pc'[c] \in L)
    BY DEF ClientAlone
  <2> HIDE DEF X, Y
  <2>2. /\ Cardinality(Y) \in Nat
        /\ Cardinality(Y) + (IF c \in X THEN 1 ELSE 0) = Cardinality(X) + (IF c \in Y THEN 1 ELSE 0)
    BY <2>1, Roles, CountOneMove
  <2>3. Cardinality(Y) + At(c, i, L) = Cardinality(X) + At(c, i, L)'
    BY <2>1, <2>2 DEF At
  <2> QED BY <2>2, <2>3 DEF X, Y, ClientsAt
<1>2. \A L : ServersAt(i, L)' = ServersAt(i, L)
  BY DEF ServersAt, ClientAlone
<1> QED BY <1>1, <1>2, Zenon DEF Filling, Filled, Claiming, Claimed, Taken, Emptying

(* The step of a server, and what it does to the counts.                       *)
ServerAlone(s) ==
    /\ \A u \in Servers \ {s} : pc'[u] = pc[u] /\ index'[u] = index[u]
    /\ \A c \in Clients : pc'[c] = pc[c] /\ index'[c] = index[c]

LEMMA ServerCounts ==
    ASSUME NEW s \in Servers, ServerAlone(s), NEW i
    PROVE  /\ Claiming(i)' + At(s, i, {"check", "enter", "take"})
                 = Claiming(i) + At(s, i, {"check", "enter", "take"})'
           /\ Claimed(i)' + At(s, i, {"enter", "take"}) = Claimed(i) + At(s, i, {"enter", "take"})'
           /\ Taken(i)' + At(s, i, {"forward"}) = Taken(i) + At(s, i, {"forward"})'
           /\ Emptying(i)' + At(s, i, {"forward", "run", "release"})
                 = Emptying(i) + At(s, i, {"forward", "run", "release"})'
           /\ Filling(i)' = Filling(i) /\ Filled(i)' = Filled(i)
           /\ Claiming(i)' \in Nat /\ Claimed(i)' \in Nat /\ Taken(i)' \in Nat
           /\ Emptying(i)' \in Nat /\ Claimed(i)' <= Claiming(i)'
<1>1. ASSUME NEW L
      PROVE  /\ Cardinality(ServersAt(i, L)') + At(s, i, L)
                   = Cardinality(ServersAt(i, L)) + At(s, i, L)'
             /\ Cardinality(ServersAt(i, L)') \in Nat
  <2> DEFINE X == {u \in Servers : index[u] = i /\ pc[u] \in L}
             Y == {u \in Servers : index'[u] = i /\ pc'[u] \in L}
  <2>1. /\ X \in SUBSET Servers /\ Y \in SUBSET Servers
        /\ \A u \in Servers \ {s} : u \in X <=> u \in Y
        /\ (s \in X <=> index[s] = i /\ pc[s] \in L)
        /\ (s \in Y <=> index'[s] = i /\ pc'[s] \in L)
    BY DEF ServerAlone
  <2> HIDE DEF X, Y
  <2>2. /\ Cardinality(Y) \in Nat
        /\ Cardinality(Y) + (IF s \in X THEN 1 ELSE 0) = Cardinality(X) + (IF s \in Y THEN 1 ELSE 0)
    BY <2>1, Roles, CountOneMove
  <2>3. Cardinality(Y) + At(s, i, L) = Cardinality(X) + At(s, i, L)'
    BY <2>1, <2>2 DEF At
  <2> QED BY <2>2, <2>3 DEF X, Y, ServersAt
<1>2. \A L : ClientsAt(i, L)' = ClientsAt(i, L)
  BY DEF ClientsAt, ServerAlone
<1>3. Claimed(i)' <= Claiming(i)'
  <2>1. /\ ServersAt(i, {"enter", "take"})' \subseteq ServersAt(i, {"check", "enter", "take"})'
        /\ ServersAt(i, {"check", "enter", "take"})' \subseteq Servers
    BY DEF ServersAt
  <2>2. /\ IsFiniteSet(ServersAt(i, {"check", "enter", "take"})')
        /\ Cardinality(ServersAt(i, {"enter", "take"})')
               <= Cardinality(ServersAt(i, {"check", "enter", "take"})')
    BY <2>1, Roles, FS_Subset
  <2> QED BY <2>2 DEF Claimed, Claiming
<1> QED BY <1>1, <1>2, <1>3, Zenon DEF Filling, Filled, Claiming, Claimed, Taken, Emptying

-----------------------------------------------------------------------------
(* Tokens and indices *)

LEMMA RingIndex ==
    ASSUME NEW k \in Slots, NEW j \in Nat, j < Size
    PROVE  /\ Advance(Wrap(k + j)) = Wrap(k + (j + 1))
           /\ Wrap(Advance(k) + j) = Wrap(k + (j + 1))
           /\ Wrap(k + j) \in Slots
<1>1. Size \in Nat \ {0} /\ k \in Nat /\ k < Size
  BY Roles
<1> QED BY <1>1 DEF Advance, Wrap, Slots

LEMMA ClientStepsAlone ==
    ASSUME Typed, NEW c \in Clients, client_work(c)
    PROVE  ClientAlone(c) /\ is_done' = is_done /\ read' = read /\ cs_server' = cs_server
           /\ (\A t \in Servers : r'[t] = r[t]) /\ pc'[Main] = pc[Main]
<1>1. /\ c \in Threads /\ c # Main /\ c \in Clients \cup Servers
      /\ \A d \in Clients \ {c} : d \in Clients \cup Servers /\ d # c /\ d \in Threads
      /\ \A s \in Servers : s \in Clients \cup Servers /\ s # c /\ s \in Threads
      /\ Main \in Threads
  BY Roles
<1>2. /\ is_done' = is_done /\ read' = read /\ cs_server' = cs_server
      /\ index' = index \/ \E q \in Queues : index' = [index EXCEPT ![c] = q]
      /\ r' = r \/ \E q \in 1 .. Len(Tasks) + 1 : r' = [r EXCEPT ![c] = q]
      /\ pc' = pc \/ \E from, to \in ClientLabels : Goto(c, from, to)
  <2>1. CASE ReadTask(c)
    <3>1. file_pos[c] \in 1 .. Len(Tasks) + 1
      BY DEF Typed, TypeOK
    <3> QED BY <2>1, <3>1 DEF ReadTask, rings, ClientLabels
  <2>2. CASE EndOfFile(c) \/ WaitEmpty(c) \/ EnterClient(c) \/ Store(c)
    BY <2>2 DEF EndOfFile, WaitEmpty, EnterClient, Store, rings, locals, ClientLabels
  <2>3. CASE StoreForward(c) \/ LeaveClient(c) \/ ReleaseFull(c)
    BY <2>3 DEF StoreForward, LeaveClient, ReleaseFull, rings, locals, ClientLabels
  <2> QED BY <2>1, <2>2, <2>3 DEF client_work
<1>3. \A t \in Clients \cup Servers : t # c => index'[t] = index[t] /\ r'[t] = r[t]
  BY <1>1, <1>2 DEF Typed, TypeOK
<1>4. \A t \in Threads : t # c => pc'[t] = pc[t]
  BY <1>1, <1>2, Moves
<1> QED BY <1>1, <1>2, <1>3, <1>4 DEF ClientAlone

LEMMA ServerStepsAlone ==
    ASSUME Typed, NEW s \in Servers, server_work(s)
    PROVE  ServerAlone(s) /\ is_done' = is_done /\ write' = write /\ cs_client' = cs_client
           /\ (\A t \in Clients \cup Servers : t # s => r'[t] = r[t])
           /\ buffer' = buffer /\ file_pos' = file_pos /\ pc'[Main] = pc[Main]
<1>1. /\ s \in Threads /\ s # Main /\ s \in Clients \cup Servers
      /\ \A u \in Servers \ {s} : u \in Clients \cup Servers /\ u # s /\ u \in Threads
      /\ \A c \in Clients : c \in Clients \cup Servers /\ c # s /\ c \in Threads
      /\ Main \in Threads
  BY Roles
<1>2. /\ is_done' = is_done /\ write' = write /\ cs_client' = cs_client
      /\ buffer' = buffer /\ file_pos' = file_pos
      /\ index' = index \/ \E q : index' = [index EXCEPT ![s] = q]
      /\ r' = r \/ \E q : r' = [r EXCEPT ![s] = q]
      /\ \E from, to : Goto(s, from, to)
  <2>1. CASE WaitAny(s) \/ CheckDone(s) \/ EnterServer(s) \/ Take(s)
    BY <2>1 DEF WaitAny, CheckDone, EnterServer, Take, rings, locals
  <2>2. CASE TakeForward(s) \/ RunAndLeave(s) \/ ReleaseEmpty(s)
    BY <2>2 DEF TakeForward, RunAndLeave, ReleaseEmpty, rings, locals
  <2> QED BY <2>1, <2>2 DEF server_work
<1>3. \A t \in Clients \cup Servers : t # s => index'[t] = index[t] /\ r'[t] = r[t]
  BY <1>1, <1>2 DEF Typed, TypeOK
<1>4. \A t \in Threads : t # s => pc'[t] = pc[t]
  BY <1>1, <1>2, Moves
<1> QED BY <1>1, <1>2, <1>3, <1>4 DEF ServerAlone

(* What is known of ring i in a state of the invariant.                        *)
LEMMA RingFacts ==
    ASSUME Typed, NEW i \in Queues
    PROVE  /\ full[i] \in Nat /\ full[i] <= Size /\ empty[i] \in Nat /\ empty[i] <= Size
           /\ read[i] \in Slots /\ write[i] \in Slots /\ Size \in Nat \ {0}
           /\ Held(i) \in Int /\ Held(i) <= Size
           /\ Taken(i) + Held(i) <= Size - Filling(i)
<1>1. /\ full[i] \in Nat /\ full[i] <= Size /\ empty[i] \in Nat /\ empty[i] <= Size
      /\ read[i] \in Slots /\ write[i] \in Slots /\ Size \in Nat \ {0}
  BY Roles DEF Typed, TypeOK
<1> QED BY <1>1, Counts

LEMMA ClientAccounts ==
    ASSUME IInv, NEW c \in Clients, client_work(c), NEW i \in Queues
    PROVE  Accounted(i)'
<1>0. Typed /\ Accounted(i) /\ ~ is_done /\ ~ is_done'
  <2>1. pc[c] # "end"
    BY DEF client_work, ReadTask, EndOfFile, WaitEmpty, EnterClient, Store, StoreForward,
       LeaveClient, ReleaseFull, Goto
  <2> QED BY <2>1, ClientStepsAlone DEF IInv, DoneAfterClients
<1>1. /\ Filling(i)' + At(c, i, {"enter", "store", "forward"})
            = Filling(i) + At(c, i, {"enter", "store", "forward"})'
      /\ Filled(i)' + At(c, i, {"leave", "release"}) = Filled(i) + At(c, i, {"leave", "release"})'
      /\ Claiming(i)' = Claiming(i) /\ Claimed(i)' = Claimed(i)
      /\ Taken(i)' = Taken(i) /\ Emptying(i)' = Emptying(i)
      /\ Filling(i)' \in Nat /\ Filled(i)' \in Nat
  BY <1>0, ClientStepsAlone, ClientCounts
<1>2. /\ Filling(i) \in Nat /\ Filled(i) \in Nat /\ Claiming(i) \in Nat
      /\ Claimed(i) \in Nat /\ Taken(i) \in Nat /\ Emptying(i) \in Nat
      /\ Claimed(i) <= Claiming(i) /\ Taken(i) <= Emptying(i)
      /\ Held(i) = Size - empty[i] - Filling(i) - Emptying(i)
  BY Counts
<1>3. Held(i)' = Size - empty'[i] - Filling(i)' - Emptying(i)'
  BY DEF Held, Filling, Emptying
<1>4. /\ full[i] \in Nat /\ full[i] <= Size /\ empty[i] \in Nat /\ empty[i] <= Size
      /\ read[i] \in Slots /\ write[i] \in Slots /\ Size \in Nat \ {0}
      /\ Held(i) \in Int /\ Held(i) <= Size
      /\ Taken(i) + Held(i) <= Size - Filling(i)
      /\ read' = read
  BY <1>0, RingFacts, ClientStepsAlone
<1>5. c \in Threads /\ index[c] \in Queues /\ full = [q \in Queues |-> full[q]]
      /\ empty = [q \in Queues |-> empty[q]] /\ write = [q \in Queues |-> write[q]]
  BY <1>0, Roles DEF Typed, TypeOK
<1>6. ASSUME Held(i)' = Held(i), full'[i] = full[i], Filled(i)' = Filled(i), write'[i] = write[i]
      PROVE  Accounted(i)'
  BY <1>0, <1>1, <1>4, <1>6 DEF Accounted, Wrap
<1>7. CASE ReadTask(c) \/ EndOfFile(c)
  <2>1. /\ full' = full /\ empty' = empty /\ write' = write
        /\ pc[c] = "read" /\ pc'[c] \in {"read", "empty", "end"}
    BY <1>0, <1>5, <1>7, Moves DEF ReadTask, EndOfFile, Goto, rings
  <2>2. At(c, i, {"enter", "store", "forward"}) = 0 /\ At(c, i, {"enter", "store", "forward"})' = 0
        /\ At(c, i, {"leave", "release"}) = 0 /\ At(c, i, {"leave", "release"})' = 0
    BY <2>1 DEF At
  <2> QED BY <1>1, <1>2, <1>3, <1>6, <2>1, <2>2
<1>8. CASE WaitEmpty(c)
  <2>1. /\ full' = full /\ empty' = [empty EXCEPT ![index[c]] = @ - 1] /\ write' = write
        /\ pc[c] = "empty" /\ pc'[c] = "enter" /\ index' = index
    BY <1>0, <1>5, <1>8, Moves DEF WaitEmpty, rings, locals
  <2>2. At(c, i, {"enter", "store", "forward"}) = 0
        /\ At(c, i, {"enter", "store", "forward"})' = (IF index[c] = i THEN 1 ELSE 0)
        /\ At(c, i, {"leave", "release"}) = 0 /\ At(c, i, {"leave", "release"})' = 0
    BY <2>1 DEF At
  <2>3. empty'[i] = empty[i] - (IF index[c] = i THEN 1 ELSE 0)
    BY <2>1, <1>4, <1>5
  <2> QED BY <1>1, <1>2, <1>3, <1>4, <1>6, <2>1, <2>2, <2>3
<1>9. CASE EnterClient(c) \/ Store(c)
  <2>1. /\ full' = full /\ empty' = empty /\ write' = write /\ index' = index
        /\ pc[c] \in {"enter", "store"} /\ pc'[c] \in {"store", "forward"}
    BY <1>0, <1>5, <1>9, Moves DEF EnterClient, Store, Goto, rings, locals
  <2>2. At(c, i, {"enter", "store", "forward"})' = At(c, i, {"enter", "store", "forward"})
        /\ At(c, i, {"leave", "release"}) = 0 /\ At(c, i, {"leave", "release"})' = 0
        /\ At(c, i, {"enter", "store", "forward"}) \in {0, 1}
    BY <2>1 DEF At
  <2> QED BY <1>1, <1>2, <1>3, <1>4, <1>6, <2>1, <2>2
<1>10. CASE StoreForward(c)
  <2>1. /\ full' = full /\ empty' = empty /\ write' = [write EXCEPT ![index[c]] = Advance(@)]
        /\ pc[c] = "forward" /\ pc'[c] = "leave" /\ index' = index
    BY <1>0, <1>5, <1>10, Moves DEF StoreForward, locals
  <2>2. At(c, i, {"enter", "store", "forward"}) = (IF index[c] = i THEN 1 ELSE 0)
        /\ At(c, i, {"enter", "store", "forward"})' = 0
        /\ At(c, i, {"leave", "release"}) = 0
        /\ At(c, i, {"leave", "release"})' = (IF index[c] = i THEN 1 ELSE 0)
    BY <2>1 DEF At
  <2>3. CASE index[c] # i
    <3>1. write'[i] = write[i]
      BY <2>1, <2>3, <1>5
    <3> QED BY <1>1, <1>2, <1>3, <1>4, <1>6, <2>1, <2>2, <2>3, <3>1
  <2>4. CASE index[c] = i
    <3>1. Filling(i)' = Filling(i) - 1 /\ Filled(i)' = Filled(i) + 1 /\ Held(i)' = Held(i) + 1
      BY <1>1, <1>2, <1>3, <1>4, <2>1, <2>2, <2>4
    <3>2. Taken(i) + Held(i) \in Nat /\ Taken(i) + Held(i) < Size
      BY <1>0, <1>2, <1>4, <2>1, <2>4, Counted DEF Accounted
    <3>3. write'[i] = Advance(write[i])
      BY <2>1, <2>4, <1>5
    <3>4. write'[i] = Wrap(read[i] + ((Taken(i) + Held(i)) + 1))
      BY <1>0, <1>4, <3>2, <3>3, RingIndex DEF Accounted
    <3>5. (Taken(i) + Held(i)) + 1 = Taken(i)' + Held(i)'
      BY <1>1, <1>2, <1>4, <3>1
    <3>6. write'[i] = Wrap(read[i] + (Taken(i)' + Held(i)'))
      BY <3>4, <3>5
    <3>7. Held(i)' = full'[i] + Filled(i)' + Claiming(i)' /\ Held(i)' >= Claimed(i)'
      BY <1>0, <1>1, <1>2, <1>4, <2>1, <3>1 DEF Accounted
    <3> QED BY <1>4, <3>6, <3>7 DEF Accounted, Wrap
  <2> QED BY <2>3, <2>4
<1>11. CASE LeaveClient(c)
  <2>1. /\ full' = full /\ empty' = empty /\ write' = write /\ index' = index
        /\ pc[c] = "leave" /\ pc'[c] = "release"
    BY <1>0, <1>5, <1>11, Moves DEF LeaveClient, rings, locals
  <2>2. At(c, i, {"leave", "release"})' = At(c, i, {"leave", "release"})
        /\ At(c, i, {"enter", "store", "forward"}) = 0
        /\ At(c, i, {"enter", "store", "forward"})' = 0
        /\ At(c, i, {"leave", "release"}) \in {0, 1}
    BY <2>1 DEF At
  <2> QED BY <1>1, <1>2, <1>3, <1>4, <1>6, <2>1, <2>2
<1>12. CASE ReleaseFull(c)
  <2>1. /\ full' = [full EXCEPT ![index[c]] = Post(@)] /\ empty' = empty /\ write' = write
        /\ pc[c] = "release" /\ pc'[c] = "read" /\ index' = index
    BY <1>0, <1>5, <1>12, Moves DEF ReleaseFull, rings, locals
  <2>2. At(c, i, {"enter", "store", "forward"}) = 0
        /\ At(c, i, {"enter", "store", "forward"})' = 0
        /\ At(c, i, {"leave", "release"}) = (IF index[c] = i THEN 1 ELSE 0)
        /\ At(c, i, {"leave", "release"})' = 0
    BY <2>1 DEF At
  <2>3. CASE index[c] # i
    <3>1. full'[i] = full[i]
      BY <2>1, <2>3, <1>5
    <3> QED BY <1>1, <1>2, <1>3, <1>4, <1>6, <2>1, <2>2, <2>3, <3>1
  <2>4. CASE index[c] = i
    <3>1. Filling(i)' = Filling(i) /\ Filled(i)' = Filled(i) - 1 /\ Held(i)' = Held(i)
      BY <1>1, <1>2, <1>3, <1>4, <2>1, <2>2, <2>4
    <3>2. full[i] < Size
      BY <1>0, <1>2, <1>4, <2>1, <2>4, Counted DEF Accounted
    <3>3. full'[i] = full[i] + 1
      BY <2>1, <2>4, <1>5, <3>2 DEF Post
    <3>4. Held(i)' = full'[i] + Filled(i)' + Claiming(i)' /\ Held(i)' >= Claimed(i)'
      BY <1>0, <1>1, <1>2, <1>4, <3>1, <3>3 DEF Accounted
    <3>5. write'[i] = Wrap(read'[i] + (Taken(i)' + Held(i)'))
      BY <1>0, <1>1, <1>4, <2>1, <3>1 DEF Accounted
    <3> QED BY <3>4, <3>5 DEF Accounted, Wrap
  <2> QED BY <2>3, <2>4
<1> QED BY <1>7, <1>8, <1>9, <1>10, <1>11, <1>12 DEF client_work

LEMMA ServerAccounts ==
    ASSUME IInv, NEW s \in Servers, server_work(s), NEW i \in Queues
    PROVE  Accounted(i)'
<1>0. Typed /\ Accounted(i) /\ is_done' = is_done
  BY ServerStepsAlone DEF IInv
<1>1. /\ Claiming(i)' + At(s, i, {"check", "enter", "take"})
            = Claiming(i) + At(s, i, {"check", "enter", "take"})'
      /\ Claimed(i)' + At(s, i, {"enter", "take"}) = Claimed(i) + At(s, i, {"enter", "take"})'
      /\ Taken(i)' + At(s, i, {"forward"}) = Taken(i) + At(s, i, {"forward"})'
      /\ Emptying(i)' + At(s, i, {"forward", "run", "release"})
            = Emptying(i) + At(s, i, {"forward", "run", "release"})'
      /\ Filling(i)' = Filling(i) /\ Filled(i)' = Filled(i)
      /\ Claiming(i)' \in Nat /\ Claimed(i)' \in Nat /\ Taken(i)' \in Nat
      /\ Emptying(i)' \in Nat /\ Claimed(i)' <= Claiming(i)'
  BY <1>0, ServerStepsAlone, ServerCounts
<1>2. /\ Filling(i) \in Nat /\ Filled(i) \in Nat /\ Claiming(i) \in Nat
      /\ Claimed(i) \in Nat /\ Taken(i) \in Nat /\ Emptying(i) \in Nat
      /\ Claimed(i) <= Claiming(i) /\ Taken(i) <= Emptying(i)
      /\ Held(i) = Size - empty[i] - Filling(i) - Emptying(i)
  BY Counts
<1>3. Held(i)' = Size - empty'[i] - Filling(i)' - Emptying(i)'
  BY DEF Held, Filling, Emptying
<1>4. /\ full[i] \in Nat /\ full[i] <= Size /\ empty[i] \in Nat /\ empty[i] <= Size
      /\ read[i] \in Slots /\ write[i] \in Slots /\ Size \in Nat \ {0}
      /\ Held(i) \in Int /\ Held(i) <= Size
      /\ Taken(i) + Held(i) <= Size - Filling(i)
      /\ write' = write
  BY <1>0, RingFacts, ServerStepsAlone
<1>5. s \in Threads /\ index[s] \in Queues /\ full = [q \in Queues |-> full[q]]
      /\ empty = [q \in Queues |-> empty[q]] /\ read = [q \in Queues |-> read[q]]
      /\ index = [t \in Clients \cup Servers |-> index[t]] /\ s \in Clients \cup Servers
  BY <1>0, Roles DEF Typed, TypeOK
<1>6. CASE WaitAny(s)
  <2>1. /\ full' = [full EXCEPT ![Min(Ready)] = @ - 1] /\ empty' = empty /\ read' = read
        /\ pc[s] = "wait" /\ pc'[s] = "check" /\ index'[s] = Min(Ready)
        /\ Min(Ready) \in Queues /\ full[Min(Ready)] > 0
    BY <1>0, <1>5, <1>6, Moves, ReadyFirst DEF WaitAny, rings
  <2>2. At(s, i, {"check", "enter", "take"}) = 0
        /\ At(s, i, {"check", "enter", "take"})' = (IF Min(Ready) = i THEN 1 ELSE 0)
        /\ At(s, i, {"enter", "take"}) = 0 /\ At(s, i, {"enter", "take"})' = 0
        /\ At(s, i, {"forward"}) = 0 /\ At(s, i, {"forward"})' = 0
        /\ At(s, i, {"forward", "run", "release"}) = 0
        /\ At(s, i, {"forward", "run", "release"})' = 0
    BY <2>1 DEF At
  <2>3. full'[i] = full[i] - (IF Min(Ready) = i THEN 1 ELSE 0)
    BY <2>1, <1>4, <1>5
  <2>4. /\ Claiming(i)' = Claiming(i) + (IF Min(Ready) = i THEN 1 ELSE 0)
        /\ Claimed(i)' = Claimed(i) /\ Taken(i)' = Taken(i) /\ Held(i)' = Held(i)
    BY <1>1, <1>2, <1>3, <1>4, <2>1, <2>2
  <2>5. ~ is_done => Held(i)' = full'[i] + Filled(i)' + Claiming(i)'
    BY <1>0, <1>1, <1>2, <1>4, <2>3, <2>4 DEF Accounted
  <2> QED BY <1>0, <1>4, <2>1, <2>4, <2>5 DEF Accounted, Wrap
<1>7. CASE CheckDone(s)
  <2>1. /\ full' = full /\ empty' = empty /\ read' = read /\ index' = index
        /\ pc[s] = "check" /\ pc'[s] = (IF is_done THEN "end" ELSE "enter")
    BY <1>0, <1>5, <1>7, Moves DEF CheckDone, rings, locals
  <2>2. /\ ~ is_done =>
              At(s, i, {"check", "enter", "take"})' = At(s, i, {"check", "enter", "take"})
        /\ At(s, i, {"check", "enter", "take"}) \in {0, 1}
        /\ At(s, i, {"enter", "take"}) = 0
        /\ is_done => At(s, i, {"enter", "take"})' = 0
        /\ At(s, i, {"forward"}) = 0 /\ At(s, i, {"forward"})' = 0
        /\ At(s, i, {"forward", "run", "release"}) = 0
        /\ At(s, i, {"forward", "run", "release"})' = 0
    BY <2>1 DEF At
  <2>3. /\ ~ is_done => Claiming(i)' = Claiming(i)
        /\ is_done => Claimed(i)' = Claimed(i)
        /\ Taken(i)' = Taken(i) /\ Held(i)' = Held(i)
    BY <1>1, <1>2, <1>3, <1>4, <2>1, <2>2
  <2>4. ~ is_done => Held(i)' = full'[i] + Filled(i)' + Claiming(i)'
    BY <1>0, <1>1, <1>2, <1>4, <2>1, <2>3 DEF Accounted
  <2>5. Held(i)' >= Claimed(i)'
    BY <1>0, <1>1, <1>2, <1>4, <2>1, <2>3, <2>4 DEF Accounted
  <2> QED BY <1>0, <1>4, <2>1, <2>3, <2>4, <2>5 DEF Accounted, Wrap
<1>8. CASE EnterServer(s)
  <2>1. /\ full' = full /\ empty' = empty /\ read' = read /\ index' = index
        /\ pc[s] = "enter" /\ pc'[s] = "take"
    BY <1>0, <1>5, <1>8, Moves DEF EnterServer, rings, locals
  <2>2. /\ At(s, i, {"check", "enter", "take"})' = At(s, i, {"check", "enter", "take"})
        /\ At(s, i, {"check", "enter", "take"}) \in {0, 1}
        /\ At(s, i, {"enter", "take"})' = At(s, i, {"enter", "take"})
        /\ At(s, i, {"enter", "take"}) \in {0, 1}
        /\ At(s, i, {"forward"}) = 0 /\ At(s, i, {"forward"})' = 0
        /\ At(s, i, {"forward", "run", "release"}) = 0
        /\ At(s, i, {"forward", "run", "release"})' = 0
    BY <2>1 DEF At
  <2>3. Claiming(i)' = Claiming(i) /\ Claimed(i)' = Claimed(i)
    BY <1>1, <1>2, <2>2
  <2>4. Taken(i)' = Taken(i) /\ Emptying(i)' = Emptying(i)
    BY <1>1, <1>2, <2>2
  <2>5. Held(i)' = Held(i)
    BY <1>1, <1>2, <1>3, <1>4, <2>1, <2>4
  <2> QED BY <1>0, <1>1, <1>4, <2>1, <2>3, <2>4, <2>5 DEF Accounted, Wrap
<1>9. CASE Take(s)
  <2>1. /\ full' = full /\ empty' = empty /\ read' = read /\ index' = index
        /\ pc[s] = "take" /\ pc'[s] = "forward"
    BY <1>0, <1>5, <1>9, Moves DEF Take, rings
  <2>2. /\ At(s, i, {"check", "enter", "take"}) = (IF index[s] = i THEN 1 ELSE 0)
        /\ At(s, i, {"check", "enter", "take"})' = 0
        /\ At(s, i, {"enter", "take"}) = (IF index[s] = i THEN 1 ELSE 0)
        /\ At(s, i, {"enter", "take"})' = 0
        /\ At(s, i, {"forward"}) = 0
        /\ At(s, i, {"forward"})' = (IF index[s] = i THEN 1 ELSE 0)
        /\ At(s, i, {"forward", "run", "release"}) = 0
        /\ At(s, i, {"forward", "run", "release"})' = (IF index[s] = i THEN 1 ELSE 0)
    BY <2>1 DEF At
  <2>3. PICK k \in {0, 1} : k = (IF index[s] = i THEN 1 ELSE 0)
    OBVIOUS
  <2>4. /\ Claiming(i)' = Claiming(i) - k /\ Claimed(i)' = Claimed(i) - k
        /\ Taken(i)' = Taken(i) + k /\ Held(i)' = Held(i) - k
    BY <1>1, <1>2, <1>3, <1>4, <2>1, <2>2, <2>3
  <2>5. /\ ~ is_done => Held(i)' = full'[i] + Filled(i)' + Claiming(i)'
        /\ Held(i)' >= Claimed(i)'
    BY <1>0, <1>1, <1>2, <1>4, <2>1, <2>4 DEF Accounted
  <2>6. Taken(i)' + Held(i)' = Taken(i) + Held(i)
    BY <1>2, <1>4, <2>4
  <2>7. write'[i] = Wrap(read'[i] + (Taken(i)' + Held(i)'))
    BY <1>0, <1>4, <2>1, <2>6 DEF Accounted
  <2> QED BY <1>0, <2>5, <2>7 DEF Accounted, Wrap
<1>10. CASE TakeForward(s)
  <2>1. /\ full' = full /\ empty' = empty /\ read' = [read EXCEPT ![index[s]] = Advance(@)]
        /\ pc[s] = "forward" /\ pc'[s] = "run" /\ index' = index
    BY <1>0, <1>5, <1>10, Moves DEF TakeForward, locals
  <2>2. /\ At(s, i, {"check", "enter", "take"}) = 0 /\ At(s, i, {"check", "enter", "take"})' = 0
        /\ At(s, i, {"enter", "take"}) = 0 /\ At(s, i, {"enter", "take"})' = 0
        /\ At(s, i, {"forward"}) = (IF index[s] = i THEN 1 ELSE 0)
        /\ At(s, i, {"forward"})' = 0
        /\ At(s, i, {"forward", "run", "release"})' = At(s, i, {"forward", "run", "release"})
        /\ At(s, i, {"forward", "run", "release"}) \in {0, 1}
    BY <2>1 DEF At
  <2>3. /\ Claiming(i)' = Claiming(i) /\ Claimed(i)' = Claimed(i) /\ Held(i)' = Held(i)
        /\ Taken(i)' = Taken(i) - (IF index[s] = i THEN 1 ELSE 0)
    BY <1>1, <1>2, <1>3, <1>4, <2>1, <2>2
  <2>4. CASE index[s] # i
    <3>1. read'[i] = read[i]
      BY <2>1, <2>4, <1>5
    <3>2. Taken(i)' = Taken(i)
      BY <1>2, <2>3, <2>4
    <3> QED BY <1>0, <1>1, <1>4, <2>1, <2>3, <3>1, <3>2 DEF Accounted, Wrap
  <2>5. CASE index[s] = i
    <3>1. read'[i] = Advance(read[i])
      BY <2>1, <2>5, <1>5
    <3>2. Taken(i) > 0 /\ Held(i) >= 0
      BY <1>0, <1>2, <1>4, <2>1, <2>5, Counted DEF Accounted
    <3>3. PICK j \in Nat : j = Taken(i)' + Held(i)' /\ j < Size /\ j + 1 = Taken(i) + Held(i)
      BY <1>2, <1>4, <2>3, <2>5, <3>2
    <3>4. Wrap(Advance(read[i]) + j) = write[i]
      BY <1>0, <1>4, <3>3, RingIndex DEF Accounted
    <3>5. write'[i] = Wrap(read'[i] + (Taken(i)' + Held(i)'))
      BY <1>4, <3>1, <3>3, <3>4
    <3> QED BY <1>0, <1>1, <2>1, <2>3, <3>5 DEF Accounted, Wrap
  <2> QED BY <2>4, <2>5
<1>11. CASE RunAndLeave(s)
  <2>1. /\ full' = full /\ empty' = empty /\ read' = read /\ index' = index
        /\ pc[s] = "run" /\ pc'[s] = "release"
    BY <1>0, <1>5, <1>11, Moves DEF RunAndLeave, rings, locals
  <2>2. /\ At(s, i, {"check", "enter", "take"}) = 0 /\ At(s, i, {"check", "enter", "take"})' = 0
        /\ At(s, i, {"enter", "take"}) = 0 /\ At(s, i, {"enter", "take"})' = 0
        /\ At(s, i, {"forward"}) = 0 /\ At(s, i, {"forward"})' = 0
        /\ At(s, i, {"forward", "run", "release"})' = At(s, i, {"forward", "run", "release"})
        /\ At(s, i, {"forward", "run", "release"}) \in {0, 1}
    BY <2>1 DEF At
  <2>3. /\ Claiming(i)' = Claiming(i) /\ Claimed(i)' = Claimed(i)
        /\ Taken(i)' = Taken(i) /\ Held(i)' = Held(i)
    BY <1>1, <1>2, <1>3, <1>4, <2>1, <2>2
  <2> QED BY <1>0, <1>1, <1>4, <2>1, <2>3 DEF Accounted, Wrap
<1>12. CASE ReleaseEmpty(s)
  <2>1. /\ full' = full /\ empty' = [empty EXCEPT ![index[s]] = Post(@)] /\ read' = read
        /\ pc[s] = "release" /\ pc'[s] = "wait" /\ index' = index
    BY <1>0, <1>5, <1>12, Moves DEF ReleaseEmpty, rings, locals
  <2>2. /\ At(s, i, {"check", "enter", "take"}) = 0 /\ At(s, i, {"check", "enter", "take"})' = 0
        /\ At(s, i, {"enter", "take"}) = 0 /\ At(s, i, {"enter", "take"})' = 0
        /\ At(s, i, {"forward"}) = 0 /\ At(s, i, {"forward"})' = 0
        /\ At(s, i, {"forward", "run", "release"}) = (IF index[s] = i THEN 1 ELSE 0)
        /\ At(s, i, {"forward", "run", "release"})' = 0
    BY <2>1 DEF At
  <2>3. empty'[i] = empty[i] + (IF index[s] = i THEN 1 ELSE 0)
    <3>1. CASE index[s] # i
      BY <2>1, <3>1, <1>4, <1>5
    <3>2. CASE index[s] = i
      <4>1. Emptying(i) > 0 /\ Held(i) >= 0
        BY <1>0, <1>2, <1>4, <2>1, <3>2, Counted DEF Accounted
      <4>2. empty[i] < Size
        BY <4>1, <1>2, <1>4
      <4> QED BY <4>2, <2>1, <3>2, <1>4, <1>5 DEF Post
    <3> QED BY <3>1, <3>2
  <2>4. /\ Claiming(i)' = Claiming(i) /\ Claimed(i)' = Claimed(i)
        /\ Taken(i)' = Taken(i) /\ Held(i)' = Held(i)
    BY <1>1, <1>2, <1>3, <1>4, <2>1, <2>2, <2>3
  <2> QED BY <1>0, <1>1, <1>4, <2>1, <2>4 DEF Accounted, Wrap
<1> QED BY <1>6, <1>7, <1>8, <1>9, <1>10, <1>11, <1>12 DEF server_work

LEMMA MainAccounts ==
    ASSUME IInv, MainStep, NEW i \in Queues
    PROVE  Accounted(i)' /\ DoneAfterClients'
<1>0. Typed /\ Accounted(i) /\ DoneAfterClients /\ Main \in Threads
      /\ \A c \in Clients : c \in Threads \ {Main}
      /\ \A s \in Servers : s \in Threads \ {Main}
  BY Roles DEF IInv
<1>1. /\ is_done' /\ empty' = empty /\ read' = read /\ write' = write /\ index' = index
      /\ pc'[Main] # "join" /\ \A t \in Threads \ {Main} : pc'[t] = pc[t]
      /\ \A c \in Clients : pc[c] = "end"
  <2>1. CASE JoinClients
    BY <1>0, <2>1, Moves DEF JoinClients, rings, locals
  <2>2. CASE WakeOne
    BY <1>0, <2>2, Moves DEF WakeOne, rings, locals, DoneAfterClients
  <2>3. CASE JoinServers
    BY <1>0, <2>3, Moves DEF JoinServers, rings, locals, DoneAfterClients
  <2> QED BY <2>1, <2>2, <2>3 DEF MainStep
<1>2. ASSUME NEW L
      PROVE  ClientsAt(i, L)' = ClientsAt(i, L) /\ ServersAt(i, L)' = ServersAt(i, L)
  <2>1. \A c \in Clients : pc'[c] = pc[c]
    BY <1>0, <1>1
  <2>2. ASSUME NEW s \in Servers
        PROVE  pc'[s] = pc[s]
    <3>1. s \in Threads /\ s # Main
      BY Roles
    <3> QED BY <1>1, <3>1
  <2> QED BY <1>1, <2>1, <2>2 DEF ClientsAt, ServersAt
<1>3. Claimed(i)' = Claimed(i) /\ Taken(i)' = Taken(i) /\ Held(i)' = Held(i)
  BY <1>1, <1>2 DEF Claimed, Taken, Held
<1>4. Accounted(i)'
  BY <1>0, <1>1, <1>3 DEF Accounted, Wrap
<1>5. DoneAfterClients'
  BY <1>0, <1>1 DEF DoneAfterClients
<1> QED BY <1>1, <1>4, <1>5

-----------------------------------------------------------------------------
(* The sections and what is in hand *)

LEMMA ClientInTurn ==
    ASSUME IInv, NEW c \in Clients, client_work(c)
    PROVE  Exclusion' /\ InHand'
<1>0. /\ Typed /\ Exclusion /\ InHand /\ ClientAlone(c) /\ cs_server' = cs_server
      /\ c \in Threads /\ index[c] \in Queues /\ write[index[c]] \in Slots
      /\ NoOne \notin Clients /\ Clients \cap Servers = {} /\ Len(Tasks) \in Nat
      /\ Clients \subseteq Clients \cup Servers
  BY ClientStepsAlone, Roles DEF IInv, Typed, TypeOK
<1>1. /\ cs_client = [q \in Queues |-> cs_client[q]]
      /\ r = [t \in Clients \cup Servers |-> r[t]]
      /\ file_pos = [d \in Clients |-> file_pos[d]] /\ file_pos[c] \in 1 .. Len(Tasks) + 1
      /\ buffer = [q \in Queues |-> [k \in Slots |-> buffer[q][k]]]
      /\ write = [q \in Queues |-> write[q]]
      /\ index = [t \in Clients \cup Servers |-> index[t]]
  BY <1>0 DEF Typed, TypeOK
<1>2. \A d \in Clients \ {c} : /\ pc'[d] = pc[d] /\ index'[d] = index[d]
                               /\ index[d] \in Queues /\ write[index[d]] \in Slots
  BY <1>0 DEF ClientAlone, Typed, TypeOK
<1>3. \A d \in Clients \ {c} : r'[d] = r[d] /\ file_pos'[d] = file_pos[d]
  <2>1. file_pos' = file_pos \/ file_pos' = [file_pos EXCEPT ![c] = @ + 1]
    BY DEF client_work, ReadTask, EndOfFile, WaitEmpty, EnterClient, Store, StoreForward,
       LeaveClient, ReleaseFull
  <2>2. r' = r \/ \E k : r' = [r EXCEPT ![c] = k]
    <3>1. CASE ReadTask(c)
      BY <3>1 DEF ReadTask
    <3>2. CASE ~ ReadTask(c)
      BY <3>2 DEF client_work, EndOfFile, WaitEmpty, EnterClient, Store, StoreForward,
         LeaveClient, ReleaseFull, locals
    <3> QED BY <3>1, <3>2
  <2> QED BY <1>0, <1>1, <2>1, <2>2
<1>4. \A s \in Servers : pc'[s] = pc[s] /\ index'[s] = index[s]
  BY <1>0 DEF ClientAlone
<1>5. \A d \in Clients \ {c} : 
         /\ pc[d] \in {"store", "forward", "leave"} /\ pc[c] \in {"store", "forward", "leave"}
         => index[d] # index[c]
  BY <1>0 DEF Exclusion
<1>6. ASSUME cs_client' = cs_client, buffer' = buffer, write' = write,
             pc'[c] \in {"store", "forward", "leave"} =>
                index'[c] = index[c] /\ pc[c] \in {"store", "forward", "leave"},
             pc'[c] = "forward" => pc[c] = "forward",
             pc'[c] \in {"empty", "enter", "store"} =>
                pc[c] \in {"empty", "enter", "store"}
                /\ r'[c] = r[c] /\ file_pos'[c] = file_pos[c] /\ index'[c] = index[c]
      PROVE  Exclusion' /\ InHand'
  <2>1. Exclusion'
    BY <1>0, <1>2, <1>4, <1>6 DEF Exclusion
  <2>2. pc'[c] # "forward"
    BY <1>0, <1>6 DEF client_work, ReadTask, EndOfFile, WaitEmpty, EnterClient, Store,
       StoreForward, LeaveClient, ReleaseFull, Goto, Typed
  <2>3. InHand'
    BY <1>0, <1>2, <1>3, <1>6, <2>2 DEF InHand
  <2> QED BY <2>1, <2>3
<1>7. CASE ReadTask(c)
  <2>1. /\ cs_client' = cs_client /\ buffer' = buffer /\ write' = write
        /\ pc[c] = "read" /\ file_pos'[c] = file_pos[c] + 1
        /\ \/ /\ Tasks[file_pos[c]].C = c /\ QueueOf(file_pos[c]) \in Queues
              /\ pc'[c] = "empty" /\ r'[c] = file_pos[c] /\ index'[c] = QueueOf(file_pos[c])
           \/ pc'[c] = "read"
        /\ file_pos[c] <= Len(Tasks)
    BY <1>0, <1>1, <1>7, Moves DEF ReadTask, rings
  <2>2. Exclusion'
    BY <1>0, <1>2, <1>4, <2>1 DEF Exclusion
  <2>3. pc'[c] = "empty" => /\ r'[c] = file_pos'[c] - 1 /\ r'[c] \in 1 .. Len(Tasks)
                            /\ Tasks[r'[c]].C = c /\ QueueOf(r'[c]) = index'[c]
    BY <1>0, <1>1, <2>1
  <2>4. InHand'
    BY <1>0, <1>2, <1>3, <2>1, <2>3 DEF InHand
  <2> QED BY <2>2, <2>4
<1>8. CASE EndOfFile(c) \/ WaitEmpty(c)
  <2>1. /\ cs_client' = cs_client /\ buffer' = buffer /\ write' = write /\ index' = index /\ r' = r
        /\ file_pos' = file_pos
        /\ \/ pc[c] = "read" /\ pc'[c] = "end"
           \/ pc[c] = "empty" /\ pc'[c] = "enter"
    <3>1. CASE EndOfFile(c)
      BY <1>0, <3>1, Moves DEF EndOfFile, rings, locals
    <3>2. CASE WaitEmpty(c)
      BY <1>0, <3>2, Moves DEF WaitEmpty, rings, locals
    <3> QED BY <1>8, <3>1, <3>2
  <2> QED BY <1>6, <2>1
<1>9. CASE EnterClient(c)
  <2>1. /\ cs_client' = [cs_client EXCEPT ![index[c]] = c] /\ cs_client[index[c]] = NoOne
        /\ buffer' = buffer /\ write' = write /\ index' = index /\ r' = r
        /\ file_pos' = file_pos /\ pc[c] = "enter" /\ pc'[c] = "store"
    BY <1>0, <1>9, Moves DEF EnterClient, rings, locals
  <2>2. \A d \in Clients \ {c} : pc[d] \in {"store", "forward", "leave"} =>
           cs_client'[index[d]] = d
    BY <1>0, <1>1, <1>2, <2>1 DEF Exclusion
  <2>3. Exclusion'
    BY <1>0, <1>1, <1>2, <1>4, <2>1, <2>2 DEF Exclusion
  <2>4. InHand'
    BY <1>0, <1>2, <1>3, <2>1 DEF InHand
  <2> QED BY <2>3, <2>4
<1>10. CASE Store(c)
  <2>1. /\ buffer' = [buffer EXCEPT ![index[c]][write[index[c]]] = r[c]]
        /\ cs_client' = cs_client /\ write' = write /\ index' = index /\ r' = r
        /\ file_pos' = file_pos /\ pc[c] = "store" /\ pc'[c] = "forward"
    BY <1>0, <1>10, Moves DEF Store, rings, locals
  <2>2. Exclusion'
    BY <1>0, <1>2, <1>4, <2>1 DEF Exclusion
  <2>3. buffer'[index[c]][write[index[c]]] = r[c]
    BY <1>0, <1>1, <2>1
  <2>4. \A q \in Queues : q # index[c] => buffer'[q] = buffer[q]
    BY <1>0, <1>1, <2>1
  <2>5. \A d \in Clients \ {c} : pc[d] = "forward" => buffer'[index[d]] = buffer[index[d]]
    BY <1>2, <1>5, <2>1, <2>4
  <2>6. InHand'
    BY <1>0, <1>2, <1>3, <2>1, <2>3, <2>5 DEF InHand
  <2> QED BY <2>2, <2>6
<1>11. CASE StoreForward(c)
  <2>1. /\ write' = [write EXCEPT ![index[c]] = Advance(@)] /\ buffer' = buffer
        /\ cs_client' = cs_client /\ index' = index /\ r' = r
        /\ file_pos' = file_pos /\ pc[c] = "forward" /\ pc'[c] = "leave"
    BY <1>0, <1>11, Moves DEF StoreForward, locals
  <2>2. Exclusion'
    BY <1>0, <1>2, <1>4, <2>1 DEF Exclusion
  <2>3. \A d \in Clients \ {c} : pc[d] = "forward" => write'[index[d]] = write[index[d]]
    BY <1>0, <1>1, <1>2, <1>5, <2>1
  <2>4. InHand'
    BY <1>0, <1>2, <1>3, <2>1, <2>3 DEF InHand
  <2> QED BY <2>2, <2>4
<1>12. CASE LeaveClient(c)
  <2>1. /\ cs_client' = [cs_client EXCEPT ![index[c]] = NoOne]
        /\ buffer' = buffer /\ write' = write /\ index' = index /\ r' = r
        /\ file_pos' = file_pos /\ pc[c] = "leave" /\ pc'[c] = "release"
    BY <1>0, <1>12, Moves DEF LeaveClient, rings, locals
  <2>2. \A d \in Clients \ {c} : pc[d] \in {"store", "forward", "leave"} =>
           cs_client'[index[d]] = d
    BY <1>0, <1>1, <1>2, <1>5, <2>1 DEF Exclusion
  <2>3. Exclusion'
    BY <1>0, <1>2, <1>4, <2>1, <2>2 DEF Exclusion
  <2>4. InHand'
    BY <1>0, <1>2, <1>3, <2>1 DEF InHand
  <2> QED BY <2>3, <2>4
<1>13. CASE ReleaseFull(c)
  <2>1. /\ cs_client' = cs_client /\ buffer' = buffer /\ write' = write /\ index' = index /\ r' = r
        /\ file_pos' = file_pos /\ pc[c] = "release" /\ pc'[c] = "read"
    BY <1>0, <1>13, Moves DEF ReleaseFull, rings, locals
  <2> QED BY <1>6, <2>1
<1> QED BY <1>7, <1>8, <1>9, <1>10, <1>11, <1>12, <1>13 DEF client_work

LEMMA ServerInTurn ==
    ASSUME IInv, NEW s \in Servers, server_work(s)
    PROVE  Exclusion' /\ InHand'
<1>0. /\ Typed /\ Exclusion /\ InHand /\ ServerAlone(s) /\ cs_client' = cs_client
      /\ buffer' = buffer /\ write' = write /\ file_pos' = file_pos
      /\ s \in Threads /\ index[s] \in Queues /\ NoOne \notin Servers
      /\ cs_server = [q \in Queues |-> cs_server[q]]
      /\ \A c \in Clients : r'[c] = r[c] /\ pc'[c] = pc[c] /\ index'[c] = index[c]
      /\ \A u \in Servers \ {s} : /\ pc'[u] = pc[u] /\ index'[u] = index[u]
                                  /\ index[u] \in Queues
  BY ServerStepsAlone, Roles DEF IInv, Typed, TypeOK, ServerAlone
<1>1. InHand'
  BY <1>0 DEF InHand
<1>2. \A u \in Servers \ {s} : pc[u] \in {"take", "forward", "run"} =>
         cs_server'[index[u]] = u
  <2>1. CASE EnterServer(s)
    BY <1>0, <2>1 DEF EnterServer, Exclusion
  <2>2. CASE RunAndLeave(s)
    <3>1. cs_server[index[s]] = s /\ cs_server' = [cs_server EXCEPT ![index[s]] = NoOne]
      BY <1>0, <2>2 DEF RunAndLeave, Exclusion, Goto
    <3> QED BY <1>0, <3>1 DEF Exclusion
  <2>3. CASE cs_server' = cs_server
    BY <1>0, <2>3 DEF Exclusion
  <2> QED BY <2>1, <2>2, <2>3 DEF server_work, WaitAny, CheckDone, Take, TakeForward, ReleaseEmpty
<1>3. pc'[s] \in {"take", "forward", "run"} => cs_server'[index'[s]] = s
  <2>1. CASE EnterServer(s)
    BY <1>0, <2>1 DEF EnterServer, locals
  <2>2. CASE Take(s) \/ TakeForward(s)
    BY <1>0, <2>2 DEF Take, TakeForward, locals, Exclusion, Goto
  <2>3. CASE WaitAny(s) \/ CheckDone(s) \/ RunAndLeave(s) \/ ReleaseEmpty(s)
    <3>1. pc'[s] \notin {"take", "forward", "run"}
      BY <1>0, <2>3, Moves DEF WaitAny, CheckDone, RunAndLeave, ReleaseEmpty
    <3> QED BY <3>1
  <2> QED BY <2>1, <2>2, <2>3 DEF server_work
<1> QED BY <1>0, <1>1, <1>2, <1>3 DEF Exclusion

-----------------------------------------------------------------------------
(* The invariant holds in every reachable state.                               *)
LEMMA InitIInv == ASSUME Init PROVE IInv
<1>1. Typed
  <2>1. TypeOK
    <3>1. Cardinality(Servers) \in Nat /\ 0 \in 0 .. Cardinality(Servers) /\ 0 \in 0 .. Size
          /\ Size \in 0 .. Size /\ 1 \in 1 .. Len(Tasks) + 1
      BY Roles
    <3> QED BY <3>1, Roles DEF Init, TypeOK
  <2>2. /\ pc = [t \in Threads |-> pc[t]] /\ pc[Main] = "join"
        /\ \A c \in Clients : pc[c] = "read"
        /\ \A s \in Servers : pc[s] = "wait"
    BY Roles DEF Init
  <2> QED BY <2>1, <2>2 DEF Typed, ClientLabels, ServerLabels
<1>2. DoneAfterClients /\ Exclusion /\ InHand
  BY Roles DEF Init, DoneAfterClients, Exclusion, InHand, Threads
<1>3. ASSUME NEW i \in Queues
      PROVE  Accounted(i)
  <2>1. ASSUME NEW L, "read" \notin L, "wait" \notin L
        PROVE  ClientsAt(i, L) = {} /\ ServersAt(i, L) = {}
    BY <2>1, Roles DEF Init, ClientsAt, ServersAt, Threads
  <2>2. /\ Filling(i) = 0 /\ Filled(i) = 0 /\ Claiming(i) = 0 /\ Claimed(i) = 0
        /\ Taken(i) = 0 /\ Emptying(i) = 0
    BY <2>1, FS_EmptySet DEF Filling, Filled, Claiming, Claimed, Taken, Emptying
  <2>3. /\ full[i] = 0 /\ empty[i] = Size /\ read[i] = 0 /\ write[i] = 0 /\ Size \in Nat \ {0}
    BY Roles DEF Init
  <2>4. Held(i) = 0
    BY <2>2, <2>3, Counts
  <2> QED BY <2>2, <2>3, <2>4 DEF Accounted, Wrap
<1> QED BY <1>1, <1>2, <1>3 DEF IInv

LEMMA NextIInv == ASSUME IInv, [Next]_vars PROVE IInv'
<1>1. ASSUME NEW c \in Clients, client_work(c)
      PROVE  IInv'
  <2>1. DoneAfterClients'
    <3>1. pc[c] # "end"
      BY <1>1 DEF client_work, ReadTask, EndOfFile, WaitEmpty, EnterClient, Store, StoreForward,
         LeaveClient, ReleaseFull, Goto
    <3>2. ~ is_done /\ is_done' = is_done /\ pc'[Main] = pc[Main]
      BY <1>1, <3>1, ClientStepsAlone DEF IInv, DoneAfterClients
    <3> QED BY <3>2 DEF IInv, DoneAfterClients
  <2> QED BY <1>1, <2>1, ClientTypes, ClientAccounts, ClientInTurn DEF IInv
<1>2. ASSUME NEW s \in Servers, server_work(s)
      PROVE  IInv'
  <2>1. DoneAfterClients'
    BY <1>2, ServerStepsAlone DEF IInv, DoneAfterClients, ServerAlone
  <2> QED BY <1>2, <2>1, ServerTypes, ServerAccounts, ServerInTurn DEF IInv
<1>3. CASE MainStep
  <2>1. DoneAfterClients' /\ \A i \in Queues : Accounted(i)'
    BY <1>3, MainAccounts, Roles
  <2>2. /\ \A t \in Clients \cup Servers : pc'[t] = pc[t]
        /\ cs_client' = cs_client /\ cs_server' = cs_server /\ index' = index /\ r' = r
        /\ file_pos' = file_pos /\ buffer' = buffer /\ write' = write
    BY <1>3, Roles, Moves DEF IInv, MainStep, JoinClients, WakeOne, JoinServers, rings, locals
  <2>3. Exclusion' /\ InHand'
    BY <2>2 DEF IInv, Exclusion, InHand
  <2> QED BY <1>3, <2>1, <2>3, MainTypes DEF IInv
<1>4. CASE UNCHANGED vars
  <2>1. /\ Typed' /\ DoneAfterClients' /\ Exclusion' /\ InHand'
    BY <1>4 DEF IInv, vars, Typed, TypeOK, DoneAfterClients, Exclusion, InHand
  <2>2. \A i \in Queues : Accounted(i)'
    BY <1>4 DEF IInv, vars, Accounted, Held, Filled, Claiming, Claimed, Taken, ClientsAt, ServersAt,
       Wrap
  <2> QED BY <2>1, <2>2 DEF IInv
<1> QED BY <1>1, <1>2, <1>3, <1>4 DEF Next

THEOREM Inductive == Spec => []IInv
<1>1. Init => IInv
  BY InitIInv
<1>2. IInv /\ [Next]_vars => IInv'
  BY NextIInv
<1> QED BY <1>1, <1>2, PTL DEF Spec

(* While clients are at work every permit of full and every server that passed
   its wait stands for a task in a ring, and a ring holds no other task. *)
THEOREM PermitsMatchTasks == Spec => []TokensMatchTasks
<1>1. IInv => TokensMatchTasks
  BY DEF IInv, Typed, Accounted, TokensMatchTasks, Filled, Claiming
<1> QED BY <1>1, Inductive, PTL

-----------------------------------------------------------------------------
(* Sequences that differ by one element *)

LEMMA AppendOne ==
    ASSUME NEW V, NEW m \in Nat, NEW f \in [1 .. m -> V], NEW g \in [1 .. m + 1 -> V],
           \A n \in 1 .. m : g[n] = f[n]
    PROVE  Len(f) = m /\ g = Append(f, g[m + 1])
<1>1. f \in Seq(V) /\ Len(f) = m /\ g[m + 1] \in V
  BY LenProperties DEF Seq
<1> DEFINE h == Append(f, g[m + 1])
<1>2. h \in Seq(V) /\ Len(h) = m + 1 /\ (\A n \in 1 .. m : h[n] = f[n]) /\ h[m + 1] = g[m + 1]
  BY <1>1, AppendProperties
<1> HIDE DEF h
<1>3. h \in [1 .. m + 1 -> V]
  BY <1>2, LenProperties
<1>4. \A n \in 1 .. m + 1 : n \in 1 .. m \/ n = m + 1
  OBVIOUS
<1>5. \A n \in 1 .. m + 1 : h[n] = g[n]
  BY <1>2, <1>4
<1>6. h = g
  BY <1>3, <1>5
<1> QED BY <1>1, <1>6 DEF h

LEMMA DropOne ==
    ASSUME NEW V, NEW m \in Nat \ {0}, NEW f \in [1 .. m -> V], NEW g \in [1 .. m - 1 -> V],
           \A n \in 1 .. m - 1 : g[n] = f[n + 1]
    PROVE  f # <<>> /\ Head(f) = f[1] /\ g = Tail(f)
<1>1. f \in Seq(V) /\ Len(f) = m
  BY LenProperties DEF Seq
<1>2. f # <<>>
  BY <1>1
<1>3. /\ Head(f) = f[1] /\ Tail(f) \in Seq(V) /\ Len(Tail(f)) = m - 1
      /\ \A n \in 1 .. m - 1 : Tail(f)[n] = f[n + 1]
  BY <1>1, <1>2, HeadTailProperties
<1>4. Tail(f) \in [1 .. m - 1 -> V]
  BY <1>3, LenProperties
<1> QED BY <1>2, <1>3, <1>4

-----------------------------------------------------------------------------
(* What each step does to a ring *)

LEMMA ClientHolds ==
    ASSUME IInv, NEW c \in Clients, client_work(c), NEW i \in Queues
    PROVE  /\ Taken(i)' = Taken(i)
           /\ Held(i)' = Held(i) + (IF pc[c] = "forward" /\ index[c] = i THEN 1 ELSE 0)
<1> DEFINE Fill == At(c, i, {"enter", "store", "forward"})
<1>0. /\ Typed /\ c \in Threads /\ index[c] \in Queues
      /\ empty = [q \in Queues |-> empty[q]] /\ empty[i] \in Nat
  BY Roles DEF IInv, Typed, TypeOK
<1>1. /\ Filling(i)' + Fill = Filling(i) + Fill'
      /\ Taken(i)' = Taken(i) /\ Emptying(i)' = Emptying(i) /\ Filling(i)' \in Nat
  BY <1>0, ClientStepsAlone, ClientCounts
<1>2. /\ Filling(i) \in Nat /\ Emptying(i) \in Nat /\ Size \in Nat
      /\ Held(i) = Size - empty[i] - Filling(i) - Emptying(i)
  BY Counts, Roles
<1>3. Held(i)' = Size - empty'[i] - Filling(i)' - Emptying(i)'
  BY DEF Held, Filling, Emptying
<1>4. CASE WaitEmpty(c)
  <2>1. /\ empty' = [empty EXCEPT ![index[c]] = @ - 1]
        /\ pc[c] = "empty" /\ pc'[c] = "enter" /\ index' = index
    BY <1>0, <1>4, Moves DEF WaitEmpty, locals
  <2>2. Fill = 0 /\ Fill' = (IF index[c] = i THEN 1 ELSE 0)
    BY <2>1 DEF At
  <2>3. empty'[i] = empty[i] - (IF index[c] = i THEN 1 ELSE 0)
    BY <2>1, <1>0
  <2> QED BY <1>0, <1>1, <1>2, <1>3, <2>1, <2>2, <2>3
<1>5. CASE EnterClient(c) \/ Store(c) \/ StoreForward(c)
  <2>1. /\ empty' = empty /\ index' = index
        /\ \/ pc[c] \in {"enter", "store"} /\ pc'[c] \in {"store", "forward"}
           \/ pc[c] = "forward" /\ pc'[c] = "leave"
    <3>1. CASE EnterClient(c)
      BY <1>0, <3>1, Moves DEF EnterClient, locals
    <3>2. CASE Store(c)
      BY <1>0, <3>2, Moves DEF Store, locals
    <3>3. CASE StoreForward(c)
      BY <1>0, <3>3, Moves DEF StoreForward, locals
    <3> QED BY <1>5, <3>1, <3>2, <3>3
  <2>2. /\ Fill = (IF index[c] = i THEN 1 ELSE 0)
        /\ Fill' = (IF index[c] = i /\ pc[c] # "forward" THEN 1 ELSE 0)
    BY <2>1 DEF At
  <2> QED BY <1>0, <1>1, <1>2, <1>3, <2>1, <2>2
<1>6. CASE ReadTask(c) \/ EndOfFile(c) \/ LeaveClient(c) \/ ReleaseFull(c)
  <2>1. /\ empty' = empty /\ pc[c] \in {"read", "leave", "release"}
        /\ pc'[c] \in {"read", "empty", "end", "release"}
    <3>1. CASE ReadTask(c)
      BY <1>0, <3>1, Moves DEF ReadTask
    <3>2. CASE EndOfFile(c)
      BY <1>0, <3>2, Moves DEF EndOfFile
    <3>3. CASE LeaveClient(c)
      BY <1>0, <3>3, Moves DEF LeaveClient
    <3>4. CASE ReleaseFull(c)
      BY <1>0, <3>4, Moves DEF ReleaseFull
    <3> QED BY <1>6, <3>1, <3>2, <3>3, <3>4
  <2>2. Fill = 0 /\ Fill' = 0
    BY <2>1 DEF At
  <2> QED BY <1>0, <1>1, <1>2, <1>3, <2>1, <2>2
<1> QED BY <1>4, <1>5, <1>6 DEF client_work

LEMMA ServerHolds ==
    ASSUME IInv, NEW s \in Servers, server_work(s), NEW i \in Queues
    PROVE  /\ Held(i)' = Held(i) - (IF pc[s] = "take" /\ index[s] = i THEN 1 ELSE 0)
           /\ Taken(i)' = Taken(i) + (IF pc[s] = "take" /\ index[s] = i THEN 1 ELSE 0)
                                   - (IF pc[s] = "forward" /\ index[s] = i THEN 1 ELSE 0)
<1> DEFINE Take1 == At(s, i, {"forward"})
           Empty1 == At(s, i, {"forward", "run", "release"})
<1>0. /\ Typed /\ s \in Threads /\ index[s] \in Queues
      /\ empty = [q \in Queues |-> empty[q]] /\ empty[i] \in Nat /\ empty[i] <= Size
  BY Roles DEF IInv, Typed, TypeOK
<1>1. /\ Taken(i)' + Take1 = Taken(i) + Take1' /\ Emptying(i)' + Empty1 = Emptying(i) + Empty1'
      /\ Filling(i)' = Filling(i) /\ Taken(i)' \in Nat /\ Emptying(i)' \in Nat
  BY <1>0, ServerStepsAlone, ServerCounts
<1>2. /\ Filling(i) \in Nat /\ Emptying(i) \in Nat /\ Taken(i) \in Nat /\ Size \in Nat
      /\ Held(i) = Size - empty[i] - Filling(i) - Emptying(i)
  BY Counts, Roles
<1>3. Held(i)' = Size - empty'[i] - Filling(i)' - Emptying(i)'
  BY DEF Held, Filling, Emptying
<1>4. CASE ReleaseEmpty(s)
  <2>1. /\ empty' = [empty EXCEPT ![index[s]] = Post(@)]
        /\ pc[s] = "release" /\ pc'[s] = "wait" /\ index' = index
    BY <1>0, <1>4, Moves DEF ReleaseEmpty, locals
  <2>2. /\ Take1 = 0 /\ Take1' = 0 /\ Empty1 = (IF index[s] = i THEN 1 ELSE 0) /\ Empty1' = 0
    BY <2>1 DEF At
  <2>3. empty'[i] = empty[i] + (IF index[s] = i THEN 1 ELSE 0)
    <3>1. CASE index[s] # i
      BY <2>1, <3>1, <1>0
    <3>2. CASE index[s] = i
      <4>1. Emptying(i) > 0 /\ Held(i) >= 0
        <5>1. Held(i) >= Claimed(i) /\ Claimed(i) \in Nat
          BY Counts DEF IInv, Accounted
        <5> QED BY <1>0, <1>2, <2>1, <3>2, <5>1, Counted
      <4>2. empty[i] < Size
        BY <4>1, <1>2, <1>0
      <4> QED BY <4>2, <2>1, <3>2, <1>0 DEF Post
    <3> QED BY <3>1, <3>2
  <2> QED BY <1>0, <1>1, <1>2, <1>3, <2>1, <2>2, <2>3
<1>5. CASE Take(s) \/ TakeForward(s) \/ RunAndLeave(s)
  <2>1. /\ empty' = empty /\ index' = index
        /\ \/ pc[s] = "take" /\ pc'[s] = "forward"
           \/ pc[s] = "forward" /\ pc'[s] = "run"
           \/ pc[s] = "run" /\ pc'[s] = "release"
    <3>1. CASE Take(s)
      BY <1>0, <3>1, Moves DEF Take
    <3>2. CASE TakeForward(s)
      BY <1>0, <3>2, Moves DEF TakeForward, locals
    <3>3. CASE RunAndLeave(s)
      BY <1>0, <3>3, Moves DEF RunAndLeave, locals
    <3> QED BY <1>5, <3>1, <3>2, <3>3
  <2>2. /\ Take1 = (IF pc[s] = "forward" /\ index[s] = i THEN 1 ELSE 0)
        /\ Take1' = (IF pc[s] = "take" /\ index[s] = i THEN 1 ELSE 0)
        /\ Empty1 = (IF pc[s] # "take" /\ index[s] = i THEN 1 ELSE 0)
        /\ Empty1' = (IF index[s] = i THEN 1 ELSE 0)
    BY <2>1 DEF At
  <2> QED BY <1>0, <1>1, <1>2, <1>3, <2>1, <2>2
<1>6. CASE WaitAny(s) \/ CheckDone(s) \/ EnterServer(s)
  <2>1. /\ empty' = empty /\ pc[s] \in {"wait", "check", "enter"}
        /\ pc'[s] \in {"check", "enter", "take", "end"}
    <3>1. CASE WaitAny(s)
      BY <1>0, <3>1, Moves DEF WaitAny
    <3>2. CASE CheckDone(s)
      BY <1>0, <3>2, Moves DEF CheckDone
    <3>3. CASE EnterServer(s)
      BY <1>0, <3>3, Moves DEF EnterServer
    <3> QED BY <1>6, <3>1, <3>2, <3>3
  <2>2. Take1 = 0 /\ Take1' = 0 /\ Empty1 = 0 /\ Empty1' = 0
    BY <2>1 DEF At
  <2> QED BY <1>0, <1>1, <1>2, <1>3, <2>1, <2>2
<1> QED BY <1>4, <1>5, <1>6 DEF server_work

(* A ring as a sequence: from the oldest task that no server has taken.        *)
Numbers == (1 .. Len(Tasks)) \cup {NoTask}

LEMMA PlaceOf ==
    ASSUME NEW k \in Slots, NEW t \in Nat, NEW h \in Nat, t + h <= Size, NEW n \in 1 .. h
    PROVE  /\ k + t + n - 1 = k + (t + (n - 1))
           /\ Wrap(k + (t + (n - 1))) \in Slots
<1>1. t + (n - 1) \in Nat /\ t + (n - 1) < Size /\ k \in Nat
  BY Roles
<1> QED BY <1>1, RingIndex

LEMMA ContentIs ==
    ASSUME IInv, NEW i \in Queues
    PROVE  /\ Held(i) \in Nat /\ Taken(i) \in Nat /\ Taken(i) + Held(i) <= Size
           /\ read[i] \in Slots /\ Size \in Nat \ {0} /\ write[i] \in Slots
           /\ \A j \in Nat : j < Size => Wrap(read[i] + j) \in Slots
           /\ write[i] = Wrap(read[i] + (Taken(i) + Held(i)))
           /\ buffer[i] \in [Slots -> Numbers]
           /\ Content(i) \in [1 .. Held(i) -> Numbers]
           /\ \A n \in 1 .. Held(i) : Content(i)[n] = buffer[i][Wrap(read[i] + (Taken(i) + (n - 1)))]
<1>1. /\ Held(i) \in Nat /\ Taken(i) \in Nat /\ Taken(i) + Held(i) <= Size
      /\ read[i] \in Slots /\ Size \in Nat \ {0} /\ write[i] \in Slots
  <2>1. Held(i) >= Claimed(i) /\ Claimed(i) \in Nat /\ Taken(i) \in Nat /\ Filling(i) \in Nat
    BY Counts DEF IInv, Accounted
  <2> QED BY <2>1, RingFacts DEF IInv
<1>2. \A j \in Nat : j < Size => Wrap(read[i] + j) \in Slots
  BY <1>1, RingIndex
<1>3. buffer[i] \in [Slots -> Numbers] /\ write[i] = Wrap(read[i] + (Taken(i) + Held(i)))
  BY DEF IInv, Typed, TypeOK, Numbers, Accounted
<1>4. Content(i) = [n \in 1 .. Held(i) |-> buffer[i][Wrap(read[i] + Taken(i) + n - 1)]]
  BY DEF Content, Taken
<1>5. /\ Content(i) \in [1 .. Held(i) -> Numbers]
      /\ \A n \in 1 .. Held(i) : Content(i)[n] = buffer[i][Wrap(read[i] + (Taken(i) + (n - 1)))]
  <2>1. \A n \in 1 .. Held(i) : /\ read[i] + Taken(i) + n - 1 = read[i] + (Taken(i) + (n - 1))
                                /\ Wrap(read[i] + (Taken(i) + (n - 1))) \in Slots
    BY <1>1, PlaceOf
  <2> QED BY <1>3, <1>4, <2>1
<1> QED BY <1>1, <1>2, <1>3, <1>5

(* No two places of a ring that is not over-full are the same slot.            *)
LEMMA DistinctSlots ==
    ASSUME NEW k \in Slots, NEW j \in Nat, NEW l \in Nat, j < Size, l < Size, j # l
    PROVE  Wrap(k + j) # Wrap(k + l)
<1>1. Size \in Nat \ {0} /\ k \in Nat /\ k < Size
  BY Roles
<1> QED BY <1>1 DEF Wrap

(* A client that moves the write index has put its task behind the others.     *)
LEMMA ClientContent ==
    ASSUME IInv, IInv', NEW c \in Clients, client_work(c), NEW i \in Queues
    PROVE  IF pc[c] = "forward" /\ index[c] = i
             THEN Len(Content(i)) < Size /\ Content(i)' = Append(Content(i), r[c])
             ELSE Content(i)' = Content(i)
<1>0. /\ Typed /\ read' = read /\ index[c] \in Queues
      /\ index[c] = i /\ pc[c] \in {"store", "forward"} => Taken(i) + Held(i) < Size
  <2>1. Filling(i) \in Nat /\ Taken(i) + Held(i) <= Size - Filling(i)
    BY Counts, RingFacts DEF IInv
  <2>2. index[c] = i /\ pc[c] \in {"store", "forward"} => Filling(i) > 0
    BY Counted
  <2>3. Taken(i) + Held(i) \in Nat /\ Size \in Nat
    BY ContentIs
  <2>4. index[c] = i /\ pc[c] \in {"store", "forward"} => Taken(i) + Held(i) < Size
    BY <2>1, <2>2, <2>3
  <2>5. Typed /\ index[c] \in Queues
    BY DEF IInv, Typed, TypeOK
  <2> QED BY <2>4, <2>5, ClientStepsAlone
<1>1. /\ Held(i) \in Nat /\ Taken(i) \in Nat /\ read[i] \in Slots /\ Size \in Nat \ {0}
      /\ write[i] = Wrap(read[i] + (Taken(i) + Held(i)))
      /\ Content(i) \in [1 .. Held(i) -> Numbers]
      /\ \A n \in 1 .. Held(i) : Content(i)[n] = buffer[i][Wrap(read[i] + (Taken(i) + (n - 1)))]
      /\ Taken(i) + Held(i) <= Size
  BY ContentIs
<1>2. /\ Taken(i)' = Taken(i)
      /\ Held(i)' = Held(i) + (IF pc[c] = "forward" /\ index[c] = i THEN 1 ELSE 0)
  BY ClientHolds
<1>3. /\ Content(i)' \in [1 .. Held(i)' -> Numbers]
      /\ \A n \in 1 .. Held(i)' : Content(i)'[n] = buffer'[i][Wrap(read[i] + (Taken(i) + (n - 1)))]
  <2>1. Held(i)' \in Nat /\ Taken(i)' \in Nat /\ Taken(i)' + Held(i)' <= Size
    BY <1>0, <1>1, <1>2
  <2>2. buffer'[i] \in [Slots -> Numbers] /\ read'[i] \in Slots
    BY DEF IInv, Typed, TypeOK, Numbers
  <2>3. Content(i)' = [n \in 1 .. Held(i)' |-> buffer'[i][Wrap(read'[i] + Taken(i)' + n - 1)]]
    BY DEF Content, Taken, Wrap
  <2>4. ASSUME NEW n \in 1 .. Held(i)'
        PROVE  /\ read'[i] + Taken(i)' + n - 1 = read'[i] + (Taken(i)' + (n - 1))
               /\ Wrap(read'[i] + (Taken(i)' + (n - 1))) \in Slots
    BY <2>1, <2>2, PlaceOf
  <2>5. read'[i] = read[i] /\ Taken(i)' = Taken(i)
    BY <1>0, <1>2
  <2> QED BY <2>2, <2>3, <2>4, <2>5
<1>4. ASSUME ~ (pc[c] = "forward" /\ index[c] = i),
             \A n \in 1 .. Held(i) : buffer'[i][Wrap(read[i] + (Taken(i) + (n - 1)))]
                                        = buffer[i][Wrap(read[i] + (Taken(i) + (n - 1)))]
      PROVE  Content(i)' = Content(i)
  <2>1. Held(i)' = Held(i)
    BY <1>1, <1>2, <1>4
  <2>2. /\ Content(i)' \in [1 .. Held(i) -> Numbers]
        /\ \A n \in 1 .. Held(i) : Content(i)'[n] = Content(i)[n]
    BY <1>1, <1>3, <1>4, <2>1
  <2> QED BY <1>1, <2>2
<1>5. CASE Store(c)
  <2>1. pc[c] = "store" /\ buffer' = [buffer EXCEPT ![index[c]][write[index[c]]] = r[c]]
    BY <1>5 DEF Store, Goto
  <2>2. CASE index[c] # i
    <3>1. buffer'[i] = buffer[i]
      BY <2>1, <2>2, <1>0 DEF Typed, TypeOK
    <3> QED BY <1>4, <2>1, <3>1
  <2>3. CASE index[c] = i
    <3>1. \A k \in Slots : k # write[i] => buffer'[i][k] = buffer[i][k]
      BY <2>1, <2>3, <1>0 DEF Typed, TypeOK
    <3>2. ASSUME NEW n \in 1 .. Held(i)
          PROVE  buffer'[i][Wrap(read[i] + (Taken(i) + (n - 1)))]
                    = buffer[i][Wrap(read[i] + (Taken(i) + (n - 1)))]
      <4>1. /\ Taken(i) + (n - 1) \in Nat /\ Taken(i) + Held(i) \in Nat
            /\ Taken(i) + (n - 1) < Taken(i) + Held(i) /\ Taken(i) + Held(i) < Size
            /\ Taken(i) + (n - 1) < Size
        BY <1>0, <1>1, <2>1, <2>3
      <4>2. Wrap(read[i] + (Taken(i) + (n - 1))) # write[i]
        BY <1>1, <4>1, DistinctSlots
      <4>3. Wrap(read[i] + (Taken(i) + (n - 1))) \in Slots
        BY <1>1, <4>1, RingIndex
      <4> QED BY <3>1, <4>2, <4>3
    <3> QED BY <1>4, <2>1, <3>2
  <2> QED BY <2>2, <2>3
<1>6. CASE StoreForward(c)
  <2>1. pc[c] = "forward" /\ buffer' = buffer
    BY <1>6 DEF StoreForward, Goto
  <2>2. CASE index[c] # i
    BY <1>4, <2>1, <2>2
  <2>3. CASE index[c] = i
    <3>1. Held(i)' = Held(i) + 1 /\ Taken(i) + Held(i) < Size
      BY <1>0, <1>2, <2>1, <2>3
    <3>2. /\ Content(i)' \in [1 .. Held(i) + 1 -> Numbers]
          /\ \A n \in 1 .. Held(i) + 1 :
                Content(i)'[n] = buffer[i][Wrap(read[i] + (Taken(i) + (n - 1)))]
      BY <1>3, <2>1, <3>1
    <3>3. \A n \in 1 .. Held(i) : n \in 1 .. Held(i) + 1
      BY <1>1
    <3>4. \A n \in 1 .. Held(i) : Content(i)'[n] = Content(i)[n]
      BY <1>1, <3>2, <3>3
    <3>5. Content(i)'[Held(i) + 1] = r[c]
      <4>1. Held(i) + 1 \in 1 .. Held(i) + 1 /\ (Held(i) + 1) - 1 = Held(i)
        BY <1>1
      <4>2. Content(i)'[Held(i) + 1] = buffer[i][write[i]]
        BY <1>1, <3>2, <4>1
      <4>3. buffer[i][write[i]] = r[c]
        BY <2>1, <2>3 DEF IInv, InHand
      <4> QED BY <4>2, <4>3
    <3>6. Len(Content(i)) = Held(i) /\ Content(i)' = Append(Content(i), Content(i)'[Held(i) + 1])
      BY <1>1, <3>2, <3>4, AppendOne
    <3> QED BY <1>1, <2>1, <2>3, <3>1, <3>5, <3>6
  <2> QED BY <2>2, <2>3
<1>7. CASE ~ Store(c) /\ ~ StoreForward(c)
  <2>1. buffer' = buffer /\ pc[c] # "forward"
    BY <1>7 DEF client_work, ReadTask, EndOfFile, WaitEmpty, EnterClient, LeaveClient,
       ReleaseFull, rings, Goto
  <2> QED BY <1>4, <2>1
<1> QED BY <1>5, <1>6, <1>7

(* A server that takes a task takes the oldest one of its ring.                *)
LEMMA ServerContent ==
    ASSUME IInv, IInv', NEW s \in Servers, server_work(s), NEW i \in Queues
    PROVE  IF pc[s] = "take" /\ index[s] = i
             THEN /\ Content(i) # <<>> /\ Content(i)' = Tail(Content(i))
                  /\ r'[s] = Head(Content(i))
             ELSE Content(i)' = Content(i)
<1>0. /\ Typed /\ write' = write /\ buffer' = buffer /\ index[s] \in Queues
      /\ s \in Clients \cup Servers
  BY ServerStepsAlone DEF IInv, Typed, TypeOK
<1>1. /\ Held(i) \in Nat /\ Taken(i) \in Nat /\ read[i] \in Slots /\ Size \in Nat \ {0}
      /\ Content(i) \in [1 .. Held(i) -> Numbers]
      /\ \A n \in 1 .. Held(i) : Content(i)[n] = buffer[i][Wrap(read[i] + (Taken(i) + (n - 1)))]
      /\ Taken(i) + Held(i) <= Size
  BY ContentIs
<1>2. /\ Held(i)' = Held(i) - (IF pc[s] = "take" /\ index[s] = i THEN 1 ELSE 0)
      /\ Taken(i)' = Taken(i) + (IF pc[s] = "take" /\ index[s] = i THEN 1 ELSE 0)
                              - (IF pc[s] = "forward" /\ index[s] = i THEN 1 ELSE 0)
  BY ServerHolds
<1>3. /\ Content(i)' \in [1 .. Held(i)' -> Numbers]
      /\ \A n \in 1 .. Held(i)' :
            Content(i)'[n] = buffer[i][Wrap(read'[i] + (Taken(i)' + (n - 1)))]
  <2>1. Held(i)' \in Nat /\ Taken(i)' \in Nat /\ Taken(i)' + Held(i)' <= Size
    <3>1. Held(i)' >= Claimed(i)' /\ Claimed(i)' \in Nat /\ Taken(i)' \in Nat
      BY <1>0, ServerStepsAlone, ServerCounts DEF IInv, Accounted
    <3> QED BY <1>1, <1>2, <3>1
  <2>2. buffer'[i] \in [Slots -> Numbers] /\ read'[i] \in Slots
    BY DEF IInv, Typed, TypeOK, Numbers
  <2>3. Content(i)' = [n \in 1 .. Held(i)' |-> buffer'[i][Wrap(read'[i] + Taken(i)' + n - 1)]]
    BY DEF Content, Taken, Wrap
  <2>4. ASSUME NEW n \in 1 .. Held(i)'
        PROVE  /\ read'[i] + Taken(i)' + n - 1 = read'[i] + (Taken(i)' + (n - 1))
               /\ Wrap(read'[i] + (Taken(i)' + (n - 1))) \in Slots
    BY <2>1, <2>2, PlaceOf
  <2> QED BY <1>0, <2>2, <2>3, <2>4
<1>4. ASSUME Held(i)' = Held(i),
             \A n \in 1 .. Held(i) : Wrap(read'[i] + (Taken(i)' + (n - 1)))
                                        = Wrap(read[i] + (Taken(i) + (n - 1)))
      PROVE  Content(i)' = Content(i)
  <2>1. /\ Content(i)' \in [1 .. Held(i) -> Numbers]
        /\ \A n \in 1 .. Held(i) : Content(i)'[n] = Content(i)[n]
    BY <1>1, <1>3, <1>4
  <2> QED BY <1>1, <2>1
<1>5. CASE Take(s)
  <2>1. /\ pc[s] = "take" /\ read' = read /\ r'[s] = buffer[index[s]][read[index[s]]]
    BY <1>0, <1>5 DEF Take, Goto, rings, Typed, TypeOK
  <2>2. CASE index[s] # i
    <3>1. Held(i)' = Held(i) /\ Taken(i)' = Taken(i)
      BY <1>1, <1>2, <2>1, <2>2
    <3> QED BY <1>4, <2>1, <2>2, <3>1
  <2>3. CASE index[s] = i
    <3>1. Taken(i) = 0
      <4>1. ServersAt(i, {"forward"}) = {}
        BY <2>1, <2>3 DEF IInv, Exclusion, ServersAt
      <4> QED BY <4>1, FS_EmptySet DEF Taken
    <3>2. Held(i) > 0
      <4>1. Claimed(i) > 0 /\ Held(i) >= Claimed(i) /\ Claimed(i) \in Nat
        BY <2>1, <2>3, Counted, Counts DEF IInv, Accounted
      <4> QED BY <4>1, <1>1
    <3>3. Held(i)' = Held(i) - 1 /\ Taken(i)' = 1
      BY <1>1, <1>2, <2>1, <2>3, <3>1
    <3>4. /\ Content(i)' \in [1 .. Held(i) - 1 -> Numbers]
          /\ \A n \in 1 .. Held(i) - 1 : Content(i)'[n] = buffer[i][Wrap(read[i] + (1 + (n - 1)))]
      BY <1>3, <2>1, <3>3
    <3>5. ASSUME NEW n \in 1 .. Held(i) - 1
          PROVE  Content(i)'[n] = Content(i)[n + 1]
      <4>1. n + 1 \in 1 .. Held(i) /\ Taken(i) + ((n + 1) - 1) = 1 + (n - 1)
        BY <1>1, <3>1
      <4> QED BY <1>1, <3>4, <4>1
    <3>6. Content(i)[1] = buffer[i][read[i]]
      <4>1. 1 \in 1 .. Held(i) /\ Taken(i) + (1 - 1) = 0
        BY <1>1, <3>1, <3>2
      <4>2. Wrap(read[i] + 0) = read[i]
        <5>1. read[i] \in Nat /\ read[i] < Size
          BY <1>1, Roles
        <5> QED BY <5>1 DEF Wrap
      <4> QED BY <1>1, <4>1, <4>2
    <3>7. Content(i) # <<>> /\ Head(Content(i)) = Content(i)[1] /\ Content(i)' = Tail(Content(i))
      BY <1>1, <3>2, <3>4, <3>5, DropOne
    <3> QED BY <2>1, <2>3, <3>6, <3>7
  <2> QED BY <2>2, <2>3
<1>6. CASE TakeForward(s)
  <2>1. pc[s] = "forward" /\ read' = [read EXCEPT ![index[s]] = Advance(@)] /\ Held(i)' = Held(i)
    BY <1>1, <1>2, <1>6 DEF TakeForward, Goto
  <2>2. CASE index[s] # i
    <3>1. Taken(i)' = Taken(i) /\ read'[i] = read[i]
      BY <1>0, <1>1, <1>2, <2>1, <2>2 DEF Typed, TypeOK
    <3> QED BY <1>4, <2>1, <2>2, <3>1
  <2>3. CASE index[s] = i
    <3>1. Taken(i)' = Taken(i) - 1 /\ Taken(i) > 0 /\ read'[i] = Advance(read[i])
      <4>1. Taken(i) > 0
        BY <2>1, <2>3, Counted
      <4>2. read'[i] = Advance(read[i])
        BY <1>0, <2>1, <2>3 DEF Typed, TypeOK
      <4> QED BY <1>1, <1>2, <2>1, <2>3, <4>1, <4>2
    <3>2. ASSUME NEW n \in 1 .. Held(i)
          PROVE  Wrap(read'[i] + (Taken(i)' + (n - 1))) = Wrap(read[i] + (Taken(i) + (n - 1)))
      <4>0. Taken(i)' + (n - 1) \in Nat /\ Taken(i)' + (n - 1) < Size
            /\ (Taken(i)' + (n - 1)) + 1 = Taken(i) + (n - 1)
        BY <1>1, <3>1
      <4>1. PICK j \in Nat : /\ j = Taken(i)' + (n - 1) /\ j < Size
                             /\ j + 1 = Taken(i) + (n - 1)
        BY <4>0
      <4>2. read[i] \in Slots /\ j < Size
        BY <1>1, <4>1
      <4>3. Wrap(Advance(read[i]) + j) = Wrap(read[i] + (j + 1))
        BY <4>2, RingIndex
      <4> QED BY <3>1, <4>1, <4>3
    <3> QED BY <1>4, <2>1, <2>3, <3>2
  <2> QED BY <2>2, <2>3
<1>7. CASE ~ Take(s) /\ ~ TakeForward(s)
  <2>1. read' = read /\ pc[s] \notin {"take", "forward"}
    BY <1>7 DEF server_work, WaitAny, CheckDone, EnterServer, RunAndLeave, ReleaseEmpty, rings, Goto
  <2>2. Held(i)' = Held(i) /\ Taken(i)' = Taken(i)
    BY <1>1, <1>2, <2>1
  <2> QED BY <1>4, <2>1, <2>2
<1> QED BY <1>5, <1>6, <1>7

-----------------------------------------------------------------------------
(* What a client has still to put into a ring *)

LEMMA TodoType ==
    ASSUME IInv, NEW c \in Clients
    PROVE  Todo(c) \in SUBSET Nat
<1>1. file_pos[c] \in Nat
  BY DEF IInv, Typed, TypeOK
<1>2. pc[c] \in {"empty", "enter", "store", "forward"} => r[c] \in Nat
  BY Roles DEF IInv, InHand
<1> QED BY <1>1, <1>2, Roles DEF Todo

(* The next task is the one in hand, else the next record that is the client's. *)
LEMMA ClientTodo ==
    ASSUME IInv, NEW c \in Clients, client_work(c)
    PROVE  /\ \A d \in Clients \ {c} : Todo(d)' = Todo(d)
           /\ \/ pc[c] # "forward" /\ Todo(c)' = Todo(c)
              \/ /\ pc[c] = "read" /\ QueueOf(Min(Todo(c))) = -1
                 /\ Todo(c) # {} /\ Todo(c)' = Todo(c) \ {Min(Todo(c))}
              \/ /\ pc[c] = "forward" /\ Min(Todo(c)) = r[c]
                 /\ Todo(c) # {} /\ Todo(c)' = Todo(c) \ {r[c]}
<1>0. /\ Typed /\ c \in Threads /\ Len(Tasks) \in Nat /\ ClientAlone(c)
      /\ c \in Clients \cup Servers /\ file_pos[c] \in 1 .. Len(Tasks) + 1
      /\ file_pos = [d \in Clients |-> file_pos[d]]
      /\ r = [t \in Clients \cup Servers |-> r[t]]
  BY ClientStepsAlone, Roles DEF IInv, Typed, TypeOK
<1>1. \A d \in Clients \ {c} : Todo(d)' = Todo(d)
  <2>1. \A d \in Clients \ {c} : file_pos'[d] = file_pos[d] /\ r'[d] = r[d]
    BY <1>0 DEF client_work, ReadTask, EndOfFile, WaitEmpty, EnterClient, Store, StoreForward,
       LeaveClient, ReleaseFull, locals
  <2> QED BY <1>0, <2>1 DEF Todo, ClientAlone
<1>2. CASE ReadTask(c)
  <2> DEFINE k == file_pos[c]
  <2>1. /\ pc[c] = "read" /\ k \in 1 .. Len(Tasks) /\ file_pos'[c] = k + 1
        /\ \/ Tasks[k].C = c /\ pc'[c] = "empty" /\ r'[c] = k
           \/ pc'[c] = "read" /\ Tasks[k].C # c
           \/ pc'[c] = "read" /\ QueueOf(k) = -1
    <3>1. pc[c] = "read" /\ k \in 1 .. Len(Tasks) /\ file_pos'[c] = k + 1
      BY <1>0, <1>2 DEF ReadTask
    <3>2. CASE Tasks[k].C = c /\ Goto(c, "read", "empty") /\ r' = [r EXCEPT ![c] = k]
      BY <1>0, <3>1, <3>2, Moves
    <3>3. CASE (Tasks[k].C # c \/ QueueOf(k) = -1) /\ pc' = pc
      BY <3>1, <3>3
    <3> QED BY <1>2, <3>1, <3>2, <3>3 DEF ReadTask
  <2>2. Todo(c) = {j \in k .. Len(Tasks) : Tasks[j].C = c}
    BY <2>1 DEF Todo
  <2>3. Todo(c)' = {j \in k + 1 .. Len(Tasks) : Tasks[j].C = c}
                      \cup (IF pc'[c] = "empty" THEN {r'[c]} ELSE {})
    BY <2>1 DEF Todo
  <2> HIDE DEF k
  <2>4. \A j : j \in k .. Len(Tasks) <=> j = k \/ j \in k + 1 .. Len(Tasks)
    BY <1>0, <2>1
  <2>5. CASE Tasks[k].C = c /\ pc'[c] = "empty" /\ r'[c] = k
    BY <2>1, <2>2, <2>3, <2>4, <2>5, <1>1
  <2>6. CASE pc'[c] = "read" /\ Tasks[k].C # c
    BY <2>1, <2>2, <2>3, <2>4, <2>6, <1>1
  <2>7. CASE pc'[c] = "read" /\ Tasks[k].C = c /\ QueueOf(k) = -1
    <3>1. k \in Todo(c) /\ (\A j \in Todo(c) : k <= j) /\ Todo(c) \in SUBSET Int
      BY <1>0, <2>1, <2>2, <2>7
    <3>2. Min(Todo(c)) = k
      BY <3>1, MinIs
    <3>3. k \notin k + 1 .. Len(Tasks)
      BY <1>0, <2>1
    <3>4. Todo(c)' = Todo(c) \ {k}
      BY <2>2, <2>3, <2>4, <2>7, <3>3
    <3> QED BY <2>1, <2>7, <3>1, <3>2, <3>4, <1>1
  <2> QED BY <2>1, <2>5, <2>6, <2>7
<1>3. CASE StoreForward(c)
  <2>1. /\ pc[c] = "forward" /\ pc'[c] = "leave" /\ file_pos' = file_pos /\ r' = r
        /\ r[c] = file_pos[c] - 1
    BY <1>0, <1>3, Moves DEF StoreForward, locals, IInv, InHand
  <2>2. Todo(c) = {j \in file_pos[c] .. Len(Tasks) : Tasks[j].C = c} \cup {r[c]}
    BY <2>1 DEF Todo
  <2>3. Todo(c)' = {j \in file_pos[c] .. Len(Tasks) : Tasks[j].C = c}
    BY <2>1 DEF Todo
  <2>4. /\ r[c] \in Todo(c) /\ (\A j \in Todo(c) : r[c] <= j) /\ Todo(c) \in SUBSET Int
        /\ r[c] \notin file_pos[c] .. Len(Tasks)
    BY <1>0, <2>1, <2>2
  <2>5. Min(Todo(c)) = r[c] /\ Todo(c)' = Todo(c) \ {r[c]}
    BY <2>2, <2>3, <2>4, MinIs
  <2> QED BY <2>1, <2>4, <2>5, <1>1
<1>4. CASE WaitEmpty(c) \/ EnterClient(c) \/ Store(c)
  <2>1. /\ file_pos' = file_pos /\ r' = r /\ pc[c] \in {"empty", "enter", "store"}
        /\ pc'[c] \in {"enter", "store", "forward"}
    <3>1. CASE WaitEmpty(c)
      BY <1>0, <3>1, Moves DEF WaitEmpty, locals
    <3>2. CASE EnterClient(c)
      BY <1>0, <3>2, Moves DEF EnterClient, locals
    <3>3. CASE Store(c)
      BY <1>0, <3>3, Moves DEF Store, locals
    <3> QED BY <1>4, <3>1, <3>2, <3>3
  <2>2. Todo(c)' = Todo(c)
    BY <2>1 DEF Todo
  <2> QED BY <2>1, <2>2, <1>1
<1>5. CASE EndOfFile(c) \/ LeaveClient(c) \/ ReleaseFull(c)
  <2>1. /\ file_pos' = file_pos /\ pc[c] \in {"read", "leave", "release"}
        /\ pc'[c] \in {"end", "release", "read"}
    <3>1. CASE EndOfFile(c)
      BY <1>0, <3>1, Moves DEF EndOfFile
    <3>2. CASE LeaveClient(c)
      BY <1>0, <3>2, Moves DEF LeaveClient
    <3>3. CASE ReleaseFull(c)
      BY <1>0, <3>3, Moves DEF ReleaseFull
    <3> QED BY <1>5, <3>1, <3>2, <3>3
  <2>2. Todo(c)' = Todo(c)
    BY <2>1 DEF Todo
  <2> QED BY <2>1, <2>2, <1>1
<1> QED BY <1>2, <1>3, <1>4, <1>5 DEF client_work

-----------------------------------------------------------------------------
(* The program is a pool of tasks *)

TodoBar == [c \in Clients |-> Todo(c)]
QueueBar == [i \in Queues |-> Content(i)]
Runs(s) == IF pc[s] \in {"forward", "run"} THEN r[s] ELSE NoTask
RunningBar == [s \in Servers |-> Runs(s)]

(* A client queues its next task when the index moves, or leaves it out when it
   reads a task that no queue is for. *)
LEMMA ClientPools ==
    ASSUME IInv, IInv', NEW c \in Clients, client_work(c)
    PROVE  \/ UNCHANGED <<TodoBar, QueueBar, RunningBar>>
           \/ /\ Todo(c) # {} /\ QueueOf(Min(Todo(c))) = -1
              /\ TodoBar' = [TodoBar EXCEPT ![c] = @ \ {Min(Todo(c))}]
              /\ UNCHANGED <<QueueBar, RunningBar>>
           \/ /\ Todo(c) # {} /\ QueueOf(Min(Todo(c))) = index[c] /\ index[c] \in Queues
              /\ Len(Content(index[c])) < Size
              /\ QueueBar' = [QueueBar EXCEPT ![index[c]] = Append(@, Min(Todo(c)))]
              /\ TodoBar' = [TodoBar EXCEPT ![c] = @ \ {Min(Todo(c))}]
              /\ UNCHANGED RunningBar
<1>1. RunningBar' = RunningBar
  <2>1. \A s \in Servers : pc'[s] = pc[s] /\ r'[s] = r[s]
    BY ClientStepsAlone DEF IInv, ClientAlone
  <2> QED BY <2>1 DEF RunningBar, Runs
<1>2. index[c] \in Queues
  BY DEF IInv, Typed, TypeOK
<1>3. \A d \in Clients \ {c} : Todo(d)' = Todo(d)
  BY ClientTodo
<1>4. Todo(c)' = Todo(c) => TodoBar' = TodoBar
  BY <1>3 DEF TodoBar
<1>5. \A x : Todo(c)' = Todo(c) \ {x} => TodoBar' = [TodoBar EXCEPT ![c] = @ \ {x}]
  BY <1>3 DEF TodoBar
<1>6. pc[c] # "forward" => QueueBar' = QueueBar
  BY ClientContent DEF QueueBar
<1>7. CASE pc[c] # "forward" /\ Todo(c)' = Todo(c)
  BY <1>1, <1>4, <1>6, <1>7
<1>8. CASE /\ pc[c] = "read" /\ QueueOf(Min(Todo(c))) = -1
           /\ Todo(c) # {} /\ Todo(c)' = Todo(c) \ {Min(Todo(c))}
  BY <1>1, <1>5, <1>6, <1>8
<1>9. CASE /\ pc[c] = "forward" /\ Min(Todo(c)) = r[c]
           /\ Todo(c) # {} /\ Todo(c)' = Todo(c) \ {r[c]}
  <2>1. QueueOf(r[c]) = index[c]
    BY <1>9 DEF IInv, InHand
  <2>2. /\ Len(Content(index[c])) < Size
        /\ \A i \in Queues : i = index[c] => Content(i)' = Append(Content(i), r[c])
    BY <1>2, <1>9, ClientContent
  <2>3. \A i \in Queues \ {index[c]} : Content(i)' = Content(i)
    BY ClientContent
  <2>4. QueueBar' = [QueueBar EXCEPT ![index[c]] = Append(@, r[c])]
    BY <1>2, <2>2, <2>3 DEF QueueBar
  <2> QED BY <1>1, <1>2, <1>5, <1>9, <2>1, <2>2, <2>4
<1> QED BY <1>7, <1>8, <1>9, ClientTodo

(* A server runs the oldest task of its ring, and is idle after it.            *)
LEMMA ServerPools ==
    ASSUME IInv, IInv', NEW s \in Servers, server_work(s)
    PROVE  \/ UNCHANGED <<TodoBar, QueueBar, RunningBar>>
           \/ /\ RunningBar' = [RunningBar EXCEPT ![s] = NoTask]
              /\ UNCHANGED <<TodoBar, QueueBar>>
           \/ /\ RunningBar[s] = NoTask /\ index[s] \in Queues /\ Content(index[s]) # <<>>
              /\ RunningBar' = [RunningBar EXCEPT ![s] = Head(Content(index[s]))]
              /\ QueueBar' = [QueueBar EXCEPT ![index[s]] = Tail(@)]
              /\ UNCHANGED TodoBar
<1>0. /\ Typed /\ s \in Threads /\ index[s] \in Queues /\ ServerAlone(s) /\ file_pos' = file_pos
      /\ \A t \in Clients \cup Servers : t # s => r'[t] = r[t]
      /\ Clients \cap Servers = {}
  BY ServerStepsAlone, Roles DEF IInv, Typed, TypeOK
<1>1. TodoBar' = TodoBar
  <2>1. \A c \in Clients : pc'[c] = pc[c] /\ r'[c] = r[c]
    BY <1>0 DEF ServerAlone
  <2> QED BY <1>0, <2>1 DEF TodoBar, Todo
<1>2. \A u \in Servers \ {s} : Runs(u)' = Runs(u)
  BY <1>0 DEF Runs, ServerAlone
<1>3. RunningBar' = [RunningBar EXCEPT ![s] = Runs(s)']
  BY <1>2 DEF RunningBar
<1>4. CASE Take(s)
  <2>1. pc[s] = "take" /\ pc'[s] = "forward"
    BY <1>0, <1>4, Moves DEF Take
  <2>2. Runs(s)' = r'[s] /\ RunningBar[s] = NoTask
    BY <2>1 DEF Runs, RunningBar
  <2>3. /\ Content(index[s]) # <<>> /\ Runs(s)' = Head(Content(index[s]))
        /\ \A i \in Queues : i = index[s] => Content(i)' = Tail(Content(i))
    BY <1>0, <2>1, <2>2, ServerContent
  <2>4. \A i \in Queues \ {index[s]} : Content(i)' = Content(i)
    BY ServerContent
  <2>5. QueueBar' = [QueueBar EXCEPT ![index[s]] = Tail(@)]
    BY <1>0, <2>3, <2>4 DEF QueueBar
  <2> QED BY <1>0, <1>1, <1>3, <2>2, <2>3, <2>5
<1>5. CASE ~ Take(s)
  <2>1. pc[s] # "take"
    BY <1>5 DEF server_work, WaitAny, CheckDone, EnterServer, TakeForward, RunAndLeave,
       ReleaseEmpty, Goto
  <2>2. QueueBar' = QueueBar
    BY <2>1, ServerContent DEF QueueBar
  <2>3. CASE RunAndLeave(s)
    <3>1. Runs(s)' = NoTask
      BY <1>0, <2>3, Moves DEF RunAndLeave, Runs
    <3> QED BY <1>1, <1>3, <2>2, <3>1
  <2>4. CASE ~ RunAndLeave(s)
    <3>1. Runs(s)' = Runs(s)
      <4>1. CASE TakeForward(s)
        BY <1>0, <4>1, Moves DEF TakeForward, Runs, locals
      <4>2. CASE WaitAny(s) \/ CheckDone(s) \/ EnterServer(s) \/ ReleaseEmpty(s)
        <5>1. /\ pc[s] \in {"wait", "check", "enter", "release"}
              /\ pc'[s] \in {"check", "enter", "take", "end", "wait"}
          <6>1. CASE WaitAny(s)
            BY <1>0, <6>1, Moves DEF WaitAny
          <6>2. CASE CheckDone(s)
            BY <1>0, <6>2, Moves DEF CheckDone
          <6>3. CASE EnterServer(s)
            BY <1>0, <6>3, Moves DEF EnterServer
          <6>4. CASE ReleaseEmpty(s)
            BY <1>0, <6>4, Moves DEF ReleaseEmpty
          <6> QED BY <4>2, <6>1, <6>2, <6>3, <6>4
        <5> QED BY <5>1 DEF Runs
      <4> QED BY <1>5, <2>4, <4>1, <4>2 DEF server_work
    <3>2. RunningBar' = RunningBar
      BY <1>3, <3>1 DEF RunningBar
    <3> QED BY <1>1, <2>2, <3>2
  <2> QED BY <2>3, <2>4
<1> QED BY <1>4, <1>5

(* The main thread only wakes the servers.                                     *)
LEMMA MainPools ==
    ASSUME IInv, MainStep
    PROVE  UNCHANGED <<TodoBar, QueueBar, RunningBar>>
<1>1. /\ \A c \in Clients : c \in Threads \ {Main}
      /\ \A s \in Servers : s \in Threads \ {Main}
      /\ Main \in Threads /\ Typed
  BY Roles DEF IInv
<1>2. /\ empty' = empty /\ read' = read /\ buffer' = buffer /\ index' = index /\ r' = r
      /\ file_pos' = file_pos /\ \A t \in Threads \ {Main} : pc'[t] = pc[t]
  BY <1>1, Moves DEF MainStep, JoinClients, WakeOne, JoinServers, rings, locals
<1>3. \A c \in Clients : pc'[c] = pc[c]
  BY <1>1, <1>2
<1>4. ASSUME NEW s \in Servers
      PROVE  pc'[s] = pc[s]
  BY <1>1, <1>2
<1>5. TodoBar' = TodoBar
  BY <1>2, <1>3 DEF TodoBar, Todo
<1>6. RunningBar' = RunningBar
  BY <1>2, <1>4 DEF RunningBar, Runs
<1>7. ASSUME NEW i \in Queues
      PROVE  Content(i)' = Content(i)
  <2>1. \A L : ClientsAt(i, L)' = ClientsAt(i, L) /\ ServersAt(i, L)' = ServersAt(i, L)
    BY <1>2, <1>3, <1>4 DEF ClientsAt, ServersAt
  <2> QED BY <1>2, <2>1 DEF Content, Held, Wrap
<1> QED BY <1>5, <1>6, <1>7 DEF QueueBar

(* The rings, the clients and the servers do what TaskPool promises: a client's
   tasks are queued once each, in the order of the file, in the queue meant for
   them; a server runs the oldest task of a queue, and no task runs twice. *)
THEOREM ImplementsPool == Spec => PoolSpec
<1> USE DEF TodoBar, QueueBar, RunningBar, Runs
<1>1. Init => Pool!Init
  <2> SUFFICES ASSUME Init
               PROVE  Pool!Init
    OBVIOUS
  <2>0. /\ \A c \in Clients : pc[c] = "read" /\ file_pos[c] = 1
        /\ \A s \in Servers : pc[s] = "wait"
    BY Roles DEF Init
  <2>1. \A c \in Clients : Todo(c) = {k \in 1 .. Len(Tasks) : Tasks[k].C = c}
    BY <2>0 DEF Todo
  <2>2. ASSUME NEW i \in Queues
        PROVE  Content(i) = <<>>
    <3>1. ASSUME NEW L, "read" \notin L, "wait" \notin L
          PROVE  ClientsAt(i, L) = {} /\ ServersAt(i, L) = {}
      BY <2>0, <3>1 DEF ClientsAt, ServersAt
    <3>2. Filling(i) = 0 /\ Emptying(i) = 0
      BY <3>1, FS_EmptySet DEF Filling, Emptying
    <3>3. Held(i) = 0
      BY <3>2, Counts, Roles DEF Init
    <3> QED BY <3>3 DEF Content
  <2> QED BY <2>0, <2>1, <2>2 DEF Pool!Init
<1>2. IInv /\ IInv' /\ [Next]_vars => [Pool!Next]_(Pool!poolVars)
  <2> SUFFICES ASSUME IInv, IInv', [Next]_vars
               PROVE  [Pool!Next]_(Pool!poolVars)
    OBVIOUS
  <2>1. ASSUME NEW c \in Clients, client_work(c)
        PROVE  [Pool!Next]_(Pool!poolVars)
    <3>1. CASE UNCHANGED <<TodoBar, QueueBar, RunningBar>>
      BY <3>1 DEF Pool!poolVars
    <3>0. Pool!NextTask(c) = Min(Todo(c))
      BY DEF Pool!NextTask, Pool!Min, Min
    <3>2. CASE /\ Todo(c) # {} /\ QueueOf(Min(Todo(c))) = -1
               /\ TodoBar' = [TodoBar EXCEPT ![c] = @ \ {Min(Todo(c))}]
               /\ UNCHANGED <<QueueBar, RunningBar>>
      <4>1. -1 \notin Queues
        BY Roles
      <4>2. Pool!Drop(c)
        BY <3>0, <3>2, <4>1 DEF Pool!Drop
      <4> QED BY <4>2 DEF Pool!Next
    <3>3. CASE /\ Todo(c) # {} /\ QueueOf(Min(Todo(c))) = index[c] /\ index[c] \in Queues
               /\ Len(Content(index[c])) < Size
               /\ QueueBar' = [QueueBar EXCEPT ![index[c]] = Append(@, Min(Todo(c)))]
               /\ TodoBar' = [TodoBar EXCEPT ![c] = @ \ {Min(Todo(c))}]
               /\ UNCHANGED RunningBar
      <4>1. PICK i \in Queues : i = index[c]
        BY <3>3
      <4>2. Pool!Enqueue(c, i)
        BY <3>0, <3>3, <4>1 DEF Pool!Enqueue
      <4> QED BY <4>2 DEF Pool!Next
    <3> QED BY <2>1, <3>1, <3>2, <3>3, ClientPools
  <2>2. ASSUME NEW s \in Servers, server_work(s)
        PROVE  [Pool!Next]_(Pool!poolVars)
    BY <2>2, ServerPools DEF Pool!Next, Pool!poolVars, Pool!Run, Pool!Finish
  <2>3. CASE MainStep
    BY <2>3, MainPools DEF Pool!poolVars
  <2>4. CASE UNCHANGED vars
    BY <2>4 DEF vars, Pool!poolVars, Todo, Content, Held, ClientsAt, ServersAt, Wrap
  <2> QED BY <2>1, <2>2, <2>3, <2>4 DEF Next
<1> QED BY <1>1, <1>2, Inductive, PTL DEF Spec, PoolSpec, Pool!Spec
=============================================================================
