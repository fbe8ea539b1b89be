----------------------------- MODULE TaskQueues -----------------------------
(* EXAMS/2012-02-28/main.cpp: clients read their tasks from a common file    *)
(* and put each into the ring of the right duration; servers run them.  A    *)
(* ring has two semaphores and two critical sections, one for the clients    *)
(* and one for the servers.                                                  *)
EXTENDS Integers, Sequences, FiniteSets, FiniteSetsExt

CONSTANTS
    Clients, Servers,  \* the N clients and the M servers
    Q,                 \* number of queues
    Size,              \* SIZE_QUEUE, 10 in the code
    Low, High,         \* the predicted times of each queue, in units of 100
    Tasks,             \* the task records of the input file, in order
    Main,              \* the main thread
    NoOne,             \* owner of a free critical section
    NoTask             \* no record

Queues == 0 .. Q - 1
Slots == 0 .. Size - 1
Threads == Clients \cup Servers \cup {Main}

(* The code allocates one descriptor per client for the servers too, and can
   wake no more servers than a semaphore has permits. *)
ASSUME QueuesAssumption ==
    /\ Q \in Nat \ {0} /\ Size \in Nat \ {0}
    /\ Low \in [Queues -> Int] /\ High \in [Queues -> Int]
    /\ Tasks \in Seq([C : Clients, predicted_duration : Nat])
    /\ IsFiniteSet(Clients) /\ IsFiniteSet(Servers) /\ Clients \cap Servers = {}
    /\ Cardinality(Servers) <= Cardinality(Clients) /\ Cardinality(Servers) <= Size
    /\ Main \notin Clients \cup Servers /\ NoOne \notin Clients \cup Servers
    /\ NoTask \notin 1 .. Len(Tasks)

VARIABLES
    full, empty,           \* semaphores, per queue
    cs_client, cs_server,  \* owners of the critical sections, per queue
    buffer, read, write,   \* the rings; a slot holds the number of a task
    is_done,
    woken,                 \* how many servers Main has released
    file_pos,              \* the record a client reads next
    r,                     \* the task a client or server has in hand
    index,                 \* index_choosen_queue of a client, res of a server
    pc

rings == <<buffer, read, write>>
locals == <<r, index>>
vars == <<full, empty, cs_client, cs_server, buffer, read, write, is_done, woken,
          file_pos, r, index, pc>>

Init ==
    /\ full = [i \in Queues |-> 0] /\ empty = [i \in Queues |-> Size]
    /\ cs_client = [i \in Queues |-> NoOne] /\ cs_server = [i \in Queues |-> NoOne]
    /\ buffer = [i \in Queues |-> [k \in Slots |-> NoTask]]
    /\ read = [i \in Queues |-> 0] /\ write = [i \in Queues |-> 0]
    /\ is_done = FALSE /\ woken = 0
    /\ file_pos = [c \in Clients |-> 1]
    /\ r = [t \in Clients \cup Servers |-> NoTask]
    /\ index = [t \in Clients \cup Servers |-> 0]
    /\ pc = [t \in Threads |->
               IF t = Main THEN "join" ELSE IF t \in Clients THEN "read" ELSE "wait"]

Goto(t, from, to) ==
    /\ pc[t] = from
    /\ pc' = [pc EXCEPT ![t] = to]

(* ReleaseSemaphore: nothing is added at the maximum *)
PostLost(n) == n
Post(n) == IF n < Size THEN n + 1 ELSE n

Advance(k) == IF k + 1 > Size - 1 THEN 0 ELSE k + 1

(* select_queue: the first queue whose times lie around the duration, or -1.
   Both bounds are strict and the duration is cut to a whole number. *)
select_queue(duration) ==
    LET fitting == {i \in Queues : Low[i] < duration \div 100 /\ High[i] > duration \div 100}
    IN  IF fitting = {} THEN -1 ELSE Min(fitting)

QueueOf(k) == select_queue(Tasks[k].predicted_duration)

-----------------------------------------------------------------------------
(* client_work.  A record is locked while it is read; nobody writes the file,
   so the three calls are one step. *)
ReadTask(c) ==
    /\ pc[c] = "read"
    /\ file_pos[c] <= Len(Tasks)
    /\ file_pos' = [file_pos EXCEPT ![c] = @ + 1]
    /\ LET k == file_pos[c]
       IN  \/ /\ Tasks[k].C = c /\ QueueOf(k) \in Queues
              /\ Goto(c, "read", "empty")
              /\ r' = [r EXCEPT ![c] = k]
              /\ index' = [index EXCEPT ![c] = QueueOf(k)]
           \/ /\ Tasks[k].C # c \/ QueueOf(k) = -1
              /\ UNCHANGED <<pc, r, index>>
    /\ UNCHANGED <<full, empty, cs_client, cs_server, rings, is_done, woken>>

EndOfFile(c) ==
    /\ file_pos[c] > Len(Tasks)
    /\ Goto(c, "read", "end")
    /\ UNCHANGED <<full, empty, cs_client, cs_server, rings, is_done, woken, file_pos, locals>>

WaitEmpty(c) ==
    /\ Goto(c, "empty", "enter")
    /\ empty[index[c]] > 0
    /\ empty' = [empty EXCEPT ![index[c]] = @ - 1]
    /\ UNCHANGED <<full, cs_client, cs_server, rings, is_done, woken, file_pos, locals>>

EnterClient(c) ==
    /\ Goto(c, "enter", "store")
    /\ cs_client[index[c]] = NoOne
    /\ cs_client' = [cs_client EXCEPT ![index[c]] = c]
    /\ UNCHANGED <<full, empty, cs_server, rings, is_done, woken, file_pos, locals>>

Store(c) ==
    /\ Goto(c, "store", "forward")
    /\ buffer' = [buffer EXCEPT ![index[c]][write[index[c]]] = r[c]]
    /\ UNCHANGED <<full, empty, cs_client, cs_server, read, write, is_done, woken, file_pos, locals>>

StoreForward(c) ==
    /\ Goto(c, "forward", "leave")
    /\ write' = [write EXCEPT ![index[c]] = Advance(@)]
    /\ UNCHANGED <<full, empty, cs_client, cs_server, buffer, read, is_done, woken, file_pos, locals>>

LeaveClient(c) ==
    /\ Goto(c, "leave", "release")
    /\ cs_client' = [cs_client EXCEPT ![index[c]] = NoOne]
    /\ UNCHANGED <<full, empty, cs_server, rings, is_done, woken, file_pos, locals>>

ReleaseFull(c) ==
    /\ Goto(c, "release", "read")
    /\ full' = [full EXCEPT ![index[c]] = Post(@)]
    /\ UNCHANGED <<empty, cs_client, cs_server, rings, is_done, woken, file_pos, locals>>

client_work(c) ==
    \/ ReadTask(c) \/ EndOfFile(c) \/ WaitEmpty(c) \/ EnterClient(c) \/ Store(c)
    \/ StoreForward(c) \/ LeaveClient(c) \/ ReleaseFull(c)

-----------------------------------------------------------------------------
(* server_work *)

Ready == {i \in Queues : full[i] > 0}

(* WaitForMultipleObjects takes a permit of the first semaphore that has one. *)
WaitAny(s) ==
    /\ Goto(s, "wait", "check")
    /\ Ready # {}
    /\ index' = [index EXCEPT ![s] = Min(Ready)]
    /\ full' = [full EXCEPT ![Min(Ready)] = @ - 1]
    /\ UNCHANGED <<empty, cs_client, cs_server, rings, is_done, woken, file_pos, r>>

CheckDoneNot(s) ==
    /\ Goto(s, "check", "enter")
    /\ UNCHANGED <<full, empty, cs_client, cs_server, rings, is_done, woken, file_pos, locals>>
CheckDone(s) ==
    /\ Goto(s, "check", IF is_done THEN "end" ELSE "enter")
    /\ UNCHANGED <<full, empty, cs_client, cs_server, rings, is_done, woken, file_pos, locals>>

EnterServer(s) ==
    /\ Goto(s, "enter", "take")
    /\ cs_server[index[s]] = NoOne
    /\ cs_server' = [cs_server EXCEPT ![index[s]] = s]
    /\ UNCHANGED <<full, empty, cs_client, rings, is_done, woken, file_pos, locals>>

Take(s) ==
    /\ Goto(s, "take", "forward")
    /\ r' = [r EXCEPT ![s] = buffer[index[s]][read[index[s]]]]
    /\ UNCHANGED <<full, empty, cs_client, cs_server, rings, is_done, woken, file_pos, index>>

TakeForward(s) ==
    /\ Goto(s, "forward", "run")
    /\ read' = [read EXCEPT ![index[s]] = Advance(@)]
    /\ UNCHANGED <<full, empty, cs_client, cs_server, buffer, write, is_done, woken, file_pos, locals>>

(* The task runs, that is the thread sleeps, before the section is left. *)
RunAndLeave(s) ==
    /\ Goto(s, "run", "release")
    /\ cs_server' = [cs_server EXCEPT ![index[s]] = NoOne]
    /\ UNCHANGED <<full, empty, cs_client, rings, is_done, woken, file_pos, locals>>

ReleaseEmpty(s) ==
    /\ Goto(s, "release", "wait")
    /\ empty' = [empty EXCEPT ![index[s]] = Post(@)]
    /\ UNCHANGED <<full, cs_client, cs_server, rings, is_done, woken, file_pos, locals>>

server_work(s) ==
    \/ WaitAny(s) \/ CheckDone(s) \/ EnterServer(s) \/ Take(s)
    \/ TakeForward(s) \/ RunAndLeave(s) \/ ReleaseEmpty(s)

-----------------------------------------------------------------------------
(* _tmain *)

JoinClients ==
    /\ Goto(Main, "join", "wake")
    /\ \A c \in Clients : pc[c] = "end"
    /\ is_done' = TRUE
    /\ UNCHANGED <<full, empty, cs_client, cs_server, rings, woken, file_pos, locals>>

WakeNone ==
    /\ Goto(Main, "wake", "wake")
    /\ woken < Cardinality(Servers)
    /\ woken' = woken + 1
    /\ UNCHANGED <<full, empty, cs_client, cs_server, rings, is_done, file_pos, locals>>

(* One release per server, all on the first queue's semaphore *)
WakeOne ==
    /\ woken < Cardinality(Servers)
    /\ Goto(Main, "wake", "wake")
    /\ full' = [full EXCEPT ![0] = Post(@)]
    /\ woken' = woken + 1
    /\ UNCHANGED <<empty, cs_client, cs_server, rings, is_done, file_pos, locals>>

JoinServers ==
    /\ woken = Cardinality(Servers)
    /\ \A s \in Servers : pc[s] = "end"
    /\ Goto(Main, "wake", "end")
    /\ UNCHANGED <<full, empty, cs_client, cs_server, rings, is_done, woken, file_pos, locals>>

MainStep == JoinClients \/ WakeOne \/ JoinServers

-----------------------------------------------------------------------------
Ended == pc[Main] = "end"

Next ==
    \/ MainStep
    \/ \E c \in Clients : client_work(c)
    \/ \E s \in Servers : server_work(s)
    \/ Ended /\ UNCHANGED vars

Spec == Init /\ [][Next]_vars

(* Every thread that can run is scheduled.  The file is finite, so a client
   or server can be overtaken on a semaphore only so many times. *)
FairSpec ==
    /\ Spec
    /\ WF_vars(MainStep)
    /\ \A c \in Clients : WF_vars(client_work(c))
    /\ \A s \in Servers : WF_vars(server_work(s))

-----------------------------------------------------------------------------
(* Properties *)

ClientsAt(i, labels) == {c \in Clients : index[c] = i /\ pc[c] \in labels}
ServersAt(i, labels) == {s \in Servers : index[s] = i /\ pc[s] \in labels}

TypeOK ==
    /\ full \in [Queues -> 0 .. Size] /\ empty \in [Queues -> 0 .. Size]
    /\ cs_client \in [Queues -> Clients \cup {NoOne}]
    /\ cs_server \in [Queues -> Servers \cup {NoOne}]
    /\ buffer \in [Queues -> [Slots -> (1 .. Len(Tasks)) \cup {NoTask}]]
    /\ read \in [Queues -> Slots] /\ write \in [Queues -> Slots]
    /\ is_done \in BOOLEAN /\ woken \in 0 .. Cardinality(Servers)
    /\ file_pos \in [Clients -> 1 .. Len(Tasks) + 1]
    /\ r \in [Clients \cup Servers -> (1 .. Len(Tasks)) \cup {NoTask}]
    /\ index \in [Clients \cup Servers -> Queues]

(* How many tasks are in a ring, from the slots that are or will be free *)
Held(i) ==
    Size - empty[i] - Cardinality(ClientsAt(i, {"enter", "store", "forward"}))
                    - Cardinality(ServersAt(i, {"forward", "run", "release"}))

(* While clients are at work a permit of full stands for a task, so a server
   that passed its wait always finds one; a ring holds no other task. *)
TokensMatchTasks ==
    /\ TypeOK
    /\ ~ is_done => \A i \in Queues :
          Held(i) = full[i] + Cardinality(ClientsAt(i, {"leave", "release"}))
                            + Cardinality(ServersAt(i, {"check", "enter", "take"}))

(* The tasks a client has not put into a ring yet *)
Todo(c) ==
    {k \in file_pos[c] .. Len(Tasks) : Tasks[k].C = c}
        \cup (IF pc[c] \in {"empty", "enter", "store", "forward"} THEN {r[c]} ELSE {})

(* The slot reached after k steps from slot 0, for k < 2 * Size. *)
Wrap(k) == IF k < Size THEN k ELSE k - Size

Content(i) ==
    LET first == read[i] + Cardinality(ServersAt(i, {"forward"}))
    IN  [n \in 1 .. Held(i) |-> buffer[i][Wrap(first + n - 1)]]

Pool == INSTANCE TaskPool WITH
    Capacity <- Size,
    Assigned <- [c \in Clients |-> {k \in 1 .. Len(Tasks) : Tasks[k].C = c}],
    todo <- [c \in Clients |-> Todo(c)],
    queue <- [i \in Queues |-> Content(i)],
    running <- [s \in Servers |-> IF pc[s] \in {"forward", "run"} THEN r[s] ELSE NoTask]

(* Every task is queued once, in order and where it belongs, and what a server
   runs is the oldest task of a queue, once; also during the shutdown. *)
PoolSpec == Pool!Spec

(* The program ends: every server is woken, although all the wake-ups go to
   one semaphore and those beyond its maximum are lost. *)
Termination == <>Ended
=============================================================================
