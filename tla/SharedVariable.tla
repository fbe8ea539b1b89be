--------------------------- MODULE SharedVariable ---------------------------
(* LAB01/E2.c: two clients read values from their files and have each one    *)
(* tripled by a server, in the one variable g.  A client that has come to    *)
(* the end of its file counts itself out in stop, with no lock.              *)
EXTENDS Integers, Sequences

CONSTANT Values     \* per client (1 and 2), the values in its file

ASSUME ValuesAssumption == Values \in [{1, 2} -> Seq(Int)]

ClientIds == {1, 2}
Server == 0
NUM_THREADS == 2

VARIABLES
    g, request, stop,
    sem_w, sem_r, sem_ok,   \* the semaphores
    file, app,      \* what is left of a client's file, and the value it is at
    loaded,         \* what a thread has read of stop, or of g, to write it back
    varPc

varSems == <<sem_w, sem_r, sem_ok>>
varLocals == <<file, app, loaded>>
varVars == <<g, request, stop, varSems, varLocals, varPc>>

VarInit ==
    /\ g = 0 /\ request = 0 /\ stop = 0
    /\ sem_w = 1 /\ sem_r = 0 /\ sem_ok = 0
    /\ file = Values /\ app = [c \in ClientIds |-> 0]
    /\ loaded = [t \in ClientIds \cup {Server} |-> 0]
    /\ varPc = [t \in ClientIds \cup {Server} |-> IF t = Server THEN "while" ELSE "fread"]

VarGoto(t, from, to) ==
    /\ varPc[t] = from
    /\ varPc' = [varPc EXCEPT ![t] = to]

-----------------------------------------------------------------------------
(* read_file *)

ReadValue(c) ==
    /\ file[c] # <<>>
    /\ VarGoto(c, "fread", "wait_w")
    /\ app' = [app EXCEPT ![c] = Head(file[c])]
    /\ file' = [file EXCEPT ![c] = Tail(@)]
    /\ UNCHANGED <<g, request, stop, varSems, loaded>>

WaitTurnUncounted(c) ==
    /\ sem_w > 0
    /\ VarGoto(c, "wait_w", "set")
    /\ UNCHANGED <<g, request, stop, varSems, varLocals>>
WaitTurn(c) ==
    /\ sem_w > 0
    /\ VarGoto(c, "wait_w", "set")
    /\ sem_w' = sem_w - 1
    /\ UNCHANGED <<g, request, stop, sem_r, sem_ok, varLocals>>

SetG(c) ==
    /\ VarGoto(c, "set", "post_ok")
    /\ g' = app[c]
    /\ UNCHANGED <<request, stop, varSems, varLocals>>

PostOk(c) ==
    /\ \/ VarGoto(c, "post_ok", "wait_r")
       \/ VarGoto(c, "post_last", "exit")
    /\ sem_ok' = sem_ok + 1
    /\ UNCHANGED <<g, request, stop, sem_w, sem_r, varLocals>>

WaitAnswer(c) ==
    /\ sem_r > 0
    /\ VarGoto(c, "wait_r", "print")
    /\ sem_r' = sem_r - 1
    /\ UNCHANGED <<g, request, stop, sem_w, sem_ok, varLocals>>

(* g is printed, then w posted *)
GiveTurn(c) ==
    /\ VarGoto(c, "print", "fread")
    /\ sem_w' = sem_w + 1
    /\ UNCHANGED <<g, request, stop, sem_r, sem_ok, varLocals>>

LoadStop(c) ==
    /\ file[c] = <<>>
    /\ VarGoto(c, "fread", "stop++")
    /\ loaded' = [loaded EXCEPT ![c] = stop]
    /\ UNCHANGED <<g, request, stop, varSems, file, app>>

StoreStop(c) ==
    /\ VarGoto(c, "stop++", "test_stop")
    /\ stop' = loaded[c] + 1
    /\ UNCHANGED <<g, request, varSems, varLocals>>

TestStop(c) ==
    /\ VarGoto(c, "test_stop", IF stop = 2 THEN "post_last" ELSE "exit")
    /\ UNCHANGED <<g, request, stop, varSems, varLocals>>

read_file(c) ==
    \/ ReadValue(c) \/ WaitTurn(c) \/ SetG(c) \/ PostOk(c) \/ WaitAnswer(c) \/ GiveTurn(c)
    \/ LoadStop(c) \/ StoreStop(c) \/ TestStop(c)

-----------------------------------------------------------------------------
(* main *)

While ==
    /\ VarGoto(Server, "while", IF stop # NUM_THREADS THEN "wait_ok" ELSE "join")
    /\ UNCHANGED <<g, request, stop, varSems, varLocals>>

WaitOk ==
    /\ sem_ok > 0
    /\ VarGoto(Server, "wait_ok", "load_g")
    /\ sem_ok' = sem_ok - 1
    /\ UNCHANGED <<g, request, stop, sem_w, sem_r, varLocals>>

LoadG ==
    /\ VarGoto(Server, "load_g", "store_g")
    /\ loaded' = [loaded EXCEPT ![Server] = g]
    /\ UNCHANGED <<g, request, stop, varSems, file, app>>

StoreG ==
    /\ VarGoto(Server, "store_g", "post_r")
    /\ g' = 3 * loaded[Server]
    /\ request' = request + 1
    /\ UNCHANGED <<stop, varSems, varLocals>>

Answer ==
    /\ VarGoto(Server, "post_r", "while")
    /\ sem_r' = sem_r + 1
    /\ UNCHANGED <<g, request, stop, sem_w, sem_ok, varLocals>>

Join ==
    /\ \A c \in ClientIds : varPc[c] = "exit"
    /\ VarGoto(Server, "join", "exit")
    /\ UNCHANGED <<g, request, stop, varSems, varLocals>>

VarMain == While \/ WaitOk \/ LoadG \/ StoreG \/ Answer \/ Join

VarNext == VarMain \/ \E c \in ClientIds : read_file(c)

VarSpec == VarInit /\ [][VarNext]_varVars

-----------------------------------------------------------------------------
(* Properties *)

(* Both clients have gone and one increment of stop is lost: the server waits
   for a client that is not there. *)
IncrementLost ==
    stop < NUM_THREADS /\ \A c \in ClientIds : varPc[c] \in {"test_stop", "exit"}

(* What a client prints is its own value, tripled once, though all share g and
   the answer is for whoever waits; and the server does not go before every
   value of both files has been answered. *)
AnswerForMe ==
    /\ \A c \in ClientIds : varPc[c] = "print" => g = 3 * app[c]
    /\ varPc[Server] \in {"join", "exit"} =>
          /\ \A c \in ClientIds : file[c] = <<>> /\ varPc[c] \notin {"wait_w", "wait_r"}
          /\ request >= Len(Values[1]) + Len(Values[2])

(* The server ends, unless an increment of stop is lost. *)
VarEnds == varPc[Server] = "exit" \/ IncrementLost
=============================================================================
