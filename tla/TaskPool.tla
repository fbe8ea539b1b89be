------------------------------ MODULE TaskPool ------------------------------
(* What the task queues promise: each client queues its tasks in the order   *)
(* of its file, each in the queue meant for it or, if there is none, never;  *)
(* servers take tasks out of the queues in order and run each one once.      *)
EXTENDS Integers, Sequences, FiniteSetsExt

CONSTANTS
    Clients, Servers, Queues,
    Capacity,       \* of a queue
    Assigned,       \* Assigned[c]: the tasks of client c, numbered as in its file
    QueueOf(_),     \* the queue for a task
    NoTask          \* the task of an idle server

VARIABLES todo, queue, running

poolVars == <<todo, queue, running>>

Init ==
    /\ todo = Assigned
    /\ queue = [i \in Queues |-> <<>>]
    /\ running = [s \in Servers |-> NoTask]

(* The task of c whose turn it is *)
NextTask(c) == Min(todo[c])

Enqueue(c, i) ==
    /\ todo[c] # {}
    /\ QueueOf(NextTask(c)) = i
    /\ Len(queue[i]) < Capacity
    /\ queue' = [queue EXCEPT ![i] = Append(@, NextTask(c))]
    /\ todo' = [todo EXCEPT ![c] = @ \ {NextTask(c)}]
    /\ UNCHANGED running

Drop(c) ==
    /\ todo[c] # {}
    /\ QueueOf(NextTask(c)) \notin Queues
    /\ todo' = [todo EXCEPT ![c] = @ \ {NextTask(c)}]
    /\ UNCHANGED <<queue, running>>

Run(s, i) ==
    /\ running[s] = NoTask
    /\ queue[i] # <<>>
    /\ running' = [running EXCEPT ![s] = Head(queue[i])]
    /\ queue' = [queue EXCEPT ![i] = Tail(@)]
    /\ UNCHANGED todo

Finish(s) ==
    /\ running' = [running EXCEPT ![s] = NoTask]
    /\ UNCHANGED <<todo, queue>>

Next ==
    \/ \E c \in Clients : Drop(c) \/ \E i \in Queues : Enqueue(c, i)
    \/ \E s \in Servers : Finish(s) \/ \E i \in Queues : Run(s, i)

Spec == Init /\ [][Next]_poolVars
=============================================================================
