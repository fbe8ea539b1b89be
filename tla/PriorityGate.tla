---------------------------- MODULE PriorityGate ----------------------------
(* What a priority semaphore promises: a signal admits the thread of the     *)
(* highest class that waits, the one that came first among equals; without a *)
(* waiting thread it leaves a token for the next arrival.                    *)
EXTENDS Integers, Sequences

CONSTANTS Threads, Classes

VARIABLES
    tokens,   \* signals nobody has used
    queues,   \* per class, the waiting threads in order of arrival
    admitted  \* threads that may go on

gateVars == <<tokens, queues, admitted>>

Init ==
    /\ tokens = 0
    /\ queues = [k \in Classes |-> <<>>]
    /\ admitted = {}

Waiting(t) == \E k \in Classes : \E i \in 1 .. Len(queues[k]) : queues[k][i] = t

Arrive(t) ==
    /\ ~ Waiting(t)
    /\ t \notin admitted
    /\ \/ /\ tokens > 0
          /\ tokens' = tokens - 1
          /\ admitted' = admitted \cup {t}
          /\ UNCHANGED queues
       \/ /\ tokens = 0
          /\ \E k \in Classes : queues' = [queues EXCEPT ![k] = Append(@, t)]
          /\ UNCHANGED <<tokens, admitted>>

Depart(t) ==
    /\ t \in admitted
    /\ admitted' = admitted \ {t}
    /\ UNCHANGED <<tokens, queues>>

Signal ==
    \/ /\ \A k \in Classes : queues[k] = <<>>
       /\ tokens' = tokens + 1
       /\ UNCHANGED <<queues, admitted>>
    \/ \E k \in Classes :
          /\ queues[k] # <<>>
          /\ \A j \in Classes : j > k => queues[j] = <<>>
          /\ queues' = [queues EXCEPT ![k] = Tail(@)]
          /\ admitted' = admitted \cup {Head(queues[k])}
          /\ UNCHANGED tokens

Next == Signal \/ \E t \in Threads : Arrive(t) \/ Depart(t)

Spec == Init /\ [][Next]_gateVars
=============================================================================
