--------------------------- MODULE CyclicBarrier ---------------------------
(* What a barrier used round after round promises: nobody passes its k-th    *)
(* rendezvous before everybody has arrived at its own k-th.                  *)
EXTENDS Naturals

CONSTANTS Threads, Rounds

VARIABLES
    arrived,  \* rendezvous each thread has reached
    passed    \* rendezvous each thread has gone through

barrierVars == <<arrived, passed>>

Init ==
    /\ arrived = [t \in Threads |-> 0]
    /\ passed = [t \in Threads |-> 0]

Arrive(t) ==
    /\ arrived[t] = passed[t] /\ arrived[t] < Rounds
    /\ arrived' = [arrived EXCEPT ![t] = @ + 1]
    /\ UNCHANGED passed

Pass(t) ==
    /\ passed[t] < arrived[t]
    /\ \A u \in Threads : arrived[u] >= arrived[t]
    /\ passed' = [passed EXCEPT ![t] = arrived[t]]
    /\ UNCHANGED arrived

Next == \E t \in Threads : Arrive(t) \/ Pass(t)

Spec == Init /\ [][Next]_barrierVars
=============================================================================
