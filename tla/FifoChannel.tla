---------------------------- MODULE FifoChannel ----------------------------
(* What a bounded producer/consumer buffer promises: a queue of at most      *)
(* Capacity items.  A producer offers a value, later the value is appended;  *)
(* a consumer gets the oldest item.                                          *)
EXTENDS Naturals, Sequences

CONSTANTS Producers, Consumers, Values, Capacity, NoValue

VARIABLES
    queue,    \* items put and not yet got, oldest first
    offered,  \* the value each producer is about to put, or NoValue
    got       \* the value each consumer got last, or NoValue

channelVars == <<queue, offered, got>>

Init ==
    /\ queue = <<>>
    /\ offered = [p \in Producers |-> NoValue]
    /\ got = [c \in Consumers |-> NoValue]

Offer(p) ==
    /\ offered[p] = NoValue
    /\ \E v \in Values : offered' = [offered EXCEPT ![p] = v]
    /\ UNCHANGED <<queue, got>>

Put(p) ==
    /\ offered[p] # NoValue
    /\ Len(queue) < Capacity
    /\ queue' = Append(queue, offered[p])
    /\ offered' = [offered EXCEPT ![p] = NoValue]
    /\ UNCHANGED got

Get(c) ==
    /\ queue # <<>>
    /\ got' = [got EXCEPT ![c] = Head(queue)]
    /\ queue' = Tail(queue)
    /\ UNCHANGED offered

Next ==
    \/ \E p \in Producers : Offer(p) \/ Put(p)
    \/ \E c \in Consumers : Get(c)

Spec == Init /\ [][Next]_channelVars
=============================================================================
