------------------------------ MODULE FilePairs ------------------------------
(* EXAMS/2015-06-25/concurrent_file_processing.c: threads of two kinds count *)
(* the files they have processed; the second of a kind concatenates, and if  *)
(* the other kind has its two as well, merges all four and starts anew.  Two *)
(* threads of a kind may be past the semaphore, and no lock is held.         *)
EXTENDS Integers, FiniteSets

CONSTANT n      \* threads of each kind

Kinds == {"A", "B"}
Threads == Kinds \X (0 .. n - 1)
Kind(t) == t[1]

VARIABLES
    sem,       \* sa and sb
    cnt,       \* cnt_a and cnt_b
    loaded,    \* the count as a thread has read it for the increment
    merges,    \* history: merges printed
    pc

vars == <<sem, cnt, loaded, merges, pc>>

Init ==
    /\ sem = [k \in Kinds |-> 2]
    /\ cnt = [k \in Kinds |-> 0]
    /\ loaded = [t \in Threads |-> 0]
    /\ merges = 0
    /\ pc = [t \in Threads |-> "wait"]

Goto(t, from, to) ==
    /\ pc[t] = from
    /\ pc' = [pc EXCEPT ![t] = to]

Wait(t) ==
    /\ sem[Kind(t)] > 0
    /\ Goto(t, "wait", "load")
    /\ sem' = [sem EXCEPT ![Kind(t)] = @ - 1]
    /\ UNCHANGED <<cnt, loaded, merges>>

LoadCount(t) ==
    /\ Goto(t, "load", "store")
    /\ loaded' = [loaded EXCEPT ![t] = cnt[Kind(t)]]
    /\ UNCHANGED <<sem, cnt, merges>>

StoreCount(t) ==
    /\ Goto(t, "store", "pair")
    /\ cnt' = [cnt EXCEPT ![Kind(t)] = loaded[t] + 1]
    /\ UNCHANGED <<sem, loaded, merges>>

(* The second of a kind concatenates *)
TestPair(t) ==
    /\ Goto(t, "pair", IF cnt[Kind(t)] = 2 THEN "four" ELSE "returned")
    /\ UNCHANGED <<sem, cnt, loaded, merges>>

TestFour(t) ==
    /\ Goto(t, "four", IF cnt["A"] + cnt["B"] = 4 THEN "merge" ELSE "returned")
    /\ UNCHANGED <<sem, cnt, loaded, merges>>

Merge(t) ==
    /\ Goto(t, "merge", "reset")
    /\ merges' = merges + 1
    /\ UNCHANGED <<sem, cnt, loaded>>

Reset(t) ==
    /\ \/ Goto(t, "reset", "reset b") /\ cnt' = [cnt EXCEPT !["A"] = 0]
       \/ Goto(t, "reset b", "post") /\ cnt' = [cnt EXCEPT !["B"] = 0]
    /\ UNCHANGED <<sem, loaded, merges>>

(* Two posts for each kind *)
Post(t) ==
    /\ Goto(t, "post", "returned")
    /\ sem' = [k \in Kinds |-> sem[k] + 2]
    /\ UNCHANGED <<cnt, loaded, merges>>

thproc(t) ==
    \/ Wait(t) \/ LoadCount(t) \/ StoreCount(t) \/ TestPair(t) \/ TestFour(t)
    \/ Merge(t) \/ Reset(t) \/ Post(t)

(* main joins all threads *)
Ended == \A t \in Threads : pc[t] = "returned"

Next == (\E t \in Threads : thproc(t)) \/ (Ended /\ UNCHANGED vars)

Spec == Init /\ [][Next]_vars

-----------------------------------------------------------------------------
(* Properties *)

(* Four files are merged once, by the last of the two threads that have
   concatenated a pair of them. *)
OneMergeAFour ==
    4 * merges <= Cardinality({t \in Threads : pc[t] \notin {"wait", "load", "store"}})
=============================================================================
