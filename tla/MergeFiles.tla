----------------------------- MODULE MergeFiles -----------------------------
(* LAB09/E01.cpp: a thread per file fills in its record of the array d; main *)
(* merges the vector of each thread that ends and copies d without it.  The  *)
(* threads go on writing to the first array.  compare takes the addresses of *)
(* two elements for the elements, so qsort moves nothing.                    *)
EXTENDS Integers, Sequences, FiniteSets, FiniteSetsExt

CONSTANTS
    Numbers,      \* per file, and so per thread, the numbers in it, below INT_MAX
    MayFail       \* the files that may fail to open

Files == DOMAIN Numbers
MainThread == 0

VARIABLES
    threadHandle,   \* the threads main still waits for
    d,              \* main's records, in the same order: whose, and what is set
    set,            \* what each thread has set of its record in the first array
    terminate, result,
    finalVet,
    merged,         \* history: the threads whose vectors are in finalVet
    pc

main == <<threadHandle, d, terminate, result, finalVet, merged>>
vars == <<main, set, pc>>

Record(f) == [filename |-> f, set |-> {}]

Init ==
    /\ threadHandle = [f \in Files |-> f]
    /\ d = [f \in Files |-> Record(f)]
    /\ set = [f \in Files |-> {}]
    /\ terminate = 0 /\ result = 1 /\ finalVet = <<>> /\ merged = {}
    /\ pc = [t \in Files \cup {MainThread} |-> IF t = MainThread THEN "while" ELSE "open"]

Goto(t, from, to) ==
    /\ pc[t] = from
    /\ pc' = [pc EXCEPT ![t] = to]

-----------------------------------------------------------------------------
(* WorkTh *)

Open(f) ==
    /\ \/ Goto(f, "open", "nNumber")
       \/ f \in MayFail /\ Goto(f, "open", "exit")
    /\ UNCHANGED <<main, set>>

SetField(f) ==
    /\ \/ Goto(f, "nNumber", "vector")
       \/ Goto(f, "vector", "read")
    /\ set' = [set EXCEPT ![f] = @ \cup {pc[f]}]
    /\ UNCHANGED main

(* The numbers go into the vector, to which every copy of the record points *)
ReadNumbers(f) == Goto(f, "read", "exit") /\ UNCHANGED <<main, set>>

WorkTh(f) == Open(f) \/ SetField(f) \/ ReadNumbers(f)

-----------------------------------------------------------------------------
(* _tmain *)

WaitAny ==
    LET ended == {k \in DOMAIN threadHandle : pc[threadHandle[k]] = "exit"}
    IN  /\ terminate < Cardinality(Files) /\ ended # {}
        /\ Goto(MainThread, "while", "merge")
        /\ result' = Min(ended)
        /\ UNCHANGED <<threadHandle, d, set, terminate, finalVet, merged>>

(* Of the two next elements the smaller, the first array's if they are equal *)
merge(array0, array1) ==
    LET n1 == Len(array0)
        n2 == Len(array1)
        from[i0 \in 0 .. n1, i1 \in 0 .. n2] ==
            IF i0 = n1 /\ i1 = n2 THEN <<>>
            ELSE IF i1 < n2 /\ (i0 < n1 => array1[i1 + 1] < array0[i0 + 1])
                   THEN <<array1[i1 + 1]>> \o from[i0, i1 + 1]
                   ELSE <<array0[i0 + 1]>> \o from[i0 + 1, i1]
    IN  from[0, 0]

(* What main finds in a record: until the first copy d is the threads' own array *)
Found(k) == IF terminate = 0 THEN set[d[k].filename] ELSE d[k].set

MergeVector ==
    /\ Goto(MainThread, "merge", "copy")
    /\ Found(result) = {"nNumber", "vector"}
    /\ finalVet' = merge(Numbers[d[result].filename], finalVet)
    /\ merged' = merged \cup {d[result].filename}
    /\ UNCHANGED <<threadHandle, d, set, terminate, result>>

(* A field that is not set is whatever malloc gave: anything may happen then. *)
MergeUnset ==
    /\ Goto(MainThread, "merge", "undefined")
    /\ Found(result) # {"nNumber", "vector"}
    /\ UNCHANGED <<main, set>>

GetNewArrayOfHandle == SelectSeq(threadHandle, LAMBDA f : f # threadHandle[result])

GetNewArrayOfData ==
    [k \in 1 .. Len(d) - 1 |->
        LET old == IF k < result THEN k ELSE k + 1
        IN  [filename |-> d[old].filename, set |-> Found(old)]]

Copy ==
    /\ Goto(MainThread, "copy", "while")
    /\ threadHandle' = GetNewArrayOfHandle
    /\ d' = GetNewArrayOfData
    /\ terminate' = terminate + 1
    /\ UNCHANGED <<set, result, finalVet, merged>>

Next == WaitAny \/ MergeVector \/ MergeUnset \/ Copy \/ \E f \in Files : WorkTh(f)

Spec == Init /\ [][Next]_vars

-----------------------------------------------------------------------------
(* Properties *)

(* MainThread takes the record of the thread it has waited for, though both arrays are
   made anew each time, and what it has merged are the numbers of the files of
   those threads, once each; until it meets a record that was copied before its
   thread had filled it in. *)
EachFileOnce ==
    LET Count(s, x) == Cardinality({k \in DOMAIN s : s[k] = x})
    IN  /\ \A k \in DOMAIN threadHandle : d[k].filename = threadHandle[k]
        /\ \A f \in Files : \A x \in {Numbers[f][k] : k \in DOMAIN Numbers[f]} :
              Count(finalVet, x) = MapThenSumSet(LAMBDA g : Count(Numbers[g], x), merged)

(* main has printed the vector, or has met such a record. *)
Ends == terminate = Cardinality(Files) \/ pc[MainThread] = "undefined"
=============================================================================
