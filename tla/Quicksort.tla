------------------------------ MODULE Quicksort ------------------------------
(* LAB03/E01.c: quicksort of the shared array v; a call that has more than   *)
(* size + 1 elements sorts its two parts in two threads and joins them, a    *)
(* smaller one sorts them one after the other.                               *)
EXTENDS Integers, Sequences, FiniteSets, FiniteSetsExt

CONSTANTS
    Inputs,    \* the arrays in the file
    Sizes      \* the values of the argument

VARIABLES
    input, size,
    v,         \* from 0
    call       \* the calls of quicksort: of each [left, right] its locals and pc

vars == <<input, size, v, call>>

Call(left, right) == [left |-> left, right |-> right]
Begun == [i |-> 0, j |-> 0, x |-> 0, pc |-> "begin"]

Init ==
    /\ input \in Inputs /\ size \in Sizes
    /\ v = [k \in 0 .. Len(input) - 1 |-> input[k + 1]]
    /\ call = [c \in {Call(0, Len(input) - 1)} |-> Begun]

Root == Call(0, Len(input) - 1)

(* The calls for the two parts *)
LowPart(c) == Call(c.left, call[c].j)
HighPart(c) == Call(call[c].j + 1, c.right)

Returned(c) == c \in DOMAIN call /\ call[c].pc = "returned"

At(c, label) == c \in DOMAIN call /\ call[c].pc = label

(* c goes on at label, having called those in new *)
Calling(c, new, label) ==
    call' = [d \in DOMAIN call \cup new |->
                IF d = c THEN [call[c] EXCEPT !.pc = label]
                ELSE IF d \in new THEN Begun ELSE call[d]]

Begin(c) ==
    /\ At(c, "begin")
    /\ IF c.left >= c.right
         THEN Calling(c, {}, "returned")
         ELSE call' = [call EXCEPT ![c] =
                  [i |-> c.left - 1, j |-> c.right + 1, x |-> v[c.left], pc |-> "while"]]
    /\ UNCHANGED <<input, size, v>>

(* The two inner loops, as far as there are elements *)
Scan(c) ==
    LET l == call[c]
    IN  /\ At(c, "while") /\ l.i < l.j
        /\ call' = [call EXCEPT ![c] =
               [i |-> Min({k \in DOMAIN v : k > l.i /\ v[k] >= l.x}),
                j |-> Max({k \in DOMAIN v : k < l.j /\ v[k] <= l.x}),
                x |-> l.x, pc |-> "if"]]
        /\ UNCHANGED <<input, size, v>>

swapp(c) ==
    LET l == call[c]
    IN  /\ At(c, "if")
        /\ v' = IF l.i < l.j THEN [v EXCEPT ![l.i] = v[l.j], ![l.j] = v[l.i]] ELSE v
        /\ Calling(c, {}, "while")
        /\ UNCHANGED <<input, size>>

Split(c) ==
    /\ At(c, "while") /\ call[c].i >= call[c].j
    /\ IF c.right - c.left > size
         THEN Calling(c, {LowPart(c), HighPart(c)}, "join")
         ELSE Calling(c, {LowPart(c)}, "low")
    /\ UNCHANGED <<input, size, v>>

LowSorted(c) ==
    /\ At(c, "low") /\ Returned(LowPart(c))
    /\ Calling(c, {HighPart(c)}, "high")
    /\ UNCHANGED <<input, size, v>>

Return(c) ==
    /\ \/ At(c, "join") /\ Returned(LowPart(c)) /\ Returned(HighPart(c))
       \/ At(c, "high") /\ Returned(HighPart(c))
    /\ Calling(c, {}, "returned")
    /\ UNCHANGED <<input, size, v>>

quicksort(c) == Begin(c) \/ Scan(c) \/ swapp(c) \/ Split(c) \/ LowSorted(c) \/ Return(c)

Next == \E c \in DOMAIN call : quicksort(c)

Spec == Init /\ [][Next]_vars

-----------------------------------------------------------------------------
(* Properties *)

(* When the first call has returned, the array holds the elements it came with,
   in order, however the threads of its parts were interleaved. *)
SortedAtEnd ==
    Returned(Root) =>
        /\ \A k \in DOMAIN v \ {0} : v[k - 1] <= v[k]
        /\ \A x \in {v[k] : k \in DOMAIN v} \cup {input[k] : k \in DOMAIN input} :
              Cardinality({k \in DOMAIN v : v[k] = x}) = Cardinality({k \in DOMAIN input : input[k] = x})

(* The first call returns. *)
Ends == Returned(Root)
=============================================================================
