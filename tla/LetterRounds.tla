---------------------------- MODULE LetterRounds -----------------------------
(* LAB02/E02.c and E03.c: threads that print a line of letters together.  In *)
(* E02 threads of two kinds print themselves once each; each line has one A  *)
(* and two Bs, and whoever completes it lets the next three in.  In E03 two  *)
(* threads print a line of two As and two Bs, one of each letter from either *)
(* thread; two counters say which letter it is and whose turn is next.       *)
EXTENDS Integers, Sequences, FiniteSets

-----------------------------------------------------------------------------
(* LAB02/E02.c *)

CONSTANT nThread

Kinds == {"A", "B"}
AbbThreads == ({"A"} \X (0 .. nThread - 1)) \cup ({"B"} \X (0 .. 2 * nThread - 1))
Kind(t) == t[1]

VARIABLES
    permits,              \* the semaphores printA and printB
    statAB,               \* statA and statB
    linesAB, lineAB,      \* what is printed: the complete lines, and the last one
    abbPc

abbVars == <<permits, statAB, linesAB, lineAB, abbPc>>

AbbInit ==
    /\ permits = [k \in Kinds |-> IF k = "A" THEN 1 ELSE 2]
    /\ statAB = [k \in Kinds |-> 0]
    /\ linesAB = <<>> /\ lineAB = <<>>
    /\ abbPc = [t \in AbbThreads |-> "wait"]

AbbGoto(t, from, to) ==
    /\ abbPc[t] = from
    /\ abbPc' = [abbPc EXCEPT ![t] = to]

WaitKind(t) ==
    /\ permits[Kind(t)] > 0
    /\ AbbGoto(t, "wait", "print")
    /\ permits' = [permits EXCEPT ![Kind(t)] = @ - 1]
    /\ UNCHANGED <<statAB, linesAB, lineAB>>

(* What the thread that ends a line leaves of the counters *)
ClearedOwn(t) == [statAB EXCEPT ![Kind(t)] = 0]
Cleared(t) == [k \in Kinds |-> 0]

(* The critical section of mutex, which is all there is between wait and end *)
PrintKind(t) ==
    LET counted == [statAB EXCEPT ![Kind(t)] = @ + 1]
    IN  /\ AbbGoto(t, "print", "returned")
        /\ IF counted["A"] + counted["B"] >= 3
             THEN /\ statAB' = Cleared(t)
                  /\ linesAB' = Append(linesAB, Append(lineAB, Kind(t))) /\ lineAB' = <<>>
                  /\ permits' = [permits EXCEPT !["A"] = @ + 1, !["B"] = @ + 2]
             ELSE /\ statAB' = counted
                  /\ lineAB' = Append(lineAB, Kind(t))
                  /\ UNCHANGED <<permits, linesAB>>

AbbNext == \E t \in AbbThreads : WaitKind(t) \/ PrintKind(t)

AbbSpec == AbbInit /\ [][AbbNext]_abbVars

(* How many letters of a kind stand in a line *)
Letters(l, k) == Cardinality({j \in DOMAIN l : l[j] = k})

(* Each line has one A and two Bs, whichever thread completes it. *)
LineComplete ==
    /\ \A i \in DOMAIN linesAB : Letters(linesAB[i], "A") = 1 /\ Letters(linesAB[i], "B") = 2
    /\ Letters(lineAB, "A") <= 1 /\ Letters(lineAB, "B") <= 2

AbbEnds == \A t \in AbbThreads : abbPc[t] = "returned"

-----------------------------------------------------------------------------
(* LAB02/E03.c *)

CONSTANT Lengths    \* the values of the argument

Printers == {1, 2}
Other(t) == 3 - t

VARIABLES
    argument,       \* n
    stat12,         \* stat1 and stat2
    print, acapo,   \* the semaphores: print1 and print2; a new line is due
    line12,         \* what stands in the last line: the letters, and who put them
    printerPc

twoVars == <<argument, stat12, print, acapo, line12, printerPc>>

(* The loop's condition: a thread's counter is written by the thread alone *)
Again(t, printed) == IF printed * 2 < argument THEN "wait" ELSE "returned"

TwoInit ==
    /\ argument \in Lengths
    /\ stat12 = [t \in Printers |-> 0]
    /\ print = [t \in Printers |-> 1] /\ acapo = 0
    /\ line12 = <<>>
    /\ printerPc = [t \in Printers |-> Again(t, 0)]

TwoGoto(t, from, to) ==
    /\ printerPc[t] = from
    /\ printerPc' = [printerPc EXCEPT ![t] = to]

WaitPrint(t) ==
    /\ print[t] > 0
    /\ TwoGoto(t, "wait", "print")
    /\ print' = [print EXCEPT ![t] = @ - 1]
    /\ UNCHANGED <<argument, stat12, acapo, line12>>

(* Which print semaphores the thread posts, by its own count and the other's *)
Posted(t, mine, its) ==
    CASE mine = 1 /\ its = 1 -> Printers
      [] mine = 1 /\ its = 0 -> {Other(t)}
      [] mine = 2 /\ its = 1 -> {Other(t)}
      [] OTHER -> {}

(* A line with the letter it prints, if any *)
Lettered(l, t, mine, its) ==
    CASE mine = 1 /\ its \in {0, 1} -> Append(l, <<"A", t>>)
      [] mine = 2 /\ its \in {1, 2} -> Append(l, <<"B", t>>)
      [] OTHER -> l

(* The critical section of mutex *)
PrintLetter(t) ==
    LET mine == stat12[t] + 1
        its == stat12[Other(t)]
        newline == IF acapo > 0 THEN 1 ELSE 0
    IN  /\ TwoGoto(t, "print", Again(t, mine))
        /\ stat12' = [stat12 EXCEPT ![t] = mine]
        /\ line12' = Lettered(IF newline = 1 THEN <<>> ELSE line12, t, mine, its)
        /\ print' = [u \in Printers |->
                        IF u \in Posted(t, mine, its) THEN print[u] + 1 ELSE print[u]]
        /\ acapo' = acapo - newline + (IF mine = 2 /\ its = 2 THEN 1 ELSE 0)
        /\ UNCHANGED argument

TwoNext == \E t \in Printers : WaitPrint(t) \/ PrintLetter(t)

TwoSpec == TwoInit /\ [][TwoNext]_twoVars

(* A line is A A B B, each letter from both threads, as far as it is printed. *)
LinePaired ==
    /\ \A k \in DOMAIN line12 : k <= 4 /\ line12[k][1] = <<"A", "A", "B", "B">>[k]
    /\ \A k \in {1, 3} : k < Len(line12) => line12[k][2] # line12[k + 1][2]

(* Both threads return when the argument asks for no more than one line; for a
   longer text nothing is posted after it. *)
TwoEnds == argument > 4 \/ \A t \in Printers : printerPc[t] = "returned"

(* A line has one A and two Bs, or two As and then two Bs of both threads,
   whichever threads come first. *)
LinesWhole == LineComplete /\ LinePaired
=============================================================================
