--------------------------- MODULE MCWaitingLines ---------------------------
(* Programs whose threads wait in line, of which one runs: the semaphore     *)
(* with classes, with three threads of one round and a pipe of one word; the *)
(* circle line, with two trains on three stations; the metro, with two       *)
(* trains of one seat, four stations and two passengers, one with a choice   *)
(* of journeys.                                                              *)
EXTENDS MCCircleLine, Metro, PrioritySemaphore

Journey(from, to) == [starting_station |-> from, arrival_station |-> to]
TwoPassengers == [x \in {1, 2} |-> IF x = 1 THEN {Journey(0, 2)}
                                   ELSE {Journey(1, 2), Journey(0, 1)}]

ASSUME SemaphoreAssumption /\ MetroAssumption

VARIABLE running    \* the program that runs; the others stay in one initial state

FirstDraw == journey = [x \in {1, 2} |-> IF x = 1 THEN Journey(0, 2) ELSE Journey(0, 1)]
SameStart == station = [t \in Trains |-> 0] /\ direction = [t \in Trains |-> Forward]
SameClass == class = [t \in Threads |-> 0]
(* Threads differ in their class only, so every mix of classes occurs in one order *)
EachMix == class[0] <= class[1] /\ class[1] <= class[2]

InitPrograms ==
    /\ running \in {"circle line", "metro", "semaphore"}
    /\ Init /\ (running # "circle line" => SameStart)
    /\ MInit /\ (running # "metro" => FirstDraw)
    /\ PSInit /\ (IF running = "semaphore" THEN EachMix ELSE SameClass)
NextPrograms ==
    \/ running = "circle line" /\ Next /\ UNCHANGED <<running, mVars, psVars>>
    \/ running = "metro" /\ MNext /\ UNCHANGED <<running, vars, psVars>>
    \/ running = "semaphore" /\ PSNext /\ UNCHANGED <<running, vars, mVars>>

SpecPrograms == InitPrograms /\ [][NextPrograms]_<<running, vars, mVars, psVars>>
=============================================================================
