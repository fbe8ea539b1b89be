------------------------------ MODULE MCTurns ------------------------------
(* Five small programs whose threads take turns or share out an array: two   *)
(* clients of three values, rounds of two As and four Bs, the two printers   *)
(* with arguments up to 6, the quicksort of arrays of four, and the merge of *)
(* three files, one of which may fail to open.                               *)
EXTENDS SharedVariable, LetterRounds

ThreeValues == <<<<1, 2>>, <<3>>>>
ArraysOfFour ==
    {a \in [1 .. 4 -> 1 .. 4] : \/ Cardinality({a[k] : k \in 1 .. 4}) = 4
                                \/ \A k \in 1 .. 4 : a[k] <= 2} \cup {<<>>}

VARIABLES
    input, size, v, call,                                         \* quicksort
    threadHandle, d, set, terminate, result, finalVet, merged, filePc    \* merge of files

sorting == <<input, size, v, call>>
merging_files == <<threadHandle, d, set, terminate, result, finalVet, merged, filePc>>
turns == <<varVars, abbVars, twoVars, sorting, merging_files>>

Sort == INSTANCE Quicksort WITH Inputs <- ArraysOfFour, Sizes <- {0, 1, 3}
Merge == INSTANCE MergeFiles WITH
    Numbers <- <<<<3, 1>>, <<2>>, <<2, 5, 4>>>>, MayFail <- {3}, pc <- filePc

SmallPrograms == {"shared variable", "rounds", "printers", "sort", "merge"}

(* A program that does not run has one initial state *)
TurnsInit(running) ==
    /\ VarInit /\ AbbInit /\ TwoInit /\ Sort!Init /\ Merge!Init
    /\ running # "printers" => argument = 2
    /\ running # "sort" => input = <<>> /\ size = 0

TurnsNext(running) ==
    \/ running = "shared variable" /\ VarNext
       /\ UNCHANGED <<abbVars, twoVars, sorting, merging_files>>
    \/ running = "rounds" /\ AbbNext /\ UNCHANGED <<varVars, twoVars, sorting, merging_files>>
    \/ running = "printers" /\ TwoNext /\ UNCHANGED <<varVars, abbVars, sorting, merging_files>>
    \/ running = "sort" /\ Sort!Next /\ UNCHANGED <<varVars, abbVars, twoVars, merging_files>>
    \/ running = "merge" /\ Merge!Next /\ UNCHANGED <<varVars, abbVars, twoVars, sorting>>

(* What each program comes to *)
TurnsEnd(running) ==
    CASE running = "shared variable" -> VarEnds
      [] running = "rounds" -> AbbEnds
      [] running = "printers" -> TwoEnds
      [] running = "sort" -> Sort!Ends /\ Sort!SortedAtEnd
      [] running = "merge" -> Merge!Ends

(* Where a program may stop: at its end, or where an increment of stop or the
   printers' third letter leaves somebody waiting. *)
TurnsStopped(running) ==
    CASE running = "shared variable" ->
            \/ varPc[Server] = "exit"
            \/ IncrementLost /\ varPc[Server] = "wait_ok" /\ sem_ok = 0
      [] running = "rounds" -> AbbEnds
      [] running = "printers" ->
            \A t \in Printers : printerPc[t] = "returned" \/ (argument > 4 /\ print[t] = 0)
      [] running = "sort" -> Sort!Ends
      [] running = "merge" -> Merge!Ends
=============================================================================
