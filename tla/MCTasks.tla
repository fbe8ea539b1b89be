------------------------------ MODULE MCTasks ------------------------------
(* Threads that share out work: the clients and servers of the task queues,  *)
(* three threads that add up the sales of the products, or a small program   *)
(* (see MCTurns); one of them runs.                                          *)
EXTENDS TaskQueues, MCTurns, TLC
CONSTANTS c1, c2, s1, s2
TwoClients == {c1, c2}
TwoServers == {s1, s2}
LowTimes == 0 :> 0 @@ 1 :> 1
HighTimes == 0 :> 2 @@ 1 :> 5
(* The first queue takes 100 to 199, the second 200 to 499: the third task
   has no queue, since the bounds are strict. *)
FiveTasks ==
    << [C |-> c1, predicted_duration |-> 150],
       [C |-> c2, predicted_duration |-> 199],
       [C |-> c2, predicted_duration |-> 500],
       [C |-> c1, predicted_duration |-> 120],
       [C |-> c2, predicted_duration |-> 300] >>

Sale(of, day, price) == [id |-> of, selling_data |-> day, price |-> price]
(* The last product is reached only if a thread can open a file that is empty. *)
ProductFiles == <<"ford", "lost", "fiat", "seat", "gone", "bare", "seat">>
Lost == {{"lost", "gone"}, {"lost", "gone", "bare"}}
Sales == [f \in {"fiat", "ford", "seat", "bare"} |->
    CASE f = "ford" -> <<Sale("b1", "d1", 1), Sale("b2", "d2", 2), Sale("b3", "d2", 4),
                         Sale("b4", "d2", 8)>>
      [] f = "fiat" -> <<Sale("b1", "d1", 16), Sale("b1", "d2", 32)>>
      [] f = "seat" -> <<Sale("b2", "d1", 64), Sale("b1", "d1", 64), Sale("b3", "d3", 64)>>
      [] f = "bare" -> <<>>]
OldOutput == <<[file |-> "old", n_cars |-> 0]>>

VARIABLES
    running,    \* the program that runs; the others stay in one initial state
    missing, offset_file_product, cs_get_offset, where_read, first_time, date, branch, next,
    tot_sold_cars, tot_amount, output, out_file, written, merging, carPc

cars == <<missing, offset_file_product, cs_get_offset, where_read, first_time, date, branch, next,
          tot_sold_cars, tot_amount, output, out_file, written, merging, carPc>>

S == INSTANCE CarStatistics WITH
    N <- 3, Products <- ProductFiles, Trade <- Sales, CanMiss <- Lost, Old <- OldOutput,
    pc <- carPc

programs == <<running, vars, cars, turns>>

InitPrograms ==
    /\ running \in {"queues", "cars"} \cup SmallPrograms
    /\ Init /\ S!Init /\ TurnsInit(running)

Joins == running = "queues" /\ MainStep /\ UNCHANGED <<running, cars, turns>>
ClientSteps(c) == running = "queues" /\ client_work(c) /\ UNCHANGED <<running, cars, turns>>
ServerSteps(s) == running = "queues" /\ server_work(s) /\ UNCHANGED <<running, cars, turns>>
Cars == running = "cars" /\ S!Next /\ UNCHANGED <<running, vars, turns>>
Turns == TurnsNext(running) /\ UNCHANGED <<running, vars, cars>>
End ==
    /\ \/ running = "queues" /\ Ended
       \/ running \in SmallPrograms /\ TurnsStopped(running)
    /\ UNCHANGED programs
NextPrograms ==
    \/ Joins \/ (\E c \in Clients : ClientSteps(c)) \/ (\E s \in Servers : ServerSteps(s))
    \/ Cars \/ Turns \/ End

(* Of the small programs it is enough that some thread runs as long as one can:
   none has a loop without end. *)
SpecPrograms ==
    /\ InitPrograms
    /\ [][NextPrograms]_programs
    /\ WF_programs(Joins)
    /\ \A c \in Clients : WF_programs(ClientSteps(c))
    /\ \A s \in Servers : WF_programs(ServerSteps(s))
    /\ WF_programs(Turns)

-----------------------------------------------------------------------------

(* Every program comes to its end: of the task queues every server is woken,
   although all wake-ups go to one semaphore; the server of the shared variable
   sees its clients go, unless an increment is lost; of the ABB rounds and the two
   printers nobody waits for a turn that is never given, and the quicksort ends
   with the array sorted.
   The merge of files may end at a record that nobody has filled in. *)
WorkEnds ==
    <>(CASE running = "queues" -> Ended
         [] running = "cars" -> TRUE
         [] OTHER -> TurnsEnd(running))

(* Every product a thread could open is in the joint output once, with all its
   sales: the threads' offsets neither skip nor repeat one.  Of the files that are
   merged, each number is in the vector once. *)
EachInputOnce == S!EachProductOnce /\ Merge!EachFileOnce

(* The date of a record is one of most sales of that product's own file, though
   a thread uses its tables again and again. *)
DateOfMostSales == S!DateOfMostSales
=============================================================================
