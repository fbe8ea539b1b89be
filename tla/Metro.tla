------------------------------- MODULE Metro -------------------------------
(* EXAMS/2017-07-17/main.c: trains go round the stations of a line, one at   *)
(* a time in each.  Passengers queue in a ring per starting station; a train *)
(* moves them to a ring per arrival station, shared by all trains, and posts *)
(* the semaphore of those that have arrived.  It reports through a pipe.     *)
EXTENDS Integers, FiniteSets, Sequences

CONSTANTS
    N_STATION, N_TRAIN, T_CAPACITY,
    Journeys    \* per passenger, the possible [starting_station, arrival_station]

MStations == 0 .. N_STATION - 1
MetroTrains == 0 .. N_TRAIN - 1
Passengers == DOMAIN Journeys
L == Cardinality(Passengers)   \* one constant of the code is both: the rings' size
Nobody == -1             \* what the slots hold in the fresh heap
MThreads == ({"train"} \X MetroTrains) \cup ({"passenger"} \X Passengers)

MetroAssumption ==
    /\ N_STATION \in Nat \ {0} /\ N_TRAIN \in 0 .. N_STATION /\ T_CAPACITY \in Nat
    /\ IsFiniteSet(Passengers) /\ Passengers # {} /\ Nobody \notin Passengers
    /\ \A x \in Passengers :
          Journeys[x] \subseteq [starting_station : MStations, arrival_station : MStations]

VARIABLES
    ring,        \* ring[q][s]: buffer, read and write of queue_wating_passenger
                 \* ("wait") and queue_passenger_on_train ("on_train")
    full, empty, me,   \* me["P"][s], me["C"][s]
    red_semaphore,
    num_passenger_per_station,
    pipe_station,      \* pipe_station[s]: the trains that wrote the words of the report
                       \* station_work is in the middle of (their values left out)
    sem_get_off,
    journey,           \* starting_station and arrival_station as drawn
    mStation, capacity, busy_sit, free_sit, i, p, \* of each train
    loaded,            \* what a thread has loaded for a write++ or a num++
    mPc

counters == <<full, empty, me>>
train == <<mStation, capacity, busy_sit, free_sit, i, p>>
mVars == <<ring, counters, red_semaphore, num_passenger_per_station, pipe_station,
           sem_get_off, journey, train, loaded, mPc>>

MInit ==
    /\ ring = [q \in {"wait", "on_train"} |-> [s \in MStations |->
                  [buffer |-> [k \in 0 .. L - 1 |-> Nobody], read |-> 0, write |-> 0]]]
    /\ full = [s \in MStations |-> 0] /\ empty = [s \in MStations |-> L]
    /\ me = [k \in {"P", "C"} |-> [s \in MStations |-> 1]]
    /\ red_semaphore = [s \in MStations |-> 1]
    /\ num_passenger_per_station = [s \in MStations |-> 0]
    /\ pipe_station = [s \in MStations |-> <<>>]
    /\ sem_get_off = [x \in Passengers |-> 0]
    /\ journey \in {f \in [Passengers -> UNION {Journeys[x] : x \in Passengers}] :
                       \A x \in Passengers : f[x] \in Journeys[x]}
    /\ mStation = [t \in MetroTrains |-> t]
    /\ capacity = [t \in MetroTrains |-> T_CAPACITY]
    /\ busy_sit = [t \in MetroTrains |-> 0] /\ free_sit = [t \in MetroTrains |-> 0]
    /\ i = [t \in MetroTrains |-> 0] /\ p = [t \in MetroTrains |-> 0]
    /\ loaded = [u \in MThreads |-> 0]
    /\ mPc = [u \in MThreads |-> IF u[1] = "train" THEN "red" ELSE "empty"]

MGoto(u, from, to) ==
    /\ mPc[u] = from
    /\ mPc' = [mPc EXCEPT ![u] = to]

Wait(sem, k) == sem[k] > 0 /\ sem' = [sem EXCEPT ![k] = @ - 1]
Post(sem, k) == sem' = [sem EXCEPT ![k] = @ + 1]
WaitMe(k, s) == me[k][s] > 0 /\ me' = [me EXCEPT ![k][s] = @ - 1]
PostMe(k, s) == me' = [me EXCEPT ![k][s] = @ + 1]

-----------------------------------------------------------------------------
(* Rings *)

(* insert: the slot is written at the write index, which is loaded again and
   stored one further on.  "at" names the three steps and what follows them. *)
insert(u, q, s, x, at) ==
    \/ /\ MGoto(u, at[1], at[2])
       /\ ring' = [ring EXCEPT ![q][s].buffer[ring[q][s].write] = x]
       /\ UNCHANGED loaded
    \/ /\ MGoto(u, at[2], at[3])
       /\ loaded' = [loaded EXCEPT ![u] = ring[q][s].write]
       /\ UNCHANGED ring
    \/ /\ MGoto(u, at[3], at[4])
       /\ ring' = [ring EXCEPT ![q][s].write = (loaded[u] + 1) % L]
       /\ loaded' = [loaded EXCEPT ![u] = 0]

(* removee yields a pointer to the slot, which is followed when it is used. *)
removee(t, q, s) ==
    /\ p' = [p EXCEPT ![t] = ring[q][s].read]
    /\ ring' = [ring EXCEPT ![q][s].read = (@ + 1) % L]
Pointed(t, q) == ring[q][mStation[t]].buffer[p[t]]

-----------------------------------------------------------------------------
(* passenger_work *)

Start(x) == journey[x].starting_station

Passenger(x) == <<"passenger", x>>

(* Waits that follow one another are one step, and so are posts. *)
WaitEmptyAndMeP(x) ==
    /\ MGoto(Passenger(x), "empty", "insert")
    /\ Wait(empty, Start(x))
    /\ WaitMe("P", Start(x))
    /\ UNCHANGED <<ring, full, red_semaphore, num_passenger_per_station, pipe_station,
                   sem_get_off, journey, train, loaded>>

Enqueue(x) ==
    /\ insert(Passenger(x), "wait", Start(x), x,
              <<"insert", "insert_load", "insert_store", "post_meP">>)
    /\ UNCHANGED <<counters, red_semaphore, num_passenger_per_station, pipe_station,
                   sem_get_off, journey, train>>

PostMePAndFull(x) ==
    /\ MGoto(Passenger(x), "post_meP", "get_off")
    /\ PostMe("P", Start(x))
    /\ Post(full, Start(x))
    /\ UNCHANGED <<ring, empty, red_semaphore, num_passenger_per_station, pipe_station,
                   sem_get_off, journey, train, loaded>>

WaitGetOff(x) ==
    /\ MGoto(Passenger(x), "get_off", "arrived")
    /\ Wait(sem_get_off, x)
    /\ UNCHANGED <<ring, counters, red_semaphore, num_passenger_per_station, pipe_station, journey,
                   train, loaded>>

passenger_work(x) == WaitEmptyAndMeP(x) \/ Enqueue(x) \/ PostMePAndFull(x) \/ WaitGetOff(x)

-----------------------------------------------------------------------------
(* train_work *)

T(t) == <<"train", t>>
Here(t) == mStation[t]

MArrive(t) ==
    /\ MGoto(T(t), "red", "unload")
    /\ Wait(red_semaphore, Here(t))
    /\ free_sit' = [free_sit EXCEPT ![t] = 0]
    /\ i' = [i EXCEPT ![t] = 0]
    /\ UNCHANGED <<ring, counters, num_passenger_per_station, pipe_station, sem_get_off, journey,
                   mStation, capacity, busy_sit, p, loaded>>

Unload(t) ==
    /\ i[t] < num_passenger_per_station[Here(t)]
    /\ MGoto(T(t), "unload", "get_off")
    /\ removee(t, "on_train", Here(t))
    /\ UNCHANGED <<counters, red_semaphore, num_passenger_per_station, pipe_station,
                   sem_get_off, journey, mStation, capacity, busy_sit, free_sit, i, loaded>>

(* A slot nobody has filled holds a null sem_get_off: the process dies. *)
GetOff(t) ==
    /\ \/ /\ MGoto(T(t), "get_off", "unload")
          /\ Pointed(t, "on_train") # Nobody
          /\ Post(sem_get_off, Pointed(t, "on_train"))
       \/ /\ mPc[T(t)] = "get_off"
          /\ Pointed(t, "on_train") = Nobody
          /\ mPc' = [u \in MThreads |-> "crashed"]
          /\ UNCHANGED sem_get_off
    /\ free_sit' = [free_sit EXCEPT ![t] = @ + 1]
    /\ i' = [i EXCEPT ![t] = @ + 1]
    /\ p' = [p EXCEPT ![t] = 0]
    /\ UNCHANGED <<ring, counters, red_semaphore, num_passenger_per_station, pipe_station,
                   journey, mStation, capacity, busy_sit, loaded>>

(* Between the test that ends the loop and the reset another train may count a
   passenger, who is then forgotten. *)
AllUnloaded(t) ==
    /\ i[t] >= num_passenger_per_station[Here(t)]
    /\ MGoto(T(t), "unload", "reset")
    /\ UNCHANGED <<ring, counters, red_semaphore, num_passenger_per_station, pipe_station,
                   sem_get_off, journey, train, loaded>>

ResetNum(t) ==
    /\ MGoto(T(t), "reset", "load")
    /\ num_passenger_per_station' = [num_passenger_per_station EXCEPT ![Here(t)] = 0]
    /\ capacity' = [capacity EXCEPT ![t] = @ + free_sit[t]]
    /\ free_sit' = [free_sit EXCEPT ![t] = 0]
    /\ busy_sit' = [busy_sit EXCEPT ![t] = 0]
    /\ i' = [i EXCEPT ![t] = 0]
    /\ UNCHANGED <<ring, counters, red_semaphore, pipe_station, sem_get_off, journey, mStation, p,
                   loaded>>

WaitFullNot(t) ==
    /\ i[t] < capacity[t]
    /\ MGoto(T(t), "load", "meC")
    /\ UNCHANGED <<ring, counters, red_semaphore, num_passenger_per_station, pipe_station,
                   sem_get_off, journey, train, loaded>>
(* sem_timedwait: a passenger is there, or none comes within T_MAX seconds *)
WaitFull(t) ==
    /\ i[t] < capacity[t]
    /\ MGoto(T(t), "load", "meC")
    /\ Wait(full, Here(t))
    /\ UNCHANGED <<ring, empty, me, red_semaphore, num_passenger_per_station, pipe_station,
                   sem_get_off, journey, train, loaded>>

LoadEnds(t) ==
    /\ i[t] >= capacity[t] \/ full[Here(t)] = 0
    /\ MGoto(T(t), "load", "write_1")
    /\ capacity' = [capacity EXCEPT ![t] = @ - busy_sit[t]]
    /\ busy_sit' = [busy_sit EXCEPT ![t] = 0] /\ i' = [i EXCEPT ![t] = 0]
    /\ UNCHANGED <<ring, counters, red_semaphore, num_passenger_per_station, pipe_station,
                   sem_get_off, journey, mStation, free_sit, p, loaded>>

(* meC is only ever wanted by the train that holds the station: taking it and
   the slot is one step, and so are the two posts that follow. *)
TakeWaiting(t) ==
    /\ MGoto(T(t), "meC", "board")
    /\ WaitMe("C", Here(t))
    /\ removee(t, "wait", Here(t))
    /\ UNCHANGED <<full, empty, red_semaphore, num_passenger_per_station, pipe_station,
                   sem_get_off, journey, mStation, capacity, busy_sit, free_sit, i, loaded>>

(* p->arrival_station; the station's meC guards the ring of another station *)
DestinationSwapped(t) == journey[Pointed(t, "wait")].starting_station
Destination(t) == journey[Pointed(t, "wait")].arrival_station
Board(t) ==
    /\ insert(T(t), "on_train", Destination(t), Pointed(t, "wait"),
              <<"board", "board_load", "board_store", "post_meC">>)
    /\ UNCHANGED <<counters, red_semaphore, num_passenger_per_station, pipe_station,
                   sem_get_off, journey, train>>

UnlockRings(t) ==
    /\ MGoto(T(t), "post_meC", "num")
    /\ PostMe("C", Here(t))
    /\ Post(empty, Here(t))
    /\ UNCHANGED <<ring, full, red_semaphore, num_passenger_per_station, pipe_station,
                   sem_get_off, journey, train, loaded>>

(* num_passenger_per_station[...]++ with no lock *)
LoadNum(t) ==
    /\ MGoto(T(t), "num", "num_store")
    /\ loaded' = [loaded EXCEPT ![T(t)] = num_passenger_per_station[Destination(t)]]
    /\ UNCHANGED <<ring, counters, red_semaphore, num_passenger_per_station, pipe_station,
                   sem_get_off, journey, train>>

StoreNum(t) ==
    /\ MGoto(T(t), "num_store", "load")
    /\ num_passenger_per_station' =
          [num_passenger_per_station EXCEPT ![Destination(t)] = loaded[T(t)] + 1]
    /\ loaded' = [loaded EXCEPT ![T(t)] = 0]
    /\ p' = [p EXCEPT ![t] = 0]
    /\ busy_sit' = [busy_sit EXCEPT ![t] = @ + 1]
    /\ i' = [i EXCEPT ![t] = @ + 1]
    /\ UNCHANGED <<ring, counters, red_semaphore, pipe_station, sem_get_off, journey, mStation,
                   capacity, free_sit>>

(* station_work reads three words, prints a line and starts again.  It is the
   only reader of its pipe, the pipe never fills, and what it reads nobody else
   looks at: its reads are counted as soon as the words are written. *)
station_work(words, word) == IF Len(words) = 2 THEN <<>> ELSE Append(words, word)

(* The log line, read from the first ring and written to a file, changes no
   state.  The station is left after the three writes. *)
WriteReport(t) ==
    /\ \E k \in 1 .. 3 : MGoto(T(t), <<"write_1", "write_2", "write_3">>[k],
                                   <<"write_2", "write_3", "post_red">>[k])
    /\ pipe_station' = [pipe_station EXCEPT ![Here(t)] = station_work(@, t)]
    /\ UNCHANGED <<ring, counters, red_semaphore, num_passenger_per_station, sem_get_off,
                   journey, train, loaded>>

LeaveBeforeReport(t) ==
    /\ MGoto(T(t), "write_3", "red")
    /\ Post(red_semaphore, Here(t))
    /\ mStation' = [mStation EXCEPT ![t] = IF @ + 1 >= N_STATION - 1 THEN 0 ELSE @ + 1]
    /\ UNCHANGED <<ring, counters, num_passenger_per_station, pipe_station, sem_get_off, journey,
                   capacity, busy_sit, free_sit, i, p, loaded>>
(* The wrap leaves the last station out. *)
Leave(t) ==
    /\ MGoto(T(t), "post_red", "red")
    /\ Post(red_semaphore, Here(t))
    /\ mStation' = [mStation EXCEPT ![t] = IF @ + 1 >= N_STATION - 1 THEN 0 ELSE @ + 1]
    /\ UNCHANGED <<ring, counters, num_passenger_per_station, pipe_station, sem_get_off, journey,
                   capacity, busy_sit, free_sit, i, p, loaded>>

train_work(t) ==
    \/ MArrive(t) \/ Unload(t) \/ GetOff(t) \/ AllUnloaded(t) \/ ResetNum(t) \/ WaitFull(t)
    \/ LoadEnds(t) \/ TakeWaiting(t) \/ Board(t) \/ UnlockRings(t) \/ LoadNum(t)
    \/ StoreNum(t) \/ WriteReport(t) \/ Leave(t)

-----------------------------------------------------------------------------
MNext ==
    \/ \E t \in MetroTrains : train_work(t)
    \/ \E x \in Passengers : passenger_work(x)

MSpec == MInit /\ [][MNext]_mVars

-----------------------------------------------------------------------------
(* Properties *)

Crashed == \E u \in MThreads : mPc[u] = "crashed"
At(u, labels) == mPc[u] \in labels
Entering(s) == {x \in Passengers : Start(x) = s /\ At(Passenger(x), {"post_meP"})}
Taking(s) == {t \in MetroTrains : mStation[t] = s /\ At(T(t), {"meC"})}

(* The waiting ring of a station holds as many passengers who start there as
   full and the threads under way say, none of them twice: no train takes a slot
   that is empty, stale or half filled. *)
WaitingRing ==
    \A s \in MStations :
        LET q == ring["wait"][s]
            n == full[s] + Cardinality(Taking(s)) + Cardinality(Entering(s))
            waiting == {q.buffer[(q.read + k) % L] : k \in 0 .. n - 1}
        IN  Crashed \/ /\ q.write = (q.read + n) % L
                       /\ Cardinality(waiting) = n
                       /\ \A x \in waiting : x # Nobody /\ Start(x) = s

(* A report reaches the station whole: the words it is in the middle of are
   those that the train which stands there has written, and nobody else's. *)
ReportsWhole ==
    /\ \A t \in MetroTrains :
          /\ At(T(t), {"write_2"}) => pipe_station[mStation[t]] = <<t>>
          /\ At(T(t), {"write_3"}) => pipe_station[mStation[t]] = <<t, t>>
    /\ \A s \in MStations : pipe_station[s] # <<>> =>
          Crashed \/ \E t \in MetroTrains : mStation[t] = s /\ At(T(t), {"write_2", "write_3"})

(* From the ring of those who wait to the count of his arrival station *)
Boarding == {"board", "board_load", "board_store", "post_meC", "num", "num_store"}

(* Passengers get on and off as they mean to.  Whom a train has taken out of the
   ring of those who wait stays the same under its hands until it has counted
   him, though it follows a pointer into the ring that others go on filling.  And
   who is told to get off has been let in, and is in the station he is bound for,
   though two trains may fill one ring together, count a passenger too many or
   too few, and read a slot again that has been read before. *)
AlightWhereBound ==
    [][/\ \A t \in MetroTrains :
             At(T(t), Boarding) /\ At(T(t), Boarding)' => Pointed(t, "wait")' = Pointed(t, "wait")
       /\ \A x \in Passengers : sem_get_off'[x] > sem_get_off[x] =>
             /\ At(Passenger(x), {"get_off", "arrived"})
             /\ \E t \in MetroTrains :
                   mStation[t] = journey[x].arrival_station /\ At(T(t), {"get_off"})]_mVars
=============================================================================
