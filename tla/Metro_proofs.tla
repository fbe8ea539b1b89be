---------------------------- MODULE Metro_proofs ----------------------------
(* The trains of EXAMS/2017-07-17/main.c for any number of stations, trains   *)
(* and passengers: a station reads whole reports, the ring of those who wait  *)
(* holds whom the semaphores count, and nobody is told to get off elsewhere   *)
(* than where the journey ends.                                               *)
EXTENDS Metro, FiniteSetTheorems, FunctionTheorems, SequenceTheorems, TLAPS

Slots == 0 .. L - 1
Ids == Passengers \cup {Nobody}
Rings == [buffer : [Slots -> Ids], read : Slots, write : Slots]

(* The states before and after the one step in which GetOff kills the process. *)
Alive == \A u \in MThreads : mPc[u] # "crashed"
Dead == \A u \in MThreads : mPc[u] = "crashed"

Typed ==
    /\ ring \in [{"wait", "on_train"} -> [MStations -> Rings]]
    /\ full \in [MStations -> Nat]
    /\ me \in [{"P", "C"} -> [MStations -> Nat]] /\ \A s \in MStations : me["P"][s] \in {0, 1}
    /\ red_semaphore \in [MStations -> {0, 1}]
    /\ pipe_station \in [MStations -> Seq(MetroTrains)]
    /\ journey \in [Passengers -> [starting_station : MStations, arrival_station : MStations]]
    /\ mStation \in [MetroTrains -> MStations]
    /\ p \in [MetroTrains -> Slots]
    /\ loaded \in [MThreads -> Nat]
    /\ num_passenger_per_station \in [MStations -> Nat]
    /\ mPc = [u \in MThreads |-> mPc[u]]

(* A train that is past its red light stands in its station, alone there.     *)
Standing(t) == mPc[T(t)] # "red"
OneStands ==
    /\ \A t \in MetroTrains : Standing(t) => red_semaphore[mStation[t]] = 0
    /\ \A t, u \in MetroTrains : Standing(t) /\ Standing(u) /\ mStation[t] = mStation[u] => t = u

(* A passenger who is putting himself into a ring holds the meP of his station. *)
Inserting(x) == mPc[Passenger(x)] \in {"insert", "insert_load", "insert_store", "post_meP"}
OneInserts ==
    /\ \A x \in Passengers : Inserting(x) => me["P"][Start(x)] = 0
    /\ \A x, y \in Passengers : Inserting(x) /\ Inserting(y) /\ Start(x) = Start(y) => x = y

(* The passengers who have been put into the ring of a station, ever, and how
   many of them no train has taken out: the ring is filled only once.         *)
Inside(s) ==
    {x \in Passengers : Start(x) = s /\ mPc[Passenger(x)] \in {"post_meP", "get_off", "arrived"}}
Number(s) == Cardinality(Inside(s))
Waiting(s) == full[s] + Cardinality(Taking(s)) + Cardinality(Entering(s))
Index(n) == IF n = L THEN 0 ELSE n

RingHolds(s) ==
    LET q == ring["wait"][s] IN
    /\ Waiting(s) <= Number(s)
    /\ q.write = Index(Number(s)) /\ q.read = Index(Number(s) - Waiting(s))
    /\ \A k \in 0 .. Number(s) - 1 : q.buffer[k] \in Inside(s)
    /\ \A j, k \in 0 .. Number(s) - 1 : q.buffer[j] = q.buffer[k] => j = k

(* The insert of a passenger, half done and done: his is the last slot filled
   until the next one has meP.                                                *)
HalfIn(x) ==
    /\ mPc[Passenger(x)] \in {"insert_load", "insert_store"} =>
           ring["wait"][Start(x)].buffer[Number(Start(x))] = x
    /\ mPc[Passenger(x)] = "insert_store" => loaded[Passenger(x)] = Number(Start(x))
    /\ mPc[Passenger(x)] = "post_meP" => ring["wait"][Start(x)].buffer[Number(Start(x)) - 1] = x

(* The slot a train points at while it moves a passenger has been filled. *)
Moving(t) == mPc[T(t)] \in {"board", "board_load", "board_store", "post_meC", "num", "num_store"}
PointsInside == \A t \in MetroTrains : Moving(t) => p[t] < Number(mStation[t])

(* One who has given meP back waits for his arrival, or has arrived.           *)
Within == {"get_off", "arrived"}
LetIn(x) == mPc[Passenger(x)] \in Within
Settled == \A t \in MetroTrains : Moving(t) => LetIn(Pointed(t, "wait"))

(* Who is in the ring of an arrival station has been let in and wants to go there. *)
BoundFor ==
    \A s \in MStations : \A k \in Slots :
        LET x == ring["on_train"][s].buffer[k]
        IN  x # Nobody => x \in Passengers /\ LetIn(x) /\ journey[x].arrival_station = s

Working ==
    /\ Alive /\ OneStands /\ OneInserts /\ ReportsWhole
    /\ \A s \in MStations : RingHolds(s)
    /\ \A x \in Passengers : HalfIn(x)
    /\ PointsInside /\ Settled /\ BoundFor

IInv == Typed /\ (Dead \/ Working)

-----------------------------------------------------------------------------
(* Numbers, threads and moves *)

(* There is a slot per passenger, and an index goes round them.               *)
LEMMA RingSize ==
    ASSUME MetroAssumption
    PROVE  /\ L \in Nat \ {0} /\ Slots = 0 .. L - 1 /\ 0 \in Slots
           /\ \A n \in Nat : n % L \in Slots
           /\ \A k \in Slots : (k + 1) % L = IF k + 1 = L THEN 0 ELSE k + 1
<1>1. L \in Nat \ {0}
  BY FS_CardinalityType, FS_EmptySet DEF MetroAssumption, L
<1> HIDE DEF L
<1>2. \A n \in Nat : n % L \in 0 .. L - 1
  BY <1>1
<1>3. \A k \in 0 .. L - 1 : (k + 1) % L = IF k + 1 = L THEN 0 ELSE k + 1
  BY <1>1
<1> QED BY <1>1, <1>2, <1>3 DEF Slots

(* The trains and the passengers are threads, all of them different.          *)
LEMMA Names ==
    /\ \A t \in MetroTrains : T(t) \in MThreads
    /\ \A x \in Passengers : Passenger(x) \in MThreads
    /\ \A t, u \in MetroTrains : T(t) = T(u) => t = u
    /\ \A x, y \in Passengers : Passenger(x) = Passenger(y) => x = y
    /\ \A t \in MetroTrains, x \in Passengers : T(t) # Passenger(x)
BY DEF MThreads, T, Passenger

(* Thread u goes on, and no other thread.                                     *)
Moves(u, from, to) ==
    /\ mPc[u] = from /\ mPc'[u] = to
    /\ \A v \in MThreads \ {u} : mPc'[v] = mPc[v]
    /\ mPc' = [v \in MThreads |-> mPc'[v]]

LEMMA GotoMoves ==
    ASSUME Typed, NEW u \in MThreads, NEW from, NEW to, MGoto(u, from, to)
    PROVE  Moves(u, from, to)
BY DEF Typed, MGoto, Moves

(* What the move of a train, and that of a passenger, leave alone.            *)
LEMMA TrainMoves ==
    ASSUME NEW t \in MetroTrains, NEW from, NEW to, Moves(T(t), from, to), journey' = journey
    PROVE  /\ mPc[T(t)] = from /\ mPc'[T(t)] = to
           /\ \A u \in MetroTrains \ {t} : mPc'[T(u)] = mPc[T(u)]
           /\ \A x \in Passengers : mPc'[Passenger(x)] = mPc[Passenger(x)]
           /\ \A s \in MStations : Inside(s)' = Inside(s) /\ Entering(s)' = Entering(s)
<1>1. /\ mPc[T(t)] = from /\ mPc'[T(t)] = to
      /\ \A u \in MetroTrains \ {t} : mPc'[T(u)] = mPc[T(u)]
      /\ \A x \in Passengers : mPc'[Passenger(x)] = mPc[Passenger(x)]
  BY Names DEF Moves
<1>2. \A x \in Passengers : Start(x)' = Start(x)
  BY DEF Start
<1> QED BY <1>1, <1>2 DEF Inside, Entering, At

LEMMA PassengerMoves ==
    ASSUME NEW x \in Passengers, NEW from, NEW to, Moves(Passenger(x), from, to),
           journey' = journey, mStation' = mStation
    PROVE  /\ mPc[Passenger(x)] = from /\ mPc'[Passenger(x)] = to
           /\ \A y \in Passengers \ {x} : mPc'[Passenger(y)] = mPc[Passenger(y)]
           /\ \A t \in MetroTrains : mPc'[T(t)] = mPc[T(t)]
           /\ \A s \in MStations : Taking(s)' = Taking(s)
           /\ \A s \in MStations : Inside(s)' =
                IF /\ s = Start(x) /\ to \in {"post_meP", "get_off", "arrived"}
                  THEN Inside(s) \cup {x}
                  ELSE IF s = Start(x) THEN Inside(s) \ {x} ELSE Inside(s)
           /\ \A s \in MStations : Entering(s)' =
                IF s = Start(x) /\ to = "post_meP"
                  THEN Entering(s) \cup {x}
                  ELSE IF s = Start(x) THEN Entering(s) \ {x} ELSE Entering(s)
<1>1. /\ mPc[Passenger(x)] = from /\ mPc'[Passenger(x)] = to
      /\ \A y \in Passengers \ {x} : mPc'[Passenger(y)] = mPc[Passenger(y)]
      /\ \A t \in MetroTrains : mPc'[T(t)] = mPc[T(t)]
  BY Names DEF Moves
<1>2. \A y \in Passengers : Start(y)' = Start(y)
  BY DEF Start
<1>3. \A s \in MStations : Taking(s)' = Taking(s)
  BY <1>1 DEF Taking, At
<1>4. \A s \in MStations : Inside(s)' =
                IF /\ s = Start(x) /\ to \in {"post_meP", "get_off", "arrived"}
                  THEN Inside(s) \cup {x}
                  ELSE IF s = Start(x) THEN Inside(s) \ {x} ELSE Inside(s)
  BY <1>1, <1>2 DEF Inside
<1>5. \A s \in MStations : Entering(s)' =
                IF s = Start(x) /\ to = "post_meP"
                  THEN Entering(s) \cup {x}
                  ELSE IF s = Start(x) THEN Entering(s) \ {x} ELSE Entering(s)
  BY <1>1, <1>2 DEF Entering, At
<1> QED BY <1>1, <1>3, <1>4, <1>5

(* The sets that are counted are finite.                                      *)
LEMMA Finite ==
    ASSUME MetroAssumption, Typed, NEW s \in MStations
    PROVE  /\ IsFiniteSet(Inside(s)) /\ IsFiniteSet(Entering(s)) /\ IsFiniteSet(Taking(s))
           /\ Number(s) \in 0 .. L /\ Waiting(s) \in Nat /\ L \in Nat \ {0}
           /\ \A x \in Passengers : x \notin Inside(s) => Number(s) < L
<1>1. IsFiniteSet(Passengers) /\ Inside(s) \in SUBSET Passengers
      /\ Entering(s) \in SUBSET Passengers
  BY DEF MetroAssumption, Inside, Entering
<1>2. IsFiniteSet(MetroTrains) /\ Taking(s) \in SUBSET MetroTrains
  BY FS_Interval DEF MetroAssumption, MetroTrains, Taking
<1>3. IsFiniteSet(Inside(s)) /\ IsFiniteSet(Entering(s)) /\ IsFiniteSet(Taking(s))
  BY <1>1, <1>2, FS_Subset
<1>4. /\ Number(s) \in Nat /\ Number(s) <= L /\ L \in Nat \ {0}
      /\ Number(s) = L => Inside(s) = Passengers
  BY <1>1, <1>3, FS_Subset, FS_CardinalityType, RingSize DEF Number, L
<1>5. full[s] \in Nat /\ Cardinality(Taking(s)) \in Nat /\ Cardinality(Entering(s)) \in Nat
  BY <1>3, FS_CardinalityType DEF Typed
<1> QED BY <1>3, <1>4, <1>5 DEF Waiting

-----------------------------------------------------------------------------
(* Changes of a ring *)

RingMap == [{"wait", "on_train"} -> [MStations -> Rings]]

LEMMA IndexRead ==
    ASSUME ring \in RingMap, NEW q \in {"wait", "on_train"}, NEW s \in MStations,
           NEW k \in Slots, ring' = [ring EXCEPT ![q][s].read = k]
    PROVE  /\ ring' \in RingMap
           /\ \A r \in {"wait", "on_train"}, u \in MStations :
                 r # q \/ u # s => ring'[r][u] = ring[r][u]
           /\ ring'[q][s].read = k /\ ring'[q][s].write = ring[q][s].write
           /\ ring'[q][s].buffer = ring[q][s].buffer
<1> DEFINE S == ring[q][s]
           S2 == [S EXCEPT !.read = k]
<1>1. S \in Rings
  BY DEF RingMap
<1>2. /\ S2 \in Rings /\ S2.read = k /\ S2.write = S.write /\ S2.buffer = S.buffer
  <2> HIDE DEF S
  <2> QED BY <1>1 DEF Rings
<1>3. ring' = [ring EXCEPT ![q] = [ring[q] EXCEPT ![s] = S2]]
  BY DEF RingMap
<1> HIDE DEF S2
<1>4. ring' \in RingMap /\ ring'[q][s] = S2
  BY <1>2, <1>3 DEF RingMap
<1>5. \A r \in {"wait", "on_train"}, u \in MStations : r # q \/ u # s => ring'[r][u] = ring[r][u]
  BY <1>3 DEF RingMap
<1> QED BY <1>2, <1>4, <1>5 DEF S

LEMMA IndexWritten ==
    ASSUME ring \in RingMap, NEW q \in {"wait", "on_train"}, NEW s \in MStations,
           NEW k \in Slots, ring' = [ring EXCEPT ![q][s].write = k]
    PROVE  /\ ring' \in RingMap
           /\ \A r \in {"wait", "on_train"}, u \in MStations :
                 r # q \/ u # s => ring'[r][u] = ring[r][u]
           /\ ring'[q][s].read = ring[q][s].read /\ ring'[q][s].write = k
           /\ ring'[q][s].buffer = ring[q][s].buffer
<1> DEFINE S == ring[q][s]
           S2 == [S EXCEPT !.write = k]
<1>1. S \in Rings
  BY DEF RingMap
<1>2. /\ S2 \in Rings /\ S2.write = k /\ S2.read = S.read /\ S2.buffer = S.buffer
  <2> HIDE DEF S
  <2> QED BY <1>1 DEF Rings
<1>3. ring' = [ring EXCEPT ![q] = [ring[q] EXCEPT ![s] = S2]]
  BY DEF RingMap
<1> HIDE DEF S2
<1>4. ring' \in RingMap /\ ring'[q][s] = S2
  BY <1>2, <1>3 DEF RingMap
<1>5. \A r \in {"wait", "on_train"}, u \in MStations : r # q \/ u # s => ring'[r][u] = ring[r][u]
  BY <1>3 DEF RingMap
<1> QED BY <1>2, <1>4, <1>5 DEF S

(* removee *)
LEMMA RemoveeReads ==
    ASSUME MetroAssumption, Typed, NEW t \in MetroTrains, NEW q \in {"wait", "on_train"},
           NEW s \in MStations, removee(t, q, s)
    PROVE  /\ ring' \in RingMap /\ p' \in [MetroTrains -> Slots]
           /\ p'[t] = ring[q][s].read /\ \A u \in MetroTrains \ {t} : p'[u] = p[u]
           /\ \A r \in {"wait", "on_train"}, u \in MStations :
                 r # q \/ u # s => ring'[r][u] = ring[r][u]
           /\ ring'[q][s].read = (ring[q][s].read + 1) % L
           /\ ring'[q][s].write = ring[q][s].write /\ ring'[q][s].buffer = ring[q][s].buffer
<1>1. ring \in RingMap /\ ring[q][s].read \in Slots /\ p \in [MetroTrains -> Slots]
  BY DEF Typed, RingMap, Rings
<1> DEFINE next == (ring[q][s].read + 1) % L
<1>2. next \in Slots
  <2>1. ring[q][s].read + 1 \in Nat
    <3>1. Slots \subseteq Nat
      BY RingSize
    <3>2. ring[q][s].read \in Nat
      BY <1>1, <3>1
    <3> QED BY <3>2
  <2> QED BY <2>1, RingSize
<1>3. ring' = [ring EXCEPT ![q][s].read = next]
  BY <1>1 DEF removee, RingMap, Rings
<1>4. p' = [p EXCEPT ![t] = ring[q][s].read]
  BY DEF removee
<1>5. /\ p' \in [MetroTrains -> Slots] /\ p'[t] = ring[q][s].read
      /\ \A u \in MetroTrains \ {t} : p'[u] = p[u]
  BY <1>1, <1>4
<1> HIDE DEF next
<1>6. /\ ring' \in RingMap
      /\ \A r \in {"wait", "on_train"}, u \in MStations :
            r # q \/ u # s => ring'[r][u] = ring[r][u]
      /\ ring'[q][s].read = next /\ ring'[q][s].write = ring[q][s].write
      /\ ring'[q][s].buffer = ring[q][s].buffer
  BY <1>1, <1>2, <1>3, IndexRead
<1> QED BY <1>5, <1>6 DEF next

(* insert *)
LEMMA InsertSteps ==
    ASSUME MetroAssumption, Typed, NEW u \in MThreads, NEW q \in {"wait", "on_train"},
           NEW s \in MStations, NEW x \in Ids,
           NEW a, NEW b, NEW c, NEW d,
           insert(u, q, s, x, <<a, b, c, d>>)
    PROVE  /\ ring' \in RingMap /\ loaded' \in [MThreads -> Nat]
           /\ \A r \in {"wait", "on_train"}, v \in MStations :
                 r # q \/ v # s => ring'[r][v] = ring[r][v]
           /\ ring'[q][s].read = ring[q][s].read
           /\ \A v \in MThreads \ {u} : loaded'[v] = loaded[v]
           /\ \/ /\ Moves(u, a, b) /\ ring'[q][s].write = ring[q][s].write
                 /\ ring'[q][s].buffer[ring[q][s].write] = x
                 /\ \A j \in Slots \ {ring[q][s].write} :
                       ring'[q][s].buffer[j] = ring[q][s].buffer[j]
              \/ /\ Moves(u, b, c) /\ ring'[q][s] = ring[q][s]
                 /\ loaded'[u] = ring[q][s].write
              \/ /\ Moves(u, c, d) /\ ring'[q][s].buffer = ring[q][s].buffer
                 /\ ring'[q][s].write = (loaded[u] + 1) % L
<1>1. /\ ring \in RingMap /\ ring[q][s].write \in Slots /\ loaded \in [MThreads -> Nat]
      /\ Slots \subseteq Nat /\ loaded[u] \in Nat
  <2>1. ring \in RingMap /\ ring[q][s].write \in Slots /\ loaded \in [MThreads -> Nat]
    BY DEF Typed, RingMap, Rings
  <2>2. Slots \subseteq Nat
    BY RingSize
  <2> QED BY <2>1, <2>2
<1>2. CASE MGoto(u, a, b) /\ ring' = [ring EXCEPT ![q][s].buffer[ring[q][s].write] = x]
           /\ loaded' = loaded
  <2> DEFINE w == ring[q][s].write
  <2>1. w \in Slots /\ ring' = [ring EXCEPT ![q][s].buffer[w] = x]
    BY <1>1, <1>2
  <2>2. Moves(u, a, b)
    BY <1>2, GotoMoves
  <2> DEFINE S == ring[q][s]
             S2 == [S EXCEPT !.buffer[w] = x]
  <2>3. S \in Rings
    BY <1>1 DEF RingMap
  <2>4. /\ S2 \in Rings /\ S2.read = S.read /\ S2.write = S.write /\ S2.buffer[w] = x
        /\ \A j \in Slots \ {w} : S2.buffer[j] = S.buffer[j]
    <3> HIDE DEF S, w
    <3> QED BY <2>1, <2>3 DEF Rings
  <2>5. ring' = [ring EXCEPT ![q] = [ring[q] EXCEPT ![s] = S2]]
    BY <1>1, <2>1 DEF RingMap
  <2> HIDE DEF S2
  <2>6. ring' \in RingMap /\ ring'[q][s] = S2
    BY <1>1, <2>4, <2>5 DEF RingMap
  <2>7. \A r \in {"wait", "on_train"}, v \in MStations :
           r # q \/ v # s => ring'[r][v] = ring[r][v]
    BY <1>1, <2>5 DEF RingMap
  <2> QED BY <1>1, <1>2, <2>2, <2>4, <2>6, <2>7
<1>3. CASE MGoto(u, b, c) /\ loaded' = [loaded EXCEPT ![u] = ring[q][s].write] /\ ring' = ring
  BY <1>1, <1>3, GotoMoves
<1>4. CASE /\ MGoto(u, c, d) /\ ring' = [ring EXCEPT ![q][s].write = (loaded[u] + 1) % L]
           /\ loaded' = [loaded EXCEPT ![u] = 0]
  <2> DEFINE next == (loaded[u] + 1) % L
  <2>1. next \in Slots
    <3>1. loaded[u] + 1 \in Nat
      BY <1>1
    <3> QED BY <3>1, RingSize
  <2>2. ring' = [ring EXCEPT ![q][s].write = next]
    BY <1>4
  <2>3. loaded' \in [MThreads -> Nat] /\ \A v \in MThreads \ {u} : loaded'[v] = loaded[v]
    BY <1>1, <1>4
  <2>4. Moves(u, c, d)
    BY <1>4, GotoMoves
  <2> HIDE DEF next
  <2>5. /\ ring' \in RingMap
        /\ \A r \in {"wait", "on_train"}, v \in MStations :
              r # q \/ v # s => ring'[r][v] = ring[r][v]
        /\ ring'[q][s].read = ring[q][s].read /\ ring'[q][s].write = next
        /\ ring'[q][s].buffer = ring[q][s].buffer
    <3>1. ring \in RingMap
      BY <1>1
    <3> QED BY <3>1, <2>1, <2>2, IndexWritten
  <2> QED BY <2>3, <2>4, <2>5 DEF next
<1> QED BY <1>2, <1>3, <1>4 DEF insert

(* The slot a train points at holds a passenger who started in its station.   *)
LEMMA PointedAt ==
    ASSUME MetroAssumption, Typed, Working, NEW t \in MetroTrains, Moving(t)
    PROVE  /\ Pointed(t, "wait") \in Passengers /\ Pointed(t, "wait") \in Ids
           /\ Destination(t) \in MStations
           /\ journey[Pointed(t, "wait")].arrival_station = Destination(t)
<1>1. Typed /\ mStation[t] \in MStations /\ PointsInside /\ RingHolds(mStation[t])
  BY DEF Working, Typed
<1>2. p[t] \in 0 .. Number(mStation[t]) - 1
  <2>1. p[t] \in Slots /\ Slots = 0 .. L - 1 /\ L \in Nat
    BY <1>1, RingSize DEF Typed
  <2>2. p[t] < Number(mStation[t]) /\ Number(mStation[t]) \in 0 .. L
    BY <1>1, Finite DEF PointsInside
  <2> QED BY <2>1, <2>2
<1>3. Pointed(t, "wait") \in Inside(mStation[t])
  BY <1>1, <1>2 DEF RingHolds, Pointed
<1> QED BY <1>1, <1>3 DEF Inside, Destination, Typed, Ids

-----------------------------------------------------------------------------
(* Trains in stations, and their reports *)

Writing == {"write_1", "write_2", "write_3"}

(* Wrapping, the next station is a station.                                   *)
LEMMA NextStation ==
    ASSUME MetroAssumption, NEW k \in MStations
    PROVE  (IF k + 1 >= N_STATION - 1 THEN 0 ELSE k + 1) \in MStations
BY DEF MetroAssumption, MStations

(* What a train does to the red lights and to the pipes.                      *)
(* The crash changes nothing that is accounted for.                           *)
Dies ==
    /\ mPc' = [v \in MThreads |-> mPc'[v]]
    /\ UNCHANGED <<red_semaphore, mStation, pipe_station, full>>

LEMMA TrainStands ==
    ASSUME MetroAssumption, Typed, NEW t \in MetroTrains, train_work(t)
    PROVE  /\ journey' = journey
           /\ \/ Dead' /\ Dies
              \/ /\ Moves(T(t), "red", "unload") /\ red_semaphore[mStation[t]] > 0
                 /\ red_semaphore' = [red_semaphore EXCEPT ![mStation[t]] = @ - 1]
                 /\ mStation' = mStation /\ pipe_station' = pipe_station
              \/ /\ Moves(T(t), "post_red", "red")
                 /\ red_semaphore' = [red_semaphore EXCEPT ![mStation[t]] = @ + 1]
                 /\ \E k \in MStations : mStation' = [mStation EXCEPT ![t] = k]
                 /\ pipe_station' = pipe_station
              \/ /\ \/ Moves(T(t), "write_1", "write_2") \/ Moves(T(t), "write_2", "write_3")
                    \/ Moves(T(t), "write_3", "post_red")
                 /\ red_semaphore' = red_semaphore /\ mStation' = mStation
                 /\ pipe_station' =
                       [pipe_station EXCEPT ![mStation[t]] =
                             station_work(pipe_station[mStation[t]], t)]
              \/ \E from, to :
                    /\ Moves(T(t), from, to) /\ from \notin {"red"} \cup Writing
                    /\ to \notin {"red", "write_2", "write_3", "crashed"}
                    /\ red_semaphore' = red_semaphore /\ mStation' = mStation
                    /\ pipe_station' = pipe_station
<1> DEFINE Other == \E from, to :
                       /\ Moves(T(t), from, to) /\ from \notin {"red"} \cup Writing
                       /\ to \notin {"red", "write_2", "write_3", "crashed"}
                       /\ red_semaphore' = red_semaphore /\ mStation' = mStation
                       /\ pipe_station' = pipe_station
<1>1. T(t) \in MThreads /\ mStation[t] \in MStations /\ mStation \in [MetroTrains -> MStations]
  BY Names DEF Typed
<1>2. ASSUME NEW from, NEW to, MGoto(T(t), from, to), from \notin {"red"} \cup Writing,
             to \notin {"red", "write_2", "write_3", "crashed"},
             red_semaphore' = red_semaphore, mStation' = mStation, pipe_station' = pipe_station
      PROVE  Other
  <2>1. Moves(T(t), from, to)
    BY <1>1, <1>2, GotoMoves
  <2> QED BY <1>2, <2>1
<1>0. journey' = journey
  BY DEF train_work, MArrive, Unload, GetOff, AllUnloaded, ResetNum, WaitFull, LoadEnds,
         TakeWaiting, Board, UnlockRings, LoadNum, StoreNum, WriteReport, Leave
<1> SUFFICES
     \/ Dead' /\ Dies
     \/ /\ Moves(T(t), "red", "unload") /\ red_semaphore[mStation[t]] > 0
        /\ red_semaphore' = [red_semaphore EXCEPT ![mStation[t]] = @ - 1]
        /\ mStation' = mStation /\ pipe_station' = pipe_station
     \/ /\ Moves(T(t), "post_red", "red")
        /\ red_semaphore' = [red_semaphore EXCEPT ![mStation[t]] = @ + 1]
        /\ \E k \in MStations : mStation' = [mStation EXCEPT ![t] = k]
        /\ pipe_station' = pipe_station
     \/ /\ \/ Moves(T(t), "write_1", "write_2") \/ Moves(T(t), "write_2", "write_3")
           \/ Moves(T(t), "write_3", "post_red")
        /\ red_semaphore' = red_semaphore /\ mStation' = mStation
        /\ pipe_station' =
              [pipe_station EXCEPT ![mStation[t]] = station_work(pipe_station[mStation[t]], t)]
     \/ Other
  BY <1>0
<1> HIDE DEF Other
<1>3. CASE MArrive(t)
  <2>1. Moves(T(t), "red", "unload")
    BY <1>1, <1>3, GotoMoves DEF MArrive
  <2> QED BY <1>3, <2>1 DEF MArrive, Wait, Here
<1>4. CASE Leave(t)
  <2>1. Moves(T(t), "post_red", "red")
    BY <1>1, <1>4, GotoMoves DEF Leave
  <2> DEFINE next == IF mStation[t] + 1 >= N_STATION - 1 THEN 0 ELSE mStation[t] + 1
  <2>2. next \in MStations
    BY <1>1, NextStation
  <2>3. mStation' = [mStation EXCEPT ![t] = next]
    BY <1>1, <1>4 DEF Leave
  <2> HIDE DEF next
  <2> QED BY <1>4, <2>1, <2>2, <2>3 DEF Leave, Post, Here
<1>5. CASE WriteReport(t)
  <2>1. \/ MGoto(T(t), "write_1", "write_2") \/ MGoto(T(t), "write_2", "write_3")
        \/ MGoto(T(t), "write_3", "post_red")
    BY <1>5 DEF WriteReport
  <2>2. \/ Moves(T(t), "write_1", "write_2") \/ Moves(T(t), "write_2", "write_3")
        \/ Moves(T(t), "write_3", "post_red")
    BY <1>1, <2>1, GotoMoves
  <2>3. /\ journey' = journey /\ red_semaphore' = red_semaphore /\ mStation' = mStation
        /\ pipe_station' =
              [pipe_station EXCEPT ![mStation[t]] = station_work(pipe_station[mStation[t]], t)]
    <3>1. pipe_station \in [MStations -> Seq(MetroTrains)]
      BY DEF Typed
    <3> QED BY <1>1, <1>5, <3>1 DEF WriteReport, Here, train
  <2> QED BY <2>2, <2>3
<1>6. CASE Unload(t)
  <2> QED BY <1>2, <1>6 DEF Unload, Writing
<1>7. CASE GetOff(t)
  <2>1. (Dead' /\ Dies) \/ MGoto(T(t), "get_off", "unload")
    BY <1>7 DEF GetOff, Dead, Dies, counters
  <2> QED BY <1>2, <1>7, <2>1 DEF GetOff, Writing
<1>8. CASE AllUnloaded(t)
  BY <1>2, <1>8 DEF AllUnloaded, Writing, train
<1>16. CASE ResetNum(t)
  BY <1>2, <1>16 DEF ResetNum, Writing
<1>9. CASE WaitFull(t)
  BY <1>2, <1>9 DEF WaitFull, Writing, train
<1>10. CASE LoadEnds(t)
  BY <1>2, <1>10 DEF LoadEnds, Writing
<1>11. CASE TakeWaiting(t)
  BY <1>2, <1>11 DEF TakeWaiting, Writing
<1>12. CASE Board(t)
  <2>1. /\ journey' = journey /\ red_semaphore' = red_semaphore /\ mStation' = mStation
        /\ pipe_station' = pipe_station
        /\ \/ MGoto(T(t), "board", "board_load") \/ MGoto(T(t), "board_load", "board_store")
           \/ MGoto(T(t), "board_store", "post_meC")
    BY <1>12 DEF Board, insert, train
  <2>2. CASE MGoto(T(t), "board", "board_load")
    BY <1>2, <2>1, <2>2 DEF Writing
  <2>3. CASE MGoto(T(t), "board_load", "board_store")
    BY <1>2, <2>1, <2>3 DEF Writing
  <2>4. CASE MGoto(T(t), "board_store", "post_meC")
    BY <1>2, <2>1, <2>4 DEF Writing
  <2> QED BY <2>1, <2>2, <2>3, <2>4
<1>13. CASE UnlockRings(t)
  BY <1>2, <1>13 DEF UnlockRings, Writing, train
<1>14. CASE LoadNum(t)
  BY <1>2, <1>14 DEF LoadNum, Writing, train
<1>15. CASE StoreNum(t)
  BY <1>2, <1>15 DEF StoreNum, Writing
<1> QED BY <1>3, <1>4, <1>5, <1>6, <1>7, <1>8, <1>9, <1>10, <1>11, <1>12, <1>13, <1>14,
           <1>15, <1>16 DEF train_work

(* A train that enters finds nobody, and one that leaves was alone.           *)
LEMMA StandsKept ==
    ASSUME MetroAssumption, Typed, Working, NEW t \in MetroTrains, train_work(t), ~ Dead'
    PROVE  OneStands' /\ red_semaphore' \in [MStations -> {0, 1}]
<1>1. /\ mStation \in [MetroTrains -> MStations] /\ red_semaphore \in [MStations -> {0, 1}]
      /\ mStation[t] \in MStations /\ red_semaphore[mStation[t]] \in {0, 1} /\ journey' = journey
  BY TrainStands DEF Typed
<1>2. /\ \A u \in MetroTrains : mPc[T(u)] # "red" => red_semaphore[mStation[u]] = 0
      /\ \A u, v \in MetroTrains :
            mPc[T(u)] # "red" /\ mPc[T(v)] # "red" /\ mStation[u] = mStation[v] => u = v
  BY DEF Working, OneStands, Standing
<1>3. CASE /\ Moves(T(t), "red", "unload") /\ red_semaphore[mStation[t]] > 0
           /\ red_semaphore' = [red_semaphore EXCEPT ![mStation[t]] = @ - 1]
           /\ mStation' = mStation
  <2>1. mPc'[T(t)] = "unload" /\ \A u \in MetroTrains \ {t} : mPc'[T(u)] = mPc[T(u)]
    BY <1>1, <1>3, TrainMoves
  <2>2. red_semaphore[mStation[t]] = 1 /\ red_semaphore' = [red_semaphore EXCEPT ![mStation[t]] = 0]
    <3>1. red_semaphore[mStation[t]] = 1
      BY <1>1, <1>3
    <3> QED BY <1>1, <1>3, <3>1
  <2>3. \A u \in MetroTrains \ {t} : mPc[T(u)] # "red" => mStation[u] # mStation[t]
    BY <1>2, <2>2
  <2> QED BY <1>1, <1>2, <1>3, <2>1, <2>2, <2>3 DEF OneStands, Standing
<1>4. CASE /\ Moves(T(t), "post_red", "red")
           /\ red_semaphore' = [red_semaphore EXCEPT ![mStation[t]] = @ + 1]
           /\ \E k \in MStations : mStation' = [mStation EXCEPT ![t] = k]
  <2>1. /\ mPc[T(t)] = "post_red" /\ mPc'[T(t)] = "red"
        /\ \A u \in MetroTrains \ {t} : mPc'[T(u)] = mPc[T(u)]
    BY <1>1, <1>4, TrainMoves
  <2>2. red_semaphore' = [red_semaphore EXCEPT ![mStation[t]] = 1]
    <3>1. red_semaphore[mStation[t]] = 0
      BY <1>2, <2>1
    <3> QED BY <1>4, <3>1
  <2>3. \A u \in MetroTrains \ {t} : mStation'[u] = mStation[u]
    BY <1>1, <1>4
  <2>4. \A u \in MetroTrains \ {t} : mPc[T(u)] # "red" => mStation[u] # mStation[t]
    BY <1>2, <2>1
  <2> QED BY <1>1, <1>2, <2>1, <2>2, <2>3, <2>4 DEF OneStands, Standing
<1>5. CASE \E from, to : /\ Moves(T(t), from, to) /\ from # "red" /\ to # "red"
                         /\ red_semaphore' = red_semaphore /\ mStation' = mStation
  <2>1. /\ mPc[T(t)] # "red" /\ red_semaphore' = red_semaphore /\ mStation' = mStation
        /\ \A u \in MetroTrains \ {t} : mPc'[T(u)] = mPc[T(u)]
    BY <1>1, <1>5, TrainMoves
  <2> QED BY <1>1, <1>2, <2>1 DEF OneStands, Standing
<1> QED
  <2>1. CASE /\ \/ Moves(T(t), "write_1", "write_2") \/ Moves(T(t), "write_2", "write_3")
                \/ Moves(T(t), "write_3", "post_red")
             /\ red_semaphore' = red_semaphore /\ mStation' = mStation
    BY <1>5, <2>1
  <2>2. CASE \E from, to :
                /\ Moves(T(t), from, to) /\ from \notin {"red"} \cup Writing
                /\ to \notin {"red", "write_2", "write_3", "crashed"}
                /\ red_semaphore' = red_semaphore /\ mStation' = mStation
    BY <1>5, <2>2
  <2> QED BY <1>3, <1>4, <2>1, <2>2, TrainStands

(* The words of a report that is one, and two, words long.                    *)
One(t) == <<t>>
Two(t) == <<t, t>>

LEMMA ReportGrows ==
    ASSUME NEW t \in MetroTrains
    PROVE  /\ station_work(<<>>, t) = One(t) /\ station_work(One(t), t) = Two(t)
           /\ station_work(Two(t), t) = <<>>
           /\ One(t) \in Seq(MetroTrains) /\ Two(t) \in Seq(MetroTrains)
           /\ <<>> \in Seq(MetroTrains)
<1>1. Len(<<>>) = 0 /\ Append(<<>>, t) = <<t>>
  OBVIOUS
<1>2. Len(<<t>>) = 1
  OBVIOUS
<1>4. Append(<<t>>, t) = <<t, t>>
  <2>1. <<t>> \in Seq(MetroTrains)
    OBVIOUS
  <2>2. /\ Append(<<t>>, t) \in Seq(MetroTrains) /\ Len(Append(<<t>>, t)) = 2
        /\ Append(<<t>>, t)[1] = t /\ Append(<<t>>, t)[2] = t
    BY <1>2, <2>1, AppendProperties
  <2>3. <<t, t>> \in Seq(MetroTrains) /\ Len(<<t, t>>) = 2
        /\ <<t, t>>[1] = t /\ <<t, t>>[2] = t
    OBVIOUS
  <2>4. \A n \in 1 .. 2 : Append(<<t>>, t)[n] = <<t, t>>[n]
    BY <2>2, <2>3
  <2> QED BY <2>2, <2>3, <2>4, SeqEqual
<1>3. Len(<<t, t>>) = 2
  OBVIOUS
<1> QED BY <1>1, <1>2, <1>3, <1>4 DEF station_work, One, Two

(* Only the train that stands in a station writes to its pipe.                *)
LEMMA ReportsKept ==
    ASSUME MetroAssumption, Typed, Working, NEW t \in MetroTrains, train_work(t), ~ Dead'
    PROVE  ReportsWhole' /\ pipe_station' \in [MStations -> Seq(MetroTrains)]
<1> DEFINE s == mStation[t]
<1>1. /\ mStation \in [MetroTrains -> MStations] /\ s \in MStations
      /\ pipe_station \in [MStations -> Seq(MetroTrains)] /\ journey' = journey
  BY TrainStands DEF Typed
<1>2. \A u \in MetroTrains : mPc[T(t)] # "red" /\ mPc[T(u)] # "red" /\ mStation[u] = s => u = t
  BY DEF Working, OneStands, Standing
<1>3. /\ \A u \in MetroTrains :
            /\ mPc[T(u)] = "write_2" => pipe_station[mStation[u]] = One(u)
            /\ mPc[T(u)] = "write_3" => pipe_station[mStation[u]] = Two(u)
      /\ \A k \in MStations : pipe_station[k] # <<>> =>
            \E u \in MetroTrains : mStation[u] = k /\ mPc[T(u)] \in {"write_2", "write_3"}
  <2>1. ~ Crashed
    BY DEF Working, Alive, Crashed
  <2> QED BY <2>1 DEF Working, ReportsWhole, At, One, Two
<1>4. /\ \A u \in MetroTrains :
            /\ mPc'[T(u)] = "write_2" => pipe_station'[mStation'[u]] = One(u)
            /\ mPc'[T(u)] = "write_3" => pipe_station'[mStation'[u]] = Two(u)
      /\ \A k \in MStations : pipe_station'[k] # <<>> =>
            \E u \in MetroTrains : mStation'[u] = k /\ mPc'[T(u)] \in {"write_2", "write_3"}
      => ReportsWhole'
  BY DEF ReportsWhole, At, One, Two
<1>5. ASSUME NEW from, NEW to, Moves(T(t), from, to), from \notin Writing,
             to \notin {"write_2", "write_3"}, pipe_station' = pipe_station,
             mStation' = mStation \/ \E k \in MStations : mStation' = [mStation EXCEPT ![t] = k]
      PROVE  ReportsWhole' /\ pipe_station' \in [MStations -> Seq(MetroTrains)]
  <2>1. /\ mPc[T(t)] \notin {"write_2", "write_3"} /\ mPc'[T(t)] \notin {"write_2", "write_3"}
        /\ \A u \in MetroTrains \ {t} : mPc'[T(u)] = mPc[T(u)]
    BY <1>1, <1>5, TrainMoves DEF Writing
  <2>2. \A u \in MetroTrains \ {t} : mStation'[u] = mStation[u]
    BY <1>1, <1>5
  <2>3. \A u \in MetroTrains : mPc'[T(u)] \in {"write_2", "write_3"} =>
           mPc'[T(u)] = mPc[T(u)] /\ mStation'[u] = mStation[u]
    BY <2>1, <2>2
  <2>4. \A u \in MetroTrains :
            /\ mPc'[T(u)] = "write_2" => pipe_station'[mStation'[u]] = One(u)
            /\ mPc'[T(u)] = "write_3" => pipe_station'[mStation'[u]] = Two(u)
    BY <1>3, <1>5, <2>3
  <2>5. ASSUME NEW k \in MStations, pipe_station'[k] # <<>>
        PROVE  \E u \in MetroTrains : mStation'[u] = k /\ mPc'[T(u)] \in {"write_2", "write_3"}
    <3>1. PICK u \in MetroTrains : mStation[u] = k /\ mPc[T(u)] \in {"write_2", "write_3"}
      BY <1>3, <1>5, <2>5
    <3>2. u # t
      BY <2>1, <3>1
    <3> QED BY <2>1, <2>2, <3>1, <3>2
  <2> QED BY <1>1, <1>4, <1>5, <2>4, <2>5
<1>6. ASSUME NEW from, NEW to, Moves(T(t), from, to), from \in Writing, mStation' = mStation,
             NEW words, words = station_work(pipe_station[s], t),
             pipe_station' = [pipe_station EXCEPT ![s] = words], words \in Seq(MetroTrains),
             to = "write_2" => words = One(t), to = "write_3" => words = Two(t),
             to \notin {"write_2", "write_3"} => words = <<>>
      PROVE  ReportsWhole' /\ pipe_station' \in [MStations -> Seq(MetroTrains)]
  <2>1. /\ mPc[T(t)] \in Writing /\ mPc'[T(t)] = to
        /\ \A u \in MetroTrains \ {t} : mPc'[T(u)] = mPc[T(u)]
    BY <1>1, <1>6, TrainMoves
  <2>2. mPc[T(t)] # "red"
    BY <2>1 DEF Writing
  <2>3. \A u \in MetroTrains \ {t} : mPc[T(u)] # "red" => mStation[u] # s
    BY <1>2, <2>2
  <2>4. /\ pipe_station'[s] = words
        /\ \A k \in MStations \ {s} : pipe_station'[k] = pipe_station[k]
        /\ pipe_station' \in [MStations -> Seq(MetroTrains)]
    BY <1>1, <1>6
  <2>5. \A u \in MetroTrains :
           /\ mPc'[T(u)] = "write_2" => pipe_station'[mStation'[u]] = One(u)
           /\ mPc'[T(u)] = "write_3" => pipe_station'[mStation'[u]] = Two(u)
    <3> SUFFICES ASSUME NEW u \in MetroTrains
                 PROVE  /\ mPc'[T(u)] = "write_2" => pipe_station'[mStation[u]] = One(u)
                        /\ mPc'[T(u)] = "write_3" => pipe_station'[mStation[u]] = Two(u)
      BY <1>6
    <3>1. CASE u = t
      BY <1>6, <2>1, <2>4, <3>1
    <3>2. CASE u # t
      <4>1. mPc'[T(u)] = mPc[T(u)] /\ (mPc[T(u)] \in {"write_2", "write_3"} => mStation[u] # s)
        BY <2>1, <2>3, <3>2
      <4>2. mStation[u] # s => pipe_station'[mStation[u]] = pipe_station[mStation[u]]
        BY <1>1, <2>4
      <4> QED BY <1>3, <4>1, <4>2
    <3> QED BY <3>1, <3>2
  <2>6. ASSUME NEW k \in MStations, pipe_station'[k] # <<>>
        PROVE  \E u \in MetroTrains : mStation'[u] = k /\ mPc'[T(u)] \in {"write_2", "write_3"}
    <3>1. CASE k = s
      <4>1. to \in {"write_2", "write_3"}
        BY <1>6, <2>4, <2>6, <3>1
      <4> QED BY <1>6, <2>1, <3>1, <4>1
    <3>2. CASE k # s
      <4>1. PICK u \in MetroTrains : mStation[u] = k /\ mPc[T(u)] \in {"write_2", "write_3"}
        BY <1>3, <2>4, <2>6, <3>2
      <4> QED BY <1>6, <2>1, <3>2, <4>1
    <3> QED BY <3>1, <3>2
  <2> QED BY <1>4, <2>4, <2>5, <2>6
<1>7. ASSUME NEW from, NEW to, Moves(T(t), from, to), mStation' = mStation,
             \/ from = "write_1" /\ to = "write_2"
             \/ from = "write_2" /\ to = "write_3"
             \/ from = "write_3" /\ to = "post_red",
             pipe_station' = [pipe_station EXCEPT ![s] = station_work(pipe_station[s], t)]
      PROVE  ReportsWhole' /\ pipe_station' \in [MStations -> Seq(MetroTrains)]
  <2> DEFINE words == station_work(pipe_station[s], t)
  <2>2. mPc[T(t)] = from
    BY <1>1, <1>7, TrainMoves
  <2>3. /\ from = "write_1" => pipe_station[s] = <<>>
        /\ from = "write_2" => pipe_station[s] = One(t)
        /\ from = "write_3" => pipe_station[s] = Two(t)
    <3>1. ASSUME from = "write_1", pipe_station[s] # <<>> PROVE FALSE
      <4>1. PICK u \in MetroTrains : mStation[u] = s /\ mPc[T(u)] \in {"write_2", "write_3"}
        BY <1>1, <1>3, <3>1
      <4> QED BY <1>2, <2>2, <3>1, <4>1
    <3>2. from = "write_2" => pipe_station[s] = One(t)
      BY <1>3, <2>2
    <3>3. from = "write_3" => pipe_station[s] = Two(t)
      BY <1>3, <2>2
    <3> QED BY <3>1, <3>2, <3>3
  <2>4. /\ from = "write_1" => words = One(t)
        /\ from = "write_2" => words = Two(t)
        /\ from = "write_3" => words = <<>>
    BY <2>3, ReportGrows
  <2>5. words \in Seq(MetroTrains)
    BY <1>7, <2>4, ReportGrows
  <2> HIDE DEF words
  <2> QED BY <1>6, <1>7, <2>4, <2>5 DEF Writing, words
<1> QED
  <2>1. CASE /\ Moves(T(t), "red", "unload") /\ mStation' = mStation /\ pipe_station' = pipe_station
    BY <1>5, <2>1 DEF Writing
  <2>2. CASE /\ Moves(T(t), "post_red", "red")
             /\ \E k \in MStations : mStation' = [mStation EXCEPT ![t] = k]
             /\ pipe_station' = pipe_station
    <3>1. Moves(T(t), "post_red", "red") /\ pipe_station' = pipe_station
          /\ (mStation' = mStation \/ \E k \in MStations : mStation' = [mStation EXCEPT ![t] = k])
      BY <2>2
    <3>2. "post_red" \notin Writing
      BY DEF Writing
    <3> QED BY <1>5, <3>1, <3>2
  <2>3. CASE \E from, to :
                /\ Moves(T(t), from, to) /\ from \notin {"red"} \cup Writing
                /\ to \notin {"red", "write_2", "write_3", "crashed"}
                /\ mStation' = mStation /\ pipe_station' = pipe_station
    BY <1>5, <2>3
  <2>4. CASE /\ \/ Moves(T(t), "write_1", "write_2") \/ Moves(T(t), "write_2", "write_3")
                \/ Moves(T(t), "write_3", "post_red")
             /\ mStation' = mStation
             /\ pipe_station' = [pipe_station EXCEPT ![s] = station_work(pipe_station[s], t)]
    <3>1. CASE Moves(T(t), "write_1", "write_2")
      BY <1>7, <2>4, <3>1
    <3>2. CASE Moves(T(t), "write_2", "write_3")
      BY <1>7, <2>4, <3>2
    <3>3. CASE Moves(T(t), "write_3", "post_red")
      BY <1>7, <2>4, <3>3
    <3> QED BY <2>4, <3>1, <3>2, <3>3
  <2> QED BY <2>1, <2>2, <2>3, <2>4, TrainStands

-----------------------------------------------------------------------------
(* What the steps do to the rings of those who wait *)

LEMMA PassengerSteps ==
    ASSUME MetroAssumption, Typed, NEW x \in Passengers, passenger_work(x)
    PROVE  /\ journey' = journey /\ mStation' = mStation /\ red_semaphore' = red_semaphore
           /\ pipe_station' = pipe_station /\ p' = p
           /\ num_passenger_per_station' = num_passenger_per_station
           /\ ring' \in RingMap /\ loaded' \in [MThreads -> Nat]
           /\ Start(x) \in MStations
           /\ \A s \in MStations : ring'["on_train"][s] = ring["on_train"][s]
           /\ \A s \in MStations \ {Start(x)} : ring'["wait"][s] = ring["wait"][s]
           /\ \A v \in MThreads \ {Passenger(x)} : loaded'[v] = loaded[v]
           /\ LET q == ring["wait"][Start(x)]
                  q2 == ring'["wait"][Start(x)]
              IN  \/ /\ Moves(Passenger(x), "empty", "insert") /\ me["P"][Start(x)] > 0
                     /\ me' = [me EXCEPT !["P"][Start(x)] = @ - 1]
                     /\ full' = full /\ q2 = q
                  \/ /\ me' = me /\ full' = full /\ q2.read = q.read
                     /\ \/ /\ Moves(Passenger(x), "insert", "insert_load")
                           /\ q2.write = q.write /\ q2.buffer[q.write] = x
                           /\ \A j \in Slots \ {q.write} : q2.buffer[j] = q.buffer[j]
                        \/ /\ Moves(Passenger(x), "insert_load", "insert_store")
                           /\ q2 = q /\ loaded'[Passenger(x)] = q.write
                        \/ /\ Moves(Passenger(x), "insert_store", "post_meP")
                           /\ q2.buffer = q.buffer
                           /\ q2.write = (loaded[Passenger(x)] + 1) % L
                  \/ /\ Moves(Passenger(x), "post_meP", "get_off") /\ q2 = q
                     /\ me' = [me EXCEPT !["P"][Start(x)] = @ + 1]
                     /\ full' = [full EXCEPT ![Start(x)] = @ + 1]
                  \/ /\ Moves(Passenger(x), "get_off", "arrived") /\ q2 = q
                     /\ me' = me /\ full' = full
<1>1. /\ journey' = journey /\ mStation' = mStation /\ red_semaphore' = red_semaphore
      /\ pipe_station' = pipe_station /\ p' = p
      /\ num_passenger_per_station' = num_passenger_per_station
  BY DEF passenger_work, WaitEmptyAndMeP, Enqueue, PostMePAndFull, WaitGetOff, train
<1>2. /\ Start(x) \in MStations /\ Passenger(x) \in MThreads /\ x \in Ids
      /\ ring \in RingMap /\ loaded \in [MThreads -> Nat]
  BY Names DEF Typed, Start, Ids, RingMap
<1>3. CASE WaitEmptyAndMeP(x)
  <2>1. Moves(Passenger(x), "empty", "insert")
    BY <1>2, <1>3, GotoMoves DEF WaitEmptyAndMeP
  <2> QED BY <1>1, <1>2, <1>3, <2>1 DEF WaitEmptyAndMeP, WaitMe
<1>4. CASE Enqueue(x)
  <2>1. me' = me /\ full' = full /\ insert(Passenger(x), "wait", Start(x), x,
           <<"insert", "insert_load", "insert_store", "post_meP">>)
    BY <1>4 DEF Enqueue, counters
  <2> QED BY <1>1, <1>2, <2>1, InsertSteps
<1>5. CASE PostMePAndFull(x)
  <2>1. Moves(Passenger(x), "post_meP", "get_off")
    BY <1>2, <1>5, GotoMoves DEF PostMePAndFull
  <2> QED BY <1>1, <1>2, <1>5, <2>1 DEF PostMePAndFull, PostMe, Post
<1>6. CASE WaitGetOff(x)
  <2>1. Moves(Passenger(x), "get_off", "arrived")
    BY <1>2, <1>6, GotoMoves DEF WaitGetOff
  <2> QED BY <1>1, <1>2, <1>6, <2>1 DEF WaitGetOff, counters
<1> QED BY <1>3, <1>4, <1>5, <1>6 DEF passenger_work

MovingLabels == {"board", "board_load", "board_store", "post_meC", "num", "num_store"}

LEMMA TrainSteps ==
    ASSUME MetroAssumption, Typed, Working, NEW t \in MetroTrains, train_work(t)
    PROVE  /\ journey' = journey /\ me'["P"] = me["P"]
           /\ me' \in [{"P", "C"} -> [MStations -> Nat]]
           /\ ring' \in RingMap /\ loaded' \in [MThreads -> Nat] /\ p' \in [MetroTrains -> Slots]
           /\ num_passenger_per_station' \in [MStations -> Nat]
           /\ mStation[t] \in MStations
           /\ \A x \in Passengers : loaded'[Passenger(x)] = loaded[Passenger(x)]
           /\ \A u \in MetroTrains \ {t} : mStation'[u] = mStation[u] /\ p'[u] = p[u]
           /\ \/ Dead'
              \/ /\ Moves(T(t), "load", "meC") /\ full[mStation[t]] > 0
                 /\ full' = [full EXCEPT ![mStation[t]] = @ - 1]
                 /\ ring' = ring /\ mStation' = mStation
              \/ /\ Moves(T(t), "meC", "board") /\ full' = full
                 /\ removee(t, "wait", mStation[t]) /\ mStation' = mStation
              \/ /\ full' = full
                 /\ \A s \in MStations : ring'["wait"][s] = ring["wait"][s]
                 /\ \E from, to :
                       /\ Moves(T(t), from, to)
                       /\ from # "meC" /\ to \notin {"meC", "crashed"}
                       /\ to \in MovingLabels =>
                             from \in MovingLabels /\ p'[t] = p[t] /\ mStation' = mStation
<1> DEFINE Quiet == /\ full' = full
                    /\ \A s \in MStations : ring'["wait"][s] = ring["wait"][s]
                    /\ \E from, to :
                          /\ Moves(T(t), from, to)
                          /\ from # "meC" /\ to \notin {"meC", "crashed"}
                          /\ to \in MovingLabels =>
                                from \in MovingLabels /\ p'[t] = p[t] /\ mStation' = mStation
           Typed2 == /\ me'["P"] = me["P"] /\ me' \in [{"P", "C"} -> [MStations -> Nat]]
                     /\ ring' \in RingMap /\ loaded' \in [MThreads -> Nat]
                     /\ p' \in [MetroTrains -> Slots]
                     /\ num_passenger_per_station' \in [MStations -> Nat]
                     /\ \A x \in Passengers : loaded'[Passenger(x)] = loaded[Passenger(x)]
                     /\ \A u \in MetroTrains \ {t} : mStation'[u] = mStation[u] /\ p'[u] = p[u]
           Taken == \/ /\ Moves(T(t), "load", "meC") /\ full[mStation[t]] > 0
                       /\ full' = [full EXCEPT ![mStation[t]] = @ - 1]
                       /\ ring' = ring /\ mStation' = mStation
                    \/ /\ Moves(T(t), "meC", "board") /\ full' = full
                       /\ removee(t, "wait", mStation[t]) /\ mStation' = mStation
<1>1. /\ T(t) \in MThreads /\ mStation[t] \in MStations /\ mStation \in [MetroTrains -> MStations]
      /\ ring \in RingMap /\ loaded \in [MThreads -> Nat] /\ p \in [MetroTrains -> Slots]
      /\ num_passenger_per_station \in [MStations -> Nat] /\ 0 \in Slots
      /\ me \in [{"P", "C"} -> [MStations -> Nat]]
      /\ \A x \in Passengers : Passenger(x) \in MThreads \ {T(t)}
  BY Names, RingSize DEF Typed, RingMap
<1>2. journey' = journey
  BY TrainStands
<1>3. ASSUME NEW from, NEW to, MGoto(T(t), from, to), full' = full,
             \A s \in MStations : ring'["wait"][s] = ring["wait"][s],
             from # "meC", to \notin {"meC", "crashed"},
             to \in MovingLabels => from \in MovingLabels /\ p'[t] = p[t] /\ mStation' = mStation
      PROVE  Quiet
  <2>1. Moves(T(t), from, to)
    BY <1>1, <1>3, GotoMoves
  <2> QED BY <1>3, <2>1
<1> SUFFICES Typed2 /\ (Dead' \/ Taken \/ Quiet)
  BY <1>1, <1>2
<1> HIDE DEF Quiet, Typed2, Taken
<1>4. ASSUME me' = me, ring' = ring, loaded' = loaded, p' = p, mStation' = mStation,
             num_passenger_per_station' = num_passenger_per_station
      PROVE  Typed2 /\ \A s \in MStations : ring'["wait"][s] = ring["wait"][s]
  BY <1>1, <1>4 DEF Typed2
<1>5. CASE MArrive(t)
  BY <1>3, <1>4, <1>5 DEF MArrive, counters, MovingLabels
<1>6. CASE WriteReport(t)
  <2>1. \/ MGoto(T(t), "write_1", "write_2") \/ MGoto(T(t), "write_2", "write_3")
        \/ MGoto(T(t), "write_3", "post_red")
    BY <1>6 DEF WriteReport
  <2>2. /\ full' = full /\ me' = me /\ ring' = ring /\ loaded' = loaded /\ p' = p
        /\ mStation' = mStation /\ num_passenger_per_station' = num_passenger_per_station
    BY <1>6 DEF WriteReport, counters, train
  <2>3. CASE MGoto(T(t), "write_1", "write_2")
    BY <1>3, <1>4, <2>2, <2>3 DEF MovingLabels
  <2>4. CASE MGoto(T(t), "write_2", "write_3")
    BY <1>3, <1>4, <2>2, <2>4 DEF MovingLabels
  <2>5. CASE MGoto(T(t), "write_3", "post_red")
    BY <1>3, <1>4, <2>2, <2>5 DEF MovingLabels
  <2> QED BY <2>1, <2>3, <2>4, <2>5
<1>7. CASE LoadEnds(t)
  BY <1>3, <1>4, <1>7 DEF LoadEnds, counters, MovingLabels
<1>8. CASE WaitFull(t)
  <2>1. Moves(T(t), "load", "meC")
    BY <1>1, <1>8, GotoMoves DEF WaitFull
  <2>2. /\ me' = me /\ ring' = ring /\ loaded' = loaded /\ p' = p /\ mStation' = mStation
        /\ num_passenger_per_station' = num_passenger_per_station
        /\ full[mStation[t]] > 0 /\ full' = [full EXCEPT ![mStation[t]] = @ - 1]
    BY <1>8 DEF WaitFull, train, Wait, Here
  <2> QED BY <1>4, <2>1, <2>2 DEF Taken
<1>9. CASE Leave(t)
  <2>1. /\ full' = full /\ me' = me /\ ring' = ring /\ loaded' = loaded /\ p' = p
        /\ num_passenger_per_station' = num_passenger_per_station
        /\ \A u \in MetroTrains \ {t} : mStation'[u] = mStation[u]
        /\ MGoto(T(t), "post_red", "red")
    BY <1>1, <1>9 DEF Leave, counters
  <2>2. Typed2
    BY <1>1, <2>1 DEF Typed2
  <2> QED BY <1>3, <2>1, <2>2 DEF MovingLabels
<1>10. CASE Unload(t)
  <2>1. removee(t, "on_train", mStation[t]) /\ MGoto(T(t), "unload", "get_off")
        /\ full' = full /\ me' = me /\ loaded' = loaded /\ mStation' = mStation
        /\ num_passenger_per_station' = num_passenger_per_station
    BY <1>10 DEF Unload, Here, counters
  <2>2. /\ ring' \in RingMap /\ p' \in [MetroTrains -> Slots]
        /\ \A u \in MetroTrains \ {t} : p'[u] = p[u]
        /\ \A u \in MStations : ring'["wait"][u] = ring["wait"][u]
    BY <1>1, <2>1, RemoveeReads
  <2>3. Typed2
    BY <1>1, <2>1, <2>2 DEF Typed2
  <2> QED BY <1>3, <2>1, <2>2, <2>3 DEF MovingLabels
<1>11. CASE GetOff(t)
  <2>1. /\ full' = full /\ me' = me /\ ring' = ring /\ loaded' = loaded /\ mStation' = mStation
        /\ num_passenger_per_station' = num_passenger_per_station
        /\ p' = [p EXCEPT ![t] = 0] /\ (Dead' \/ MGoto(T(t), "get_off", "unload"))
    BY <1>11 DEF GetOff, Dead, counters
  <2>2. Typed2
    BY <1>1, <2>1 DEF Typed2
  <2> QED BY <1>3, <2>1, <2>2 DEF MovingLabels
<1>18. CASE AllUnloaded(t)
  BY <1>3, <1>4, <1>18 DEF AllUnloaded, counters, train, MovingLabels
<1>12. CASE ResetNum(t)
  <2>1. /\ full' = full /\ me' = me /\ ring' = ring /\ loaded' = loaded /\ mStation' = mStation
        /\ num_passenger_per_station' =
              [num_passenger_per_station EXCEPT ![mStation[t]] = 0]
        /\ p' = p /\ MGoto(T(t), "reset", "load")
    BY <1>12 DEF ResetNum, counters, Here
  <2>2. Typed2
    BY <1>1, <2>1 DEF Typed2
  <2> QED BY <1>3, <2>1, <2>2 DEF MovingLabels
<1>13. CASE TakeWaiting(t)
  <2>1. /\ removee(t, "wait", mStation[t]) /\ MGoto(T(t), "meC", "board")
        /\ full' = full /\ me' = [me EXCEPT !["C"][mStation[t]] = @ - 1] /\ loaded' = loaded
        /\ me["C"][mStation[t]] > 0
        /\ mStation' = mStation /\ num_passenger_per_station' = num_passenger_per_station
    BY <1>13 DEF TakeWaiting, Here, WaitMe
  <2>2. /\ ring' \in RingMap /\ p' \in [MetroTrains -> Slots]
        /\ \A u \in MetroTrains \ {t} : p'[u] = p[u]
    BY <1>1, <2>1, RemoveeReads
  <2>3. me'["P"] = me["P"] /\ me' \in [{"P", "C"} -> [MStations -> Nat]]
    BY <1>1, <2>1
  <2>4. Typed2
    BY <1>1, <2>1, <2>2, <2>3 DEF Typed2
  <2>5. Moves(T(t), "meC", "board")
    BY <1>1, <2>1, GotoMoves
  <2> QED BY <2>1, <2>4, <2>5 DEF Taken
<1>14. CASE Board(t)
  <2> DEFINE x == Pointed(t, "wait")
             d == Destination(t)
  <2>1. /\ full' = full /\ me' = me /\ p' = p /\ mStation' = mStation
        /\ num_passenger_per_station' = num_passenger_per_station
        /\ insert(T(t), "on_train", d, x, <<"board", "board_load", "board_store", "post_meC">>)
    BY <1>14 DEF Board, counters, train
  <2>2. Moving(t)
    BY <2>1 DEF insert, MGoto, Moving
  <2>3. d \in MStations /\ x \in Ids
    BY <2>2, PointedAt
  <2> HIDE DEF x, d
  <2>4. /\ ring' \in RingMap /\ loaded' \in [MThreads -> Nat]
        /\ \A r \in {"wait", "on_train"}, v \in MStations :
              r # "on_train" \/ v # d => ring'[r][v] = ring[r][v]
        /\ \A v \in MThreads \ {T(t)} : loaded'[v] = loaded[v]
    BY <1>1, <2>1, <2>3, InsertSteps
  <2>5. Typed2
    BY <1>1, <2>1, <2>4 DEF Typed2
  <2>6. \A v \in MStations : ring'["wait"][v] = ring["wait"][v]
    BY <2>4
  <2>7. \/ MGoto(T(t), "board", "board_load") \/ MGoto(T(t), "board_load", "board_store")
        \/ MGoto(T(t), "board_store", "post_meC")
    BY <2>1 DEF insert
  <2>8. CASE MGoto(T(t), "board", "board_load")
    BY <1>3, <2>1, <2>5, <2>6, <2>8 DEF MovingLabels
  <2>9. CASE MGoto(T(t), "board_load", "board_store")
    BY <1>3, <2>1, <2>5, <2>6, <2>9 DEF MovingLabels
  <2>10. CASE MGoto(T(t), "board_store", "post_meC")
    BY <1>3, <2>1, <2>5, <2>6, <2>10 DEF MovingLabels
  <2> QED BY <2>7, <2>8, <2>9, <2>10
<1>15. CASE UnlockRings(t)
  <2>1. /\ MGoto(T(t), "post_meC", "num")
        /\ full' = full /\ me' = [me EXCEPT !["C"][mStation[t]] = @ + 1] /\ loaded' = loaded
        /\ ring' = ring /\ p' = p
        /\ mStation' = mStation /\ num_passenger_per_station' = num_passenger_per_station
    BY <1>15 DEF UnlockRings, Here, PostMe, train
  <2>2. me'["P"] = me["P"] /\ me' \in [{"P", "C"} -> [MStations -> Nat]]
    BY <1>1, <2>1
  <2>3. Typed2
    BY <1>1, <2>1, <2>2 DEF Typed2
  <2> QED BY <1>3, <2>1, <2>3 DEF MovingLabels
<1>16. CASE LoadNum(t)
  <2>1. /\ MGoto(T(t), "num", "num_store") /\ full' = full /\ me' = me /\ ring' = ring /\ p' = p
        /\ loaded' = [loaded EXCEPT ![T(t)] = num_passenger_per_station[Destination(t)]]
        /\ mStation' = mStation /\ num_passenger_per_station' = num_passenger_per_station
    BY <1>16 DEF LoadNum, counters, train
  <2>2. Destination(t) \in MStations
    <3>1. Moving(t)
      BY <2>1 DEF MGoto, Moving
    <3> QED BY <3>1, PointedAt
  <2>3. /\ loaded' \in [MThreads -> Nat]
        /\ \A x \in Passengers : loaded'[Passenger(x)] = loaded[Passenger(x)]
    BY <1>1, <2>1, <2>2
  <2>4. Typed2
    BY <1>1, <2>1, <2>3 DEF Typed2
  <2> QED BY <1>3, <2>1, <2>4 DEF MovingLabels
<1>17. CASE StoreNum(t)
  <2>1. /\ MGoto(T(t), "num_store", "load") /\ full' = full /\ me' = me /\ ring' = ring
        /\ num_passenger_per_station' =
              [num_passenger_per_station EXCEPT ![Destination(t)] = loaded[T(t)] + 1]
        /\ loaded' = [loaded EXCEPT ![T(t)] = 0] /\ p' = [p EXCEPT ![t] = 0]
        /\ mStation' = mStation
    BY <1>17 DEF StoreNum, counters
  <2>2. num_passenger_per_station' \in [MStations -> Nat]
    <3> DEFINE more == loaded[T(t)] + 1
    <3>1. more \in Nat
      <4>1. loaded[T(t)] \in Nat
        BY <1>1
      <4> QED BY <4>1
    <3>2. num_passenger_per_station' = [num_passenger_per_station EXCEPT ![Destination(t)] = more]
      BY <2>1
    <3> HIDE DEF more
    <3> QED BY <1>1, <3>1, <3>2
  <2>3. /\ loaded' \in [MThreads -> Nat]
        /\ \A x \in Passengers : loaded'[Passenger(x)] = loaded[Passenger(x)]
    BY <1>1, <2>1
  <2>4. p' \in [MetroTrains -> Slots] /\ \A u \in MetroTrains \ {t} : p'[u] = p[u]
    BY <1>1, <2>1
  <2>5. Typed2
    BY <1>1, <2>1, <2>2, <2>3, <2>4 DEF Typed2
  <2> QED BY <1>3, <2>1, <2>5 DEF MovingLabels
<1> QED BY <1>5, <1>6, <1>7, <1>8, <1>9, <1>10, <1>11, <1>12, <1>13, <1>14, <1>15, <1>16, <1>17,
        <1>18 DEF train_work

-----------------------------------------------------------------------------
(* The ring of those who wait *)

(* Who enters a ring does so alone.                                           *)
LEMMA InsertsKept ==
    ASSUME MetroAssumption, Typed, Working, NEW x \in Passengers, passenger_work(x)
    PROVE  /\ OneInserts' /\ me' \in [{"P", "C"} -> [MStations -> Nat]]
           /\ \A s \in MStations : me'["P"][s] \in {0, 1}
<1>1. /\ me \in [{"P", "C"} -> [MStations -> Nat]] /\ \A s \in MStations : me["P"][s] \in {0, 1}
      /\ Start(x) \in MStations /\ journey' = journey /\ mStation' = mStation
      /\ \A y \in Passengers : Start(y) \in MStations /\ Start(y)' = Start(y)
  BY PassengerSteps DEF Typed, Start
<1>2. /\ \A y \in Passengers : Inserting(y) => me["P"][Start(y)] = 0
      /\ \A y, z \in Passengers : Inserting(y) /\ Inserting(z) /\ Start(y) = Start(z) => y = z
  BY DEF Working, OneInserts
<1>3. ASSUME NEW from, NEW to, Moves(Passenger(x), from, to)
      PROVE  /\ \A y \in Passengers \ {x} : Inserting(y)' <=> Inserting(y)
             /\ Inserting(x) <=> from \in {"insert", "insert_load", "insert_store", "post_meP"}
             /\ Inserting(x)' <=> to \in {"insert", "insert_load", "insert_store", "post_meP"}
  BY <1>1, <1>3, PassengerMoves DEF Inserting
<1>4. CASE /\ Moves(Passenger(x), "empty", "insert") /\ me["P"][Start(x)] > 0
           /\ me' = [me EXCEPT !["P"][Start(x)] = @ - 1]
  <2>1. me["P"][Start(x)] = 1
    BY <1>1, <1>4
  <2>2. me' = [me EXCEPT !["P"][Start(x)] = 0]
    BY <1>1, <1>4, <2>1
  <2>3. /\ me' \in [{"P", "C"} -> [MStations -> Nat]] /\ me'["P"][Start(x)] = 0
        /\ \A s \in MStations \ {Start(x)} : me'["P"][s] = me["P"][s]
    BY <1>1, <2>2
  <2>4. /\ Inserting(x)' /\ \A y \in Passengers \ {x} : Inserting(y)' <=> Inserting(y)
    BY <1>3, <1>4
  <2>5. \A y \in Passengers : Inserting(y) => Start(y) # Start(x)
    BY <1>2, <2>1
  <2> QED BY <1>1, <1>2, <2>3, <2>4, <2>5 DEF OneInserts
<1>5. CASE /\ Moves(Passenger(x), "post_meP", "get_off")
           /\ me' = [me EXCEPT !["P"][Start(x)] = @ + 1]
  <2>1. Inserting(x) /\ ~ Inserting(x)'
        /\ \A y \in Passengers \ {x} : Inserting(y)' <=> Inserting(y)
    BY <1>3, <1>5
  <2>2. me["P"][Start(x)] = 0
    BY <1>2, <2>1
  <2>3. me' = [me EXCEPT !["P"][Start(x)] = 1]
    BY <1>1, <1>5, <2>2
  <2>4. /\ me' \in [{"P", "C"} -> [MStations -> Nat]] /\ me'["P"][Start(x)] = 1
        /\ \A s \in MStations \ {Start(x)} : me'["P"][s] = me["P"][s]
    BY <1>1, <2>3
  <2>5. \A y \in Passengers \ {x} : Inserting(y) => Start(y) # Start(x)
    BY <1>2, <2>1
  <2> QED BY <1>1, <1>2, <2>1, <2>4, <2>5 DEF OneInserts
<1>6. ASSUME NEW from, NEW to, Moves(Passenger(x), from, to), me' = me,
             from \in {"insert", "insert_load", "insert_store", "post_meP"} <=>
             to \in {"insert", "insert_load", "insert_store", "post_meP"}
      PROVE  /\ OneInserts' /\ me' \in [{"P", "C"} -> [MStations -> Nat]]
             /\ \A s \in MStations : me'["P"][s] \in {0, 1}
  <2>1. \A y \in Passengers : Inserting(y)' <=> Inserting(y)
    BY <1>3, <1>6
  <2> QED BY <1>1, <1>2, <1>6, <2>1 DEF OneInserts
<1> QED
  <2>1. CASE Moves(Passenger(x), "insert", "insert_load") /\ me' = me
    BY <1>6, <2>1
  <2>2. CASE Moves(Passenger(x), "insert_load", "insert_store") /\ me' = me
    BY <1>6, <2>2
  <2>3. CASE Moves(Passenger(x), "insert_store", "post_meP") /\ me' = me
    BY <1>6, <2>3
  <2>4. CASE Moves(Passenger(x), "get_off", "arrived") /\ me' = me
    BY <1>6, <2>4
  <2> QED BY <1>4, <1>5, <2>1, <2>2, <2>3, <2>4, PassengerSteps

(* What makes a ring hold whom it should, said of any numbers and of any ring. *)
Holds(q, number, waiting, inside) ==
    /\ waiting <= number
    /\ q.write = Index(number) /\ q.read = Index(number - waiting)
    /\ \A k \in 0 .. number - 1 : q.buffer[k] \in inside
    /\ \A j, k \in 0 .. number - 1 : q.buffer[j] = q.buffer[k] => j = k

(* Nothing waits that was not put in: an insert, and a removee, in any order.  *)
LEMMA HoldsOne ==
    ASSUME MetroAssumption, NEW q \in Rings, NEW q2 \in Rings, NEW number \in 0 .. L - 1,
           NEW waiting \in Nat, NEW inside, NEW x,
           Holds(q, number, waiting, inside), x \notin inside, q.buffer[number] = x,
           q2.buffer = q.buffer, q2.read = q.read, q2.write = (number + 1) % L
    PROVE  Holds(q2, number + 1, waiting + 1, inside \cup {x})
<1>1. /\ L \in Nat \ {0}
      /\ number \in Slots
      /\ (number + 1) % L = IF number + 1 = L THEN 0 ELSE number + 1
  BY RingSize
<1>2. q2.write = Index(number + 1) /\ waiting + 1 <= number + 1
      /\ q2.read = Index((number + 1) - (waiting + 1))
  BY <1>1 DEF Holds, Index
<1>3. \A k \in 0 .. number : k \in 0 .. number - 1 \/ k = number
  BY <1>1
<1>4. \A k \in 0 .. number : q2.buffer[k] \in inside \cup {x}
  BY <1>3 DEF Holds
<1>5. ASSUME NEW j \in 0 .. number, NEW k \in 0 .. number, q2.buffer[j] = q2.buffer[k]
      PROVE  j = k
  BY <1>3, <1>5 DEF Holds
<1>6. (number + 1) - 1 = number
  BY <1>1
<1> QED BY <1>2, <1>4, <1>5, <1>6 DEF Holds

LEMMA HoldsTaken ==
    ASSUME MetroAssumption, NEW q \in Rings, NEW q2 \in Rings, NEW number \in 0 .. L,
           NEW waiting \in Nat \ {0}, NEW inside, Holds(q, number, waiting, inside),
           q2.buffer = q.buffer, q2.write = q.write, q2.read = (q.read + 1) % L
    PROVE  /\ Holds(q2, number, waiting - 1, inside)
           /\ q.read \in 0 .. number - 1
<1>1. L \in Nat \ {0} /\ number - waiting \in Slots /\ number - waiting < L
      /\ Slots = 0 .. L - 1
  <2>1. L \in Nat \ {0} /\ Slots = 0 .. L - 1
    BY RingSize
  <2>2. waiting <= number
    BY DEF Holds
  <2> QED BY <2>1, <2>2
<1>2. q.read = number - waiting
  BY <1>1 DEF Holds, Index
<1>3. (q.read + 1) % L = IF q.read + 1 = L THEN 0 ELSE q.read + 1
  BY <1>1, <1>2, RingSize
<1>4. q2.read = Index(number - (waiting - 1))
  BY <1>1, <1>2, <1>3 DEF Index
<1> QED BY <1>1, <1>2, <1>4 DEF Holds

LEMMA HoldsSame ==
    ASSUME NEW s \in MStations
    PROVE  /\ RingHolds(s) <=> Holds(ring["wait"][s], Number(s), Waiting(s), Inside(s))
           /\ RingHolds(s)' <=> Holds(ring'["wait"][s], Number(s)', Waiting(s)', Inside(s)')
BY DEF RingHolds, Holds, Index

LEMMA PassengerRings ==
    ASSUME MetroAssumption, Typed, Working, NEW x \in Passengers, passenger_work(x),
           NEW h, h = Start(x)
    PROVE  /\ \A s \in MStations : RingHolds(s)'
           /\ \A y \in Passengers : HalfIn(y)'
           /\ PointsInside'
<1> DEFINE q == ring["wait"][h]
           q2 == ring'["wait"][h]
           P == Passenger(x)
           n == Number(h)
           w == Waiting(h)
           I == Inside(h)
<1>1. /\ h \in MStations /\ journey' = journey /\ mStation' = mStation /\ p' = p
      /\ ring \in RingMap /\ ring' \in RingMap /\ full \in [MStations -> Nat] /\ P \in MThreads
      /\ \A s \in MStations \ {h} : ring'["wait"][s] = ring["wait"][s]
      /\ \A v \in MThreads \ {P} : loaded'[v] = loaded[v]
      /\ \A y \in Passengers : Start(y)' = Start(y) /\ Start(y) \in MStations
  BY PassengerSteps, Names DEF Typed, RingMap, Start
<1>2. /\ q \in Rings /\ q2 \in Rings /\ Holds(q, n, w, I) /\ n \in 0 .. L /\ w \in Nat
      /\ IsFiniteSet(I) /\ IsFiniteSet(Entering(h)) /\ IsFiniteSet(Taking(h))
      /\ L \in Nat \ {0} /\ (x \notin I => n < L)
  <2>1. Holds(q, n, w, I)
    BY <1>1, HoldsSame DEF Working
  <2>2. q \in Rings /\ q2 \in Rings
    BY <1>1 DEF RingMap
  <2> QED BY <1>1, <2>1, <2>2, Finite
<1>3. /\ \A s \in MStations \ {h} : /\ Inside(s)' = Inside(s) /\ Entering(s)' = Entering(s)
                                  /\ Taking(s)' = Taking(s)
      /\ Taking(h)' = Taking(h)
  BY <1>1, PassengerMoves, PassengerSteps
<1>4. \A s \in MStations \ {h} : full'[s] = full[s]
  BY <1>1, PassengerSteps
<1>5. \A s \in MStations \ {h} : Number(s)' = Number(s) /\ Waiting(s)' = Waiting(s)
  BY <1>3, <1>4 DEF Number, Waiting
<1>6. \A s \in MStations \ {h} : RingHolds(s)'
  BY <1>1, <1>3, <1>5, HoldsSame DEF Working
<1>7. /\ \A y \in Passengers \ {x} : /\ mPc'[Passenger(y)] = mPc[Passenger(y)]
                                    /\ loaded'[Passenger(y)] = loaded[Passenger(y)]
                                    /\ Passenger(y) \in MThreads \ {P}
      /\ \A t \in MetroTrains : mPc'[T(t)] = mPc[T(t)]
  <2>1. \A y \in Passengers \ {x} : Passenger(y) \in MThreads \ {P}
    BY Names
  <2> QED BY <1>1, <2>1, PassengerMoves, PassengerSteps
<1>8. \A y \in Passengers \ {x} : Start(y) # h => HalfIn(y)'
  <2>1. \A y \in Passengers : HalfIn(y)
    BY DEF Working
  <2> QED BY <1>1, <1>5, <1>7, <2>1 DEF HalfIn
<1>9. (n <= Number(h)' /\ Number(h)' \in Nat) => PointsInside'
  <2>1. /\ \A t \in MetroTrains : Moving(t) => p[t] < Number(mStation[t])
        /\ \A t \in MetroTrains : Moving(t)' <=> Moving(t)
        /\ \A t \in MetroTrains : mStation[t] \in MStations /\ p[t] \in Nat
    <3>1. Slots \subseteq Nat
      BY RingSize
    <3>2. \A t \in MetroTrains : Moving(t)' <=> Moving(t)
      BY <1>7 DEF Moving
    <3>3. \A t \in MetroTrains : mStation[t] \in MStations /\ p[t] \in Nat
      BY <3>1 DEF Typed
    <3> QED BY <3>2, <3>3 DEF Working, PointsInside
  <2>2. \A s \in MStations : Number(s) \in Nat
    BY Finite
  <2> SUFFICES ASSUME n <= Number(h)', Number(h)' \in Nat, NEW t \in MetroTrains, Moving(t)
               PROVE  p[t] < Number(mStation[t])'
    BY <1>1, <2>1 DEF PointsInside
  <2>3. p[t] < Number(mStation[t])
    BY <2>1
  <2>4. CASE mStation[t] = h
    <3>1. Number(mStation[t])' = Number(h)'
      BY <1>1, <2>4 DEF Number, Inside
    <3> QED BY <1>2, <2>1, <2>3, <2>4, <3>1
  <2>5. CASE mStation[t] # h
    <3>1. PICK s \in MStations \ {h} : s = mStation[t]
      BY <2>1, <2>5
    <3>2. Number(mStation[t])' = Number(s)'
      BY <1>1, <3>1 DEF Number, Inside
    <3> QED BY <1>5, <2>3, <3>1, <3>2
  <2> QED BY <2>4, <2>5
(* A passenger who starts where x does is not half in while x is.             *)
<1>10. Inserting(x) => \A y \in Passengers \ {x} : Start(y) = h => HalfIn(y)'
  <2> SUFFICES ASSUME Inserting(x), NEW y \in Passengers \ {x}, Start(y) = h PROVE HalfIn(y)'
    OBVIOUS
  <2>1. ~ Inserting(y)
    BY DEF Working, OneInserts
  <2> QED BY <1>7, <2>1 DEF Inserting, HalfIn
(* The counts and the slots of the passenger's station stay as they are.      *)
<1>11. ASSUME Inside(h)' = I, Waiting(h)' = w, q2 = q
       PROVE  /\ Number(h)' = n /\ RingHolds(h)' /\ PointsInside'
              /\ \A y \in Passengers \ {x} : Start(y) = h => HalfIn(y)'
  <2>1. Number(h)' = n
    BY <1>11 DEF Number
  <2>2. RingHolds(h)'
    BY <1>1, <1>2, <1>11, <2>1, HoldsSame
  <2>3. ASSUME NEW y \in Passengers \ {x}, Start(y) = h PROVE HalfIn(y)'
    <3>1. HalfIn(y)
      BY DEF Working
    <3>2. ring'["wait"][Start(y)] = ring["wait"][Start(y)] /\ Number(Start(y))' = Number(Start(y))
      <4>1. Number(Start(y))' = Number(h)'
        BY <1>1, <2>3 DEF Number, Inside
      <4> QED BY <1>11, <2>1, <2>3, <4>1
    <3> QED BY <1>1, <1>7, <3>1, <3>2 DEF HalfIn
  <2> QED BY <1>2, <1>9, <2>1, <2>2, <2>3
<1>12. SUFFICES RingHolds(h)' /\ (\A y \in Passengers : Start(y) = h => HalfIn(y)') /\ PointsInside'
  BY <1>6, <1>8
<1>13. CASE Moves(P, "empty", "insert") /\ full' = full /\ q2 = q
  <2>1. /\ Inside(h)' = I \ {x}
        /\ x \notin I
        /\ Entering(h)' = Entering(h) \ {x}
        /\ x \notin Entering(h)
        /\ mPc'[P] = "insert"
    BY <1>1, <1>13, PassengerMoves DEF Inside, Entering, At
  <2>2. Inside(h)' = I /\ Entering(h)' = Entering(h)
    BY <2>1
  <2>3. Waiting(h)' = w
    BY <1>1, <1>3, <1>13, <2>2 DEF Waiting
  <2>4. HalfIn(x)'
    BY <2>1 DEF HalfIn
  <2> QED BY <1>11, <1>13, <2>2, <2>3, <2>4
<1>14. CASE Moves(P, "get_off", "arrived") /\ full' = full /\ q2 = q
  <2>1. /\ Inside(h)' = I \cup {x}
        /\ x \in I
        /\ Entering(h)' = Entering(h) \ {x}
        /\ x \notin Entering(h)
        /\ mPc'[P] = "arrived"
    BY <1>1, <1>14, PassengerMoves DEF Inside, Entering, At
  <2>2. Inside(h)' = I /\ Entering(h)' = Entering(h)
    BY <2>1
  <2>3. Waiting(h)' = w
    BY <1>1, <1>3, <1>14, <2>2 DEF Waiting
  <2>4. HalfIn(x)'
    BY <2>1 DEF HalfIn
  <2> QED BY <1>11, <1>14, <2>2, <2>3, <2>4
<1>15. CASE /\ Moves(P, "post_meP", "get_off") /\ full' = [full EXCEPT ![h] = @ + 1] /\ q2 = q
  <2>1. Inside(h)' = I \cup {x} /\ x \in I /\ Entering(h)' = Entering(h) \ {x} /\ x \in Entering(h)
        /\ mPc'[P] = "get_off"
    BY <1>1, <1>15, PassengerMoves DEF Inside, Entering, At
  <2>2. Inside(h)' = I
    BY <2>1
  <2>3. Waiting(h)' = w
    <3>1. Cardinality(Entering(h)') = Cardinality(Entering(h)) - 1
      BY <1>2, <2>1, FS_RemoveElement
    <3>2. full'[h] = full[h] + 1 /\ full[h] \in Nat
      BY <1>1, <1>15
    <3>3. Cardinality(Entering(h)) \in Nat /\ Cardinality(Taking(h)) \in Nat
      BY <1>2, FS_CardinalityType
    <3>4. Waiting(h)' = full'[h] + Cardinality(Taking(h)) + Cardinality(Entering(h)')
      BY <1>1, <1>3 DEF Waiting
    <3> QED BY <3>1, <3>2, <3>3, <3>4 DEF Waiting
  <2>4. HalfIn(x)'
    BY <2>1 DEF HalfIn
  <2> QED BY <1>11, <1>15, <2>2, <2>3, <2>4
<1>16. CASE /\ Moves(P, "insert", "insert_load") /\ full' = full
            /\ q2.read = q.read /\ q2.write = q.write /\ q2.buffer[q.write] = x
            /\ \A j \in Slots \ {q.write} : q2.buffer[j] = q.buffer[j]
  <2>1. /\ Inside(h)' = I \ {x}
        /\ x \notin I
        /\ Entering(h)' = Entering(h) \ {x}
        /\ x \notin Entering(h)
        /\ mPc'[P] = "insert_load" /\ Inserting(x)
    BY <1>1, <1>16, PassengerMoves DEF Inside, Entering, At, Inserting
  <2>2. Inside(h)' = I /\ Entering(h)' = Entering(h)
    BY <2>1
  <2>3. Waiting(h)' = w /\ Number(h)' = n
    BY <1>1, <1>3, <1>16, <2>2 DEF Waiting, Number
  <2>4. q.write = n /\ n < L
    BY <1>2, <2>1 DEF Holds, Index
  <2>5. \A k \in 0 .. n - 1 : q2.buffer[k] = q.buffer[k]
    <3>1. \A k \in 0 .. n - 1 : k \in Slots \ {q.write}
      BY <1>2, <2>4 DEF Slots
    <3> QED BY <1>16, <3>1
  <2>6. Holds(q2, n, w, I)
    BY <1>2, <1>16, <2>5 DEF Holds
  <2>7. RingHolds(h)'
    BY <1>1, <2>2, <2>3, <2>6, HoldsSame
  <2>8. HalfIn(x)'
    BY <1>1, <1>16, <2>1, <2>3, <2>4 DEF HalfIn
  <2> QED BY <1>2, <1>9, <1>10, <2>1, <2>3, <2>7, <2>8
<1>17. CASE /\ Moves(P, "insert_load", "insert_store") /\ full' = full
            /\ q2 = q /\ loaded'[P] = q.write
  <2>1. /\ Inside(h)' = I \ {x}
        /\ x \notin I
        /\ Entering(h)' = Entering(h) \ {x}
        /\ x \notin Entering(h)
        /\ mPc[P] = "insert_load" /\ mPc'[P] = "insert_store"
    BY <1>1, <1>17, PassengerMoves DEF Inside, Entering, At
  <2>2. Inside(h)' = I /\ Entering(h)' = Entering(h)
    BY <2>1
  <2>3. Waiting(h)' = w /\ Number(h)' = n
    BY <1>1, <1>3, <1>17, <2>2 DEF Waiting, Number
  <2>4. q.write = n
    BY <1>2, <2>1 DEF Holds, Index
  <2>5. q.buffer[n] = x
    BY <2>1 DEF Working, HalfIn
  <2>6. HalfIn(x)'
    BY <1>1, <1>17, <2>1, <2>3, <2>4, <2>5 DEF HalfIn
  <2> QED BY <1>11, <1>17, <2>2, <2>3, <2>6
<1>18. CASE /\ Moves(P, "insert_store", "post_meP") /\ full' = full /\ q2.read = q.read
            /\ q2.buffer = q.buffer /\ q2.write = (loaded[P] + 1) % L
  <2>1. Inside(h)' = I \cup {x} /\ x \notin I /\ Entering(h)' = Entering(h) \cup {x}
        /\ x \notin Entering(h) /\ mPc[P] = "insert_store" /\ mPc'[P] = "post_meP" /\ Inserting(x)
    BY <1>1, <1>18, PassengerMoves DEF Inside, Entering, At, Inserting
  <2>2. Number(h)' = n + 1
    BY <1>2, <2>1, FS_AddElement DEF Number
  <2>3. Waiting(h)' = w + 1
    <3>1. Cardinality(Entering(h)') = Cardinality(Entering(h)) + 1
      BY <1>2, <2>1, FS_AddElement
    <3>2. full[h] \in Nat
      BY <1>1
    <3>3. Cardinality(Entering(h)) \in Nat /\ Cardinality(Taking(h)) \in Nat
      BY <1>2, FS_CardinalityType
    <3>4. Waiting(h)' = full[h] + Cardinality(Taking(h)) + Cardinality(Entering(h)')
      BY <1>1, <1>3, <1>18 DEF Waiting
    <3> QED BY <3>1, <3>2, <3>3, <3>4 DEF Waiting
  <2>4. q.buffer[n] = x /\ loaded[P] = n
    BY <2>1 DEF Working, HalfIn
  <2>5. n \in 0 .. L - 1
    BY <1>2, <2>1
  <2>6. Holds(q2, n + 1, w + 1, I \cup {x})
    BY <1>2, <1>18, <2>1, <2>4, <2>5, HoldsOne
  <2>7. RingHolds(h)'
    BY <1>1, <2>1, <2>2, <2>3, <2>6, HoldsSame
  <2>8. HalfIn(x)'
    <3>1. q2.buffer[(n + 1) - 1] = x /\ Number(Start(x))' = n + 1
      <4>1. (n + 1) - 1 = n
        BY <2>5
      <4>2. Number(Start(x))' = Number(h)'
        BY <1>1 DEF Number, Inside
      <4> QED BY <1>18, <2>2, <2>4, <4>1, <4>2
    <3> QED BY <1>1, <2>1, <3>1 DEF HalfIn
  <2>9. n <= Number(h)' /\ Number(h)' \in Nat
    BY <1>2, <2>2
  <2> QED BY <1>9, <1>10, <2>1, <2>7, <2>8, <2>9
<1> QED BY <1>13, <1>14, <1>15, <1>16, <1>17, <1>18, PassengerSteps

LEMMA TrainRings ==
    ASSUME MetroAssumption, Typed, Working, NEW t \in MetroTrains, train_work(t), ~ Dead',
           NEW h, h = mStation[t]
    PROVE  /\ \A s \in MStations : RingHolds(s)'
           /\ \A y \in Passengers : HalfIn(y)'
           /\ PointsInside' /\ OneInserts'
<1> DEFINE q == ring["wait"][h]
           q2 == ring'["wait"][h]
           n == Number(h)
           w == Waiting(h)
           I == Inside(h)
<1>1. /\ h \in MStations /\ journey' = journey /\ ring \in RingMap /\ ring' \in RingMap
      /\ full \in [MStations -> Nat] /\ me'["P"] = me["P"]
      /\ \A x \in Passengers : loaded'[Passenger(x)] = loaded[Passenger(x)]
      /\ \A x \in Passengers : Start(x)' = Start(x) /\ Start(x) \in MStations
      /\ \A u \in MetroTrains \ {t} : mStation'[u] = mStation[u] /\ p'[u] = p[u]
      /\ \A u \in MetroTrains : mStation[u] \in MStations
  BY TrainSteps DEF Typed, RingMap, Start
<1>2. PICK from, to : Moves(T(t), from, to)
  BY TrainSteps
<1>3. /\ mPc[T(t)] = from /\ mPc'[T(t)] = to
      /\ \A u \in MetroTrains \ {t} : mPc'[T(u)] = mPc[T(u)]
      /\ \A x \in Passengers : mPc'[Passenger(x)] = mPc[Passenger(x)]
      /\ \A s \in MStations : Inside(s)' = Inside(s) /\ Entering(s)' = Entering(s)
  BY <1>1, <1>2, TrainMoves
<1>4. \A s \in MStations : Number(s)' = Number(s)
  BY <1>3 DEF Number
<1>5. OneInserts'
  <2>1. \A x \in Passengers : Inserting(x)' <=> Inserting(x)
    BY <1>3 DEF Inserting
  <2> QED BY <1>1, <2>1 DEF Working, OneInserts
<1>6. /\ q \in Rings /\ q2 \in Rings /\ Holds(q, n, w, I) /\ n \in 0 .. L /\ w \in Nat
      /\ IsFiniteSet(Taking(h))
      /\ full[h] \in Nat /\ Cardinality(Entering(h)) \in Nat /\ Cardinality(Taking(h)) \in Nat
  <2>1. Holds(q, n, w, I)
    BY <1>1, HoldsSame DEF Working
  <2>2. q \in Rings /\ q2 \in Rings
    BY <1>1 DEF RingMap
  <2> QED BY <1>1, <2>1, <2>2, Finite, FS_CardinalityType
(* The other trains, and the passengers, see no change.                       *)
<1>7. ASSUME \A s \in MStations : ring'["wait"][s].buffer = ring["wait"][s].buffer
      PROVE  \A x \in Passengers : HalfIn(x)'
  <2> SUFFICES ASSUME NEW x \in Passengers PROVE HalfIn(x)'
    OBVIOUS
  <2>1. HalfIn(x)
    BY DEF Working
  <2>2. Number(Start(x))' = Number(Start(x))
    <3>1. PICK s \in MStations : s = Start(x)
      BY <1>1
    <3>2. Number(Start(x))' = Number(s)'
      BY <1>1, <3>1 DEF Number, Inside
    <3> QED BY <1>4, <3>1, <3>2
  <2> QED BY <1>1, <1>3, <1>7, <2>1, <2>2 DEF HalfIn
<1>8. ASSUME to \in MovingLabels => from \in MovingLabels /\ p'[t] = p[t] /\ mStation' = mStation
      PROVE  PointsInside'
  <2> SUFFICES ASSUME NEW u \in MetroTrains, Moving(u)' PROVE p'[u] < Number(mStation[u])'
    BY DEF PointsInside
  <2>1. Moving(u) /\ p'[u] = p[u] /\ mStation'[u] = mStation[u]
    BY <1>1, <1>3, <1>8 DEF Moving, MovingLabels
  <2>2. PICK s \in MStations : s = mStation[u]
    BY <1>1
  <2>3. Number(mStation[u])' = Number(s)'
    BY <2>1, <2>2 DEF Number, Inside
  <2>4. p[u] < Number(s)
    BY <2>1, <2>2 DEF Working, PointsInside
  <2> QED BY <1>4, <2>1, <2>3, <2>4
<1>9. ASSUME NEW s \in MStations, full'[s] = full[s], Taking(s)' = Taking(s),
             ring'["wait"][s] = ring["wait"][s]
      PROVE  RingHolds(s)'
  <2>1. Waiting(s)' = Waiting(s)
    BY <1>3, <1>9 DEF Waiting
  <2> QED BY <1>3, <1>4, <1>9, <2>1, HoldsSame DEF Working
<1>10. mStation' = mStation =>
         /\ \A s \in MStations \ {h} : Taking(s)' = Taking(s)
         /\ from # "meC" /\ to = "meC" => t \notin Taking(h) /\ Taking(h)' = Taking(h) \cup {t}
         /\ from = "meC" /\ to # "meC" => t \in Taking(h) /\ Taking(h)' = Taking(h) \ {t}
  BY <1>1, <1>3 DEF Taking, At
<1>11. CASE /\ Moves(T(t), "load", "meC") /\ full[h] > 0
            /\ full' = [full EXCEPT ![h] = @ - 1] /\ ring' = ring /\ mStation' = mStation
  <2>1. from = "load" /\ to = "meC"
    BY <1>2, <1>11 DEF Moves
  <2>2. t \notin Taking(h) /\ Taking(h)' = Taking(h) \cup {t}
    BY <1>10, <1>11, <2>1
  <2>3. Waiting(h)' = w
    <3>1. Cardinality(Taking(h)') = Cardinality(Taking(h)) + 1
      BY <1>6, <2>2, FS_AddElement
    <3>2. full'[h] = full[h] - 1
      BY <1>1, <1>11
    <3>3. Waiting(h)' = full'[h] + Cardinality(Taking(h)') + Cardinality(Entering(h))
      BY <1>1, <1>3 DEF Waiting
    <3> QED BY <1>6, <3>1, <3>2, <3>3 DEF Waiting
  <2>4. RingHolds(h)'
    BY <1>1, <1>3, <1>4, <1>6, <1>11, <2>3, HoldsSame
  <2>5. \A s \in MStations \ {h} : RingHolds(s)'
    BY <1>1, <1>9, <1>10, <1>11
  <2>6. PointsInside'
    BY <1>8, <2>1 DEF MovingLabels
  <2> QED BY <1>5, <1>7, <1>11, <2>4, <2>5, <2>6
<1>12. CASE /\ Moves(T(t), "meC", "board") /\ full' = full
            /\ removee(t, "wait", h) /\ mStation' = mStation
  <2>1. from = "meC" /\ to = "board"
    BY <1>2, <1>12 DEF Moves
  <2>2. t \in Taking(h) /\ Taking(h)' = Taking(h) \ {t}
    BY <1>10, <1>12, <2>1
  <2>3. Waiting(h)' = w - 1 /\ w > 0
    <3>1. Cardinality(Taking(h)') = Cardinality(Taking(h)) - 1
      BY <1>6, <2>2, FS_RemoveElement
    <3>2. Waiting(h)' = full[h] + Cardinality(Taking(h)') + Cardinality(Entering(h))
      BY <1>1, <1>3, <1>12 DEF Waiting
    <3>3. Cardinality(Taking(h)) # 0
      BY <1>6, <2>2, FS_EmptySet
    <3> QED BY <1>6, <3>1, <3>2, <3>3 DEF Waiting
  <2>4. /\ p'[t] = q.read /\ q2.read = (q.read + 1) % L
        /\ q2.write = q.write /\ q2.buffer = q.buffer
        /\ \A s \in MStations \ {h} : ring'["wait"][s] = ring["wait"][s]
    BY <1>1, <1>12, RemoveeReads
  <2>5. Holds(q2, n, w - 1, I) /\ q.read \in 0 .. n - 1
    <3>1. w \in Nat \ {0}
      BY <1>6, <2>3
    <3> QED BY <1>6, <2>4, <3>1, HoldsTaken
  <2>6. RingHolds(h)'
    BY <1>1, <1>3, <1>4, <2>3, <2>5, HoldsSame
  <2>7. \A s \in MStations \ {h} : RingHolds(s)'
    BY <1>1, <1>9, <1>10, <1>12, <2>4
  <2>8. \A s \in MStations : ring'["wait"][s].buffer = ring["wait"][s].buffer
    BY <2>4
  <2>9. PointsInside'
    <3> SUFFICES ASSUME NEW u \in MetroTrains, Moving(u)' PROVE p'[u] < Number(mStation[u])'
      BY DEF PointsInside
    <3>1. PICK s \in MStations : s = mStation[u]
      BY <1>1
    <3>2. Number(mStation[u])' = Number(s)'
      BY <1>12, <3>1 DEF Number, Inside
    <3>3. CASE u = t
      BY <1>4, <1>6, <2>4, <2>5, <3>1, <3>2, <3>3
    <3>4. CASE u # t
      <4>1. Moving(u) /\ p'[u] = p[u]
        BY <1>1, <1>3, <3>4 DEF Moving
      <4>2. p[u] < Number(s)
        BY <3>1, <4>1 DEF Working, PointsInside
      <4> QED BY <1>4, <3>2, <4>1, <4>2
    <3> QED BY <3>3, <3>4
  <2> QED BY <1>5, <1>7, <2>6, <2>7, <2>8, <2>9
<1>13. ASSUME NEW a, NEW b, full' = full, \A s \in MStations : ring'["wait"][s] = ring["wait"][s],
              Moves(T(t), a, b), a # "meC", b \notin {"meC", "crashed"},
              b \in MovingLabels => a \in MovingLabels /\ p'[t] = p[t] /\ mStation' = mStation
       PROVE  /\ \A s \in MStations : RingHolds(s)'
              /\ \A y \in Passengers : HalfIn(y)'
              /\ PointsInside'
  <2>1. from = a /\ to = b
    BY <1>2, <1>13 DEF Moves
  <2>2. \A s \in MStations : Taking(s)' = Taking(s)
    BY <1>1, <1>3, <1>13, <2>1 DEF Taking, At
  <2>3. \A s \in MStations : RingHolds(s)'
    BY <1>9, <1>13, <2>2
  <2>4. PointsInside'
    BY <1>8, <1>13, <2>1
  <2> QED BY <1>7, <1>13, <2>3, <2>4
<1> QED BY <1>5, <1>11, <1>12, <1>13, TrainSteps

-----------------------------------------------------------------------------
(* Whom a train points at *)

(* A passenger fills the slot after the last one filled, which no train points
   at yet.                                                                     *)
LEMMA PassengerKeepsPointed ==
    ASSUME MetroAssumption, Typed, Working, NEW x \in Passengers, passenger_work(x),
           NEW t \in MetroTrains, Moving(t)
    PROVE  Pointed(t, "wait")' = Pointed(t, "wait") /\ Moving(t)'
<1> DEFINE h == Start(x)
           q == ring["wait"][h]
           q2 == ring'["wait"][h]
<1>1. /\ h \in MStations /\ mStation' = mStation /\ p' = p /\ mStation[t] \in MStations
      /\ journey' = journey
      /\ \A s \in MStations \ {h} : ring'["wait"][s] = ring["wait"][s]
  BY PassengerSteps DEF Typed
<1>2. Moving(t)'
  <2>1. PICK from, to : Moves(Passenger(x), from, to)
    BY PassengerSteps
  <2> QED BY <1>1, <2>1, PassengerMoves DEF Moving
<1>3. CASE mStation[t] # h
  BY <1>1, <1>2, <1>3 DEF Pointed
<1>4. CASE mStation[t] = h /\ q2.buffer = q.buffer
  BY <1>1, <1>2, <1>4 DEF Pointed
<1>5. CASE /\ mStation[t] = h /\ Moves(Passenger(x), "insert", "insert_load")
           /\ \A j \in Slots \ {q.write} : q2.buffer[j] = q.buffer[j]
  <2>1. x \notin Inside(h)
    BY <1>5 DEF Inside, Moves
  <2>2. Number(h) \in 0 .. L /\ Number(h) < L
    BY <1>1, <2>1, Finite
  <2>3. q.write = Number(h)
    BY <1>1, <2>2 DEF Working, RingHolds, Index
  <2>4. p[t] \in Slots /\ p[t] < Number(h)
    BY <1>5 DEF Typed, Working, PointsInside
  <2>5. p[t] # q.write
    <3>1. Slots \subseteq Nat
      BY RingSize
    <3> QED BY <2>2, <2>3, <2>4, <3>1
  <2> QED BY <1>1, <1>2, <1>5, <2>4, <2>5 DEF Pointed
<1> QED BY <1>3, <1>4, <1>5, PassengerSteps

(* A train, another one or itself, writes into no ring of those who wait.      *)
LEMMA TrainKeepsPointed ==
    ASSUME MetroAssumption, Typed, Working, NEW u \in MetroTrains, train_work(u), ~ Dead',
           NEW t \in MetroTrains, Moving(t)', Moving(t) \/ ~ (mPc[T(u)] = "meC" /\ t = u)
    PROVE  Pointed(t, "wait")' = Pointed(t, "wait") /\ Moving(t)
<1>1. /\ mStation[t] \in MStations /\ mStation[u] \in MStations /\ journey' = journey
      /\ \A v \in MetroTrains \ {u} : mStation'[v] = mStation[v] /\ p'[v] = p[v]
  BY TrainSteps DEF Typed
<1>2. ASSUME NEW from, NEW to, Moves(T(u), from, to), from # "meC",
             to \in MovingLabels => from \in MovingLabels /\ p'[u] = p[u] /\ mStation' = mStation,
             \A s \in MStations : ring'["wait"][s].buffer = ring["wait"][s].buffer
      PROVE  Pointed(t, "wait")' = Pointed(t, "wait") /\ Moving(t)
  <2>1. /\ mPc[T(u)] = from /\ mPc'[T(u)] = to
        /\ \A v \in MetroTrains \ {u} : mPc'[T(v)] = mPc[T(v)]
    BY <1>1, <1>2, TrainMoves
  <2>2. Moving(t) /\ p'[t] = p[t] /\ mStation'[t] = mStation[t]
    BY <1>1, <1>2, <2>1 DEF Moving, MovingLabels
  <2> QED BY <1>1, <1>2, <2>2 DEF Pointed
<1>3. CASE Moves(T(u), "load", "meC") /\ ring' = ring
  BY <1>2, <1>3 DEF MovingLabels
<1>4. CASE /\ Moves(T(u), "meC", "board") /\ removee(u, "wait", mStation[u])
           /\ mStation' = mStation
  <2>1. \A s \in MStations : ring'["wait"][s].buffer = ring["wait"][s].buffer
    BY <1>1, <1>4, RemoveeReads
  <2>2. /\ mPc[T(u)] = "meC" /\ \A v \in MetroTrains \ {u} : mPc'[T(v)] = mPc[T(v)]
    BY <1>1, <1>4, TrainMoves
  <2>3. t # u
    BY <2>2 DEF Moving
  <2> QED BY <1>1, <1>4, <2>1, <2>2, <2>3 DEF Pointed, Moving
<1> QED BY <1>2, <1>3, <1>4, TrainSteps

(* Who has been let in stays so, and so whom the trains and the rings hold.    *)
LEMMA PassengerSettles ==
    ASSUME MetroAssumption, Typed, Working, NEW x \in Passengers, passenger_work(x)
    PROVE  BoundFor' /\ Settled'
<1>1. \A y \in Passengers : LetIn(y) => mPc'[Passenger(y)] \in Within
  <2>1. ASSUME NEW from, NEW to, Moves(Passenger(x), from, to), from \in Within => to \in Within
        PROVE  \A y \in Passengers : LetIn(y) => mPc'[Passenger(y)] \in Within
    BY <2>1, PassengerSteps, PassengerMoves DEF LetIn
  <2> QED BY <2>1, PassengerSteps DEF Within
<1>2. /\ journey' = journey /\ mStation' = mStation
      /\ \A s \in MStations : ring'["on_train"][s] = ring["on_train"][s]
      /\ \A t \in MetroTrains : mPc'[T(t)] = mPc[T(t)]
  <2>1. PICK from, to : Moves(Passenger(x), from, to)
    BY PassengerSteps
  <2> QED BY <2>1, PassengerSteps, PassengerMoves
<1>3. BoundFor'
  <2> SUFFICES ASSUME NEW s \in MStations, NEW k \in Slots, NEW y,
                      y = ring["on_train"][s].buffer[k], y # Nobody
               PROVE  /\ y \in Passengers /\ mPc'[Passenger(y)] \in Within
                      /\ journey[y].arrival_station = s
    BY <1>2 DEF BoundFor, LetIn
  <2>1. y \in Passengers /\ LetIn(y) /\ journey[y].arrival_station = s
    BY DEF Working, BoundFor
  <2> QED BY <1>1, <2>1
<1>4. ASSUME NEW t \in MetroTrains, Moving(t)' PROVE LetIn(Pointed(t, "wait"))'
  <2>1. Moving(t)
    BY <1>2, <1>4 DEF Moving
  <2>2. PICK y \in Passengers : y = Pointed(t, "wait") /\ LetIn(y)
    BY <2>1, PointedAt DEF Working, Settled
  <2>3. Pointed(t, "wait")' = y
    BY <2>1, <2>2, PassengerKeepsPointed
  <2> QED BY <1>1, <2>2, <2>3 DEF LetIn
<1> QED BY <1>3, <1>4 DEF Settled

(* A train that takes the first who waits leaves the one who is still coming in:
   full has been posted for the first, and not yet for him.                    *)
LEMMA TrainSettles ==
    ASSUME MetroAssumption, Typed, Working, NEW t \in MetroTrains, train_work(t), ~ Dead'
    PROVE  Settled'
<1>1. PICK from, to : Moves(T(t), from, to)
  BY TrainSteps
<1>2. /\ mPc[T(t)] = from /\ mPc'[T(t)] = to /\ journey' = journey
      /\ \A x \in Passengers : mPc'[Passenger(x)] = mPc[Passenger(x)]
  BY <1>1, TrainMoves, TrainStands
<1>3. ASSUME NEW u \in MetroTrains, Moving(u)', Moving(u) \/ ~ (from = "meC" /\ u = t)
      PROVE  LetIn(Pointed(u, "wait"))'
  <2>1. Pointed(u, "wait")' = Pointed(u, "wait") /\ Moving(u)
    BY <1>2, <1>3, TrainKeepsPointed
  <2>2. PICK y \in Passengers : y = Pointed(u, "wait") /\ LetIn(y)
    BY <2>1, PointedAt DEF Working, Settled
  <2> QED BY <1>2, <2>1, <2>2 DEF LetIn
<1>4. ASSUME from = "meC" PROVE LetIn(Pointed(t, "wait"))'
  <2> DEFINE h == mStation[t]
             q == ring["wait"][h]
             n == Number(h)
             w == Waiting(h)
             x == q.buffer[q.read]
  <2>1. removee(t, "wait", h) /\ mStation' = mStation
    BY <1>2, <1>4, TrainSteps DEF Moves
  <2>2. h \in MStations /\ q \in Rings /\ RingHolds(h)
    BY DEF Typed, Working
  <2>3. /\ n \in 0 .. L /\ w \in Nat /\ L \in Nat \ {0}
        /\ IsFiniteSet(Entering(h)) /\ IsFiniteSet(Taking(h))
    BY <2>2, Finite
  <2>4. /\ Cardinality(Taking(h)) \in Nat \ {0} /\ Cardinality(Entering(h)) \in Nat
        /\ full[h] \in Nat
    <3>1. t \in Taking(h)
      BY <1>2, <1>4 DEF Taking, At
    <3>2. Cardinality(Taking(h)) # 0
      BY <2>3, <3>1, FS_EmptySet
    <3> QED BY <2>2, <2>3, <3>2, FS_CardinalityType DEF Typed
  <2>5. w > 0 /\ w <= n /\ q.read = n - w /\ q.read \in 0 .. n - 1
    <3>1. w > 0
      BY <2>4 DEF Waiting
    <3>2. w <= n /\ q.read = Index(n - w)
      BY <2>2 DEF RingHolds
    <3>3. n - w # L
      BY <2>3, <3>1, <3>2
    <3> QED BY <2>3, <3>1, <3>2, <3>3 DEF Index
  <2>6. x \in Inside(h)
    BY <2>2, <2>5 DEF RingHolds
  <2>7. ASSUME mPc[Passenger(x)] = "post_meP" PROVE FALSE
    <3>1. x \in Entering(h) /\ x \in Passengers /\ Start(x) = h
      BY <2>6, <2>7 DEF Inside, Entering, At
    <3>2. q.buffer[n - 1] = x
      BY <2>7, <3>1 DEF Working, HalfIn
    <3>3. n - 1 \in 0 .. n - 1
      BY <2>3, <2>5
    <3>4. q.read = n - 1
      BY <2>2, <2>5, <3>2, <3>3 DEF RingHolds
    <3>5. Cardinality(Entering(h)) # 0
      BY <2>3, <3>1, FS_EmptySet
    <3>6. w > 1
      BY <2>4, <3>5 DEF Waiting
    <3> HIDE DEF n, w, q
    <3> QED BY <2>3, <2>5, <3>4, <3>6
  <2>8. x \in Passengers /\ LetIn(x)
    BY <2>6, <2>7 DEF Inside, LetIn, Within
  <2>9. Pointed(t, "wait")' = x
    <3>1. p'[t] = q.read /\ ring'["wait"][h].buffer = q.buffer
      BY <2>1, <2>2, RemoveeReads
    <3> QED BY <2>1, <3>1 DEF Pointed
  <2>10. PICK y \in Passengers : y = x /\ LetIn(y)
    BY <2>8
  <2> QED BY <1>2, <2>9, <2>10 DEF LetIn
<1> QED BY <1>3, <1>4 DEF Settled

-----------------------------------------------------------------------------
(* The rings of those on a train *)

LEMMA OnTrainKept ==
    ASSUME MetroAssumption, Typed, Working, NEW t \in MetroTrains, train_work(t), ~ Dead'
    PROVE  BoundFor'
<1>1. /\ BoundFor /\ ring \in RingMap /\ mStation[t] \in MStations /\ journey' = journey
      /\ T(t) \in MThreads
      /\ \A x \in Passengers : LetIn(x) => mPc'[Passenger(x)] \in Within
  <2>1. PICK from, to : Moves(T(t), from, to)
    BY TrainSteps
  <2>2. \A x \in Passengers : mPc'[Passenger(x)] = mPc[Passenger(x)]
    BY <2>1, TrainStands, TrainMoves
  <2> QED BY <2>2, TrainStands, Names DEF Working, Typed, RingMap, LetIn
<1>2. CASE \A s \in MStations : ring'["on_train"][s].buffer = ring["on_train"][s].buffer
  <2> SUFFICES ASSUME NEW s \in MStations, NEW k \in Slots, NEW y,
                      y = ring["on_train"][s].buffer[k], y # Nobody
               PROVE  /\ y \in Passengers /\ mPc'[Passenger(y)] \in Within
                      /\ journey[y].arrival_station = s
    BY <1>1, <1>2 DEF BoundFor, LetIn
  <2>1. y \in Passengers /\ LetIn(y) /\ journey[y].arrival_station = s
    BY <1>1 DEF BoundFor
  <2> QED BY <1>1, <2>1
<1>3. CASE Unload(t)
  <2>1. removee(t, "on_train", mStation[t])
    BY <1>3 DEF Unload, Here
  <2>2. \A s \in MStations : ring'["on_train"][s].buffer = ring["on_train"][s].buffer
    BY <1>1, <2>1, RemoveeReads
  <2> QED BY <1>2, <2>2
<1>4. CASE TakeWaiting(t)
  <2>1. removee(t, "wait", mStation[t])
    BY <1>4 DEF TakeWaiting, Here
  <2>2. \A s \in MStations : ring'["on_train"][s].buffer = ring["on_train"][s].buffer
    BY <1>1, <2>1, RemoveeReads
  <2> QED BY <1>2, <2>2
<1>5. CASE Board(t)
  <2> DEFINE x == Pointed(t, "wait")
             d == Destination(t)
  <2>1. insert(T(t), "on_train", d, x, <<"board", "board_load", "board_store", "post_meC">>)
    BY <1>5 DEF Board
  <2>2. Moving(t)
    BY <2>1 DEF insert, MGoto, Moving
  <2>3. /\ d \in MStations /\ x \in Ids /\ journey[x].arrival_station = d
        /\ x \in Passengers /\ LetIn(x)
    BY <2>2, PointedAt DEF Working, Settled
  <2> HIDE DEF x, d
  <2>4. ring["on_train"][d].write \in Slots
    BY <1>1, <2>3 DEF RingMap, Rings
  <2>5. /\ \A v \in MStations \ {d} : ring'["on_train"][v] = ring["on_train"][v]
        /\ \/ /\ ring'["on_train"][d].buffer[ring["on_train"][d].write] = x
              /\ \A j \in Slots \ {ring["on_train"][d].write} :
                    ring'["on_train"][d].buffer[j] = ring["on_train"][d].buffer[j]
           \/ ring'["on_train"][d].buffer = ring["on_train"][d].buffer
    BY <1>1, <2>1, <2>3, InsertSteps
  <2>6. ASSUME NEW s \in MStations, NEW k \in Slots, NEW y,
               y = ring'["on_train"][s].buffer[k], y # Nobody
        PROVE  /\ y \in Passengers /\ mPc'[Passenger(y)] \in Within
               /\ journey[y].arrival_station = s
    <3>1. CASE y = ring["on_train"][s].buffer[k]
      <4>1. y \in Passengers /\ LetIn(y) /\ journey[y].arrival_station = s
        BY <1>1, <2>6, <3>1 DEF BoundFor
      <4> QED BY <1>1, <4>1
    <3>2. CASE s = d /\ y = x
      BY <1>1, <2>3, <3>2
    <3> QED BY <2>5, <2>6, <3>1, <3>2
  <2> QED BY <1>1, <2>6 DEF BoundFor, LetIn
<1>6. CASE ring' = ring
  BY <1>2, <1>6
<1> QED BY <1>3, <1>4, <1>5, <1>6
        DEF train_work, MArrive, GetOff, AllUnloaded, ResetNum, WaitFull, LoadEnds, UnlockRings,
            LoadNum, StoreNum, WriteReport, Leave

-----------------------------------------------------------------------------
(* All together *)

LEMMA StartsWorking ==
    ASSUME MetroAssumption, MInit
    PROVE  IInv
<1>1. /\ ring = [q \in {"wait", "on_train"} |-> [s \in MStations |->
                  [buffer |-> [k \in Slots |-> Nobody], read |-> 0, write |-> 0]]]
      /\ 0 \in Slots /\ L \in Nat
  BY RingSize DEF MInit, Slots
<1>2. mPc = [u \in MThreads |-> IF u[1] = "train" THEN "red" ELSE "empty"]
  BY DEF MInit
<1>3. /\ \A t \in MetroTrains : mPc[T(t)] = "red"
      /\ \A x \in Passengers : mPc[Passenger(x)] = "empty"
  BY <1>2, Names DEF T, Passenger
<1>4. /\ journey \in [Passengers -> [starting_station : MStations, arrival_station : MStations]]
      /\ \A x \in Passengers : Start(x) \in MStations
  <2>1. PICK f \in [Passengers -> UNION {Journeys[x] : x \in Passengers}] :
            journey = f /\ \A x \in Passengers : f[x] \in Journeys[x]
    BY DEF MInit
  <2>2. \A x \in Passengers : f[x] \in [starting_station : MStations, arrival_station : MStations]
    BY <2>1 DEF MetroAssumption
  <2>3. journey \in [Passengers -> [starting_station : MStations, arrival_station : MStations]]
    BY <2>1, <2>2
  <2> QED BY <2>3 DEF Start
<1>5. Typed
  <2>1. ring \in [{"wait", "on_train"} -> [MStations -> Rings]]
    BY <1>1 DEF Rings, Ids
  <2>2. \A s \in MStations : me["P"][s] \in {0, 1}
    BY DEF MInit
  <2>3. full \in [MStations -> Nat] /\ me \in [{"P", "C"} -> [MStations -> Nat]]
    BY DEF MInit
  <2>4. red_semaphore \in [MStations -> {0, 1}] /\ num_passenger_per_station \in [MStations -> Nat]
    BY DEF MInit
  <2>5. pipe_station \in [MStations -> Seq(MetroTrains)]
    <3>1. <<>> \in Seq(MetroTrains)
      BY EmptySeq
    <3> QED BY <3>1 DEF MInit
  <2>6. mStation \in [MetroTrains -> MStations]
    <3>1. \A t \in MetroTrains : t \in MStations
      BY DEF MetroAssumption, MetroTrains, MStations
    <3> QED BY <3>1 DEF MInit
  <2>7. p \in [MetroTrains -> Slots] /\ loaded \in [MThreads -> Nat]
    BY <1>1 DEF MInit
  <2>8. mPc = [u \in MThreads |-> mPc[u]]
    BY <1>2
  <2> QED BY <1>4, <2>1, <2>2, <2>3, <2>4, <2>5, <2>6, <2>7, <2>8 DEF Typed
<1>6. Alive
  BY <1>2 DEF Alive
<1>7. OneStands /\ OneInserts /\ PointsInside /\ Settled
  BY <1>3 DEF OneStands, Standing, OneInserts, Inserting, PointsInside, Settled, Moving
<1>8. ReportsWhole
  BY <1>3 DEF ReportsWhole, At, MInit
<1>9. ASSUME NEW s \in MStations PROVE RingHolds(s)
  <2>1. Inside(s) = {} /\ Entering(s) = {} /\ Taking(s) = {}
    BY <1>3 DEF Inside, Entering, Taking, At
  <2>2. Number(s) = 0 /\ Waiting(s) = 0
    BY <2>1, FS_EmptySet DEF Number, Waiting, MInit
  <2>3. ring["wait"][s].read = 0 /\ ring["wait"][s].write = 0
    BY <1>1
  <2>4. Index(0) = 0
    BY DEF Index
  <2> QED BY <2>2, <2>3, <2>4 DEF RingHolds
<1>10. \A x \in Passengers : HalfIn(x)
  BY <1>3 DEF HalfIn
<1>11. BoundFor
  BY <1>1 DEF BoundFor
<1> QED BY <1>5, <1>6, <1>7, <1>8, <1>9, <1>10, <1>11 DEF IInv, Working

(* A thread that moves on has not crashed, and the others have not either.    *)
LEMMA StaysAlive ==
    ASSUME Alive, NEW u \in MThreads, NEW from, NEW to, Moves(u, from, to), to # "crashed"
    PROVE  Alive' /\ mPc' = [v \in MThreads |-> mPc'[v]]
BY DEF Alive, Moves

LEMMA StepKeeps ==
    ASSUME MetroAssumption, IInv, MNext
    PROVE  IInv'
<1>1. Typed /\ Working
  <2>1. ASSUME Dead PROVE FALSE
    <3>1. \A u \in MThreads : mPc[u] = "crashed"
      BY <2>1 DEF Dead
    <3>2. \A t \in MetroTrains : mPc[T(t)] = "crashed"
      BY <3>1, Names
    <3>3. \A x \in Passengers : mPc[Passenger(x)] = "crashed"
      BY <3>1, Names
    <3>4. ASSUME NEW t \in MetroTrains, train_work(t) PROVE FALSE
      BY <3>2, <3>4
         DEF train_work, MArrive, Unload, GetOff, AllUnloaded, ResetNum, WaitFull, LoadEnds,
             TakeWaiting, Board, insert, UnlockRings, LoadNum, StoreNum, WriteReport, Leave, MGoto
    <3>5. ASSUME NEW x \in Passengers, passenger_work(x) PROVE FALSE
      BY <3>3, <3>5
         DEF passenger_work, WaitEmptyAndMeP, Enqueue, PostMePAndFull, WaitGetOff, insert, MGoto
    <3> QED BY <3>4, <3>5 DEF MNext
  <2> QED BY <2>1 DEF IInv
<1>2. /\ journey \in [Passengers -> [starting_station : MStations, arrival_station : MStations]]
      /\ mStation \in [MetroTrains -> MStations] /\ full \in [MStations -> Nat]
      /\ \A s \in MStations : me["P"][s] \in {0, 1}
  BY <1>1 DEF Typed
<1>3. ASSUME NEW t \in MetroTrains, train_work(t) PROVE IInv'
  <2>1. /\ journey' = journey /\ me' \in [{"P", "C"} -> [MStations -> Nat]]
        /\ \A s \in MStations : me'["P"][s] \in {0, 1}
        /\ ring' \in RingMap /\ loaded' \in [MThreads -> Nat] /\ p' \in [MetroTrains -> Slots]
        /\ num_passenger_per_station' \in [MStations -> Nat] /\ mStation[t] \in MStations
    BY <1>1, <1>2, <1>3, TrainSteps
  <2>2. T(t) \in MThreads
    BY Names
  <2>3. CASE Dead' /\ Dies
    <3>1. Typed'
      BY <1>1, <2>1, <2>3 DEF Typed, Dies, RingMap
    <3> QED BY <2>3, <3>1 DEF IInv
  <2>4. CASE ~ Dead'
    <3>1. OneStands' /\ red_semaphore' \in [MStations -> {0, 1}]
      BY <1>1, <1>3, <2>4, StandsKept
    <3>2. ReportsWhole' /\ pipe_station' \in [MStations -> Seq(MetroTrains)]
      BY <1>1, <1>3, <2>4, ReportsKept
    <3>3. /\ \A s \in MStations : RingHolds(s)'
          /\ \A y \in Passengers : HalfIn(y)'
          /\ PointsInside' /\ OneInserts'
      BY <1>1, <1>3, <2>4, TrainRings
    <3>4. BoundFor'
      BY <1>1, <1>3, <2>4, OnTrainKept
    <3>5. mStation' \in [MetroTrains -> MStations]
      BY <1>1, <1>2, <1>3, <2>4, TrainStands
    <3>6. full' \in [MStations -> Nat]
      <4>1. CASE full' = full
        BY <1>2, <4>1
      <4>2. CASE full[mStation[t]] > 0 /\ full' = [full EXCEPT ![mStation[t]] = @ - 1]
        BY <1>2, <2>1, <4>2
      <4> QED BY <1>1, <1>3, <2>4, <4>1, <4>2, TrainSteps
    <3>7. PICK from, to : Moves(T(t), from, to) /\ to # "crashed"
      BY <1>1, <1>3, <2>4, TrainStands
    <3>8. Alive' /\ mPc' = [v \in MThreads |-> mPc'[v]]
      BY <1>1, <2>2, <3>7, StaysAlive DEF Working
    <3>9. Typed'
      BY <1>2, <2>1, <3>1, <3>2, <3>5, <3>6, <3>8 DEF Typed, RingMap
    <3>10. Settled'
      BY <1>1, <1>3, <2>4, TrainSettles
    <3> QED BY <3>1, <3>2, <3>3, <3>4, <3>8, <3>9, <3>10 DEF IInv, Working
  <2>5. CASE Dead' /\ ~ Dies
    <3>1. PICK from, to : Moves(T(t), from, to) /\ to # "crashed"
      BY <1>1, <1>3, <2>5, TrainStands
    <3>2. mPc'[T(t)] # "crashed"
      BY <3>1 DEF Moves
    <3> QED BY <2>2, <2>5, <3>2 DEF Dead
  <2> QED BY <2>3, <2>4, <2>5
<1>4. ASSUME NEW x \in Passengers, passenger_work(x) PROVE IInv'
  <2>1. /\ journey' = journey /\ mStation' = mStation /\ red_semaphore' = red_semaphore
        /\ pipe_station' = pipe_station /\ p' = p
        /\ num_passenger_per_station' = num_passenger_per_station
        /\ ring' \in RingMap /\ loaded' \in [MThreads -> Nat] /\ Start(x) \in MStations
        /\ \A s \in MStations : ring'["on_train"][s] = ring["on_train"][s]
    BY <1>1, <1>4, PassengerSteps
  <2>2. /\ OneInserts' /\ me' \in [{"P", "C"} -> [MStations -> Nat]]
        /\ \A s \in MStations : me'["P"][s] \in {0, 1}
    BY <1>1, <1>4, InsertsKept
  <2>3. /\ \A s \in MStations : RingHolds(s)'
        /\ \A y \in Passengers : HalfIn(y)'
        /\ PointsInside'
    BY <1>1, <1>4, PassengerRings
  <2>4. BoundFor' /\ Settled'
    BY <1>1, <1>4, PassengerSettles
  <2>5. full' \in [MStations -> Nat]
    <3>1. CASE full' = full
      BY <1>2, <3>1
    <3>2. CASE full' = [full EXCEPT ![Start(x)] = @ + 1]
      BY <1>2, <2>1, <3>2
    <3> QED BY <1>1, <1>4, <3>1, <3>2, PassengerSteps
  <2>6. PICK from, to : Moves(Passenger(x), from, to) /\ to # "crashed"
    BY <1>1, <1>4, PassengerSteps
  <2>7. /\ mPc'[Passenger(x)] = to /\ \A t \in MetroTrains : mPc'[T(t)] = mPc[T(t)]
        /\ Passenger(x) \in MThreads
    BY <2>1, <2>6, PassengerMoves, Names
  <2>8. Alive' /\ mPc' = [v \in MThreads |-> mPc'[v]]
    BY <1>1, <2>6, <2>7, StaysAlive DEF Working
  <2>9. OneStands' /\ ReportsWhole'
    <3>1. ~ Crashed
      BY <1>1 DEF Working, Alive, Crashed
    <3>2. OneStands'
      BY <1>1, <2>1, <2>7 DEF Working, OneStands, Standing
    <3>3. ReportsWhole'
      BY <1>1, <2>1, <2>7, <3>1 DEF Working, ReportsWhole, At
    <3> QED BY <3>2, <3>3
  <2>10. Typed'
    BY <1>1, <2>1, <2>2, <2>5, <2>8 DEF Typed, RingMap
  <2> QED BY <2>2, <2>3, <2>4, <2>8, <2>9, <2>10 DEF IInv, Working
<1> QED BY <1>3, <1>4 DEF MNext

LEMMA StutterKeeps ==
    ASSUME IInv, UNCHANGED mVars
    PROVE  IInv'
<1>1. /\ ring' = ring /\ full' = full /\ me' = me /\ red_semaphore' = red_semaphore
      /\ pipe_station' = pipe_station /\ journey' = journey /\ mStation' = mStation /\ p' = p
      /\ loaded' = loaded /\ num_passenger_per_station' = num_passenger_per_station /\ mPc' = mPc
  BY DEF mVars, counters, train
<1>2. Typed' <=> Typed
  BY <1>1 DEF Typed
<1>3. (Alive' <=> Alive) /\ (Dead' <=> Dead)
  BY <1>1 DEF Alive, Dead
<1>4. (OneStands' <=> OneStands) /\ (OneInserts' <=> OneInserts)
  BY <1>1 DEF OneStands, Standing, OneInserts, Inserting, Start
<1>5. ReportsWhole' <=> ReportsWhole
  BY <1>1 DEF ReportsWhole, At, Crashed
<1>6. \A s : Inside(s)' = Inside(s) /\ Entering(s)' = Entering(s) /\ Taking(s)' = Taking(s)
  BY <1>1 DEF Inside, Entering, Taking, At, Start
<1>7. \A s : Number(s)' = Number(s) /\ Waiting(s)' = Waiting(s)
  BY <1>1, <1>6 DEF Number, Waiting
<1>8. \A s : RingHolds(s)' <=> RingHolds(s)
  BY <1>1, <1>6, <1>7 DEF RingHolds
<1>9. \A x : HalfIn(x)' <=> HalfIn(x)
  BY <1>1, <1>7 DEF HalfIn, Start
<1>10. (PointsInside' <=> PointsInside) /\ (Settled' <=> Settled)
  BY <1>1, <1>7 DEF PointsInside, Settled, LetIn, Pointed, Moving
<1>11. BoundFor' <=> BoundFor
  BY <1>1 DEF BoundFor, LetIn
<1> QED BY <1>2, <1>3, <1>4, <1>5, <1>8, <1>9, <1>10, <1>11 DEF IInv, Working

(* What is true of every ring, semaphore and pipe of main.c at every moment,  *)
(* until the process dies of a slot that nobody has filled.                   *)
THEOREM Inductive ==
    MetroAssumption => (MSpec => []IInv)
<1> SUFFICES ASSUME MetroAssumption PROVE MSpec => []IInv
  OBVIOUS
<1>1. MInit => IInv
  BY StartsWorking
<1>2. IInv /\ [MNext]_mVars => IInv'
  BY StepKeeps, StutterKeeps
<1> QED BY <1>1, <1>2, PTL DEF MSpec

-----------------------------------------------------------------------------
(* What follows *)

(* A report in the pipe of a station is that of the train that stands there:   *)
(* the red light is given back only after the third word.                      *)
THEOREM ReportsAreWhole ==
    MetroAssumption => (MSpec => []ReportsWhole)
<1> SUFFICES ASSUME MetroAssumption PROVE MSpec => []ReportsWhole
  OBVIOUS
<1>1. IInv => ReportsWhole
  <2> SUFFICES ASSUME IInv PROVE ReportsWhole
    OBVIOUS
  <2>1. CASE Working
    BY <2>1 DEF Working
  <2>2. CASE Dead
    <3>1. Passengers # {}
      BY DEF MetroAssumption
    <3>2. PICK x \in Passengers : TRUE
      BY <3>1
    <3>3. Crashed
      BY <2>2, <3>2, Names DEF Dead, Crashed
    <3>4. \A t \in MetroTrains : mPc[T(t)] = "crashed"
      BY <2>2, Names DEF Dead
    <3> QED BY <3>3, <3>4 DEF ReportsWhole, At
  <2> QED BY <2>1, <2>2 DEF IInv
<1>2. MSpec => []IInv
  BY Inductive
<1> QED BY <1>1, <1>2, PTL

(* The slots between read and write of a ring that is right hold as many
   passengers as wait.                                                         *)
LEMMA WaitingOnes ==
    ASSUME MetroAssumption, NEW q \in Rings, NEW number \in 0 .. L, NEW n \in Nat, NEW inside,
           Holds(q, number, n, inside)
    PROVE  /\ q.write = (q.read + n) % L
           /\ Cardinality({q.buffer[(q.read + k) % L] : k \in 0 .. n - 1}) = n
           /\ \A x \in {q.buffer[(q.read + k) % L] : k \in 0 .. n - 1} : x \in inside
<1> DEFINE first == number - n
           ones == {q.buffer[(q.read + k) % L] : k \in 0 .. n - 1}
<1>1. L \in Nat \ {0} /\ first \in 0 .. L /\ n <= L /\ number = first + n
  <2>1. L \in Nat \ {0} /\ n <= number
    BY RingSize DEF Holds
  <2> HIDE DEF L
  <2> QED BY <2>1
<1>2. q.read = Index(first) /\ q.write = Index(first + n)
  BY <1>1 DEF Holds
<1>3. \A k \in 0 .. n - 1 : (q.read + k) % L = first + k /\ first + k \in 0 .. number - 1
  <2> HIDE DEF first, L
  <2> TAKE k \in 0 .. n - 1
  <2>1. first < L /\ q.read = first /\ first + k \in 0 .. L - 1 /\ first + k \in 0 .. number - 1
    BY <1>1, <1>2 DEF Index
  <2> QED BY <1>1, <2>1
<1>4. q.write = (q.read + n) % L
  <2> HIDE DEF first, L
  <2>1. CASE n = 0 /\ first = L
    BY <1>1, <1>2, <2>1 DEF Index
  <2>2. CASE first # L /\ first + n # L
    <3>1. q.read = first /\ q.write = first + n /\ first + n \in 0 .. L - 1
      BY <1>1, <1>2, <2>2 DEF Index
    <3> QED BY <1>1, <3>1
  <2>3. CASE first # L /\ first + n = L
    <3>1. q.read = first /\ q.write = 0
      BY <1>1, <1>2, <2>3 DEF Index
    <3>2. L % L = 0
      BY <1>1
    <3> QED BY <2>3, <3>1, <3>2
  <2> QED BY <1>1, <2>1, <2>2, <2>3
<1>5. \A k \in 0 .. n - 1 : q.buffer[(q.read + k) % L] \in inside
  BY <1>3 DEF Holds
<1>6. Cardinality(ones) = n
  <2> DEFINE f == [k \in 1 .. n |-> q.buffer[(q.read + (k - 1)) % L]]
  <2>1. \A k \in 1 .. n : k - 1 \in 0 .. n - 1 /\ f[k] = q.buffer[first + (k - 1)]
    BY <1>3
  <2>2. f \in [1 .. n -> ones]
    BY <2>1
  <2>3. \A x \in ones : \E k \in 1 .. n : f[k] = x
    <3> SUFFICES ASSUME NEW k \in 0 .. n - 1
                 PROVE  \E j \in 1 .. n : f[j] = q.buffer[(q.read + k) % L]
      OBVIOUS
    <3>1. k + 1 \in 1 .. n /\ (k + 1) - 1 = k
      OBVIOUS
    <3> QED BY <3>1
  <2>4. \A j, k \in 1 .. n : f[j] = f[k] => j = k
    <3> TAKE j, k \in 1 .. n
    <3> HAVE f[j] = f[k]
    <3>1. /\ first + (j - 1) \in 0 .. number - 1 /\ first + (k - 1) \in 0 .. number - 1
          /\ q.buffer[first + (j - 1)] = q.buffer[first + (k - 1)]
      BY <1>3, <2>1
    <3>2. first + (j - 1) = first + (k - 1)
      BY <3>1 DEF Holds
    <3> QED BY <1>1, <3>2
  <2> HIDE DEF f, ones
  <2>5. f \in Bijection(1 .. n, ones)
    BY <2>2, <2>3, <2>4, Fun_IsBij
  <2>6. IsFiniteSet(1 .. n) /\ Cardinality(1 .. n) = n
    BY FS_Interval
  <2>7. ExistsBijection(1 .. n, ones)
    BY <2>5 DEF ExistsBijection
  <2> QED BY <2>6, <2>7, FS_CountingElements, FS_NatBijection
<1> QED BY <1>4, <1>5, <1>6

(* The ring of a station holds the passengers that full, the train about to
   take one and the passenger who has just come in say, each of them once: a
   train that has been let through full takes one who waits there.             *)
THEOREM WaitingRight ==
    MetroAssumption => (MSpec => []WaitingRing)
<1> SUFFICES ASSUME MetroAssumption PROVE MSpec => []WaitingRing
  OBVIOUS
<1>1. IInv => WaitingRing
  <2> SUFFICES ASSUME IInv, NEW s \in MStations, ~ Crashed
               PROVE  LET q == ring["wait"][s]
                          n == full[s] + Cardinality(Taking(s)) + Cardinality(Entering(s))
                          waiting == {q.buffer[(q.read + k) % L] : k \in 0 .. n - 1}
                      IN  /\ q.write = (q.read + n) % L
                          /\ Cardinality(waiting) = n
                          /\ \A x \in waiting : x # Nobody /\ Start(x) = s
    BY DEF WaitingRing
  <2>1. Typed /\ RingHolds(s)
    <3>1. ASSUME Dead PROVE FALSE
      <4>1. PICK x \in Passengers : TRUE
        BY DEF MetroAssumption
      <4> QED BY <3>1, <4>1, Names DEF Dead, Crashed
    <3> QED BY <3>1 DEF IInv, Working
  <2>2. /\ ring["wait"][s] \in Rings /\ Number(s) \in 0 .. L /\ Waiting(s) \in Nat
        /\ Holds(ring["wait"][s], Number(s), Waiting(s), Inside(s))
    BY <2>1, Finite, HoldsSame DEF Typed
  <2>3. \A x \in Inside(s) : x # Nobody /\ Start(x) = s
    BY DEF Inside, MetroAssumption
  <2>4. LET q == ring["wait"][s]
            n == Waiting(s)
            waiting == {q.buffer[(q.read + k) % L] : k \in 0 .. n - 1}
        IN  /\ q.write = (q.read + n) % L
            /\ Cardinality(waiting) = n
            /\ \A x \in waiting : x \in Inside(s)
    BY <2>2, WaitingOnes
  <2> QED BY <2>3, <2>4 DEF Waiting
<1>2. MSpec => []IInv
  BY Inductive
<1> QED BY <1>1, <1>2, PTL

(* A sem_get_off is a semaphore: it never goes below zero. *)
Sems == sem_get_off \in [Passengers -> Nat]

LEMMA SemsKept ==
    ASSUME MetroAssumption
    PROVE  MSpec => []Sems
<1>1. MInit => Sems
  BY DEF MInit, Sems
<1>2. IInv /\ Sems /\ [MNext]_mVars => Sems'
  <2> SUFFICES ASSUME IInv, Sems, [MNext]_mVars PROVE Sems'
    OBVIOUS
  <2>1. CASE sem_get_off' = sem_get_off
    BY <2>1 DEF Sems
  <2>2. ASSUME NEW t \in MetroTrains, train_work(t) PROVE Sems'
    <3>1. ASSUME NEW x, sem_get_off' = [sem_get_off EXCEPT ![x] = @ + 1] PROVE Sems'
      <4>1. \A y \in Passengers : sem_get_off[y] \in Nat /\ sem_get_off[y] + 1 \in Nat
        BY DEF Sems
      <4>2. \A y \in Passengers : sem_get_off'[y] \in Nat
        BY <3>1, <4>1 DEF Sems
      <4>3. sem_get_off' = [y \in Passengers |-> sem_get_off'[y]]
        BY <3>1 DEF Sems
      <4> QED BY <4>2, <4>3 DEF Sems
    <3>2. \/ sem_get_off' = sem_get_off
          \/ sem_get_off' = [sem_get_off EXCEPT ![Pointed(t, "on_train")] = @ + 1]
      BY <2>2
         DEF train_work, MArrive, Unload, GetOff, AllUnloaded, ResetNum, WaitFull, LoadEnds,
             TakeWaiting, Board, UnlockRings, LoadNum, StoreNum, WriteReport, Leave, Post
    <3> QED BY <2>1, <3>1, <3>2
  <2>3. ASSUME NEW y \in Passengers, passenger_work(y) PROVE Sems'
    <3>1. CASE sem_get_off[y] > 0 /\ sem_get_off' = [sem_get_off EXCEPT ![y] = @ - 1]
      BY <3>1 DEF Sems
    <3>2. \/ sem_get_off' = sem_get_off
          \/ sem_get_off[y] > 0 /\ sem_get_off' = [sem_get_off EXCEPT ![y] = @ - 1]
      BY <2>3 DEF passenger_work, WaitEmptyAndMeP, Enqueue, PostMePAndFull, WaitGetOff, Wait
    <3> QED BY <2>1, <3>1, <3>2
  <2>4. CASE UNCHANGED mVars
    BY <2>1, <2>4 DEF mVars
  <2> QED BY <2>2, <2>3, <2>4 DEF MNext
<1>3. MSpec => []IInv
  BY Inductive
<1> QED BY <1>1, <1>2, <1>3, PTL DEF MSpec

(* Whom a train moves stays the same under its pointer until he is counted, and
   only the train that stands where a passenger wants to go posts his
   sem_get_off, after he has been let in: though the rings of the arrival
   stations are filled by several trains at once and read past their end.      *)
THEOREM AlightRight ==
    MetroAssumption => (MSpec => AlightWhereBound)
<1> SUFFICES ASSUME MetroAssumption PROVE MSpec => AlightWhereBound
  OBVIOUS
<1> DEFINE Kept == \A t \in MetroTrains :
                At(T(t), Boarding) /\ At(T(t), Boarding)' =>
                    Pointed(t, "wait")' = Pointed(t, "wait")
           Bound == \A x \in Passengers : sem_get_off'[x] > sem_get_off[x] =>
                /\ At(Passenger(x), {"get_off", "arrived"})
                /\ \E t \in MetroTrains :
                      mStation[t] = journey[x].arrival_station /\ At(T(t), {"get_off"})
<1>1. IInv /\ Sems /\ [MNext]_mVars => Bound
  <2> SUFFICES ASSUME IInv, Sems, [MNext]_mVars, NEW x \in Passengers,
                      sem_get_off'[x] > sem_get_off[x]
               PROVE  /\ At(Passenger(x), {"get_off", "arrived"})
                      /\ \E t \in MetroTrains :
                            mStation[t] = journey[x].arrival_station /\ At(T(t), {"get_off"})
    OBVIOUS
  <2>1. sem_get_off[x] \in Nat /\ sem_get_off \in [Passengers -> Nat] /\ sem_get_off' # sem_get_off
    BY DEF Sems
  <2>2. CASE \E t \in MetroTrains : train_work(t)
    <3>1. PICK t \in MetroTrains : train_work(t)
      BY <2>2
    <3>2. /\ mPc[T(t)] = "get_off" /\ Pointed(t, "on_train") # Nobody
          /\ sem_get_off' = [sem_get_off EXCEPT ![Pointed(t, "on_train")] = @ + 1]
      BY <2>1, <3>1
         DEF train_work, MArrive, Unload, GetOff, AllUnloaded, ResetNum, WaitFull, LoadEnds,
             TakeWaiting, Board, UnlockRings, LoadNum, StoreNum, WriteReport, Leave, MGoto, Post
    <3>3. Pointed(t, "on_train") = x
      BY <2>1, <3>2
    <3>4. Typed /\ BoundFor
      BY <3>2, Names DEF IInv, Dead, Working
    <3>5. mStation[t] \in MStations /\ p[t] \in Slots
      BY <3>4 DEF Typed
    <3>6. journey[x].arrival_station = mStation[t] /\ LetIn(x)
      BY <3>2, <3>3, <3>4, <3>5 DEF BoundFor, Pointed
    <3> QED BY <3>2, <3>6 DEF At, LetIn, Within
  <2>3. CASE \E y \in Passengers : passenger_work(y)
    <3>1. PICK y \in Passengers : passenger_work(y)
      BY <2>3
    <3>2. sem_get_off' = [sem_get_off EXCEPT ![y] = @ - 1]
      BY <2>1, <3>1
         DEF passenger_work, WaitEmptyAndMeP, Enqueue, PostMePAndFull, WaitGetOff, Wait
    <3> QED BY <2>1, <3>2
  <2>4. CASE UNCHANGED mVars
    BY <2>1, <2>4 DEF mVars
  <2> QED BY <2>2, <2>3, <2>4 DEF MNext
<1>2. IInv /\ [MNext]_mVars => Kept
  <2> SUFFICES ASSUME IInv, [MNext]_mVars, NEW t \in MetroTrains, Moving(t), Moving(t)'
               PROVE  Pointed(t, "wait")' = Pointed(t, "wait")
    BY DEF At, Boarding, Moving
  <2>1. Typed /\ Working
    BY Names DEF IInv, Dead, Moving
  <2>2. ~ Dead'
    BY Names DEF Dead, Moving
  <2>3. CASE UNCHANGED mVars
    BY <2>3 DEF mVars, train, Pointed
  <2>4. ASSUME NEW u \in MetroTrains, train_work(u)
        PROVE  Pointed(t, "wait")' = Pointed(t, "wait")
    BY <2>1, <2>2, <2>4, TrainKeepsPointed
  <2>5. ASSUME NEW x \in Passengers, passenger_work(x)
        PROVE  Pointed(t, "wait")' = Pointed(t, "wait")
    BY <2>1, <2>5, PassengerKeepsPointed
  <2> QED BY <2>3, <2>4, <2>5 DEF MNext
<1>3. MSpec => []IInv
  BY Inductive
<1>4. MSpec => []Sems
  BY SemsKept
<1> QED BY <1>1, <1>2, <1>3, <1>4, PTL DEF AlightWhereBound, MSpec, Bound, Kept

=============================================================================
