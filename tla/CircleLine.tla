----------------------------- MODULE CircleLine -----------------------------
(* EXAMS/2013-07-22/main.c: trains on a circle of stations.  A station has   *)
(* one track per direction; a single track, used both ways, joins station i  *)
(* to its clockwise neighbour.  Every track is guarded by a semaphore.       *)
EXTENDS Integers, FiniteSets

CONSTANTS Trains, nStations

ASSUME LineAssumption == IsFiniteSet(Trains) /\ nStations \in Nat \ {0}

Stations == 0 .. nStations - 1
Forward == 0
Backward == 1

VARIABLES
    s_station,         \* s_station[d][i]: s_station_forward[i], s_station_backward[i]
    s_station_change,  \* the tracks between stations
    direction, station, app,  \* data->direction, data->station and the local app of a train
    pc

vars == <<s_station, s_station_change, direction, station, app, pc>>

(* Direction and station are drawn independently: trains may start at the
   same place, the text's example never does. *)
Init ==
    /\ s_station = [d \in {Forward, Backward} |-> [i \in Stations |-> 1]]
    /\ s_station_change = [i \in Stations |-> 1]
    /\ direction \in [Trains -> {Forward, Backward}]
    /\ station \in [Trains -> Stations]
    /\ app = [t \in Trains |-> 0]
    /\ pc = [t \in Trains |-> "arrived"]

Goto(t, from, to) ==
    /\ pc[t] = from
    /\ pc' = [pc EXCEPT ![t] = to]

-----------------------------------------------------------------------------
EnterStation(t) ==
    /\ Goto(t, "arrived", "stop")
    /\ s_station[direction[t]][station[t]] > 0
    /\ s_station' = [s_station EXCEPT ![direction[t]][station[t]] = @ - 1]
    /\ UNCHANGED <<s_station_change, direction, station, app>>

(* the track to the next station, as computed before the train leaves *)
RailAhead(t) ==
    IF direction[t] = Forward THEN station[t]
    ELSE IF station[t] = 0 THEN nStations - 1 ELSE station[t] - 1

TakeRail(t) ==
    /\ Goto(t, "stop", "depart")
    /\ app' = [app EXCEPT ![t] = RailAhead(t)]
    /\ s_station_change[RailAhead(t)] > 0
    /\ s_station_change' = [s_station_change EXCEPT ![RailAhead(t)] = @ - 1]
    /\ UNCHANGED <<s_station, direction, station>>

NextStation(t) ==
    IF direction[t] = Forward
      THEN IF station[t] + 1 >= nStations THEN 0 ELSE station[t] + 1
      ELSE IF station[t] - 1 < 0 THEN nStations - 1 ELSE station[t] - 1

LeaveNextStation(t) ==
    /\ Goto(t, "depart", "travel")
    /\ s_station' = [s_station EXCEPT ![direction[t]][NextStation(t)] = @ + 1]
    /\ UNCHANGED <<s_station_change, direction, station, app>>
LeaveStation(t) ==
    /\ Goto(t, "depart", "travel")
    /\ s_station' = [s_station EXCEPT ![direction[t]][station[t]] = @ + 1]
    /\ UNCHANGED <<s_station_change, direction, station, app>>

(* The station index moves on first; the track given back is chosen with the
   new index. *)
RailGivenBack(t) ==
    IF direction[t] = Forward
      THEN IF station[t] + 1 >= nStations THEN nStations - 1 ELSE station[t] + 1
      ELSE IF station[t] - 1 < 0 THEN 0 ELSE station[t] - 1

ArriveWrapLost(t) ==
    /\ Goto(t, "travel", "arrived")
    /\ station' = [station EXCEPT ![t] = NextStation(t)]
    /\ s_station_change' = IF NextStation(t) = 0 THEN s_station_change
                           ELSE [s_station_change EXCEPT ![RailGivenBack(t)] = @ + 1]
    /\ UNCHANGED <<s_station, direction, app>>
Arrive(t) ==
    /\ Goto(t, "travel", "arrived")
    /\ station' = [station EXCEPT ![t] = NextStation(t)]
    /\ s_station_change' = [s_station_change EXCEPT ![RailGivenBack(t)] = @ + 1]
    /\ UNCHANGED <<s_station, direction, app>>

-----------------------------------------------------------------------------
work(t) == EnterStation(t) \/ TakeRail(t) \/ LeaveStation(t) \/ Arrive(t)

Next == \E t \in Trains : work(t)

Spec == Init /\ [][Next]_vars

-----------------------------------------------------------------------------
(* Properties *)

OnRail == {t \in Trains : pc[t] \in {"depart", "travel"}}
AtStop == {t \in Trains : pc[t] \in {"stop", "depart"}}

TypeOK ==
    /\ s_station \in [{Forward, Backward} -> [Stations -> {0, 1}]]
    /\ s_station_change \in [Stations -> 0 .. nStations]
    /\ direction \in [Trains -> {Forward, Backward}]
    /\ station \in [Trains -> Stations] /\ app \in [Trains -> Stations]
    /\ pc \in [Trains -> {"arrived", "stop", "depart", "travel"}]

(* A station's track of a direction never holds two trains. *)
StationTrackExclusive ==
    /\ TypeOK
    /\ \A t, u \in AtStop :
          direction[t] = direction[u] /\ station[t] = station[u] => t = u

(* The permits of the tracks between stations, each told from the others. *)
RailPermits == UNION {{i} \X (1 .. s_station_change[i]) : i \in Stations}

(* As many track permits as stations: taken and given back in equal number,
   though not for the same track. *)
RailsConserved == Cardinality(RailPermits) + Cardinality(OnRail) = nStations

(* The single track between two stations never holds two trains. *)
RailExclusive == \A t, u \in OnRail : app[t] = app[u] => t = u
=============================================================================
