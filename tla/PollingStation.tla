--------------------------- MODULE PollingStation ---------------------------
(* EXAMS/2014-07-03/main.cpp: checkSex sends each voter to the desk of the   *)
(* men or of the women; a registrar books a voting station for the voter on  *)
(* its desk, puts the voter into the voters' queue and wakes the station.    *)
(* There is one ring for all stations, though each holds its own critical    *)
(* section while it is used.                                                 *)
EXTENDS Integers, Sequences, FiniteSets, FiniteSetsExt

CONSTANTS
    n, m,             \* number of stations, size of the voters' queue
    START_LIST_SIZE,
    Voters            \* the sex of each voter in the input file

Sexes == {"M", "F"}
Stations == 0 .. n - 1

ASSUME PollingAssumption ==
    /\ n \in Nat \ {0} /\ m \in Nat \ {0} /\ START_LIST_SIZE \in Nat
    /\ Voters \in Seq(Sexes \cup {"other"})

VARIABLES
    votersQueue,              \* the voters still in the first ring
    record,                   \* the voter checkSex has in hand
    full, empty,              \* fullMale, fullFemale; emptyMale, emptyFemale
    cs,                       \* who holds csMale, csFemale
    desk,                     \* maleStation, femaleStation
    hashFreeStation,
    fullQueueM, emptyQueueM,  \* per station
    csQueueM,                 \* per station
    read, write,              \* indices of the ring of all stations
    isDone, isDoneMaleAndFemale, woken,
    place,                    \* the local i of a registrar
    index,                    \* an index being advanced, by a registrar ...
    app,                      \* ... or a station
    registered,               \* history: the voters each registrar has inserted
    pc, station_pc            \* of main, checkSex and the registrars; of the stations

hall == <<votersQueue, record, full, empty, cs, desk>>
booths == <<hashFreeStation, fullQueueM, emptyQueueM, csQueueM>>
ring == <<read, write>>
flags == <<isDone, isDoneMaleAndFemale, woken>>
locals == <<place, index, app, registered>>
vars == <<hall, booths, ring, flags, locals, pc, station_pc>>

NoVoter == 0

(* readFromFile fills a ring of START_LIST_SIZE + 1 slots without looking
   whether it is full: whole turns are forgotten. *)
Loaded ==
    LET kept == Len(Voters) % (START_LIST_SIZE + 1)
    IN  [k \in 1 .. kept |-> Len(Voters) - kept + k]

Init ==
    /\ votersQueue = Loaded /\ record = NoVoter
    /\ full = [s \in Sexes |-> 0] /\ empty = [s \in Sexes |-> 1]
    /\ cs = [s \in Sexes |-> "free"]
    /\ desk = [s \in Sexes |-> NoVoter]
    /\ hashFreeStation = [k \in Stations |-> 0]
    /\ fullQueueM = [k \in Stations |-> 0] /\ emptyQueueM = [k \in Stations |-> m]
    /\ csQueueM = [k \in Stations |-> "free"]
    /\ read = 0 /\ write = 0
    /\ isDone = FALSE /\ isDoneMaleAndFemale = FALSE /\ woken = 0
    /\ place = [s \in Sexes |-> 0]
    /\ registered = [s \in Sexes |-> <<>>]
    /\ index = [s \in Sexes |-> 0] /\ app = [k \in Stations |-> 0]
    /\ pc = [t \in Sexes \cup {"checkSex", "main"} |->
               CASE t = "main" -> "join" [] t = "checkSex" -> "remove" [] OTHER -> "wait"]
    /\ station_pc = [k \in Stations |-> "wait"]

Goto(t, from, to) ==
    /\ pc[t] = from
    /\ pc' = [pc EXCEPT ![t] = to]
    /\ UNCHANGED station_pc

StationGoto(k, from, to) ==
    /\ station_pc[k] = from
    /\ station_pc' = [station_pc EXCEPT ![k] = to]
    /\ UNCHANGED pc

(* The process is killed. *)
Crash ==
    /\ pc' = [t \in DOMAIN pc |-> "crashed"]
    /\ station_pc' = [k \in Stations |-> "crashed"]

(* ReleaseSemaphore at the maximum adds nothing.  _tmain does not look; the
   other threads would return, but TypeOK shows that theirs never fail. *)
Post(permits, max) == IF permits < max THEN permits + 1 ELSE permits

Advance(k) == (k + 1) % m

-----------------------------------------------------------------------------
(* checkSex *)

RemoveVoter ==
    /\ votersQueue # <<>>
    /\ record' = Head(votersQueue)
    /\ votersQueue' = Tail(votersQueue)
    /\ Goto("checkSex", "remove", IF Voters[record'] \in Sexes THEN "empty" ELSE "remove")
    /\ UNCHANGED <<full, empty, cs, desk, booths, ring, flags, locals>>

NoMoreVoters ==
    /\ votersQueue = <<>>
    /\ Goto("checkSex", "remove", "end")
    /\ UNCHANGED <<hall, booths, ring, flags, locals>>

WaitDeskUncounted(s) ==
    /\ Goto("checkSex", "empty", "put")
    /\ Voters[record] = s
    /\ UNCHANGED <<hall, booths, ring, flags, locals>>
WaitDesk(s) ==
    /\ Goto("checkSex", "empty", "put")
    /\ Voters[record] = s
    /\ empty[s] > 0
    /\ empty' = [empty EXCEPT ![s] = @ - 1]
    /\ UNCHANGED <<votersQueue, record, full, cs, desk, booths, ring, flags, locals>>

(* The whole critical section: the record is copied to the desk. *)
PutOnDesk(s) ==
    /\ Goto("checkSex", "put", "release")
    /\ Voters[record] = s
    /\ cs[s] = "free"
    /\ desk' = [desk EXCEPT ![s] = record]
    /\ UNCHANGED <<votersQueue, record, full, empty, cs, booths, ring, flags, locals>>

CallRegistrar(s) ==
    /\ Goto("checkSex", "release", "remove")
    /\ Voters[record] = s
    /\ full' = [full EXCEPT ![s] = @ + 1]
    /\ UNCHANGED <<votersQueue, record, empty, cs, desk, booths, ring, flags, locals>>

checkSex ==
    \/ RemoveVoter \/ NoMoreVoters
    \/ \E s \in Sexes : WaitDesk(s) \/ PutOnDesk(s) \/ CallRegistrar(s)

-----------------------------------------------------------------------------
(* male and female: the same code for the two desks *)

WaitVoter(s) ==
    /\ Goto(s, "wait", "check")
    /\ full[s] > 0
    /\ full' = [full EXCEPT ![s] = @ - 1]
    /\ UNCHANGED <<votersQueue, record, empty, cs, desk, booths, ring, flags, locals>>

CheckDone(s) ==
    /\ Goto(s, "check", IF isDone THEN "end" ELSE "enter")
    /\ UNCHANGED <<hall, booths, ring, flags, locals>>

EnterDesk(s) ==
    /\ Goto(s, "enter", "book")
    /\ cs[s] = "free"
    /\ cs' = [cs EXCEPT ![s] = s]
    /\ UNCHANGED <<votersQueue, record, full, empty, desk, booths, ring, flags, locals>>

FreeStations == {k \in Stations : hashFreeStation[k] = 0}

(* hashFreeStation is used under csHashFreeStation only, so each use is one
   step. *)
BookUnmarked(s) ==
    /\ FreeStations # {}
    /\ Goto(s, "book", "empty")
    /\ place' = [place EXCEPT ![s] = Min(FreeStations)]
    /\ UNCHANGED <<hall, booths, ring, flags, index, app, registered>>
Book(s) ==
    /\ Goto(s, "book", "empty")
    /\ FreeStations # {}
    /\ place' = [place EXCEPT ![s] = Min(FreeStations)]
    /\ hashFreeStation' = [hashFreeStation EXCEPT ![Min(FreeStations)] = 1]
    /\ UNCHANGED <<hall, fullQueueM, emptyQueueM, csQueueM, ring, flags, index, app, registered>>

(* All stations are taken: the entry behind the table is written and a wait
   on whatever lies behind emptyQueueM fails, or either is fatal. *)
NoneFree(s) ==
    /\ FreeStations = {}
    /\ \/ Goto(s, "book", "failed")
       \/ pc[s] = "book" /\ Crash
    /\ UNCHANGED <<hall, booths, ring, flags, locals>>

WaitPlace(s) ==
    /\ Goto(s, "empty", "enterStation")
    /\ emptyQueueM[place[s]] > 0
    /\ emptyQueueM' = [emptyQueueM EXCEPT ![place[s]] = @ - 1]
    /\ UNCHANGED <<hall, hashFreeStation, fullQueueM, csQueueM, ring, flags, locals>>

EnterStation(s) ==
    /\ Goto(s, "enterStation", "insert")
    /\ csQueueM[place[s]] = "free"
    /\ csQueueM' = [csQueueM EXCEPT ![place[s]] = s]
    /\ UNCHANGED <<hall, hashFreeStation, fullQueueM, emptyQueueM, ring, flags, locals>>

(* insert: the other registrar may hold another station's critical section,
   so the index is loaded and stored in two steps. *)
InsertLoad(s) ==
    /\ Goto(s, "insert", "forward")
    /\ index' = [index EXCEPT ![s] = write]
    /\ UNCHANGED <<hall, booths, ring, flags, place, app, registered>>

InsertForward(s) ==
    /\ Goto(s, "forward", "callStation")
    /\ write' = Advance(index[s])
    /\ registered' = [registered EXCEPT ![s] = Append(@, desk[s])]
    /\ UNCHANGED <<hall, booths, read, flags, place, index, app>>

(* Nobody else wants the critical section before the permit is there. *)
CallStation(s) ==
    /\ Goto(s, "callStation", "release")
    /\ csQueueM' = [csQueueM EXCEPT ![place[s]] = "free"]
    /\ fullQueueM' = [fullQueueM EXCEPT ![place[s]] = @ + 1]
    /\ UNCHANGED <<hall, hashFreeStation, emptyQueueM, ring, flags, locals>>

(* The same for the desk's *)
ReleaseDesk(s) ==
    /\ Goto(s, "release", "wait")
    /\ cs' = [cs EXCEPT ![s] = "free"]
    /\ empty' = [empty EXCEPT ![s] = @ + 1]
    /\ UNCHANGED <<votersQueue, record, full, desk, booths, ring, flags, locals>>

registrar(s) ==
    \/ WaitVoter(s) \/ CheckDone(s) \/ EnterDesk(s) \/ Book(s) \/ NoneFree(s)
    \/ WaitPlace(s) \/ EnterStation(s) \/ InsertLoad(s) \/ InsertForward(s)
    \/ CallStation(s) \/ ReleaseDesk(s)

-----------------------------------------------------------------------------
(* station *)

WaitCall(k) ==
    /\ StationGoto(k, "wait", "check")
    /\ fullQueueM[k] > 0
    /\ fullQueueM' = [fullQueueM EXCEPT ![k] = @ - 1]
    /\ UNCHANGED <<hall, hashFreeStation, emptyQueueM, csQueueM, ring, flags, locals>>

StationCheckDone(k) ==
    /\ StationGoto(k, "check", IF isDoneMaleAndFemale THEN "end" ELSE "enter")
    /\ UNCHANGED <<hall, booths, ring, flags, locals>>

StationEnter(k) ==
    /\ StationGoto(k, "enter", "remove")
    /\ csQueueM[k] = "free"
    /\ csQueueM' = [csQueueM EXCEPT ![k] = "station"]
    /\ UNCHANGED <<hall, hashFreeStation, fullQueueM, emptyQueueM, ring, flags, locals>>

(* remove compares the indices, loaded one after the other in either order, with
   nothing that keeps the other stations and the registrars away from them. *)
RemoveFirst(k) ==
    /\ \/ /\ StationGoto(k, "remove", "read_loaded")
          /\ app' = [app EXCEPT ![k] = read]
       \/ /\ StationGoto(k, "remove", "write_loaded")
          /\ app' = [app EXCEPT ![k] = write]
    /\ UNCHANGED <<hall, booths, ring, flags, place, index, registered>>

(* It returns NULL for an empty ring, which station dereferences. *)
RemoveCompare(k) ==
    LET other == IF station_pc[k] = "read_loaded" THEN write ELSE read
    IN  /\ station_pc[k] \in {"read_loaded", "write_loaded"}
        /\ \/ app[k] # other /\ StationGoto(k, station_pc[k], "load")
           \/ app[k] = other /\ Crash
        /\ UNCHANGED <<hall, booths, ring, flags, locals>>

RemoveLoad(k) ==
    /\ StationGoto(k, "load", "forward")
    /\ app' = [app EXCEPT ![k] = read]
    /\ UNCHANGED <<hall, booths, ring, flags, place, index, registered>>

RemoveForward(k) ==
    /\ StationGoto(k, "forward", "vote")
    /\ read' = Advance(app[k])
    /\ UNCHANGED <<hall, booths, write, flags, locals>>

Vote(k) ==
    /\ StationGoto(k, "vote", "leave")
    /\ hashFreeStation' = [hashFreeStation EXCEPT ![k] = 0]
    /\ UNCHANGED <<hall, fullQueueM, emptyQueueM, csQueueM, ring, flags, locals>>

StationLeave(k) ==
    /\ StationGoto(k, "leave", "release")
    /\ csQueueM' = [csQueueM EXCEPT ![k] = "free"]
    /\ UNCHANGED <<hall, hashFreeStation, fullQueueM, emptyQueueM, ring, flags, locals>>

StationRelease(k) ==
    /\ StationGoto(k, "release", "wait")
    /\ emptyQueueM' = [emptyQueueM EXCEPT ![k] = @ + 1]
    /\ UNCHANGED <<hall, hashFreeStation, fullQueueM, csQueueM, ring, flags, locals>>

station(k) ==
    \/ WaitCall(k) \/ StationCheckDone(k) \/ StationEnter(k) \/ RemoveFirst(k) \/ RemoveCompare(k)
    \/ RemoveLoad(k) \/ RemoveForward(k) \/ Vote(k) \/ StationLeave(k) \/ StationRelease(k)

-----------------------------------------------------------------------------
(* _tmain *)

JoinCheckSex ==
    /\ Goto("main", "join", "wakeM")
    /\ pc["checkSex"] = "end"
    /\ isDone' = TRUE
    /\ UNCHANGED <<hall, booths, ring, isDoneMaleAndFemale, woken, locals>>

WakeRegistrar(s) ==
    /\ \/ s = "M" /\ Goto("main", "wakeM", "wakeF")
       \/ s = "F" /\ Goto("main", "wakeF", "joinBoth")
    /\ full' = [full EXCEPT ![s] = Post(@, 1)]
    /\ UNCHANGED <<votersQueue, record, empty, cs, desk, booths, ring, flags, locals>>

(* A registrar that failed has ended too. *)
JoinRegistrars ==
    /\ Goto("main", "joinBoth", "wakeStations")
    /\ \A s \in Sexes : pc[s] \in {"end", "failed"}
    /\ isDoneMaleAndFemale' = TRUE
    /\ UNCHANGED <<hall, booths, ring, isDone, woken, locals>>

WakeNoStation ==
    /\ woken < n
    /\ Goto("main", "wakeStations", "wakeStations")
    /\ woken' = woken + 1
    /\ UNCHANGED <<hall, booths, ring, isDone, isDoneMaleAndFemale, locals>>
WakeStation ==
    /\ Goto("main", "wakeStations", "wakeStations")
    /\ woken < n
    /\ fullQueueM' = [fullQueueM EXCEPT ![woken] = Post(@, m)]
    /\ woken' = woken + 1
    /\ UNCHANGED <<hall, hashFreeStation, emptyQueueM, csQueueM, ring, isDone, isDoneMaleAndFemale, locals>>

JoinStations ==
    /\ Goto("main", "wakeStations", "end")
    /\ woken = n
    /\ \A k \in Stations : station_pc[k] = "end"
    /\ UNCHANGED <<hall, booths, ring, flags, locals>>

MainStep ==
    \/ JoinCheckSex \/ JoinRegistrars \/ WakeStation \/ JoinStations
    \/ \E s \in Sexes : WakeRegistrar(s)

-----------------------------------------------------------------------------
Next ==
    \/ MainStep
    \/ checkSex
    \/ \E s \in Sexes : registrar(s)
    \/ \E k \in Stations : station(k)

Spec == Init /\ [][Next]_vars

(* As long as a thread can run, one does.  No more is needed: every loop of a
   thread uses up a voter or a wake-up, so no thread can run for ever. *)
FairSpec == Spec /\ WF_vars(Next)

-----------------------------------------------------------------------------
(* Properties *)

Crashed == pc["main"] = "crashed"

(* Values in range; no semaphore is released at its maximum but by _tmain. *)
TypeOK ==
    /\ votersQueue \in Seq(DOMAIN Voters) /\ record \in DOMAIN Voters \cup {NoVoter}
    /\ full \in [Sexes -> {0, 1}] /\ empty \in [Sexes -> {0, 1}]
    /\ \A s \in Sexes : cs[s] \in {"free", s}
    /\ desk \in [Sexes -> DOMAIN Voters \cup {NoVoter}]
    /\ hashFreeStation \in [Stations -> {0, 1}]
    /\ fullQueueM \in [Stations -> 0 .. m] /\ emptyQueueM \in [Stations -> 0 .. m]
    /\ csQueueM \in [Stations -> Sexes \cup {"station", "free"}]
    /\ {read, write} \subseteq 0 .. m - 1
    /\ isDone \in BOOLEAN /\ isDoneMaleAndFemale \in BOOLEAN /\ woken \in 0 .. n
    /\ place \in [Sexes -> Stations]
    /\ registered \in [Sexes -> Seq(DOMAIN Voters)]
    /\ index \in [Sexes -> 0 .. m - 1] /\ app \in [Stations -> 0 .. m - 1]

(* The voters sent to a station or in it *)
Sent(k) ==
    Cardinality({s \in Sexes : place[s] = k /\ pc[s] \in
        {"empty", "enterStation", "insert", "forward", "callStation"}})
    + fullQueueM[k]
    + (IF station_pc[k] \in {"check", "enter", "remove", "read_loaded", "write_loaded", "load",
                             "forward", "vote"} THEN 1 ELSE 0)

(* The table of free stations tells the truth, though it, the semaphores and
   the stations change in different critical sections: a station marked taken
   has one voter, on the way or inside, and one marked free has none. *)
StationBooked ==
    /\ TypeOK
    /\ ~ Crashed /\ ~ isDoneMaleAndFemale =>
          \A k \in Stations : Sent(k) = hashFreeStation[k]

(* The voters of a sex that are let in and are not among the first i registered *)
Unregistered(s, i) ==
    {v \in DOMAIN Voters : v > Len(Voters) - Len(Loaded) /\ Voters[v] = s}
        \ {registered[s][j] : j \in 1 .. i}

(* Each desk registers its voters one by one in the order of the file: each is
   the first that was left, so that none is overwritten on the desk before it is
   inserted, and none inserted twice. *)
RegisteredInTurn ==
    \A s \in Sexes : \A i \in 1 .. Len(registered[s]) :
        /\ registered[s][i] \in Unregistered(s, i - 1)
        /\ \A v \in Unregistered(s, i - 1) : registered[s][i] <= v

(* The program ends, with the two flags and their wake-ups, unless a voter
   found no free station or a station no voter. *)
Termination == <>(pc["main"] = "end" \/ Crashed \/ \E s \in Sexes : pc[s] = "failed")
=============================================================================
