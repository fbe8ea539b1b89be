------------------------ MODULE PollingStation_proofs ------------------------
(* Proofs that EXAMS/2014-07-03/main.cpp books stations and registers voters   *)
(* rightly, for any number of stations, size of the queue and list of voters.  *)
EXTENDS PollingStation, FiniteSetTheorems, SequenceTheorems, WellFoundedInduction, TLAPS

Hall == Sexes \cup {"checkSex", "main"}

(* A registrar holds the permit of its desk; has passed the flag; has a place
   booked; has taken a permit of the station booked; has the desk's voter still
   to insert. *)
AtDesk == {"check", "enter", "book", "empty", "enterStation", "insert", "forward",
           "callStation", "release", "failed"}
Inside == AtDesk \ {"check"}
Booking == {"empty", "enterStation", "insert", "forward", "callStation"}
Placed == Booking \ {"empty"}
Inserting == {"enter", "book", "empty", "enterStation", "insert", "forward", "failed"}

(* A station has been called; has a voter; has passed the flag.                *)
Called == {"check", "enter", "remove", "read_loaded", "write_loaded", "load", "forward", "vote",
           "leave", "release"}
Voting == Called \ {"leave", "release"}
Opened == Called \ {"check"}

If(b) == IF b THEN 1 ELSE 0
On(s, k, labels) == If(place[s] = k /\ pc[s] \in labels)

(* Every thread is at a place of its own program.                              *)
Placement ==
    /\ pc = [t \in Hall |-> pc[t]]
    /\ pc["main"] \in {"join", "wakeM", "wakeF", "joinBoth", "wakeStations", "end"}
    /\ pc["checkSex"] \in {"remove", "empty", "put", "release", "end"}
    /\ \A s \in Sexes : pc[s] \in AtDesk \cup {"wait", "end"}
    /\ station_pc = [k \in Stations |-> station_pc[k]]
    /\ \A k \in Stations : station_pc[k] \in Called \cup {"wait", "end"}

(* The flags tell who has ended.                                               *)
FlagsTell ==
    /\ isDone <=> pc["main"] # "join"
    /\ isDone => pc["checkSex"] = "end"
    /\ isDoneMaleAndFemale <=> pc["main"] \in {"wakeStations", "end"}
    /\ isDoneMaleAndFemale => \A s \in Sexes : pc[s] \in {"end", "failed"}

(* The one permit of a desk is with checkSex, in a semaphore or with the
   registrar, until main adds one. *)
Hand(s) == If(pc["checkSex"] \in {"put", "release"} /\ Voters[record] = s)
DeskPermit(s) ==
    /\ ~ isDone => empty[s] + full[s] + Hand(s) + If(pc[s] \in AtDesk) = 1
    /\ empty[s] + If(pc[s] \in Inside) <= 1

(* The m permits of a station, until main adds one.                            *)
StationPermits(k) ==
    /\ ~ isDoneMaleAndFemale =>
          emptyQueueM[k] + On("M", k, Placed) + On("F", k, Placed) + fullQueueM[k]
              + If(station_pc[k] \in Called) = m
    /\ emptyQueueM[k] + If(station_pc[k] \in Opened) <= m

(* The table agrees with the voters on the way and inside.                     *)
Booked(k) ==
    ~ isDoneMaleAndFemale =>
        On("M", k, Booking) + On("F", k, Booking) + fullQueueM[k]
            + If(station_pc[k] \in Voting) = hashFreeStation[k]

(* The first ring has the last voters of the file, checkSex the one before.    *)
Last == Len(Voters) - Len(votersQueue)
FileOrder ==
    /\ Len(votersQueue) <= Len(Loaded)
    /\ \A j \in 1 .. Len(votersQueue) : votersQueue[j] = Last + j
    /\ pc["checkSex"] \in {"empty", "put", "release"} =>
          record = Last /\ record > Len(Voters) - Len(Loaded) /\ Voters[record] \in Sexes

(* A voter that is not read is not registered, and one that is read but not
   registered is in the hand of checkSex or on the desk, which has the next. *)
Left(s) == Unregistered(s, Len(registered[s]))
OnDesk(s) ==
    \/ pc["checkSex"] = "release" /\ Voters[record] = s
    \/ ~ isDone /\ (full[s] = 1 \/ pc[s] = "check")
    \/ pc[s] \in Inserting
InHand(s) == pc["checkSex"] \in {"empty", "put"} /\ Voters[record] = s
InTurn(s) ==
    /\ OnDesk(s) => /\ desk[s] \in Left(s) /\ desk[s] <= Last
                    /\ \A v \in Left(s) : desk[s] <= v
    /\ InHand(s) => record \in Left(s) /\ (OnDesk(s) => record # desk[s])
    /\ \A v \in DOMAIN Voters : v > Last /\ Voters[v] = s => v \in Left(s)
    /\ ~ isDone => \A v \in Left(s) :
          v > Last \/ (OnDesk(s) /\ v = desk[s]) \/ (InHand(s) /\ v = record)

Live ==
    /\ Placement /\ FlagsTell /\ FileOrder
    /\ \A s \in Sexes : DeskPermit(s) /\ InTurn(s)
    /\ \A k \in Stations : StationPermits(k) /\ Booked(k)

(* When the process is killed everything stays as it is.                       *)
Dead ==
    /\ \A t \in Hall : pc[t] = "crashed"
    /\ \A k \in Stations : station_pc[k] = "crashed"

IInv == TypeOK /\ RegisteredInTurn /\ (Live \/ Dead)

-----------------------------------------------------------------------------
(* Numbers, and the constants *)

LEMMA MinOfNaturals ==
    ASSUME NEW S \in SUBSET Nat, S # {}
    PROVE  Min(S) \in S
<1>1. PICK k \in S : \A j \in S : ~ (<<j, k>> \in OpToRel(<, Nat))
  BY NatLessThanWellFounded, WFMin
<1>2. \A j \in S : ~ (j < k)
  BY <1>1 DEF OpToRel
<1>3. \A j \in S : k <= j
  BY <1>2
<1>4. \A x \in S : (\A y \in S : x <= y) => x = k
  BY <1>3
<1>5. Min(S) = k
  BY <1>3, <1>4 DEF Min
<1> QED BY <1>5

LEMMA Remainder ==
    ASSUME NEW a \in Nat, NEW b \in Nat \ {0}
    PROVE  a % b \in 0 .. b - 1 /\ a % b <= a
<1>1. a % b \in 0 .. b - 1
  OBVIOUS
<1>2. a = b * (a \div b) + (a % b) /\ a \div b \in Int
  OBVIOUS
<1>3. a \div b >= 0
  OBVIOUS
<1>4. b * (a \div b) >= 0
  BY <1>2, <1>3
<1>5. a % b <= a
  BY <1>1, <1>2, <1>4
<1> QED BY <1>1, <1>5

LEMMA Posted ==
    ASSUME NEW max \in Nat, NEW permits \in 0 .. max
    PROVE  Post(permits, max) \in 0 .. max
BY DEF Post

LEMMA Constants ==
    /\ n \in Nat \ {0} /\ m \in Nat \ {0} /\ Stations = 0 .. n - 1 /\ 0 \in Stations
    /\ \A k \in 0 .. m - 1 : Advance(k) \in 0 .. m - 1
    /\ Voters \in Seq(Sexes \cup {"other"})
    /\ Len(Voters) \in Nat /\ DOMAIN Voters = 1 .. Len(Voters)
    /\ Len(Loaded) \in Nat /\ Len(Loaded) <= Len(Voters) /\ Loaded \in Seq(DOMAIN Voters)
    /\ \A k \in 1 .. Len(Loaded) : Loaded[k] = Len(Voters) - Len(Loaded) + k
    /\ Sexes = {"M", "F"} /\ Hall = {"M", "F", "checkSex", "main"}
<1> DEFINE kept == Len(Voters) % (START_LIST_SIZE + 1)
<1>1. /\ n \in Nat \ {0} /\ m \in Nat \ {0} /\ START_LIST_SIZE \in Nat
      /\ Voters \in Seq(Sexes \cup {"other"})
  BY PollingAssumption DEF PollingAssumption
<1>2. Len(Voters) \in Nat /\ DOMAIN Voters = 1 .. Len(Voters)
  BY <1>1, LenProperties
<1>3. kept \in Nat /\ kept <= Len(Voters)
  <2>1. START_LIST_SIZE + 1 \in Nat \ {0}
    BY <1>1
  <2> DEFINE size == START_LIST_SIZE + 1
             len == Len(Voters)
  <2>2. len \in Nat /\ size \in Nat \ {0}
    BY <1>2, <2>1
  <2> HIDE DEF size, len
  <2>3. len % size \in 0 .. size - 1 /\ len % size <= len
    BY <2>2, Remainder
  <2>4. len % size \in Nat
    BY <2>2, <2>3
  <2> QED BY <2>3, <2>4 DEF size, len
<1>4. \A k \in 0 .. m - 1 : Advance(k) \in 0 .. m - 1
  <2> SUFFICES ASSUME NEW k \in 0 .. m - 1
               PROVE  Advance(k) \in 0 .. m - 1
    OBVIOUS
  <2>1. k + 1 \in Nat
    BY <1>1
  <2> QED BY <1>1, <2>1, Remainder DEF Advance
<1>5. Loaded = [k \in 1 .. kept |-> Len(Voters) - kept + k]
  BY DEF Loaded
<1> HIDE DEF kept
<1>6. \A k \in 1 .. kept : Len(Voters) - kept + k \in DOMAIN Voters
  BY <1>2, <1>3
<1>7. Loaded \in [1 .. kept -> DOMAIN Voters]
  BY <1>5, <1>6
<1>8. Loaded \in Seq(DOMAIN Voters) /\ Len(Loaded) = kept
  BY <1>3, <1>7, LenProperties DEF Seq
<1> QED BY <1>1, <1>2, <1>3, <1>4, <1>5, <1>8 DEF Stations, Sexes, Hall

(* Both registrars counted one by one.                                         *)
LEMMA SexCount ==
    ASSUME NEW k, NEW L
    PROVE  Cardinality({s \in Sexes : place[s] = k /\ pc[s] \in L}) = On("M", k, L) + On("F", k, L)
<1> DEFINE S == {s \in Sexes : place[s] = k /\ pc[s] \in L}
           P(s) == place[s] = k /\ pc[s] \in L
<1>1. CASE P("M") /\ P("F")
  <2>1. S = {"M"} \cup {"F"} /\ "F" \notin {"M"}
    BY <1>1 DEF Sexes
  <2>2. IsFiniteSet({"M"}) /\ Cardinality({"M"}) = 1
    BY FS_Singleton
  <2>3. Cardinality({"M"} \cup {"F"}) = Cardinality({"M"}) + 1
    BY <2>1, <2>2, FS_AddElement
  <2> QED BY <1>1, <2>1, <2>2, <2>3 DEF On, If
<1>2. CASE P("M") /\ ~ P("F")
  <2>1. S = {"M"}
    BY <1>2 DEF Sexes
  <2>2. Cardinality(S) = 1
    BY <2>1, FS_Singleton
  <2> QED BY <1>2, <2>2 DEF On, If
<1>3. CASE ~ P("M") /\ P("F")
  <2>1. S = {"F"}
    BY <1>3 DEF Sexes
  <2>2. Cardinality(S) = 1
    BY <2>1, FS_Singleton
  <2> QED BY <1>3, <2>2 DEF On, If
<1>4. CASE ~ P("M") /\ ~ P("F")
  <2>1. S = {}
    BY <1>4 DEF Sexes
  <2>2. Cardinality(S) = 0
    BY <2>1, FS_EmptySet
  <2> QED BY <1>4, <2>2 DEF On, If
<1> QED BY <1>1, <1>2, <1>3, <1>4

-----------------------------------------------------------------------------
(* Steps of one thread, and what a part of the invariant looks at *)

LEMMA Moves ==
    ASSUME Placement, NEW t \in Hall, NEW from, NEW to, Goto(t, from, to)
    PROVE  /\ pc[t] = from /\ pc'[t] = to /\ (\A u \in Hall \ {t} : pc'[u] = pc[u])
           /\ pc' = [u \in Hall |-> pc'[u]] /\ station_pc' = station_pc
BY DEF Placement, Goto

LEMMA StationMoves ==
    ASSUME Placement, NEW k \in Stations, NEW from, NEW to, StationGoto(k, from, to)
    PROVE  /\ station_pc[k] = from /\ station_pc'[k] = to
           /\ (\A q \in Stations \ {k} : station_pc'[q] = station_pc[q])
           /\ station_pc' = [q \in Stations |-> station_pc'[q]] /\ pc' = pc
BY DEF Placement, StationGoto

LEMMA LeftSame ==
    ASSUME NEW s, registered'[s] = registered[s]
    PROVE  Left(s)' = Left(s)
BY DEF Left, Unregistered

LEMMA LeftIs ==
    ASSUME NEW s
    PROVE  Left(s) \subseteq {v \in DOMAIN Voters : v > Len(Voters) - Len(Loaded) /\ Voters[v] = s}
BY DEF Left, Unregistered

LEMMA LeftLess ==
    ASSUME NEW s, NEW x \in DOMAIN Voters, registered[s] \in Seq(DOMAIN Voters),
           registered'[s] = Append(registered[s], x)
    PROVE  Left(s)' = Left(s) \ {x}
<1> DEFINE R == registered[s]
           l == Len(registered[s])
<1>1. /\ l \in Nat /\ Len(Append(R, x)) = l + 1 /\ Append(R, x)[l + 1] = x
      /\ \A j \in 1 .. l : Append(R, x)[j] = R[j]
  BY AppendProperties, LenProperties
<1>2. \A j : j \in 1 .. l + 1 <=> j \in 1 .. l \/ j = l + 1
  BY <1>1
<1>3. {Append(R, x)[j] : j \in 1 .. l + 1} = {R[j] : j \in 1 .. l} \cup {x}
  BY <1>1, <1>2
<1> QED BY <1>1, <1>3 DEF Left, Unregistered

(* What concerns a desk *)
LEMMA DeskFrame ==
    ASSUME NEW s, pc'["checkSex"] = pc["checkSex"], record' = record, votersQueue' = votersQueue,
           isDone' = isDone, pc'[s] = pc[s], empty'[s] = empty[s], full'[s] = full[s],
           desk'[s] = desk[s], registered'[s] = registered[s], DeskPermit(s), InTurn(s)
    PROVE  DeskPermit(s)' /\ InTurn(s)'
<1>1. Left(s)' = Left(s)
  BY LeftSame
<1>2. DeskPermit(s)'
  BY DEF DeskPermit, Hand, If
<1>3. InTurn(s)'
  <2>1. OnDesk(s)' = OnDesk(s) /\ InHand(s)' = InHand(s) /\ Last' = Last
    BY DEF OnDesk, InHand, Last
  <2> QED BY <1>1, <2>1 DEF InTurn
<1> QED BY <1>2, <1>3

(* What concerns a station *)
LEMMA StationFrame ==
    ASSUME NEW k, isDoneMaleAndFemale' = isDoneMaleAndFemale, station_pc'[k] = station_pc[k],
           emptyQueueM'[k] = emptyQueueM[k], fullQueueM'[k] = fullQueueM[k],
           hashFreeStation'[k] = hashFreeStation[k], StationPermits(k), Booked(k),
           \A s \in Sexes : On(s, k, Placed)' = On(s, k, Placed)
                            /\ On(s, k, Booking)' = On(s, k, Booking)
    PROVE  StationPermits(k)' /\ Booked(k)'
<1>1. /\ On("M", k, Placed)' = On("M", k, Placed) /\ On("F", k, Placed)' = On("F", k, Placed)
      /\ On("M", k, Booking)' = On("M", k, Booking) /\ On("F", k, Booking)' = On("F", k, Booking)
  BY DEF Sexes
<1>2. StationPermits(k)'
  BY <1>1 DEF StationPermits, If
<1>3. Booked(k)'
  BY <1>1 DEF Booked, If
<1> QED BY <1>2, <1>3

LEMMA InTurnKept ==
    ASSUME RegisteredInTurn, registered' = registered
    PROVE  RegisteredInTurn'
BY DEF RegisteredInTurn, Unregistered

-----------------------------------------------------------------------------
(* checkSex *)

LEMMA HallTyped ==
    ASSUME TypeOK, booths' = booths, ring' = ring, flags' = flags, locals' = locals,
           votersQueue' \in Seq(DOMAIN Voters), record' \in DOMAIN Voters \cup {NoVoter},
           full' \in [Sexes -> {0, 1}], empty' \in [Sexes -> {0, 1}], cs' = cs,
           desk' \in [Sexes -> DOMAIN Voters \cup {NoVoter}]
    PROVE  TypeOK'
BY DEF TypeOK, booths, ring, flags, locals

LEMMA CheckSexStep ==
    ASSUME TypeOK, RegisteredInTurn, Live, checkSex
    PROVE  IInv'
<1>0. /\ Placement /\ FlagsTell /\ FileOrder
      /\ \A s \in Sexes : DeskPermit(s) /\ InTurn(s)
      /\ \A k \in Stations : StationPermits(k) /\ Booked(k)
  BY DEF Live
<1>1. booths' = booths /\ ring' = ring /\ flags' = flags /\ locals' = locals /\ cs' = cs
  BY DEF checkSex, RemoveVoter, NoMoreVoters, WaitDesk, PutOnDesk, CallRegistrar, hall
<1>2. PICK from \in {"remove", "empty", "put", "release"},
           to \in {"remove", "empty", "put", "release", "end"} : Goto("checkSex", from, to)
  <2>1. CASE RemoveVoter
    BY <2>1 DEF RemoveVoter
  <2>2. CASE NoMoreVoters
    BY <2>2 DEF NoMoreVoters
  <2>3. CASE \E s \in Sexes : WaitDesk(s) \/ PutOnDesk(s) \/ CallRegistrar(s)
    BY <2>3 DEF WaitDesk, PutOnDesk, CallRegistrar
  <2> QED BY <2>1, <2>2, <2>3 DEF checkSex
<1>3. /\ pc["checkSex"] = from /\ pc'["checkSex"] = to
      /\ (\A u \in Hall \ {"checkSex"} : pc'[u] = pc[u])
      /\ pc' = [u \in Hall |-> pc'[u]] /\ station_pc' = station_pc
  BY <1>0, <1>2, Moves, Constants
<1>4. ~ isDone /\ isDone' = isDone /\ isDoneMaleAndFemale' = isDoneMaleAndFemale
      /\ registered' = registered /\ place' = place
  BY <1>0, <1>1, <1>2, <1>3 DEF FlagsTell, flags, locals
<1>5. \A u \in Hall \ {"checkSex"} : pc'[u] = pc[u]
  BY <1>3
<1>6. "main" \in Hall \ {"checkSex"} /\ \A s \in Sexes : s \in Hall \ {"checkSex"}
  BY Constants
<1>7. Placement' /\ FlagsTell'
  <2>1. Placement'
    BY <1>0, <1>2, <1>3, <1>6 DEF Placement
  <2>2. FlagsTell'
    BY <1>0, <1>4, <1>5, <1>6 DEF FlagsTell
  <2> QED BY <2>1, <2>2
<1>8. RegisteredInTurn'
  BY <1>4, InTurnKept
<1>9. \A k \in Stations : StationPermits(k)' /\ Booked(k)'
  <2> SUFFICES ASSUME NEW k \in Stations
               PROVE  StationPermits(k)' /\ Booked(k)'
    OBVIOUS
  <2>1. \A s \in Sexes : On(s, k, Placed)' = On(s, k, Placed)
                      /\ On(s, k, Booking)' = On(s, k, Booking)
    BY <1>4, <1>5, <1>6 DEF On
  <2> QED BY <1>0, <1>1, <1>3, <1>4, <2>1, StationFrame DEF booths
<1>10. /\ votersQueue \in Seq(DOMAIN Voters) /\ record \in DOMAIN Voters \cup {NoVoter}
       /\ full \in [Sexes -> {0, 1}] /\ empty \in [Sexes -> {0, 1}]
       /\ desk \in [Sexes -> DOMAIN Voters \cup {NoVoter}]
       /\ \A s \in Sexes : Left(s)' = Left(s)
  BY <1>4, LeftSame DEF TypeOK
<1>11. ASSUME TypeOK', FileOrder', \A s \in Sexes : DeskPermit(s)' /\ InTurn(s)'
       PROVE  IInv'
  BY <1>7, <1>8, <1>9, <1>11 DEF IInv, Live
<1>12. CASE RemoveVoter
  <2>1. /\ votersQueue # <<>> /\ record' = Head(votersQueue) /\ votersQueue' = Tail(votersQueue)
        /\ from = "remove" /\ to = (IF Voters[record'] \in Sexes THEN "empty" ELSE "remove")
        /\ full' = full /\ empty' = empty /\ desk' = desk
    BY <1>0, <1>3, <1>12, Moves, Constants DEF RemoveVoter
  <2>2. /\ record' = votersQueue[1] /\ record' \in DOMAIN Voters
        /\ votersQueue' \in Seq(DOMAIN Voters) /\ Len(votersQueue) \in Nat \ {0}
        /\ Len(votersQueue') = Len(votersQueue) - 1
        /\ \A j \in 1 .. Len(votersQueue') : votersQueue'[j] = votersQueue[j + 1]
    BY <1>10, <2>1, HeadTailProperties, EmptySeq, LenProperties
  <2>3. record' = Last + 1 /\ Last' = Last + 1 /\ Last \in Int
        /\ record' > Len(Voters) - Len(Loaded)
    <3>1. Last \in Int /\ Last' = Last + 1
      BY <2>2, Constants DEF Last
    <3>2. 1 \in 1 .. Len(votersQueue) /\ Len(votersQueue) <= Len(Loaded)
          /\ \A j \in 1 .. Len(votersQueue) : votersQueue[j] = Last + j
      BY <1>0, <2>2 DEF FileOrder
    <3>3. record' = Last + 1
      BY <2>2, <3>2
    <3>4. Last >= Len(Voters) - Len(Loaded)
      BY <2>2, <3>2, Constants DEF Last
    <3> QED BY <3>1, <3>3, <3>4, Constants
  <2>4. TypeOK'
    BY <1>1, <1>10, <2>1, <2>2, HallTyped
  <2>5. FileOrder'
    <3>1. Len(votersQueue') <= Len(Loaded)
      BY <1>0, <2>2, Constants DEF FileOrder
    <3>2. \A j \in 1 .. Len(votersQueue') : votersQueue'[j] = Last' + j
      BY <1>0, <2>2, <2>3, Constants DEF FileOrder
    <3>3. to \in {"empty", "put", "release"} => Voters[record'] \in Sexes
      BY <2>1
    <3> QED BY <1>3, <2>3, <3>1, <3>2, <3>3 DEF FileOrder
  <2>6. ASSUME NEW s \in Sexes
        PROVE  DeskPermit(s)' /\ InTurn(s)'
    <3>1. pc'[s] = pc[s] /\ DeskPermit(s) /\ InTurn(s) /\ Left(s)' = Left(s)
      BY <1>0, <1>5, <1>6, <1>10
    <3>2. Hand(s)' = Hand(s) /\ OnDesk(s)' = OnDesk(s) /\ ~ InHand(s)
          /\ InHand(s)' = (to = "empty" /\ Voters[record'] = s)
      BY <1>3, <1>4, <2>1, <3>1 DEF Hand, If, OnDesk, InHand
    <3>3. DeskPermit(s)'
      BY <1>4, <2>1, <3>1, <3>2 DEF DeskPermit
    <3>4. OnDesk(s) => desk[s] \in Left(s) /\ desk[s] <= Last /\ (\A v \in Left(s) : desk[s] <= v)
      BY <3>1 DEF InTurn
    <3>5. Left(s) \subseteq DOMAIN Voters /\ DOMAIN Voters \subseteq Nat
          /\ \A v \in Left(s) : Voters[v] = s
      BY LeftIs, Constants
    <3>6. OnDesk(s) => desk[s] <= Last'
      BY <2>3, <3>4, <3>5
    <3>7. InHand(s)' => record' \in Left(s) /\ (OnDesk(s) => record' # desk[s])
      <4>1. record' \in DOMAIN Voters /\ record' > Last /\ record' \in Nat
        BY <2>2, <2>3, <3>5
      <4>2. OnDesk(s) => record' # desk[s]
        BY <2>3, <3>4, <3>5, <4>1
      <4>3. InHand(s)' => record' \in Left(s)
        BY <3>1, <3>2, <4>1 DEF InTurn
      <4> QED BY <4>2, <4>3
    <3>8. \A v \in DOMAIN Voters : v > Last' /\ Voters[v] = s => v \in Left(s)
      BY <2>3, <3>1, <3>5 DEF InTurn
    <3>9. \A v \in Left(s) : v > Last' \/ (OnDesk(s) /\ v = desk[s]) \/ (InHand(s)' /\ v = record')
      <4> SUFFICES ASSUME NEW v \in Left(s), ~ (v > Last')
                   PROVE  (OnDesk(s) /\ v = desk[s]) \/ (InHand(s)' /\ v = record')
        OBVIOUS
      <4>1. v > Last \/ (OnDesk(s) /\ v = desk[s])
        BY <1>4, <3>1, <3>2 DEF InTurn
      <4>2. v > Last => v = record'
        BY <2>3, <3>5
      <4>3. v = record' => InHand(s)'
        BY <2>1, <3>2, <3>5
      <4> QED BY <4>1, <4>2, <4>3
    <3>10. InTurn(s)'
      BY <2>1, <3>1, <3>2, <3>4, <3>6, <3>7, <3>8, <3>9 DEF InTurn
    <3> QED BY <3>3, <3>10
  <2> QED BY <1>11, <2>4, <2>5, <2>6
<1>13. CASE NoMoreVoters
  <2>1. from = "remove" /\ to = "end" /\ hall' = hall
    BY <1>0, <1>1, <1>3, <1>13, Moves, Constants DEF NoMoreVoters
  <2>2. /\ votersQueue' = votersQueue /\ record' = record /\ full' = full /\ empty' = empty
        /\ desk' = desk
    BY <2>1 DEF hall
  <2>3. TypeOK'
    BY <1>1, <1>10, <2>2, HallTyped
  <2>4. FileOrder'
    BY <1>0, <1>3, <2>1, <2>2 DEF FileOrder, Last
  <2>5. ASSUME NEW s \in Sexes
        PROVE  DeskPermit(s)' /\ InTurn(s)'
    <3>1. pc'[s] = pc[s] /\ DeskPermit(s) /\ InTurn(s) /\ Left(s)' = Left(s)
      BY <1>0, <1>5, <1>6, <1>10
    <3>2. Hand(s)' = Hand(s) /\ OnDesk(s)' = OnDesk(s) /\ InHand(s)' = InHand(s) /\ Last' = Last
      BY <1>3, <1>4, <2>1, <2>2, <3>1 DEF Hand, If, OnDesk, InHand, Last
    <3>3. DeskPermit(s)'
      BY <1>4, <2>2, <3>1, <3>2 DEF DeskPermit
    <3>4. InTurn(s)'
      BY <1>4, <2>2, <3>1, <3>2 DEF InTurn
    <3> QED BY <3>3, <3>4
  <2> QED BY <1>11, <2>3, <2>4, <2>5
<1>14. ASSUME NEW s \in Sexes, WaitDesk(s)
       PROVE  IInv'
  <2>1. /\ from = "empty" /\ to = "put" /\ Voters[record] = s /\ empty[s] > 0
        /\ empty' = [empty EXCEPT ![s] = @ - 1]
        /\ votersQueue' = votersQueue /\ record' = record /\ full' = full /\ desk' = desk
    BY <1>0, <1>3, <1>14, Moves, Constants DEF WaitDesk
  <2>2. empty[s] = 1 /\ empty' \in [Sexes -> {0, 1}] /\ empty'[s] = 0
        /\ \A u \in Sexes \ {s} : empty'[u] = empty[u]
    BY <1>10, <2>1
  <2>3. TypeOK'
    BY <1>1, <1>10, <2>1, <2>2, HallTyped
  <2>4. FileOrder'
    BY <1>0, <1>3, <2>1 DEF FileOrder, Last
  <2>5. ASSUME NEW u \in Sexes
        PROVE  DeskPermit(u)' /\ InTurn(u)'
    <3>1. pc'[u] = pc[u] /\ DeskPermit(u) /\ InTurn(u) /\ Left(u)' = Left(u)
      BY <1>0, <1>5, <1>6, <1>10
    <3>2. OnDesk(u)' = OnDesk(u) /\ InHand(u)' = InHand(u) /\ Last' = Last
      BY <1>3, <1>4, <2>1, <3>1 DEF OnDesk, InHand, Last
    <3>3. InTurn(u)'
      BY <1>4, <2>1, <3>1, <3>2 DEF InTurn
    <3>4. DeskPermit(u)'
      <4>1. CASE u = s
        <5>1. Hand(u) = 0 /\ Hand(u)' = 1
          BY <1>3, <2>1, <4>1 DEF Hand, If
        <5> QED BY <1>4, <1>10, <2>1, <2>2, <3>1, <4>1, <5>1 DEF DeskPermit, If
      <4>2. CASE u # s
        <5>1. Hand(u) = 0 /\ Hand(u)' = 0
          BY <1>3, <2>1, <4>2 DEF Hand, If
        <5> QED BY <1>4, <2>1, <2>2, <3>1, <4>2, <5>1 DEF DeskPermit
      <4> QED BY <4>1, <4>2
    <3> QED BY <3>3, <3>4
  <2> QED BY <1>11, <2>3, <2>4, <2>5
<1>15. ASSUME NEW s \in Sexes, PutOnDesk(s)
       PROVE  IInv'
  <2>1. /\ from = "put" /\ to = "release" /\ Voters[record] = s
        /\ desk' = [desk EXCEPT ![s] = record]
        /\ votersQueue' = votersQueue /\ record' = record /\ full' = full /\ empty' = empty
    BY <1>0, <1>3, <1>15, Moves, Constants DEF PutOnDesk
  <2>2. desk' \in [Sexes -> DOMAIN Voters \cup {NoVoter}] /\ desk'[s] = record
        /\ \A u \in Sexes \ {s} : desk'[u] = desk[u]
    BY <1>10, <2>1
  <2>3. TypeOK'
    BY <1>1, <1>10, <2>1, <2>2, HallTyped
  <2>4. FileOrder'
    BY <1>0, <1>3, <2>1 DEF FileOrder, Last
  <2>5. ASSUME NEW u \in Sexes
        PROVE  DeskPermit(u)' /\ InTurn(u)'
    <3>1. pc'[u] = pc[u] /\ DeskPermit(u) /\ InTurn(u) /\ Left(u)' = Left(u) /\ Last' = Last
      BY <1>0, <1>5, <1>6, <1>10, <2>1 DEF Last
    <3>2. Hand(u)' = Hand(u) /\ Hand(u) = If(Voters[record] = u)
      BY <1>3, <2>1 DEF Hand, If
    <3>3. DeskPermit(u)'
      BY <1>4, <2>1, <3>1, <3>2 DEF DeskPermit
    <3>4. InTurn(u)'
      <4>1. CASE u = s
        <5>1. full[u] = 0 /\ pc[u] \notin AtDesk
          BY <1>4, <1>10, <2>1, <3>1, <3>2, <4>1 DEF DeskPermit, If
        <5>2. ~ OnDesk(u) /\ OnDesk(u)' /\ InHand(u) /\ ~ InHand(u)'
          <6>1. pc[u] # "check" /\ pc[u] \notin Inserting
            BY <5>1 DEF AtDesk, Inserting
          <6>2. ~ OnDesk(u)
            BY <1>3, <2>1, <5>1, <6>1 DEF OnDesk
          <6>3. OnDesk(u)'
            BY <1>3, <2>1, <4>1 DEF OnDesk
          <6>4. InHand(u) /\ ~ InHand(u)'
            BY <1>3, <2>1, <4>1 DEF InHand
          <6> QED BY <6>2, <6>3, <6>4
        <5>3. record \in Left(u) /\ record = Last
              /\ \A v \in Left(u) : v > Last \/ v = record
          BY <1>0, <1>3, <1>4, <2>1, <3>1, <5>2 DEF InTurn, FileOrder
        <5>4. Left(u) \subseteq DOMAIN Voters /\ DOMAIN Voters \subseteq Nat
          BY LeftIs, Constants
        <5>5. record <= Last /\ \A v \in Left(u) : record <= v
          BY <5>3, <5>4
        <5> QED BY <1>4, <2>2, <3>1, <4>1, <5>2, <5>3, <5>5 DEF InTurn
      <4>2. CASE u # s
        <5>1. OnDesk(u)' = OnDesk(u) /\ ~ InHand(u) /\ ~ InHand(u)' /\ desk'[u] = desk[u]
          BY <1>3, <1>4, <2>1, <2>2, <3>1, <4>2 DEF OnDesk, InHand
        <5> QED BY <1>4, <3>1, <5>1 DEF InTurn
      <4> QED BY <4>1, <4>2
    <3> QED BY <3>3, <3>4
  <2> QED BY <1>11, <2>3, <2>4, <2>5
<1>16. ASSUME NEW s \in Sexes, CallRegistrar(s)
       PROVE  IInv'
  <2>1. /\ from = "release" /\ to = "remove" /\ Voters[record] = s
        /\ full' = [full EXCEPT ![s] = @ + 1]
        /\ votersQueue' = votersQueue /\ record' = record /\ empty' = empty /\ desk' = desk
    BY <1>0, <1>3, <1>16, Moves, Constants DEF CallRegistrar
  <2>2. Hand(s) = 1 /\ DeskPermit(s)
    BY <1>0, <1>3, <2>1 DEF Hand, If
  <2>3. full[s] = 0
    BY <1>4, <1>10, <2>2 DEF DeskPermit, If
  <2>4. full' \in [Sexes -> {0, 1}] /\ full'[s] = 1 /\ \A u \in Sexes \ {s} : full'[u] = full[u]
    BY <1>10, <2>1, <2>3
  <2>5. TypeOK'
    BY <1>1, <1>10, <2>1, <2>4, HallTyped
  <2>6. FileOrder'
    BY <1>0, <1>3, <2>1 DEF FileOrder, Last
  <2>7. ASSUME NEW u \in Sexes
        PROVE  DeskPermit(u)' /\ InTurn(u)'
    <3>1. pc'[u] = pc[u] /\ DeskPermit(u) /\ InTurn(u) /\ Left(u)' = Left(u) /\ Last' = Last
      BY <1>0, <1>5, <1>6, <1>10, <2>1 DEF Last
    <3>2. CASE u = s
      <4>1. Hand(u)' = 0
        BY <1>3, <2>1 DEF Hand, If
      <4>2. DeskPermit(u)'
        BY <1>4, <1>10, <2>1, <2>2, <2>3, <2>4, <3>1, <3>2, <4>1 DEF DeskPermit, If
      <4>3. OnDesk(u) /\ OnDesk(u)' /\ ~ InHand(u) /\ ~ InHand(u)'
        BY <1>3, <1>4, <2>1, <2>4, <3>2 DEF OnDesk, InHand
      <4>4. InTurn(u)'
        BY <1>4, <2>1, <3>1, <4>3 DEF InTurn
      <4> QED BY <4>2, <4>4
    <3>3. CASE u # s
      <4>1. Hand(u) = 0 /\ Hand(u)' = 0 /\ full'[u] = full[u]
        BY <1>3, <2>1, <2>4, <3>3 DEF Hand, If
      <4>2. DeskPermit(u)'
        BY <1>4, <2>1, <3>1, <4>1 DEF DeskPermit
      <4>3. OnDesk(u)' = OnDesk(u) /\ ~ InHand(u) /\ ~ InHand(u)'
        BY <1>3, <1>4, <2>1, <3>1, <3>3, <4>1 DEF OnDesk, InHand
      <4>4. InTurn(u)'
        BY <1>4, <2>1, <3>1, <4>3 DEF InTurn
      <4> QED BY <4>2, <4>4
    <3> QED BY <3>2, <3>3
  <2> QED BY <1>11, <2>5, <2>6, <2>7
<1> QED BY <1>12, <1>13, <1>14, <1>15, <1>16 DEF checkSex

-----------------------------------------------------------------------------
(* The start, and the end of the process *)

LEMMA InitIInv == Init => IInv
<1> SUFFICES ASSUME Init
             PROVE  IInv
  OBVIOUS
<1>1. /\ pc = [t \in Hall |-> pc[t]] /\ pc["main"] = "join" /\ pc["checkSex"] = "remove"
      /\ \A s \in Sexes : pc[s] = "wait"
      /\ station_pc = [k \in Stations |-> station_pc[k]]
      /\ \A k \in Stations : station_pc[k] = "wait"
  BY DEF Init, Sexes, Hall
<1>2. TypeOK
  <2>1. <<>> \in Seq(DOMAIN Voters) /\ 0 \in 0 .. m - 1 /\ 0 \in 0 .. m /\ m \in 0 .. m
        /\ 0 \in 0 .. n
    BY Constants, EmptySeq
  <2> QED BY <2>1, Constants DEF Init, TypeOK, NoVoter
<1>3. \A s \in Sexes : /\ registered[s] = <<>> /\ Len(registered[s]) = 0
                       /\ 1 .. Len(registered[s]) = {}
  BY EmptySeq DEF Init
<1>4. RegisteredInTurn
  BY <1>3 DEF RegisteredInTurn
<1>5. Placement
  BY <1>1 DEF Placement
<1>6. FlagsTell
  BY <1>1 DEF Init, FlagsTell
<1>7. votersQueue = Loaded /\ Last = Len(Voters) - Len(Loaded)
  BY DEF Init, Last
<1>8. FileOrder
  BY <1>1, <1>7, Constants DEF FileOrder
<1>9. ASSUME NEW s \in Sexes
      PROVE  DeskPermit(s) /\ InTurn(s)
  <2>1. full[s] = 0 /\ empty[s] = 1 /\ Hand(s) = 0 /\ ~ OnDesk(s) /\ ~ InHand(s) /\ ~ isDone
    BY <1>1 DEF Init, Hand, If, OnDesk, InHand, Inserting
  <2>2. If(pc[s] \in AtDesk) = 0 /\ If(pc[s] \in Inside) = 0
    BY <1>1 DEF AtDesk, Inside, If
  <2>3. DeskPermit(s)
    BY <2>1, <2>2 DEF DeskPermit
  <2>4. Left(s) = {v \in DOMAIN Voters : v > Len(Voters) - Len(Loaded) /\ Voters[v] = s}
    BY <1>3 DEF Left, Unregistered
  <2>5. InTurn(s)
    BY <1>7, <2>1, <2>4 DEF InTurn
  <2> QED BY <2>3, <2>5
<1>10. ASSUME NEW k \in Stations
       PROVE  StationPermits(k) /\ Booked(k)
  <2>1. \A s \in Sexes : On(s, k, Placed) = 0 /\ On(s, k, Booking) = 0
    BY <1>1 DEF On, If, Placed, Booking
  <2>2. On("M", k, Placed) = 0 /\ On("F", k, Placed) = 0
        /\ On("M", k, Booking) = 0 /\ On("F", k, Booking) = 0
    BY <2>1 DEF Sexes
  <2>3. If(station_pc[k] \in Called) = 0 /\ If(station_pc[k] \in Opened) = 0
        /\ If(station_pc[k] \in Voting) = 0
    BY <1>1 DEF If, Called, Opened, Voting
  <2>4. emptyQueueM[k] = m /\ fullQueueM[k] = 0 /\ hashFreeStation[k] = 0
    BY DEF Init
  <2> QED BY <2>2, <2>3, <2>4, Constants DEF StationPermits, Booked
<1> QED BY <1>2, <1>4, <1>5, <1>6, <1>8, <1>9, <1>10 DEF IInv, Live

LEMMA Killed ==
    ASSUME TypeOK, RegisteredInTurn, Placement, Crash, hall' = hall, booths' = booths,
           ring' = ring, flags' = flags, locals' = locals
    PROVE  IInv'
<1>1. TypeOK'
  BY DEF TypeOK, hall, booths, ring, flags, locals
<1>2. RegisteredInTurn'
  BY InTurnKept DEF locals
<1>3. Dead'
  BY DEF Placement, Crash, Dead
<1> QED BY <1>1, <1>2, <1>3 DEF IInv

LEMMA DeadStays ==
    ASSUME Dead, Next
    PROVE  FALSE
<1>1. pc["main"] = "crashed" /\ pc["checkSex"] = "crashed"
      /\ (\A s \in Sexes : pc[s] = "crashed") /\ \A k \in Stations : station_pc[k] = "crashed"
  BY Constants DEF Dead
<1>2. ~ MainStep
  BY <1>1 DEF MainStep, JoinCheckSex, WakeRegistrar, JoinRegistrars, WakeStation, JoinStations, Goto
<1>3. ~ checkSex
  BY <1>1 DEF checkSex, RemoveVoter, NoMoreVoters, WaitDesk, PutOnDesk, CallRegistrar, Goto
<1>4. ASSUME NEW s \in Sexes, registrar(s)
      PROVE  FALSE
  BY <1>1, <1>4 DEF registrar, WaitVoter, CheckDone, EnterDesk, Book, NoneFree, WaitPlace,
      EnterStation, InsertLoad, InsertForward, CallStation, ReleaseDesk, Goto
<1>5. ASSUME NEW k \in Stations, station(k)
      PROVE  FALSE
  BY <1>1, <1>5 DEF station, WaitCall, StationCheckDone, StationEnter, RemoveFirst, RemoveCompare,
      RemoveLoad, RemoveForward, Vote, StationLeave, StationRelease, StationGoto
<1> QED BY <1>2, <1>3, <1>4, <1>5 DEF Next

-----------------------------------------------------------------------------
(* _tmain *)

LEMMA MainKeeps ==
    ASSUME TypeOK, RegisteredInTurn, Live, MainStep
    PROVE  IInv'
<1>0. /\ Placement /\ FlagsTell /\ FileOrder
      /\ \A s \in Sexes : DeskPermit(s) /\ InTurn(s)
      /\ \A k \in Stations : StationPermits(k) /\ Booked(k)
  BY DEF Live
<1> DEFINE labels == {"join", "wakeM", "wakeF", "joinBoth", "wakeStations", "end"}
<1>1. /\ votersQueue' = votersQueue /\ record' = record /\ empty' = empty /\ cs' = cs
      /\ desk' = desk /\ hashFreeStation' = hashFreeStation /\ emptyQueueM' = emptyQueueM
      /\ csQueueM' = csQueueM /\ ring' = ring /\ locals' = locals
  BY DEF MainStep, JoinCheckSex, WakeRegistrar, JoinRegistrars, WakeStation, JoinStations,
      hall, booths
<1>2. PICK from \in labels, to \in labels : Goto("main", from, to)
  BY DEF MainStep, JoinCheckSex, WakeRegistrar, JoinRegistrars, WakeStation, JoinStations
<1>3. /\ pc["main"] = from /\ pc'["main"] = to
      /\ (\A u \in Hall \ {"main"} : pc'[u] = pc[u])
      /\ pc' = [u \in Hall |-> pc'[u]] /\ station_pc' = station_pc
  BY <1>0, <1>2, Moves, Constants
<1>4. pc'["checkSex"] = pc["checkSex"] /\ \A s \in Sexes : pc'[s] = pc[s]
  BY <1>3, Constants
<1>5. /\ full \in [Sexes -> {0, 1}] /\ fullQueueM \in [Stations -> 0 .. m] /\ woken \in 0 .. n
      /\ isDone \in BOOLEAN /\ isDoneMaleAndFemale \in BOOLEAN
  BY DEF TypeOK
<1>6. /\ full' \in [Sexes -> {0, 1}] /\ fullQueueM' \in [Stations -> 0 .. m] /\ woken' \in 0 .. n
      /\ isDone' \in BOOLEAN /\ isDoneMaleAndFemale' \in BOOLEAN
      /\ (isDone => isDone') /\ (~ isDone' => full' = full)
      /\ (isDoneMaleAndFemale => isDoneMaleAndFemale')
      /\ (~ isDoneMaleAndFemale' => fullQueueM' = fullQueueM)
      /\ FlagsTell'
  <2>1. CASE JoinCheckSex
    <3>1. /\ from = "join" /\ to = "wakeM" /\ pc["checkSex"] = "end" /\ isDone' = TRUE
          /\ full' = full /\ fullQueueM' = fullQueueM /\ woken' = woken
          /\ isDoneMaleAndFemale' = isDoneMaleAndFemale
      BY <1>0, <1>3, <2>1, Moves, Constants DEF JoinCheckSex, hall, booths
    <3>2. FlagsTell'
      BY <1>0, <1>3, <1>4, <3>1 DEF FlagsTell
    <3> QED BY <1>5, <3>1, <3>2
  <2>2. CASE \E s \in Sexes : WakeRegistrar(s)
    <3>1. PICK s \in Sexes : WakeRegistrar(s)
      BY <2>2
    <3>2. /\ from \in {"wakeM", "wakeF"} /\ to \in {"wakeF", "joinBoth"}
          /\ full' = [full EXCEPT ![s] = Post(@, 1)] /\ fullQueueM' = fullQueueM
          /\ woken' = woken /\ isDone' = isDone /\ isDoneMaleAndFemale' = isDoneMaleAndFemale
      <4>1. /\ full' = [full EXCEPT ![s] = Post(@, 1)] /\ fullQueueM' = fullQueueM
            /\ woken' = woken /\ isDone' = isDone /\ isDoneMaleAndFemale' = isDoneMaleAndFemale
        BY <3>1 DEF WakeRegistrar, booths, flags
      <4>2. Goto("main", "wakeM", "wakeF") \/ Goto("main", "wakeF", "joinBoth")
        BY <3>1 DEF WakeRegistrar
      <4>3. from \in {"wakeM", "wakeF"} /\ to \in {"wakeF", "joinBoth"}
        BY <1>0, <1>3, <4>2, Moves, Constants
      <4> QED BY <4>1, <4>3
    <3>3. Post(full[s], 1) \in {0, 1}
      <4>1. full[s] \in 0 .. 1
        BY <1>5
      <4>2. Post(full[s], 1) \in 0 .. 1
        BY <4>1, Posted
      <4> QED BY <4>2
    <3>4. FlagsTell' /\ isDone
      BY <1>0, <1>3, <1>4, <3>2 DEF FlagsTell
    <3> QED BY <1>5, <3>2, <3>3, <3>4
  <2>3. CASE JoinRegistrars
    <3>1. /\ from = "joinBoth" /\ to = "wakeStations" /\ isDone' = isDone
          /\ (\A s \in Sexes : pc[s] \in {"end", "failed"}) /\ isDoneMaleAndFemale' = TRUE
          /\ full' = full /\ fullQueueM' = fullQueueM /\ woken' = woken
      BY <1>0, <1>3, <2>3, Moves, Constants DEF JoinRegistrars, hall, booths
    <3>2. FlagsTell'
      BY <1>0, <1>3, <1>4, <3>1 DEF FlagsTell
    <3> QED BY <1>5, <3>1, <3>2
  <2>4. CASE WakeStation
    <3>1. /\ from = "wakeStations" /\ to = "wakeStations" /\ isDone' = isDone
          /\ isDoneMaleAndFemale' = isDoneMaleAndFemale /\ full' = full /\ woken < n
          /\ fullQueueM' = [fullQueueM EXCEPT ![woken] = Post(@, m)] /\ woken' = woken + 1
      BY <1>0, <1>3, <2>4, Moves, Constants DEF WakeStation, hall
    <3>2. FlagsTell' /\ isDoneMaleAndFemale
      BY <1>0, <1>3, <1>4, <3>1 DEF FlagsTell
    <3>3. woken \in Stations /\ woken' \in 0 .. n
      <4>1. n \in Nat /\ Stations = 0 .. n - 1
        BY Constants
      <4>2. woken \in 0 .. n /\ woken < n /\ woken' = woken + 1
        BY <1>5, <3>1
      <4>3. woken \in 0 .. n - 1 /\ woken + 1 \in 0 .. n
        BY <4>1, <4>2
      <4> QED BY <4>1, <4>2, <4>3
    <3>4. Post(fullQueueM[woken], m) \in 0 .. m
      <4>1. m \in Nat /\ fullQueueM[woken] \in 0 .. m
        BY <1>5, <3>3, Constants
      <4> QED BY <4>1, Posted
    <3> QED BY <1>5, <3>1, <3>2, <3>3, <3>4
  <2>5. CASE JoinStations
    <3>1. /\ from = "wakeStations" /\ to = "end" /\ isDone' = isDone
          /\ isDoneMaleAndFemale' = isDoneMaleAndFemale /\ full' = full
          /\ fullQueueM' = fullQueueM /\ woken' = woken
      <4>1. from = "wakeStations" /\ to = "end"
        BY <1>0, <1>3, <2>5, Moves, Constants DEF JoinStations
      <4>2. hall' = hall /\ booths' = booths /\ flags' = flags
        BY <2>5 DEF JoinStations
      <4>3. full' = full /\ fullQueueM' = fullQueueM
        BY <4>2 DEF hall, booths
      <4>4. isDone' = isDone /\ isDoneMaleAndFemale' = isDoneMaleAndFemale /\ woken' = woken
        BY <4>2 DEF flags
      <4> QED BY <4>1, <4>3, <4>4
    <3>2. FlagsTell'
      BY <1>0, <1>3, <1>4, <3>1 DEF FlagsTell
    <3> QED BY <1>5, <3>1, <3>2
  <2> QED BY <2>1, <2>2, <2>3, <2>4, <2>5 DEF MainStep
<1>7. TypeOK'
  BY <1>1, <1>6 DEF TypeOK, ring, locals
<1>8. Placement'
  BY <1>0, <1>2, <1>3, <1>4 DEF Placement
<1>9. FileOrder'
  BY <1>0, <1>1, <1>4 DEF FileOrder, Last
<1>10. RegisteredInTurn'
  BY <1>1, InTurnKept DEF locals
<1>11. ASSUME NEW s \in Sexes
       PROVE  DeskPermit(s)' /\ InTurn(s)'
  <2>1. DeskPermit(s) /\ InTurn(s) /\ Left(s)' = Left(s) /\ Last' = Last /\ pc'[s] = pc[s]
    BY <1>0, <1>1, <1>4, LeftSame DEF locals, Last
  <2>2. Hand(s)' = Hand(s) /\ InHand(s)' = InHand(s)
    BY <1>1, <1>4 DEF Hand, If, InHand
  <2>3. (OnDesk(s)' => OnDesk(s)) /\ (~ isDone' => OnDesk(s)' = OnDesk(s))
    BY <1>1, <1>4, <1>6, <2>1 DEF OnDesk
  <2>4. DeskPermit(s)'
    BY <1>1, <1>6, <2>1, <2>2 DEF DeskPermit
  <2>5. InTurn(s)'
    BY <1>1, <1>6, <2>1, <2>2, <2>3 DEF InTurn
  <2> QED BY <2>4, <2>5
<1>12. ASSUME NEW k \in Stations
       PROVE  StationPermits(k)' /\ Booked(k)'
  <2>1. \A s \in Sexes : On(s, k, Placed)' = On(s, k, Placed)
                      /\ On(s, k, Booking)' = On(s, k, Booking)
    BY <1>1, <1>4 DEF On, locals
  <2>2. On("M", k, Placed)' = On("M", k, Placed) /\ On("F", k, Placed)' = On("F", k, Placed)
        /\ On("M", k, Booking)' = On("M", k, Booking) /\ On("F", k, Booking)' = On("F", k, Booking)
    BY <2>1 DEF Sexes
  <2>3. StationPermits(k)'
    BY <1>0, <1>1, <1>3, <1>6, <2>2 DEF StationPermits
  <2>4. Booked(k)'
    BY <1>0, <1>1, <1>3, <1>6, <2>2 DEF Booked
  <2> QED BY <2>3, <2>4
<1> QED BY <1>6, <1>7, <1>8, <1>9, <1>10, <1>11, <1>12 DEF IInv, Live

-----------------------------------------------------------------------------
(* station *)

(* A step of a station that keeps the account of the station.                  *)
LEMMA StationKeeps ==
    ASSUME TypeOK, RegisteredInTurn, Live, NEW k \in Stations,
           NEW from, NEW to \in Called \cup {"wait", "end"}, StationGoto(k, from, to),
           hall' = hall, flags' = flags, place' = place, index' = index,
           registered' = registered, write' = write, read' \in 0 .. m - 1,
           app' \in [Stations -> 0 .. m - 1],
           hashFreeStation' \in [Stations -> {0, 1}], fullQueueM' \in [Stations -> 0 .. m],
           emptyQueueM' \in [Stations -> 0 .. m],
           csQueueM' \in [Stations -> Sexes \cup {"station", "free"}],
           \A q \in Stations \ {k} : /\ hashFreeStation'[q] = hashFreeStation[q]
                                     /\ fullQueueM'[q] = fullQueueM[q]
                                     /\ emptyQueueM'[q] = emptyQueueM[q],
           StationPermits(k)', Booked(k)'
    PROVE  IInv'
<1>0. /\ Placement /\ FlagsTell /\ FileOrder
      /\ \A s \in Sexes : DeskPermit(s) /\ InTurn(s)
      /\ \A q \in Stations : StationPermits(q) /\ Booked(q)
  BY DEF Live
<1>1. /\ station_pc'[k] = to /\ (\A q \in Stations \ {k} : station_pc'[q] = station_pc[q])
      /\ station_pc' = [q \in Stations |-> station_pc'[q]] /\ pc' = pc
  BY <1>0, StationMoves
<1>2. /\ votersQueue' = votersQueue /\ record' = record /\ full' = full /\ empty' = empty
      /\ desk' = desk
  BY DEF hall
<1>3. isDone' = isDone /\ isDoneMaleAndFemale' = isDoneMaleAndFemale
  BY DEF flags
<1>4. TypeOK'
  <2>1. hall' = hall /\ flags' = flags /\ read \in 0 .. m - 1 /\ write' \in 0 .. m - 1
    BY DEF TypeOK
  <2> QED BY <2>1 DEF TypeOK, hall, flags
<1>5. RegisteredInTurn'
  BY InTurnKept
<1>6. Placement'
  BY <1>0, <1>1 DEF Placement
<1>7. FlagsTell'
  BY <1>0, <1>1, <1>3 DEF FlagsTell
<1>8. FileOrder'
  BY <1>0, <1>1, <1>2 DEF FileOrder, Last
<1>9. \A s \in Sexes : DeskPermit(s)' /\ InTurn(s)'
  BY <1>0, <1>1, <1>2, <1>3, DeskFrame
<1>10. ASSUME NEW q \in Stations
       PROVE  StationPermits(q)' /\ Booked(q)'
  <2>1. \A s \in Sexes : On(s, q, Placed)' = On(s, q, Placed)
                      /\ On(s, q, Booking)' = On(s, q, Booking)
    BY <1>1 DEF On
  <2>2. CASE q # k
    BY <1>0, <1>1, <1>3, <2>1, <2>2, StationFrame
  <2> QED BY <2>2
<1> QED BY <1>4, <1>5, <1>6, <1>7, <1>8, <1>9, <1>10 DEF IInv, Live

LEMMA StationStep ==
    ASSUME TypeOK, RegisteredInTurn, Live, NEW k \in Stations, station(k)
    PROVE  IInv'
<1>0. Placement /\ FlagsTell /\ StationPermits(k) /\ Booked(k)
  BY DEF Live
<1> DEFINE placed == On("M", k, Placed) + On("F", k, Placed)
           booking == On("M", k, Booking) + On("F", k, Booking)
<1>1. /\ placed \in Nat /\ booking \in Nat
      /\ ~ isDoneMaleAndFemale =>
            /\ emptyQueueM[k] + placed + fullQueueM[k] + If(station_pc[k] \in Called) = m
            /\ booking + fullQueueM[k] + If(station_pc[k] \in Voting) = hashFreeStation[k]
      /\ emptyQueueM[k] + If(station_pc[k] \in Opened) <= m
  <2>1. \A s, L : On(s, k, L) \in Nat
    BY DEF On, If
  <2>2. emptyQueueM[k] \in Nat /\ fullQueueM[k] \in Nat
    BY Constants DEF TypeOK
  <2>3. If(station_pc[k] \in Called) \in Nat /\ If(station_pc[k] \in Voting) \in Nat
    BY DEF If
  <2> QED BY <1>0, <2>1, <2>2, <2>3 DEF StationPermits, Booked
<1>2. /\ m \in Nat \ {0} /\ emptyQueueM[k] \in 0 .. m /\ fullQueueM[k] \in 0 .. m
      /\ hashFreeStation[k] \in {0, 1} /\ read \in 0 .. m - 1 /\ app[k] \in 0 .. m - 1
      /\ write \in 0 .. m - 1 /\ app \in [Stations -> 0 .. m - 1]
      /\ hashFreeStation \in [Stations -> {0, 1}] /\ fullQueueM \in [Stations -> 0 .. m]
      /\ emptyQueueM \in [Stations -> 0 .. m]
      /\ csQueueM \in [Stations -> Sexes \cup {"station", "free"}]
  BY Constants DEF TypeOK
<1>3. ASSUME pc' = pc, place' = place, isDoneMaleAndFemale' = isDoneMaleAndFemale,
             emptyQueueM'[k] \in Int, fullQueueM'[k] \in Int, hashFreeStation'[k] \in Int,
             ~ isDoneMaleAndFemale =>
                 /\ emptyQueueM'[k] + fullQueueM'[k] + If(station_pc'[k] \in Called)
                       = emptyQueueM[k] + fullQueueM[k] + If(station_pc[k] \in Called)
                 /\ fullQueueM'[k] + If(station_pc'[k] \in Voting) + hashFreeStation[k]
                       = fullQueueM[k] + If(station_pc[k] \in Voting) + hashFreeStation'[k],
             emptyQueueM'[k] + If(station_pc'[k] \in Opened) <= m
      PROVE  StationPermits(k)' /\ Booked(k)'
  <2>1. \A s, L : On(s, k, L) \in Nat
    BY DEF On, If
  <2>2. /\ On("M", k, Placed)' = On("M", k, Placed) /\ On("F", k, Placed)' = On("F", k, Placed)
        /\ On("M", k, Booking)' = On("M", k, Booking) /\ On("F", k, Booking)' = On("F", k, Booking)
    BY <1>3 DEF On
  <2>3. /\ If(station_pc[k] \in Called) \in Nat /\ If(station_pc'[k] \in Called) \in Nat
        /\ If(station_pc[k] \in Voting) \in Nat /\ If(station_pc'[k] \in Voting) \in Nat
    BY DEF If
  <2> HIDE DEF placed, booking
  <2>4. ~ isDoneMaleAndFemale' =>
            /\ emptyQueueM'[k] + placed + fullQueueM'[k] + If(station_pc'[k] \in Called) = m
            /\ booking + fullQueueM'[k] + If(station_pc'[k] \in Voting) = hashFreeStation'[k]
    <3> SUFFICES ASSUME ~ isDoneMaleAndFemale
                 PROVE  /\ emptyQueueM'[k] + placed + fullQueueM'[k]
                              + If(station_pc'[k] \in Called) = m
                        /\ booking + fullQueueM'[k] + If(station_pc'[k] \in Voting)
                              = hashFreeStation'[k]
      BY <1>3
    <3>1. emptyQueueM'[k] + fullQueueM'[k] + If(station_pc'[k] \in Called)
              = emptyQueueM[k] + fullQueueM[k] + If(station_pc[k] \in Called)
      BY <1>3
    <3>2. fullQueueM'[k] + If(station_pc'[k] \in Voting) + hashFreeStation[k]
              = fullQueueM[k] + If(station_pc[k] \in Voting) + hashFreeStation'[k]
      BY <1>3
    <3>3. emptyQueueM[k] + placed + fullQueueM[k] + If(station_pc[k] \in Called) = m
          /\ booking + fullQueueM[k] + If(station_pc[k] \in Voting) = hashFreeStation[k]
      BY <1>1
    <3>4. placed \in Nat /\ booking \in Nat /\ emptyQueueM[k] \in Int /\ fullQueueM[k] \in Int
          /\ hashFreeStation[k] \in Int /\ emptyQueueM'[k] \in Int /\ fullQueueM'[k] \in Int
          /\ hashFreeStation'[k] \in Int /\ m \in Int
      BY <1>1, <1>2, <1>3
    <3>5. PICK c \in Nat, d \in Nat, v \in Nat, w \in Nat :
              /\ c = If(station_pc[k] \in Called) /\ d = If(station_pc'[k] \in Called)
              /\ v = If(station_pc[k] \in Voting) /\ w = If(station_pc'[k] \in Voting)
      BY <2>3
    <3>6. emptyQueueM'[k] + placed + fullQueueM'[k] + d = m
      BY <3>1, <3>3, <3>4, <3>5
    <3>7. booking + fullQueueM'[k] + w = hashFreeStation'[k]
      <4>1. booking + fullQueueM[k] + v = hashFreeStation[k]
        BY <3>3, <3>5
      <4>2. fullQueueM'[k] + w + hashFreeStation[k] = fullQueueM[k] + v + hashFreeStation'[k]
        BY <3>2, <3>5
      <4>3. v \in Int /\ w \in Int
        BY <3>5
      <4> QED BY <3>4, <4>1, <4>2, <4>3
    <3> QED BY <3>5, <3>6, <3>7
  <2>5. emptyQueueM'[k] + placed = emptyQueueM'[k] + On("M", k, Placed)' + On("F", k, Placed)'
        /\ booking = On("M", k, Booking)' + On("F", k, Booking)'
    BY <1>3, <2>1, <2>2 DEF placed, booking
  <2>6. StationPermits(k)'
    BY <1>3, <2>4, <2>5 DEF StationPermits
  <2>7. Booked(k)'
    BY <2>4, <2>5 DEF Booked
  <2> QED BY <2>6, <2>7
<1> HIDE DEF placed, booking
<1>4. CASE WaitCall(k)
  <2>1. /\ StationGoto(k, "wait", "check") /\ station_pc[k] = "wait" /\ station_pc'[k] = "check"
        /\ pc' = pc
    BY <1>0, <1>4, StationMoves DEF WaitCall
  <2>2. /\ fullQueueM[k] > 0 /\ fullQueueM' = [fullQueueM EXCEPT ![k] = @ - 1]
        /\ hall' = hall /\ hashFreeStation' = hashFreeStation /\ emptyQueueM' = emptyQueueM
        /\ csQueueM' = csQueueM /\ ring' = ring /\ flags' = flags /\ locals' = locals
    BY <1>4 DEF WaitCall
  <2>3. /\ read' = read /\ write' = write /\ place' = place /\ index' = index /\ app' = app
        /\ registered' = registered /\ isDoneMaleAndFemale' = isDoneMaleAndFemale
    BY <2>2 DEF ring, locals, flags
  <2>4. fullQueueM'[k] = fullQueueM[k] - 1 /\ fullQueueM[k] - 1 \in 0 .. m
        /\ fullQueueM' \in [Stations -> 0 .. m]
        /\ \A q \in Stations \ {k} : fullQueueM'[q] = fullQueueM[q]
    BY <1>2, <2>2
  <2>5. /\ If(station_pc[k] \in Called) = 0 /\ If(station_pc'[k] \in Called) = 1
        /\ If(station_pc[k] \in Voting) = 0 /\ If(station_pc'[k] \in Voting) = 1
        /\ If(station_pc[k] \in Opened) = 0 /\ If(station_pc'[k] \in Opened) = 0
    BY <2>1 DEF If, Called, Voting, Opened
  <2>6. StationPermits(k)' /\ Booked(k)'
    BY <1>1, <1>2, <1>3, <2>1, <2>2, <2>3, <2>4, <2>5
  <2>7. "check" \in Called
    BY DEF Called
  <2> QED BY <1>2, <2>1, <2>2, <2>3, <2>4, <2>6, <2>7, StationKeeps
<1>5. CASE StationCheckDone(k)
  <2> DEFINE to == IF isDoneMaleAndFemale THEN "end" ELSE "enter"
  <2>1. /\ StationGoto(k, "check", to) /\ station_pc[k] = "check" /\ station_pc'[k] = to
        /\ pc' = pc
    BY <1>0, <1>5, StationMoves DEF StationCheckDone
  <2>2. hall' = hall /\ booths' = booths /\ ring' = ring /\ flags' = flags /\ locals' = locals
    BY <1>5 DEF StationCheckDone
  <2>3. /\ read' = read /\ write' = write /\ place' = place /\ index' = index /\ app' = app
        /\ registered' = registered /\ isDoneMaleAndFemale' = isDoneMaleAndFemale
        /\ hashFreeStation' = hashFreeStation /\ fullQueueM' = fullQueueM
        /\ emptyQueueM' = emptyQueueM /\ csQueueM' = csQueueM
    BY <2>2 DEF ring, locals, flags, booths
  <2>4. If(station_pc[k] \in Called) = 1 /\ If(station_pc[k] \in Voting) = 1
    BY <2>1 DEF If, Called, Voting
  <2>5. StationPermits(k)' /\ Booked(k)'
    <3>1. CASE isDoneMaleAndFemale
      <4>1. /\ If(station_pc'[k] \in Called) = 0 /\ If(station_pc'[k] \in Voting) = 0
            /\ If(station_pc'[k] \in Opened) = 0
        BY <2>1, <3>1 DEF If, Called, Voting, Opened
      <4> QED BY <1>2, <1>3, <2>1, <2>3, <3>1, <4>1
    <3>2. CASE ~ isDoneMaleAndFemale
      <4>1. /\ If(station_pc'[k] \in Called) = 1 /\ If(station_pc'[k] \in Voting) = 1
            /\ If(station_pc'[k] \in Opened) = 1
        BY <2>1, <3>2 DEF If, Called, Voting, Opened
      <4> QED BY <1>1, <1>2, <1>3, <2>1, <2>3, <2>4, <3>2, <4>1
    <3> QED BY <3>1, <3>2
  <2>6. to \in Called \cup {"wait", "end"}
    BY DEF Called
  <2> HIDE DEF to
  <2> QED BY <1>2, <2>1, <2>2, <2>3, <2>5, <2>6, StationKeeps
<1>6. CASE StationEnter(k)
  <2>1. /\ StationGoto(k, "enter", "remove") /\ station_pc[k] = "enter"
        /\ station_pc'[k] = "remove" /\ pc' = pc
    BY <1>0, <1>6, StationMoves DEF StationEnter
  <2>2. /\ csQueueM' = [csQueueM EXCEPT ![k] = "station"]
        /\ hall' = hall /\ hashFreeStation' = hashFreeStation /\ emptyQueueM' = emptyQueueM
        /\ fullQueueM' = fullQueueM /\ ring' = ring /\ flags' = flags /\ locals' = locals
    BY <1>6 DEF StationEnter
  <2>3. /\ read' = read /\ write' = write /\ place' = place /\ index' = index /\ app' = app
        /\ registered' = registered /\ isDoneMaleAndFemale' = isDoneMaleAndFemale
    BY <2>2 DEF ring, locals, flags
  <2>4. csQueueM' \in [Stations -> Sexes \cup {"station", "free"}]
    BY <1>2, <2>2
  <2>5. /\ If(station_pc[k] \in Called) = 1 /\ If(station_pc'[k] \in Called) = 1
        /\ If(station_pc[k] \in Voting) = 1 /\ If(station_pc'[k] \in Voting) = 1
        /\ If(station_pc[k] \in Opened) = 1 /\ If(station_pc'[k] \in Opened) = 1
    BY <2>1 DEF If, Called, Voting, Opened
  <2>6. StationPermits(k)' /\ Booked(k)'
    BY <1>1, <1>2, <1>3, <2>1, <2>2, <2>3, <2>5
  <2>7. "remove" \in Called
    BY DEF Called
  <2> QED BY <1>2, <2>1, <2>2, <2>3, <2>4, <2>6, <2>7, StationKeeps
<1>7. CASE RemoveFirst(k)
  <2>1. PICK to \in {"read_loaded", "write_loaded"}, i \in 0 .. m - 1 :
          StationGoto(k, "remove", to) /\ app' = [app EXCEPT ![k] = i]
    <3>1. CASE StationGoto(k, "remove", "read_loaded") /\ app' = [app EXCEPT ![k] = read]
      BY <1>2, <3>1
    <3>2. CASE StationGoto(k, "remove", "write_loaded") /\ app' = [app EXCEPT ![k] = write]
      BY <1>2, <3>2
    <3> QED BY <1>7, <3>1, <3>2 DEF RemoveFirst
  <2>2. station_pc[k] = "remove" /\ station_pc'[k] = to /\ pc' = pc
    BY <1>0, <2>1, StationMoves
  <2>3. /\ hall' = hall /\ booths' = booths /\ ring' = ring
        /\ flags' = flags /\ place' = place /\ index' = index /\ registered' = registered
    BY <1>7 DEF RemoveFirst
  <2>4. /\ read' = read /\ write' = write /\ isDoneMaleAndFemale' = isDoneMaleAndFemale
        /\ hashFreeStation' = hashFreeStation /\ fullQueueM' = fullQueueM
        /\ emptyQueueM' = emptyQueueM /\ csQueueM' = csQueueM
    BY <2>3 DEF ring, flags, booths
  <2>5. app' \in [Stations -> 0 .. m - 1]
    BY <1>2, <2>1
  <2>6. /\ If(station_pc[k] \in Called) = 1 /\ If(station_pc'[k] \in Called) = 1
        /\ If(station_pc[k] \in Voting) = 1 /\ If(station_pc'[k] \in Voting) = 1
        /\ If(station_pc[k] \in Opened) = 1 /\ If(station_pc'[k] \in Opened) = 1
    BY <2>2 DEF If, Called, Voting, Opened
  <2>7. StationPermits(k)' /\ Booked(k)'
    BY <1>1, <1>2, <1>3, <2>2, <2>3, <2>4, <2>6
  <2>8. to \in Called
    BY DEF Called
  <2> QED BY <1>2, <2>1, <2>3, <2>4, <2>5, <2>7, <2>8, StationKeeps
<1>13. CASE RemoveCompare(k)
  <2>1. /\ hall' = hall /\ booths' = booths /\ ring' = ring /\ flags' = flags /\ locals' = locals
        /\ station_pc[k] \in {"read_loaded", "write_loaded"}
        /\ StationGoto(k, station_pc[k], "load") \/ Crash
    BY <1>13 DEF RemoveCompare
  <2>2. CASE Crash
    BY <1>0, <2>1, <2>2, Killed
  <2>3. CASE StationGoto(k, station_pc[k], "load")
    <3>1. station_pc'[k] = "load" /\ pc' = pc
      BY <1>0, <2>3, StationMoves
    <3>2. /\ read' = read /\ write' = write /\ place' = place /\ index' = index /\ app' = app
          /\ registered' = registered /\ isDoneMaleAndFemale' = isDoneMaleAndFemale
          /\ hashFreeStation' = hashFreeStation /\ fullQueueM' = fullQueueM
          /\ emptyQueueM' = emptyQueueM /\ csQueueM' = csQueueM
      BY <2>1 DEF ring, locals, flags, booths
    <3>3. /\ If(station_pc[k] \in Called) = 1 /\ If(station_pc'[k] \in Called) = 1
          /\ If(station_pc[k] \in Voting) = 1 /\ If(station_pc'[k] \in Voting) = 1
          /\ If(station_pc[k] \in Opened) = 1 /\ If(station_pc'[k] \in Opened) = 1
      BY <2>1, <3>1 DEF If, Called, Voting, Opened
    <3>4. StationPermits(k)' /\ Booked(k)'
      BY <1>1, <1>2, <1>3, <3>1, <3>2, <3>3
    <3>5. "load" \in Called
      BY DEF Called
    <3> QED BY <1>2, <2>1, <2>3, <3>2, <3>4, <3>5, StationKeeps
  <2> QED BY <2>1, <2>2, <2>3
<1>8. CASE RemoveLoad(k)
  <2>1. /\ StationGoto(k, "load", "forward") /\ station_pc[k] = "load"
        /\ station_pc'[k] = "forward" /\ pc' = pc
    BY <1>0, <1>8, StationMoves DEF RemoveLoad
  <2>2. /\ app' = [app EXCEPT ![k] = read] /\ hall' = hall /\ booths' = booths /\ ring' = ring
        /\ flags' = flags /\ place' = place /\ index' = index /\ registered' = registered
    BY <1>8 DEF RemoveLoad
  <2>3. /\ read' = read /\ write' = write /\ isDoneMaleAndFemale' = isDoneMaleAndFemale
        /\ hashFreeStation' = hashFreeStation /\ fullQueueM' = fullQueueM
        /\ emptyQueueM' = emptyQueueM /\ csQueueM' = csQueueM
    BY <2>2 DEF ring, flags, booths
  <2>4. app' \in [Stations -> 0 .. m - 1]
    BY <1>2, <2>2
  <2>5. /\ If(station_pc[k] \in Called) = 1 /\ If(station_pc'[k] \in Called) = 1
        /\ If(station_pc[k] \in Voting) = 1 /\ If(station_pc'[k] \in Voting) = 1
        /\ If(station_pc[k] \in Opened) = 1 /\ If(station_pc'[k] \in Opened) = 1
    BY <2>1 DEF If, Called, Voting, Opened
  <2>6. StationPermits(k)' /\ Booked(k)'
    BY <1>1, <1>2, <1>3, <2>1, <2>2, <2>3, <2>5
  <2>7. "forward" \in Called
    BY DEF Called
  <2> QED BY <1>2, <2>1, <2>2, <2>3, <2>4, <2>6, <2>7, StationKeeps
<1>9. CASE RemoveForward(k)
  <2>1. /\ StationGoto(k, "forward", "vote") /\ station_pc[k] = "forward"
        /\ station_pc'[k] = "vote" /\ pc' = pc
    BY <1>0, <1>9, StationMoves DEF RemoveForward
  <2>2. /\ read' = Advance(app[k]) /\ hall' = hall /\ booths' = booths /\ write' = write
        /\ flags' = flags /\ locals' = locals
    BY <1>9 DEF RemoveForward
  <2>3. /\ place' = place /\ index' = index /\ app' = app
        /\ registered' = registered /\ isDoneMaleAndFemale' = isDoneMaleAndFemale
        /\ hashFreeStation' = hashFreeStation /\ fullQueueM' = fullQueueM
        /\ emptyQueueM' = emptyQueueM /\ csQueueM' = csQueueM
    BY <2>2 DEF locals, flags, booths
  <2>4. read' \in 0 .. m - 1
    BY <1>2, <2>2, Constants
  <2>5. /\ If(station_pc[k] \in Called) = 1 /\ If(station_pc'[k] \in Called) = 1
        /\ If(station_pc[k] \in Voting) = 1 /\ If(station_pc'[k] \in Voting) = 1
        /\ If(station_pc[k] \in Opened) = 1 /\ If(station_pc'[k] \in Opened) = 1
    BY <2>1 DEF If, Called, Voting, Opened
  <2>6. StationPermits(k)' /\ Booked(k)'
    BY <1>1, <1>2, <1>3, <2>1, <2>3, <2>5
  <2>7. "vote" \in Called
    BY DEF Called
  <2> QED BY <1>2, <2>1, <2>2, <2>3, <2>4, <2>6, <2>7, StationKeeps
<1>10. CASE Vote(k)
  <2>1. /\ StationGoto(k, "vote", "leave") /\ station_pc[k] = "vote"
        /\ station_pc'[k] = "leave" /\ pc' = pc
    BY <1>0, <1>10, StationMoves DEF Vote
  <2>2. /\ hashFreeStation' = [hashFreeStation EXCEPT ![k] = 0] /\ hall' = hall
        /\ fullQueueM' = fullQueueM /\ emptyQueueM' = emptyQueueM /\ csQueueM' = csQueueM
        /\ ring' = ring /\ flags' = flags /\ locals' = locals
    BY <1>10 DEF Vote
  <2>3. /\ read' = read /\ write' = write /\ place' = place /\ index' = index /\ app' = app
        /\ registered' = registered /\ isDoneMaleAndFemale' = isDoneMaleAndFemale
    BY <2>2 DEF ring, locals, flags
  <2>4. hashFreeStation'[k] = 0 /\ hashFreeStation' \in [Stations -> {0, 1}]
        /\ \A q \in Stations \ {k} : hashFreeStation'[q] = hashFreeStation[q]
    BY <1>2, <2>2
  <2>5. /\ If(station_pc[k] \in Called) = 1 /\ If(station_pc'[k] \in Called) = 1
        /\ If(station_pc[k] \in Voting) = 1 /\ If(station_pc'[k] \in Voting) = 0
        /\ If(station_pc[k] \in Opened) = 1 /\ If(station_pc'[k] \in Opened) = 1
    BY <2>1 DEF If, Called, Voting, Opened
  <2>6. ~ isDoneMaleAndFemale => booking = 0 /\ fullQueueM[k] = 0
    <3>1. /\ booking \in Nat /\ fullQueueM[k] \in Nat
          /\ hashFreeStation[k] = 0 \/ hashFreeStation[k] = 1
      BY <1>1, <1>2
    <3>2. ~ isDoneMaleAndFemale => booking + fullQueueM[k] + 1 = hashFreeStation[k]
      BY <1>1, <2>5
    <3> QED BY <3>1, <3>2
  <2>7. StationPermits(k)' /\ Booked(k)'
    BY <1>1, <1>2, <1>3, <2>1, <2>2, <2>3, <2>4, <2>5, <2>6
  <2>8. "leave" \in Called
    BY DEF Called
  <2> QED BY <1>2, <2>1, <2>2, <2>3, <2>4, <2>7, <2>8, StationKeeps
<1>11. CASE StationLeave(k)
  <2>1. /\ StationGoto(k, "leave", "release") /\ station_pc[k] = "leave"
        /\ station_pc'[k] = "release" /\ pc' = pc
    BY <1>0, <1>11, StationMoves DEF StationLeave
  <2>2. /\ csQueueM' = [csQueueM EXCEPT ![k] = "free"]
        /\ hall' = hall /\ hashFreeStation' = hashFreeStation /\ emptyQueueM' = emptyQueueM
        /\ fullQueueM' = fullQueueM /\ ring' = ring /\ flags' = flags /\ locals' = locals
    BY <1>11 DEF StationLeave
  <2>3. /\ read' = read /\ write' = write /\ place' = place /\ index' = index /\ app' = app
        /\ registered' = registered /\ isDoneMaleAndFemale' = isDoneMaleAndFemale
    BY <2>2 DEF ring, locals, flags
  <2>4. csQueueM' \in [Stations -> Sexes \cup {"station", "free"}]
    BY <1>2, <2>2
  <2>5. /\ If(station_pc[k] \in Called) = 1 /\ If(station_pc'[k] \in Called) = 1
        /\ If(station_pc[k] \in Voting) = 0 /\ If(station_pc'[k] \in Voting) = 0
        /\ If(station_pc[k] \in Opened) = 1 /\ If(station_pc'[k] \in Opened) = 1
    BY <2>1 DEF If, Called, Voting, Opened
  <2>6. StationPermits(k)' /\ Booked(k)'
    BY <1>1, <1>2, <1>3, <2>1, <2>2, <2>3, <2>5
  <2>7. "release" \in Called
    BY DEF Called
  <2> QED BY <1>2, <2>1, <2>2, <2>3, <2>4, <2>6, <2>7, StationKeeps
<1>12. CASE StationRelease(k)
  <2>1. /\ StationGoto(k, "release", "wait") /\ station_pc[k] = "release"
        /\ station_pc'[k] = "wait" /\ pc' = pc
    BY <1>0, <1>12, StationMoves DEF StationRelease
  <2>2. /\ emptyQueueM' = [emptyQueueM EXCEPT ![k] = @ + 1]
        /\ hall' = hall /\ hashFreeStation' = hashFreeStation /\ csQueueM' = csQueueM
        /\ fullQueueM' = fullQueueM /\ ring' = ring /\ flags' = flags /\ locals' = locals
    BY <1>12 DEF StationRelease
  <2>3. /\ read' = read /\ write' = write /\ place' = place /\ index' = index /\ app' = app
        /\ registered' = registered /\ isDoneMaleAndFemale' = isDoneMaleAndFemale
    BY <2>2 DEF ring, locals, flags
  <2>4. /\ If(station_pc[k] \in Called) = 1 /\ If(station_pc'[k] \in Called) = 0
        /\ If(station_pc[k] \in Voting) = 0 /\ If(station_pc'[k] \in Voting) = 0
        /\ If(station_pc[k] \in Opened) = 1 /\ If(station_pc'[k] \in Opened) = 0
    BY <2>1 DEF If, Called, Voting, Opened
  <2>5. emptyQueueM[k] + 1 \in 0 .. m
    BY <1>1, <1>2, <2>4
  <2>6. emptyQueueM'[k] = emptyQueueM[k] + 1 /\ emptyQueueM' \in [Stations -> 0 .. m]
        /\ \A q \in Stations \ {k} : emptyQueueM'[q] = emptyQueueM[q]
    BY <1>2, <2>2, <2>5
  <2>7. StationPermits(k)' /\ Booked(k)'
    BY <1>1, <1>2, <1>3, <2>1, <2>2, <2>3, <2>4, <2>5, <2>6
  <2> QED BY <1>2, <2>1, <2>2, <2>3, <2>6, <2>7, StationKeeps
<1> QED BY <1>4, <1>5, <1>6, <1>7, <1>8, <1>9, <1>10, <1>11, <1>12, <1>13 DEF station

-----------------------------------------------------------------------------
(* male and female *)

Other(s) == IF s = "M" THEN "F" ELSE "M"

LEMMA BothSexes ==
    ASSUME NEW s \in Sexes
    PROVE  /\ Other(s) \in Sexes \ {s} /\ (\A u \in Sexes : u = s \/ u = Other(s))
           /\ \A k, L : /\ On(s, k, L) \in {0, 1} /\ On(s, k, L)' \in {0, 1}
                        /\ On(Other(s), k, L) \in {0, 1} /\ On(Other(s), k, L)' \in {0, 1}
                        /\ On("M", k, L) + On("F", k, L) = On(s, k, L) + On(Other(s), k, L)
                        /\ On("M", k, L)' + On("F", k, L)' = On(s, k, L)' + On(Other(s), k, L)'
<1>1. \A u, k, L : On(u, k, L) \in {0, 1} /\ On(u, k, L)' \in {0, 1}
  BY DEF On, If
<1>2. \A u, w, k, L : On(u, k, L) + On(w, k, L) = On(w, k, L) + On(u, k, L)
                   /\ On(u, k, L)' + On(w, k, L)' = On(w, k, L)' + On(u, k, L)'
  BY <1>1
<1>3. CASE s = "M"
  <2>1. Other(s) = "F"
    BY <1>3 DEF Other
  <2>2. Other(s) \in Sexes \ {s} /\ \A u \in Sexes : u = s \/ u = Other(s)
    BY <1>3, <2>1 DEF Sexes
  <2> QED BY <1>1, <1>3, <2>1, <2>2
<1>4. CASE s = "F"
  <2>1. Other(s) = "M"
    BY <1>4 DEF Other
  <2>2. Other(s) \in Sexes \ {s} /\ \A u \in Sexes : u = s \/ u = Other(s)
    BY <1>4, <2>1 DEF Sexes
  <2> QED BY <1>1, <1>2, <1>4, <2>1, <2>2
<1> QED BY <1>3, <1>4 DEF Sexes

LEMMA Sums ==
    ASSUME NEW f \in Int, NEW g \in Int, NEW h \in Int, NEW i \in Int, NEW v \in Int,
           NEW y \in Int, NEW w \in Int, NEW t \in Int,
           (y + t) + f + v = h, g + w + h = f + y + i
    PROVE  (w + t) + g + v = i
OBVIOUS

(* The account of a station when a registrar moves.                            *)
LEMMA RegistrarAccount ==
    ASSUME NEW s \in Sexes, NEW q \in Stations, StationPermits(q), Booked(q),
           isDoneMaleAndFemale' = isDoneMaleAndFemale, station_pc' = station_pc,
           place'[Other(s)] = place[Other(s)], pc'[Other(s)] = pc[Other(s)],
           emptyQueueM[q] \in Int, fullQueueM[q] \in Int, hashFreeStation[q] \in Int,
           emptyQueueM'[q] \in Int, fullQueueM'[q] \in Int, hashFreeStation'[q] \in Int, m \in Int,
           emptyQueueM'[q] + fullQueueM'[q] + On(s, q, Placed)'
               = emptyQueueM[q] + fullQueueM[q] + On(s, q, Placed),
           fullQueueM'[q] + On(s, q, Booking)' + hashFreeStation[q]
               = fullQueueM[q] + On(s, q, Booking) + hashFreeStation'[q],
           emptyQueueM'[q] <= emptyQueueM[q]
    PROVE  StationPermits(q)' /\ Booked(q)'
<1>1. /\ On(Other(s), q, Placed)' = On(Other(s), q, Placed)
      /\ On(Other(s), q, Booking)' = On(Other(s), q, Booking)
  BY DEF On
<1>2. PICK c \in Int, v \in Int, o \in Int :
          /\ c = If(station_pc[q] \in Called) /\ v = If(station_pc[q] \in Voting)
          /\ o = If(station_pc[q] \in Opened)
  BY DEF If
<1>3. c = If(station_pc'[q] \in Called) /\ v = If(station_pc'[q] \in Voting)
      /\ o = If(station_pc'[q] \in Opened)
  BY <1>2
<1>4. PICK x \in Int, y \in Int, x1 \in Int, y1 \in Int, z \in Int, t \in Int :
          /\ x = On(s, q, Placed) /\ x1 = On(s, q, Placed)' /\ z = On(Other(s), q, Placed)
          /\ y = On(s, q, Booking) /\ y1 = On(s, q, Booking)' /\ t = On(Other(s), q, Booking)
          /\ On("M", q, Placed) + On("F", q, Placed) = x + z
          /\ On("M", q, Placed)' + On("F", q, Placed)' = x1 + z
          /\ On("M", q, Booking) + On("F", q, Booking) = y + t
          /\ On("M", q, Booking)' + On("F", q, Booking)' = y1 + t
  <2> DEFINE x == On(s, q, Placed)
             y == On(s, q, Booking)
             x1 == On(s, q, Placed)'
             y1 == On(s, q, Booking)'
             z == On(Other(s), q, Placed)
             t == On(Other(s), q, Booking)
  <2>1. x \in Int /\ y \in Int /\ x1 \in Int /\ y1 \in Int /\ z \in Int /\ t \in Int
    BY BothSexes
  <2>2. /\ On("M", q, Placed) + On("F", q, Placed) = x + z
        /\ On("M", q, Placed)' + On("F", q, Placed)' = x1 + z
        /\ On("M", q, Booking) + On("F", q, Booking) = y + t
        /\ On("M", q, Booking)' + On("F", q, Booking)' = y1 + t
    BY <1>1, BothSexes
  <2>3. /\ x = On(s, q, Placed) /\ x1 = On(s, q, Placed)' /\ z = On(Other(s), q, Placed)
        /\ y = On(s, q, Booking) /\ y1 = On(s, q, Booking)' /\ t = On(Other(s), q, Booking)
    OBVIOUS
  <2> HIDE DEF x, y, x1, y1, z, t
  <2> QED BY <2>1, <2>2, <2>3
<1>5. \A a, b, w : On(a, b, w) \in Int /\ On(a, b, w)' \in Int
  BY DEF On, If
<1>6. StationPermits(q)'
  <2>1. emptyQueueM[q] + o <= m
    BY <1>2 DEF StationPermits
  <2>2. emptyQueueM'[q] + o <= m
    <3>1. o \in Int
      BY <1>2
    <3> QED BY <2>1, <3>1
  <2>3. ASSUME ~ isDoneMaleAndFemale
        PROVE  emptyQueueM'[q] + On("M", q, Placed)' + On("F", q, Placed)' + fullQueueM'[q] + c = m
    <3>1. emptyQueueM[q] + On("M", q, Placed) + On("F", q, Placed) + fullQueueM[q] + c = m
      BY <1>2, <2>3 DEF StationPermits
    <3>2. emptyQueueM[q] + (x + z) + fullQueueM[q] + c = m
      BY <1>4, <1>5, <3>1
    <3>3. emptyQueueM'[q] + fullQueueM'[q] + x1 = emptyQueueM[q] + fullQueueM[q] + x
      BY <1>4
    <3>4. c \in Int /\ x \in Int /\ x1 \in Int /\ z \in Int
      BY <1>2, <1>4
    <3>5. emptyQueueM'[q] + (x1 + z) + fullQueueM'[q] + c = m
      BY <3>2, <3>3, <3>4
    <3> QED BY <1>4, <1>5, <3>5
  <2> QED BY <1>3, <2>2, <2>3 DEF StationPermits
<1>7. Booked(q)'
  <2>1. ASSUME ~ isDoneMaleAndFemale
        PROVE  On("M", q, Booking)' + On("F", q, Booking)' + fullQueueM'[q] + v
                   = hashFreeStation'[q]
    <3>1. (y + t) + fullQueueM[q] + v = hashFreeStation[q]
      BY <1>2, <1>4, <2>1 DEF Booked
    <3>2. fullQueueM'[q] + y1 + hashFreeStation[q] = fullQueueM[q] + y + hashFreeStation'[q]
      BY <1>4
    <3>3. v \in Int /\ y \in Int /\ y1 \in Int /\ t \in Int
      BY <1>2, <1>4
    <3>4. (y1 + t) + fullQueueM'[q] + v = hashFreeStation'[q]
      BY <3>1, <3>2, <3>3, Sums
    <3> QED BY <1>4, <3>4
  <2> QED BY <1>3, <2>1 DEF Booked
<1> QED BY <1>6, <1>7

LEMMA RegistrarTyped ==
    ASSUME TypeOK, votersQueue' = votersQueue, record' = record, desk' = desk, flags' = flags,
           app' = app, read' = read, full' \in [Sexes -> {0, 1}], empty' \in [Sexes -> {0, 1}],
           \A u \in Sexes : cs'[u] \in {"free", u},
           hashFreeStation' \in [Stations -> {0, 1}], fullQueueM' \in [Stations -> 0 .. m],
           emptyQueueM' \in [Stations -> 0 .. m],
           csQueueM' \in [Stations -> Sexes \cup {"station", "free"}],
           write' \in 0 .. m - 1, place' \in [Sexes -> Stations],
           registered' \in [Sexes -> Seq(DOMAIN Voters)], index' \in [Sexes -> 0 .. m - 1]
    PROVE  TypeOK'
<1>1. /\ isDone' \in BOOLEAN /\ isDoneMaleAndFemale' \in BOOLEAN /\ woken' \in 0 .. n
  BY DEF TypeOK, flags
<1>2. {read', write'} \subseteq 0 .. m - 1 /\ app' \in [Stations -> 0 .. m - 1]
  BY DEF TypeOK
<1> QED BY <1>1, <1>2 DEF TypeOK

(* A step of a registrar that keeps the accounts of its desk and the stations. *)
LEMMA RegistrarKeeps ==
    ASSUME Live, NEW s \in Sexes, NEW from \in (AtDesk \cup {"wait"}) \ {"failed"},
           NEW to \in AtDesk \cup {"wait", "end"}, Goto(s, from, to),
           votersQueue' = votersQueue, record' = record, flags' = flags, desk' = desk,
           \A u \in Sexes \ {s} : /\ full'[u] = full[u] /\ empty'[u] = empty[u]
                                  /\ registered'[u] = registered[u],
           TypeOK', RegisteredInTurn', DeskPermit(s)', InTurn(s)',
           \A q \in Stations : StationPermits(q)' /\ Booked(q)'
    PROVE  IInv'
<1>0. /\ Placement /\ FlagsTell /\ FileOrder /\ s \in Hall
      /\ \A u \in Sexes : DeskPermit(u) /\ InTurn(u)
  BY DEF Live, Hall
<1>1. /\ pc[s] = from /\ pc'[s] = to /\ (\A u \in Hall \ {s} : pc'[u] = pc[u])
      /\ pc' = [u \in Hall |-> pc'[u]] /\ station_pc' = station_pc
  BY <1>0, Moves
<1>2. /\ pc'["main"] = pc["main"] /\ pc'["checkSex"] = pc["checkSex"]
      /\ \A u \in Sexes \ {s} : pc'[u] = pc[u]
  <2>1. "main" \in Hall \ {s} /\ "checkSex" \in Hall \ {s} /\ Sexes \subseteq Hall
    BY DEF Hall, Sexes
  <2> QED BY <1>1, <2>1
<1>3. isDone' = isDone /\ isDoneMaleAndFemale' = isDoneMaleAndFemale
  BY DEF flags
<1>4. Placement'
  <2>1. \A u \in Sexes : pc'[u] \in AtDesk \cup {"wait", "end"}
    BY <1>0, <1>1, <1>2 DEF Placement
  <2> QED BY <1>0, <1>1, <1>2, <2>1 DEF Placement
<1>5. FlagsTell'
  <2>1. from \notin {"end", "failed"}
    BY DEF AtDesk
  <2>2. ~ isDoneMaleAndFemale
    BY <1>0, <1>1, <2>1 DEF FlagsTell
  <2> QED BY <1>0, <1>2, <1>3, <2>2 DEF FlagsTell
<1>6. FileOrder'
  BY <1>0, <1>2 DEF FileOrder, Last
<1>7. ASSUME NEW u \in Sexes
      PROVE  DeskPermit(u)' /\ InTurn(u)'
  <2>1. CASE u # s
    <3>1. pc'[u] = pc[u] /\ full'[u] = full[u] /\ empty'[u] = empty[u]
          /\ registered'[u] = registered[u] /\ desk'[u] = desk[u]
          /\ DeskPermit(u) /\ InTurn(u)
      BY <1>0, <1>2, <2>1
    <3> QED BY <1>2, <1>3, <3>1, DeskFrame
  <2> QED BY <2>1
<1> QED BY <1>4, <1>5, <1>6, <1>7 DEF IInv, Live

(* Nothing changes on the desk.                                                *)
LEMMA RegistrarDesk ==
    ASSUME NEW s \in Sexes, DeskPermit(s), InTurn(s), pc'["checkSex"] = pc["checkSex"],
           record' = record, votersQueue' = votersQueue, isDone' = isDone, full' = full,
           empty' = empty, desk' = desk, registered' = registered,
           pc[s] \in Inside, pc'[s] \in Inside, pc[s] \in Inserting <=> pc'[s] \in Inserting
    PROVE  DeskPermit(s)' /\ InTurn(s)'
<1>1. pc[s] \in AtDesk /\ pc'[s] \in AtDesk /\ pc[s] # "check" /\ pc'[s] # "check"
  BY DEF Inside
<1>2. If(pc[s] \in AtDesk) = 1 /\ If(pc'[s] \in AtDesk) = 1
      /\ If(pc[s] \in Inside) = 1 /\ If(pc'[s] \in Inside) = 1
  BY <1>1 DEF If
<1>3. Hand(s)' = Hand(s)
  BY DEF Hand, If
<1>4. DeskPermit(s)'
  BY <1>2, <1>3 DEF DeskPermit
<1>5. Left(s)' = Left(s) /\ Last' = Last /\ InHand(s)' = InHand(s) /\ OnDesk(s)' = OnDesk(s)
  <2>1. Left(s)' = Left(s)
    BY LeftSame
  <2> QED BY <1>1, <2>1 DEF Last, InHand, OnDesk
<1>6. InTurn(s)'
  BY <1>5 DEF InTurn
<1> QED BY <1>4, <1>6

(* The registrar inserts the first of the voters that are left.                *)
LEMMA TakesTurn ==
    ASSUME RegisteredInTurn, NEW s \in Sexes, NEW x \in Left(s), \A v \in Left(s) : x <= v,
           registered \in [Sexes -> Seq(DOMAIN Voters)],
           registered' = [registered EXCEPT ![s] = Append(@, x)]
    PROVE  RegisteredInTurn'
<1> SUFFICES ASSUME NEW u \in Sexes, NEW i \in 1 .. Len(registered'[u])
             PROVE  /\ registered'[u][i] \in Unregistered(u, i - 1)'
                    /\ \A v \in Unregistered(u, i - 1)' : registered'[u][i] <= v
  BY DEF RegisteredInTurn
<1>1. CASE u # s
  <2>1. registered'[u] = registered[u]
    BY <1>1
  <2>2. Unregistered(u, i - 1)' = Unregistered(u, i - 1)
    BY <2>1 DEF Unregistered
  <2> QED BY <2>1, <2>2 DEF RegisteredInTurn
<1>2. CASE u = s
  <2> DEFINE R == registered[s]
             l == Len(registered[s])
  <2>1. R \in Seq(DOMAIN Voters) /\ x \in DOMAIN Voters /\ registered'[s] = Append(R, x)
    BY LeftIs
  <2>2. /\ l \in Nat /\ Len(registered'[s]) = l + 1 /\ registered'[s][l + 1] = x
        /\ \A j \in 1 .. l : registered'[s][j] = R[j]
    BY <2>1, AppendProperties, LenProperties
  <2>3. i \in 1 .. l + 1 /\ \A j \in 1 .. i - 1 : j \in 1 .. l
    BY <1>2, <2>2
  <2>4. {registered'[s][j] : j \in 1 .. i - 1} = {registered[s][j] : j \in 1 .. i - 1}
    BY <2>2, <2>3
  <2>5. Unregistered(s, i - 1)' = Unregistered(s, i - 1)
    BY <2>4 DEF Unregistered
  <2>6. CASE i \in 1 .. l
    BY <1>2, <2>2, <2>5, <2>6 DEF RegisteredInTurn
  <2>7. CASE i = l + 1
    <3>1. i - 1 = l
      BY <2>2, <2>7
    <3>2. Unregistered(s, i - 1)' = Left(s)
      BY <2>5, <3>1 DEF Left
    <3> QED BY <1>2, <2>2, <2>7, <3>2
  <2> QED BY <2>2, <2>3, <2>6, <2>7
<1> QED BY <1>1, <1>2

LEMMA RegistrarStep ==
    ASSUME TypeOK, RegisteredInTurn, Live, NEW s \in Sexes, registrar(s)
    PROVE  IInv'
<1>0. /\ Placement /\ FlagsTell /\ DeskPermit(s) /\ InTurn(s) /\ s \in Hall
      /\ \A q \in Stations : StationPermits(q) /\ Booked(q)
  BY DEF Live, Hall
<1>1. /\ full \in [Sexes -> {0, 1}] /\ empty \in [Sexes -> {0, 1}]
      /\ (\A u \in Sexes : cs[u] \in {"free", u})
      /\ hashFreeStation \in [Stations -> {0, 1}] /\ fullQueueM \in [Stations -> 0 .. m]
      /\ emptyQueueM \in [Stations -> 0 .. m]
      /\ csQueueM \in [Stations -> Sexes \cup {"station", "free"}]
      /\ write \in 0 .. m - 1 /\ place \in [Sexes -> Stations]
      /\ registered \in [Sexes -> Seq(DOMAIN Voters)] /\ index \in [Sexes -> 0 .. m - 1]
  BY DEF TypeOK
<1>2. m \in Nat \ {0} /\ (\A q \in Stations : /\ hashFreeStation[q] \in Int
                                             /\ fullQueueM[q] \in Int /\ emptyQueueM[q] \in Int)
  <2>1. m \in Nat \ {0}
    BY Constants
  <2>2. ASSUME NEW q \in Stations
        PROVE  /\ hashFreeStation[q] \in {0, 1} /\ fullQueueM[q] \in 0 .. m
               /\ emptyQueueM[q] \in 0 .. m
    BY <1>1
  <2> QED BY <2>1, <2>2
<1>3. ASSUME NEW from, NEW to, Goto(s, from, to)
      PROVE  /\ pc[s] = from /\ pc'[s] = to /\ station_pc' = station_pc
             /\ pc'["checkSex"] = pc["checkSex"] /\ pc'[Other(s)] = pc[Other(s)]
  <2>1. "checkSex" \in Hall \ {s} /\ Other(s) \in Hall \ {s}
    BY BothSexes DEF Hall, Sexes
  <2> QED BY <1>0, <1>3, <2>1, Moves
<1>4. ASSUME booths' = booths
      PROVE  /\ hashFreeStation' = hashFreeStation /\ fullQueueM' = fullQueueM
             /\ emptyQueueM' = emptyQueueM /\ csQueueM' = csQueueM
  BY <1>4 DEF booths
<1>5. ASSUME ring' = ring
      PROVE  read' = read /\ write' = write
  BY <1>5 DEF ring
<1>6. ASSUME locals' = locals
      PROVE  place' = place /\ index' = index /\ app' = app /\ registered' = registered
  BY <1>6 DEF locals
<1>7. ASSUME flags' = flags
      PROVE  isDone' = isDone /\ isDoneMaleAndFemale' = isDoneMaleAndFemale
  BY <1>7 DEF flags
<1>8. ASSUME hall' = hall
      PROVE  /\ votersQueue' = votersQueue /\ record' = record /\ full' = full
             /\ empty' = empty /\ cs' = cs /\ desk' = desk
  BY <1>8 DEF hall
(* The stations see nothing of a step on the desk. *)
<1>9. ASSUME isDoneMaleAndFemale' = isDoneMaleAndFemale, station_pc' = station_pc,
             place' = place, pc'[Other(s)] = pc[Other(s)], hashFreeStation' = hashFreeStation,
             fullQueueM' = fullQueueM, emptyQueueM' = emptyQueueM,
             pc[s] \in Placed <=> pc'[s] \in Placed, pc[s] \in Booking <=> pc'[s] \in Booking
      PROVE  \A q \in Stations : StationPermits(q)' /\ Booked(q)'
  <2> SUFFICES ASSUME NEW q \in Stations
               PROVE  StationPermits(q)' /\ Booked(q)'
    OBVIOUS
  <2>1. On(s, q, Placed)' = On(s, q, Placed) /\ On(s, q, Booking)' = On(s, q, Booking)
    BY <1>9 DEF On, If
  <2>2. On(s, q, Placed) \in Int /\ On(s, q, Booking) \in Int
    BY DEF On, If
  <2>3. StationPermits(q) /\ Booked(q) /\ hashFreeStation[q] \in Int /\ fullQueueM[q] \in Int
        /\ emptyQueueM[q] \in Int /\ m \in Int
    BY <1>0, <1>2
  <2>4. emptyQueueM'[q] <= emptyQueueM[q] /\ hashFreeStation'[q] = hashFreeStation[q]
        /\ fullQueueM'[q] = fullQueueM[q] /\ emptyQueueM'[q] = emptyQueueM[q]
    BY <1>9, <2>3
  <2> QED BY <1>9, <2>1, <2>2, <2>3, <2>4, RegistrarAccount
<1>10. CASE WaitVoter(s)
  <2>1. /\ Goto(s, "wait", "check") /\ full[s] > 0 /\ full' = [full EXCEPT ![s] = @ - 1]
        /\ votersQueue' = votersQueue /\ record' = record /\ empty' = empty /\ cs' = cs
        /\ desk' = desk /\ booths' = booths /\ ring' = ring /\ flags' = flags
        /\ locals' = locals
    BY <1>10 DEF WaitVoter
  <2>2. full[s] = 1 /\ full'[s] = 0 /\ full' \in [Sexes -> {0, 1}]
        /\ \A u \in Sexes \ {s} : full'[u] = full[u]
    BY <1>1, <2>1
  <2>3. TypeOK'
    BY <1>1, <1>4, <1>5, <1>6, <2>1, <2>2, RegistrarTyped
  <2>4. DeskPermit(s)'
    <3>1. /\ If(pc[s] \in AtDesk) = 0 /\ If(pc'[s] \in AtDesk) = 1
          /\ If(pc[s] \in Inside) = 0 /\ If(pc'[s] \in Inside) = 0
      BY <1>3, <2>1 DEF If, AtDesk, Inside
    <3>2. Hand(s)' = Hand(s) /\ Hand(s) \in {0, 1} /\ isDone' = isDone
      BY <1>3, <1>7, <2>1 DEF Hand, If
    <3>3. empty[s] \in Int /\ Hand(s) \in Int /\ empty'[s] = empty[s]
      BY <1>1, <2>1, <3>2
    <3> QED BY <1>0, <2>2, <3>1, <3>2, <3>3 DEF DeskPermit
  <2>5. InTurn(s)'
    <3>1. Left(s)' = Left(s)
      BY <1>6, <2>1, LeftSame
    <3>2. Last' = Last /\ InHand(s)' = InHand(s) /\ isDone' = isDone
      BY <1>3, <1>7, <2>1 DEF Last, InHand
    <3>3. OnDesk(s)' = OnDesk(s)
      BY <1>3, <1>7, <2>1, <2>2 DEF OnDesk, Inserting
    <3> QED BY <1>0, <2>1, <3>1, <3>2, <3>3 DEF InTurn
  <2>6. RegisteredInTurn'
    BY <1>6, <2>1, InTurnKept
  <2>7. \A q \in Stations : StationPermits(q)' /\ Booked(q)'
    <3>1. pc[s] \notin Booking /\ pc'[s] \notin Booking
      BY <1>3, <2>1 DEF Booking
    <3>2. pc[s] \notin Placed /\ pc'[s] \notin Placed
      BY <3>1 DEF Placed
    <3> QED BY <1>3, <1>4, <1>6, <1>7, <1>9, <2>1, <3>1, <3>2
  <2>8. "wait" \in (AtDesk \cup {"wait"}) \ {"failed"} /\ "check" \in AtDesk
    BY DEF AtDesk
  <2> QED BY <1>6, <2>1, <2>2, <2>3, <2>4, <2>5, <2>6, <2>7, <2>8, RegistrarKeeps
<1>11. CASE CheckDone(s)
  <2> DEFINE to == IF isDone THEN "end" ELSE "enter"
  <2>1. /\ Goto(s, "check", to) /\ hall' = hall /\ booths' = booths /\ ring' = ring
        /\ flags' = flags /\ locals' = locals
    BY <1>11 DEF CheckDone
  <2>2. /\ votersQueue' = votersQueue /\ record' = record /\ full' = full
        /\ empty' = empty /\ cs' = cs /\ desk' = desk
    BY <1>8, <2>1
  <2>3. TypeOK'
    BY <1>1, <1>4, <1>5, <1>6, <2>1, <2>2, RegistrarTyped
  <2>4. pc[s] = "check" /\ pc'[s] = to /\ pc'["checkSex"] = pc["checkSex"] /\ isDone' = isDone
    BY <1>3, <1>7, <2>1
  <2>5. Left(s)' = Left(s) /\ Last' = Last /\ InHand(s)' = InHand(s) /\ Hand(s)' = Hand(s)
    BY <1>6, <2>1, <2>2, <2>4, LeftSame DEF Last, InHand, Hand, If
  <2>6. DeskPermit(s)'
    <3>1. If(pc[s] \in AtDesk) = 1 /\ If(pc[s] \in Inside) = 0
      BY <2>4 DEF If, AtDesk, Inside
    <3>2. CASE isDone
      <4>1. If(pc'[s] \in Inside) = 0
        BY <2>4, <3>2 DEF If, AtDesk, Inside
      <4> QED BY <1>0, <1>1, <2>2, <2>4, <3>1, <3>2, <4>1 DEF DeskPermit
    <3>3. CASE ~ isDone
      <4>1. If(pc'[s] \in AtDesk) = 1 /\ If(pc'[s] \in Inside) = 1
        BY <2>4, <3>3 DEF If, AtDesk, Inside
      <4>2. empty[s] = 0
        <5>1. Hand(s) \in {0, 1} /\ full[s] \in {0, 1} /\ empty[s] \in {0, 1}
          BY <1>1 DEF Hand, If
        <5> QED BY <1>0, <3>1, <3>3, <5>1 DEF DeskPermit
      <4> QED BY <1>0, <2>2, <2>4, <2>5, <3>1, <3>3, <4>1, <4>2 DEF DeskPermit
    <3> QED BY <3>2, <3>3
  <2>7. OnDesk(s)' = OnDesk(s)
    <3>1. CASE isDone
      <4>1. pc["checkSex"] # "release"
        BY <1>0, <3>1 DEF FlagsTell
      <4> QED BY <2>4, <3>1, <4>1 DEF OnDesk, Inserting
    <3>2. CASE ~ isDone
      BY <2>4, <3>2 DEF OnDesk, Inserting
    <3> QED BY <3>1, <3>2
  <2>8. InTurn(s)'
    BY <1>0, <2>2, <2>4, <2>5, <2>7 DEF InTurn
  <2>9. RegisteredInTurn'
    BY <1>6, <2>1, InTurnKept
  <2>10. \A q \in Stations : StationPermits(q)' /\ Booked(q)'
    <3>1. pc[s] \notin Booking /\ pc'[s] \notin Booking
      BY <2>4 DEF Booking
    <3>2. pc[s] \notin Placed /\ pc'[s] \notin Placed
      BY <3>1 DEF Placed
    <3> QED BY <1>3, <1>4, <1>6, <1>7, <1>9, <2>1, <3>1, <3>2
  <2>11. "check" \in (AtDesk \cup {"wait"}) \ {"failed"} /\ to \in AtDesk \cup {"wait", "end"}
    BY DEF AtDesk
  <2> HIDE DEF to
  <2> QED BY <1>6, <2>1, <2>2, <2>3, <2>6, <2>8, <2>9, <2>10, <2>11, RegistrarKeeps
<1>12. CASE EnterDesk(s)
  <2>1. /\ Goto(s, "enter", "book") /\ cs' = [cs EXCEPT ![s] = s]
        /\ votersQueue' = votersQueue /\ record' = record /\ full' = full /\ empty' = empty
        /\ desk' = desk /\ booths' = booths /\ ring' = ring /\ flags' = flags
        /\ locals' = locals
    BY <1>12 DEF EnterDesk
  <2>2. \A u \in Sexes : cs'[u] \in {"free", u}
    BY <1>1, <2>1
  <2>3. TypeOK'
    BY <1>1, <1>4, <1>5, <1>6, <2>1, <2>2, RegistrarTyped
  <2>4. pc[s] = "enter" /\ pc'[s] = "book"
    BY <1>3, <2>1
  <2>5. /\ pc[s] \in Inside /\ pc'[s] \in Inside /\ pc[s] \in Inserting /\ pc'[s] \in Inserting
        /\ pc[s] \notin Booking /\ pc'[s] \notin Booking
        /\ pc[s] \notin Placed /\ pc'[s] \notin Placed
    BY <2>4 DEF Inside, AtDesk, Inserting, Booking, Placed
  <2>6. DeskPermit(s)' /\ InTurn(s)'
    BY <1>0, <1>3, <1>6, <1>7, <2>1, <2>5, RegistrarDesk
  <2>7. RegisteredInTurn'
    BY <1>6, <2>1, InTurnKept
  <2>8. \A q \in Stations : StationPermits(q)' /\ Booked(q)'
    BY <1>3, <1>4, <1>6, <1>7, <1>9, <2>1, <2>5
  <2>9. "enter" \in (AtDesk \cup {"wait"}) \ {"failed"} /\ "book" \in AtDesk
    BY DEF AtDesk
  <2> QED BY <1>6, <2>1, <2>3, <2>6, <2>7, <2>8, <2>9, RegistrarKeeps
<1>13. CASE Book(s)
  <2> DEFINE k == Min(FreeStations)
  <2>1. /\ FreeStations # {} /\ Goto(s, "book", "empty") /\ place' = [place EXCEPT ![s] = k]
        /\ hashFreeStation' = [hashFreeStation EXCEPT ![k] = 1] /\ hall' = hall
        /\ fullQueueM' = fullQueueM /\ emptyQueueM' = emptyQueueM /\ csQueueM' = csQueueM
        /\ ring' = ring /\ flags' = flags /\ index' = index /\ app' = app
        /\ registered' = registered
    BY <1>13 DEF Book
  <2>2. k \in Stations /\ hashFreeStation[k] = 0
    <3>1. FreeStations \in SUBSET Nat
      BY Constants DEF FreeStations
    <3>2. k \in FreeStations
      BY <2>1, <3>1, MinOfNaturals
    <3> QED BY <3>2 DEF FreeStations
  <2> HIDE DEF k
  <2>3. /\ place' \in [Sexes -> Stations] /\ place'[s] = k
        /\ (\A u \in Sexes \ {s} : place'[u] = place[u])
        /\ hashFreeStation' \in [Stations -> {0, 1}] /\ hashFreeStation'[k] = 1
        /\ \A q \in Stations \ {k} : hashFreeStation'[q] = hashFreeStation[q]
    BY <1>1, <2>1, <2>2
  <2>4. TypeOK'
    BY <1>1, <1>5, <1>8, <2>1, <2>3, RegistrarTyped
  <2>5. pc[s] = "book" /\ pc'[s] = "empty"
    BY <1>3, <2>1
  <2>6. /\ pc[s] \in Inside /\ pc'[s] \in Inside /\ pc[s] \in Inserting /\ pc'[s] \in Inserting
        /\ pc[s] \notin Booking /\ pc'[s] \in Booking
        /\ pc[s] \notin Placed /\ pc'[s] \notin Placed
    BY <2>5 DEF Inside, AtDesk, Inserting, Booking, Placed
  <2>7. DeskPermit(s)' /\ InTurn(s)'
    BY <1>0, <1>3, <1>7, <1>8, <2>1, <2>6, RegistrarDesk
  <2>8. RegisteredInTurn'
    BY <2>1, InTurnKept
  <2>9. ASSUME NEW q \in Stations
        PROVE  StationPermits(q)' /\ Booked(q)'
    <3>1. /\ On(s, q, Placed)' = 0 /\ On(s, q, Placed) = 0 /\ On(s, q, Booking) = 0
          /\ On(s, q, Booking)' = (IF q = k THEN 1 ELSE 0)
      BY <2>3, <2>6 DEF On, If
    <3>2. hashFreeStation'[q] = hashFreeStation[q] + (IF q = k THEN 1 ELSE 0)
          /\ emptyQueueM'[q] = emptyQueueM[q] /\ fullQueueM'[q] = fullQueueM[q]
      BY <1>2, <2>1, <2>2, <2>3
    <3>3. StationPermits(q) /\ Booked(q) /\ hashFreeStation[q] \in Int /\ fullQueueM[q] \in Int
          /\ emptyQueueM[q] \in Int /\ m \in Int
      BY <1>0, <1>2
    <3>4. /\ isDoneMaleAndFemale' = isDoneMaleAndFemale /\ station_pc' = station_pc
          /\ place'[Other(s)] = place[Other(s)] /\ pc'[Other(s)] = pc[Other(s)]
      BY <1>3, <1>7, <2>1, <2>3, BothSexes
    <3>5. /\ emptyQueueM'[q] + fullQueueM'[q] + On(s, q, Placed)'
               = emptyQueueM[q] + fullQueueM[q] + On(s, q, Placed)
          /\ emptyQueueM'[q] <= emptyQueueM[q]
      BY <3>1, <3>2, <3>3
    <3>6. fullQueueM'[q] + On(s, q, Booking)' + hashFreeStation[q]
               = fullQueueM[q] + On(s, q, Booking) + hashFreeStation'[q]
      BY <3>1, <3>2, <3>3
    <3>7. hashFreeStation'[q] \in Int /\ fullQueueM'[q] \in Int /\ emptyQueueM'[q] \in Int
      BY <3>2, <3>3
    <3> QED BY <3>3, <3>4, <3>5, <3>6, <3>7, RegistrarAccount
  <2>10. "book" \in (AtDesk \cup {"wait"}) \ {"failed"} /\ "empty" \in AtDesk
    BY DEF AtDesk
  <2> QED BY <1>8, <2>1, <2>4, <2>7, <2>8, <2>9, <2>10, RegistrarKeeps
<1>14. CASE NoneFree(s)
  <2>1. /\ hall' = hall /\ booths' = booths /\ ring' = ring /\ flags' = flags /\ locals' = locals
        /\ Goto(s, "book", "failed") \/ Crash
    BY <1>14 DEF NoneFree
  <2>2. CASE Crash
    BY <1>0, <2>1, <2>2, Killed
  <2>3. CASE Goto(s, "book", "failed")
    <3>1. TypeOK'
      BY <1>1, <1>4, <1>5, <1>6, <1>8, <2>1, RegistrarTyped
    <3>2. pc[s] = "book" /\ pc'[s] = "failed"
      BY <1>3, <2>3
    <3>3. /\ pc[s] \in Inside /\ pc'[s] \in Inside /\ pc[s] \in Inserting /\ pc'[s] \in Inserting
          /\ pc[s] \notin Booking /\ pc'[s] \notin Booking
          /\ pc[s] \notin Placed /\ pc'[s] \notin Placed
      BY <3>2 DEF Inside, AtDesk, Inserting, Booking, Placed
    <3>4. DeskPermit(s)' /\ InTurn(s)'
      BY <1>0, <1>3, <1>6, <1>7, <1>8, <2>1, <2>3, <3>3, RegistrarDesk
    <3>5. RegisteredInTurn'
      BY <1>6, <2>1, InTurnKept
    <3>6. \A q \in Stations : StationPermits(q)' /\ Booked(q)'
      BY <1>3, <1>4, <1>6, <1>7, <1>9, <2>1, <2>3, <3>3
    <3>7. "book" \in (AtDesk \cup {"wait"}) \ {"failed"} /\ "failed" \in AtDesk
      BY DEF AtDesk
    <3> QED BY <1>6, <1>8, <2>1, <2>3, <3>1, <3>4, <3>5, <3>6, <3>7, RegistrarKeeps
  <2> QED BY <2>1, <2>2, <2>3
<1>15. CASE WaitPlace(s)
  <2> DEFINE k == place[s]
  <2>1. /\ Goto(s, "empty", "enterStation") /\ emptyQueueM[k] > 0
        /\ emptyQueueM' = [emptyQueueM EXCEPT ![k] = @ - 1] /\ hall' = hall
        /\ hashFreeStation' = hashFreeStation /\ fullQueueM' = fullQueueM
        /\ csQueueM' = csQueueM /\ ring' = ring /\ flags' = flags /\ locals' = locals
    BY <1>15 DEF WaitPlace
  <2>2. k \in Stations
    BY <1>1
  <2> HIDE DEF k
  <2>3. /\ emptyQueueM' \in [Stations -> 0 .. m] /\ emptyQueueM'[k] = emptyQueueM[k] - 1
        /\ \A q \in Stations \ {k} : emptyQueueM'[q] = emptyQueueM[q]
    <3>1. emptyQueueM[k] \in 0 .. m /\ emptyQueueM[k] - 1 \in 0 .. m
      BY <1>1, <1>2, <2>1, <2>2
    <3> QED BY <1>1, <2>1, <2>2, <3>1
  <2>4. TypeOK'
    BY <1>1, <1>5, <1>6, <1>8, <2>1, <2>3, RegistrarTyped
  <2>5. pc[s] = "empty" /\ pc'[s] = "enterStation"
    BY <1>3, <2>1
  <2>6. /\ pc[s] \in Inside /\ pc'[s] \in Inside /\ pc[s] \in Inserting /\ pc'[s] \in Inserting
        /\ pc[s] \in Booking /\ pc'[s] \in Booking
        /\ pc[s] \notin Placed /\ pc'[s] \in Placed
    BY <2>5 DEF Inside, AtDesk, Inserting, Booking, Placed
  <2>7. DeskPermit(s)' /\ InTurn(s)'
    BY <1>0, <1>3, <1>6, <1>7, <1>8, <2>1, <2>6, RegistrarDesk
  <2>8. RegisteredInTurn'
    BY <1>6, <2>1, InTurnKept
  <2>9. ASSUME NEW q \in Stations
        PROVE  StationPermits(q)' /\ Booked(q)'
    <3>1. /\ On(s, q, Placed) = 0 /\ On(s, q, Placed)' = (IF q = k THEN 1 ELSE 0)
          /\ On(s, q, Booking)' = On(s, q, Booking) /\ On(s, q, Booking) \in {0, 1}
      BY <1>6, <2>1, <2>6 DEF On, If, k
    <3>2. emptyQueueM'[q] = emptyQueueM[q] - (IF q = k THEN 1 ELSE 0)
          /\ hashFreeStation'[q] = hashFreeStation[q] /\ fullQueueM'[q] = fullQueueM[q]
      BY <1>2, <2>1, <2>2, <2>3
    <3>3. StationPermits(q) /\ Booked(q) /\ hashFreeStation[q] \in Int /\ fullQueueM[q] \in Int
          /\ emptyQueueM[q] \in Int /\ m \in Int
      BY <1>0, <1>2
    <3>4. /\ isDoneMaleAndFemale' = isDoneMaleAndFemale /\ station_pc' = station_pc
          /\ place'[Other(s)] = place[Other(s)] /\ pc'[Other(s)] = pc[Other(s)]
      BY <1>3, <1>6, <1>7, <2>1
    <3>5. /\ emptyQueueM'[q] + fullQueueM'[q] + On(s, q, Placed)'
               = emptyQueueM[q] + fullQueueM[q] + On(s, q, Placed)
          /\ emptyQueueM'[q] <= emptyQueueM[q]
      BY <3>1, <3>2, <3>3
    <3>6. fullQueueM'[q] + On(s, q, Booking)' + hashFreeStation[q]
               = fullQueueM[q] + On(s, q, Booking) + hashFreeStation'[q]
      BY <3>1, <3>2, <3>3
    <3>7. hashFreeStation'[q] \in Int /\ fullQueueM'[q] \in Int /\ emptyQueueM'[q] \in Int
      BY <3>2, <3>3
    <3> QED BY <3>3, <3>4, <3>5, <3>6, <3>7, RegistrarAccount
  <2>10. "empty" \in (AtDesk \cup {"wait"}) \ {"failed"} /\ "enterStation" \in AtDesk
    BY DEF AtDesk
  <2> QED BY <1>6, <1>8, <2>1, <2>4, <2>7, <2>8, <2>9, <2>10, RegistrarKeeps
<1>16. CASE EnterStation(s)
  <2>1. /\ Goto(s, "enterStation", "insert") /\ csQueueM' = [csQueueM EXCEPT ![place[s]] = s]
        /\ hall' = hall /\ hashFreeStation' = hashFreeStation /\ fullQueueM' = fullQueueM
        /\ emptyQueueM' = emptyQueueM /\ ring' = ring /\ flags' = flags /\ locals' = locals
    BY <1>16 DEF EnterStation
  <2>2. csQueueM' \in [Stations -> Sexes \cup {"station", "free"}]
    BY <1>1, <2>1
  <2>3. TypeOK'
    BY <1>1, <1>5, <1>6, <1>8, <2>1, <2>2, RegistrarTyped
  <2>4. pc[s] = "enterStation" /\ pc'[s] = "insert"
    BY <1>3, <2>1
  <2>5. /\ pc[s] \in Inside /\ pc'[s] \in Inside /\ pc[s] \in Inserting /\ pc'[s] \in Inserting
        /\ pc[s] \in Booking /\ pc'[s] \in Booking
        /\ pc[s] \in Placed /\ pc'[s] \in Placed
    BY <2>4 DEF Inside, AtDesk, Inserting, Booking, Placed
  <2>6. DeskPermit(s)' /\ InTurn(s)'
    BY <1>0, <1>3, <1>6, <1>7, <1>8, <2>1, <2>5, RegistrarDesk
  <2>7. RegisteredInTurn'
    BY <1>6, <2>1, InTurnKept
  <2>8. \A q \in Stations : StationPermits(q)' /\ Booked(q)'
    BY <1>3, <1>6, <1>7, <1>9, <2>1, <2>5
  <2>9. "enterStation" \in (AtDesk \cup {"wait"}) \ {"failed"} /\ "insert" \in AtDesk
    BY DEF AtDesk
  <2> QED BY <1>6, <1>8, <2>1, <2>3, <2>6, <2>7, <2>8, <2>9, RegistrarKeeps
<1>17. CASE InsertLoad(s)
  <2>1. /\ Goto(s, "insert", "forward") /\ index' = [index EXCEPT ![s] = write]
        /\ hall' = hall /\ booths' = booths /\ ring' = ring /\ flags' = flags
        /\ place' = place /\ app' = app /\ registered' = registered
    BY <1>17 DEF InsertLoad
  <2>2. index' \in [Sexes -> 0 .. m - 1]
    BY <1>1, <2>1
  <2>3. TypeOK'
    BY <1>1, <1>4, <1>5, <1>8, <2>1, <2>2, RegistrarTyped
  <2>4. pc[s] = "insert" /\ pc'[s] = "forward"
    BY <1>3, <2>1
  <2>5. /\ pc[s] \in Inside /\ pc'[s] \in Inside /\ pc[s] \in Inserting /\ pc'[s] \in Inserting
        /\ pc[s] \in Booking /\ pc'[s] \in Booking
        /\ pc[s] \in Placed /\ pc'[s] \in Placed
    BY <2>4 DEF Inside, AtDesk, Inserting, Booking, Placed
  <2>6. DeskPermit(s)' /\ InTurn(s)'
    BY <1>0, <1>3, <1>7, <1>8, <2>1, <2>5, RegistrarDesk
  <2>7. RegisteredInTurn'
    BY <2>1, InTurnKept
  <2>8. \A q \in Stations : StationPermits(q)' /\ Booked(q)'
    BY <1>3, <1>4, <1>7, <1>9, <2>1, <2>5
  <2>9. "insert" \in (AtDesk \cup {"wait"}) \ {"failed"} /\ "forward" \in AtDesk
    BY DEF AtDesk
  <2> QED BY <1>8, <2>1, <2>3, <2>6, <2>7, <2>8, <2>9, RegistrarKeeps
<1>18. CASE InsertForward(s)
  <2>1. /\ Goto(s, "forward", "callStation") /\ write' = Advance(index[s])
        /\ registered' = [registered EXCEPT ![s] = Append(@, desk[s])]
        /\ hall' = hall /\ booths' = booths /\ read' = read /\ flags' = flags
        /\ place' = place /\ index' = index /\ app' = app
    BY <1>18 DEF InsertForward
  <2>2. pc[s] = "forward" /\ pc'[s] = "callStation" /\ pc'["checkSex"] = pc["checkSex"]
    BY <1>3, <2>1
  <2>3. /\ pc[s] \in Inside /\ pc'[s] \in Inside /\ pc[s] \in AtDesk /\ pc'[s] \in AtDesk
        /\ pc[s] \in Inserting /\ pc'[s] \notin Inserting
        /\ pc[s] \in Booking /\ pc'[s] \in Booking
        /\ pc[s] \in Placed /\ pc'[s] \in Placed
    BY <2>2 DEF Inside, AtDesk, Inserting, Booking, Placed
  <2>4. OnDesk(s) /\ desk[s] \in Left(s) /\ desk[s] <= Last /\ \A v \in Left(s) : desk[s] <= v
    BY <1>0, <2>3 DEF InTurn, OnDesk
  <2>5. desk[s] \in DOMAIN Voters
    BY <2>4, LeftIs
  <2>6. /\ registered'[s] = Append(registered[s], desk[s])
        /\ registered' \in [Sexes -> Seq(DOMAIN Voters)]
        /\ \A u \in Sexes \ {s} : registered'[u] = registered[u]
    <3>1. Append(registered[s], desk[s]) \in Seq(DOMAIN Voters)
      BY <1>1, <2>5, AppendProperties
    <3> QED BY <1>1, <2>1, <3>1
  <2>7. write' \in 0 .. m - 1
    BY <1>1, <2>1, Constants
  <2>8. TypeOK'
    BY <1>1, <1>4, <1>8, <2>1, <2>6, <2>7, RegistrarTyped
  <2>9. RegisteredInTurn'
    BY <1>1, <2>1, <2>4, TakesTurn
  <2>10. /\ full' = full /\ empty' = empty /\ record' = record /\ votersQueue' = votersQueue
         /\ desk' = desk /\ isDone' = isDone
    BY <1>7, <1>8, <2>1
  <2>11. DeskPermit(s)'
    <3>1. If(pc[s] \in AtDesk) = 1 /\ If(pc'[s] \in AtDesk) = 1
          /\ If(pc[s] \in Inside) = 1 /\ If(pc'[s] \in Inside) = 1
      BY <2>3 DEF If
    <3>2. Hand(s)' = Hand(s)
      BY <2>2, <2>10 DEF Hand, If
    <3> QED BY <1>0, <2>10, <3>1, <3>2 DEF DeskPermit
  <2>12. InTurn(s)'
    <3>1. Left(s)' = Left(s) \ {desk[s]}
      BY <1>1, <2>5, <2>6, LeftLess
    <3>2. Last' = Last /\ InHand(s)' = InHand(s)
      BY <2>2, <2>10 DEF Last, InHand
    <3>3. ~ OnDesk(s)'
      <4>1. pc["checkSex"] = "release" /\ Voters[record] = s => FALSE
        <5>1. CASE isDone
          BY <1>0, <5>1 DEF FlagsTell
        <5>2. CASE ~ isDone
          <6>1. If(pc[s] \in AtDesk) = 1 /\ full[s] \in Nat /\ empty[s] \in Nat
            BY <1>1, <2>3 DEF If
          <6>2. Hand(s) = 0
            <7>1. Hand(s) \in Nat
              BY DEF Hand, If
            <7> QED BY <1>0, <5>2, <6>1, <7>1 DEF DeskPermit
          <6> QED BY <6>2 DEF Hand, If
        <5> QED BY <5>1, <5>2
      <4>2. ~ isDone => full[s] = 0
        <5>1. If(pc[s] \in AtDesk) = 1 /\ full[s] \in Nat /\ empty[s] \in Nat
          BY <1>1, <2>3 DEF If
        <5>2. Hand(s) \in Nat
          BY DEF Hand, If
        <5> QED BY <1>0, <5>1, <5>2 DEF DeskPermit
      <4> QED BY <2>2, <2>3, <2>10, <4>1, <4>2 DEF OnDesk
    <3>4. \A v \in DOMAIN Voters : v > Last /\ Voters[v] = s => v \in Left(s) \ {desk[s]}
      <4>1. Last \in Int /\ desk[s] \in Int
        <5>1. votersQueue \in Seq(DOMAIN Voters)
          BY DEF TypeOK
        <5> QED BY <2>5, <5>1, Constants, LenProperties DEF Last
      <4>2. \A v \in DOMAIN Voters : v > Last => v # desk[s]
        BY <2>4, <4>1, Constants
      <4> QED BY <1>0, <4>2 DEF InTurn
    <3>5. InHand(s) => record \in Left(s) \ {desk[s]}
      BY <1>0, <2>4 DEF InTurn
    <3>6. ~ isDone => \A v \in Left(s) \ {desk[s]} : v > Last \/ (InHand(s) /\ v = record)
      BY <1>0 DEF InTurn
    <3> QED BY <2>10, <3>1, <3>2, <3>3, <3>4, <3>5, <3>6 DEF InTurn
  <2>13. \A q \in Stations : StationPermits(q)' /\ Booked(q)'
    BY <1>3, <1>4, <1>7, <1>9, <2>1, <2>3
  <2>14. "forward" \in (AtDesk \cup {"wait"}) \ {"failed"} /\ "callStation" \in AtDesk
    BY DEF AtDesk
  <2> QED BY <2>1, <2>6, <2>8, <2>9, <2>10, <2>11, <2>12, <2>13, <2>14, RegistrarKeeps
<1>19. CASE CallStation(s)
  <2> DEFINE k == place[s]
  <2>1. /\ Goto(s, "callStation", "release") /\ csQueueM' = [csQueueM EXCEPT ![k] = "free"]
        /\ fullQueueM' = [fullQueueM EXCEPT ![k] = @ + 1] /\ hall' = hall
        /\ hashFreeStation' = hashFreeStation /\ emptyQueueM' = emptyQueueM /\ ring' = ring
        /\ flags' = flags /\ locals' = locals
    BY <1>19 DEF CallStation
  <2>2. k \in Stations
    BY <1>1
  <2>3. pc[s] = "callStation" /\ pc'[s] = "release"
    BY <1>3, <2>1
  <2>4. /\ pc[s] \in Inside /\ pc'[s] \in Inside
        /\ pc[s] \notin Inserting /\ pc'[s] \notin Inserting
        /\ pc[s] \in Booking /\ pc'[s] \notin Booking
        /\ pc[s] \in Placed /\ pc'[s] \notin Placed
    BY <2>3 DEF Inside, AtDesk, Inserting, Booking, Placed
  <2>5. fullQueueM[k] + 1 \in 0 .. m
    <3>1. ~ isDoneMaleAndFemale
      BY <1>0, <2>3 DEF FlagsTell
    <3>2. On(s, k, Placed) = 1
      BY <2>4 DEF On, If
    <3>3. On("M", k, Placed) + On("F", k, Placed) >= 1 /\ On("M", k, Placed) \in Nat
          /\ On("F", k, Placed) \in Nat
      <4>1. On("M", k, Placed) \in Nat /\ On("F", k, Placed) \in Nat
        BY DEF On, If
      <4>2. s = "M" \/ s = "F"
        BY DEF Sexes
      <4> QED BY <3>2, <4>1, <4>2
    <3>4. emptyQueueM[k] \in Nat /\ fullQueueM[k] \in Nat /\ If(station_pc[k] \in Called) \in Nat
      BY <1>1, <1>2, <2>2 DEF If
    <3>5. emptyQueueM[k] + On("M", k, Placed) + On("F", k, Placed) + fullQueueM[k]
              + If(station_pc[k] \in Called) = m
      BY <1>0, <2>2, <3>1 DEF StationPermits
    <3>6. PICK c \in Nat : c = If(station_pc[k] \in Called)
      BY <3>4
    <3>7. emptyQueueM[k] + On("M", k, Placed) + On("F", k, Placed) + fullQueueM[k] + c = m
      BY <3>5, <3>6
    <3>8. c \in Nat
      BY <3>6
    <3>9. emptyQueueM[k] \in Nat /\ fullQueueM[k] \in Nat
      BY <3>4
    <3> QED BY <1>2, <3>3, <3>7, <3>8, <3>9
  <2> HIDE DEF k
  <2>6. /\ fullQueueM' \in [Stations -> 0 .. m] /\ fullQueueM'[k] = fullQueueM[k] + 1
        /\ \A q \in Stations \ {k} : fullQueueM'[q] = fullQueueM[q]
    BY <1>1, <2>1, <2>2, <2>5
  <2>7. csQueueM' \in [Stations -> Sexes \cup {"station", "free"}]
    BY <1>1, <2>1
  <2>8. TypeOK'
    BY <1>1, <1>5, <1>6, <1>8, <2>1, <2>6, <2>7, RegistrarTyped
  <2>9. DeskPermit(s)' /\ InTurn(s)'
    BY <1>0, <1>3, <1>6, <1>7, <1>8, <2>1, <2>4, RegistrarDesk
  <2>10. RegisteredInTurn'
    BY <1>6, <2>1, InTurnKept
  <2>11. ASSUME NEW q \in Stations
         PROVE  StationPermits(q)' /\ Booked(q)'
    <3>1. /\ On(s, q, Placed)' = 0 /\ On(s, q, Placed) = (IF q = k THEN 1 ELSE 0)
          /\ On(s, q, Booking)' = 0 /\ On(s, q, Booking) = (IF q = k THEN 1 ELSE 0)
      BY <2>4 DEF On, If, k
    <3>2. fullQueueM'[q] = fullQueueM[q] + (IF q = k THEN 1 ELSE 0)
          /\ hashFreeStation'[q] = hashFreeStation[q] /\ emptyQueueM'[q] = emptyQueueM[q]
      BY <1>2, <2>1, <2>2, <2>6
    <3>3. StationPermits(q) /\ Booked(q) /\ hashFreeStation[q] \in Int /\ fullQueueM[q] \in Int
          /\ emptyQueueM[q] \in Int /\ m \in Int
      BY <1>0, <1>2
    <3>4. /\ isDoneMaleAndFemale' = isDoneMaleAndFemale /\ station_pc' = station_pc
          /\ place'[Other(s)] = place[Other(s)] /\ pc'[Other(s)] = pc[Other(s)]
      BY <1>3, <1>6, <1>7, <2>1
    <3>5. /\ emptyQueueM'[q] + fullQueueM'[q] + On(s, q, Placed)'
               = emptyQueueM[q] + fullQueueM[q] + On(s, q, Placed)
          /\ emptyQueueM'[q] <= emptyQueueM[q]
      BY <3>1, <3>2, <3>3
    <3>6. fullQueueM'[q] + On(s, q, Booking)' + hashFreeStation[q]
               = fullQueueM[q] + On(s, q, Booking) + hashFreeStation'[q]
      BY <3>1, <3>2, <3>3
    <3>7. hashFreeStation'[q] \in Int /\ fullQueueM'[q] \in Int /\ emptyQueueM'[q] \in Int
      BY <3>2, <3>3
    <3> QED BY <3>3, <3>4, <3>5, <3>6, <3>7, RegistrarAccount
  <2>12. "callStation" \in (AtDesk \cup {"wait"}) \ {"failed"} /\ "release" \in AtDesk
    BY DEF AtDesk
  <2> QED BY <1>6, <1>8, <2>1, <2>8, <2>9, <2>10, <2>11, <2>12, RegistrarKeeps
<1>20. CASE ReleaseDesk(s)
  <2>1. /\ Goto(s, "release", "wait") /\ cs' = [cs EXCEPT ![s] = "free"]
        /\ empty' = [empty EXCEPT ![s] = @ + 1] /\ votersQueue' = votersQueue
        /\ record' = record /\ full' = full /\ desk' = desk /\ booths' = booths
        /\ ring' = ring /\ flags' = flags /\ locals' = locals
    BY <1>20 DEF ReleaseDesk
  <2>2. pc[s] = "release" /\ pc'[s] = "wait" /\ pc'["checkSex"] = pc["checkSex"]
        /\ isDone' = isDone
    BY <1>3, <1>7, <2>1
  <2>3. /\ If(pc[s] \in AtDesk) = 1 /\ If(pc'[s] \in AtDesk) = 0
        /\ If(pc[s] \in Inside) = 1 /\ If(pc'[s] \in Inside) = 0
        /\ pc[s] \notin Booking /\ pc'[s] \notin Booking
        /\ pc[s] \notin Placed /\ pc'[s] \notin Placed
    BY <2>2 DEF If, AtDesk, Inside, Booking, Placed
  <2>4. empty[s] = 0
    BY <1>0, <1>1, <2>3 DEF DeskPermit
  <2>5. empty'[s] = 1 /\ empty' \in [Sexes -> {0, 1}]
        /\ \A u \in Sexes \ {s} : empty'[u] = empty[u]
    BY <1>1, <2>1, <2>4
  <2>6. \A u \in Sexes : cs'[u] \in {"free", u}
    BY <1>1, <2>1
  <2>7. TypeOK'
    BY <1>1, <1>4, <1>5, <1>6, <2>1, <2>5, <2>6, RegistrarTyped
  <2>8. Left(s)' = Left(s) /\ Last' = Last /\ InHand(s)' = InHand(s) /\ Hand(s)' = Hand(s)
    BY <1>6, <2>1, <2>2, LeftSame DEF Last, InHand, Hand, If
  <2>9. DeskPermit(s)'
    <3>1. Hand(s) \in Nat /\ full[s] \in Nat
      <4>1. full[s] \in {0, 1}
        BY <1>1
      <4>2. Hand(s) \in Nat
        BY DEF Hand, If
      <4> QED BY <4>1, <4>2
    <3> QED BY <1>0, <2>1, <2>2, <2>3, <2>4, <2>5, <2>8, <3>1 DEF DeskPermit
  <2>10. OnDesk(s)' = OnDesk(s)
    BY <2>1, <2>2 DEF OnDesk, Inserting
  <2>11. InTurn(s)'
    BY <1>0, <2>1, <2>2, <2>8, <2>10 DEF InTurn
  <2>12. RegisteredInTurn'
    BY <1>6, <2>1, InTurnKept
  <2>13. \A q \in Stations : StationPermits(q)' /\ Booked(q)'
    BY <1>3, <1>4, <1>6, <1>7, <1>9, <2>1, <2>3
  <2>14. "release" \in (AtDesk \cup {"wait"}) \ {"failed"}
    BY DEF AtDesk
  <2> QED BY <1>6, <2>1, <2>5, <2>7, <2>9, <2>11, <2>12, <2>13, <2>14, RegistrarKeeps
<1> QED BY <1>10, <1>11, <1>12, <1>13, <1>14, <1>15, <1>16, <1>17, <1>18, <1>19, <1>20 DEF registrar

-----------------------------------------------------------------------------
(* Theorems *)

LEMMA NextIInv == IInv /\ [Next]_vars => IInv'
<1> SUFFICES ASSUME IInv, [Next]_vars
             PROVE  IInv'
  OBVIOUS
<1>1. CASE UNCHANGED vars
  <2>1. /\ votersQueue' = votersQueue /\ record' = record /\ full' = full /\ empty' = empty
        /\ cs' = cs /\ desk' = desk /\ hashFreeStation' = hashFreeStation
        /\ fullQueueM' = fullQueueM /\ emptyQueueM' = emptyQueueM /\ csQueueM' = csQueueM
        /\ read' = read /\ write' = write /\ isDone' = isDone
        /\ isDoneMaleAndFemale' = isDoneMaleAndFemale /\ woken' = woken /\ place' = place
        /\ index' = index /\ app' = app /\ registered' = registered /\ pc' = pc
        /\ station_pc' = station_pc
    BY <1>1 DEF vars, hall, booths, ring, flags, locals
  <2>2. TypeOK'
    BY <2>1 DEF IInv, TypeOK
  <2>3. RegisteredInTurn'
    BY <2>1, InTurnKept DEF IInv
  <2>4. CASE Dead
    BY <2>1, <2>2, <2>3, <2>4 DEF IInv, Dead
  <2>5. CASE Live
    <3>1. \A s \in Sexes : DeskPermit(s)' /\ InTurn(s)'
      BY <2>1, <2>5, DeskFrame DEF Live
    <3>2. \A k \in Stations : StationPermits(k)' /\ Booked(k)'
      <4>1. \A s, k, L : On(s, k, L)' = On(s, k, L)
        BY <2>1 DEF On
      <4> QED BY <2>1, <2>5, <4>1, StationFrame DEF Live
    <3>3. Placement' /\ FlagsTell' /\ FileOrder'
      BY <2>1, <2>5 DEF Live, Placement, FlagsTell, FileOrder, Last
    <3> QED BY <2>2, <2>3, <3>1, <3>2, <3>3 DEF IInv, Live
  <2> QED BY <2>4, <2>5 DEF IInv
<1>2. CASE Next
  <2>1. TypeOK /\ RegisteredInTurn /\ Live
    BY <1>2, DeadStays DEF IInv
  <2> QED BY <1>2, <2>1, MainKeeps, CheckSexStep, RegistrarStep, StationStep DEF Next
<1> QED BY <1>1, <1>2

THEOREM Inductive == Spec => []IInv
<1> QED BY InitIInv, NextIInv, PTL DEF Spec

(* EXAMS/2014-07-03/main.cpp, male, female and station: until the last registrar
   has ended, the table of free stations agrees with the voters on the way to a
   station or in it, whatever the number of stations and the size of the queue;
   no semaphore of the program is ever released at its maximum. *)
THEOREM StationsBooked == Spec => []StationBooked
<1>1. ASSUME IInv
      PROVE  StationBooked
  <2>1. TypeOK
    BY <1>1 DEF IInv
  <2>2. ASSUME ~ Crashed, ~ isDoneMaleAndFemale, NEW k \in Stations
        PROVE  Sent(k) = hashFreeStation[k]
    <3>1. Live
      BY <1>1, <2>2, Constants DEF IInv, Dead, Crashed
    <3>2. On("M", k, Booking) + On("F", k, Booking) + fullQueueM[k]
              + If(station_pc[k] \in Voting) = hashFreeStation[k]
      BY <2>2, <3>1 DEF Live, Booked
    <3>3. Cardinality({s \in Sexes : place[s] = k /\ pc[s] \in Booking})
              = On("M", k, Booking) + On("F", k, Booking)
      BY SexCount
    <3>4. /\ Booking = {"empty", "enterStation", "insert", "forward", "callStation"}
          /\ Voting = {"check", "enter", "remove", "read_loaded", "write_loaded", "load",
                       "forward", "vote"}
      BY DEF Booking, Voting, Called
    <3>5. Sent(k) = Cardinality({s \in Sexes : place[s] = k /\ pc[s] \in Booking})
                        + fullQueueM[k] + If(station_pc[k] \in Voting)
      BY <3>4 DEF Sent, If
    <3> QED BY <3>2, <3>3, <3>5
  <2> QED BY <2>1, <2>2 DEF StationBooked
<1> QED BY <1>1, Inductive, PTL

(* checkSex, male and female: with one place on each desk, every registrar takes
   its voters in the order of the file, each once, though the desk is written and
   read by different threads. *)
THEOREM VotersInTurn == Spec => []RegisteredInTurn
<1>1. IInv => RegisteredInTurn
  BY DEF IInv
<1> QED BY <1>1, Inductive, PTL
==============================================================================
