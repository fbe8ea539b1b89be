------------------------- MODULE SharedFiles_proofs --------------------------
(* Files that threads share.  The directories of LAB11/E01.cpp are shared     *)
(* correctly by readers and writers, for any numbers of threads, servers and   *)
(* files; LAB10/E01.cpp and E03.cpp apply every operation at once, for any     *)
(* number of threads, any account file and any operation files; the workers    *)
(* of EXAMS/2013-02-16/main.cpp hand their copies to the merger correctly, for *)
(* any number of workers, any directory tree and any contents of its files.    *)
EXTENDS ReadersWriters, AccountUpdate, CopyMerge, FiniteSetTheorems, SequenceTheorems, TLAPS

(* Readers and writers *)

(* Where a reader holds rmutex, and where it is counted in readCount.         *)
Counting == {"count", "first", "admitted", "uncount", "left"}
Counted == Reading \cup {"first"}
ReaderOnly == Counted \cup {"rmutex", "count", "left"}
WriterOnly == Writing \cup {"resource"}

(* A thread runs the code of its role; no file is opened beyond the last, and a
   reader that is not admitted yet has read none. *)
Places ==
    \A t \in Visitors :
        /\ dirPc[t] \in ReaderOnly => role[t] = "reader"
        /\ dirPc[t] \in WriterOnly => role[t] = "writer"
        /\ dirPc[t] \in {"open", "write"} => file[t] <= Files
        /\ dirPc[t] \in {"rmutex", "count", "first"} => file[t] = 1

(* rmutex is taken while a thread uses the counter of its server. *)
CountLocked ==
    \A t \in Visitors : dirPc[t] \in Counting =>
        /\ rmutex[server[t]] = 0
        /\ \A u \in Visitors : dirPc[u] \in Counting /\ server[u] = server[t] => u = t

(* resource is taken while a directory is used: by all who read it together, or
   by one writer.  The reader that waits for it is the only one. *)
DirectoryLocked ==
    \A t \in Visitors :
        /\ dirPc[t] \in Reading \cup Writing => resource[server[t]] = 0
        /\ \A u \in Visitors : server[u] = server[t] =>
              /\ dirPc[t] \in Writing /\ dirPc[u] \in Reading \cup Writing => u = t
              /\ ~ (dirPc[t] = "first" /\ dirPc[u] \in Reading)

CountedAt(s) == {t \in Visitors : server[t] = s /\ dirPc[t] \in Counted}
ReadersCounted == \A s \in Servers : readCount[s] = Cardinality(CountedAt(s))

(* What a thread in a directory has seen is what is there: a reader's files so
   far, and the record a writer is about to write back. *)
SeenHolds ==
    \A t \in Visitors :
        /\ dirPc[t] \in Reading => \A f \in 1 .. file[t] - 1 : seen[t][f] = directory[server[t]][f]
        /\ dirPc[t] = "write" => seen[t][file[t]] = directory[server[t]][file[t]]

DirIInv == /\ DirTypeOK /\ Places /\ CountLocked /\ DirectoryLocked /\ ReadersCounted
           /\ SeenHolds /\ NoLostModification

-----------------------------------------------------------------------------
(* What a step of thread t may change besides its place: the visit itself is
   in three actions.                                                          *)
LEMMA Effects ==
    ASSUME DirTypeOK, NEW t \in Visitors, thWork(t)
    PROVE  /\ server' = server /\ role' = role
           /\ csOut' \in {csOut, t, NoVisitor}
           /\ \/ ReadFile(t) \/ ReadFileRecord(t) \/ WriteFileRecord(t)
              \/ UNCHANGED <<directory, file, seen>> /\ ~ DirGoto(t, "modify", "write")
<1>1. server' = server /\ role' = role
  BY DEF thWork, LockCount, CountReader, FirstReader, UnlockCount, EnterOut, ReadFile,
     OpenFails, AllRead, UncountReader, WriterEnters, ReadFileRecord, WriteFileRecord, WriterLeaves,
     DirGoto, Wait, Release
<1>2. csOut' \in {csOut, t, NoVisitor}
  BY DEF thWork, LockCount, CountReader, FirstReader, UnlockCount, EnterOut, ReadFile,
     OpenFails, AllRead, UncountReader, WriterEnters, ReadFileRecord, WriteFileRecord, WriterLeaves,
     DirGoto, Wait, Release
<1>3. \/ ReadFile(t) \/ ReadFileRecord(t) \/ WriteFileRecord(t)
      \/ UNCHANGED <<directory, file, seen>> /\ ~ DirGoto(t, "modify", "write")
  <2>1. dirPc = [u \in Visitors |-> dirPc[u]]
    BY DEF DirTypeOK
  <2> QED BY <2>1 DEF thWork, LockCount, CountReader, FirstReader, UnlockCount, EnterOut,
             OpenFails, AllRead, UncountReader, WriterEnters, WriterLeaves, DirGoto, Wait, Release
<1> QED BY <1>1, <1>2, <1>3

(* The steps of a thread, as edges of its program, with what they do to the
   semaphores and the counter of its server: no release of the program fails. *)
Step(t, from, to) == dirPc[t] = from /\ dirPc' = [dirPc EXCEPT ![t] = to]
Edge(t) ==
    \/ /\ Step(t, "rmutex", "count") \/ Step(t, "rmutex again", "uncount")
       /\ rmutex[server[t]] = 1 /\ rmutex' = [rmutex EXCEPT ![server[t]] = 0]
       /\ resource' = resource /\ readCount' = readCount
    \/ /\ Step(t, "admitted", "read") \/ Step(t, "left", "end")
       /\ rmutex' = [rmutex EXCEPT ![server[t]] = 1]
       /\ resource' = resource /\ readCount' = readCount
    \/ /\ Step(t, "first", "admitted") \/ Step(t, "resource", "modify")
       /\ resource[server[t]] = 1 /\ resource' = [resource EXCEPT ![server[t]] = 0]
       /\ rmutex' = rmutex /\ readCount' = readCount
    \/ /\ Step(t, "modify", "end") \/ Step(t, "write", "end")
       /\ resource' = [resource EXCEPT ![server[t]] = 1]
       /\ rmutex' = rmutex /\ readCount' = readCount
    \/ /\ \/ Step(t, "count", "first") /\ readCount'[server[t]] = 1
          \/ Step(t, "count", "admitted") /\ readCount'[server[t]] # 1
       /\ readCount' = [readCount EXCEPT ![server[t]] = @ + 1]
       /\ resource' = resource /\ rmutex' = rmutex
    \/ /\ Step(t, "uncount", "left")
       /\ readCount' = [readCount EXCEPT ![server[t]] = @ - 1]
       /\ resource' = IF readCount'[server[t]] = 0 THEN [resource EXCEPT ![server[t]] = 1]
                                                   ELSE resource
       /\ rmutex' = rmutex
    \/ /\ \/ Step(t, "read", "open") \/ Step(t, "open", "read")
          \/ Step(t, "open", "rmutex again") \/ Step(t, "read", "rmutex again")
          \/ Step(t, "modify", "write") \/ Step(t, "write", "modify")
       /\ resource' = resource /\ rmutex' = rmutex /\ readCount' = readCount

(* Every step of a thread is such an edge.                                    *)
LEMMA Edges ==
    ASSUME DirIInv, NEW t \in Visitors, thWork(t)
    PROVE  Edge(t)
<1>1. /\ rmutex \in [Servers -> {0, 1}] /\ resource \in [Servers -> {0, 1}]
      /\ server[t] \in Servers
  BY DEF DirIInv, DirTypeOK
<1>2. /\ dirPc[t] \in {"admitted", "left"} => rmutex[server[t]] = 0
      /\ dirPc[t] \in {"modify", "write", "uncount"} => resource[server[t]] = 0
  BY DEF DirIInv, CountLocked, DirectoryLocked, Counting, Reading, Writing
<1> USE DEF Edge, Step, DirGoto, Wait, Release
<1>3. CASE LockCount(t)
  <2>1. rmutex[server[t]] > 0
    BY <1>3 DEF LockCount, Wait
  <2>2. rmutex[server[t]] = 1
    BY <2>1, <1>1
  <2> QED BY <2>2, <1>3 DEF LockCount
<1>4. CASE CountReader(t)
  BY <1>1, <1>2, <1>4 DEF CountReader
<1>5. CASE FirstReader(t)
  BY <1>1, <1>2, <1>5 DEF FirstReader
<1>6. CASE UnlockCount(t)
  BY <1>1, <1>2, <1>6 DEF UnlockCount
<1>7. CASE EnterOut(t)
  BY <1>1, <1>2, <1>7 DEF EnterOut
<1>8. CASE ReadFile(t)
  BY <1>1, <1>2, <1>8 DEF ReadFile
<1>9. CASE OpenFails(t)
  BY <1>1, <1>2, <1>9 DEF OpenFails
<1>10. CASE AllRead(t)
  BY <1>1, <1>2, <1>10 DEF AllRead
<1>11. CASE UncountReader(t)
  BY <1>1, <1>2, <1>11 DEF UncountReader
<1>12. CASE WriterEnters(t)
  BY <1>1, <1>2, <1>12 DEF WriterEnters
<1>13. CASE ReadFileRecord(t)
  BY <1>1, <1>2, <1>13 DEF ReadFileRecord
<1>14. CASE WriteFileRecord(t)
  BY <1>1, <1>2, <1>14 DEF WriteFileRecord
<1>15. CASE WriterLeaves(t)
  BY <1>1, <1>2, <1>15 DEF WriterLeaves
<1> QED BY <1>3, <1>4, <1>5, <1>6, <1>7, <1>8, <1>9, <1>10, <1>11, <1>12, <1>13, <1>14, <1>15
           DEF thWork

(* What a thread does not do to the others.                                   *)
LEMMA Others ==
    ASSUME DirTypeOK, NEW t \in Visitors, thWork(t), Edge(t)
    PROVE  /\ dirPc' = [dirPc EXCEPT ![t] = dirPc'[t]]
           /\ \A u \in Visitors \ {t} :
                 dirPc'[u] = dirPc[u] /\ file'[u] = file[u] /\ seen'[u] = seen[u]
           /\ \A s \in Servers \ {server[t]} :
                 /\ resource'[s] = resource[s] /\ rmutex'[s] = rmutex[s]
                 /\ readCount'[s] = readCount[s] /\ directory'[s] = directory[s]
           /\ \A u \in Visitors : server'[u] = server[u] /\ role'[u] = role[u]
<1>1. /\ dirPc = [u \in Visitors |-> dirPc[u]] /\ file = [u \in Visitors |-> file[u]]
      /\ seen = [u \in Visitors |-> seen[u]]
  BY DEF DirTypeOK
<1>0. /\ server[t] \in Servers
      /\ resource = [s \in Servers |-> resource[s]] /\ rmutex = [s \in Servers |-> rmutex[s]]
      /\ readCount = [s \in Servers |-> readCount[s]]
      /\ directory = [s \in Servers |-> directory[s]]
  BY DEF DirTypeOK
<1>2. dirPc' = [dirPc EXCEPT ![t] = dirPc'[t]]
  BY <1>1 DEF Edge, Step
<1>3. \A s \in Servers \ {server[t]} :
         resource'[s] = resource[s] /\ rmutex'[s] = rmutex[s] /\ readCount'[s] = readCount[s]
  BY <1>0 DEF Edge
<1>e. \/ ReadFile(t) \/ ReadFileRecord(t) \/ WriteFileRecord(t)
      \/ UNCHANGED <<directory, file, seen>>
  BY Effects
<1>4. \A u \in Visitors \ {t} : file'[u] = file[u] /\ seen'[u] = seen[u]
  BY <1>1, <1>e DEF ReadFile, ReadFileRecord, WriteFileRecord
<1>5. \A s \in Servers \ {server[t]} : directory'[s] = directory[s]
  BY <1>0, <1>e DEF ReadFile, ReadFileRecord, WriteFileRecord
<1>6. server' = server /\ role' = role
  BY Effects
<1> QED BY <1>2, <1>3, <1>4, <1>5, <1>6, <1>1

(* Every variable keeps its type.                                             *)
LEMMA DirTypeStep ==
    ASSUME DirectoryAssumption, DirIInv, NEW t \in Visitors, thWork(t)
    PROVE  /\ resource' \in [Servers -> {0, 1}] /\ rmutex' \in [Servers -> {0, 1}]
           /\ csOut' \in Visitors \cup {NoVisitor}
           /\ directory' \in [Servers -> [FileIds -> Nat]]
           /\ server' \in [Visitors -> Servers] /\ role' \in [Visitors -> {"reader", "writer"}]
           /\ dirPc' \in [Visitors -> Reading \cup Writing \cup
                                      {"rmutex", "count", "first", "left", "resource", "end"}]
           /\ file' \in [Visitors -> 1 .. Files + 1]
           /\ seen' \in [Visitors -> [FileIds -> Nat]]
<1>1. DirTypeOK /\ Places /\ Files \in Nat
  BY DEF DirIInv, DirectoryAssumption
<1>2. /\ server[t] \in Servers /\ file[t] \in 1 .. Files + 1
      /\ dirPc[t] \in {"open", "write"} => file[t] <= Files
  BY <1>1 DEF DirTypeOK, Places
<1>3. resource' \in [Servers -> {0, 1}] /\ rmutex' \in [Servers -> {0, 1}]
  BY <1>1, <1>2, Edges DEF DirTypeOK, Edge
<1>4. csOut' \in Visitors \cup {NoVisitor}
  <2>1. csOut' \in {csOut, t, NoVisitor}
    BY <1>1, Effects
  <2> QED BY <2>1, <1>1 DEF DirTypeOK
<1>5. server' \in [Visitors -> Servers] /\ role' \in [Visitors -> {"reader", "writer"}]
  BY <1>1, Effects DEF DirTypeOK
<1>6. dirPc' \in [Visitors -> Reading \cup Writing \cup
                              {"rmutex", "count", "first", "left", "resource", "end"}]
  BY <1>1, Edges DEF DirTypeOK, Edge, Step, Reading, Writing
<1>7. /\ directory \in [Servers -> [FileIds -> Nat]] /\ seen \in [Visitors -> [FileIds -> Nat]]
      /\ file \in [Visitors -> 1 .. Files + 1]
  BY <1>1 DEF DirTypeOK
<1>8. /\ directory' \in [Servers -> [FileIds -> Nat]] /\ seen' \in [Visitors -> [FileIds -> Nat]]
      /\ file' \in [Visitors -> 1 .. Files + 1]
  <2>1. CASE ReadFile(t)
    <3>1. file[t] \in FileIds
      BY <1>1, <1>2, <2>1 DEF ReadFile, DirGoto, FileIds
    <3>2. directory[server[t]][file[t]] \in Nat
      BY <3>1, <1>2, <1>7
    <3> QED BY <3>1, <3>2, <1>1, <1>7, <2>1 DEF ReadFile, FileIds
  <2>2. CASE ReadFileRecord(t)
    <3>1. file[t] \in FileIds
      BY <1>1, <1>2, <2>2 DEF ReadFileRecord, FileIds
    <3>2. directory[server[t]][file[t]] \in Nat
      BY <3>1, <1>2, <1>7
    <3> QED BY <3>1, <3>2, <1>7, <2>2 DEF ReadFileRecord
  <2>3. CASE WriteFileRecord(t)
    <3>1. file[t] \in FileIds
      BY <1>1, <1>2, <2>3 DEF WriteFileRecord, DirGoto, FileIds
    <3>2. seen[t][file[t]] + 1 \in Nat
      BY <3>1, <1>7
    <3>3. directory' \in [Servers -> [FileIds -> Nat]] /\ seen' = seen
      BY <3>1, <3>2, <1>2, <1>7, <2>3 DEF WriteFileRecord
    <3>4. file' \in [Visitors -> 1 .. Files + 1]
      BY <3>1, <1>1, <1>7, <2>3 DEF WriteFileRecord, FileIds
    <3> QED BY <3>3, <3>4, <1>7
  <2> QED BY <2>1, <2>2, <2>3, <1>1, <1>7, Effects
<1> QED BY <1>3, <1>4, <1>5, <1>6, <1>8

(* A thread keeps to the code of its role.                                    *)
LEMMA PlacesStep ==
    ASSUME DirectoryAssumption, DirIInv, NEW t \in Visitors, thWork(t)
    PROVE  Places'
<1>1. DirTypeOK /\ Places /\ Edge(t) /\ Files \in Nat
  BY Edges DEF DirIInv, DirectoryAssumption
<1>2. \A u \in Visitors \ {t} : dirPc'[u] = dirPc[u] /\ file'[u] = file[u] /\ role'[u] = role[u]
  BY <1>1, Others
<1>3. /\ role'[t] = role[t] /\ dirPc = [u \in Visitors |-> dirPc[u]]
      /\ file \in [Visitors -> 1 .. Files + 1]
  BY <1>1, Effects DEF DirTypeOK
<1>4. /\ dirPc'[t] \in ReaderOnly => role[t] = "reader"
      /\ dirPc'[t] \in WriterOnly => role[t] = "writer"
  BY <1>1, <1>3 DEF Places, Edge, Step, Reading, Writing, Counted, ReaderOnly, WriterOnly
<1>5. dirPc'[t] \in {"open", "write"} => file'[t] <= Files
  BY <1>1, <1>3 DEF thWork, LockCount, CountReader, FirstReader, UnlockCount, EnterOut,
     ReadFile, OpenFails, AllRead, UncountReader, WriterEnters, ReadFileRecord, WriteFileRecord,
     WriterLeaves, DirGoto, Release
<1>6. dirPc'[t] \in {"rmutex", "count", "first"} => file'[t] = 1
  BY <1>1, <1>3, Effects DEF Places, Edge, Step, ReadFile, ReadFileRecord, WriteFileRecord,
     DirGoto
<1> QED BY <1>1, <1>2, <1>3, <1>4, <1>5, <1>6 DEF Places

(* rmutex: taken and given back by the thread that uses the counter.          *)
LEMMA CountLockedStep ==
    ASSUME DirectoryAssumption, DirIInv, NEW t \in Visitors, thWork(t)
    PROVE  CountLocked'
<1>1. DirTypeOK /\ CountLocked /\ Edge(t)
  BY Edges DEF DirIInv
<1>2. /\ \A u \in Visitors \ {t} : dirPc'[u] = dirPc[u]
      /\ \A u \in Visitors : server'[u] = server[u] /\ server[u] \in Servers
      /\ \A s \in Servers \ {server[t]} : rmutex'[s] = rmutex[s]
      /\ dirPc = [u \in Visitors |-> dirPc[u]] /\ rmutex \in [Servers -> {0, 1}]
  BY <1>1, Others DEF DirTypeOK
<1>3. \/ rmutex'[server[t]] = rmutex[server[t]] /\ (dirPc'[t] \in Counting => dirPc[t] \in Counting)
      \/ rmutex[server[t]] = 1 /\ rmutex'[server[t]] = 0
      \/ dirPc[t] \in Counting /\ dirPc'[t] \notin Counting
  BY <1>1, <1>2 DEF Edge, Step, Counting
<1> QED BY <1>1, <1>2, <1>3 DEF CountLocked

(* A set of one element.                                                      *)
LEMMA OnlyElement ==
    ASSUME NEW S, IsFiniteSet(S), NEW x \in S, Cardinality(S) = 1
    PROVE  S = {x}
<1>1. IsFiniteSet(S \ {x}) /\ Cardinality(S \ {x}) = Cardinality(S) - 1
  BY FS_RemoveElement
<1>2. S \ {x} = {}
  BY <1>1, FS_EmptySet
<1> QED BY <1>2

(* What readCount says of the readers of a server.                            *)
LEMMA CountsMean ==
    ASSUME DirectoryAssumption, ReadersCounted, NEW s \in Servers
    PROVE  /\ IsFiniteSet(CountedAt(s)) /\ readCount[s] \in Nat
           /\ readCount[s] = 0 <=> CountedAt(s) = {}
           /\ readCount[s] <= Cardinality(Visitors)
           /\ \A t \in CountedAt(s) : readCount[s] = 1 => CountedAt(s) = {t}
<1>1. IsFiniteSet(CountedAt(s)) /\ Cardinality(CountedAt(s)) <= Cardinality(Visitors)
  BY FS_Subset DEF DirectoryAssumption, CountedAt
<1>2. readCount[s] = Cardinality(CountedAt(s)) /\ readCount[s] \in Nat
  BY <1>1, FS_CardinalityType DEF ReadersCounted
<1>3. readCount[s] = 0 <=> CountedAt(s) = {}
  BY <1>1, <1>2, FS_EmptySet
<1>4. ASSUME NEW t \in CountedAt(s), readCount[s] = 1
      PROVE  CountedAt(s) = {t}
  BY <1>1, <1>2, <1>4, OnlyElement
<1> QED BY <1>1, <1>2, <1>3, <1>4

(* The counter follows the readers.                                           *)
LEMMA ReadersCountedStep ==
    ASSUME DirectoryAssumption, DirIInv, NEW t \in Visitors, thWork(t)
    PROVE  ReadersCounted'
<1>1. DirTypeOK /\ ReadersCounted /\ Edge(t) /\ server[t] \in Servers
  BY Edges DEF DirIInv, DirTypeOK
<1>2. /\ \A u \in Visitors \ {t} : dirPc'[u] = dirPc[u]
      /\ \A u \in Visitors : server'[u] = server[u]
      /\ \A s \in Servers \ {server[t]} : readCount'[s] = readCount[s]
      /\ dirPc = [u \in Visitors |-> dirPc[u]] /\ readCount = [s \in Servers |-> readCount[s]]
  BY <1>1, Others DEF DirTypeOK
<1>3. /\ IsFiniteSet(CountedAt(server[t]))
      /\ readCount[server[t]] = Cardinality(CountedAt(server[t]))
      /\ readCount[server[t]] \in Nat
  BY <1>1, CountsMean DEF ReadersCounted
<1>4. ASSUME NEW s \in Servers, s # server[t]
      PROVE  readCount'[s] = Cardinality(CountedAt(s)')
  <2>1. CountedAt(s)' = CountedAt(s)
    BY <1>2, <1>4 DEF CountedAt
  <2> QED BY <2>1, <1>1, <1>2, <1>4 DEF ReadersCounted
<1>5. readCount'[server[t]] = Cardinality(CountedAt(server[t])')
  <2>1. CASE dirPc[t] = "count"
    <3>1. dirPc'[t] \in Counted /\ readCount'[server[t]] = readCount[server[t]] + 1
      BY <2>1, <1>1, <1>2 DEF Edge, Step, Counted, Reading
    <3>2. CountedAt(server[t])' = CountedAt(server[t]) \cup {t} /\ t \notin CountedAt(server[t])
      BY <3>1, <2>1, <1>2 DEF CountedAt, Counted, Reading
    <3> QED BY <3>1, <3>2, <1>3, FS_AddElement
  <2>2. CASE dirPc[t] = "uncount"
    <3>1. dirPc'[t] \notin Counted /\ readCount'[server[t]] = readCount[server[t]] - 1
      BY <2>2, <1>1, <1>2 DEF Edge, Step, Counted, Reading
    <3>2. CountedAt(server[t])' = CountedAt(server[t]) \ {t} /\ t \in CountedAt(server[t])
      BY <3>1, <2>2, <1>2 DEF CountedAt, Counted, Reading
    <3> QED BY <3>1, <3>2, <1>3, FS_RemoveElement
  <2>3. CASE dirPc[t] \notin {"count", "uncount"}
    <3>1. (dirPc'[t] \in Counted <=> dirPc[t] \in Counted) /\ readCount' = readCount
      BY <2>3, <1>1, <1>2 DEF Edge, Step, Counted, Reading
    <3>2. CountedAt(server[t])' = CountedAt(server[t])
      BY <3>1, <1>2 DEF CountedAt
    <3> QED BY <3>1, <3>2, <1>3
  <2> QED BY <2>1, <2>2, <2>3
<1>6. \A s \in Servers : readCount'[s] = Cardinality(CountedAt(s)')
  BY <1>2, <1>4, <1>5
<1> QED BY <1>6 DEF ReadersCounted

(* resource: a directory is taken by the first reader or by a writer.         *)
LEMMA DirectoryLockedStep ==
    ASSUME DirectoryAssumption, DirIInv, NEW t \in Visitors, thWork(t)
    PROVE  DirectoryLocked'
<1>1. /\ DirTypeOK /\ CountLocked /\ DirectoryLocked /\ ReadersCounted /\ Edge(t)
      /\ server[t] \in Servers
  BY Edges DEF DirIInv, DirTypeOK
<1>2. /\ \A u \in Visitors \ {t} : dirPc'[u] = dirPc[u]
      /\ \A u \in Visitors : server'[u] = server[u] /\ server[u] \in Servers
      /\ \A s \in Servers \ {server[t]} : resource'[s] = resource[s]
      /\ dirPc = [u \in Visitors |-> dirPc[u]] /\ resource = [s \in Servers |-> resource[s]]
      /\ readCount = [s \in Servers |-> readCount[s]]
  BY <1>1, Others DEF DirTypeOK
<1> DEFINE Mates == {u \in Visitors \ {t} : server[u] = server[t]}
<1>3. /\ \A u \in Mates : dirPc[t] \in Counting => dirPc[u] # "first"
      /\ \A u \in Mates : dirPc[u] \in Reading \cup Writing => resource[server[t]] = 0
      /\ \A u, v \in Mates \cup {t} :
            dirPc[u] \in Writing /\ dirPc[v] \in Reading \cup Writing => u = v
      /\ \A u, v \in Mates \cup {t} : ~ (dirPc[u] = "first" /\ dirPc[v] \in Reading)
  BY <1>1 DEF CountLocked, DirectoryLocked, Counting
<1>4. /\ dirPc[t] = "count" /\ readCount'[server[t]] = 1 => \A u \in Mates : dirPc[u] \notin Counted
      /\ dirPc[t] = "count" /\ readCount'[server[t]] # 1 => \E u \in Mates : dirPc[u] \in Counted
      /\ dirPc[t] = "uncount" /\ readCount'[server[t]] = 0 =>
            \A u \in Mates : dirPc[u] \notin Counted
  <2>1. /\ readCount[server[t]] \in Nat
        /\ readCount[server[t]] = 0 <=> CountedAt(server[t]) = {}
        /\ t \in CountedAt(server[t]) /\ readCount[server[t]] = 1 => CountedAt(server[t]) = {t}
    BY <1>1, CountsMean
  <2>2. /\ dirPc[t] = "count" => readCount'[server[t]] = readCount[server[t]] + 1
        /\ dirPc[t] = "uncount" => readCount'[server[t]] = readCount[server[t]] - 1
    BY <1>1, <1>2 DEF Edge, Step
  <2>3. t \in CountedAt(server[t]) <=> dirPc[t] \in Counted
    BY DEF CountedAt
  <2>4. \A u \in Mates : u \in CountedAt(server[t]) <=> dirPc[u] \in Counted
    BY DEF CountedAt
  <2>5. CountedAt(server[t]) \subseteq Mates \cup {t}
    BY DEF CountedAt
  <2>6. "uncount" \in Counted /\ "count" \notin Counted
    BY DEF Counted, Reading
  <2> QED BY <2>1, <2>2, <2>3, <2>4, <2>5, <2>6
<1>5. \A u \in Mates : dirPc'[u] \in Reading \cup Writing => resource'[server[t]] = 0
  BY <1>1, <1>2, <1>3, <1>4 DEF Edge, Step, Reading, Writing, Counted
<1>6. dirPc'[t] \in Reading \cup Writing => resource'[server[t]] = 0
  BY <1>1, <1>2, <1>3, <1>4 DEF Edge, Step, Reading, Writing, Counted, DirectoryLocked, Counting
<1>7. /\ dirPc'[t] \in Writing => dirPc[t] \in Writing \/ resource[server[t]] = 1
      /\ dirPc'[t] \in Reading => \/ dirPc[t] \in Reading \/ resource[server[t]] = 1
                                  \/ \E u \in Mates : dirPc[u] \in Reading
      /\ dirPc'[t] \in Reading => dirPc[t] \in Reading \cup Counting
      /\ dirPc'[t] = "first" => \A u \in Mates : dirPc[u] \notin Counted
  BY <1>1, <1>2, <1>3, <1>4 DEF Edge, Step, Reading, Writing, Counted, Counting
<1>8. ASSUME NEW u \in Mates
      PROVE  /\ ~ (dirPc'[t] \in Writing /\ dirPc'[u] \in Reading \cup Writing)
             /\ ~ (dirPc'[u] \in Writing /\ dirPc'[t] \in Reading \cup Writing)
             /\ ~ (dirPc'[t] = "first" /\ dirPc'[u] \in Reading)
             /\ ~ (dirPc'[u] = "first" /\ dirPc'[t] \in Reading)
  <2>1. dirPc'[u] = dirPc[u] /\ u # t
    BY <1>2
  <2>2. dirPc[u] \in Reading \cup Writing => resource[server[t]] # 1
    BY <1>3
  <2>3. /\ dirPc[t] \in Reading => dirPc[u] \notin Writing
        /\ dirPc[t] \in Writing => dirPc[u] \notin Reading \cup Writing
        /\ dirPc[u] \in Writing => \A v \in Mates : dirPc[v] \notin Reading
        /\ dirPc[u] = "first" => dirPc[t] \notin Reading \cup Counting
    BY <2>1, <1>3 DEF Reading, Writing
  <2> QED BY <1>7, <2>1, <2>2, <2>3 DEF Counted
<1>9. \A u, v \in Mates : /\ dirPc'[u] \in Writing /\ dirPc'[v] \in Reading \cup Writing => u = v
                          /\ ~ (dirPc'[u] = "first" /\ dirPc'[v] \in Reading)
  BY <1>2, <1>3
<1>10. \A u, v \in Visitors : server[u] = server[v] =>
          /\ dirPc'[u] \in Writing /\ dirPc'[v] \in Reading \cup Writing => u = v
          /\ ~ (dirPc'[u] = "first" /\ dirPc'[v] \in Reading)
  <2> SUFFICES ASSUME NEW u \in Visitors, NEW v \in Visitors, server[u] = server[v]
               PROVE  /\ dirPc'[u] \in Writing /\ dirPc'[v] \in Reading \cup Writing => u = v
                      /\ ~ (dirPc'[u] = "first" /\ dirPc'[v] \in Reading)
    OBVIOUS
  <2>1. CASE server[u] # server[t]
    BY <2>1, <1>1, <1>2 DEF DirectoryLocked
  <2>2. CASE server[u] = server[t] /\ u # v
    BY <2>2, <1>8, <1>9
  <2>3. CASE u = v
    BY <2>3 DEF Reading
  <2> QED BY <2>1, <2>2, <2>3
<1>11. \A u \in Visitors : dirPc'[u] \in Reading \cup Writing => resource'[server[u]] = 0
  BY <1>1, <1>2, <1>5, <1>6 DEF DirectoryLocked
<1> QED BY <1>2, <1>10, <1>11 DEF DirectoryLocked

(* Nobody writes where one reads.                                             *)
LEMMA SeenHoldsStep ==
    ASSUME DirectoryAssumption, DirIInv, NEW t \in Visitors, thWork(t)
    PROVE  SeenHolds'
<1>1. /\ DirTypeOK /\ Places /\ DirectoryLocked /\ SeenHolds /\ Edge(t)
      /\ server[t] \in Servers
      /\ Files \in Nat /\ Places'
  BY Edges, PlacesStep DEF DirIInv, DirTypeOK, DirectoryAssumption
<1>2. /\ \A u \in Visitors \ {t} : dirPc'[u] = dirPc[u] /\ file'[u] = file[u] /\ seen'[u] = seen[u]
      /\ \A u \in Visitors : server'[u] = server[u] /\ server[u] \in Servers
      /\ \A s \in Servers \ {server[t]} : directory'[s] = directory[s]
  BY <1>1, Others DEF DirTypeOK
<1>3. /\ file \in [Visitors -> 1 .. Files + 1] /\ seen \in [Visitors -> [FileIds -> Nat]]
      /\ directory \in [Servers -> [FileIds -> Nat]] /\ dirPc = [u \in Visitors |-> dirPc[u]]
  BY <1>1 DEF DirTypeOK
<1>4. ASSUME NEW u \in Visitors \ {t}, dirPc'[u] \in Reading \cup {"write"}
      PROVE  directory'[server[u]] = directory[server[u]]
  <2>1. server[u] = server[t] => dirPc[t] # "write"
    <3>1. dirPc[u] \in Reading \cup Writing /\ u # t
      BY <1>2, <1>4 DEF Writing
    <3>2. dirPc[t] \in Writing /\ server[u] = server[t] => u = t
      BY <1>1, <3>1 DEF DirectoryLocked
    <3> QED BY <3>1, <3>2 DEF Writing
  <2>2. dirPc[t] # "write" => directory' = directory
    BY <1>1, Effects DEF ReadFile, ReadFileRecord, WriteFileRecord, DirGoto
  <2> QED BY <2>1, <2>2, <1>2
<1>5. ASSUME NEW u \in Visitors \ {t}
      PROVE  /\ dirPc'[u] \in Reading =>
                \A f \in 1 .. file'[u] - 1 : seen'[u][f] = directory'[server'[u]][f]
             /\ dirPc'[u] = "write" => seen'[u][file'[u]] = directory'[server'[u]][file'[u]]
  BY <1>1, <1>2, <1>4 DEF SeenHolds
<1>6. /\ dirPc'[t] \in Reading =>
            \A f \in 1 .. file'[t] - 1 : seen'[t][f] = directory'[server[t]][f]
      /\ dirPc'[t] = "write" => seen'[t][file'[t]] = directory'[server[t]][file'[t]]
  <2>1. CASE ReadFile(t)
    <3>1. /\ seen' = [seen EXCEPT ![t][file[t]] = directory[server[t]][file[t]]]
          /\ file'[t] = file[t] + 1 /\ directory' = directory /\ dirPc'[t] = "read"
          /\ dirPc[t] \in Reading /\ file[t] \in FileIds
      BY <1>1, <1>3, <2>1 DEF ReadFile, DirGoto, Reading, Places, FileIds
    <3>2. \A f \in 1 .. file[t] - 1 : seen[t][f] = directory[server[t]][f]
      BY <3>1, <1>1 DEF SeenHolds
    <3>3. ASSUME NEW f \in 1 .. file[t]
          PROVE  seen'[t][f] = directory'[server[t]][f]
      <4>1. f \in FileIds
        BY <3>1, <1>1 DEF FileIds
      <4>2. seen'[t][f] = IF f = file[t] THEN directory[server[t]][f] ELSE seen[t][f]
        BY <4>1, <3>1, <1>3
      <4>3. f # file[t] => f \in 1 .. file[t] - 1
        BY <3>1, <1>1 DEF FileIds
      <4> QED BY <4>2, <4>3, <3>1, <3>2
    <3>4. 1 .. file'[t] - 1 = 1 .. file[t]
      BY <3>1, <1>1 DEF FileIds
    <3> QED BY <3>1, <3>3, <3>4
  <2>2. CASE ReadFileRecord(t)
    <3>1. /\ seen' = [seen EXCEPT ![t][file[t]] = directory[server[t]][file[t]]]
          /\ file' = file /\ directory' = directory /\ dirPc'[t] = "write" /\ file[t] \in FileIds
      BY <1>1, <1>3, <2>2 DEF ReadFileRecord, DirGoto, FileIds
    <3>2. seen'[t][file[t]] = directory[server[t]][file[t]]
      BY <3>1, <1>3
    <3> QED BY <3>1, <3>2 DEF Reading
  <2>3. CASE WriteFileRecord(t)
    <3>1. dirPc'[t] = "modify"
      BY <1>3, <2>3 DEF WriteFileRecord, DirGoto
    <3> QED BY <3>1 DEF Reading
  <2>4. CASE UNCHANGED <<directory, file, seen>> /\ ~ DirGoto(t, "modify", "write")
    <3>1. dirPc'[t] # "write"
      BY <1>1, <1>3, <2>4 DEF Edge, Step, DirGoto
    <3>2. dirPc'[t] \in Reading => dirPc[t] \in Reading \/ file[t] = 1
      BY <1>1, <1>3 DEF Edge, Step, Reading, Places
    <3>3. file[t] = 1 => 1 .. file[t] - 1 = {}
      OBVIOUS
    <3> QED BY <3>1, <3>2, <3>3, <2>4, <1>1 DEF SeenHolds
  <2> QED BY <2>1, <2>2, <2>3, <2>4, <1>1, Effects
<1> QED BY <1>2, <1>5, <1>6 DEF SeenHolds

(* The writers that have passed file f of server s.                           *)
Modifiers(s, f) == {t \in Visitors : role[t] = "writer" /\ server[t] = s /\ file[t] > f}

(* A record is written over what is still there.                              *)
LEMMA NoLostModificationStep ==
    ASSUME DirectoryAssumption, DirIInv, NEW t \in Visitors, thWork(t)
    PROVE  NoLostModification'
<1>1. /\ DirTypeOK /\ Places /\ SeenHolds /\ NoLostModification /\ server[t] \in Servers
      /\ Files \in Nat /\ IsFiniteSet(Visitors)
  BY DEF DirIInv, DirTypeOK, DirectoryAssumption
<1>2. \A s \in Servers, f \in FileIds : directory[s][f] = Cardinality(Modifiers(s, f))
  BY <1>1 DEF NoLostModification, Modifiers
<1>3. /\ file \in [Visitors -> 1 .. Files + 1] /\ seen \in [Visitors -> [FileIds -> Nat]]
      /\ directory \in [Servers -> [FileIds -> Nat]]
  BY <1>1 DEF DirTypeOK
<1>4. server' = server /\ role' = role
  BY <1>1, Effects
<1>5. ASSUME NEW s \in Servers, NEW f \in FileIds
      PROVE  directory'[s][f] = Cardinality(Modifiers(s, f)')
  <2>1. CASE WriteFileRecord(t)
    <3>1. /\ directory' = [directory EXCEPT ![server[t]][file[t]] = seen[t][file[t]] + 1]
          /\ file' = [file EXCEPT ![t] = @ + 1]
          /\ seen[t][file[t]] = directory[server[t]][file[t]]
          /\ file[t] \in FileIds /\ role[t] = "writer"
      BY <2>1, <1>1, <1>3 DEF WriteFileRecord, DirGoto, Places, SeenHolds, WriterOnly, Writing,
         FileIds
    <3>2. \A u \in Visitors : file'[u] = IF u = t THEN file[t] + 1 ELSE file[u]
      BY <3>1, <1>3
    <3>3. CASE s = server[t] /\ f = file[t]
      <4>1. Modifiers(s, f)' = Modifiers(s, f) \cup {t} /\ t \notin Modifiers(s, f)
        BY <3>1, <3>2, <3>3, <1>3, <1>4 DEF Modifiers, FileIds
      <4>2. IsFiniteSet(Modifiers(s, f))
        BY <1>1, FS_Subset DEF Modifiers
      <4>3. Cardinality(Modifiers(s, f)') = Cardinality(Modifiers(s, f)) + 1
        BY <4>1, <4>2, FS_AddElement
      <4>4. directory'[s][f] = directory[s][f] + 1
        BY <3>1, <3>3, <1>3
      <4> QED BY <4>3, <4>4, <1>2
    <3>4. CASE ~ (s = server[t] /\ f = file[t])
      <4>1. Modifiers(s, f)' = Modifiers(s, f)
        BY <3>1, <3>2, <3>4, <1>3, <1>4 DEF Modifiers, FileIds
      <4>2. directory'[s][f] = directory[s][f]
        BY <3>1, <3>4, <1>3
      <4> QED BY <4>1, <4>2, <1>2
    <3> QED BY <3>3, <3>4
  <2>2. CASE ReadFile(t)
    <3>1. directory' = directory /\ file' = [file EXCEPT ![t] = @ + 1] /\ role[t] # "writer"
      BY <2>2, <1>1 DEF ReadFile, DirGoto, Places, ReaderOnly, Counted, Reading
    <3>2. Modifiers(s, f)' = Modifiers(s, f)
      BY <3>1, <1>3, <1>4 DEF Modifiers
    <3> QED BY <3>1, <3>2, <1>2
  <2>3. CASE directory' = directory /\ file' = file
    BY <2>3, <1>2, <1>4 DEF Modifiers
  <2> QED BY <2>1, <2>2, <2>3, <1>1, Effects DEF ReadFileRecord
<1> QED BY <1>5 DEF NoLostModification, Modifiers

-----------------------------------------------------------------------------
(* The threads start with nothing taken and nothing read.                     *)
LEMMA DirInitially ==
    ASSUME DirectoryAssumption, DirInit
    PROVE  DirIInv
<1> USE DEF DirInit, DirectoryAssumption
<1>1. Cardinality(Visitors) \in Nat
  BY FS_CardinalityType
<1>2. DirTypeOK
  BY <1>1 DEF DirTypeOK, FileIds, Reading, Writing
<1>3. \A t \in Visitors : dirPc[t] \in {"rmutex", "resource"} /\ file[t] = 1
  OBVIOUS
<1>4. Places
  BY DEF Places, ReaderOnly, WriterOnly, Counted, Reading, Writing
<1>5. CountLocked /\ DirectoryLocked
  BY <1>3 DEF CountLocked, DirectoryLocked, Counting, Reading, Writing
<1>6. ReadersCounted
  <2>1. \A s \in Servers : CountedAt(s) = {}
    BY <1>3 DEF CountedAt, Counted, Reading
  <2> QED BY <2>1, FS_EmptySet DEF ReadersCounted
<1>7. SeenHolds
  BY <1>3 DEF SeenHolds, Reading
<1>8. NoLostModification
  <2>1. \A s \in Servers, f \in FileIds : Modifiers(s, f) = {}
    BY DEF Modifiers, FileIds
  <2> QED BY <2>1, FS_EmptySet DEF NoLostModification, Modifiers
<1> QED BY <1>2, <1>4, <1>5, <1>6, <1>7, <1>8 DEF DirIInv

(* A step of a thread keeps the whole invariant.                              *)
LEMMA WorkKeepsInvariant ==
    ASSUME DirectoryAssumption, DirIInv, NEW t \in Visitors, thWork(t)
    PROVE  DirIInv'
<1>1. DirTypeOK'
  <2>1. \A s \in Servers : readCount'[s] \in 0 .. Cardinality(Visitors)'
    <3>1. ReadersCounted' /\ Cardinality(Visitors) \in Nat
      BY ReadersCountedStep, FS_CardinalityType DEF DirectoryAssumption
    <3>2. \A s \in Servers : /\ readCount'[s] = Cardinality(CountedAt(s)')
                             /\ CountedAt(s)' \in SUBSET Visitors
      BY <3>1 DEF ReadersCounted, CountedAt
    <3>3. \A S \in SUBSET Visitors : Cardinality(S) \in 0 .. Cardinality(Visitors)
      BY <3>1, FS_Subset, FS_CardinalityType DEF DirectoryAssumption
    <3> QED BY <3>2, <3>3
  <2>2. readCount' = [s \in Servers |-> readCount'[s]]
    BY Edges DEF Edge, DirIInv, DirTypeOK
  <2> QED BY <2>1, <2>2, DirTypeStep DEF DirTypeOK
<1> QED BY <1>1, PlacesStep, CountLockedStep, DirectoryLockedStep, ReadersCountedStep,
           SeenHoldsStep, NoLostModificationStep DEF DirIInv

(* The inductive invariant holds in every reachable state. *)
THEOREM DirInductive ==
    ASSUME DirectoryAssumption
    PROVE  DirSpec => []DirIInv
<1>1. DirInit => DirIInv
  BY DirInitially
<1>2. DirIInv /\ [DirNext]_dirVars => DirIInv'
  <2> SUFFICES ASSUME DirIInv, [DirNext]_dirVars
               PROVE  DirIInv'
    OBVIOUS
  <2>1. CASE \E t \in Visitors : thWork(t)
    BY <2>1, WorkKeepsInvariant
  <2>2. CASE UNCHANGED dirVars
    BY <2>2 DEF DirIInv, DirTypeOK, Places, CountLocked, DirectoryLocked, ReadersCounted,
       CountedAt,
                SeenHolds, NoLostModification, dirVars
  <2> QED BY <2>1, <2>2 DEF DirNext
<1> QED BY <1>1, <1>2, PTL DEF DirSpec

(* No release of a semaphore of LAB11/E01.cpp finds it free, and no counter,
   place or record leaves its type. *)
THEOREM TypeCorrect ==
    ASSUME DirectoryAssumption
    PROVE  DirSpec => []DirTypeOK
BY DirInductive, PTL DEF DirIInv

(* However many threads read a directory of LAB11/E01.cpp, what a reader saw in
   the first files still holds when it reads the last. *)
THEOREM ReadersStable ==
    ASSUME DirectoryAssumption
    PROVE  DirSpec => []StableWhileRead
<1>1. DirIInv => StableWhileRead
  BY DEF DirIInv, SeenHolds, StableWhileRead
<1> QED BY <1>1, DirInductive, PTL

(* No writer of LAB11/E01.cpp undoes another's change: every file holds one
   modification for each writer that has passed it. *)
THEOREM ModificationsKept ==
    ASSUME DirectoryAssumption
    PROVE  DirSpec => []NoLostModification
BY DirInductive, PTL DEF DirIInv

-----------------------------------------------------------------------------
(* Account update *)

(* E04 holds nothing: what follows is about the programs that lock.           *)
Locking == Programs \subseteq {"E01", "E03"}

Operation == [id : Accounts, number : Int]
Updating == {"read", "write", "unlock"}

(* Between reading an operation and the next one, a thread has one at hand.   *)
AtHand == \A t \in Threads : pc[t] # "next" => fileData[t] \in Operation

(* A thread owns what guards the record it updates, and nothing else is owned. *)
Guarded ==
    /\ \A t \in Threads : pc[t] \in Updating => \A l \in Guards(fileData[t].id) : owner[l] = t
    /\ \A l \in Accounts \cup {Mutex} : owner[l] # NoOne => l \in Guards(fileData[owner[l]].id)

IInv == TypeOK /\ program \in {"E01", "E03"} /\ AtHand /\ Guarded /\ UpdateUndisturbed

-----------------------------------------------------------------------------
(* What guards a record: the record itself or the mutex.                      *)
LEMMA GuardsAre ==
    ASSUME program \in {"E01", "E03"}, NEW i \in Accounts
    PROVE  /\ Guards(i) \subseteq Accounts \cup {Mutex}
           /\ Guards(i) # {}
BY DEF Guards

(* Two threads never update the same record together.                         *)
LEMMA Exclusive ==
    ASSUME IInv, NEW t \in Threads, NEW u \in Threads,
           pc[t] \in Updating, pc[u] \in Updating, fileData[t].id = fileData[u].id
    PROVE  t = u
<1>1. PICK l \in Guards(fileData[t].id) : TRUE
  <2>1. fileData[t].id \in Accounts /\ program \in {"E01", "E03"}
    BY DEF IInv, AtHand, Operation, Updating
  <2> QED BY <2>1, GuardsAre
<1>2. owner[l] = t /\ owner[l] = u
  BY <1>1 DEF IInv, Guarded
<1> QED BY <1>2

(* The variables keep their types.                                            *)
LEMMA TypeStep ==
    ASSUME IInv, NEW t \in Threads, work(t)
    PROVE  TypeOK' /\ AtHand'
<1>1. TypeOK /\ AtHand /\ Guarded /\ program \in {"E01", "E03"}
  BY DEF IInv
<1>2. /\ program \in Programs /\ account \in [Accounts -> Int]
      /\ owner \in [Accounts \cup {Mutex} -> Threads \cup {NoOne}]
      /\ pc \in [Threads -> {"next", "lock", "read", "write", "unlock"}]
      /\ todo \in [Threads -> Seq(Operation)]
      /\ fileData \in [Threads -> Operation \cup {NoOperation}]
      /\ fileDataApp \in [Threads -> Int]
      /\ \A l \in Accounts \cup {Mutex} :
            owner[l] # NoOne => pc[owner[l]] \in Updating /\ l \in Guards(fileData[owner[l]].id)
      /\ NoOne \notin Threads
  BY <1>1, AccountAssumption DEF TypeOK, Operation, Guarded, Updating
<1>3. \A u \in Threads : pc[u] # "next" =>
         fileData[u].id \in Accounts /\ fileData[u].number \in Int
  BY <1>1 DEF AtHand, Operation
<1>4. CASE ReadOperation(t)
  <2>1. Head(todo[t]) \in Operation /\ Tail(todo[t]) \in Seq(Operation)
    BY <1>2, <1>4, HeadTailProperties DEF ReadOperation
  <2>2. /\ todo' \in [Threads -> Seq(Operation)]
        /\ fileData' \in [Threads -> Operation \cup {NoOperation}]
    BY <2>1, <1>2, <1>4 DEF ReadOperation
  <2>3. \A l \in Accounts \cup {Mutex} : owner'[l] # NoOne => pc'[owner'[l]] \in Updating
    BY <1>2, <1>4 DEF ReadOperation, Goto, Updating
  <2>4. pc' \in [Threads -> {"next", "lock", "read", "write", "unlock"}]
    BY <1>2, <1>4 DEF ReadOperation, Goto
  <2>5. AtHand'
    BY <2>1, <1>1, <1>2, <1>4 DEF ReadOperation, Goto, AtHand
  <2> QED BY <2>2, <2>3, <2>4, <2>5, <1>2, <1>4 DEF ReadOperation, TypeOK, Operation, Updating
<1>5. CASE Lock(t)
  <2>1. owner' \in [Accounts \cup {Mutex} -> Threads \cup {NoOne}]
    BY <1>2, <1>5 DEF Lock
  <2>2. \A l \in Accounts \cup {Mutex} : owner'[l] # NoOne => pc'[owner'[l]] \in Updating
    BY <1>2, <1>5 DEF Lock, Goto, Updating
  <2>3. pc' \in [Threads -> {"next", "lock", "read", "write", "unlock"}] /\ AtHand'
    BY <1>1, <1>2, <1>5 DEF Lock, Goto, AtHand
  <2> QED BY <2>1, <2>2, <2>3, <1>2, <1>5 DEF Lock, TypeOK, Operation, Updating
<1>6. CASE ReadRecord(t)
  <2>1. account[fileData[t].id] \in Int
    BY <1>2, <1>3, <1>6 DEF ReadRecord, Goto
  <2>2. \A l \in Accounts \cup {Mutex} : owner'[l] # NoOne => pc'[owner'[l]] \in Updating
    BY <1>2, <1>6 DEF ReadRecord, Goto, Updating
  <2>3. pc' \in [Threads -> {"next", "lock", "read", "write", "unlock"}] /\ AtHand'
    BY <1>1, <1>2, <1>6 DEF ReadRecord, Goto, AtHand
  <2> QED BY <2>1, <2>2, <2>3, <1>2, <1>6 DEF ReadRecord, TypeOK, Operation, Updating
<1>7. CASE WriteRecord(t)
  <2>1. fileDataApp[t] + fileData[t].number \in Int
    BY <1>2, <1>3, <1>7 DEF WriteRecord, Goto
  <2>2. \A l \in Accounts \cup {Mutex} : owner'[l] # NoOne => pc'[owner'[l]] \in Updating
    BY <1>2, <1>7 DEF WriteRecord, Goto, Updating
  <2>3. pc' \in [Threads -> {"next", "lock", "read", "write", "unlock"}] /\ AtHand'
    BY <1>1, <1>2, <1>7 DEF WriteRecord, Goto, AtHand
  <2> QED BY <2>1, <2>2, <2>3, <1>2, <1>7 DEF WriteRecord, TypeOK, Operation, Updating
<1>8. CASE Unlock(t)
  <2>1. owner' \in [Accounts \cup {Mutex} -> Threads \cup {NoOne}]
    BY <1>2, <1>8 DEF Unlock
  <2>2. \A l \in Accounts \cup {Mutex} : owner'[l] # NoOne => pc'[owner'[l]] \in Updating
    BY <1>2, <1>8 DEF Unlock, Goto, Updating
  <2>3. pc' \in [Threads -> {"next", "lock", "read", "write", "unlock"}] /\ AtHand'
    BY <1>1, <1>2, <1>8 DEF Unlock, Goto, AtHand
  <2> QED BY <2>1, <2>2, <2>3, <1>2, <1>8 DEF Unlock, TypeOK, Operation, Updating
<1> QED BY <1>4, <1>5, <1>6, <1>7, <1>8 DEF work

(* Locks are taken free, held during the update, and given back.              *)
LEMMA GuardedStep ==
    ASSUME IInv, NEW t \in Threads, work(t)
    PROVE  Guarded'
<1>1. /\ owner \in [Accounts \cup {Mutex} -> Threads \cup {NoOne}]
      /\ pc = [u \in Threads |-> pc[u]] /\ fileData = [u \in Threads |-> fileData[u]]
      /\ NoOne \notin Threads
      /\ \A u \in Threads : pc[u] # "next" => Guards(fileData[u].id) \subseteq Accounts \cup {Mutex}
  BY GuardsAre, AccountAssumption DEF IInv, TypeOK, AtHand, Operation
<1>2. /\ \A u \in Threads : pc[u] \in Updating => \A l \in Guards(fileData[u].id) : owner[l] = u
      /\ \A l \in Accounts \cup {Mutex} : owner[l] # NoOne =>
            owner[l] \in Threads /\ pc[owner[l]] \in Updating /\ l \in Guards(fileData[owner[l]].id)
  <2>1. Guarded
    BY DEF IInv
  <2>2. \A l \in DOMAIN owner : owner[l] # NoOne => pc[owner[l]] \in Updating
    BY DEF IInv, TypeOK, Updating
  <2>3. DOMAIN owner = Accounts \cup {Mutex}
    BY <1>1
  <2>4. \A l \in Accounts \cup {Mutex} : owner[l] \in Threads \cup {NoOne}
    BY <1>1
  <2> QED BY <2>1, <2>2, <2>3, <2>4 DEF Guarded
<1>3. program' = program
  BY DEF work, ReadOperation, Lock, ReadRecord, WriteRecord, Unlock
<1>4. \A i : Guards(i)' = Guards(i)
  BY <1>3 DEF Guards
<1>5. CASE ReadOperation(t)
  <2>1. \A u \in Threads : u # t => fileData'[u] = fileData[u] /\ pc'[u] = pc[u]
    BY <1>1, <1>5 DEF ReadOperation, Goto
  <2>2. owner' = owner /\ pc[t] \notin Updating /\ pc'[t] \notin Updating
    BY <1>1, <1>5 DEF ReadOperation, Goto, Updating
  <2> QED BY <2>1, <2>2, <1>2, <1>3 DEF Guarded, Guards
<1>6. CASE Lock(t)
  <2>1. /\ fileData' = fileData /\ pc[t] = "lock" /\ \A u \in Threads \ {t} : pc'[u] = pc[u]
        /\ \A l \in Guards(fileData[t].id) : owner[l] = NoOne
        /\ \A l \in Accounts \cup {Mutex} :
              owner'[l] = IF l \in Guards(fileData[t].id) THEN t ELSE owner[l]
        /\ pc[t] \notin Updating
    BY <1>1, <1>6 DEF Lock, Goto, Updating
  <2>2. \A u \in Threads : pc'[u] \in Updating => \A l \in Guards(fileData[u].id) : owner'[l] = u
    BY <2>1, <1>1, <1>2 DEF Updating
  <2>3. \A l \in Accounts \cup {Mutex} : owner'[l] # NoOne => l \in Guards(fileData[owner'[l]].id)
    BY <2>1, <1>2
  <2> QED BY <2>1, <2>2, <2>3, <1>3 DEF Guarded, Guards
<1>7. CASE ReadRecord(t) \/ WriteRecord(t)
  <2>1. /\ fileData' = fileData /\ owner' = owner
        /\ \A u \in Threads : pc'[u] \in Updating <=> pc[u] \in Updating
    BY <1>1, <1>7 DEF ReadRecord, WriteRecord, Goto, Updating
  <2> QED BY <2>1, <1>2, <1>3 DEF Guarded, Guards
<1>8. CASE Unlock(t)
  <2>1. /\ fileData' = fileData /\ pc[t] \in Updating /\ pc'[t] \notin Updating
        /\ \A u \in Threads \ {t} : pc'[u] = pc[u]
        /\ \A l \in Accounts \cup {Mutex} :
              owner'[l] = IF l \in Guards(fileData[t].id) THEN NoOne ELSE owner[l]
    BY <1>1, <1>8 DEF Unlock, Goto, Updating
  <2>2. \A u \in Threads : pc'[u] \in Updating => \A l \in Guards(fileData[u].id) : owner'[l] = u
    <3> SUFFICES ASSUME NEW u \in Threads, pc'[u] \in Updating,
                        NEW l \in Guards(fileData[u].id)
                 PROVE  owner'[l] = u
      OBVIOUS
    <3>1. u # t /\ pc[u] \in Updating /\ owner[l] = u
      BY <2>1, <1>2
    <3>2. l \notin Guards(fileData[t].id)
      BY <3>1, <2>1, <1>2
    <3>3. l \in Accounts \cup {Mutex}
      BY <3>1, <1>1 DEF Updating
    <3> QED BY <3>1, <3>2, <3>3, <2>1
  <2>3. \A l \in Accounts \cup {Mutex} : owner'[l] # NoOne => l \in Guards(fileData[owner'[l]].id)
    BY <2>1, <1>2
  <2> QED BY <2>1, <2>2, <2>3, <1>3 DEF Guarded, Guards
<1> QED BY <1>5, <1>6, <1>7, <1>8 DEF work

(* Nobody else writes the record a thread has read.                           *)
LEMMA UndisturbedStep ==
    ASSUME IInv, NEW t \in Threads, work(t)
    PROVE  \A u \in Threads : pc'[u] = "write" => fileDataApp'[u] = account'[fileData'[u].id]
<1>1. /\ pc = [u \in Threads |-> pc[u]] /\ fileData = [u \in Threads |-> fileData[u]]
      /\ fileDataApp = [u \in Threads |-> fileDataApp[u]] /\ account = [a \in Accounts |-> account[a]]
      /\ \A u \in Threads : pc[u] = "write" => fileDataApp[u] = account[fileData[u].id]
      /\ \A u \in Threads : pc[u] # "next" => fileData[u].id \in Accounts
  BY DEF IInv, TypeOK, UpdateUndisturbed, AtHand, Operation
<1>2. CASE ReadOperation(t)
  BY <1>1, <1>2 DEF ReadOperation, Goto
<1>3. CASE Lock(t)
  BY <1>1, <1>3 DEF Lock, Goto
<1>4. CASE ReadRecord(t)
  BY <1>1, <1>4 DEF ReadRecord, Goto
<1>5. CASE WriteRecord(t)
  <2>1. /\ pc[t] = "write" /\ pc'[t] = "unlock" /\ \A u \in Threads \ {t} : pc'[u] = pc[u]
        /\ fileData' = fileData /\ fileDataApp' = fileDataApp
        /\ \A a \in Accounts : a # fileData[t].id => account'[a] = account[a]
    BY <1>1, <1>5 DEF WriteRecord, Goto
  <2>2. \A u \in Threads \ {t} : pc[u] = "write" => fileData[u].id # fileData[t].id
    BY <2>1, Exclusive DEF Updating
  <2> QED BY <2>1, <2>2, <1>1
<1>6. CASE Unlock(t)
  BY <1>1, <1>6 DEF Unlock, Goto
<1> QED BY <1>2, <1>3, <1>4, <1>5, <1>6 DEF work

-----------------------------------------------------------------------------
(* The threads start with nothing locked and nothing read.                    *)
LEMMA Initially ==
    ASSUME Locking, Init
    PROVE  IInv
<1>1. /\ program \in Programs /\ program \in {"E01", "E03"} /\ account \in [Accounts -> Int]
      /\ todo \in [Threads -> Seq([id : Accounts, number : Int])]
  BY AccountAssumption DEF Init, Locking
<1>2. /\ \A t \in Threads : pc[t] = "next"
      /\ \A l \in Accounts \cup {Mutex} : owner[l] = NoOne
      /\ pc = [t \in Threads |-> "next"] /\ owner = [l \in Accounts \cup {Mutex} |-> NoOne]
  BY DEF Init
<1>3. /\ pc \in [Threads -> {"next", "lock", "read", "write", "unlock"}]
      /\ owner \in [Accounts \cup {Mutex} -> Threads \cup {NoOne}]
      /\ \A l \in DOMAIN owner : owner[l] = NoOne
  BY <1>2
<1>4. /\ fileData \in [Threads -> [id : Accounts, number : Int] \cup {NoOperation}]
      /\ fileDataApp \in [Threads -> Int]
  BY DEF Init
<1>5. TypeOK
  BY <1>1, <1>3, <1>4 DEF TypeOK
<1> QED BY <1>1, <1>2, <1>5 DEF IInv, AtHand, Guarded, UpdateUndisturbed, Updating

(* A step of a thread, and any stuttering step, keeps the invariant.          *)
LEMMA StepKeepsInvariant ==
    ASSUME IInv, [Next]_vars
    PROVE  IInv'
<1>1. CASE \E t \in Threads : work(t)
  <2>1. PICK t \in Threads : work(t)
    BY <1>1
  <2>2. program' = program
    BY <2>1 DEF work, ReadOperation, Lock, ReadRecord, WriteRecord, Unlock
  <2> QED BY <2>1, <2>2, TypeStep, GuardedStep, UndisturbedStep DEF IInv, UpdateUndisturbed
<1>2. CASE UNCHANGED vars
  BY <1>2 DEF IInv, TypeOK, AtHand, Guarded, Guards, UpdateUndisturbed, vars
<1> QED BY <1>1, <1>2 DEF Next

(* The inductive invariant holds in every reachable state. *)
THEOREM Inductive ==
    ASSUME Locking
    PROVE  Spec => []IInv
BY Initially, StepKeepsInvariant, PTL DEF Spec

(* In LAB10/E01.cpp and E03.cpp a record is written back over the amount that
   was read from it: no other thread has changed it in between. *)
THEOREM UpdatesUndisturbed ==
    ASSUME Locking
    PROVE  Spec => []UpdateUndisturbed
BY Inductive, PTL DEF IInv

-----------------------------------------------------------------------------
(* The operations a thread has not applied yet, the one at hand first.        *)
Pending == [t \in Threads |-> IF pc[t] \in {"lock", "read", "write"}
                                THEN <<fileData[t]>> \o todo[t] ELSE todo[t]]

(* A list is its first element followed by the others.                        *)
LEMMA Prepend ==
    ASSUME NEW S, NEW s \in Seq(S), NEW x \in S
    PROVE  /\ <<x>> \o s # <<>> /\ Head(<<x>> \o s) = x /\ Tail(<<x>> \o s) = s
           /\ s # <<>> => <<Head(s)>> \o Tail(s) = s
  OBVIOUS

(* Writing a record applies the operation; no other step changes a balance or
   what is still to do. *)
LEMMA StepApplies ==
    ASSUME IInv, [Next]_vars
    PROVE  [Ledger!Next]_(Ledger!ledgerVars)
<1>1. /\ TypeOK /\ AtHand /\ UpdateUndisturbed
      /\ todo \in [Threads -> Seq(Operation)] /\ pc = [t \in Threads |-> pc[t]]
      /\ fileData = [t \in Threads |-> fileData[t]] /\ account \in [Accounts -> Int]
  BY DEF IInv, TypeOK, Operation
<1>2. ASSUME NEW t \in Threads, ReadOperation(t)
      PROVE  Pending' = Pending /\ account' = account
  <2>1. /\ todo[t] # <<>> /\ pc[t] = "next" /\ pc'[t] = "lock" /\ fileData'[t] = Head(todo[t])
        /\ todo'[t] = Tail(todo[t]) /\ account' = account
        /\ \A u \in Threads \ {t} : pc'[u] = pc[u] /\ fileData'[u] = fileData[u] /\ todo'[u] = todo[u]
    BY <1>1, <1>2 DEF ReadOperation, Goto
  <2>2. <<Head(todo[t])>> \o Tail(todo[t]) = todo[t]
    BY <2>1, <1>1, Prepend, HeadTailProperties
  <2> QED BY <2>1, <2>2 DEF Pending
<1>3. ASSUME NEW t \in Threads, Lock(t) \/ ReadRecord(t)
      PROVE  Pending' = Pending /\ account' = account
  BY <1>1, <1>3 DEF Lock, ReadRecord, Goto, Pending
<1>4. ASSUME NEW t \in Threads, Unlock(t)
      PROVE  Pending' = Pending /\ account' = account
  BY <1>1, <1>4 DEF Unlock, Goto, Pending
<1>5. ASSUME NEW t \in Threads, WriteRecord(t)
      PROVE  Ledger!Apply(t)
  <2>1. /\ pc[t] = "write" /\ pc'[t] = "unlock" /\ fileData' = fileData /\ todo' = todo
        /\ account' = [account EXCEPT ![fileData[t].id] = account[fileData[t].id] + fileData[t].number]
        /\ \A u \in Threads \ {t} : pc'[u] = pc[u]
    BY <1>1, <1>5 DEF WriteRecord, Goto, UpdateUndisturbed
  <2>2. /\ Pending[t] = <<fileData[t]>> \o todo[t] /\ Pending'[t] = todo[t]
        /\ \A u \in Threads \ {t} : Pending'[u] = Pending[u]
    BY <2>1 DEF Pending
  <2>3. /\ Pending[t] # <<>> /\ Head(Pending[t]) = fileData[t] /\ Tail(Pending[t]) = Pending'[t]
    BY <2>1, <2>2, <1>1, Prepend DEF AtHand
  <2>4. Pending' = [Pending EXCEPT ![t] = Tail(@)]
    BY <2>2, <2>3 DEF Pending
  <2> QED BY <2>1, <2>3, <2>4 DEF Ledger!Apply, Pending
<1>6. CASE UNCHANGED vars
  BY <1>6 DEF vars, Ledger!ledgerVars
<1> QED BY <1>2, <1>3, <1>4, <1>5, <1>6 DEF Next, work, Ledger!Next, Ledger!ledgerVars, Pending

(* LAB10/E01.cpp and E03.cpp implement the ledger: each operation takes effect
   at one instant, once, in the order of its thread's file. *)
THEOREM ImplementsLedger ==
    ASSUME Locking
    PROVE  Spec => LedgerSpec
<1>1. Init => Ledger!Init
  BY AccountAssumption DEF Init, Ledger!Init
<1> QED BY <1>1, StepApplies, Inductive, PTL DEF Spec, LedgerSpec, Ledger!Spec

-----------------------------------------------------------------------------
(* Copy and merge *)

(* Where a worker has created its copy, and where it owns the name to merge.   *)
Naming == {"name", "finish", "go_ahead", "leave"}
Copied == {"set"} \cup Naming
Copying == {"create", "count", "copy"} \cup Copied
InMerge == {"release", "read", "write", "append"}

Path(w) == Walk[entry[w]].path
CountsOf(f) == Counts(Content[f])
Totals == [1 .. 3 -> Nat]
TotalOf(S) == [k \in 1 .. 3 |-> Cardinality(UNION {{p} \X Positions(Content[p])[k] : p \in S})]

CopyTyped ==
    /\ CopyTypeOK
    /\ data \in [line : Totals, body : Seq(FilePaths), overrun : Nat]
    /\ n456 \in Totals
    /\ copyPc = [t \in Workers \cup {Main, Merger} |-> copyPc[t]]
    /\ \A w \in Workers : copyPc[w] \in {"entry", "exists", "mkdir"} \cup Copying
    /\ copyPc[Merger] \in {"wait", "done?", "returned"} \cup InMerge
    /\ copyPc[Main] \in {"join", "stop", "join_merge", "exit"}
    /\ number \in [Workers -> Totals]

CopyLocked ==
    \A w \in Workers :
        /\ copyPc[w] \in {"exists", "create"} <=> cs_check_file_presence = w
        /\ copyPc[w] \in Naming <=> cs_set_file_name_for_merge = w

(* What a worker is at, and what it has counted and written. *)
OwnRight ==
    \A w \in Workers :
        /\ copyPc[w] \notin {"entry", "mkdir"} =>
              entry[w] \in DOMAIN Walk /\ ~ Walk[entry[w]].isDir
        /\ copyPc[w] = "mkdir" => entry[w] \in DOMAIN Walk
        /\ number[w] = IF copyPc[w] \in {"copy"} \cup Copied THEN CountsOf(Path(w)) ELSE Zero
        /\ copyPc[w] \in Copying \ {"create"} => Path(w) \in DOMAIN destination
        /\ copyPc[w] \in Copied => destination[Path(w)] = CountsOf(Path(w))

(* No two workers copy one file. *)
CopyAlone ==
    \A w, u \in Workers :
        w # u /\ copyPc[w] \in Copying /\ copyPc[u] \in Copying => Path(w) # Path(u)

(* The files that the merger has, and the workers whose file it is still to get *)
Given == Merged \cup (IF copyPc[Merger] \in InMerge THEN {copied_name} ELSE {})
ToMerge(w) ==
    \/ copyPc[w] \in Copying \ {"go_ahead", "leave"}
    \/ copyPc[w] = "go_ahead" /\ (sem_finish[w] = 1 \/ (copyPc[Merger] = "done?" /\ res = w))

GivenOnce ==
    /\ \A w \in Workers : ToMerge(w) => Path(w) \notin Given
    /\ Given \subseteq DOMAIN destination \cap FilePaths
    /\ copyPc[Merger] \in InMerge => copied_name \notin Merged
    /\ copyPc[Merger] \in {"release", "read"} => destination[copied_name] = CountsOf(copied_name)
    /\ \A j, k \in DOMAIN data.body : data.body[j] = data.body[k] => j = k

(* Who waits to go on has given the merger its name, and the permit comes back
   once: it is in sem_finish, with the merger or in sem_go_ahead.  After the
   workers have returned there is at most the permit that stops the merger.   *)
Exchange ==
    /\ is_done <=> copyPc[Main] # "join"
    /\ is_done => \A w \in Workers : Returned(w)
    /\ copyPc[Main] \in {"join", "join_merge", "exit"} \/ \A w \in Workers : sem_finish[w] = 0
    /\ \A w, v \in Workers : sem_finish[w] = 1 /\ sem_finish[v] = 1 => w = v
    /\ \A w \in Workers : sem_finish[w] = 1 /\ ~ is_done =>
          /\ copyPc[w] = "go_ahead" /\ name_for_merge = Path(w)
          /\ copyPc[Merger] \notin {"done?", "release"}
    /\ copyPc[Merger] \in {"done?", "release"} /\ ~ is_done =>
          copyPc[res] = "go_ahead" /\ sem_finish[res] = 0 /\ sem_go_ahead[res] = 0
          /\ name_for_merge = Path(res)
    /\ copyPc[Merger] = "release" => ~ is_done /\ copied_name = Path(res)
    /\ \A w \in Workers : sem_go_ahead[w] = 1 => copyPc[w] = "go_ahead" /\ sem_finish[w] = 0
    /\ \A w \in Workers : copyPc[w] = "finish" => name_for_merge = Path(w)

TotalsRight ==
    /\ data.line = IF copyPc[Merger] = "append" THEN Plus(TotalOf(Merged), CountsOf(copied_name))
                                            ELSE TotalOf(Merged)
    /\ copyPc[Merger] = "write" => n456 = Plus(data.line, CountsOf(copied_name))
    /\ data.body = <<>> /\ copyPc[Merger] \notin {"write", "append"} => n456 = Zero

CopyIInv ==
    CopyTyped /\ CopyLocked /\ OwnRight /\ CopyAlone /\ GivenOnce /\ Exchange /\ TotalsRight

(* A file has a number of characters, lines and words.                        *)
LEMMA PositionsFinite ==
    ASSUME CopyAssumption, NEW f \in FilePaths, NEW k \in 1 .. 3
    PROVE  IsFiniteSet(Positions(Content[f])[k])
<1>1. IsFiniteSet(DOMAIN Content[f])
  BY DEF CopyAssumption
<1>2. /\ LineEnds(Content[f]) \in SUBSET DOMAIN Content[f]
      /\ Words(Content[f]) \in SUBSET DOMAIN Content[f]
  BY DEF LineEnds, Words
<1>3. IsFiniteSet(LineEnds(Content[f])) /\ IsFiniteSet(Words(Content[f]))
  BY <1>1, <1>2, FS_Subset
<1> QED BY <1>1, <1>3 DEF Positions

LEMMA CountsAre ==
    ASSUME CopyAssumption, NEW f \in FilePaths
    PROVE  CountsOf(f) \in Totals
<1>1. \A k \in 1 .. 3 : Cardinality(Positions(Content[f])[k]) \in Nat
  BY PositionsFinite, FS_CardinalityType
<1> QED BY <1>1 DEF CountsOf, Counts, Totals

LEMMA PlusIs ==
    ASSUME NEW a \in Totals, NEW b \in Totals
    PROVE  Zero \in Totals /\ Plus(a, b) \in Totals /\ Plus(Zero, a) = a
BY DEF Totals, Zero, Plus

(* The first line of data.txt does not get shorter when counts are added.     *)
LEMMA DigitsGrow ==
    ASSUME NEW m \in Nat, NEW n \in Nat, m <= n
    PROVE  Digits(m) \in Nat /\ Digits(n) \in Nat /\ Digits(m) <= Digits(n)
<1>1. \A d \in 1 .. 9 : Tens[d] \in Nat
  BY SMT DEF Tens
<1>2. IsFiniteSet(1 .. 9)
  <2>1. \A last \in Nat : IsFiniteSet(1 .. last)
    BY FS_Interval
  <2> QED BY <2>1
<1>3. /\ {d \in 1 .. 9 : Tens[d] <= n} \in SUBSET (1 .. 9)
      /\ {d \in 1 .. 9 : Tens[d] <= m} \in SUBSET {d \in 1 .. 9 : Tens[d] <= n}
  BY <1>1
<1>4. IsFiniteSet({d \in 1 .. 9 : Tens[d] <= n})
  BY <1>2, <1>3, FS_Subset
<1>5. /\ IsFiniteSet({d \in 1 .. 9 : Tens[d] <= m})
      /\ Cardinality({d \in 1 .. 9 : Tens[d] <= m}) <= Cardinality({d \in 1 .. 9 : Tens[d] <= n})
  BY <1>3, <1>4, FS_Subset
<1>6. /\ Cardinality({d \in 1 .. 9 : Tens[d] <= m}) \in Nat
      /\ Cardinality({d \in 1 .. 9 : Tens[d] <= n}) \in Nat
  BY <1>4, <1>5, FS_CardinalityType
<1> QED BY <1>5, <1>6 DEF Digits

LEMMA WidthIs ==
    ASSUME NEW a \in Totals
    PROVE  Width(a) \in Nat
<1>1. \A k \in {1, 2, 3} : a[k] \in Nat
  BY DEF Totals
<1>2. \A k \in {1, 2, 3} : Digits(a[k]) \in Nat
  BY <1>1, DigitsGrow
<1> QED BY <1>2 DEF Width

LEMMA WidthGrows ==
    ASSUME NEW a \in Totals, NEW b \in Totals
    PROVE  Width(Plus(a, b)) - Width(a) \in Nat
<1>1. \A k \in {1, 2, 3} : a[k] \in Nat /\ Plus(a, b)[k] \in Nat /\ a[k] <= Plus(a, b)[k]
  BY DEF Totals, Plus
<1>2. \A k \in {1, 2, 3} : /\ Digits(a[k]) \in Nat /\ Digits(Plus(a, b)[k]) \in Nat
                           /\ Digits(a[k]) <= Digits(Plus(a, b)[k])
  BY <1>1, DigitsGrow
<1> QED BY <1>2 DEF Width

(* The files of the walk are finitely many, and so are those merged.          *)
LEMMA FilesFinite ==
    ASSUME CopyAssumption, NEW S \in SUBSET FilePaths
    PROVE  IsFiniteSet(S)
<1>1. IsFiniteSet(DOMAIN Walk)
  BY FS_Interval DEF CopyAssumption
<1> DEFINE J == {j \in DOMAIN Walk : ~ Walk[j].isDir}
           f == [k \in J |-> Walk[k].path]
<1>2. IsFiniteSet(J)
  BY <1>1, FS_Subset, J \in SUBSET DOMAIN Walk
<1>3. f \in Surjection(J, FilePaths)
  BY DEF Surjection, FilePaths
<1>4. IsFiniteSet(FilePaths)
  BY <1>2, <1>3, FS_Surjection
<1> QED BY <1>4, FS_Subset

(* The positions of a file one more are added to those of the others.         *)
LEMMA TotalGrows ==
    ASSUME CopyAssumption, NEW S \in SUBSET FilePaths, NEW f \in FilePaths \ S
    PROVE  TotalOf(S \cup {f}) = Plus(TotalOf(S), CountsOf(f))
<1> DEFINE In(T, k) == UNION {{p} \X Positions(Content[p])[k] : p \in T}
<1>1. ASSUME NEW k \in 1 .. 3
      PROVE  Cardinality(In(S \cup {f}, k))
               = Cardinality(In(S, k)) + Cardinality(Positions(Content[f])[k])
  <2>1. IsFiniteSet(S)
    BY FilesFinite
  <2>2. ASSUME NEW p \in FilePaths
        PROVE  /\ IsFiniteSet({p} \X Positions(Content[p])[k])
               /\ Cardinality({p} \X Positions(Content[p])[k])
                    = Cardinality(Positions(Content[p])[k])
    <3>1. IsFiniteSet({p}) /\ Cardinality({p}) = 1
      BY FS_Singleton
    <3>2. IsFiniteSet(Positions(Content[p])[k])
      BY PositionsFinite
    <3>3. Cardinality(Positions(Content[p])[k]) \in Nat
      BY <3>2, FS_CardinalityType
    <3>4. /\ IsFiniteSet({p} \X Positions(Content[p])[k])
          /\ Cardinality({p} \X Positions(Content[p])[k])
               = Cardinality({p}) * Cardinality(Positions(Content[p])[k])
      BY <3>1, <3>2, FS_Product
    <3> QED BY <3>1, <3>3, <3>4
  <2>3. IsFiniteSet(In(S, k))
    <3> DEFINE g == [p \in S |-> {p} \X Positions(Content[p])[k]]
               Parts == {{p} \X Positions(Content[p])[k] : p \in S}
    <3>1. g \in Surjection(S, Parts)
      BY DEF Surjection
    <3>2. IsFiniteSet(Parts)
      BY <2>1, <3>1, FS_Surjection
    <3>3. \A P \in Parts : IsFiniteSet(P)
      BY <2>2
    <3> QED BY <3>2, <3>3, FS_UNION
  <2>4. In(S \cup {f}, k) = In(S, k) \cup ({f} \X Positions(Content[f])[k])
    OBVIOUS
  <2>5. In(S, k) \cap ({f} \X Positions(Content[f])[k]) = {}
    OBVIOUS
  <2>6. Cardinality(In(S, k)) \in Nat /\ Cardinality({f} \X Positions(Content[f])[k]) \in Nat
    BY <2>2, <2>3, FS_CardinalityType
  <2>7. /\ IsFiniteSet({f} \X Positions(Content[f])[k])
        /\ Cardinality({f} \X Positions(Content[f])[k]) = Cardinality(Positions(Content[f])[k])
    BY <2>2
  <2> HIDE DEF In
  <2>8. Cardinality(In(S, k) \cup ({f} \X Positions(Content[f])[k]))
          = Cardinality(In(S, k)) + Cardinality({f} \X Positions(Content[f])[k])
              - Cardinality(In(S, k) \cap ({f} \X Positions(Content[f])[k]))
    BY <2>3, <2>7, FS_Union
  <2>9. Cardinality(In(S, k) \cap ({f} \X Positions(Content[f])[k])) = 0
    BY <2>5, FS_EmptySet
  <2>10. Cardinality(In(S \cup {f}, k))
           = Cardinality(In(S, k) \cup ({f} \X Positions(Content[f])[k]))
    BY <2>4, Zenon
  <2>11. Cardinality(In(S, k) \cup ({f} \X Positions(Content[f])[k]))
           = Cardinality(In(S, k)) + Cardinality({f} \X Positions(Content[f])[k])
    BY <2>6, <2>8, <2>9, SMT
  <2> QED BY <2>7, <2>10, <2>11, Zenon
<1>2. /\ TotalOf(S \cup {f}) = [k \in 1 .. 3 |-> Cardinality(In(S \cup {f}, k))]
      /\ TotalOf(S) = [k \in 1 .. 3 |-> Cardinality(In(S, k))]
      /\ CountsOf(f) = [k \in 1 .. 3 |-> Cardinality(Positions(Content[f])[k])]
  BY DEF TotalOf, CountsOf, Counts
<1> HIDE DEF In
<1> QED BY <1>1, <1>2 DEF Plus

LEMMA TotalOfNone == TotalOf({}) = Zero
<1>1. \A k \in 1 .. 3 : UNION {{p} \X Positions(Content[p])[k] : p \in {}} = {}
  OBVIOUS
<1> QED BY <1>1, FS_EmptySet DEF TotalOf, Zero

LEMMA Apart ==
    ASSUME CopyAssumption
    PROVE  0 \in Workers /\ Main \notin Workers /\ Merger \notin Workers /\ Main # Merger
BY DEF CopyAssumption, Workers, Main, Merger

(* What a step of a worker does, seen by the others *)
Move(w) ==
    \/ /\ copyPc[w] \in {"entry", "exists", "mkdir", "leave"}
       /\ copyPc'[w] \in {"entry", "exists", "mkdir"}
       /\ UNCHANGED <<name_for_merge, sems>>
    \/ /\ copyPc[w] = "exists" /\ copyPc'[w] = "create" /\ entry'[w] = entry[w]
       /\ Path(w) \notin DOMAIN destination
       /\ UNCHANGED <<name_for_merge, sems>>
    \/ /\ copyPc[w] \in {"create", "count", "copy", "set"}
       /\ copyPc'[w] \in {"count", "copy", "set", "name"} /\ entry'[w] = entry[w]
       /\ UNCHANGED <<name_for_merge, sems>>
    \/ /\ copyPc[w] = "name" /\ copyPc'[w] = "finish" /\ entry'[w] = entry[w]
       /\ name_for_merge' = Path(w)
       /\ UNCHANGED sems
    \/ /\ copyPc[w] = "finish" /\ copyPc'[w] = "go_ahead" /\ entry'[w] = entry[w]
       /\ sem_finish[w] = 0 /\ sem_finish'[w] = 1
       /\ UNCHANGED <<name_for_merge, sem_go_ahead>>
    \/ /\ copyPc[w] = "go_ahead" /\ copyPc'[w] = "leave" /\ entry'[w] = entry[w]
       /\ sem_go_ahead[w] = 1 /\ sem_go_ahead'[w] = 0
       /\ UNCHANGED <<name_for_merge, sem_finish>>

LEMMA WorkerMoves ==
    ASSUME CopyAssumption, CopyIInv, NEW w \in Workers, th_work(w)
    PROVE  /\ Move(w) /\ ~ is_done
           /\ \A u \in Workers \ {w} : /\ copyPc'[u] = copyPc[u] /\ entry'[u] = entry[u]
                                       /\ sem_finish'[u] = sem_finish[u]
                                       /\ sem_go_ahead'[u] = sem_go_ahead[u]
           /\ copyPc'[Merger] = copyPc[Merger] /\ copyPc'[Main] = copyPc[Main]
           /\ \A p \in DOMAIN destination :
                 /\ p \in DOMAIN destination'
                 /\ \/ destination'[p] = destination[p]
                    \/ copyPc[w] \in {"create", "copy"} /\ p = Path(w)
           /\ UNCHANGED merge
<1>1. /\ CopyTyped /\ Exchange /\ 0 \in Workers
      /\ Main \notin Workers /\ Merger \notin Workers
  BY Apart DEF CopyIInv
<1>2. ~ is_done
  <2>1. copyPc[w] # "entry" \/ entry[w] <= Len(Walk)
    BY Zenon DEF th_work, At, CopyGoto, SkipDot, EnterCheck, FileExists, FileAbsent, CreateFile,
       Count, Copy, EnterSet, SetName, ReleaseFinish, WaitGoAhead, LeaveSet, DirectoryExists,
       CreateDirectory
  <2>2. entry[w] \in Nat /\ Len(Walk) \in Nat
    <3>1. entry \in [Workers -> 1 .. Len(Walk) + 1]
      BY <1>1 DEF CopyTyped, CopyTypeOK
    <3>2. Len(Walk) \in Nat
      BY CopyAssumption DEF CopyAssumption
    <3> QED BY <3>1, <3>2
  <2> QED BY <1>1, <2>1, <2>2 DEF Exchange, Returned
<1> USE DEF CopyGoto, locks, sems, merge, Move, CopyTyped, CopyTypeOK
<1>3. CASE SkipDot(w)
  BY <1>1, <1>2, <1>3 DEF SkipDot, NextEntry
<1>4. CASE EnterCheck(w)
  BY <1>1, <1>2, <1>4 DEF EnterCheck
<1>5. CASE FileExists(w)
  BY <1>1, <1>2, <1>5 DEF FileExists, NextEntry
<1>6. CASE FileAbsent(w)
  BY <1>1, <1>2, <1>6 DEF FileAbsent, Here, Path
<1>7. CASE CreateFile(w)
  BY <1>1, <1>2, <1>7 DEF CreateFile, Write, Here, Path
<1>8. CASE Count(w)
  BY <1>1, <1>2, <1>8 DEF Count
<1>9. CASE Copy(w)
  BY <1>1, <1>2, <1>9 DEF Copy, Write, Here, Path
<1>10. CASE EnterSet(w)
  BY <1>1, <1>2, <1>10 DEF EnterSet
<1>11. CASE SetName(w)
  BY <1>1, <1>2, <1>11 DEF SetName, Here, Path
<1>12. CASE ReleaseFinish(w)
  <2>1. sem_finish \in [Workers -> 0 .. 1] /\ sem_finish[w] # 1
    BY <1>1, <1>2, <1>12 DEF ReleaseFinish, Exchange
  <2>2. sem_finish[w] = 0
    BY <2>1
  <2>3. sem_finish' = [sem_finish EXCEPT ![w] = 1]
    BY <2>2, <1>12 DEF ReleaseFinish
  <2> QED BY <1>1, <1>2, <1>12, <2>1, <2>2, <2>3 DEF ReleaseFinish
<1>13. CASE WaitGoAhead(w)
  <2>1. sem_go_ahead \in [Workers -> 0 .. 1] /\ sem_go_ahead[w] > 0
    BY <1>1, <1>13 DEF WaitGoAhead
  <2>2. sem_go_ahead[w] = 1
    BY <2>1
  <2>3. sem_go_ahead' = [sem_go_ahead EXCEPT ![w] = 0]
    BY <2>2, <1>13 DEF WaitGoAhead
  <2> QED BY <1>1, <1>2, <1>13, <2>1, <2>2, <2>3 DEF WaitGoAhead
<1>14. CASE LeaveSet(w)
  BY <1>1, <1>2, <1>14 DEF LeaveSet, NextEntry
<1>15. CASE DirectoryExists(w)
  BY <1>1, <1>2, <1>15 DEF DirectoryExists, NextEntry, Exchange
<1>16. CASE CreateDirectory(w)
  BY <1>1, <1>2, <1>16 DEF CreateDirectory, Here, Path, NextEntry
<1> QED
  BY <1>3, <1>4, <1>5, <1>6, <1>7, <1>8, <1>9,
     <1>10, <1>11, <1>12, <1>13, <1>14, <1>15, <1>16 DEF th_work

(* The merger and main leave the workers and what they write alone.           *)
LEMMA OthersMove ==
    ASSUME CopyAssumption, CopyTyped, th_merge \/ main
    PROVE  /\ \A u \in Workers : copyPc'[u] = copyPc[u]
           /\ UNCHANGED workers
           /\ \/ copyPc'[Main] = copyPc[Main] /\ UNCHANGED is_done
              \/ ~ th_merge
           /\ \/ /\ copyPc'[Merger] = copyPc[Merger]
                 /\ UNCHANGED <<sem_go_ahead, res, copied_name, n456, data>>
              \/ ~ main
<1>1. Main \notin Workers /\ Merger \notin Workers /\ Main # Merger
  BY Apart
<1>2. copyPc = [t \in Workers \cup {Main, Merger} |-> copyPc[t]]
  BY DEF CopyTyped
<1>3. ASSUME th_merge
      PROVE  /\ \A u \in Workers \cup {Main} : copyPc'[u] = copyPc[u]
             /\ UNCHANGED workers /\ UNCHANGED is_done
  <2> USE <1>1, <1>2 DEF CopyGoto, workers
  <2>1. CASE WaitFinish
    BY <2>1 DEF WaitFinish
  <2>2. CASE StopOrTakeName
    BY <2>2 DEF StopOrTakeName
  <2>3. CASE ReleaseGoAhead
    BY <2>3 DEF ReleaseGoAhead
  <2>4. CASE ReadFirstLines
    BY <2>4 DEF ReadFirstLines
  <2>5. CASE WriteFirstLine
    BY <2>5 DEF WriteFirstLine
  <2>6. CASE AppendContent
    BY <2>6 DEF AppendContent
  <2> QED BY <1>3, <2>1, <2>2, <2>3, <2>4, <2>5, <2>6 DEF th_merge
<1>4. ASSUME main
      PROVE  /\ \A u \in Workers \cup {Merger} : copyPc'[u] = copyPc[u]
             /\ UNCHANGED <<workers, sem_go_ahead, res, copied_name, n456, data>>
  <2> USE <1>1, <1>2 DEF CopyGoto, workers, sems, merge
  <2>1. CASE JoinWorkers
    BY <2>1 DEF JoinWorkers
  <2>2. CASE ReleaseToStop
    BY <2>2 DEF ReleaseToStop
  <2>3. CASE JoinMerge
    BY <2>3 DEF JoinMerge
  <2> QED BY <1>4, <2>1, <2>2, <2>3 DEF main
<1> QED BY <1>3, <1>4

(* No more than one permit is in sem_finish: the merger takes that one.       *)
LEMMA TakesPermit ==
    ASSUME CopyAssumption, CopyIInv, WaitFinish
    PROVE  /\ res' \in Workers /\ sem_finish[res'] = 1
           /\ sem_finish' = [sem_finish EXCEPT ![res'] = 0]
           /\ \A w \in Workers : sem_finish[w] = 1 => w = res'
<1>1. /\ sem_finish \in [Workers -> 0 .. 1]
      /\ \A w, v \in Workers : sem_finish[w] = 1 /\ sem_finish[v] = 1 => w = v
  BY DEF CopyIInv, CopyTyped, CopyTypeOK, Exchange
<1>2. PICK w \in Workers : sem_finish[w] > 0
  BY DEF WaitFinish
<1>3. sem_finish[w] = 1
  BY <1>1, <1>2
<1>4. {v \in Workers : sem_finish[v] > 0} = {w}
  BY <1>1, <1>3
<1>5. w \in Int
  BY CopyAssumption DEF Workers, CopyAssumption
<1>6. Min({w}) = w
  BY <1>5 DEF Min
<1>7. res' = w /\ sem_finish' = [sem_finish EXCEPT ![w] = sem_finish[w] - 1]
  BY <1>4, <1>6 DEF WaitFinish
<1> QED BY <1>1, <1>3, <1>7

LEMMA CopyAloneWork ==
    ASSUME CopyAssumption, CopyIInv, NEW w \in Workers, th_work(w)
    PROVE  CopyAlone'
<1>1. CopyLocked /\ OwnRight /\ CopyAlone /\ Move(w)
  BY WorkerMoves DEF CopyIInv
<1>2. \A u \in Workers \ {w} : copyPc'[u] = copyPc[u] /\ entry'[u] = entry[u]
  BY WorkerMoves
<1>3. ASSUME NEW u \in Workers \ {w}, copyPc'[w] \in Copying, copyPc[u] \in Copying
      PROVE  Walk[entry'[w]].path # Path(u)
  <2>1. CASE copyPc[w] \in Copying /\ entry'[w] = entry[w]
    BY <1>1, <1>3, <2>1 DEF CopyAlone, Path
  <2>2. CASE copyPc[w] = "exists" /\ entry'[w] = entry[w] /\ Path(w) \notin DOMAIN destination
    <3>1. copyPc[u] # "create"
      BY <1>1, <2>2 DEF CopyLocked
    <3> QED BY <1>1, <1>3, <2>2, <3>1 DEF OwnRight, Path
  <2> QED BY <1>1, <1>3, <2>1, <2>2 DEF Move, Copying, Copied, Naming
<1>4. ASSUME NEW u \in Workers, NEW v \in Workers, u # v,
             copyPc'[u] \in Copying, copyPc'[v] \in Copying
      PROVE  Walk[entry'[u]].path # Walk[entry'[v]].path
  BY <1>1, <1>2, <1>3, <1>4 DEF CopyAlone, Path
<1> QED BY <1>4 DEF CopyAlone, Path

LEMMA GivenOnceWork ==
    ASSUME CopyAssumption, CopyIInv, NEW w \in Workers, th_work(w)
    PROVE  GivenOnce'
<1>1. OwnRight /\ CopyAlone /\ GivenOnce /\ Move(w) /\ CopyTyped
  BY WorkerMoves DEF CopyIInv
<1>2. /\ \A u \in Workers \ {w} : copyPc'[u] = copyPc[u] /\ entry'[u] = entry[u]
                                  /\ sem_finish'[u] = sem_finish[u]
      /\ copyPc'[Merger] = copyPc[Merger] /\ res' = res /\ data' = data
      /\ copied_name' = copied_name
  BY WorkerMoves DEF merge
<1>3. \A p \in DOMAIN destination :
          /\ p \in DOMAIN destination'
          /\ \/ destination'[p] = destination[p]
             \/ copyPc[w] \in {"create", "copy"} /\ p = Path(w)
  BY WorkerMoves
<1>4. Given' = Given /\ Given \subseteq DOMAIN destination \cap FilePaths
      /\ \A u \in Workers : ToMerge(u) => Path(u) \notin Given
  BY <1>1, <1>2 DEF Given, Merged, GivenOnce
<1>5. \A u \in Workers \ {w} : ToMerge(u)' => Path(u)' \notin Given
  BY <1>2, <1>4 DEF ToMerge, Path
<1>6. ToMerge(w)' => Path(w)' \notin Given
  <2>1. CASE ToMerge(w) /\ entry'[w] = entry[w]
    BY <1>4, <2>1 DEF Path
  <2>2. CASE Path(w) \notin DOMAIN destination /\ entry'[w] = entry[w]
    BY <1>4, <2>2 DEF Path
  <2> QED BY <1>1, <1>2, <2>1, <2>2 DEF Move, ToMerge, Copying, Copied, Naming
<1>7. ASSUME copyPc[Merger] \in {"release", "read"}
      PROVE  destination'[copied_name] = CountsOf(copied_name)
  <2>1. copied_name \in Given /\ destination[copied_name] = CountsOf(copied_name)
    BY <1>1, <1>7 DEF Given, InMerge, GivenOnce
  <2>2. copyPc[w] \in {"create", "copy"} => Path(w) # copied_name
    BY <1>4, <2>1 DEF ToMerge, Copying, Copied
  <2> QED BY <1>3, <1>4, <2>1, <2>2
<1>8. \A u \in Workers : ToMerge(u)' => Path(u)' \notin Given'
  BY <1>4, <1>5, <1>6
<1>9. /\ Given' \subseteq DOMAIN destination' \cap FilePaths
      /\ copyPc'[Merger] \in InMerge => copied_name' \notin Merged'
      /\ \A j, k \in DOMAIN data'.body : data'.body[j] = data'.body[k] => j = k
  BY <1>1, <1>2, <1>3, <1>4 DEF GivenOnce, Merged
<1> QED BY <1>2, <1>7, <1>8, <1>9 DEF GivenOnce, CountsOf

LEMMA ExchangeWork ==
    ASSUME CopyAssumption, CopyIInv, NEW w \in Workers, th_work(w)
    PROVE  Exchange'
<1>1. CopyLocked /\ Exchange /\ Move(w) /\ CopyTyped /\ ~ is_done
  BY WorkerMoves DEF CopyIInv
<1>2. /\ \A u \in Workers \ {w} : /\ copyPc'[u] = copyPc[u] /\ entry'[u] = entry[u]
                                  /\ sem_finish'[u] = sem_finish[u]
                                  /\ sem_go_ahead'[u] = sem_go_ahead[u]
      /\ copyPc'[Merger] = copyPc[Merger] /\ copyPc'[Main] = copyPc[Main]
      /\ res' = res /\ is_done' = is_done /\ copied_name' = copied_name
  BY WorkerMoves DEF merge
<1>3. /\ sem_finish \in [Workers -> 0 .. 1] /\ sem_go_ahead \in [Workers -> 0 .. 1]
      /\ res \in Workers
  BY <1>1 DEF CopyTyped, CopyTypeOK
<1>4. \A u, v \in Workers : copyPc[u] \in Naming /\ copyPc[v] \in Naming => u = v
  BY <1>1 DEF CopyLocked
<1> QED BY <1>1, <1>2, <1>3, <1>4 DEF Exchange, Move, Naming, Path, sems

LEMMA GivenOnceMerge ==
    ASSUME CopyAssumption, CopyIInv, th_merge
    PROVE  GivenOnce'
<1>1. CopyTyped /\ OwnRight /\ CopyAlone /\ GivenOnce /\ Exchange
  BY DEF CopyIInv
<1>2. /\ \A u \in Workers : copyPc'[u] = copyPc[u] /\ Path(u)' = Path(u)
      /\ destination' = destination
  BY <1>1, OthersMove DEF workers, Path
<1>3. copyPc = [t \in Workers \cup {Main, Merger} |-> copyPc[t]]
  BY <1>1 DEF CopyTyped
<1> USE DEF CopyGoto, GivenOnce
<1>4. CASE WaitFinish
  <2>1. /\ copyPc[Merger] = "wait" /\ copyPc'[Merger] = "done?"
        /\ data' = data /\ copied_name' = copied_name
    BY <1>3, <1>4 DEF WaitFinish
  <2>2. Given' = Given
    BY <2>1 DEF Given, Merged, InMerge
  <2>3. \A u \in Workers : sem_finish'[u] = 1 \/ res' = u => sem_finish[u] = 1
    BY <1>1, <1>4, TakesPermit DEF CopyTyped, CopyTypeOK
  <2>4. \A u \in Workers : ToMerge(u)' => ToMerge(u)
    BY <1>2, <2>3 DEF ToMerge
  <2> QED BY <1>1, <1>2, <2>1, <2>2, <2>4 DEF InMerge, Merged, CountsOf
<1>5. CASE StopOrTakeName
  <2>1. copyPc[Merger] = "done?" /\ data' = data /\ sem_finish' = sem_finish /\ res' = res
    BY <1>3, <1>5 DEF StopOrTakeName, sems
  <2>2. CASE is_done
    <3>1. copyPc'[Merger] = "returned" /\ copied_name' = copied_name
      BY <1>3, <1>5, <2>2 DEF StopOrTakeName
    <3>2. Given' = Given
      BY <2>1, <3>1 DEF Given, Merged, InMerge
    <3>3. \A u \in Workers : ToMerge(u)' => ToMerge(u)
      BY <1>2, <2>1, <3>1 DEF ToMerge
    <3> QED BY <1>1, <1>2, <2>1, <3>1, <3>2, <3>3 DEF InMerge, Merged, CountsOf
  <2>3. CASE ~ is_done
    <3>1. /\ copyPc'[Merger] = "release" /\ copied_name' = Path(res)
          /\ res \in Workers /\ copyPc[res] = "go_ahead" /\ sem_finish[res] = 0
      BY <1>1, <1>3, <1>5, <2>1, <2>3 DEF StopOrTakeName, Exchange, CopyTyped, CopyTypeOK
    <3>2. /\ Path(res) \in DOMAIN destination /\ destination[Path(res)] = CountsOf(Path(res))
          /\ Path(res) \in FilePaths
      BY <1>1, <3>1 DEF OwnRight, Copying, Copied, Naming, FilePaths, Path
    <3>3. Given = Merged /\ Given' = Merged \cup {Path(res)} /\ Merged' = Merged
      BY <2>1, <3>1 DEF Given, Merged, InMerge
    <3>4. ToMerge(res) /\ \A u \in Workers : ToMerge(u)' => ToMerge(u) /\ u # res
      BY <1>2, <2>1, <3>1 DEF ToMerge, Copying, Copied, Naming
    <3>5. \A u \in Workers : ToMerge(u)' => Path(u) # Path(res)
      BY <1>1, <3>1, <3>4 DEF CopyAlone, ToMerge, Copying, Copied, Naming
    <3>6. Path(res) \notin Merged /\ \A u \in Workers : ToMerge(u)' => Path(u)' \notin Given'
      BY <1>1, <1>2, <3>1, <3>3, <3>4, <3>5
    <3>7. destination'[copied_name'] = CountsOf(copied_name)'
      BY <1>2, <3>1, <3>2 DEF CountsOf
    <3>8. /\ copied_name' \notin Merged' /\ Given' \subseteq DOMAIN destination' \cap FilePaths
          /\ \A j, k \in DOMAIN data'.body : data'.body[j] = data'.body[k] => j = k
      BY <1>1, <1>2, <2>1, <3>1, <3>2, <3>3, <3>6
    <3> QED BY <3>6, <3>7, <3>8
  <2> QED BY <2>2, <2>3
<1>6. CASE ReleaseGoAhead \/ ReadFirstLines \/ WriteFirstLine
  <2>1. /\ copyPc[Merger] \in InMerge /\ copyPc'[Merger] \in InMerge
        /\ copyPc'[Merger] \in {"release", "read"} => copyPc[Merger] = "release"
        /\ data'.body = data.body /\ copied_name' = copied_name /\ sem_finish' = sem_finish
    BY <1>1, <1>3, <1>6
       DEF ReleaseGoAhead, ReadFirstLines, WriteFirstLine, InMerge, sems, CopyTyped
  <2>2. Given' = Given /\ Merged' = Merged
    BY <2>1 DEF Given, Merged
  <2>3. \A u \in Workers : ToMerge(u)' => ToMerge(u)
    BY <1>2, <2>1 DEF ToMerge, InMerge
  <2> QED BY <1>1, <1>2, <2>1, <2>2, <2>3 DEF CountsOf
<1>7. CASE AppendContent
  <2>1. /\ copyPc[Merger] = "append" /\ copyPc'[Merger] = "wait"
        /\ data'.body = Append(data.body, copied_name) /\ sem_finish' = sem_finish
        /\ data.body \in Seq(FilePaths)
    BY <1>1, <1>3, <1>7 DEF AppendContent, sems, CopyTyped
  <2>2. copied_name \notin Merged /\ copied_name \in FilePaths
    BY <1>1, <2>1 DEF Given, InMerge
  <2>3. Given' = Given
    BY <2>1 DEF Given, Merged, InMerge
  <2>4. \A u \in Workers : ToMerge(u)' => ToMerge(u)
    BY <1>2, <2>1 DEF ToMerge, InMerge
  <2>5. \A j, k \in DOMAIN data'.body : data'.body[j] = data'.body[k] => j = k
    BY <1>1, <2>1, <2>2 DEF Merged
  <2> QED BY <1>1, <1>2, <2>1, <2>3, <2>4, <2>5 DEF InMerge
<1> QED BY <1>4, <1>5, <1>6, <1>7 DEF th_merge

LEMMA GivenOnceMain ==
    ASSUME CopyAssumption, CopyIInv, main
    PROVE  GivenOnce'
<1>1. CopyTyped /\ GivenOnce /\ Exchange
  BY DEF CopyIInv
<1>2. /\ \A u \in Workers : copyPc'[u] = copyPc[u] /\ Path(u)' = Path(u)
      /\ destination' = destination /\ copyPc'[Merger] = copyPc[Merger]
      /\ data' = data /\ copied_name' = copied_name /\ res' = res
  BY <1>1, OthersMove DEF workers, Path
<1>3. \A u \in Workers : ToMerge(u)' => ToMerge(u)
  <2>1. CASE ReleaseToStop
    <3>1. \A u \in Workers : copyPc[u] = "entry"
      BY <1>1, <2>1 DEF ReleaseToStop, CopyGoto, Exchange, Returned
    <3> QED BY <1>2, <3>1 DEF ToMerge, Copying, Copied, Naming
  <2>2. CASE JoinWorkers \/ JoinMerge
    <3>1. sem_finish' = sem_finish
      BY <2>2 DEF JoinWorkers, JoinMerge, sems
    <3> QED BY <1>2, <3>1 DEF ToMerge
  <2> QED BY <2>1, <2>2 DEF main
<1>4. Given' = Given /\ Merged' = Merged
  BY <1>2 DEF Given, Merged
<1> QED BY <1>1, <1>2, <1>3, <1>4 DEF GivenOnce, CountsOf

LEMMA ExchangeMerge ==
    ASSUME CopyAssumption, CopyIInv, th_merge
    PROVE  Exchange'
<1>1. CopyTyped /\ CopyLocked /\ Exchange
  BY DEF CopyIInv
<1>2. /\ \A u \in Workers : copyPc'[u] = copyPc[u] /\ Path(u)' = Path(u)
                              /\ Returned(u)' = Returned(u)
      /\ name_for_merge' = name_for_merge /\ copyPc'[Main] = copyPc[Main] /\ is_done' = is_done
  BY <1>1, OthersMove DEF workers, Path, Returned
<1>3. copyPc = [t \in Workers \cup {Main, Merger} |-> copyPc[t]]
  BY <1>1 DEF CopyTyped
<1>4. /\ sem_finish \in [Workers -> 0 .. 1] /\ sem_go_ahead \in [Workers -> 0 .. 1]
      /\ res \in Workers
  BY <1>1 DEF CopyTyped, CopyTypeOK
<1> USE DEF CopyGoto, sems
<1>5. CASE WaitFinish
  <2>1. /\ copyPc[Merger] = "wait" /\ copyPc'[Merger] = "done?"
        /\ sem_go_ahead' = sem_go_ahead
    BY <1>3, <1>5 DEF WaitFinish
  <2> QED BY <1>1, <1>2, <1>4, <1>5, <2>1, TakesPermit DEF Exchange
<1>6. CASE StopOrTakeName
  <2>1. /\ copyPc[Merger] = "done?" /\ sem_go_ahead' = sem_go_ahead
        /\ sem_finish' = sem_finish /\ res' = res
        /\ \/ copyPc'[Merger] = "returned" /\ is_done
           \/ copyPc'[Merger] = "release" /\ ~ is_done /\ copied_name' = name_for_merge
    BY <1>3, <1>6 DEF StopOrTakeName
  <2> QED BY <1>1, <1>2, <1>4, <2>1 DEF Exchange
<1>7. CASE ReleaseGoAhead
  <2>1. /\ copyPc[Merger] = "release" /\ copyPc'[Merger] = "read"
        /\ sem_go_ahead' = [sem_go_ahead EXCEPT ![res] = sem_go_ahead[res] + 1]
        /\ sem_finish' = sem_finish /\ res' = res
    BY <1>3, <1>7 DEF ReleaseGoAhead
  <2>2. /\ copyPc[res] = "go_ahead" /\ sem_finish[res] = 0 /\ sem_go_ahead[res] = 0
    BY <1>1, <2>1 DEF Exchange
  <2> QED BY <1>1, <1>2, <1>4, <2>1, <2>2 DEF Exchange
<1>8. CASE ReadFirstLines \/ WriteFirstLine \/ AppendContent
  <2>1. /\ copyPc[Merger] \in {"read", "write", "append"}
        /\ copyPc'[Merger] \in {"write", "append", "wait"}
        /\ sem_go_ahead' = sem_go_ahead /\ sem_finish' = sem_finish /\ res' = res
    BY <1>3, <1>8 DEF ReadFirstLines, WriteFirstLine, AppendContent
  <2> QED BY <1>1, <1>2, <1>4, <2>1 DEF Exchange
<1> QED BY <1>5, <1>6, <1>7, <1>8 DEF th_merge

LEMMA ExchangeMain ==
    ASSUME CopyAssumption, CopyIInv, main
    PROVE  Exchange'
<1>1. CopyTyped /\ Exchange
  BY DEF CopyIInv
<1>2. /\ \A u \in Workers : copyPc'[u] = copyPc[u] /\ Path(u)' = Path(u)
                              /\ Returned(u)' = Returned(u)
      /\ name_for_merge' = name_for_merge /\ copyPc'[Merger] = copyPc[Merger]
      /\ sem_go_ahead' = sem_go_ahead /\ res' = res /\ copied_name' = copied_name
  BY <1>1, OthersMove DEF workers, Path, Returned
<1>3. copyPc = [t \in Workers \cup {Main, Merger} |-> copyPc[t]]
  BY <1>1 DEF CopyTyped
<1>4. /\ sem_finish \in [Workers -> 0 .. 1] /\ sem_go_ahead \in [Workers -> 0 .. 1]
      /\ res \in Workers
  BY <1>1 DEF CopyTyped, CopyTypeOK
<1> USE DEF CopyGoto, sems, merge
<1>5. CASE JoinWorkers
  <2>1. /\ copyPc[Main] = "join" /\ copyPc'[Main] = "stop" /\ is_done' = TRUE
        /\ sem_finish' = sem_finish /\ \A u \in Workers : Returned(u)
    BY <1>3, <1>5 DEF JoinWorkers
  <2>2. \A u \in Workers : copyPc[u] = "entry"
    BY <2>1 DEF Returned
  <2>3. ~ is_done /\ \A u \in Workers : sem_finish[u] = 0
    BY <1>1, <1>4, <2>1, <2>2 DEF Exchange
  <2> QED BY <1>1, <1>2, <1>4, <2>1, <2>2, <2>3 DEF Exchange
<1>6. CASE ReleaseToStop
  <2>1. PICK to_stop \in Workers :
            sem_finish' = [sem_finish EXCEPT ![to_stop] = sem_finish[to_stop] + 1]
    BY <1>6 DEF ReleaseToStop
  <2>2. /\ copyPc[Main] = "stop" /\ copyPc'[Main] = "join_merge" /\ is_done' = is_done
        /\ is_done /\ \A u \in Workers : sem_finish[u] = 0
    BY <1>1, <1>3, <1>6 DEF ReleaseToStop, Exchange
  <2>3. \A u \in Workers : copyPc[u] = "entry"
    BY <1>1, <2>2 DEF Exchange, Returned
  <2> QED BY <1>1, <1>2, <1>4, <2>1, <2>2, <2>3 DEF Exchange
<1>7. CASE JoinMerge
  <2>1. /\ copyPc[Main] = "join_merge" /\ copyPc'[Main] = "exit" /\ is_done' = is_done
        /\ sem_finish' = sem_finish
    BY <1>3, <1>7 DEF JoinMerge
  <2> QED BY <1>1, <1>2, <1>4, <2>1 DEF Exchange
<1> QED BY <1>5, <1>6, <1>7 DEF main

LEMMA CopyLockedWork ==
    ASSUME CopyAssumption, CopyIInv, NEW w \in Workers, th_work(w)
    PROVE  CopyLocked'
<1>1. CopyTyped /\ CopyLocked
  BY DEF CopyIInv
<1> USE CopyAssumption
    DEF CopyAssumption, CopyGoto, locks, CopyTyped, CopyTypeOK, CopyLocked, Naming
<1>2. CASE SkipDot(w)
  BY <1>1, <1>2 DEF SkipDot
<1>3. CASE EnterCheck(w)
  BY <1>1, <1>3 DEF EnterCheck
<1>4. CASE FileExists(w)
  BY <1>1, <1>4 DEF FileExists
<1>5. CASE FileAbsent(w)
  BY <1>1, <1>5 DEF FileAbsent
<1>6. CASE CreateFile(w)
  BY <1>1, <1>6 DEF CreateFile
<1>7. CASE Count(w)
  BY <1>1, <1>7 DEF Count
<1>8. CASE Copy(w)
  BY <1>1, <1>8 DEF Copy
<1>9. CASE EnterSet(w)
  BY <1>1, <1>9 DEF EnterSet
<1>10. CASE SetName(w)
  BY <1>1, <1>10 DEF SetName
<1>11. CASE ReleaseFinish(w)
  BY <1>1, <1>11 DEF ReleaseFinish
<1>12. CASE WaitGoAhead(w)
  BY <1>1, <1>12 DEF WaitGoAhead
<1>13. CASE LeaveSet(w)
  BY <1>1, <1>13 DEF LeaveSet
<1>14. CASE DirectoryExists(w)
  BY <1>1, <1>14 DEF DirectoryExists
<1>15. CASE CreateDirectory(w)
  BY <1>1, <1>15 DEF CreateDirectory
<1> QED
  BY <1>2, <1>3, <1>4, <1>5, <1>6, <1>7, <1>8, <1>9,
     <1>10, <1>11, <1>12, <1>13, <1>14, <1>15 DEF th_work

(* A worker that looks at what it has found is at an entry of the walk.       *)
LEMMA AtEntry ==
    ASSUME CopyAssumption, CopyTyped, NEW w \in Workers, NEW type, At(w, type)
    PROVE  entry[w] \in DOMAIN Walk /\ FileType(Walk[entry[w]]) = type
<1>1. entry \in [Workers -> 1 .. Len(Walk) + 1]
  BY DEF CopyTyped, CopyTypeOK
<1>2. Len(Walk) \in Nat /\ DOMAIN Walk = 1 .. Len(Walk)
  BY CopyAssumption DEF CopyAssumption
<1>3. entry[w] <= Len(Walk) /\ FileType(Walk[entry[w]]) = type
  BY DEF At, Here
<1> QED BY <1>1, <1>2, <1>3

LEMMA OwnRightWork ==
    ASSUME CopyAssumption, CopyIInv, NEW w \in Workers, th_work(w)
    PROVE  OwnRight'
<1>1. CopyTyped /\ CopyLocked /\ OwnRight /\ CopyAlone
  BY DEF CopyIInv
<1> USE CopyAssumption
    DEF CopyAssumption, CopyGoto, Here, Write, NextEntry, CopyTyped, CopyTypeOK, OwnRight,
        CopyAlone, Naming, Copied, Copying, Path
<1>2. CASE SkipDot(w)
  BY <1>1, <1>2 DEF SkipDot
<1>3. CASE EnterCheck(w)
  <2>1. entry[w] \in DOMAIN Walk /\ ~ Walk[entry[w]].isDir /\ copyPc[w] = "entry"
    <3>1. At(w, "TYPE_FILE") /\ copyPc[w] = "entry"
      BY <1>3 DEF EnterCheck
    <3>2. entry[w] \in DOMAIN Walk /\ FileType(Walk[entry[w]]) = "TYPE_FILE"
      BY <1>1, <3>1, AtEntry
    <3> QED BY <3>1, <3>2 DEF FileType
  <2> QED BY <1>1, <1>3, <2>1 DEF EnterCheck
<1>4. CASE FileExists(w)
  BY <1>1, <1>4 DEF FileExists, CopyLocked
<1>5. CASE FileAbsent(w)
  BY <1>1, <1>5 DEF FileAbsent
<1>6. CASE CreateFile(w)
  BY <1>1, <1>6 DEF CreateFile, CopyLocked
<1>7. CASE Count(w)
  <2>1. copyPc[w] = "count" /\ number[w] = Zero /\ Path(w) \in FilePaths
    BY <1>1, <1>7 DEF Count, FilePaths
  <2>2. Plus(number[w], Counts(Content[Here(w).path])) = CountsOf(Path(w))
    BY <2>1, CountsAre, PlusIs DEF CountsOf
  <2> HIDE DEF Path
  <2>3. number' = [number EXCEPT ![w] = CountsOf(Path(w))]
    BY <2>2, <1>7 DEF Count
  <2>4. /\ entry' = entry /\ destination' = destination
        /\ copyPc' = [copyPc EXCEPT ![w] = "copy"]
        /\ \A u \in Workers : Path(u)' = Path(u)
    BY <1>7 DEF Count, Path
  <2> QED BY <1>1, <2>1, <2>3, <2>4
<1>8. CASE Copy(w)
  BY <1>1, <1>8 DEF Copy
<1>9. CASE EnterSet(w)
  BY <1>1, <1>9 DEF EnterSet
<1>10. CASE SetName(w)
  BY <1>1, <1>10 DEF SetName
<1>11. CASE ReleaseFinish(w)
  BY <1>1, <1>11 DEF ReleaseFinish
<1>12. CASE WaitGoAhead(w)
  BY <1>1, <1>12 DEF WaitGoAhead
<1>13. CASE LeaveSet(w)
  BY <1>1, <1>13 DEF LeaveSet
<1>14. CASE DirectoryExists(w)
  <2>1. entry[w] \in DOMAIN Walk /\ copyPc[w] = "entry"
    BY <1>1, <1>14, AtEntry DEF DirectoryExists
  <2>2. CASE entry' = [entry EXCEPT ![w] = @ + 1] /\ copyPc' = [copyPc EXCEPT ![w] = "entry"]
    BY <1>1, <1>14, <2>1, <2>2 DEF DirectoryExists
  <2>3. CASE entry' = entry /\ copyPc' = [copyPc EXCEPT ![w] = "mkdir"]
    BY <1>1, <1>14, <2>1, <2>3 DEF DirectoryExists
  <2> QED BY <1>14, <2>2, <2>3 DEF DirectoryExists
<1>15. CASE CreateDirectory(w)
  BY <1>1, <1>15 DEF CreateDirectory
<1> QED
  BY <1>2, <1>3, <1>4, <1>5, <1>6, <1>7, <1>8, <1>9,
     <1>10, <1>11, <1>12, <1>13, <1>14, <1>15 DEF th_work

(* What the merger and main do leaves these parts as they are.                *)
LEMMA KeptByOthers ==
    ASSUME CopyAssumption, CopyIInv, th_merge \/ main
    PROVE  CopyLocked' /\ OwnRight' /\ CopyAlone'
<1>1. CopyTyped /\ CopyLocked /\ OwnRight /\ CopyAlone
  BY DEF CopyIInv
<1>2. /\ \A u \in Workers : copyPc'[u] = copyPc[u]
      /\ destination' = destination /\ number' = number /\ entry' = entry
      /\ cs_check_file_presence' = cs_check_file_presence
      /\ cs_set_file_name_for_merge' = cs_set_file_name_for_merge
  BY <1>1, OthersMove DEF workers, locks
<1>3. CopyLocked'
  BY <1>1, <1>2 DEF CopyLocked
<1>4. OwnRight'
  BY <1>1, <1>2 DEF OwnRight, Path, CountsOf
<1>5. CopyAlone'
  BY <1>1, <1>2 DEF CopyAlone, Path
<1> QED BY <1>3, <1>4, <1>5

LEMMA CopyTypedWork ==
    ASSUME CopyAssumption, CopyIInv, NEW w \in Workers, th_work(w)
    PROVE  CopyTyped'
<1>1. /\ CopyTyped /\ Move(w) /\ \A u \in Workers : u # Main /\ u # Merger
      /\ number[w] \in Totals /\ Zero \in Totals
  BY WorkerMoves, Apart, PlusIs DEF CopyIInv, CopyTyped
<1>2. entry[w] \in DOMAIN Walk
  <2>1. CASE \E type : At(w, type)
    BY <1>1, <2>1, AtEntry
  <2>2. CASE copyPc[w] # "entry"
    BY <2>2 DEF CopyIInv, OwnRight
  <2> QED
    BY <2>1, <2>2, Zenon DEF th_work, SkipDot, EnterCheck, DirectoryExists, CopyGoto, FileExists,
       FileAbsent, CreateFile, Count, Copy, EnterSet, SetName, ReleaseFinish, WaitGoAhead, LeaveSet,
       CreateDirectory
<1>3. entry[w] + 1 \in 1 .. Len(Walk) + 1 /\ Path(w) \in Paths
  BY <1>2, CopyAssumption DEF CopyAssumption, Paths, Path
<1>4. /\ destination' = destination \/ DOMAIN destination' = DOMAIN destination \cup {Path(w)}
      /\ cs_check_file_presence' \in {cs_check_file_presence, w, NoWorker}
      /\ cs_set_file_name_for_merge' \in {cs_set_file_name_for_merge, w, NoWorker}
      /\ entry' = entry \/ entry' = [entry EXCEPT ![w] = @ + 1]
  BY DEF th_work, SkipDot, EnterCheck, DirectoryExists, FileExists, FileAbsent, CreateFile, Count,
     Copy, EnterSet, SetName, ReleaseFinish, WaitGoAhead, LeaveSet, CreateDirectory, Write, Here,
     Path, NextEntry, locks
<1>5. \E to \in {"entry", "exists", "mkdir"} \cup Copying : copyPc' = [copyPc EXCEPT ![w] = to]
  BY DEF th_work, SkipDot, EnterCheck, DirectoryExists, FileExists, FileAbsent, CreateFile, Count,
     Copy, EnterSet, SetName, ReleaseFinish, WaitGoAhead, LeaveSet, CreateDirectory, CopyGoto,
     Copying, Copied, Naming
<1>6. \E line \in Totals : number' = [number EXCEPT ![w] = line]
  <2>1. number \in [Workers -> Totals] /\ number = [number EXCEPT ![w] = number[w]]
    BY <1>1 DEF CopyTyped
  <2>2. CASE Count(w)
    <3>1. Path(w) \in FilePaths
      BY <2>2 DEF CopyIInv, OwnRight, Count, CopyGoto, FilePaths, Path
    <3>2. Plus(number[w], CountsOf(Path(w))) \in Totals
      BY <1>1, <3>1, CountsAre, PlusIs
    <3>3. number' = [number EXCEPT ![w] = Plus(number[w], CountsOf(Path(w)))]
      BY <2>2 DEF Count, Here, Path, CountsOf
    <3> QED BY <3>2, <3>3
  <2>3. CASE LeaveSet(w)
    BY <1>1, <2>3 DEF LeaveSet
  <2>4. CASE number' = number
    BY <1>1, <2>1, <2>4
  <2> QED
    BY <2>2, <2>3, <2>4 DEF th_work, SkipDot, EnterCheck, DirectoryExists, FileExists, FileAbsent,
       CreateFile, Copy, EnterSet, SetName, ReleaseFinish, WaitGoAhead, CreateDirectory
<1>7. /\ sem_finish' = sem_finish \/ sem_finish' = [sem_finish EXCEPT ![w] = 1]
      /\ sem_go_ahead' = sem_go_ahead \/ sem_go_ahead' = [sem_go_ahead EXCEPT ![w] = 0]
  <2>1. sem_finish \in [Workers -> 0 .. 1] /\ sem_go_ahead \in [Workers -> 0 .. 1]
    BY <1>1 DEF CopyTyped, CopyTypeOK
  <2>2. CASE ReleaseFinish(w)
    <3>1. sem_finish[w] = 0
      BY <1>1, <2>2 DEF Move, ReleaseFinish, CopyGoto
    <3> QED BY <2>2, <3>1 DEF ReleaseFinish
  <2>3. CASE WaitGoAhead(w)
    <3>1. sem_go_ahead[w] = 1
      BY <1>1, <2>3 DEF Move, WaitGoAhead, CopyGoto
    <3> QED BY <2>3, <3>1 DEF WaitGoAhead
  <2>4. CASE UNCHANGED sems
    BY <2>4 DEF sems
  <2> QED
    BY <2>2, <2>3, <2>4 DEF th_work, SkipDot, EnterCheck, DirectoryExists, FileExists, FileAbsent,
       CreateFile, Count, Copy, EnterSet, SetName, LeaveSet, CreateDirectory
<1>8. /\ is_done' = is_done /\ res' = res /\ copied_name' = copied_name
      /\ data' = data /\ n456' = n456 /\ name_for_merge' \in {name_for_merge, Path(w)}
  BY <1>1, WorkerMoves DEF merge, Move
<1>9. CopyTypeOK'
  <2>1. CopyTypeOK
    BY <1>1 DEF CopyTyped
  <2>2. DOMAIN destination' \subseteq Paths /\ entry' \in [Workers -> 1 .. Len(Walk) + 1]
    BY <1>3, <1>4, <2>1 DEF CopyTypeOK
  <2>3. sem_finish \in [Workers -> 0 .. 1] /\ sem_go_ahead \in [Workers -> 0 .. 1]
    BY <2>1 DEF CopyTypeOK
  <2>4. sem_finish' \in [Workers -> 0 .. 1] /\ sem_go_ahead' \in [Workers -> 0 .. 1]
    <3>1. [sem_finish EXCEPT ![w] = 1] \in [Workers -> 0 .. 1]
      BY <2>3
    <3>2. [sem_go_ahead EXCEPT ![w] = 0] \in [Workers -> 0 .. 1]
      BY <2>3
    <3> QED BY <1>7, <2>3, <3>1, <3>2, Zenon
  <2> QED BY <1>3, <1>4, <1>8, <2>1, <2>2, <2>4 DEF CopyTypeOK
<1>10. /\ copyPc' = [t \in Workers \cup {Main, Merger} |-> copyPc'[t]]
       /\ \A u \in Workers : copyPc'[u] \in {"entry", "exists", "mkdir"} \cup Copying
       /\ copyPc'[Merger] = copyPc[Merger] /\ copyPc'[Main] = copyPc[Main]
  <2>1. PICK to \in {"entry", "exists", "mkdir"} \cup Copying : copyPc' = [copyPc EXCEPT ![w] = to]
    BY <1>5
  <2>2. copyPc = [t \in Workers \cup {Main, Merger} |-> copyPc[t]]
        /\ \A u \in Workers : copyPc[u] \in {"entry", "exists", "mkdir"} \cup Copying
    BY <1>1 DEF CopyTyped
  <2> QED BY <1>1, <2>1, <2>2, WorkerMoves
<1>11. number' \in [Workers -> Totals]
  BY <1>1, <1>6 DEF CopyTyped
<1> QED BY <1>1, <1>8, <1>9, <1>10, <1>11 DEF CopyTyped

LEMMA CopyTypedMerge ==
    ASSUME CopyAssumption, CopyIInv, th_merge
    PROVE  CopyTyped'
<1>1. CopyTyped /\ OwnRight /\ GivenOnce /\ Exchange /\ TotalsRight
  BY DEF CopyIInv
<1>2. /\ \A u \in Workers : copyPc'[u] = copyPc[u]
      /\ copyPc'[Main] = copyPc[Main] /\ is_done' = is_done
      /\ UNCHANGED workers
  BY <1>1, OthersMove
<1>3. \E to \in {"wait", "done?", "returned"} \cup InMerge :
             copyPc' = [copyPc EXCEPT ![Merger] = to]
  BY DEF th_merge, WaitFinish, StopOrTakeName, ReleaseGoAhead, ReadFirstLines, WriteFirstLine,
     AppendContent, CopyGoto, InMerge
<1>4. /\ copyPc' = [t \in Workers \cup {Main, Merger} |-> copyPc'[t]]
      /\ copyPc'[Merger] \in {"wait", "done?", "returned"} \cup InMerge
  <2>1. PICK to \in {"wait", "done?", "returned"} \cup InMerge :
             copyPc' = [copyPc EXCEPT ![Merger] = to]
    BY <1>3
  <2>2. copyPc = [t \in Workers \cup {Main, Merger} |-> copyPc[t]]
    BY <1>1 DEF CopyTyped
  <2> QED BY <2>1, <2>2
<1>5. copyPc[Merger] \in InMerge =>
         /\ copied_name \in FilePaths /\ CountsOf(copied_name) \in Totals
         /\ copyPc[Merger] = "read" => destination[copied_name] = CountsOf(copied_name)
  BY <1>1, CountsAre DEF GivenOnce, Given
<1>6. data \in [line : Totals, body : Seq(FilePaths), overrun : Nat] /\ n456 \in Totals
  BY <1>1 DEF CopyTyped
<1>7. data' \in [line : Totals, body : Seq(FilePaths), overrun : Nat]
  <2>1. CASE WriteFirstLine
    <3>1. copyPc[Merger] = "write" /\ n456 = Plus(data.line, CountsOf(copied_name))
          /\ CountsOf(copied_name) \in Totals /\ data.line \in Totals
      BY <1>1, <1>5, <1>6, <2>1 DEF WriteFirstLine, CopyGoto, TotalsRight, InMerge
    <3>2. Width(n456) - Width(data.line) \in Nat
      BY <3>1, WidthGrows
    <3>3. Width(n456) \in Int /\ Width(data.line) \in Int
      BY <3>1, <1>6, WidthIs
    <3>4. data.overrun + Width(n456) - Width(data.line) \in Nat
      BY <3>2, <3>3, <1>6
    <3> QED BY <1>6, <2>1, <3>4 DEF WriteFirstLine
  <2>2. CASE AppendContent
    <3>1. copied_name \in FilePaths
      BY <1>5, <2>2 DEF AppendContent, CopyGoto, InMerge
    <3>2. Append(data.body, copied_name) \in Seq(FilePaths)
      BY <1>6, <3>1
    <3> QED BY <1>6, <2>2, <3>2 DEF AppendContent
  <2>3. CASE data' = data
    BY <1>6, <2>3
  <2> QED
    BY <2>1, <2>2, <2>3
       DEF th_merge, WaitFinish, StopOrTakeName, ReleaseGoAhead, ReadFirstLines
<1>8. n456' \in Totals
  <2>1. CASE ReadFirstLines
    <3>1. copyPc[Merger] = "read" /\ destination[copied_name] \in Totals /\ data.line \in Totals
      BY <1>5, <1>6, <2>1 DEF ReadFirstLines, CopyGoto, InMerge
    <3> QED BY <1>6, <2>1, <3>1, PlusIs DEF ReadFirstLines
  <2> QED
    BY <1>6, <2>1
       DEF th_merge, WaitFinish, StopOrTakeName, ReleaseGoAhead, WriteFirstLine, AppendContent
<1>9. /\ sem_finish' \in [Workers -> 0 .. 1] /\ sem_go_ahead' \in [Workers -> 0 .. 1]
      /\ res' \in Workers
  <2>1. /\ sem_finish \in [Workers -> 0 .. 1] /\ sem_go_ahead \in [Workers -> 0 .. 1]
        /\ res \in Workers
    BY <1>1 DEF CopyTyped, CopyTypeOK
  <2>2. CASE WaitFinish
    BY <2>1, <2>2, TakesPermit DEF WaitFinish
  <2>3. CASE ReleaseGoAhead
    <3>1. sem_go_ahead[res] = 0
      BY <1>1, <2>3 DEF ReleaseGoAhead, CopyGoto, Exchange
    <3> QED BY <2>1, <2>3, <3>1 DEF ReleaseGoAhead
  <2>4. CASE UNCHANGED <<sems, res>>
    BY <2>1, <2>4 DEF sems
  <2> QED
    BY <2>2, <2>3, <2>4 DEF th_merge, StopOrTakeName, ReadFirstLines, WriteFirstLine, AppendContent
<1>10. copied_name' \in Paths \cup {""}
  BY <1>1 DEF CopyTyped, CopyTypeOK, th_merge, WaitFinish, StopOrTakeName, ReleaseGoAhead,
     ReadFirstLines, WriteFirstLine, AppendContent
<1>11. CopyTypeOK'
  <2>1. data'.overrun >= 0
    BY <1>7
  <2>2. CopyTypeOK
    BY <1>1 DEF CopyTyped
  <2> QED BY <1>2, <1>9, <1>10, <2>1, <2>2 DEF CopyTypeOK, workers, locks
<1> QED BY <1>1, <1>2, <1>4, <1>7, <1>8, <1>11 DEF CopyTyped, workers

LEMMA CopyTypedMain ==
    ASSUME CopyAssumption, CopyIInv, main
    PROVE  CopyTyped'
<1>1. CopyTyped /\ Exchange
  BY DEF CopyIInv
<1>2. /\ \A u \in Workers : copyPc'[u] = copyPc[u]
      /\ copyPc'[Merger] = copyPc[Merger]
      /\ UNCHANGED <<workers, sem_go_ahead, res, copied_name, n456, data>>
  BY <1>1, OthersMove
<1>3. \E to \in {"stop", "join_merge", "exit"} : copyPc' = [copyPc EXCEPT ![Main] = to]
  BY DEF main, JoinWorkers, ReleaseToStop, JoinMerge, CopyGoto
<1>4. /\ copyPc' = [t \in Workers \cup {Main, Merger} |-> copyPc'[t]]
      /\ copyPc'[Main] \in {"join", "stop", "join_merge", "exit"}
  <2>1. PICK to \in {"stop", "join_merge", "exit"} : copyPc' = [copyPc EXCEPT ![Main] = to]
    BY <1>3
  <2>2. copyPc = [t \in Workers \cup {Main, Merger} |-> copyPc[t]]
    BY <1>1 DEF CopyTyped
  <2> QED BY <2>1, <2>2
<1>5. is_done' \in BOOLEAN
  BY <1>1 DEF CopyTyped, CopyTypeOK, main, JoinWorkers, ReleaseToStop, JoinMerge, merge
<1>6. sem_finish' \in [Workers -> 0 .. 1]
  <2>1. sem_finish \in [Workers -> 0 .. 1]
    BY <1>1 DEF CopyTyped, CopyTypeOK
  <2>2. CASE ReleaseToStop
    <3>1. \A u \in Workers : sem_finish[u] = 0
      BY <1>1, <2>2 DEF ReleaseToStop, CopyGoto, Exchange
    <3> QED BY <2>1, <2>2, <3>1 DEF ReleaseToStop
  <2> QED BY <2>1, <2>2 DEF main, JoinWorkers, JoinMerge, sems
<1>7. CopyTypeOK'
  BY <1>1, <1>2, <1>5, <1>6 DEF CopyTyped, CopyTypeOK, workers, locks
<1> QED BY <1>1, <1>2, <1>4, <1>7 DEF CopyTyped, workers

LEMMA TotalsRightStep ==
    ASSUME CopyAssumption, CopyIInv, CopyNext
    PROVE  TotalsRight'
<1>1. CopyTyped /\ GivenOnce /\ TotalsRight
  BY DEF CopyIInv
<1>2. /\ data.line \in Totals /\ n456 \in Totals /\ data.body \in Seq(FilePaths)
      /\ data \in [line : Totals, body : Seq(FilePaths), overrun : Nat]
  BY <1>1 DEF CopyTyped
<1>3. Merged \subseteq FilePaths
  BY <1>2 DEF Merged
<1>4. copyPc[Merger] \in InMerge => copied_name \in FilePaths /\ copied_name \notin Merged
  BY <1>1 DEF GivenOnce, Given
<1>5. copyPc = [t \in Workers \cup {Main, Merger} |-> copyPc[t]]
  BY <1>1 DEF CopyTyped
<1>6. CASE /\ copyPc'[Merger] = copyPc[Merger] /\ data' = data /\ n456' = n456
           /\ copied_name' = copied_name
  BY <1>1, <1>6 DEF TotalsRight, Merged, TotalOf, CountsOf
<1>7. CASE WaitFinish \/ StopOrTakeName \/ ReleaseGoAhead
  <2>1. /\ copyPc[Merger] \in {"wait", "done?", "release"}
        /\ copyPc'[Merger] \in {"done?", "release", "returned", "read"}
        /\ data' = data /\ n456' = n456
    BY <1>5, <1>7 DEF WaitFinish, StopOrTakeName, ReleaseGoAhead, CopyGoto
  <2> QED BY <1>1, <2>1 DEF TotalsRight, Merged, TotalOf, CountsOf
<1>8. CASE ReadFirstLines
  <2>1. /\ copyPc[Merger] = "read" /\ copyPc'[Merger] = "write"
        /\ data' = data /\ copied_name' = copied_name
        /\ n456' = Plus(IF data.body = <<>> THEN n456 ELSE data.line, destination[copied_name])
    BY <1>5, <1>8 DEF ReadFirstLines, CopyGoto
  <2>2. destination[copied_name] = CountsOf(copied_name)
    BY <1>1, <2>1 DEF GivenOnce
  <2>3. data.line = TotalOf(Merged) /\ (data.body = <<>> => n456 = Zero)
    BY <1>1, <2>1 DEF TotalsRight
  <2>4. data.body = <<>> => data.line = Zero
    <3>1. data.body = <<>> => Merged = {}
      BY DEF Merged
    <3> QED BY <2>3, <3>1, TotalOfNone
  <2>5. n456' = Plus(data.line, CountsOf(copied_name))
    BY <2>1, <2>2, <2>3, <2>4
  <2> QED BY <2>1, <2>3, <2>5 DEF TotalsRight, Merged, TotalOf, CountsOf
<1>9. CASE WriteFirstLine
  <2>1. /\ copyPc[Merger] = "write" /\ copyPc'[Merger] = "append"
        /\ data'.line = n456 /\ data'.body = data.body /\ copied_name' = copied_name
    BY <1>2, <1>5, <1>9 DEF WriteFirstLine, CopyGoto
  <2>2. n456 = Plus(TotalOf(Merged), CountsOf(copied_name))
    BY <1>1, <2>1 DEF TotalsRight
  <2> QED BY <2>1, <2>2 DEF TotalsRight, Merged, TotalOf, CountsOf
<1>10. CASE AppendContent
  <2>1. /\ copyPc[Merger] = "append" /\ copyPc'[Merger] = "wait"
        /\ data'.line = data.line /\ data'.body = Append(data.body, copied_name)
    BY <1>2, <1>5, <1>10 DEF AppendContent, CopyGoto
  <2>2. copied_name \in FilePaths \ Merged
    BY <1>4, <2>1 DEF InMerge
  <2>3. Merged' = Merged \cup {copied_name} /\ data'.body # <<>>
    BY <1>2, <2>1, <2>2 DEF Merged
  <2>4. data.line = Plus(TotalOf(Merged), CountsOf(copied_name))
    BY <1>1, <2>1 DEF TotalsRight
  <2>5. PICK S \in SUBSET FilePaths : S = Merged
    BY <1>3
  <2>6. PICK f : f = copied_name
    OBVIOUS
  <2>7. TotalOf(S \cup {f}) = Plus(TotalOf(S), CountsOf(f))
    BY <2>2, <2>5, <2>6, TotalGrows
  <2>8. data'.line = TotalOf(Merged')
    BY <2>1, <2>3, <2>4, <2>5, <2>6, <2>7
  <2>9. TotalOf(Merged)' = TotalOf(Merged')
    BY DEF TotalOf
  <2> QED BY <2>1, <2>3, <2>8, <2>9 DEF TotalsRight
<1>11. CASE main \/ (\E w \in Workers : th_work(w)) \/ (Exited /\ UNCHANGED copyVars)
  <2>1. CASE main
    BY <1>1, <1>6, <2>1, OthersMove
  <2>2. CASE \E w \in Workers : th_work(w)
    <3>1. PICK w \in Workers : th_work(w)
      BY <2>2
    <3> QED BY <1>6, <3>1, WorkerMoves DEF merge
  <2>3. CASE UNCHANGED copyVars
    BY <1>6, <2>3 DEF copyVars, merge
  <2> QED BY <1>11, <2>1, <2>2, <2>3
<1> QED BY <1>7, <1>8, <1>9, <1>10, <1>11 DEF CopyNext, th_merge

LEMMA CopyInitially ==
    ASSUME CopyAssumption, CopyInit
    PROVE  CopyIInv
<1>1. 0 \in Workers /\ Main \notin Workers /\ Merger \notin Workers /\ Main # Merger
  BY Apart
<1>2. Zero \in Totals
  BY DEF Zero, Totals
<1>3. /\ copyPc = [t \in Workers \cup {Main, Merger} |-> copyPc[t]]
      /\ copyPc[Main] = "join" /\ copyPc[Merger] = "wait"
      /\ \A w \in Workers : copyPc[w] = "entry"
  <2>1. copyPc = [t \in Workers \cup {Main, Merger} |->
                     CASE t = Main -> "join" [] t = Merger -> "wait" [] OTHER -> "entry"]
    BY DEF CopyInit
  <2>2. copyPc[Main] = "join" /\ copyPc[Merger] = "wait"
    BY <1>1, <2>1
  <2>3. \A w \in Workers : w # Main /\ w # Merger
    BY <1>1
  <2>4. \A w \in Workers : copyPc[w] = "entry"
    BY <2>1, <2>3
  <2> QED BY <2>1, <2>2, <2>4
<1>4. /\ sem_finish = [w \in Workers |-> 0] /\ sem_go_ahead = [w \in Workers |-> 0]
      /\ entry = [w \in Workers |-> 1] /\ number = [w \in Workers |-> Zero]
      /\ is_done = FALSE /\ res = 0 /\ n456 = Zero
      /\ data = [line |-> Zero, body |-> <<>>, overrun |-> 0]
      /\ cs_check_file_presence = NoWorker /\ cs_set_file_name_for_merge = NoWorker
      /\ name_for_merge = "" /\ copied_name = ""
  BY DEF CopyInit
<1>5. data.body = <<>> /\ Merged = {}
  <2>1. data.body = <<>>
    BY <1>4
  <2> QED BY <2>1 DEF Merged
<1>6. CopyTyped
  <2>1. Len(Walk) \in Nat /\ AtStart \subseteq SUBSET Paths
    BY CopyAssumption DEF CopyAssumption
  <2>2. DOMAIN destination \subseteq Paths
    <3>1. PICK S \in AtStart : destination = [p \in S |-> Zero]
      BY DEF CopyInit
    <3> QED BY <2>1, <3>1
  <2>3. entry \in [Workers -> 1 .. Len(Walk) + 1]
    <3>1. 1 \in 1 .. Len(Walk) + 1
      BY <2>1
    <3> QED BY <1>4, <3>1, Zenon
  <2>4. sem_finish \in [Workers -> 0 .. 1] /\ sem_go_ahead \in [Workers -> 0 .. 1]
    <3>1. 0 \in 0 .. 1
      OBVIOUS
    <3> QED BY <1>4, <3>1, Zenon
  <2>5. data.overrun >= 0
    <3>1. data.overrun = 0
      BY <1>4
    <3> QED BY <3>1
  <2>6. CopyTypeOK
    BY <1>1, <1>4, <2>2, <2>3, <2>4, <2>5 DEF CopyTypeOK
  <2>7. data \in [line : Totals, body : Seq(FilePaths), overrun : Nat]
    <3>1. <<>> \in Seq(FilePaths)
      OBVIOUS
    <3> QED BY <1>2, <1>4, <3>1
  <2>8. n456 \in Totals /\ number \in [Workers -> Totals]
    BY <1>2, <1>4
  <2> QED BY <1>3, <2>6, <2>7, <2>8 DEF CopyTyped
<1>7. CopyLocked
  BY <1>3, <1>4, CopyAssumption DEF CopyLocked, Naming, CopyAssumption
<1>8. OwnRight /\ CopyAlone
  BY <1>3, <1>4 DEF OwnRight, CopyAlone, Copying, Copied, Naming
<1>9. GivenOnce
  <2>1. Given = {}
    BY <1>3, <1>5 DEF Given, InMerge
  <2> QED BY <1>3, <1>5, <2>1 DEF GivenOnce, InMerge
<1>10. Exchange
  <2>1. \A w \in Workers : sem_finish[w] = 0 /\ sem_go_ahead[w] = 0
    BY <1>4, Zenon
  <2>2. ~ is_done
    BY <1>4
  <2> QED BY <1>3, <2>1, <2>2 DEF Exchange
<1>11. TotalsRight
  BY <1>3, <1>4, <1>5, TotalOfNone DEF TotalsRight
<1> QED BY <1>6, <1>7, <1>8, <1>9, <1>10, <1>11 DEF CopyIInv

THEOREM CopyInductive ==
    ASSUME CopyAssumption
    PROVE  CopySpec => []CopyIInv
<1>1. CopyInit => CopyIInv
  BY CopyInitially
<1>2. CopyIInv /\ [CopyNext]_copyVars => CopyIInv'
  <2> SUFFICES ASSUME CopyIInv, [CopyNext]_copyVars
               PROVE  CopyIInv'
    OBVIOUS
  <2>1. CASE \E w \in Workers : th_work(w)
    <3>1. PICK w \in Workers : th_work(w)
      BY <2>1
    <3>2. CopyNext
      BY <2>1 DEF CopyNext
    <3> QED
      BY <3>1, <3>2, CopyTypedWork, CopyLockedWork, OwnRightWork, CopyAloneWork, GivenOnceWork,
         ExchangeWork, TotalsRightStep DEF CopyIInv
  <2>2. CASE th_merge
    <3>1. CopyNext
      BY <2>2 DEF CopyNext
    <3> QED
      BY <2>2, <3>1, CopyTypedMerge, KeptByOthers, GivenOnceMerge, ExchangeMerge, TotalsRightStep
         DEF CopyIInv
  <2>3. CASE main
    <3>1. CopyNext
      BY <2>3 DEF CopyNext
    <3> QED
      BY <2>3, <3>1, CopyTypedMain, KeptByOthers, GivenOnceMain, ExchangeMain, TotalsRightStep
         DEF CopyIInv
  <2>4. CASE UNCHANGED copyVars
    <3>1. /\ UNCHANGED <<destination, cs_check_file_presence, cs_set_file_name_for_merge>>
          /\ UNCHANGED <<name_for_merge, sem_finish, sem_go_ahead, number, entry, copyPc>>
          /\ UNCHANGED <<is_done, res, copied_name, n456, data>>
      BY <2>4 DEF copyVars, locks, sems, merge
    <3>2. CopyTyped' /\ CopyLocked' /\ OwnRight' /\ CopyAlone'
      BY <3>1 DEF CopyIInv, CopyTyped, CopyTypeOK, CopyLocked, OwnRight, CopyAlone, Path, CountsOf
    <3>3. Given' = Given /\ Merged' = Merged /\ \A w \in Workers : ToMerge(w)' = ToMerge(w)
      BY <3>1 DEF Given, Merged, ToMerge
    <3>4. GivenOnce'
      BY <3>1, <3>3 DEF CopyIInv, GivenOnce, Path, CountsOf
    <3>5. Exchange'
      BY <3>1 DEF CopyIInv, Exchange, Returned, Path
    <3>6. TotalsRight'
      BY <3>1, <3>3 DEF CopyIInv, TotalsRight, TotalOf, CountsOf
    <3> QED BY <3>2, <3>4, <3>5, <3>6 DEF CopyIInv
  <2> QED BY <2>1, <2>2, <2>3, <2>4 DEF CopyNext
<1> QED BY <1>1, <1>2, PTL DEF CopySpec

(* EXAMS/2013-02-16/main.cpp: the name in the buffer that all workers share is the
   waiting worker's own when the merger reads it, and the copy it names is complete,
   for any number of workers, any walk and any contents. *)
THEOREM HandedOver ==
    ASSUME CopyAssumption
    PROVE  CopySpec => []HandOver
<1>1. CopyIInv => HandOver
  <2> SUFFICES ASSUME CopyIInv PROVE HandOver
    OBVIOUS
  <2>1. CopyTypeOK
    BY DEF CopyIInv, CopyTyped
  <2>2. \A w \in Workers : sem_finish[w] > 0 /\ ~ is_done =>
           copyPc[w] = "go_ahead" /\ name_for_merge = Here(w).path
    <3>1. \A w \in Workers : sem_finish[w] > 0 => sem_finish[w] = 1
      <4>1. sem_finish \in [Workers -> 0 .. 1]
        BY <2>1 DEF CopyTypeOK
      <4> QED BY <4>1
    <3> QED BY <3>1 DEF CopyIInv, Exchange, Here, Path
  <2>3. copyPc[Merger] = "release" => copyPc[res] = "go_ahead" /\ copied_name = Here(res).path
    BY DEF CopyIInv, Exchange, Here, Path
  <2>4. copyPc[Merger] = "read" => destination[copied_name] = Counts(Content[copied_name])
    BY DEF CopyIInv, GivenOnce, CountsOf
  <2> QED BY <2>1, <2>2, <2>3, <2>4 DEF HandOver
<1> QED BY <1>1, CopyInductive, PTL

(* EXAMS/2013-02-16/main.cpp: data.txt has every merged file once, and the counts in
   its first line are those of the files it has, however the workers and the merger
   interleave. *)
THEOREM TotalsRightly ==
    ASSUME CopyAssumption
    PROVE  CopySpec => []TotalsMatchBody
<1>1. CopyIInv => TotalsMatchBody
  BY DEF CopyIInv, GivenOnce, TotalsRight, TotalOf, TotalsMatchBody
<1> QED BY <1>1, CopyInductive, PTL
=============================================================================
