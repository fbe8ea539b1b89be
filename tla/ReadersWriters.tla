--------------------------- MODULE ReadersWriters ---------------------------
(* LAB11/E01.cpp: every thread visits one server's directory once, reading   *)
(* or rewriting its files.  Per server, resource keeps writers out while     *)
(* readCount readers are in; rmutex guards readCount; csOut, shared by all   *)
(* servers, keeps the readers' printouts apart.                              *)
EXTENDS Naturals, FiniteSets

CONSTANTS
    Visitors, Servers,
    Files,      \* number of files in a server's directory
    NoVisitor   \* owner of the free critical section

DirectoryAssumption ==
    /\ IsFiniteSet(Visitors) /\ NoVisitor \notin Visitors
    /\ Files \in Nat \ {0}

VARIABLES
    resource, rmutex, readCount,  \* per server
    csOut,                        \* owner, or NoOne
    directory,                    \* directory[s][f]: modifications made to file f
    server, role,                 \* what the thread drew (n3 and n2)
    dirPc,
    file,                         \* file the thread visits next
    seen                          \* seen[t][f]: what the thread read in file f

dirVars == <<resource, rmutex, readCount, csOut, directory, server, role, dirPc, file, seen>>

FileIds == 1 .. Files

DirInit ==
    /\ resource = [s \in Servers |-> 1]
    /\ rmutex = [s \in Servers |-> 1]
    /\ readCount = [s \in Servers |-> 0]
    /\ csOut = NoVisitor
    /\ directory = [s \in Servers |-> [f \in FileIds |-> 0]]
    /\ server \in [Visitors -> Servers]
    /\ role \in [Visitors -> {"reader", "writer"}]
    /\ dirPc = [t \in Visitors |-> IF role[t] = "reader" THEN "rmutex" ELSE "resource"]
    /\ file = [t \in Visitors |-> 1]
    /\ seen = [t \in Visitors |-> [f \in FileIds |-> 0]]

DirGoto(t, from, to) ==
    /\ dirPc[t] = from
    /\ dirPc' = [dirPc EXCEPT ![t] = to]

Wait(sem, s) == sem[s] > 0 /\ sem' = [sem EXCEPT ![s] = 0]

(* ReleaseSemaphore on a semaphore of maximum 1: when it fails the thread ends *)
Release(sem, s, t, from, to) ==
    IF sem[s] = 0 THEN sem' = [sem EXCEPT ![s] = 1] /\ DirGoto(t, from, to)
                  ELSE UNCHANGED sem /\ DirGoto(t, from, "failed")

-----------------------------------------------------------------------------
(* Reader *)

LockCount(t) ==
    /\ \/ DirGoto(t, "rmutex", "count")
       \/ DirGoto(t, "rmutex again", "uncount")
    /\ Wait(rmutex, server[t])
    /\ UNCHANGED <<resource, readCount, csOut, directory, server, role, file, seen>>

CountReader(t) ==
    /\ readCount' = [readCount EXCEPT ![server[t]] = @ + 1]
    /\ DirGoto(t, "count", IF readCount'[server[t]] = 1 THEN "first" ELSE "admitted")
    /\ UNCHANGED <<resource, rmutex, csOut, directory, server, role, file, seen>>

(* The first reader waits for the writer while it holds rmutex *)
FirstReader(t) ==
    /\ DirGoto(t, "first", "admitted")
    /\ Wait(resource, server[t])
    /\ UNCHANGED <<rmutex, readCount, csOut, directory, server, role, file, seen>>

UnlockCount(t) ==
    /\ \/ Release(rmutex, server[t], t, "admitted", "read")
       \/ Release(rmutex, server[t], t, "left", "end")
    /\ UNCHANGED <<resource, readCount, csOut, directory, server, role, file, seen>>

(* ReadDirectory *)

EnterOut(t) ==
    /\ file[t] <= Files
    /\ csOut = NoVisitor
    /\ csOut' = t
    /\ DirGoto(t, "read", "open")
    /\ UNCHANGED <<resource, rmutex, readCount, directory, server, role, file, seen>>

ReadFile(t) ==
    /\ DirGoto(t, "open", "read")
    /\ seen' = [seen EXCEPT ![t][file[t]] = directory[server[t]][file[t]]]
    /\ file' = [file EXCEPT ![t] = @ + 1]
    /\ csOut' = NoVisitor
    /\ UNCHANGED <<resource, rmutex, readCount, directory, server, role>>

(* CreateFile fails: ReadDirectory returns -1, csOut is not left *)
OpenFails(t) ==
    /\ DirGoto(t, "open", "rmutex again")
    /\ UNCHANGED <<resource, rmutex, readCount, csOut, directory, server, role, file, seen>>

AllRead(t) ==
    /\ file[t] > Files
    /\ DirGoto(t, "read", "rmutex again")
    /\ UNCHANGED <<resource, rmutex, readCount, csOut, directory, server, role, file, seen>>

UncountReaderEach(t) ==
    /\ readCount' = [readCount EXCEPT ![server[t]] = @ - 1]
    /\ Release(resource, server[t], t, "uncount", "left")
    /\ UNCHANGED <<rmutex, csOut, directory, server, role, file, seen>>
UncountReader(t) ==
    /\ readCount' = [readCount EXCEPT ![server[t]] = @ - 1]
    /\ IF readCount'[server[t]] = 0
         THEN Release(resource, server[t], t, "uncount", "left")
         ELSE DirGoto(t, "uncount", "left") /\ UNCHANGED resource
    /\ UNCHANGED <<rmutex, csOut, directory, server, role, file, seen>>

-----------------------------------------------------------------------------
(* Writer *)

WriterEntersUnwaiting(t) ==
    /\ DirGoto(t, "resource", "modify")
    /\ UNCHANGED <<resource, rmutex, readCount, csOut, directory, server, role, file, seen>>
WriterEnters(t) ==
    /\ DirGoto(t, "resource", "modify")
    /\ Wait(resource, server[t])
    /\ UNCHANGED <<rmutex, readCount, csOut, directory, server, role, file, seen>>

(* WriteFileDirectory: a record is read, changed in memory and written back *)
ReadFileRecord(t) ==
    /\ file[t] <= Files
    /\ DirGoto(t, "modify", "write")
    /\ seen' = [seen EXCEPT ![t][file[t]] = directory[server[t]][file[t]]]
    /\ UNCHANGED <<resource, rmutex, readCount, csOut, directory, server, role, file>>

WriteFileRecord(t) ==
    /\ DirGoto(t, "write", "modify")
    /\ directory' = [directory EXCEPT ![server[t]][file[t]] = seen[t][file[t]] + 1]
    /\ file' = [file EXCEPT ![t] = @ + 1]
    /\ UNCHANGED <<resource, rmutex, readCount, csOut, server, role, seen>>

(* Every file was visited, or one could not be opened or written *)
WriterLeaves(t) ==
    /\ \/ Release(resource, server[t], t, "modify", "end")
       \/ Release(resource, server[t], t, "write", "end")
    /\ UNCHANGED <<rmutex, readCount, csOut, directory, server, role, file, seen>>

-----------------------------------------------------------------------------
thWork(t) ==
    \/ LockCount(t) \/ CountReader(t) \/ FirstReader(t) \/ UnlockCount(t)
    \/ EnterOut(t) \/ ReadFile(t) \/ OpenFails(t) \/ AllRead(t) \/ UncountReader(t)
    \/ WriterEnters(t) \/ ReadFileRecord(t) \/ WriteFileRecord(t) \/ WriterLeaves(t)

Ended == \A t \in Visitors : dirPc[t] = "end"

DirNext == (\E t \in Visitors : thWork(t)) \/ (Ended /\ UNCHANGED dirVars)

DirSpec == DirInit /\ [][DirNext]_dirVars

(* Threads are scheduled; each visits one directory, so none can overtake
   another for ever on a semaphore. *)
DirFairSpec == DirSpec /\ \A t \in Visitors : WF_dirVars(thWork(t))

-----------------------------------------------------------------------------
(* Properties *)

Reading == {"admitted", "read", "open", "rmutex again", "uncount"}
Writing == {"modify", "write"}

(* "failed" is no label: no release of the program fails. *)
DirTypeOK ==
    /\ resource \in [Servers -> {0, 1}] /\ rmutex \in [Servers -> {0, 1}]
    /\ readCount \in [Servers -> 0 .. Cardinality(Visitors)]
    /\ csOut \in Visitors \cup {NoVisitor}
    /\ directory \in [Servers -> [FileIds -> Nat]]
    /\ server \in [Visitors -> Servers] /\ role \in [Visitors -> {"reader", "writer"}]
    /\ dirPc \in [Visitors -> Reading \cup Writing \cup
                              {"rmutex", "count", "first", "left", "resource", "end"}]
    /\ file \in [Visitors -> 1 .. Files + 1]
    /\ seen \in [Visitors -> [FileIds -> Nat]]

(* A directory is not written while one reads it: what a reader has seen in
   the first files still holds when it reads the last. *)
StableWhileRead ==
    /\ DirTypeOK
    /\ \A t \in Visitors : dirPc[t] \in Reading =>
          \A f \in 1 .. file[t] - 1 : seen[t][f] = directory[server[t]][f]

(* Writers read, change and write back: none undoes what another one wrote. *)
NoLostModification ==
    \A s \in Servers, f \in FileIds :
        directory[s][f] = Cardinality({t \in Visitors :
                              role[t] = "writer" /\ server[t] = s /\ file[t] > f})

(* csOut stays with a reader that could not open a file *)
OutLost == csOut # NoVisitor /\ dirPc[csOut] # "open"

(* Every thread ends, whatever the others do, unless a reader has kept csOut. *)
DirTermination == <>(Ended \/ OutLost)
=============================================================================
