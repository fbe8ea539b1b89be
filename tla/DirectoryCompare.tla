-------------------------- MODULE DirectoryCompare --------------------------
(* LAB09/E02.cpp: one thread per directory tree walks it and publishes the   *)
(* name of each entry; a comparing thread waits for one name of everyone,    *)
(* compares them and lets everyone go on.  All readers share one semaphore   *)
(* in each direction, and count themselves out in terminate.                 *)
EXTENDS Integers, Sequences

CONSTANTS
    numThread,
    Tree       \* per reader, what FindFirstFile and FindNextFile yield, level by
               \* level: a directory's entries follow it; each has name, isDir

Readers == 0 .. numThread - 1
Comparer == -1
Main == -2

VARIABLES
    vetFileNameToCompare,
    semaphoreforComparing, semaphoreforReading,
    terminate, loaded,   \* loaded[r]: terminate as r has read it for terminate++
    entry,               \* the entry of its tree a reader is at
    i, resultOfCompare,  \* the comparer's loop index and its exit code
    result,              \* what main prints
    pc

names == <<vetFileNameToCompare, entry>>
sems == <<semaphoreforComparing, semaphoreforReading>>
counts == <<terminate, loaded>>
comparer == <<i, resultOfCompare>>
vars == <<names, sems, counts, comparer, result, pc>>

Init ==
    /\ vetFileNameToCompare = [r \in Readers |-> ""]
    /\ semaphoreforComparing = 0 /\ semaphoreforReading = 0
    /\ terminate = 0 /\ loaded = [r \in Readers |-> 0]
    /\ entry = [r \in Readers |-> 1]
    /\ i = 0 /\ resultOfCompare = 0 /\ result = "none"
    /\ pc = [t \in Readers \cup {Comparer, Main} |->
                CASE t = Main -> "join" [] t = Comparer -> "while" [] OTHER -> "find"]

Goto(t, from, to) ==
    /\ pc[t] = from
    /\ pc' = [pc EXCEPT ![t] = to]

FileType(e) ==
    IF e.isDir THEN IF e.name \in {".", ".."} THEN "TYPE_DOT" ELSE "TYPE_DIR"
               ELSE "TYPE_FILE"

(* ReleaseSemaphore does nothing at the maximum, and nobody looks *)
Released(sem) == IF sem < numThread THEN sem + 1 ELSE sem

-----------------------------------------------------------------------------
(* TraverseDirectoryRecursive *)

SkipDot(r) ==
    /\ entry[r] <= Len(Tree[r]) /\ FileType(Tree[r][entry[r]]) = "TYPE_DOT"
    /\ Goto(r, "find", "find")
    /\ entry' = [entry EXCEPT ![r] = @ + 1]
    /\ UNCHANGED <<vetFileNameToCompare, sems, counts, comparer, result>>

(* A file's name and a directory's are published alike *)
Publish(r) ==
    /\ entry[r] <= Len(Tree[r]) /\ FileType(Tree[r][entry[r]]) # "TYPE_DOT"
    /\ Goto(r, "find", "release")
    /\ vetFileNameToCompare' = [vetFileNameToCompare EXCEPT ![r] = Tree[r][entry[r]].name]
    /\ UNCHANGED <<entry, sems, counts, comparer, result>>

ReleaseComparing(r) ==
    /\ \/ Goto(r, "release", "wait")
       \/ Goto(r, "release end", "returned")
    /\ semaphoreforComparing' = Released(semaphoreforComparing)
    /\ UNCHANGED <<names, semaphoreforReading, counts, comparer, result>>

WaitReading(r) ==
    /\ semaphoreforReading > 0
    /\ Goto(r, "wait", "find")
    /\ semaphoreforReading' = semaphoreforReading - 1
    /\ entry' = [entry EXCEPT ![r] = @ + 1]
    /\ UNCHANGED <<vetFileNameToCompare, semaphoreforComparing, counts, comparer, result>>

(* terminate++ at level 0: no lock between the load and the store *)
LoadTerminate(r) ==
    /\ entry[r] > Len(Tree[r])
    /\ Goto(r, "find", "store")
    /\ loaded' = [loaded EXCEPT ![r] = terminate]
    /\ UNCHANGED <<names, sems, terminate, comparer, result>>

StoreTerminate(r) ==
    /\ Goto(r, "store", "release end")
    /\ terminate' = loaded[r] + 1
    /\ UNCHANGED <<names, sems, loaded, comparer, result>>

TraverseDirectoryRecursive(r) ==
    \/ SkipDot(r) \/ Publish(r) \/ ReleaseComparing(r) \/ WaitReading(r)
    \/ LoadTerminate(r) \/ StoreTerminate(r)

-----------------------------------------------------------------------------
(* Comparing *)

While ==
    /\ i' = 0
    /\ Goto(Comparer, "while", IF terminate < numThread THEN "wait" ELSE "exit")
    /\ UNCHANGED <<names, sems, counts, resultOfCompare, result>>

(* terminate is read again before every wait: readers that end are not waited for *)
WaitComparing ==
    /\ i < numThread - terminate
    /\ semaphoreforComparing > 0
    /\ Goto(Comparer, "wait", "wait")
    /\ semaphoreforComparing' = semaphoreforComparing - 1
    /\ i' = i + 1
    /\ UNCHANGED <<names, semaphoreforReading, counts, resultOfCompare, result>>

AllWaited ==
    /\ i >= numThread - terminate
    /\ Goto(Comparer, "wait", "compare")
    /\ i' = 0
    /\ UNCHANGED <<names, sems, counts, resultOfCompare, result>>

Compare ==
    /\ \/ /\ i < numThread - 1
          /\ IF vetFileNameToCompare[i] = vetFileNameToCompare[i + 1]
               THEN Goto(Comparer, "compare", "compare") /\ i' = i + 1
               ELSE Goto(Comparer, "compare", "kill") /\ i' = 0
       \/ i >= numThread - 1 /\ Goto(Comparer, "compare", "restart") /\ i' = 0
    /\ UNCHANGED <<names, sems, counts, resultOfCompare, result>>

(* TerminateThread stops a reader wherever it is *)
Kill ==
    /\ pc[Comparer] = "kill" /\ i < numThread
    /\ pc' = [pc EXCEPT ![i] = "returned"]
    /\ i' = i + 1
    /\ UNCHANGED <<names, sems, counts, resultOfCompare, result>>

ExitNotTheSame ==
    /\ i = numThread
    /\ Goto(Comparer, "kill", "exit")
    /\ resultOfCompare' = -1
    /\ UNCHANGED <<names, sems, counts, i, result>>

RestartReaders ==
    /\ IF i < numThread - terminate
         THEN /\ Goto(Comparer, "restart", "restart")
              /\ semaphoreforReading' = Released(semaphoreforReading)
              /\ i' = i + 1
         ELSE Goto(Comparer, "restart", "while") /\ UNCHANGED <<semaphoreforReading, i>>
    /\ UNCHANGED <<names, semaphoreforComparing, counts, resultOfCompare, result>>

Comparing == While \/ WaitComparing \/ AllWaited \/ Compare \/ Kill \/ ExitNotTheSame
             \/ RestartReaders

-----------------------------------------------------------------------------
(* main *)

JoinComparer ==
    /\ pc[Comparer] = "exit"
    /\ Goto(Main, "join", "join readers")
    /\ UNCHANGED <<names, sems, counts, comparer, result>>

PrintResult ==
    /\ \A r \in Readers : pc[r] = "returned"
    /\ Goto(Main, "join readers", "exit")
    /\ result' = IF resultOfCompare = 0 THEN "equals" ELSE "NOT equals"
    /\ UNCHANGED <<names, sems, counts, comparer>>

Next == JoinComparer \/ PrintResult \/ Comparing
        \/ \E r \in Readers : TraverseDirectoryRecursive(r)

Spec == Init /\ [][Next]_vars

-----------------------------------------------------------------------------
(* Properties *)

(* The verdict printed is right: the trees' names agree exactly when it says so. *)
VerdictRight ==
    LET Listed(r) == SelectSeq(Tree[r], LAMBDA e : FileType(e) # "TYPE_DOT")
        Names(r) == [k \in DOMAIN Listed(r) |-> Listed(r)[k].name]
    IN  /\ result = "equals" => \A r, s \in Readers : Names(r) = Names(s)
        /\ result = "NOT equals" => \E r, s \in Readers : Names(r) # Names(s)
=============================================================================
