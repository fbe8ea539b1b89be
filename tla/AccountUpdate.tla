--------------------------- MODULE AccountUpdate ---------------------------
(* LAB10/E01.cpp, E03.cpp, E04.cpp: every thread applies the operations of   *)
(* its own file to the records of one shared account file.  An update reads  *)
(* a record, adds, and writes it back.  E01 locks the record, E03 holds a    *)
(* mutex.  E04 waits on a file name instead of its semaphore, so the wait    *)
(* fails at once and holds nothing; its release, of a pointer, fails too.    *)
EXTENDS Integers, Sequences, FiniteSets

CONSTANTS
    Threads,
    Accounts,    \* ids of the records in the account file
    Opening,     \* their amounts at the start
    Operations,  \* per thread, the records of its operation file
    Programs,    \* which of "E01", "E03", "E04" run
    Mutex,       \* the mutex of E03
    NoOne        \* owner of what nobody holds

ASSUME AccountAssumption ==
    /\ Mutex \notin Accounts /\ NoOne \notin Threads
    /\ Opening \in [Accounts -> Int]
    /\ Operations \in [Threads -> Seq([id : Accounts, number : Int])]
    /\ Programs \subseteq {"E01", "E03", "E04"}

VARIABLES
    program,      \* the program under way
    account,      \* number of each record of the account file
    owner,        \* who holds a record lock or the mutex
    pc,
    todo,         \* what is left of the thread's operation file
    fileData,     \* fileData[t]: the operation being applied
    fileDataApp   \* fileDataApp[t]: the amount as read from the account file

vars == <<program, account, owner, pc, todo, fileData, fileDataApp>>

NoOperation == [id |-> 0, number |-> 0]

Init ==
    /\ program \in Programs
    /\ account = Opening
    /\ owner = [l \in Accounts \cup {Mutex} |-> NoOne]
    /\ pc = [t \in Threads |-> "next"]
    /\ todo = Operations
    /\ fileData = [t \in Threads |-> NoOperation]
    /\ fileDataApp = [t \in Threads |-> 0]

Goto(t, from, to) ==
    /\ pc[t] = from
    /\ pc' = [pc EXCEPT ![t] = to]

(* What the program holds while it updates record id *)
Guards(id) ==
    CASE program = "E01" -> {id}
      [] program = "E03" -> {Mutex}
      [] program = "E04" -> {}

ReadOperation(t) ==
    /\ todo[t] # <<>>
    /\ Goto(t, "next", "lock")
    /\ fileData' = [fileData EXCEPT ![t] = Head(todo[t])]
    /\ todo' = [todo EXCEPT ![t] = Tail(@)]
    /\ UNCHANGED <<program, account, owner, fileDataApp>>

Lock(t) ==
    /\ Goto(t, "lock", "read")
    /\ \A l \in Guards(fileData[t].id) : owner[l] = NoOne
    /\ owner' = [l \in DOMAIN owner |-> IF l \in Guards(fileData[t].id) THEN t ELSE owner[l]]
    /\ UNCHANGED <<program, account, todo, fileData, fileDataApp>>

ReadRecord(t) ==
    /\ Goto(t, "read", "write")
    /\ fileDataApp' = [fileDataApp EXCEPT ![t] = account[fileData[t].id]]
    /\ UNCHANGED <<program, account, owner, todo, fileData>>

WriteOperation(t) ==
    /\ Goto(t, "write", "unlock")
    /\ account' = [account EXCEPT ![fileData[t].id] = fileData[t].number]
    /\ UNCHANGED <<program, owner, todo, fileData, fileDataApp>>
WriteRecord(t) ==
    /\ Goto(t, "write", "unlock")
    /\ account' = [account EXCEPT ![fileData[t].id] = fileDataApp[t] + fileData[t].number]
    /\ UNCHANGED <<program, owner, todo, fileData, fileDataApp>>

Unlock(t) ==
    /\ Goto(t, "unlock", "next")
    /\ owner' = [l \in DOMAIN owner |-> IF l \in Guards(fileData[t].id) THEN NoOne ELSE owner[l]]
    /\ UNCHANGED <<program, account, todo, fileData, fileDataApp>>

work(t) == ReadOperation(t) \/ Lock(t) \/ ReadRecord(t) \/ WriteRecord(t) \/ Unlock(t)

Done == \A t \in Threads : pc[t] = "next" /\ todo[t] = <<>>

Next == (\E t \in Threads : work(t)) \/ (Done /\ UNCHANGED vars)

Spec == Init /\ [][Next]_vars

(* Threads are scheduled; their files are finite, so a lock is free again
   after finitely many updates. *)
FairSpec == Spec /\ \A t \in Threads : WF_vars(work(t))

-----------------------------------------------------------------------------
(* Properties *)

TypeOK ==
    /\ program \in Programs
    /\ account \in [Accounts -> Int]
    /\ owner \in [Accounts \cup {Mutex} -> Threads \cup {NoOne}]
    /\ \A l \in DOMAIN owner :
          owner[l] # NoOne => pc[owner[l]] \in {"read", "write", "unlock"}
    /\ pc \in [Threads -> {"next", "lock", "read", "write", "unlock"}]
    /\ todo \in [Threads -> Seq([id : Accounts, number : Int])]
    /\ fileData \in [Threads -> [id : Accounts, number : Int] \cup {NoOperation}]
    /\ fileDataApp \in [Threads -> Int]

(* A record is read and written back with no other write in between: what a
   thread is about to add to is what the file holds. *)
UpdateUndisturbed ==
    /\ TypeOK
    /\ \A t \in Threads : pc[t] = "write" => fileDataApp[t] = account[fileData[t].id]

Ledger == INSTANCE Ledger WITH
    balance <- account,
    pending <- [t \in Threads |-> IF pc[t] \in {"lock", "read", "write"}
                                    THEN <<fileData[t]>> \o todo[t] ELSE todo[t]]

(* Every update takes effect at one instant, when the record is written. *)
LedgerSpec == Ledger!Spec

(* All operation files are worked off. *)
Termination == <>Done

(* One at a time: no two threads update the same record together. *)
OneAtATime ==
    \A t, u \in Threads :
        /\ {pc[t], pc[u]} \subseteq {"read", "write", "unlock"}
        /\ fileData[t].id = fileData[u].id
        => t = u
=============================================================================
