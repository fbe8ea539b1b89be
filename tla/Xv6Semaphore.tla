---------------------------- MODULE Xv6Semaphore ----------------------------
(* LAB05: counting semaphores added to the xv6 kernel (semaphore.c), the     *)
(* system calls that reach them (sysfile.c, syscall.c), and the processes of *)
(* a user program such as st.c, each a sequence of calls.  Every system call *)
(* works on semaphore 0: "int sem = argint(0, &sem)" ends with the value     *)
(* argint returns.  sleep, wakeup, fork, wait and kalloc are the kernel's.   *)
EXTENDS Integers, FiniteSets, Sequences

CONSTANTS
    Procs,         \* processes
    First,         \* the one that is started by the shell
    Program,       \* Program[p]: the calls of p, <<name, argument>>
    MAXSEMAPHORE

Semaphores == 0 .. MAXSEMAPHORE - 1

(* The calls of all programs, as <<process, index>> *)
ProgramCalls == UNION {{p} \X DOMAIN Program[p] : p \in Procs}
Name(c) == Program[c[1]][c[2]][1]

(* Only First initialises a semaphore, once and before it waits, posts or forks,
   and a process is forked once: the programs that the properties are about.    *)
InitialisesFirst ==
    \E init \in DOMAIN Program[First] :
        /\ \A c \in ProgramCalls : Name(c) = "sem_init" <=> c = <<First, init>>
        /\ \A k \in 1 .. init - 1 : Program[First][k][1] \notin {"fork", "sem_wait", "sem_post"}
ForksOnce ==
    \A c \in ProgramCalls : Name(c) = "fork" =>
        /\ Program[c[1]][c[2]][2] \in Procs \ {First}
        /\ \A d \in ProgramCalls :
              Name(d) = "fork" /\ Program[d[1]][d[2]][2] = Program[c[1]][c[2]][2] => d = c

ASSUME ProgramAssumption ==
    /\ IsFiniteSet(Procs) /\ First \in Procs
    /\ MAXSEMAPHORE \in Nat \ {0}
    /\ \A p \in Procs : Len(Program[p]) \in Nat /\ DOMAIN Program[p] = 1 .. Len(Program[p])
    /\ InitialisesFirst /\ ForksOnce

VARIABLES
    semaphore_count, vet_assigned,
    v_sem,      \* the counters
    status,     \* of a process: unborn, running, sleeping, woken, exited
    at,         \* index of a process's next call
    handle,     \* its variable sem
    panic       \* the kernel has stopped

semVars == <<semaphore_count, vet_assigned, v_sem, status, at, handle, panic>>
table == <<semaphore_count, vet_assigned, v_sem>>

SemInit ==
    /\ semaphore_count = 0
    /\ vet_assigned = [s \in Semaphores |-> 0]
    /\ v_sem = [s \in Semaphores |-> 0]
    /\ status = [p \in Procs |-> IF p = First THEN "running" ELSE "unborn"]
    /\ at = [p \in Procs |-> 1]
    /\ handle = [p \in Procs |-> -1]
    /\ panic = FALSE

-----------------------------------------------------------------------------
(* System calls *)

(* A call of that name is the next of p, and the kernel is up. *)
Calls(p, call) ==
    /\ ~ panic /\ status[p] = "running"
    /\ at[p] <= Len(Program[p]) /\ Program[p][at[p]][1] = call
Argument(p) == Program[p][at[p]][2]
Returns(p) == at' = [at EXCEPT ![p] = @ + 1]

(* What a handler has of its argument: the 0 of a successful fetch *)
argint(argument) == 0

(* Allocation runs under table.lock.  A program has no semaphore before its own
   call returns, so nobody uses the entry that is filled. *)
sem_alloc(p) ==
    /\ Calls(p, "sem_alloc")
    /\ semaphore_count < MAXSEMAPHORE /\ vet_assigned[semaphore_count] = 0
    /\ vet_assigned' = [vet_assigned EXCEPT ![semaphore_count] = 1]
    /\ v_sem' = [v_sem EXCEPT ![semaphore_count] = 0]
    /\ semaphore_count' = semaphore_count + 1
    /\ handle' = [handle EXCEPT ![p] = semaphore_count]
    /\ Returns(p)
    /\ UNCHANGED <<status, panic>>

(* At the limit kfree gets a pointer nobody has set: it panics, or frees what
   it points to; with no memory left it gets a null pointer and panics. *)
sem_alloc_bad(p) ==
    /\ Calls(p, "sem_alloc")
    /\ \/ /\ semaphore_count < MAXSEMAPHORE
          /\ panic' = TRUE /\ UNCHANGED <<at, handle>>
       \/ /\ semaphore_count = MAXSEMAPHORE
          /\ \/ panic' = TRUE /\ UNCHANGED <<at, handle>>
             \/ UNCHANGED panic /\ Returns(p) /\ handle' = [handle EXCEPT ![p] = -1]
    /\ UNCHANGED <<table, status>>

sem_init(p) ==
    LET sem == argint(handle[p])
        count == argint(Argument(p))
    IN  /\ Calls(p, "sem_init")
        /\ IF vet_assigned[sem] = 1
             THEN v_sem' = [v_sem EXCEPT ![sem] = count] /\ Returns(p) /\ UNCHANGED panic
             ELSE panic' = TRUE /\ UNCHANGED <<v_sem, at>>
        /\ UNCHANGED <<semaphore_count, vet_assigned, status, handle>>

(* sys_sem_destroy leaves the semaphore alone. *)
sem_destroy(p) ==
    /\ Calls(p, "sem_destroy")
    /\ Returns(p)
    /\ UNCHANGED <<table, status, handle, panic>>

sem_wait(p) ==
    LET sem == argint(handle[p]) IN
    /\ Calls(p, "sem_wait")
    /\ IF vet_assigned[sem] = 1
         THEN /\ v_sem' = [v_sem EXCEPT ![sem] = @ - 1]
              /\ IF v_sem[sem] - 1 < 0
                   THEN status' = [status EXCEPT ![p] = "sleeping"] /\ UNCHANGED at
                   ELSE Returns(p) /\ UNCHANGED status
         ELSE Returns(p) /\ UNCHANGED <<v_sem, status>>
    /\ UNCHANGED <<semaphore_count, vet_assigned, handle, panic>>

(* sleep returns with the semaphore's lock, whatever the counter is now. *)
sem_wait_return(p) ==
    /\ ~ panic /\ status[p] = "woken"
    /\ status' = [status EXCEPT ![p] = "running"]
    /\ Returns(p)
    /\ UNCHANGED <<table, handle, panic>>

(* wakeup lets go of everyone that sleeps. *)
wakeup == [p \in Procs |-> IF status[p] = "sleeping" THEN "woken" ELSE status[p]]

PostAlwaysWaking(p) ==
    LET sem == argint(handle[p]) IN
    /\ Calls(p, "sem_post")
    /\ v_sem' = [v_sem EXCEPT ![sem] = @ + 1]
    /\ status' = wakeup
    /\ Returns(p)
    /\ UNCHANGED <<semaphore_count, vet_assigned, handle, panic>>
PostAboveZero(p) ==
    LET sem == argint(handle[p]) IN
    /\ Calls(p, "sem_post")
    /\ v_sem' = [v_sem EXCEPT ![sem] = @ + 1]
    /\ status' = IF v_sem[sem] + 1 > 0 THEN wakeup ELSE status
    /\ Returns(p)
    /\ UNCHANGED <<semaphore_count, vet_assigned, handle, panic>>
sem_post(p) ==
    LET sem == argint(handle[p]) IN
    /\ Calls(p, "sem_post")
    /\ IF vet_assigned[sem] = 1
         THEN /\ v_sem' = [v_sem EXCEPT ![sem] = @ + 1]
              /\ status' = IF v_sem[sem] + 1 >= 0 THEN wakeup ELSE status
         ELSE UNCHANGED <<v_sem, status>>
    /\ Returns(p)
    /\ UNCHANGED <<semaphore_count, vet_assigned, handle, panic>>

-----------------------------------------------------------------------------
(* Processes *)

(* The child goes on with its own calls and a copy of the variable. *)
fork(p) ==
    /\ Calls(p, "fork")
    /\ status' = [status EXCEPT ![Argument(p)] = "running"]
    /\ handle' = [handle EXCEPT ![Argument(p)] = handle[p]]
    /\ Returns(p)
    /\ UNCHANGED <<table, panic>>

wait(p) ==
    /\ Calls(p, "wait")
    /\ status[Argument(p)] = "exited"
    /\ Returns(p)
    /\ UNCHANGED <<table, status, handle, panic>>

exit(p) ==
    /\ ~ panic /\ status[p] = "running" /\ at[p] > Len(Program[p])
    /\ status' = [status EXCEPT ![p] = "exited"]
    /\ UNCHANGED <<table, at, handle, panic>>

Step(p) == sem_alloc(p) \/ sem_alloc_bad(p) \/ sem_init(p) \/ sem_destroy(p) \/ sem_wait(p)
           \/ sem_wait_return(p) \/ sem_post(p) \/ fork(p) \/ wait(p) \/ exit(p)
Stopped == panic \/ \A p \in Procs : status[p] \in {"exited", "unborn"}

SemNext == (\E p \in Procs : Step(p)) \/ (Stopped /\ UNCHANGED semVars)

SemSpec == SemInit /\ [][SemNext]_semVars
FairSemSpec == SemSpec /\ \A p \in Procs : WF_semVars(Step(p))

-----------------------------------------------------------------------------
(* Properties *)

(* Calls of that name the processes have returned from *)
Returned(name) == {c \in ProgramCalls : c[2] < at[c[1]] /\ Name(c) = name}
InWait(s) == {p \in Procs : status[p] = s}
Initialised == \A c \in ProgramCalls : Name(c) = "sem_init" => c \in Returned("sem_init")

(* No process gets past a wait that no post has paid for, though a wakeup lets
   go of all at once; the counter is the posts less the waits begun; and who
   sleeps is owed nothing: at zero or above nobody does. *)
PassesPaid ==
    Initialised =>
        LET posts == Cardinality(Returned("sem_post"))
            passed == Cardinality(Returned("sem_wait")) + Cardinality(InWait("woken"))
        IN  /\ passed <= posts
            /\ v_sem[0] = posts - passed - Cardinality(InWait("sleeping"))
            /\ v_sem[0] >= 0 => InWait("sleeping") = {}
=============================================================================
