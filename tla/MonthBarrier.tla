---------------------------- MODULE MonthBarrier ----------------------------
(* EXAMS/2015-01-21/main.cpp: N threads, one per bank account, process M     *)
(* monthly statements each and meet at a barrier after every month.  The     *)
(* first to arrive leads: it waits for all the others, then lets them go.    *)
EXTENDS Integers, FiniteSets

CONSTANTS
    N, M,        \* accounts and months
    Movements,   \* Movements[i][m]: sum of the records of a statement file
    Blank,       \* content of the output file where nothing was written
    NoOne        \* owner of the free critical section

Accounts == 0 .. N - 1
Months == 0 .. M - 1
Positions == 0 .. M * (N + 1) - 1

ASSUME BarrierAssumption ==
    /\ N \in Nat \ {0} /\ M \in Nat
    /\ Movements \in [Accounts -> [Months -> Int]]
    /\ NoOne \notin Accounts /\ Blank \notin Int

VARIABLES
    finish_reading,         \* 1 when the month has its leader
    is_first,               \* owner of the critical section
    sem_finish_calculating, \* one semaphore per account
    sem_can_go_ahead,       \* one semaphore per account
    output_file,            \* its ints, by position
    loop, monthly_amount, im_first,  \* locals of th_work
    i,                      \* index of the leader's for loops
    pc

vars == <<finish_reading, is_first, sem_finish_calculating, sem_can_go_ahead,
          output_file, loop, monthly_amount, im_first, i, pc>>
locals == <<loop, monthly_amount, im_first, i>>

Init ==
    /\ finish_reading = 0 /\ is_first = NoOne
    /\ sem_finish_calculating = [t \in Accounts |-> 0]
    /\ sem_can_go_ahead = [t \in Accounts |-> 0]
    /\ output_file = [p \in Positions |-> Blank]
    /\ loop = [t \in Accounts |-> 0] /\ monthly_amount = [t \in Accounts |-> 0]
    /\ im_first = [t \in Accounts |-> 0] /\ i = [t \in Accounts |-> 0]
    /\ pc = [t \in Accounts |-> "read"]

Goto(t, from, to) ==
    /\ pc[t] = from
    /\ pc' = [pc EXCEPT ![t] = to]

(* ReleaseSemaphore: on failure, at the maximum N, the thread returns. *)
Release(t, sem, u, from, to) ==
    IF sem[u] < N THEN sem' = [sem EXCEPT ![u] = @ + 1] /\ Goto(t, from, to)
                  ELSE Goto(t, from, "failed") /\ UNCHANGED sem

Wait(sem, u) == sem[u] > 0 /\ sem' = [sem EXCEPT ![u] = @ - 1]

account_pos_unshifted(m, t) == m * (N + 1) + t
month_pos(m) == (N + 1) * m
account_pos(m, t) == m * (N + 1) + (t + 1)

-----------------------------------------------------------------------------
(* The records of a statement add to the amount, which the months share *)
GetBalance(t) ==
    /\ loop[t] < M
    /\ Goto(t, "read", IF t = 0 THEN "month" ELSE "account")
    /\ monthly_amount' = [monthly_amount EXCEPT ![t] = @ + Movements[t][loop[t]]]
    /\ UNCHANGED <<finish_reading, is_first, sem_finish_calculating, sem_can_go_ahead,
                   output_file, loop, im_first, i>>

(* Account 0 also writes the number of the month *)
WriteMonth(t) ==
    /\ Goto(t, "month", "account")
    /\ output_file' = [output_file EXCEPT ![month_pos(loop[t])] = loop[t]]
    /\ UNCHANGED <<finish_reading, is_first, sem_finish_calculating, sem_can_go_ahead, locals>>

WriteAccount(t) ==
    /\ Goto(t, "account", "enter")
    /\ output_file' = [output_file EXCEPT ![account_pos(loop[t], t)] = monthly_amount[t]]
    /\ UNCHANGED <<finish_reading, is_first, sem_finish_calculating, sem_can_go_ahead, locals>>

-----------------------------------------------------------------------------
(* The barrier *)

Enter(t) ==
    /\ is_first = NoOne /\ is_first' = t
    /\ Goto(t, "enter", "elect")
    /\ UNCHANGED <<finish_reading, sem_finish_calculating, sem_can_go_ahead, output_file, locals>>

ElectUnset(t) ==
    /\ Goto(t, "elect", "leave")
    /\ im_first' = [im_first EXCEPT ![t] = IF finish_reading = 0 THEN 1 ELSE 0]
    /\ UNCHANGED <<finish_reading, is_first, sem_finish_calculating, sem_can_go_ahead, output_file,
                   loop, monthly_amount, i>>
Elect(t) ==
    /\ Goto(t, "elect", "leave")
    /\ finish_reading' = 1
    /\ im_first' = [im_first EXCEPT ![t] = IF finish_reading = 0 THEN 1 ELSE 0]
    /\ UNCHANGED <<is_first, sem_finish_calculating, sem_can_go_ahead, output_file,
                   loop, monthly_amount, i>>

Leave(t) ==
    /\ is_first' = NoOne
    /\ Goto(t, "leave", IF im_first[t] = 1 THEN "collect" ELSE "finish")
    /\ i' = [i EXCEPT ![t] = 0]
    /\ UNCHANGED <<finish_reading, sem_finish_calculating, sem_can_go_ahead, output_file,
                   loop, monthly_amount, im_first>>

(* The leader waits for every other account in turn *)
Collect(t) ==
    /\ i[t] < N
    /\ Goto(t, "collect", "collect")
    /\ IF i[t] = t THEN UNCHANGED sem_finish_calculating ELSE Wait(sem_finish_calculating, i[t])
    /\ i' = [i EXCEPT ![t] = @ + 1]
    /\ UNCHANGED <<finish_reading, is_first, sem_can_go_ahead, output_file,
                   loop, monthly_amount, im_first>>

ResetElection(t) ==
    /\ i[t] = N
    /\ Goto(t, "collect", "wake")
    /\ finish_reading' = 0
    /\ i' = [i EXCEPT ![t] = 0]
    /\ UNCHANGED <<is_first, sem_finish_calculating, sem_can_go_ahead, output_file,
                   loop, monthly_amount, im_first>>

WakeAll(t) ==
    /\ i[t] < N
    /\ Release(t, sem_can_go_ahead, i[t], "wake", "wake")
    /\ i' = [i EXCEPT ![t] = @ + 1]
    /\ UNCHANGED <<finish_reading, is_first, sem_finish_calculating, output_file,
                   loop, monthly_amount, im_first>>
WakeOthers(t) ==
    /\ i[t] < N
    /\ IF i[t] = t THEN Goto(t, "wake", "wake") /\ UNCHANGED sem_can_go_ahead
                   ELSE Release(t, sem_can_go_ahead, i[t], "wake", "wake")
    /\ i' = [i EXCEPT ![t] = @ + 1]
    /\ UNCHANGED <<finish_reading, is_first, sem_finish_calculating, output_file,
                   loop, monthly_amount, im_first>>

Finish(t) ==
    /\ Release(t, sem_finish_calculating, t, "finish", "await")
    /\ UNCHANGED <<finish_reading, is_first, sem_can_go_ahead, output_file, locals>>

(* "loop += 1; im_first = 0" ends the month for the leader and the others *)
NextMonth(t) ==
    /\ loop' = [loop EXCEPT ![t] = @ + 1]
    /\ im_first' = [im_first EXCEPT ![t] = 0]
    /\ UNCHANGED <<finish_reading, is_first, sem_finish_calculating, output_file, monthly_amount, i>>

Await(t) ==
    /\ Goto(t, "await", "read")
    /\ Wait(sem_can_go_ahead, t)
    /\ NextMonth(t)

AllWoken(t) ==
    /\ i[t] = N
    /\ Goto(t, "wake", "read")
    /\ UNCHANGED sem_can_go_ahead
    /\ NextMonth(t)

-----------------------------------------------------------------------------
th_work(t) ==
    \/ GetBalance(t) \/ WriteMonth(t) \/ WriteAccount(t)
    \/ Enter(t) \/ Elect(t) \/ Leave(t)
    \/ Collect(t) \/ ResetElection(t) \/ WakeOthers(t) \/ AllWoken(t)
    \/ Finish(t) \/ Await(t)

Done == \A t \in Accounts : pc[t] = "read" /\ loop[t] = M

(* main returns when all threads have *)
Next == (\E t \in Accounts : th_work(t)) \/ (Done /\ UNCHANGED vars)

Spec == Init /\ [][Next]_vars

(* Each thread is scheduled; a semaphore posted for one thread only is its.  *)
FairSpec == Spec /\ \A t \in Accounts : WF_vars(th_work(t))

-----------------------------------------------------------------------------
(* Properties *)

(* No semaphore exceeds 1, though its maximum is N, and no release fails. *)
TypeOK ==
    /\ finish_reading \in {0, 1}
    /\ is_first \in Accounts \cup {NoOne}
    /\ sem_finish_calculating \in [Accounts -> 0 .. 1]
    /\ sem_can_go_ahead \in [Accounts -> 0 .. 1]
    /\ output_file \in [Positions -> Int \cup {Blank}]
    /\ loop \in [Accounts -> 0 .. M]
    /\ monthly_amount \in [Accounts -> Int]
    /\ im_first \in [Accounts -> {0, 1}]
    /\ i \in [Accounts -> 0 .. N]
    /\ pc \in [Accounts -> {"read", "month", "account", "enter", "elect", "leave", "collect",
                            "wake", "finish", "await"}]

(* Two leaders can exist at once (one still waking the others, one elected for
   the next month) but never two of the same month. *)
OneLeaderAMonth ==
    /\ TypeOK
    /\ \A t, u \in Accounts :
          im_first[t] = 1 /\ im_first[u] = 1 /\ loop[t] = loop[u] => t = u

(* What the row above says of account u, before month m *)
BalanceBefore(u, m) == IF m = 0 THEN 0 ELSE output_file[account_pos(m - 1, u)]

(* Whoever works on month m, the rows of all earlier months are complete: a row
   holds its month and, for every account, the balance of the row above plus the
   month's movements. *)
EarlierMonthsWritten ==
    \A t \in Accounts : \A m \in 0 .. loop[t] - 1 :
        /\ output_file[month_pos(m)] = m
        /\ \A u \in Accounts :
              output_file[account_pos(m, u)] = BalanceBefore(u, m) + Movements[u][m]

AtBarrier == {"enter", "elect", "leave", "collect", "wake", "finish", "await"}

Barrier == INSTANCE CyclicBarrier WITH
    Threads <- Accounts, Rounds <- M,
    arrived <- [t \in Accounts |-> IF pc[t] \in AtBarrier THEN loop[t] + 1 ELSE loop[t]],
    passed <- loop

(* The election and the 2 N semaphores are a barrier. *)
BarrierSpec == Barrier!Spec

(* Every thread processes every month: nobody is left at the barrier. *)
Termination == <>Done
=============================================================================
