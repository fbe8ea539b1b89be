-------------------------- MODULE Semaphores_proofs --------------------------
(* Semaphores that let others go on, for any number of threads.  The barrier   *)
(* of EXAMS/2015-01-21/main.cpp is one, and the rows of its output file are     *)
(* complete; no wait on the semaphore of LAB05/semaphore.c is passed unpaid;    *)
(* lines of letters are whole in LAB02/E02.c and E03.c, and in LAB01/E2.c a     *)
(* client gets the answer to its own value.                                     *)
EXTENDS MonthBarrier, Xv6Semaphore, LetterRounds, SharedVariable,
        FiniteSetTheorems, SequenceTheorems, TLAPS

(* The month barrier *)

(* A leader collects until all the others have finished the month, then wakes them. *)
Collecting(t) == im_first[t] = 1 /\ pc[t] \in {"leave", "collect"}
Waking(t) == pc[t] = "wake"

(* The month a thread may work on: one that was woken has done with its loop. *)
Month(t) == IF sem_can_go_ahead[t] = 1 THEN loop[t] + 1 ELSE loop[t]

(* A thread that the leader of month k has collected and not woken.           *)
Waits(t, k) ==
    /\ pc[t] = "await" /\ loop[t] = k
    /\ sem_finish_calculating[t] = 0 /\ sem_can_go_ahead[t] = 0

Places ==
    \A t \in Accounts :
        /\ im_first[t] = 1 => pc[t] \in {"leave", "collect", "wake"}
        /\ pc[t] \in {"collect", "wake"} => im_first[t] = 1
        /\ pc[t] # "read" => loop[t] < M
        /\ pc[t] = "month" => t = 0
        /\ sem_finish_calculating[t] = 1 => pc[t] = "await" /\ sem_can_go_ahead[t] = 0
        /\ sem_can_go_ahead[t] = 1 => pc[t] = "await"

(* One leader collects, while finish_reading tells the others that there is one. *)
OneCollects ==
    \A t \in Accounts : Collecting(t) =>
        /\ finish_reading = 1
        /\ \A u \in Accounts : Collecting(u) => u = t
        /\ pc[t] = "collect" =>
              \A u \in Accounts \ {t} : u < i[t] => Waits(u, loop[t])

(* While a leader wakes the others, those it has woken are in the next month and
   the rest wait. *)
OneWakes ==
    \A t \in Accounts : Waking(t) =>
        \A u \in Accounts \ {t} :
            IF u < i[t] THEN ~ Waking(u) /\ Month(u) = loop[t] + 1
                        ELSE Waits(u, loop[t])

(* Between two barriers all work on the same month.                           *)
SameMonth ==
    (\A t \in Accounts : ~ Waking(t)) => \A t, u \in Accounts : Month(t) = Month(u)

Rendezvous == TypeOK /\ Places /\ OneCollects /\ OneWakes /\ SameMonth

(* The months whose amount a thread has written, and whose number account 0 has. *)
Written(t) == IF pc[t] \in AtBarrier THEN loop[t] + 1 ELSE loop[t]
Numbered == IF pc[0] = "account" THEN loop[0] + 1 ELSE Written(0)

RowsWritten ==
    /\ \A m \in 0 .. Numbered - 1 : output_file[month_pos(m)] = m
    /\ \A t \in Accounts : \A m \in 0 .. Written(t) - 1 :
          output_file[account_pos(m, t)] = BalanceBefore(t, m) + Movements[t][m]

(* monthly_amount is the balance of the last row, or of the one at hand.       *)
AmountsRun ==
    \A t \in Accounts :
        monthly_amount[t] = IF pc[t] \in {"month", "account"}
                              THEN BalanceBefore(t, loop[t]) + Movements[t][loop[t]]
                              ELSE BalanceBefore(t, Written(t))

IInv == Rendezvous /\ RowsWritten /\ AmountsRun

-----------------------------------------------------------------------------
(* The types, in the form the steps below use.                                *)
LEMMA Types ==
    ASSUME TypeOK
    PROVE  /\ N \in Nat \ {0} /\ M \in Nat /\ Accounts \subseteq Nat
           /\ finish_reading \in {0, 1}
           /\ sem_finish_calculating \in [Accounts -> {0, 1}]
           /\ sem_can_go_ahead \in [Accounts -> {0, 1}]
           /\ im_first \in [Accounts -> {0, 1}]
           /\ loop \in [Accounts -> Nat] /\ \A t \in Accounts : loop[t] <= M
           /\ i \in [Accounts -> Nat] /\ \A t \in Accounts : i[t] <= N
           /\ pc = [t \in Accounts |-> pc[t]]
<1>1. N \in Nat \ {0} /\ M \in Nat /\ Accounts \subseteq Nat
  BY BarrierAssumption DEF Accounts
<1>2. 0 .. 1 = {0, 1}
  OBVIOUS
<1> QED BY <1>1, <1>2 DEF TypeOK

(* Who else a thread touches: nobody but the account at its index.            *)
LEMMA Others ==
    ASSUME TypeOK, NEW t \in Accounts, th_work(t)
    PROVE  \A u \in Accounts \ {t} :
              /\ pc'[u] = pc[u] /\ loop'[u] = loop[u] /\ im_first'[u] = im_first[u]
              /\ i'[u] = i[u] /\ monthly_amount'[u] = monthly_amount[u]
<1>1. /\ pc = [u \in Accounts |-> pc[u]] /\ loop = [u \in Accounts |-> loop[u]]
      /\ im_first = [u \in Accounts |-> im_first[u]] /\ i = [u \in Accounts |-> i[u]]
      /\ monthly_amount = [u \in Accounts |-> monthly_amount[u]]
  BY DEF TypeOK
<1> USE DEF Goto, Release
<1>2. CASE GetBalance(t) \/ WriteMonth(t) \/ WriteAccount(t)
  BY <1>1, <1>2 DEF GetBalance, WriteMonth, WriteAccount, locals
<1>3. CASE Enter(t) \/ Elect(t) \/ Leave(t)
  BY <1>1, <1>3 DEF Enter, Elect, Leave, locals
<1>4. CASE Collect(t) \/ ResetElection(t)
  BY <1>1, <1>4 DEF Collect, ResetElection
<1>5. CASE WakeOthers(t) \/ AllWoken(t)
  BY <1>1, <1>5 DEF WakeOthers, AllWoken, NextMonth
<1>6. CASE Finish(t) \/ Await(t)
  BY <1>1, <1>6 DEF Finish, Await, NextMonth, locals
<1> QED BY <1>2, <1>3, <1>4, <1>5, <1>6 DEF th_work

(* A thread at its own work has nothing to do with the barrier.               *)
LEMMA WorkStep ==
    ASSUME Rendezvous, NEW t \in Accounts,
           GetBalance(t) \/ WriteMonth(t) \/ WriteAccount(t) \/ Enter(t)
    PROVE  Places' /\ OneCollects' /\ OneWakes' /\ SameMonth'
<1> USE Types DEF Rendezvous
<1>1. /\ TypeOK /\ Places /\ OneCollects /\ OneWakes /\ SameMonth
  OBVIOUS
<1>2. \A u \in Accounts \ {t} : /\ pc'[u] = pc[u] /\ loop'[u] = loop[u]
                                /\ im_first'[u] = im_first[u] /\ i'[u] = i[u]
  BY Others DEF th_work
<1>3. /\ pc[t] \in {"read", "month", "account", "enter"}
      /\ pc'[t] \in {"month", "account", "enter", "elect"}
      /\ pc'[t] = "month" => t = 0
      /\ loop[t] < M
      /\ finish_reading' = finish_reading /\ sem_finish_calculating' = sem_finish_calculating
      /\ sem_can_go_ahead' = sem_can_go_ahead /\ loop' = loop /\ im_first' = im_first /\ i' = i
  BY <1>1 DEF GetBalance, WriteMonth, WriteAccount, Enter, Goto, locals, Places
<1>4. \A u \in Accounts : /\ Collecting(u)' <=> Collecting(u)
                          /\ Waking(u)' <=> Waking(u)
                          /\ Month(u)' = Month(u)
                          /\ \A k : Waits(u, k)' <=> Waits(u, k)
                          /\ pc'[u] = "collect" <=> pc[u] = "collect"
  BY <1>2, <1>3 DEF Collecting, Waking, Month, Waits
<1>5. Places'
  BY <1>1, <1>2, <1>3 DEF Places
<1>6. OneCollects'
  BY <1>1, <1>3, <1>4 DEF OneCollects
<1>7. OneWakes'
  BY <1>1, <1>3, <1>4 DEF OneWakes
<1>8. SameMonth'
  BY <1>1, <1>4 DEF SameMonth
<1> QED BY <1>5, <1>6, <1>7, <1>8

(* The first to find finish_reading unset is the leader.                      *)
LEMMA ElectStep ==
    ASSUME Rendezvous, NEW t \in Accounts, Elect(t)
    PROVE  Places' /\ OneCollects' /\ OneWakes' /\ SameMonth'
<1> USE Types DEF Rendezvous
<1>1. /\ TypeOK /\ Places /\ OneCollects /\ OneWakes /\ SameMonth
  OBVIOUS
<1>2. \A u \in Accounts \ {t} : /\ pc'[u] = pc[u] /\ loop'[u] = loop[u]
                                /\ im_first'[u] = im_first[u] /\ i'[u] = i[u]
  BY Others DEF th_work
<1>3. /\ pc[t] = "elect" /\ pc'[t] = "leave" /\ finish_reading' = 1
      /\ im_first'[t] = (IF finish_reading = 0 THEN 1 ELSE 0)
      /\ sem_finish_calculating' = sem_finish_calculating
      /\ sem_can_go_ahead' = sem_can_go_ahead /\ loop' = loop /\ i' = i
  BY DEF Elect, Goto
<1>4. \A u \in Accounts : /\ u # t => (Collecting(u)' <=> Collecting(u))
                          /\ Waking(u)' <=> Waking(u)
                          /\ Month(u)' = Month(u)
                          /\ \A k : Waits(u, k)' <=> Waits(u, k)
                          /\ pc'[u] = "collect" <=> pc[u] = "collect"
  BY <1>2, <1>3 DEF Collecting, Waking, Month, Waits
<1>5. Places'
  BY <1>1, <1>2, <1>3 DEF Places
<1>6. OneCollects'
  <2>1. Collecting(t)' => finish_reading = 0
    BY <1>3 DEF Collecting
  <2>2. \A u \in Accounts : Collecting(u) => finish_reading = 1
    BY <1>1 DEF OneCollects
  <2>3. ~ Collecting(t)
    BY <1>3 DEF Collecting
  <2> QED BY <2>1, <2>2, <2>3, <1>1, <1>3, <1>4 DEF OneCollects
<1>7. OneWakes'
  BY <1>1, <1>3, <1>4 DEF OneWakes
<1>8. SameMonth'
  BY <1>1, <1>4 DEF SameMonth
<1> QED BY <1>5, <1>6, <1>7, <1>8

(* The leader starts to collect from account 0.                               *)
LEMMA LeaveStep ==
    ASSUME Rendezvous, NEW t \in Accounts, Leave(t)
    PROVE  Places' /\ OneCollects' /\ OneWakes' /\ SameMonth'
<1> USE Types DEF Rendezvous
<1>1. /\ TypeOK /\ Places /\ OneCollects /\ OneWakes /\ SameMonth
  OBVIOUS
<1>2. \A u \in Accounts \ {t} : /\ pc'[u] = pc[u] /\ loop'[u] = loop[u]
                                /\ im_first'[u] = im_first[u] /\ i'[u] = i[u]
  BY Others DEF th_work
<1>3. /\ pc[t] = "leave" /\ pc'[t] = (IF im_first[t] = 1 THEN "collect" ELSE "finish")
      /\ i'[t] = 0 /\ finish_reading' = finish_reading /\ im_first' = im_first
      /\ sem_finish_calculating' = sem_finish_calculating
      /\ sem_can_go_ahead' = sem_can_go_ahead /\ loop' = loop
  BY DEF Leave, Goto
<1>4. \A u \in Accounts : /\ Collecting(u)' <=> Collecting(u)
                          /\ Waking(u)' <=> Waking(u)
                          /\ Month(u)' = Month(u)
                          /\ \A k : Waits(u, k)' <=> Waits(u, k)
                          /\ u # t => (pc'[u] = "collect" <=> pc[u] = "collect") /\ i'[u] = i[u]
  BY <1>2, <1>3 DEF Collecting, Waking, Month, Waits
<1>5. Places'
  BY <1>1, <1>2, <1>3 DEF Places
<1>6. OneCollects'
  <2>1. \A u \in Accounts : ~ (u < i'[t])
    BY <1>3
  <2> QED BY <2>1, <1>1, <1>3, <1>4 DEF OneCollects
<1>7. OneWakes'
  <2>1. ~ Waking(t)
    BY <1>3 DEF Waking
  <2> QED BY <2>1, <1>1, <1>3, <1>4 DEF OneWakes
<1>8. SameMonth'
  BY <1>1, <1>4 DEF SameMonth
<1> QED BY <1>5, <1>6, <1>7, <1>8

(* Whom the leader collects is in its month and waits.                        *)
LEMMA CollectStep ==
    ASSUME Rendezvous, NEW t \in Accounts, Collect(t)
    PROVE  Places' /\ OneCollects' /\ OneWakes' /\ SameMonth'
<1> USE Types DEF Rendezvous
<1>1. /\ TypeOK /\ Places /\ OneCollects /\ OneWakes /\ SameMonth
  OBVIOUS
<1>2. \A u \in Accounts \ {t} : /\ pc'[u] = pc[u] /\ loop'[u] = loop[u]
                                /\ im_first'[u] = im_first[u] /\ i'[u] = i[u]
  BY Others DEF th_work
<1>3. /\ pc[t] = "collect" /\ pc'[t] = "collect" /\ i[t] < N /\ i'[t] = i[t] + 1
      /\ finish_reading' = finish_reading /\ im_first' = im_first
      /\ sem_can_go_ahead' = sem_can_go_ahead /\ loop' = loop
      /\ \A u \in Accounts \ {i[t]} : sem_finish_calculating'[u] = sem_finish_calculating[u]
      /\ i[t] = t => sem_finish_calculating' = sem_finish_calculating
      /\ i[t] # t => /\ sem_finish_calculating[i[t]] = 1
                     /\ sem_finish_calculating'[i[t]] = 0
  BY DEF Collect, Goto, Wait, Accounts
<1>4. PICK j \in Accounts : j = i[t]
  BY <1>3 DEF Accounts
<1>5. \A u \in Accounts : /\ Collecting(u)' <=> Collecting(u)
                          /\ Waking(u)' <=> Waking(u)
                          /\ Month(u)' = Month(u)
                          /\ \A k : Waits(u, k) => Waits(u, k)'
                          /\ pc'[u] = pc[u]
  BY <1>2, <1>3, <1>4 DEF Collecting, Waking, Month, Waits
<1>6. Places'
  BY <1>1, <1>2, <1>3, <1>4 DEF Places
<1>7. OneCollects'
  <2>1. Collecting(t) /\ im_first[t] = 1
    BY <1>1, <1>3 DEF Places, Collecting
  <2>2. j # t => Waits(j, loop[t])'
    <3> SUFFICES ASSUME j # t
                 PROVE  Waits(j, loop[t])'
      OBVIOUS
    <3>1. pc[j] = "await" /\ sem_can_go_ahead[j] = 0 /\ sem_can_go_ahead[t] = 0
      BY <1>1, <1>3, <1>4 DEF Places
    <3>2. Month(j) = loop[j] /\ Month(t) = loop[t]
      BY <3>1 DEF Month
    <3>3. Month(j) = Month(t)
      <4>1. CASE \A u \in Accounts : ~ Waking(u)
        BY <4>1, <1>1, <1>4 DEF SameMonth
      <4>2. CASE \E u \in Accounts : Waking(u)
        <5>1. PICK w \in Accounts : Waking(w)
          BY <4>2
        <5>2. w # t /\ w # j
          BY <5>1, <3>1, <1>3 DEF Waking
        <5>3. ~ Waits(j, loop[w]) /\ ~ Waits(t, loop[w])
          BY <1>3, <1>4 DEF Waits
        <5> QED BY <5>1, <5>2, <5>3, <1>1, <1>4 DEF OneWakes
      <4> QED BY <4>1, <4>2
    <3> QED BY <3>1, <3>2, <3>3, <1>2, <1>3, <1>4 DEF Waits
  <2>3. \A u \in Accounts \ {t} : u < i'[t] => u < i[t] \/ (u = j /\ j # t)
    BY <1>3, <1>4
  <2>4. \A u \in Accounts \ {t} : u < i'[t] => Waits(u, loop[t])'
    BY <2>1, <2>2, <2>3, <1>1, <1>3, <1>5 DEF OneCollects
  <2>5. \A u \in Accounts : Collecting(u)' => u = t
    BY <2>1, <1>1, <1>5 DEF OneCollects
  <2> QED BY <2>4, <2>5, <2>1, <1>1, <1>3, <1>5 DEF OneCollects
<1>8. OneWakes'
  <2>1. ~ Waking(t)
    BY <1>3 DEF Waking
  <2> QED BY <2>1, <1>1, <1>2, <1>3, <1>5 DEF OneWakes
<1>9. SameMonth'
  BY <1>1, <1>5 DEF SameMonth
<1> QED BY <1>6, <1>7, <1>8, <1>9

(* All the others wait when the leader starts to wake them.                   *)
LEMMA ResetStep ==
    ASSUME Rendezvous, NEW t \in Accounts, ResetElection(t)
    PROVE  Places' /\ OneCollects' /\ OneWakes' /\ SameMonth'
<1> USE Types DEF Rendezvous
<1>1. /\ TypeOK /\ Places /\ OneCollects /\ OneWakes /\ SameMonth
  OBVIOUS
<1>2. \A u \in Accounts \ {t} : /\ pc'[u] = pc[u] /\ loop'[u] = loop[u]
                                /\ im_first'[u] = im_first[u] /\ i'[u] = i[u]
  BY Others DEF th_work
<1>3. /\ pc[t] = "collect" /\ pc'[t] = "wake" /\ i[t] = N /\ i'[t] = 0
      /\ im_first' = im_first /\ sem_finish_calculating' = sem_finish_calculating
      /\ sem_can_go_ahead' = sem_can_go_ahead /\ loop' = loop
  BY DEF ResetElection, Goto
<1>4. Collecting(t) /\ im_first[t] = 1
  BY <1>1, <1>3 DEF Places, Collecting
<1>5. \A u \in Accounts \ {t} : u < i[t] /\ Waits(u, loop[t])
  BY <1>1, <1>3, <1>4 DEF OneCollects, Accounts
<1>6. \A u \in Accounts \ {t} : Waits(u, loop[t])' /\ pc'[u] = "await"
  BY <1>2, <1>3, <1>5 DEF Waits
<1>7. Places'
  BY <1>1, <1>2, <1>3 DEF Places
<1>8. OneCollects'
  BY <1>3, <1>6 DEF OneCollects, Collecting
<1>9. OneWakes'
  BY <1>3, <1>6 DEF OneWakes, Waking
<1>10. SameMonth'
  BY <1>3 DEF SameMonth, Waking
<1> QED BY <1>7, <1>8, <1>9, <1>10

(* Whom the leader wakes goes on to the next month.                           *)
LEMMA WakeStep ==
    ASSUME Rendezvous, NEW t \in Accounts, WakeOthers(t)
    PROVE  Places' /\ OneCollects' /\ OneWakes' /\ SameMonth'
<1> USE Types DEF Rendezvous
<1>1. /\ TypeOK /\ Places /\ OneCollects /\ OneWakes /\ SameMonth
  OBVIOUS
<1>2. \A u \in Accounts \ {t} : /\ pc'[u] = pc[u] /\ loop'[u] = loop[u]
                                /\ im_first'[u] = im_first[u] /\ i'[u] = i[u]
  BY Others DEF th_work
<1>3. Waking(t) /\ i[t] < N /\ pc[t] = "wake"
  BY DEF WakeOthers, Release, Goto, Waking
<1>j. PICK j \in Accounts : j = i[t]
  BY <1>3 DEF Accounts
<1>4. j # t => Waits(j, loop[t])
  BY <1>1, <1>3, <1>j DEF OneWakes
<1>5. j # t => sem_can_go_ahead[j] < N
  BY <1>4 DEF Waits
<1>6. /\ pc'[t] = "wake" /\ i'[t] = i[t] + 1
      /\ finish_reading' = finish_reading /\ im_first' = im_first
      /\ sem_finish_calculating' = sem_finish_calculating /\ loop' = loop
      /\ \A u \in Accounts : u # j \/ u = t => sem_can_go_ahead'[u] = sem_can_go_ahead[u]
      /\ j # t => sem_can_go_ahead'[j] = 1
  BY <1>3, <1>j, <1>4, <1>5 DEF WakeOthers, Release, Goto, Waits
<1>7. \A u \in Accounts : /\ Collecting(u)' <=> Collecting(u)
                          /\ Waking(u)' <=> Waking(u)
                          /\ u # j \/ u = t => /\ Month(u)' = Month(u)
                                              /\ \A k : Waits(u, k)' <=> Waits(u, k)
                          /\ pc'[u] = pc[u]
  BY <1>2, <1>3, <1>6 DEF Collecting, Waking, Month, Waits
<1>8. j # t => Month(j)' = loop[t] + 1 /\ ~ Waking(j)'
  BY <1>2, <1>3, <1>4, <1>6 DEF Month, Waits, Waking
<1>9. Places'
  BY <1>1, <1>2, <1>3, <1>4, <1>6 DEF Places, Waits
<1>10. \A u \in Accounts : Waking(u) => u = t
  BY <1>1, <1>3 DEF OneWakes, Waits, Waking
<1>11. OneCollects'
  <2>1. ASSUME NEW c \in Accounts, Collecting(c), pc[c] = "collect",
               NEW u \in Accounts \ {c}, u < i[c]
        PROVE  u # j \/ u = t
    <3> SUFFICES ASSUME u = j, u # t
                 PROVE  FALSE
      OBVIOUS
    <3>1. loop[u] = loop[t] /\ loop[u] = loop[c]
      BY <1>4, <2>1, <1>1 DEF OneCollects, Waits
    <3>2. sem_can_go_ahead[c] = 0
      BY <2>1, <1>1 DEF Places
    <3>3. c # t /\ ~ Waits(c, loop[t])
      BY <2>1, <1>3 DEF Waits
    <3>4. Month(c) = loop[t] + 1
      BY <3>3, <1>1, <1>3 DEF OneWakes
    <3> QED BY <3>1, <3>2, <3>4 DEF Month
  <2> QED BY <2>1, <1>1, <1>2, <1>3, <1>6, <1>7 DEF OneCollects, Waking
<1>12. OneWakes'
  <2>1. \A u \in Accounts \ {t} : u < i'[t] <=> u < i[t] \/ u = j
    BY <1>6, <1>j
  <2>2. \A u \in Accounts \ {t} : IF u < i'[t] THEN ~ Waking(u)' /\ Month(u)' = loop[t] + 1
                                               ELSE Waits(u, loop[t])'
    BY <2>1, <1>1, <1>3, <1>6, <1>7, <1>8, <1>j DEF OneWakes
  <2> QED BY <2>2, <1>6, <1>7, <1>10 DEF OneWakes
<1>13. SameMonth'
  BY <1>3, <1>7 DEF SameMonth
<1> QED BY <1>9, <1>11, <1>12, <1>13

(* The leader follows those it has woken.                                     *)
LEMMA AllWokenStep ==
    ASSUME Rendezvous, NEW t \in Accounts, AllWoken(t)
    PROVE  Places' /\ OneCollects' /\ OneWakes' /\ SameMonth'
<1> USE Types DEF Rendezvous
<1>1. /\ TypeOK /\ Places /\ OneCollects /\ OneWakes /\ SameMonth
  OBVIOUS
<1>2. \A u \in Accounts \ {t} : /\ pc'[u] = pc[u] /\ loop'[u] = loop[u]
                                /\ im_first'[u] = im_first[u] /\ i'[u] = i[u]
  BY Others DEF th_work
<1>3. /\ pc[t] = "wake" /\ pc'[t] = "read" /\ i[t] = N /\ i' = i
      /\ im_first'[t] = 0 /\ finish_reading' = finish_reading
      /\ sem_finish_calculating' = sem_finish_calculating
      /\ sem_can_go_ahead' = sem_can_go_ahead /\ loop'[t] = loop[t] + 1
  BY DEF AllWoken, NextMonth, Goto
<1>4. \A u \in Accounts \ {t} : ~ Waking(u) /\ Month(u) = loop[t] + 1
  BY <1>1, <1>3 DEF OneWakes, Waking, Accounts
<1>5. sem_can_go_ahead[t] = 0 /\ sem_finish_calculating[t] = 0
  BY <1>1, <1>3 DEF Places
<1>6. \A u \in Accounts : Month(u)' = loop[t] + 1
  BY <1>2, <1>3, <1>4, <1>5 DEF Month
<1>7. \A u \in Accounts : ~ Waking(u)'
  BY <1>2, <1>3, <1>4 DEF Waking
<1>8. Places'
  BY <1>1, <1>2, <1>3, <1>5 DEF Places
<1>9. OneCollects'
  <2>1. \A u \in Accounts : /\ Collecting(u)' <=> Collecting(u)
                            /\ \A k : Waits(u, k)' <=> Waits(u, k)
    BY <1>2, <1>3 DEF Collecting, Waits
  <2>2. \A u \in Accounts : Collecting(u) => u # t
    BY <1>3 DEF Collecting
  <2> QED BY <2>1, <2>2, <1>1, <1>2, <1>3 DEF OneCollects
<1>10. OneWakes'
  BY <1>7 DEF OneWakes
<1>11. SameMonth'
  BY <1>6 DEF SameMonth
<1> QED BY <1>8, <1>9, <1>10, <1>11

(* A thread reports to the leader once.                                       *)
LEMMA FinishStep ==
    ASSUME Rendezvous, NEW t \in Accounts, Finish(t)
    PROVE  Places' /\ OneCollects' /\ OneWakes' /\ SameMonth'
<1> USE Types DEF Rendezvous
<1>1. /\ TypeOK /\ Places /\ OneCollects /\ OneWakes /\ SameMonth
  OBVIOUS
<1>2. \A u \in Accounts \ {t} : /\ pc'[u] = pc[u] /\ loop'[u] = loop[u]
                                /\ im_first'[u] = im_first[u] /\ i'[u] = i[u]
  BY Others DEF th_work
<1>3. pc[t] = "finish" /\ sem_finish_calculating[t] = 0 /\ sem_can_go_ahead[t] = 0
  BY <1>1 DEF Finish, Release, Goto, Places
<1>4. /\ pc'[t] = "await" /\ i' = i /\ im_first' = im_first /\ finish_reading' = finish_reading
      /\ sem_finish_calculating'[t] = 1
      /\ \A u \in Accounts \ {t} : sem_finish_calculating'[u] = sem_finish_calculating[u]
      /\ sem_can_go_ahead' = sem_can_go_ahead /\ loop' = loop
  BY <1>3 DEF Finish, Release, Goto, locals
<1>5. \A u \in Accounts : /\ Collecting(u)' <=> Collecting(u)
                          /\ Waking(u)' <=> Waking(u)
                          /\ Month(u)' = Month(u)
                          /\ \A k : Waits(u, k) => Waits(u, k)'
                          /\ pc'[u] = "collect" <=> pc[u] = "collect"
  BY <1>2, <1>3, <1>4 DEF Collecting, Waking, Month, Waits
<1>6. Places'
  BY <1>1, <1>2, <1>3, <1>4 DEF Places
<1>7. OneCollects'
  BY <1>1, <1>4, <1>5 DEF OneCollects
<1>8. OneWakes'
  BY <1>1, <1>4, <1>5 DEF OneWakes
<1>9. SameMonth'
  BY <1>1, <1>5 DEF SameMonth
<1> QED BY <1>6, <1>7, <1>8, <1>9

(* A woken thread goes on alone.                                              *)
LEMMA AwaitStep ==
    ASSUME Rendezvous, NEW t \in Accounts, Await(t)
    PROVE  Places' /\ OneCollects' /\ OneWakes' /\ SameMonth'
<1> USE Types DEF Rendezvous
<1>1. /\ TypeOK /\ Places /\ OneCollects /\ OneWakes /\ SameMonth
  OBVIOUS
<1>2. \A u \in Accounts \ {t} : /\ pc'[u] = pc[u] /\ loop'[u] = loop[u]
                                /\ im_first'[u] = im_first[u] /\ i'[u] = i[u]
  BY Others DEF th_work
<1>3. /\ pc[t] = "await" /\ pc'[t] = "read" /\ i' = i /\ finish_reading' = finish_reading
      /\ im_first'[t] = 0 /\ sem_can_go_ahead[t] = 1 /\ sem_can_go_ahead'[t] = 0
      /\ \A u \in Accounts \ {t} : sem_can_go_ahead'[u] = sem_can_go_ahead[u]
      /\ sem_finish_calculating' = sem_finish_calculating /\ loop'[t] = loop[t] + 1
  <2>1. sem_can_go_ahead[t] > 0
    BY DEF Await, Wait
  <2>2. sem_can_go_ahead[t] = 1
    BY <2>1
  <2> QED BY <2>2 DEF Await, Wait, NextMonth, Goto
<1>4. sem_finish_calculating[t] = 0 /\ \A k : ~ Waits(t, k)
  BY <1>1, <1>3 DEF Places, Waits
<1>5. \A u \in Accounts : /\ Collecting(u)' <=> Collecting(u)
                          /\ Waking(u)' <=> Waking(u)
                          /\ Month(u)' = Month(u)
                          /\ \A k : Waits(u, k) => Waits(u, k)'
                          /\ pc'[u] = "collect" <=> pc[u] = "collect"
                          /\ Collecting(u) \/ Waking(u) => loop'[u] = loop[u]
  BY <1>2, <1>3, <1>4 DEF Collecting, Waking, Month, Waits
<1>6. Places'
  BY <1>1, <1>2, <1>3, <1>4 DEF Places
<1>7. OneCollects'
  BY <1>1, <1>3, <1>5 DEF OneCollects
<1>8. OneWakes'
  BY <1>1, <1>3, <1>5 DEF OneWakes
<1>9. SameMonth'
  BY <1>1, <1>5 DEF SameMonth
<1> QED BY <1>6, <1>7, <1>8, <1>9

(* A thread's step keeps what the barrier needs.                              *)
LEMMA RendezvousStep ==
    ASSUME Rendezvous, NEW t \in Accounts, th_work(t)
    PROVE  Places' /\ OneCollects' /\ OneWakes' /\ SameMonth'
BY WorkStep, ElectStep, LeaveStep, CollectStep, ResetStep, WakeStep, AllWokenStep, FinishStep,
   AwaitStep DEF th_work

(* The variables keep their types: no semaphore is released twice.            *)
LEMMA TypeStep ==
    ASSUME Rendezvous, NEW t \in Accounts, th_work(t)
    PROVE  TypeOK'
<1> DEFINE Labels == {"read", "month", "account", "enter", "elect", "leave", "collect",
                      "wake", "finish", "await"}
<1>1. /\ TypeOK /\ N \in Nat \ {0} /\ M \in Nat /\ 0 .. 1 = {0, 1}
      /\ finish_reading \in {0, 1} /\ is_first \in Accounts \cup {NoOne}
      /\ sem_finish_calculating \in [Accounts -> {0, 1}]
      /\ sem_can_go_ahead \in [Accounts -> {0, 1}]
      /\ im_first \in [Accounts -> {0, 1}] /\ i \in [Accounts -> 0 .. N]
      /\ loop \in [Accounts -> 0 .. M] /\ pc \in [Accounts -> Labels]
  BY BarrierAssumption DEF Rendezvous, TypeOK
<1>2. output_file \in [Positions -> Int \cup {Blank}] /\ monthly_amount \in [Accounts -> Int]
  BY <1>1 DEF TypeOK
<1>3. /\ pc[t] # "read" => loop[t] < M
      /\ pc[t] = "finish" => sem_finish_calculating[t] = 0
      /\ pc[t] = "wake" => \A j \in Accounts \ {t} : j = i[t] => sem_can_go_ahead[j] = 0
  <2>1. Places /\ OneWakes /\ i \in [Accounts -> Nat] /\ Accounts \subseteq Nat
        /\ sem_finish_calculating \in [Accounts -> {0, 1}]
    BY Types DEF Rendezvous
  <2>2. \A j \in Accounts \ {t} : pc[t] = "wake" /\ j = i[t] => Waits(j, loop[t])
    BY <2>1 DEF OneWakes, Waking
  <2> QED BY <2>1, <2>2 DEF Places, Waits
<1>4. ASSUME NEW j \in Accounts, j = i[t], j # t, pc[t] = "wake"
      PROVE  sem_can_go_ahead[j] < N
  BY <1>1, <1>3, <1>4
<1>5. finish_reading' \in {0, 1} /\ is_first' \in Accounts \cup {NoOne}
  <2>1. finish_reading' \in {finish_reading, 0, 1} /\ is_first' \in {is_first, t, NoOne}
    BY DEF th_work, GetBalance, WriteMonth, WriteAccount, Enter, Elect, Leave, Collect,
           ResetElection, WakeOthers, AllWoken, Finish, Await, NextMonth
  <2> QED BY <2>1, <1>1
<1>6. output_file' \in [Positions -> Int \cup {Blank}] /\ monthly_amount' \in [Accounts -> Int]
  <2>1. CASE GetBalance(t)
    <3>1. Movements[t][loop[t]] \in Int
      BY <2>1, <1>1, BarrierAssumption DEF GetBalance, Months
    <3>2. monthly_amount[t] + Movements[t][loop[t]] \in Int
      BY <3>1, <1>2
    <3> QED BY <3>2, <2>1, <1>2 DEF GetBalance
  <2>2. CASE WriteMonth(t)
    <3>1. loop[t] \in Int
      BY <1>1
    <3> QED BY <3>1, <2>2, <1>2 DEF WriteMonth, locals
  <2>3. CASE WriteAccount(t)
    BY <2>3, <1>1, <1>2 DEF WriteAccount, locals
  <2>4. CASE output_file' = output_file /\ monthly_amount' = monthly_amount
    BY <2>4, <1>2
  <2>5. GetBalance(t) \/ WriteMonth(t) \/ WriteAccount(t)
          \/ (output_file' = output_file /\ monthly_amount' = monthly_amount)
    BY DEF th_work, Enter, Elect, Leave, Collect, ResetElection, WakeOthers, AllWoken, Finish,
           Await, NextMonth, locals
  <2> QED BY <2>1, <2>2, <2>3, <2>4, <2>5
<1>7. /\ sem_finish_calculating' \in [Accounts -> {0, 1}]
      /\ sem_can_go_ahead' \in [Accounts -> {0, 1}]
      /\ im_first' \in [Accounts -> {0, 1}] /\ i' \in [Accounts -> 0 .. N]
      /\ loop' \in [Accounts -> 0 .. M] /\ pc' \in [Accounts -> Labels]
  <2> USE DEF Goto
  <2>1. CASE GetBalance(t) \/ WriteMonth(t) \/ WriteAccount(t)
    BY <2>1, <1>1 DEF GetBalance, WriteMonth, WriteAccount, locals
  <2>2. CASE Enter(t) \/ Elect(t) \/ Leave(t)
    BY <2>2, <1>1 DEF Enter, Elect, Leave, locals
  <2>3. CASE Collect(t)
    <3>1. /\ im_first' = im_first /\ loop' = loop /\ sem_can_go_ahead' = sem_can_go_ahead
          /\ pc' \in [Accounts -> Labels] /\ i' \in [Accounts -> 0 .. N]
      BY <2>3, <1>1 DEF Collect
    <3>2. sem_finish_calculating' \in [Accounts -> {0, 1}]
      <4>1. i[t] \in Accounts
        BY <2>3, <1>1 DEF Collect, Accounts
      <4>2. sem_finish_calculating[i[t]] > 0 => sem_finish_calculating[i[t]] - 1 \in {0, 1}
        BY <4>1, <1>1
      <4> QED BY <4>1, <4>2, <2>3, <1>1 DEF Collect, Wait
    <3> QED BY <3>1, <3>2, <1>1
  <2>4. CASE ResetElection(t)
    BY <2>4, <1>1 DEF ResetElection
  <2>5. CASE WakeOthers(t)
    <3>1. PICK j \in Accounts : j = i[t]
      BY <2>5, <1>1 DEF WakeOthers, Accounts
    <3>2. /\ sem_can_go_ahead' \in {sem_can_go_ahead, [sem_can_go_ahead EXCEPT ![j] = 1]}
          /\ pc' = [pc EXCEPT ![t] = "wake"]
      BY <2>5, <3>1, <1>3, <1>4 DEF WakeOthers, Release
    <3>3. /\ sem_finish_calculating' = sem_finish_calculating /\ im_first' = im_first
          /\ i' \in [Accounts -> 0 .. N] /\ loop' = loop
      BY <2>5, <1>1 DEF WakeOthers
    <3> QED BY <3>2, <3>3, <1>1
  <2>6. CASE AllWoken(t)
    BY <2>6, <1>1, <1>3 DEF AllWoken, NextMonth
  <2>7. CASE Finish(t)
    <3>1. /\ sem_finish_calculating' = [sem_finish_calculating EXCEPT ![t] = 1]
          /\ pc' = [pc EXCEPT ![t] = "await"]
      BY <2>7, <1>1, <1>3 DEF Finish, Release
    <3> QED BY <3>1, <2>7, <1>1 DEF Finish, locals
  <2>8. CASE Await(t)
    <3>1. sem_can_go_ahead[t] - 1 \in {0, 1}
      BY <2>8, <1>1 DEF Await, Wait
    <3> QED BY <3>1, <2>8, <1>1, <1>3 DEF Await, Wait, NextMonth
  <2> QED BY <2>1, <2>2, <2>3, <2>4, <2>5, <2>6, <2>7, <2>8 DEF th_work
<1> QED BY <1>1, <1>5, <1>6, <1>7 DEF TypeOK

(* Whoever is let into a month finds everybody arrived at the end of the last. *)
LEMMA AllArrived ==
    ASSUME Rendezvous, NEW t \in Accounts, NEW u \in Accounts
    PROVE  /\ Month(t) <= Written(u) /\ loop[t] <= Month(t)
           /\ Waking(t) => loop[t] + 1 <= Written(u)
<1>1. /\ TypeOK /\ Places /\ OneWakes /\ SameMonth
      /\ loop \in [Accounts -> Nat] /\ sem_can_go_ahead \in [Accounts -> {0, 1}]
  BY Types DEF Rendezvous
<1>2. \A x \in Accounts : Month(x) \in Nat /\ Written(x) \in Nat
  BY <1>1 DEF Month, Written
<1>3. \A x \in Accounts : loop[x] <= Month(x) /\ Month(x) <= Written(x)
  BY <1>1 DEF Places, Month, Written, AtBarrier
<1>4. ASSUME NEW w \in Accounts, Waking(w), NEW x \in Accounts
      PROVE  loop[w] + 1 <= Written(x) /\ Month(x) <= loop[w] + 1
  <2>1. CASE x = w
    BY <2>1, <1>1, <1>4 DEF Waking, Written, AtBarrier, Month
  <2>2. CASE x # w /\ x < i[w]
    BY <2>2, <1>1, <1>2, <1>3, <1>4 DEF OneWakes
  <2>3. CASE x # w /\ ~ (x < i[w])
    <3>1. Waits(x, loop[w])
      BY <2>3, <1>1, <1>4 DEF OneWakes
    <3> QED BY <3>1, <1>1 DEF Waits, Month, Written, AtBarrier
  <2> QED BY <2>1, <2>2, <2>3
<1>5. Month(t) <= Written(u)
  <2>1. CASE \E w \in Accounts : Waking(w)
    <3>1. PICK w \in Accounts : Waking(w)
      BY <2>1
    <3>2. Month(t) <= loop[w] + 1 /\ loop[w] + 1 <= Written(u) /\ loop[w] + 1 \in Nat
      BY <3>1, <1>1, <1>4
    <3> QED BY <3>2, <1>2
  <2>2. CASE \A w \in Accounts : ~ Waking(w)
    BY <2>2, <1>1, <1>2, <1>3 DEF SameMonth
  <2> QED BY <2>1, <2>2
<1> QED BY <1>3, <1>4, <1>5

-----------------------------------------------------------------------------
(* Rows of N + 1 ints do not overlap.                                         *)
LEMMA RowsApart ==
    ASSUME NEW m \in Nat, NEW n \in Nat, NEW a \in 0 .. N, NEW b \in 0 .. N, m < n
    PROVE  m * (N + 1) + a < n * (N + 1) + b /\ m * (N + 1) + a < n * (N + 1)
<1>1. N \in Nat
  BY BarrierAssumption
<1>2. PICK d \in Nat : n = (m + 1) + d
  <2>1. n - (m + 1) \in Nat /\ n = (m + 1) + (n - (m + 1))
    OBVIOUS
  <2> QED BY <2>1
<1>3. n * (N + 1) = m * (N + 1) + (N + 1) + d * (N + 1)
  BY <1>1, <1>2
<1>4. d * (N + 1) \in Nat /\ m * (N + 1) \in Nat
  BY <1>1
<1>5. a < N + 1 /\ a \in Nat /\ b \in Nat
  BY <1>1
<1> QED BY <1>1, <1>3, <1>4, <1>5

(* Every cell of the months is in the file, and is nobody else's.             *)
LEMMA Cells ==
    ASSUME NEW m \in Nat, NEW t \in Accounts
    PROVE  /\ m < M => month_pos(m) \in Positions /\ account_pos(m, t) \in Positions
           /\ \A n \in Nat : month_pos(m) = month_pos(n) => m = n
           /\ \A n \in Nat, u \in Accounts :
                 /\ month_pos(n) # account_pos(m, t)
                 /\ account_pos(m, t) = account_pos(n, u) => m = n /\ t = u
<1>1. N \in Nat /\ M \in Nat /\ 0 \in 0 .. N /\ t + 1 \in 0 .. N /\ t + 1 > 0 /\ t \in Int
  BY BarrierAssumption DEF Accounts
<1>2. \A n \in Nat : month_pos(n) = n * (N + 1) + 0
  BY <1>1 DEF month_pos
<1>3. \A n \in Nat, u \in Accounts : u \in Int /\ u + 1 \in 0 .. N /\ u + 1 > 0
                                     /\ account_pos(n, u) = n * (N + 1) + (u + 1)
  BY <1>1 DEF account_pos, Accounts
<1>4. \A n \in Nat : n * (N + 1) \in Nat
  BY <1>1
<1>5. ASSUME m < M
      PROVE  month_pos(m) \in Positions /\ account_pos(m, t) \in Positions
  <2>1. /\ m * (N + 1) + 0 < M * (N + 1) /\ m * (N + 1) + (t + 1) < M * (N + 1)
    BY <1>1, <1>5, RowsApart
  <2>2. m * (N + 1) \in Nat /\ M * (N + 1) \in Nat
    BY <1>1, <1>4
  <2>3. \A p \in Nat : p < M * (N + 1) => p \in Positions
    BY <2>2 DEF Positions
  <2>4. /\ month_pos(m) = m * (N + 1) + 0 /\ account_pos(m, t) = m * (N + 1) + (t + 1)
        /\ t + 1 \in Nat
    BY <1>1, <1>2, <1>3
  <2>5. m * (N + 1) + 0 \in Nat /\ m * (N + 1) + (t + 1) \in Nat
    BY <2>2, <2>4
  <2> QED BY <2>1, <2>3, <2>4, <2>5
<1>6. ASSUME NEW n \in Nat, NEW a \in 0 .. N, NEW b \in 0 .. N,
             m * (N + 1) + a = n * (N + 1) + b
      PROVE  m = n /\ a = b
  <2>1. ~ (m < n) /\ ~ (n < m)
    BY <1>1, <1>4, <1>6, RowsApart
  <2>2. m = n
    BY <2>1
  <2> QED BY <2>2, <1>1, <1>4, <1>6
<1>7. \A n \in Nat : month_pos(m) = month_pos(n) => m = n
  BY <1>1, <1>2, <1>6
<1>8. ASSUME NEW n \in Nat, NEW u \in Accounts
      PROVE  /\ month_pos(n) # account_pos(m, t)
             /\ account_pos(m, t) = account_pos(n, u) => m = n /\ t = u
  <2>1. /\ month_pos(n) = n * (N + 1) + 0 /\ account_pos(m, t) = m * (N + 1) + (t + 1)
        /\ account_pos(n, u) = n * (N + 1) + (u + 1)
        /\ u + 1 \in 0 .. N /\ t + 1 > 0 /\ t \in Int /\ u \in Int
    BY <1>1, <1>2, <1>3
  <2>2. m * (N + 1) + (t + 1) = n * (N + 1) + 0 => t + 1 = 0
    BY <1>1, <1>6
  <2>3. m * (N + 1) + (t + 1) = n * (N + 1) + (u + 1) => m = n /\ t + 1 = u + 1
    BY <1>1, <2>1, <1>6
  <2>4. t + 1 # 0 /\ (t + 1 = u + 1 => t = u)
    BY <2>1
  <2> QED BY <2>1, <2>2, <2>3, <2>4
<1> QED BY <1>5, <1>7, <1>8

(* The rows written so far stay as they are, and each step adds its own cell.  *)
LEMMA RowsStep ==
    ASSUME IInv, NEW t \in Accounts, th_work(t)
    PROVE  RowsWritten' /\ AmountsRun'
<1>1. /\ RowsWritten /\ AmountsRun /\ Places /\ 0 \in Accounts /\ N \in Nat
      /\ loop \in [Accounts -> Nat] /\ pc = [u \in Accounts |-> pc[u]]
      /\ loop[t] \in Nat /\ loop[0] \in Nat
      /\ output_file = [p \in Positions |-> output_file[p]]
      /\ monthly_amount = [u \in Accounts |-> monthly_amount[u]]
  BY Types, BarrierAssumption DEF IInv, Rendezvous, TypeOK, Accounts
<1>2. \A u \in Accounts \ {t} : /\ pc'[u] = pc[u] /\ loop'[u] = loop[u]
                                /\ monthly_amount'[u] = monthly_amount[u]
  BY Others DEF IInv, Rendezvous
<1>3. \A u \in Accounts : Written(u) \in Nat /\ loop[u] <= Written(u)
  BY <1>1 DEF Written
<1>4. Numbered \in Nat
  BY <1>1 DEF Numbered, Written
<1>5. ASSUME output_file' = output_file, Numbered' = Numbered,
             \A u \in Accounts : Written(u)' = Written(u)
      PROVE  RowsWritten'
  BY <1>1, <1>5 DEF RowsWritten, BalanceBefore, month_pos, account_pos
<1>6. CASE GetBalance(t)
  <2>1. /\ pc[t] = "read" /\ pc'[t] = (IF t = 0 THEN "month" ELSE "account") /\ loop' = loop
        /\ monthly_amount'[t] = monthly_amount[t] + Movements[t][loop[t]]
        /\ output_file' = output_file
    BY <1>1, <1>6 DEF GetBalance, Goto
  <2>2. \A u \in Accounts : Written(u)' = Written(u)
    BY <2>1, <1>2 DEF Written, AtBarrier
  <2>3. Numbered' = Numbered
    BY <2>1, <2>2, <1>1, <1>2 DEF Numbered
  <2>4. \A u \in Accounts : \A k : BalanceBefore(u, k)' = BalanceBefore(u, k)
    BY <2>1 DEF BalanceBefore, account_pos
  <2>5. Written(t) = loop[t]
    BY <2>1 DEF Written, AtBarrier
  <2>6. AmountsRun'
    BY <2>1, <2>2, <2>4, <2>5, <1>1, <1>2 DEF AmountsRun
  <2> QED BY <2>1, <2>2, <2>3, <2>6, <1>5
<1>7. CASE WriteMonth(t)
  <2>1. /\ pc[t] = "month" /\ t = 0 /\ pc'[t] = "account" /\ loop' = loop /\ loop[t] < M
        /\ output_file' = [output_file EXCEPT ![month_pos(loop[t])] = loop[t]]
        /\ monthly_amount' = monthly_amount
    BY <1>1, <1>7 DEF WriteMonth, Goto, Places, locals
  <2>2. \A u \in Accounts : Written(u)' = Written(u)
    BY <2>1, <1>2 DEF Written, AtBarrier
  <2>3. Numbered' = loop[0] + 1 /\ Numbered = loop[0]
    BY <2>1, <1>1 DEF Numbered, Written, AtBarrier
  <2>4. \A n \in Nat, u \in Accounts :
           output_file'[account_pos(n, u)] = output_file[account_pos(n, u)]
    BY <2>1, <1>1, Cells
  <2>5. \A u \in Accounts, n \in Nat : BalanceBefore(u, n)' = BalanceBefore(u, n)
    <3> SUFFICES ASSUME NEW u \in Accounts, NEW n \in Nat
                 PROVE  BalanceBefore(u, n)' = BalanceBefore(u, n)
      OBVIOUS
    <3>1. n # 0 => n - 1 \in Nat
      OBVIOUS
    <3> QED BY <3>1, <2>4 DEF BalanceBefore, account_pos
  <2>6. \A m \in 0 .. Numbered' - 1 : output_file'[month_pos(m)] = m
    <3> SUFFICES ASSUME NEW m \in 0 .. Numbered' - 1
                 PROVE  output_file'[month_pos(m)] = m
      OBVIOUS
    <3>1. m \in Nat /\ (m = loop[0] \/ m \in 0 .. Numbered - 1)
      BY <2>3, <1>1
    <3>2. CASE m = loop[0]
      BY <3>2, <2>1, <1>1, Cells
    <3>3. CASE m # loop[0]
      BY <3>1, <3>3, <2>1, <1>1, Cells DEF RowsWritten
    <3> QED BY <3>2, <3>3
  <2>7. \A u \in Accounts : \A m \in 0 .. Written(u)' - 1 :
           output_file'[account_pos(m, u)] = BalanceBefore(u, m)' + Movements[u][m]
    <3> SUFFICES ASSUME NEW u \in Accounts, NEW m \in 0 .. Written(u) - 1
                 PROVE  output_file'[account_pos(m, u)] = BalanceBefore(u, m)' + Movements[u][m]
      BY <2>2
    <3>1. m \in Nat
      BY <1>3
    <3>2. output_file[account_pos(m, u)] = BalanceBefore(u, m) + Movements[u][m]
      BY <1>1 DEF RowsWritten
    <3> QED BY <3>1, <3>2, <2>4, <2>5
  <2>8. RowsWritten'
    BY <2>6, <2>7 DEF RowsWritten, month_pos, account_pos
  <2>9. AmountsRun'
    BY <2>1, <2>2, <2>5, <1>1, <1>2, <1>3 DEF AmountsRun
  <2> QED BY <2>8, <2>9
<1>8. CASE WriteAccount(t)
  <2>1. /\ pc[t] = "account" /\ pc'[t] = "enter" /\ loop' = loop /\ loop[t] < M
        /\ output_file' = [output_file EXCEPT ![account_pos(loop[t], t)] = monthly_amount[t]]
        /\ monthly_amount' = monthly_amount
    BY <1>1, <1>8 DEF WriteAccount, Goto, Places, locals
  <2>2. /\ \A u \in Accounts \ {t} : Written(u)' = Written(u)
        /\ Written(t) = loop[t] /\ Written(t)' = loop[t] + 1
    BY <2>1, <1>2 DEF Written, AtBarrier
  <2>3. Numbered' = Numbered
    BY <2>1, <2>2, <1>1, <1>2 DEF Numbered, Written, AtBarrier
  <2>4. /\ \A n \in Nat, u \in Accounts : n # loop[t] \/ u # t =>
              output_file'[account_pos(n, u)] = output_file[account_pos(n, u)]
        /\ \A n \in Nat : output_file'[month_pos(n)] = output_file[month_pos(n)]
        /\ output_file'[account_pos(loop[t], t)] = monthly_amount[t]
    BY <2>1, <1>1, Cells
  <2>5. \A u \in Accounts, n \in Nat : n # loop[t] + 1 \/ u # t =>
           BalanceBefore(u, n)' = BalanceBefore(u, n)
    <3> SUFFICES ASSUME NEW u \in Accounts, NEW n \in Nat, n # loop[t] + 1 \/ u # t
                 PROVE  BalanceBefore(u, n)' = BalanceBefore(u, n)
      OBVIOUS
    <3>1. n # 0 => n - 1 \in Nat /\ (n - 1 # loop[t] \/ u # t)
      BY <1>1
    <3> QED BY <3>1, <2>4 DEF BalanceBefore, account_pos
  <2>6. monthly_amount[t] = BalanceBefore(t, loop[t]) + Movements[t][loop[t]]
    BY <2>1, <1>1 DEF AmountsRun
  <2>7. BalanceBefore(t, loop[t] + 1)' = monthly_amount[t]
    <3>1. loop[t] + 1 # 0 /\ (loop[t] + 1) - 1 = loop[t]
      BY <1>1
    <3>2. account_pos((loop[t] + 1) - 1, t) = account_pos(loop[t], t)
      BY <3>1
    <3> QED BY <3>1, <3>2, <2>1, <2>4 DEF BalanceBefore, account_pos
  <2>8. \A m \in 0 .. Numbered' - 1 : output_file'[month_pos(m)] = m
    BY <2>3, <2>4, <1>1 DEF RowsWritten
  <2>9. ASSUME NEW u \in Accounts, NEW m \in 0 .. Written(u)' - 1
        PROVE  output_file'[account_pos(m, u)] = BalanceBefore(u, m)' + Movements[u][m]
    <3>1. CASE u = t /\ m = loop[t]
      BY <3>1, <2>4, <2>5, <2>6, <1>1
    <3>2. CASE u # t \/ m # loop[t]
      <4>1. m \in Nat /\ m \in 0 .. Written(u) - 1 /\ (m # loop[t] + 1 \/ u # t)
        BY <3>2, <2>2, <1>1, <1>3
      <4> QED BY <4>1, <3>2, <2>4, <2>5, <1>1 DEF RowsWritten
    <3> QED BY <3>1, <3>2
  <2>10. RowsWritten'
    BY <2>8, <2>9 DEF RowsWritten, month_pos, account_pos
  <2>11. ASSUME NEW u \in Accounts
         PROVE  monthly_amount'[u] = IF pc'[u] \in {"month", "account"}
                                       THEN BalanceBefore(u, loop[u])' + Movements[u][loop[u]]
                                       ELSE BalanceBefore(u, Written(u))'
    <3>1. CASE u = t
      BY <3>1, <2>1, <2>2, <2>7 DEF BalanceBefore, account_pos
    <3>2. CASE u # t
      <4>1. /\ BalanceBefore(u, loop[u])' = BalanceBefore(u, loop[u])
            /\ BalanceBefore(u, Written(u))' = BalanceBefore(u, Written(u))
        BY <3>2, <2>1, <2>2, <2>5, <1>1, <1>3 DEF BalanceBefore, account_pos
      <4> QED BY <4>1, <3>2, <2>1, <1>1, <1>2 DEF AmountsRun
    <3> QED BY <3>1, <3>2
  <2>12. AmountsRun'
    BY <2>1, <2>11 DEF AmountsRun
  <2> QED BY <2>10, <2>12
<1>9. CASE output_file' = output_file /\ monthly_amount' = monthly_amount
           /\ pc[t] \notin {"month", "account"} /\ pc'[t] \notin {"month", "account"}
           /\ Written(t)' = Written(t)
  <2>1. \A u \in Accounts : Written(u)' = Written(u)
    BY <1>2, <1>9 DEF Written
  <2>2. Numbered' = Numbered
    BY <2>1, <1>1, <1>2, <1>9 DEF Numbered
  <2>3. \A u \in Accounts : \A k : BalanceBefore(u, k)' = BalanceBefore(u, k)
    BY <1>9 DEF BalanceBefore, account_pos
  <2>4. AmountsRun'
    BY <2>1, <2>3, <1>1, <1>2, <1>9 DEF AmountsRun
  <2> QED BY <2>1, <2>2, <2>4, <1>5, <1>9
<1>10. ASSUME \/ Enter(t) \/ Elect(t) \/ Leave(t) \/ Collect(t) \/ ResetElection(t)
              \/ WakeOthers(t) \/ AllWoken(t) \/ Finish(t) \/ Await(t)
       PROVE  /\ output_file' = output_file /\ monthly_amount' = monthly_amount
              /\ pc[t] \notin {"month", "account"} /\ pc'[t] \notin {"month", "account"}
              /\ Written(t)' = Written(t)
  <2>1. /\ output_file' = output_file /\ monthly_amount' = monthly_amount
    BY <1>10 DEF Enter, Elect, Leave, Collect, ResetElection, WakeOthers, AllWoken, Finish,
                 Await, NextMonth, locals
  <2>2. /\ pc[t] \in AtBarrier
        /\ \/ pc'[t] \in AtBarrier /\ loop' = loop
           \/ pc'[t] = "read" /\ loop'[t] = loop[t] + 1
    <3>1. TypeOK'
      BY TypeStep DEF IInv
    <3>2. pc'[t] # "failed"
      BY <3>1 DEF TypeOK
    <3>3. CASE Enter(t) \/ Elect(t) \/ Leave(t)
      BY <3>3, <1>1 DEF Enter, Elect, Leave, locals, Goto, AtBarrier
    <3>4. CASE Collect(t) \/ ResetElection(t)
      BY <3>4, <1>1 DEF Collect, ResetElection, Goto, AtBarrier
    <3>5. CASE WakeOthers(t) \/ Finish(t)
      BY <3>2, <3>5, <1>1 DEF WakeOthers, Finish, locals, Goto, Release, AtBarrier
    <3>6. CASE AllWoken(t) \/ Await(t)
      BY <3>6, <1>1 DEF AllWoken, Await, NextMonth, Goto, AtBarrier
    <3> QED BY <3>3, <3>4, <3>5, <3>6, <1>10
  <2> QED BY <2>1, <2>2 DEF Written, AtBarrier
<1> QED BY <1>6, <1>7, <1>8, <1>9, <1>10 DEF th_work

-----------------------------------------------------------------------------
(* The threads start in month 0 with an empty file.                           *)
LEMMA Initially ==
    ASSUME Init
    PROVE  IInv
<1>1. /\ N \in Nat \ {0} /\ M \in Nat /\ 0 \in Accounts /\ NoOne \notin Accounts
  BY BarrierAssumption DEF Accounts
<1>2. /\ \A t \in Accounts : /\ pc[t] = "read" /\ loop[t] = 0 /\ im_first[t] = 0 /\ i[t] = 0
                             /\ monthly_amount[t] = 0
                             /\ sem_finish_calculating[t] = 0 /\ sem_can_go_ahead[t] = 0
  BY DEF Init
<1>3. TypeOK
  <2>1. /\ sem_finish_calculating \in [Accounts -> 0 .. 1]
        /\ sem_can_go_ahead \in [Accounts -> 0 .. 1]
        /\ loop \in [Accounts -> 0 .. M] /\ i \in [Accounts -> 0 .. N]
    BY <1>1 DEF Init
  <2>2. /\ output_file \in [Positions -> Int \cup {Blank}]
        /\ monthly_amount \in [Accounts -> Int] /\ im_first \in [Accounts -> {0, 1}]
        /\ pc \in [Accounts -> {"read", "month", "account", "enter", "elect", "leave", "collect",
                                "wake", "finish", "await"}]
    BY DEF Init
  <2> QED BY <2>1, <2>2 DEF Init, TypeOK
<1>4. Places /\ OneCollects /\ OneWakes /\ SameMonth
  BY <1>2 DEF Places, OneCollects, OneWakes, SameMonth, Collecting, Waking, Month
<1>5. \A t \in Accounts : Written(t) = 0 /\ Numbered = 0
  BY <1>1, <1>2 DEF Written, AtBarrier, Numbered
<1>6. RowsWritten /\ AmountsRun
  BY <1>1, <1>2, <1>5 DEF RowsWritten, AmountsRun, BalanceBefore
<1> QED BY <1>3, <1>4, <1>6 DEF IInv, Rendezvous

(* The inductive invariant holds in every reachable state. *)
THEOREM Inductive == Spec => []IInv
<1>1. IInv /\ [Next]_vars => IInv'
  <2> SUFFICES ASSUME IInv, [Next]_vars
               PROVE  IInv'
    OBVIOUS
  <2>1. CASE \E t \in Accounts : th_work(t)
    BY <2>1, RendezvousStep, TypeStep, RowsStep DEF IInv, Rendezvous
  <2>2. CASE UNCHANGED vars
    BY <2>2 DEF vars, IInv, Rendezvous, TypeOK, Places, OneCollects, OneWakes, SameMonth,
                Collecting, Waking, Waits, Month, RowsWritten, AmountsRun, Written, Numbered,
                BalanceBefore, month_pos, account_pos
  <2> QED BY <2>1, <2>2 DEF Next
<1> QED BY <1>1, Initially, PTL DEF Spec

(* The election of EXAMS/2015-01-21/main.cpp never makes two leaders for one
   month, though one may still wake the others when the next is elected. *)
THEOREM LeadersUnique == Spec => []OneLeaderAMonth
<1>1. IInv => OneLeaderAMonth
  <2> SUFFICES ASSUME IInv, NEW t \in Accounts, NEW u \in Accounts,
                      im_first[t] = 1, im_first[u] = 1, loop[t] = loop[u], t # u
               PROVE  FALSE
    BY DEF OneLeaderAMonth, IInv, Rendezvous
  <2>1. /\ TypeOK /\ Places /\ OneCollects /\ OneWakes
        /\ loop \in [Accounts -> Nat] /\ sem_can_go_ahead \in [Accounts -> {0, 1}]
        /\ t \in Nat /\ u \in Nat
    BY Types DEF IInv, Rendezvous
  <2>2. (Collecting(t) \/ Waking(t)) /\ (Collecting(u) \/ Waking(u))
    BY <2>1 DEF Places, Collecting, Waking
  <2>3. ~ (Collecting(t) /\ Collecting(u))
    BY <2>1 DEF OneCollects
  <2>4. ASSUME NEW w \in {t, u}, NEW c \in {t, u}, w # c, Waking(w)
        PROVE  FALSE
    <3>1. sem_can_go_ahead[c] = 0 /\ ~ Waits(c, loop[w])
      <4>1. im_first[c] = 1 /\ c \in Accounts
        BY <2>4
      <4>2. pc[c] # "await"
        BY <4>1, <2>1 DEF Places
      <4> QED BY <4>1, <4>2, <2>1 DEF Places, Waits
    <3>2. Month(c) = loop[w] + 1
      BY <3>1, <2>1, <2>4 DEF OneWakes
    <3> QED BY <3>1, <3>2, <2>1 DEF Month
  <2> QED BY <2>2, <2>3, <2>4
<1> QED BY <1>1, Inductive, PTL

(* In the output file of EXAMS/2015-01-21/main.cpp the rows before the month
   anybody works on are complete and hold the running balances. *)
THEOREM RowsComplete == Spec => []EarlierMonthsWritten
<1>1. IInv => EarlierMonthsWritten
  <2> SUFFICES ASSUME IInv, NEW t \in Accounts, NEW m \in 0 .. loop[t] - 1
               PROVE  /\ output_file[month_pos(m)] = m
                      /\ \A u \in Accounts :
                            output_file[account_pos(m, u)] = BalanceBefore(u, m) + Movements[u][m]
    BY DEF EarlierMonthsWritten
  <2>1. /\ Rendezvous /\ RowsWritten /\ TypeOK /\ 0 \in Accounts
        /\ loop \in [Accounts -> Nat]
    BY Types, BarrierAssumption DEF IInv, Rendezvous, Accounts
  <2>2. \A u \in Accounts : Written(u) \in Nat /\ Month(u) \in Nat
    BY <2>1 DEF Written, Month
  <2>3. \A u \in Accounts : m \in 0 .. Written(u) - 1
    BY <2>1, <2>2, AllArrived
  <2>4. m \in 0 .. Numbered - 1
    BY <2>1, <2>2, <2>3 DEF Numbered, Written, AtBarrier
  <2> QED BY <2>1, <2>3, <2>4 DEF RowsWritten
<1> QED BY <1>1, Inductive, PTL

-----------------------------------------------------------------------------
(* A thread arrives when it has written its amount, and passes when its loop
   variable moves on, which it does only when all have arrived. *)
LEMMA StepPasses ==
    ASSUME IInv, IInv', [Next]_vars
    PROVE  [Barrier!Next]_(Barrier!barrierVars)
<1> DEFINE arrived == [t \in Accounts |-> IF pc[t] \in AtBarrier THEN loop[t] + 1 ELSE loop[t]]
<1>1. /\ Rendezvous /\ TypeOK /\ pc = [t \in Accounts |-> pc[t]] /\ loop \in [Accounts -> Nat]
      /\ \A t \in Accounts : loop[t] <= M
  BY Types DEF IInv, Rendezvous
<1>2. \A t \in Accounts : arrived[t] = Written(t) /\ Written(t) \in Nat
  BY <1>1 DEF Written
<1>3. ASSUME NEW t \in Accounts, th_work(t), loop' = loop,
             pc'[t] \in AtBarrier <=> pc[t] \in AtBarrier
      PROVE  arrived' = arrived /\ loop' = loop
  <2>1. \A u \in Accounts \ {t} : pc'[u] = pc[u]
    BY <1>1, <1>3, Others
  <2> QED BY <2>1, <1>3
<1>4. ASSUME NEW t \in Accounts, WriteAccount(t)
      PROVE  Barrier!Arrive(t)
  <2>1. /\ pc[t] = "account" /\ pc' = [pc EXCEPT ![t] = "enter"] /\ loop' = loop /\ loop[t] < M
    BY <1>1, <1>4 DEF WriteAccount, Goto, locals, Rendezvous, Places
  <2>2. arrived[t] = loop[t] /\ arrived' = [arrived EXCEPT ![t] = @ + 1]
    BY <2>1, <1>1 DEF AtBarrier
  <2> QED BY <2>1, <2>2 DEF Barrier!Arrive
<1>5. ASSUME NEW t \in Accounts, AllWoken(t) \/ Await(t)
      PROVE  Barrier!Pass(t)
  <2>1. /\ pc[t] \in {"wake", "await"} /\ pc' = [pc EXCEPT ![t] = "read"]
        /\ loop' = [loop EXCEPT ![t] = @ + 1]
        /\ pc[t] = "await" => sem_can_go_ahead[t] > 0
    BY <1>1, <1>5 DEF AllWoken, Await, NextMonth, Goto, Wait
  <2>2. arrived[t] = loop[t] + 1 /\ loop[t] < arrived[t]
    BY <2>1, <1>1 DEF AtBarrier
  <2>3. arrived' = arrived
    BY <2>1, <1>1 DEF AtBarrier
  <2>4. \A u \in Accounts : arrived[u] >= loop[t] + 1
    <3>1. CASE pc[t] = "wake"
      BY <3>1, <1>1, <1>2, AllArrived DEF Waking
    <3>2. CASE pc[t] = "await"
      <4>1. sem_can_go_ahead[t] = 1
        BY <3>2, <2>1, <1>1, Types
      <4>2. Month(t) = loop[t] + 1
        BY <4>1 DEF Month
      <4> QED BY <4>2, <1>1, <1>2, AllArrived
    <3> QED BY <3>1, <3>2, <2>1
  <2>5. loop' = [loop EXCEPT ![t] = arrived[t]]
    BY <2>1, <2>2, <1>1
  <2> QED BY <2>2, <2>3, <2>4, <2>5 DEF Barrier!Pass
<1>6. ASSUME NEW t \in Accounts, th_work(t), ~ WriteAccount(t), ~ AllWoken(t), ~ Await(t)
      PROVE  arrived' = arrived /\ loop' = loop
  <2>1. pc' \in [Accounts -> {"read", "month", "account", "enter", "elect", "leave", "collect",
                              "wake", "finish", "await"}]
    BY DEF IInv, Rendezvous, TypeOK
  <2>2. pc'[t] # "failed"
    BY <2>1
  <2>3. loop' = loop /\ (pc'[t] \in AtBarrier <=> pc[t] \in AtBarrier)
    BY <2>2, <1>1, <1>6 DEF th_work, GetBalance, WriteMonth, Enter, Elect, Leave, Collect,
       ResetElection, WakeOthers, Finish, Goto, Release, locals, AtBarrier
  <2> QED BY <2>3, <1>3, <1>6
<1>7. CASE UNCHANGED vars
  BY <1>7 DEF vars, Barrier!barrierVars
<1>8. CASE \E t \in Accounts : th_work(t)
  BY <1>4, <1>5, <1>6, <1>8 DEF Barrier!Next, Barrier!barrierVars
<1> QED BY <1>7, <1>8 DEF Next

(* The election and the 2 N semaphores of EXAMS/2015-01-21/main.cpp implement a
   barrier: nobody starts a month before everybody has written the last. *)
THEOREM ImplementsBarrier == Spec => BarrierSpec
<1>1. Init => Barrier!Init
  BY DEF Init, Barrier!Init, AtBarrier
<1> QED BY <1>1, StepPasses, Inductive, PTL DEF Spec, BarrierSpec, Barrier!Spec

-----------------------------------------------------------------------------
(* The semaphores of xv6 *)

(* No program has come to a call that needs the semaphore: First is not past its
   sem_init, and the others are not born.                                       *)
BeforeInit ==
    /\ status[First] = "running"
    /\ \A p \in Procs \ {First} : status[p] = "unborn"
    /\ v_sem[0] = 0

SemTyped ==
    /\ semaphore_count \in 0 .. MAXSEMAPHORE
    /\ vet_assigned \in [Semaphores -> {0, 1}]
    /\ v_sem \in [Semaphores -> Int]
    /\ status \in [Procs -> {"unborn", "running", "sleeping", "woken", "exited"}]
    /\ at \in [Procs -> Nat \ {0}]

(* The entry of semaphore 0 is not given out again. *)
KeptAssigned == vet_assigned[0] = 1 => semaphore_count > 0

(* A process is at its first call before it is born, and is born by a fork. *)
UnbornAtStart == \A p \in Procs : status[p] = "unborn" => at[p] = 1
Unforked ==
    \A c \in ProgramCalls :
        Name(c) = "fork" /\ c[2] >= at[c[1]] => status[Program[c[1]][c[2]][2]] = "unborn"

(* Who sleeps or is woken is in its call of sem_wait. *)
AtWait ==
    \A p \in Procs : status[p] \in {"sleeping", "woken"} =>
        at[p] \in DOMAIN Program[p] /\ Program[p][at[p]][1] = "sem_wait"

Counted ==
    IF Initialised THEN vet_assigned[0] = 1 /\ PassesPaid ELSE BeforeInit

SemIInv == SemTyped /\ KeptAssigned /\ UnbornAtStart /\ Unforked /\ AtWait /\ Counted

-----------------------------------------------------------------------------
(* The calls of the programs, and those returned from *)

LEMMA CallsFinite ==
    /\ IsFiniteSet(ProgramCalls)
    /\ \A c : c \in ProgramCalls <=> \E p \in Procs : \E k \in DOMAIN Program[p] : c = <<p, k>>
<1>1. \A c : c \in ProgramCalls <=> \E p \in Procs : \E k \in DOMAIN Program[p] : c = <<p, k>>
  BY DEF ProgramCalls
<1>2. \A p \in Procs : IsFiniteSet({p} \X DOMAIN Program[p])
  <2> TAKE p \in Procs
  <2>1. IsFiniteSet(DOMAIN Program[p])
    BY ProgramAssumption, FS_Interval
  <2> QED BY <2>1, FS_Singleton, FS_Product
<1> DEFINE All == {{p} \X DOMAIN Program[p] : p \in Procs}
           f == [p \in Procs |-> {p} \X DOMAIN Program[p]]
<1>3. IsFiniteSet(All)
  <2>1. f \in Surjection(Procs, All)
    BY DEF Surjection
  <2> HIDE DEF All, f
  <2> QED BY <2>1, ProgramAssumption, FS_Surjection
<1>4. \A T \in All : IsFiniteSet(T)
  BY <1>2
<1>5. ProgramCalls = UNION All
  BY DEF ProgramCalls
<1> HIDE DEF All
<1>6. IsFiniteSet(ProgramCalls)
  BY <1>3, <1>4, <1>5, FS_UNION
<1> QED BY <1>1, <1>6

LEMMA CallOf ==
    \A p \in Procs : \A k \in DOMAIN Program[p] :
        /\ <<p, k>> \in ProgramCalls /\ k \in Nat \ {0}
        /\ Name(<<p, k>>) = Program[p][k][1]
BY CallsFinite, ProgramAssumption DEF Name

LEMMA ReturnedFinite ==
    ASSUME NEW name
    PROVE  IsFiniteSet(Returned(name)) /\ Cardinality(Returned(name)) \in Nat
<1>1. Returned(name) \subseteq ProgramCalls
  BY DEF Returned
<1> QED BY <1>1, CallsFinite, FS_Subset, FS_CardinalityType

LEMMA InWaitFinite ==
    ASSUME NEW s
    PROVE  IsFiniteSet(InWait(s)) /\ Cardinality(InWait(s)) \in Nat
<1>1. InWait(s) \subseteq Procs
  BY DEF InWait
<1> QED BY <1>1, ProgramAssumption, FS_Subset, FS_CardinalityType

(* A call that returns is one more of its name, and none of another.          *)
LEMMA ReturnsOne ==
    ASSUME SemTyped, NEW p \in Procs, at[p] \in DOMAIN Program[p], Returns(p), NEW name
    PROVE  /\ Returned(name)' = IF Program[p][at[p]][1] = name
                                  THEN Returned(name) \cup {<<p, at[p]>>} ELSE Returned(name)
           /\ Cardinality(Returned(name))'
                 = Cardinality(Returned(name)) + IF Program[p][at[p]][1] = name THEN 1 ELSE 0
<1> DEFINE c == <<p, at[p]>>
<1>1. /\ c \in ProgramCalls /\ Name(c) = Program[p][at[p]][1]
      /\ at[p] \in Nat
  BY CallOf
<1>2. at' = [at EXCEPT ![p] = @ + 1] /\ at \in [Procs -> Nat \ {0}]
  BY DEF Returns, SemTyped
<1>3. c \notin Returned(name)
  BY <1>1 DEF Returned
<1>4. \A d \in ProgramCalls : d[2] < at'[d[1]] <=> d[2] < at[d[1]] \/ d = c
  <2> TAKE d \in ProgramCalls
  <2>0. PICK q \in Procs : \E k \in DOMAIN Program[q] : d = <<q, k>>
    BY CallsFinite
  <2>1. PICK k \in DOMAIN Program[q] : d = <<q, k>>
    BY <2>0
  <2>2. k \in Nat /\ at[q] \in Nat /\ d[1] = q /\ d[2] = k
    BY <2>1, <1>2, CallOf
  <2>3. CASE q = p
    BY <2>1, <2>2, <2>3, <1>2
  <2>4. CASE q # p
    BY <2>1, <2>2, <2>4, <1>2
  <2> QED BY <2>3, <2>4
<1>5. Returned(name)' = IF Program[p][at[p]][1] = name
                         THEN Returned(name) \cup {c} ELSE Returned(name)
  BY <1>1, <1>4 DEF Returned
<1>6. Cardinality(Returned(name) \cup {c}) = Cardinality(Returned(name)) + 1
  BY <1>3, ReturnedFinite, FS_AddElement
<1> QED BY <1>5, <1>6, ReturnedFinite

LEMMA ReturnedKept ==
    ASSUME UNCHANGED at, NEW name
    PROVE  Returned(name)' = Returned(name)
BY DEF Returned

(* The call of sem_init, and that all that needs it comes later                *)
LEMMA InitCall ==
    ASSUME SemTyped
    PROVE  \E k \in DOMAIN Program[First] :
              /\ \A p \in Procs : \A j \in DOMAIN Program[p] :
                    Program[p][j][1] = "sem_init" <=> p = First /\ j = k
              /\ \A j \in 1 .. k - 1 :
                    Program[First][j][1] \notin {"fork", "sem_wait", "sem_post"}
              /\ k \in Nat \ {0}
              /\ Initialised <=> k < at[First]
<1>1. PICK k \in DOMAIN Program[First] :
        /\ \A c \in ProgramCalls : Name(c) = "sem_init" <=> c = <<First, k>>
        /\ \A j \in 1 .. k - 1 : Program[First][j][1] \notin {"fork", "sem_wait", "sem_post"}
  BY ProgramAssumption DEF InitialisesFirst
<1>2. First \in Procs
  BY ProgramAssumption
<1>3. <<First, k>> \in ProgramCalls /\ Name(<<First, k>>) = "sem_init" /\ k \in Nat \ {0}
  BY <1>1, <1>2, CallOf
<1>4. Initialised <=> k < at[First]
  BY <1>1, <1>3 DEF Initialised, Returned
<1>5. \A p \in Procs : \A j \in DOMAIN Program[p] :
        Program[p][j][1] = "sem_init" <=> p = First /\ j = k
  <2> TAKE p \in Procs
  <2> TAKE j \in DOMAIN Program[p]
  <2>1. <<p, j>> \in ProgramCalls /\ Name(<<p, j>>) = Program[p][j][1]
    BY CallOf
  <2> QED BY <1>1, <2>1
<1> QED BY <1>1, <1>3, <1>4, <1>5

(* Before its sem_init First calls nothing that needs it, and after a call of
   another kind it has still not initialised.                                   *)
LEMMA NotYet ==
    ASSUME SemTyped, ~ Initialised, NEW p \in Procs, NEW name, Calls(p, name),
           BeforeInit
    PROVE  /\ p = First
           /\ name \notin {"fork", "sem_wait", "sem_post"}
           /\ Returns(p) => (Initialised' <=> name = "sem_init")
<1>1. PICK k \in DOMAIN Program[First] :
              /\ \A q \in Procs : \A j \in DOMAIN Program[q] :
                    Program[q][j][1] = "sem_init" <=> q = First /\ j = k
              /\ \A j \in 1 .. k - 1 :
                    Program[First][j][1] \notin {"fork", "sem_wait", "sem_post"}
              /\ k \in Nat \ {0}
              /\ Initialised <=> k < at[First]
  BY InitCall
<1>2. p = First
  BY DEF Calls, BeforeInit
<1>3. First \in Procs /\ at[First] \in Nat \ {0} /\ at[First] \in DOMAIN Program[First]
  BY <1>2, ProgramAssumption DEF Calls, SemTyped
<1>4. at[First] <= k
  BY <1>1, <1>3
<1>5. name = "sem_init" <=> at[First] = k
  BY <1>1, <1>2, <1>3 DEF Calls
<1>6. name \notin {"fork", "sem_wait", "sem_post"}
  BY <1>1, <1>2, <1>3, <1>4, <1>5 DEF Calls
<1>7. ASSUME Returns(p) PROVE Initialised' <=> name = "sem_init"
  <2>1. <<First, k>> \in ProgramCalls /\ Name(<<First, k>>) = "sem_init"
    BY <1>1, <1>3, CallOf
  <2>2. \A c \in ProgramCalls : Name(c) = "sem_init" => c = <<First, k>>
    BY <1>1, CallsFinite, CallOf
  <2>3. Initialised' <=> k < at'[First]
    BY <2>1, <2>2 DEF Initialised, Returned
  <2>4. at'[First] = at[First] + 1
    BY <1>2, <1>3, <1>7 DEF Returns, SemTyped
  <2> QED BY <2>3, <2>4, <1>4, <1>5, <1>3, <1>1
<1> QED BY <1>2, <1>6, <1>7

-----------------------------------------------------------------------------
(* Steps.  PassesPaid, once the semaphore is initialised, as sums:            *)
Sums ==
    LET posts == Cardinality(Returned("sem_post"))
        waits == Cardinality(Returned("sem_wait"))
        woken == Cardinality(InWait("woken"))
        asleep == Cardinality(InWait("sleeping"))
    IN  /\ waits + woken <= posts
        /\ v_sem[0] = posts - waits - woken - asleep
        /\ v_sem[0] >= 0 => InWait("sleeping") = {}

LEMMA PaidIsSums == Initialised => (PassesPaid <=> Sums)
BY ReturnedFinite, InWaitFinite DEF PassesPaid, Sums

LEMMA PaidAfter == Initialised' => (PassesPaid' <=> Sums')
<1>1. /\ \A n : IsFiniteSet(Returned(n)') /\ Cardinality(Returned(n)') \in Nat
      /\ \A s : IsFiniteSet(InWait(s)') /\ Cardinality(InWait(s)') \in Nat
  <2>1. \A n : Returned(n)' \subseteq ProgramCalls
    BY DEF Returned
  <2>2. \A s : InWait(s)' \subseteq Procs
    BY DEF InWait
  <2> QED BY <2>1, <2>2, CallsFinite, ProgramAssumption, FS_Subset, FS_CardinalityType
<1> QED BY <1>1 DEF PassesPaid, Sums

LEMMA ZeroIsSemaphore == 0 \in Semaphores
BY ProgramAssumption DEF Semaphores

(* A process goes to another state: it is counted there, and no longer here.  *)
LEMMA MovesOne ==
    ASSUME SemTyped, NEW p \in Procs, NEW s, status' = [status EXCEPT ![p] = s],
           status[p] # s
    PROVE  /\ Cardinality(InWait(s))' = Cardinality(InWait(s)) + 1
           /\ \A u : status[p] = u => Cardinality(InWait(u))' = Cardinality(InWait(u)) - 1
           /\ \A u : s # u /\ status[p] # u => InWait(u)' = InWait(u)
<1>0. status \in [Procs -> {"unborn", "running", "sleeping", "woken", "exited"}]
  BY DEF SemTyped
<1>1. Cardinality(InWait(s))' = Cardinality(InWait(s)) + 1
  <2>1. p \notin InWait(s) /\ InWait(s)' = InWait(s) \cup {p}
    BY <1>0 DEF InWait
  <2> QED BY <2>1, InWaitFinite, FS_AddElement
<1>2. ASSUME NEW u, status[p] = u
      PROVE  Cardinality(InWait(u))' = Cardinality(InWait(u)) - 1
  <2>1. p \in InWait(u) /\ InWait(u)' = InWait(u) \ {p}
    BY <1>0, <1>2 DEF InWait
  <2> QED BY <2>1, InWaitFinite, FS_RemoveElement
<1>3. ASSUME NEW u, s # u, status[p] # u PROVE InWait(u)' = InWait(u)
  BY <1>0, <1>3 DEF InWait
<1> QED BY <1>1, <1>2, <1>3

(* A wakeup lets go of all that sleep.                                         *)
LEMMA WakesAll ==
    ASSUME SemTyped, status' = wakeup
    PROVE  /\ InWait("sleeping")' = {}
           /\ Cardinality(InWait("woken"))'
                 = Cardinality(InWait("woken")) + Cardinality(InWait("sleeping"))
           /\ status' \in [Procs -> {"unborn", "running", "sleeping", "woken", "exited"}]
<1>0. status \in [Procs -> {"unborn", "running", "sleeping", "woken", "exited"}]
  BY DEF SemTyped
<1>1. /\ InWait("woken")' = InWait("woken") \cup InWait("sleeping")
      /\ InWait("woken") \cap InWait("sleeping") = {}
      /\ InWait("sleeping")' = {}
      /\ status' \in [Procs -> {"unborn", "running", "sleeping", "woken", "exited"}]
  BY <1>0 DEF InWait, wakeup
<1>2. Cardinality(InWait("woken") \cup InWait("sleeping"))
        = Cardinality(InWait("woken")) + Cardinality(InWait("sleeping"))
          - Cardinality(InWait("woken") \cap InWait("sleeping"))
  BY InWaitFinite, FS_Union
<1>3. Cardinality(InWait("woken") \cap InWait("sleeping")) = 0
  BY <1>1, FS_EmptySet
<1>4. /\ Cardinality(InWait("woken")) \in Nat
      /\ Cardinality(InWait("sleeping")) \in Nat
      /\ Cardinality(InWait("woken"))' = Cardinality(InWait("woken") \cup InWait("sleeping"))
  BY <1>1, InWaitFinite
<1>5. Cardinality(InWait("woken"))'
        = Cardinality(InWait("woken")) + Cardinality(InWait("sleeping"))
  BY <1>2, <1>3, <1>4
<1> QED BY <1>1, <1>5

LEMMA SemInitHolds == SemInit => SemIInv
<1> SUFFICES ASSUME SemInit PROVE SemIInv
  OBVIOUS
<1>1. SemTyped
  <2>1. MAXSEMAPHORE \in Nat
    BY ProgramAssumption
  <2>2. semaphore_count \in 0 .. MAXSEMAPHORE
    BY <2>1 DEF SemInit
  <2>3. /\ vet_assigned \in [Semaphores -> {0, 1}] /\ v_sem \in [Semaphores -> Int]
        /\ status \in [Procs -> {"unborn", "running", "sleeping", "woken", "exited"}]
        /\ at \in [Procs -> Nat \ {0}]
    BY DEF SemInit
  <2> QED BY <2>2, <2>3 DEF SemTyped
<1>2. KeptAssigned /\ UnbornAtStart /\ AtWait
  BY ZeroIsSemaphore DEF SemInit, KeptAssigned, UnbornAtStart, AtWait
<1>3. Unforked
  <2> SUFFICES ASSUME NEW c \in ProgramCalls, Name(c) = "fork"
               PROVE  status[Program[c[1]][c[2]][2]] = "unborn"
    BY DEF Unforked
  <2>1. Program[c[1]][c[2]][2] \in Procs \ {First}
    BY ProgramAssumption DEF ForksOnce
  <2> QED BY <2>1 DEF SemInit
<1>4. Counted
  <2>1. First \in Procs
    BY ProgramAssumption
  <2>2. ~ Initialised
    BY <1>1, <2>1, InitCall DEF SemInit
  <2>3. BeforeInit
    BY <2>1, ZeroIsSemaphore DEF SemInit, BeforeInit
  <2> QED BY <2>2, <2>3 DEF Counted
<1> QED BY <1>1, <1>2, <1>3, <1>4 DEF SemIInv

(* What a step of p leaves of the parts that are about births and waits, when it
   ends its call and changes no other state                                    *)
LEMMA ReturnHolds ==
    ASSUME SemTyped, UnbornAtStart, Unforked, AtWait, NEW p \in Procs,
           at[p] \in DOMAIN Program[p], status[p] # "unborn", Returns(p),
           status' \in [Procs -> {"unborn", "running", "sleeping", "woken", "exited"}],
           status'[p] = "running",
           \A q \in Procs \ {p} : status'[q] \in {"sleeping", "woken"}
                                      => status[q] \in {"sleeping", "woken"},
           \A q \in Procs : status[q] = "unborn" <=> status'[q] = "unborn"
    PROVE  /\ at' \in [Procs -> Nat \ {0}]
           /\ UnbornAtStart' /\ Unforked' /\ AtWait'
<1>1. at' = [at EXCEPT ![p] = @ + 1] /\ at \in [Procs -> Nat \ {0}]
  BY DEF Returns, SemTyped
<1>2. at' \in [Procs -> Nat \ {0}]
  BY <1>1
<1>3. UnbornAtStart'
  BY <1>1 DEF UnbornAtStart
<1>4. Unforked'
  <2> SUFFICES ASSUME NEW c \in ProgramCalls, Name(c) = "fork", c[2] >= at'[c[1]]
               PROVE  status'[Program[c[1]][c[2]][2]] = "unborn"
    BY DEF Unforked, Name
  <2>0. PICK q \in Procs : \E k \in DOMAIN Program[q] : c = <<q, k>>
    BY CallsFinite
  <2>1. PICK k \in DOMAIN Program[q] : c = <<q, k>>
    BY <2>0
  <2>2. k \in Nat /\ at[q] \in Nat /\ c[1] = q /\ c[2] = k
    BY <2>1, <1>1, CallOf
  <2>3. c[2] >= at[c[1]]
    BY <2>2, <1>1
  <2>4. Program[c[1]][c[2]][2] \in Procs
    BY ProgramAssumption DEF ForksOnce
  <2> QED BY <2>3, <2>4 DEF Unforked
<1>5. AtWait'
  BY <1>1 DEF AtWait
<1> QED BY <1>2, <1>3, <1>4, <1>5
(* A call of p that returns and touches neither the semaphores nor the states
   of processes, or that prepares the semaphore: what is counted stays.        *)
LEMMA OtherCall ==
    ASSUME SemIInv, NEW p \in Procs, NEW name, Calls(p, name), Returns(p),
           UNCHANGED <<v_sem, status>>,
           name \notin {"sem_init", "sem_wait", "sem_post"},
           vet_assigned[0] = 1 => vet_assigned'[0] = 1
    PROVE  Counted'
<1>1. SemTyped
  BY DEF SemIInv
<1>2. at[p] \in DOMAIN Program[p] /\ Program[p][at[p]][1] = name
  BY <1>1, ProgramAssumption DEF Calls, SemTyped
<1>3. \A n \in {"sem_init", "sem_wait", "sem_post"} : Returned(n)' = Returned(n)
  BY <1>1, <1>2, ReturnsOne
<1>4. \A s : InWait(s)' = InWait(s)
  BY DEF InWait
<1>5. Initialised' <=> Initialised
  BY <1>3 DEF Initialised, Name
<1>6. CASE Initialised
  BY <1>3, <1>4, <1>5, <1>6 DEF SemIInv, Counted, PassesPaid
<1>7. CASE ~ Initialised
  BY <1>5, <1>7 DEF SemIInv, Counted, BeforeInit
<1> QED BY <1>6, <1>7

(* Of the invariant, without what is counted: a call that returns and keeps the
   states of the processes and the table                                        *)
LEMMA OtherRest ==
    ASSUME SemIInv, NEW p \in Procs, NEW name, Calls(p, name), Returns(p),
           UNCHANGED status
    PROVE  /\ at' \in [Procs -> Nat \ {0}]
           /\ UnbornAtStart' /\ Unforked' /\ AtWait'
<1>1. SemTyped /\ UnbornAtStart /\ Unforked /\ AtWait
  BY DEF SemIInv
<1>2. at[p] \in DOMAIN Program[p] /\ status[p] = "running"
  BY <1>1, ProgramAssumption DEF Calls, SemTyped
<1>3. /\ status' \in [Procs -> {"unborn", "running", "sleeping", "woken", "exited"}]
      /\ status' = status
  BY <1>1 DEF SemTyped
<1> QED BY <1>1, <1>2, <1>3, ReturnHolds

(* While the semaphore is not initialised nobody has waited or posted.         *)
LEMMA NothingReturned ==
    ASSUME SemTyped, UnbornAtStart, BeforeInit, ~ Initialised
    PROVE  Returned("sem_wait") = {} /\ Returned("sem_post") = {}
<1>1. PICK k \in DOMAIN Program[First] :
              /\ \A j \in 1 .. k - 1 :
                    Program[First][j][1] \notin {"fork", "sem_wait", "sem_post"}
              /\ k \in Nat \ {0}
              /\ Initialised <=> k < at[First]
  BY InitCall
<1>2. First \in Procs /\ at[First] \in Nat /\ at[First] <= k
  BY <1>1, ProgramAssumption DEF SemTyped
<1> SUFFICES ASSUME NEW c \in ProgramCalls, c[2] < at[c[1]],
                    Name(c) \in {"sem_wait", "sem_post"}
             PROVE  FALSE
  BY DEF Returned
<1>3. PICK q \in Procs : \E j \in DOMAIN Program[q] : c = <<q, j>>
  BY CallsFinite
<1>4. PICK j \in DOMAIN Program[q] : c = <<q, j>>
  BY <1>3
<1>5. j \in Nat \ {0} /\ c[1] = q /\ c[2] = j /\ Name(c) = Program[q][j][1]
  BY <1>4, CallOf
<1>6. q = First
  BY <1>5 DEF BeforeInit, UnbornAtStart
<1> QED BY <1>1, <1>2, <1>5, <1>6

LEMMA AllocHolds ==
    ASSUME SemIInv, NEW p \in Procs, sem_alloc(p)
    PROVE  SemIInv'
<1>1. SemTyped /\ KeptAssigned
  BY DEF SemIInv
<1>2. Calls(p, "sem_alloc") /\ Returns(p) /\ UNCHANGED status
  BY DEF sem_alloc
<1>3. at' \in [Procs -> Nat \ {0}] /\ UnbornAtStart' /\ Unforked' /\ AtWait'
  BY <1>2, OtherRest
<1>4. MAXSEMAPHORE \in Nat \ {0} /\ semaphore_count \in Semaphores
  BY <1>1, ProgramAssumption DEF sem_alloc, SemTyped, Semaphores
<1>5. SemTyped' /\ KeptAssigned'
  BY <1>1, <1>2, <1>3, <1>4, ZeroIsSemaphore DEF sem_alloc, SemTyped, KeptAssigned
<1>6. v_sem' = [v_sem EXCEPT ![semaphore_count] = 0] /\ UNCHANGED status
      /\ vet_assigned' = [vet_assigned EXCEPT ![semaphore_count] = 1]
      /\ vet_assigned[semaphore_count] = 0
  BY DEF sem_alloc
<1>7. vet_assigned[0] = 1 => vet_assigned'[0] = 1
  BY <1>1, <1>4, <1>6, ZeroIsSemaphore DEF SemTyped
<1>8. at[p] \in DOMAIN Program[p] /\ Program[p][at[p]][1] = "sem_alloc"
  BY <1>1, <1>2, ProgramAssumption DEF Calls, SemTyped
<1>9. \A n \in {"sem_init", "sem_wait", "sem_post"} : Returned(n)' = Returned(n)
  BY <1>1, <1>2, <1>8, ReturnsOne
<1>10. \A s : InWait(s)' = InWait(s)
  BY <1>2 DEF InWait
<1>11. Initialised' <=> Initialised
  BY <1>9 DEF Initialised, Name
<1>12. CASE Initialised
  <2>1. vet_assigned[0] = 1 /\ PassesPaid
    BY <1>12 DEF SemIInv, Counted
  <2>2. v_sem'[0] = v_sem[0]
    BY <2>1, <1>1, <1>4, <1>6, ZeroIsSemaphore DEF SemTyped
  <2>3. PassesPaid' <=> PassesPaid
    BY <2>2, <1>9, <1>10, <1>11 DEF PassesPaid
  <2>4. vet_assigned'[0] = 1 /\ Initialised'
    BY <2>1, <1>7, <1>11, <1>12
  <2>5. Counted'
    BY <2>1, <2>3, <2>4 DEF Counted
  <2> QED BY <1>3, <1>5, <2>5 DEF SemIInv
<1>13. CASE ~ Initialised
  <2>1. BeforeInit
    BY <1>13 DEF SemIInv, Counted
  <2>2. v_sem'[0] = 0
    BY <2>1, <1>1, <1>4, <1>6, ZeroIsSemaphore DEF SemTyped, BeforeInit
  <2>3. BeforeInit'
    BY <2>1, <2>2, <1>2 DEF BeforeInit
  <2>4. Counted'
    BY <2>3, <1>11, <1>13 DEF Counted
  <2> QED BY <1>3, <1>5, <2>4 DEF SemIInv
<1> QED BY <1>12, <1>13

(* The calls that leave the semaphores and the states alone                    *)
LEMMA QuietHolds ==
    ASSUME SemIInv, NEW p \in Procs, NEW name, Calls(p, name), Returns(p),
           UNCHANGED <<table, status>>,
           name \notin {"sem_init", "sem_wait", "sem_post"}
    PROVE  SemIInv'
<1>1. UNCHANGED <<semaphore_count, vet_assigned, v_sem>>
  BY DEF table
<1>2. Counted'
  BY <1>1, OtherCall
<1>3. at' \in [Procs -> Nat \ {0}] /\ UnbornAtStart' /\ Unforked' /\ AtWait'
  BY OtherRest
<1> QED BY <1>1, <1>2, <1>3 DEF SemIInv, SemTyped, KeptAssigned

(* A step that stops the kernel leaves all that the invariant speaks of.       *)
LEMMA PanicHolds ==
    ASSUME SemIInv, UNCHANGED <<table, status, at>>
    PROVE  SemIInv'
<1>1. UNCHANGED <<semaphore_count, vet_assigned, v_sem, status, at>>
  BY DEF table
<1>2. /\ \A n : Returned(n)' = Returned(n)
      /\ \A s : InWait(s)' = InWait(s)
  BY <1>1 DEF Returned, InWait
<1>3. Counted'
  BY <1>1, <1>2 DEF SemIInv, Counted, Initialised, PassesPaid, BeforeInit, Name
<1> QED BY <1>1, <1>3 DEF SemIInv, SemTyped, KeptAssigned, UnbornAtStart, Unforked, AtWait, Name

LEMMA InitHolds ==
    ASSUME SemIInv, NEW p \in Procs, sem_init(p)
    PROVE  SemIInv'
<1>1. SemTyped
  BY DEF SemIInv
<1>2. Calls(p, "sem_init")
  BY DEF sem_init
<1>3. CASE vet_assigned[0] # 1
  <2>1. UNCHANGED <<table, status, at>>
    BY <1>3 DEF sem_init, argint, table
  <2> QED BY <2>1, PanicHolds
<1>4. CASE vet_assigned[0] = 1
  <2>1. /\ v_sem' = [v_sem EXCEPT ![0] = 0] /\ Returns(p)
        /\ UNCHANGED <<semaphore_count, vet_assigned, status>>
    BY <1>4 DEF sem_init, argint
  <2>2. at[p] \in DOMAIN Program[p] /\ Program[p][at[p]][1] = "sem_init"
    BY <1>1, <1>2, ProgramAssumption DEF Calls, SemTyped
  <2>3. ~ Initialised
    <3>1. PICK k \in DOMAIN Program[First] :
              /\ \A q \in Procs : \A j \in DOMAIN Program[q] :
                    Program[q][j][1] = "sem_init" <=> q = First /\ j = k
              /\ k \in Nat \ {0}
              /\ Initialised <=> k < at[First]
      BY <1>1, InitCall
    <3> QED BY <3>1, <2>2
  <2>4. BeforeInit
    BY <2>3 DEF SemIInv, Counted
  <2>5. Initialised'
    BY <1>1, <1>2, <2>1, <2>3, <2>4, NotYet
  <2>6. Returned("sem_wait") = {} /\ Returned("sem_post") = {}
    BY <1>1, <2>3, <2>4, NothingReturned DEF SemIInv
  <2>7. Returned("sem_wait")' = {} /\ Returned("sem_post")' = {}
    BY <1>1, <2>1, <2>2, <2>6, ReturnsOne
  <2>8. InWait("sleeping")' = {} /\ InWait("woken")' = {}
    BY <2>1, <2>4 DEF BeforeInit, InWait
  <2>9. v_sem'[0] = 0 /\ vet_assigned'[0] = 1
    BY <1>1, <1>4, <2>1, ZeroIsSemaphore DEF SemTyped
  <2>10. PassesPaid'
    <3>1. Cardinality({}) = 0
      BY FS_EmptySet
    <3> QED BY <3>1, <2>7, <2>8, <2>9 DEF PassesPaid
  <2>11. Counted'
    BY <2>5, <2>9, <2>10 DEF Counted
  <2>12. at' \in [Procs -> Nat \ {0}] /\ UnbornAtStart' /\ Unforked' /\ AtWait'
    BY <1>2, <2>1, OtherRest
  <2>13. SemTyped' /\ KeptAssigned'
    <3>1. v_sem' \in [Semaphores -> Int]
      BY <1>1, <2>1, ZeroIsSemaphore DEF SemTyped
    <3> QED BY <1>1, <2>1, <2>12, <3>1 DEF SemIInv, SemTyped, KeptAssigned
  <2> QED BY <2>11, <2>12, <2>13 DEF SemIInv
<1> QED BY <1>3, <1>4
(* A wait: begun and passed, or begun and asleep.                              *)
LEMMA WaitHolds ==
    ASSUME SemIInv, NEW p \in Procs, sem_wait(p)
    PROVE  SemIInv'
<1>1. SemTyped /\ UnbornAtStart /\ Unforked /\ AtWait
  BY DEF SemIInv
<1>2. Calls(p, "sem_wait")
  BY DEF sem_wait
<1>3. Initialised
  <2> SUFFICES ASSUME ~ Initialised PROVE FALSE
    OBVIOUS
  <2>1. BeforeInit
    BY DEF SemIInv, Counted
  <2> QED BY <1>1, <1>2, <2>1, NotYet
<1>4. vet_assigned[0] = 1 /\ Sums
  BY <1>3, PaidIsSums DEF SemIInv, Counted
<1>5. /\ v_sem' = [v_sem EXCEPT ![0] = @ - 1]
      /\ UNCHANGED <<semaphore_count, vet_assigned>>
  BY <1>4 DEF sem_wait, argint
<1>6. /\ at[p] \in DOMAIN Program[p] /\ Program[p][at[p]][1] = "sem_wait"
      /\ status[p] = "running"
  BY <1>1, <1>2, ProgramAssumption DEF Calls, SemTyped
<1>7. v_sem' \in [Semaphores -> Int] /\ v_sem[0] \in Int /\ v_sem'[0] = v_sem[0] - 1
  BY <1>1, <1>5, ZeroIsSemaphore DEF SemTyped
<1>8. /\ \A n : Cardinality(Returned(n)) \in Nat
      /\ \A s : Cardinality(InWait(s)) \in Nat
  BY ReturnedFinite, InWaitFinite
<1>9. CASE v_sem[0] - 1 < 0
  <2>1. status' = [status EXCEPT ![p] = "sleeping"] /\ UNCHANGED at
    BY <1>4, <1>9 DEF sem_wait, argint
  <2>2. \A n : Returned(n)' = Returned(n)
    BY <2>1 DEF Returned
  <2>3. /\ Cardinality(InWait("sleeping"))' = Cardinality(InWait("sleeping")) + 1
        /\ InWait("woken")' = InWait("woken")
    <3>1. status[p] # "sleeping" /\ "sleeping" # "woken" /\ status[p] # "woken"
      BY <1>6
    <3>2. SemTyped
      BY <1>1
    <3>3. Cardinality(InWait("sleeping"))' = Cardinality(InWait("sleeping")) + 1
      BY <2>1, <3>1, <3>2, MovesOne
    <3>4. InWait("woken")' = InWait("woken")
      BY <2>1, <3>1, <3>2, MovesOne
    <3> QED BY <3>3, <3>4
  <2>4. Initialised'
    BY <1>3, <2>2 DEF Initialised, Name
  <2>5. Sums'
    BY <1>4, <1>7, <1>8, <1>9, <2>2, <2>3 DEF Sums
  <2>6. Counted'
    BY <1>4, <1>5, <2>4, <2>5, PaidAfter DEF Counted
  <2>7. SemTyped' /\ KeptAssigned' /\ UnbornAtStart' /\ AtWait'
    BY <1>1, <1>5, <1>6, <1>7, <2>1 DEF SemIInv, SemTyped, KeptAssigned, UnbornAtStart, AtWait
  <2>8. Unforked'
    <3>1. \A q \in Procs : status[q] = "unborn" => status'[q] = "unborn"
      BY <1>1, <1>6, <2>1 DEF SemTyped
    <3> QED BY <1>1, <2>1, <3>1, ProgramAssumption DEF Unforked, ForksOnce, Name
  <2> QED BY <2>6, <2>7, <2>8 DEF SemIInv
<1>10. CASE ~ v_sem[0] - 1 < 0
  <2>1. Returns(p) /\ UNCHANGED status
    BY <1>4, <1>10 DEF sem_wait, argint
  <2>2. /\ Cardinality(Returned("sem_wait"))' = Cardinality(Returned("sem_wait")) + 1
        /\ Returned("sem_post")' = Returned("sem_post")
        /\ Returned("sem_init")' = Returned("sem_init")
    BY <1>1, <1>6, <2>1, ReturnsOne
  <2>3. \A s : InWait(s)' = InWait(s)
    BY <2>1 DEF InWait
  <2>4. Initialised'
    BY <1>3, <2>2 DEF Initialised, Name
  <2>5. InWait("sleeping") = {} /\ Cardinality(InWait("sleeping")) = 0
    <3>1. v_sem[0] >= 0
      BY <1>7, <1>10
    <3>2. InWait("sleeping") = {}
      BY <1>4, <3>1 DEF Sums
    <3> QED BY <3>2, FS_EmptySet
  <2>6. Sums'
    BY <1>4, <1>7, <1>8, <1>10, <2>2, <2>3, <2>5 DEF Sums
  <2>7. Counted'
    BY <1>4, <1>5, <2>4, <2>6, PaidAfter DEF Counted
  <2>8. at' \in [Procs -> Nat \ {0}] /\ UnbornAtStart' /\ Unforked' /\ AtWait'
    BY <1>2, <2>1, OtherRest
  <2>9. SemTyped' /\ KeptAssigned'
    BY <1>1, <1>5, <1>7, <2>1, <2>8 DEF SemIInv, SemTyped, KeptAssigned
  <2> QED BY <2>7, <2>8, <2>9 DEF SemIInv
<1> QED BY <1>9, <1>10

(* Who was let go passes its wait.                                             *)
LEMMA WaitReturnHolds ==
    ASSUME SemIInv, NEW p \in Procs, sem_wait_return(p)
    PROVE  SemIInv'
<1>1. SemTyped /\ UnbornAtStart /\ Unforked /\ AtWait
  BY DEF SemIInv
<1>2. /\ status[p] = "woken" /\ status' = [status EXCEPT ![p] = "running"]
      /\ Returns(p) /\ UNCHANGED <<semaphore_count, vet_assigned, v_sem>>
  BY DEF sem_wait_return, table
<1>3. at[p] \in DOMAIN Program[p] /\ Program[p][at[p]][1] = "sem_wait"
  BY <1>1, <1>2 DEF AtWait
<1>4. Initialised
  BY <1>2 DEF SemIInv, Counted, BeforeInit
<1>5. vet_assigned[0] = 1 /\ Sums
  BY <1>4, PaidIsSums DEF SemIInv, Counted
<1>6. /\ Cardinality(Returned("sem_wait"))' = Cardinality(Returned("sem_wait")) + 1
      /\ Returned("sem_post")' = Returned("sem_post")
      /\ Returned("sem_init")' = Returned("sem_init")
  BY <1>1, <1>2, <1>3, ReturnsOne
<1>7. /\ Cardinality(InWait("woken"))' = Cardinality(InWait("woken")) - 1
      /\ InWait("sleeping")' = InWait("sleeping")
  <2>1. status[p] # "running" /\ "running" # "sleeping" /\ status[p] # "sleeping"
    BY <1>2
  <2>2. SemTyped /\ status' = [status EXCEPT ![p] = "running"]
    BY <1>1, <1>2
  <2>3. Cardinality(InWait("woken"))' = Cardinality(InWait("woken")) - 1
    BY <1>2, <2>1, <2>2, MovesOne
  <2>4. InWait("sleeping")' = InWait("sleeping")
    BY <2>1, <2>2, MovesOne
  <2> QED BY <2>3, <2>4
<1>8. /\ \A n : Cardinality(Returned(n)) \in Nat
      /\ \A s : Cardinality(InWait(s)) \in Nat
      /\ v_sem[0] \in Int
  BY <1>1, ZeroIsSemaphore, ReturnedFinite, InWaitFinite DEF SemTyped
<1>9. Initialised'
  BY <1>4, <1>6 DEF Initialised, Name
<1>10. Sums'
  BY <1>2, <1>5, <1>6, <1>7, <1>8 DEF Sums
<1>11. Counted'
  BY <1>2, <1>5, <1>9, <1>10, PaidAfter DEF Counted
<1>12. at' \in [Procs -> Nat \ {0}] /\ UnbornAtStart' /\ Unforked' /\ AtWait'
  <2>1. /\ status' \in [Procs -> {"unborn", "running", "sleeping", "woken", "exited"}]
        /\ status'[p] = "running"
        /\ \A q \in Procs \ {p} : status'[q] = status[q]
    BY <1>1, <1>2 DEF SemTyped
  <2> QED BY <1>1, <1>2, <1>3, <2>1, ReturnHolds
<1>13. SemTyped' /\ KeptAssigned'
  BY <1>1, <1>2, <1>12 DEF SemIInv, SemTyped, KeptAssigned
<1> QED BY <1>11, <1>12, <1>13 DEF SemIInv

(* A post pays for one wait, and lets go of everyone once all are paid for.     *)
LEMMA PostHolds ==
    ASSUME SemIInv, NEW p \in Procs, sem_post(p)
    PROVE  SemIInv'
<1>1. SemTyped /\ UnbornAtStart /\ Unforked /\ AtWait
  BY DEF SemIInv
<1>2. Calls(p, "sem_post") /\ Returns(p)
  BY DEF sem_post
<1>3. Initialised
  <2> SUFFICES ASSUME ~ Initialised PROVE FALSE
    OBVIOUS
  <2>1. BeforeInit
    BY DEF SemIInv, Counted
  <2> QED BY <1>1, <1>2, <2>1, NotYet
<1>4. vet_assigned[0] = 1 /\ Sums
  BY <1>3, PaidIsSums DEF SemIInv, Counted
<1>5. /\ v_sem' = [v_sem EXCEPT ![0] = @ + 1]
      /\ UNCHANGED <<semaphore_count, vet_assigned>>
      /\ status' = IF v_sem[0] + 1 >= 0 THEN wakeup ELSE status
  BY <1>4 DEF sem_post, argint
<1>6. /\ at[p] \in DOMAIN Program[p] /\ Program[p][at[p]][1] = "sem_post"
      /\ status[p] = "running"
  BY <1>1, <1>2, ProgramAssumption DEF Calls, SemTyped
<1>7. v_sem' \in [Semaphores -> Int] /\ v_sem[0] \in Int /\ v_sem'[0] = v_sem[0] + 1
  BY <1>1, <1>5, ZeroIsSemaphore DEF SemTyped
<1>8. /\ \A n : Cardinality(Returned(n)) \in Nat
      /\ \A s : Cardinality(InWait(s)) \in Nat
  BY ReturnedFinite, InWaitFinite
<1>9. /\ Cardinality(Returned("sem_post"))' = Cardinality(Returned("sem_post")) + 1
      /\ Returned("sem_wait")' = Returned("sem_wait")
      /\ Returned("sem_init")' = Returned("sem_init")
  BY <1>1, <1>2, <1>6, ReturnsOne
<1>10. Initialised'
  BY <1>3, <1>9 DEF Initialised, Name
<1>11. CASE v_sem[0] + 1 >= 0
  <2>1. status' = wakeup
    BY <1>5, <1>11
  <2>2. /\ InWait("sleeping")' = {}
        /\ Cardinality(InWait("woken"))'
              = Cardinality(InWait("woken")) + Cardinality(InWait("sleeping"))
        /\ status' \in [Procs -> {"unborn", "running", "sleeping", "woken", "exited"}]
    BY <1>1, <2>1, WakesAll
  <2>3. Cardinality(InWait("sleeping"))' = 0
    BY <2>2, FS_EmptySet
  <2>4. Sums'
    BY <1>4, <1>7, <1>8, <1>9, <1>11, <2>2, <2>3 DEF Sums
  <2>5. Counted'
    BY <1>4, <1>5, <1>10, <2>4, PaidAfter DEF Counted
  <2>6. /\ status'[p] = "running"
        /\ \A q \in Procs \ {p} : status'[q] \in {"sleeping", "woken"}
                                     => status[q] \in {"sleeping", "woken"}
        /\ \A q \in Procs : status[q] = "unborn" <=> status'[q] = "unborn"
    BY <1>1, <1>6, <2>1 DEF wakeup, SemTyped
  <2>7. at' \in [Procs -> Nat \ {0}] /\ UnbornAtStart' /\ Unforked' /\ AtWait'
    <3>1. status[p] # "unborn"
      BY <1>6
    <3> QED BY <1>1, <1>2, <1>6, <2>2, <2>6, <3>1, ReturnHolds
  <2>8. SemTyped' /\ KeptAssigned'
    BY <1>1, <1>5, <1>7, <2>2, <2>7 DEF SemIInv, SemTyped, KeptAssigned
  <2> QED BY <2>5, <2>7, <2>8 DEF SemIInv
<1>12. CASE ~ v_sem[0] + 1 >= 0
  <2>1. UNCHANGED status
    BY <1>5, <1>12
  <2>2. \A s : InWait(s)' = InWait(s)
    BY <2>1 DEF InWait
  <2>3. Sums'
    BY <1>4, <1>7, <1>8, <1>9, <1>12, <2>2 DEF Sums
  <2>4. Counted'
    BY <1>4, <1>5, <1>10, <2>3, PaidAfter DEF Counted
  <2>5. at' \in [Procs -> Nat \ {0}] /\ UnbornAtStart' /\ Unforked' /\ AtWait'
    BY <1>2, <2>1, OtherRest
  <2>6. SemTyped' /\ KeptAssigned'
    BY <1>1, <1>5, <1>7, <2>1, <2>5 DEF SemIInv, SemTyped, KeptAssigned
  <2> QED BY <2>4, <2>5, <2>6 DEF SemIInv
<1> QED BY <1>11, <1>12

(* A child is born that no other call forks, after the semaphore is there.     *)
LEMMA ForkHolds ==
    ASSUME SemIInv, NEW p \in Procs, fork(p)
    PROVE  SemIInv'
<1>1. SemTyped /\ UnbornAtStart /\ Unforked /\ AtWait
  BY DEF SemIInv
<1>2. Calls(p, "fork") /\ Returns(p) /\ UNCHANGED <<semaphore_count, vet_assigned, v_sem>>
  BY DEF fork, table
<1>3. Initialised
  <2> SUFFICES ASSUME ~ Initialised PROVE FALSE
    OBVIOUS
  <2>1. BeforeInit
    BY DEF SemIInv, Counted
  <2> QED BY <1>1, <1>2, <2>1, NotYet
<1>4. vet_assigned[0] = 1 /\ Sums
  BY <1>3, PaidIsSums DEF SemIInv, Counted
<1> DEFINE c == <<p, at[p]>>
<1>5. /\ at[p] \in DOMAIN Program[p] /\ Program[p][at[p]][1] = "fork"
      /\ status[p] = "running" /\ at[p] \in Nat
  BY <1>1, <1>2, ProgramAssumption DEF Calls, SemTyped
<1>6. c \in ProgramCalls /\ Name(c) = "fork" /\ Program[c[1]][c[2]][2] = Argument(p)
  BY <1>5, CallOf DEF Argument
<1>7. PICK child \in Procs : child = Argument(p) /\ status[child] = "unborn" /\ child # p
  BY <1>1, <1>5, <1>6, ProgramAssumption DEF Unforked, ForksOnce
<1>8. status' = [status EXCEPT ![child] = "running"]
  BY <1>7 DEF fork
<1>9. /\ \A n \in {"sem_init", "sem_wait", "sem_post"} : Returned(n)' = Returned(n)
      /\ InWait("sleeping")' = InWait("sleeping") /\ InWait("woken")' = InWait("woken")
  <2>1. \A n \in {"sem_init", "sem_wait", "sem_post"} : Returned(n)' = Returned(n)
    BY <1>1, <1>2, <1>5, ReturnsOne
  <2>2. InWait("sleeping")' = InWait("sleeping") /\ InWait("woken")' = InWait("woken")
    <3>1. /\ status[child] # "running" /\ "running" # "sleeping" /\ "running" # "woken"
          /\ status[child] # "sleeping" /\ status[child] # "woken"
      BY <1>7
    <3>2. SemTyped /\ status' = [status EXCEPT ![child] = "running"]
      BY <1>1, <1>7, <1>8
    <3>3. InWait("sleeping")' = InWait("sleeping")
      BY <3>1, <3>2, MovesOne
    <3>4. InWait("woken")' = InWait("woken")
      BY <3>1, <3>2, MovesOne
    <3> QED BY <3>3, <3>4
  <2> QED BY <2>1, <2>2
<1>10. Initialised' /\ Sums'
  BY <1>2, <1>3, <1>4, <1>9 DEF Initialised, Name, Sums
<1>11. Counted'
  BY <1>2, <1>4, <1>10, PaidAfter DEF Counted
<1>12. at' = [at EXCEPT ![p] = @ + 1] /\ at \in [Procs -> Nat \ {0}]
  BY <1>1, <1>2 DEF Returns, SemTyped
<1>13. SemTyped' /\ KeptAssigned' /\ UnbornAtStart' /\ AtWait'
  BY <1>1, <1>2, <1>5, <1>7, <1>8, <1>12
  DEF SemIInv, SemTyped, KeptAssigned, UnbornAtStart, AtWait
<1>14. Unforked'
  <2> SUFFICES ASSUME NEW d \in ProgramCalls, Name(d) = "fork", d[2] >= at'[d[1]]
               PROVE  status'[Program[d[1]][d[2]][2]] = "unborn"
    BY DEF Unforked, Name
  <2>1. PICK q \in Procs : \E k \in DOMAIN Program[q] : d = <<q, k>>
    BY CallsFinite
  <2>2. PICK k \in DOMAIN Program[q] : d = <<q, k>>
    BY <2>1
  <2>3. k \in Nat /\ at[q] \in Nat /\ d[1] = q /\ d[2] = k
    BY <2>2, <1>12, CallOf
  <2>4. d[2] >= at[d[1]] /\ d # c
    BY <2>3, <1>12, <1>5
  <2>5. Program[d[1]][d[2]][2] \in Procs /\ Program[d[1]][d[2]][2] # child
    BY <1>6, <1>7, <2>4, ProgramAssumption DEF ForksOnce
  <2>6. status[Program[d[1]][d[2]][2]] = "unborn"
    BY <1>1, <2>4 DEF Unforked
  <2> QED BY <1>1, <1>8, <2>5, <2>6 DEF SemTyped
<1> QED BY <1>11, <1>13, <1>14 DEF SemIInv

LEMMA ExitHolds ==
    ASSUME SemIInv, NEW p \in Procs, exit(p)
    PROVE  SemIInv'
<1>1. SemTyped /\ UnbornAtStart /\ Unforked /\ AtWait
  BY DEF SemIInv
<1>2. /\ status[p] = "running" /\ at[p] > Len(Program[p])
      /\ status' = [status EXCEPT ![p] = "exited"]
      /\ UNCHANGED <<semaphore_count, vet_assigned, v_sem, at>>
  BY DEF exit, table
<1>3. Initialised
  <2> SUFFICES ASSUME ~ Initialised PROVE FALSE
    OBVIOUS
  <2>1. p = First
    BY <1>2 DEF SemIInv, Counted, BeforeInit
  <2>2. PICK k \in DOMAIN Program[First] : k \in Nat /\ (Initialised <=> k < at[First])
    BY <1>1, InitCall
  <2>3. at[First] \in Nat /\ Len(Program[First]) \in Nat /\ k <= Len(Program[First])
    BY <1>1, ProgramAssumption DEF SemTyped
  <2> QED BY <1>2, <2>1, <2>2, <2>3
<1>4. vet_assigned[0] = 1 /\ Sums
  BY <1>3, PaidIsSums DEF SemIInv, Counted
<1>5. /\ \A n : Returned(n)' = Returned(n)
      /\ InWait("sleeping")' = InWait("sleeping") /\ InWait("woken")' = InWait("woken")
  <2>1. \A n : Returned(n)' = Returned(n)
    BY <1>2 DEF Returned
  <2>2. InWait("sleeping")' = InWait("sleeping") /\ InWait("woken")' = InWait("woken")
    <3>1. /\ status[p] # "exited" /\ "exited" # "sleeping" /\ "exited" # "woken"
          /\ status[p] # "sleeping" /\ status[p] # "woken"
      BY <1>2
    <3>2. SemTyped /\ status' = [status EXCEPT ![p] = "exited"]
      BY <1>1, <1>2
    <3>3. InWait("sleeping")' = InWait("sleeping")
      BY <3>1, <3>2, MovesOne
    <3>4. InWait("woken")' = InWait("woken")
      BY <3>1, <3>2, MovesOne
    <3> QED BY <3>3, <3>4
  <2> QED BY <2>1, <2>2
<1>6. Initialised' /\ Sums'
  BY <1>2, <1>3, <1>4, <1>5 DEF Initialised, Name, Sums
<1>7. Counted'
  BY <1>2, <1>4, <1>6, PaidAfter DEF Counted
<1>8. SemTyped' /\ KeptAssigned' /\ UnbornAtStart' /\ AtWait'
  BY <1>1, <1>2 DEF SemIInv, SemTyped, KeptAssigned, UnbornAtStart, AtWait
<1>9. Unforked'
  <2>1. \A q \in Procs : status[q] = "unborn" => status'[q] = "unborn"
    BY <1>1, <1>2 DEF SemTyped
  <2> QED BY <1>1, <1>2, <2>1, ProgramAssumption DEF Unforked, ForksOnce, Name
<1> QED BY <1>7, <1>8, <1>9 DEF SemIInv

-----------------------------------------------------------------------------
(* The invariant holds in every state that the processes reach.                *)
LEMMA SemInductive == SemSpec => []SemIInv
<1>1. SemInit => SemIInv
  BY SemInitHolds
<1>2. SemIInv /\ [SemNext]_semVars => SemIInv'
  <2> SUFFICES ASSUME SemIInv, [SemNext]_semVars PROVE SemIInv'
    OBVIOUS
  <2>1. CASE UNCHANGED semVars
    <3>1. UNCHANGED <<table, status, at>>
      BY <2>1 DEF semVars, table
    <3> QED BY <3>1, PanicHolds
  <2>2. ASSUME NEW p \in Procs, Step(p) PROVE SemIInv'
    <3>1. CASE sem_alloc(p)
      BY <3>1, AllocHolds
    <3>2. CASE sem_alloc_bad(p)
      <4>1. UNCHANGED <<table, status>> /\ Calls(p, "sem_alloc") /\ (UNCHANGED at \/ Returns(p))
        BY <3>2 DEF sem_alloc_bad
      <4>2. CASE UNCHANGED at
        BY <4>1, <4>2, PanicHolds
      <4>3. CASE Returns(p)
        BY <4>1, <4>3, QuietHolds
      <4> QED BY <4>1, <4>2, <4>3
    <3>3. CASE sem_init(p)
      BY <3>3, InitHolds
    <3>4. CASE sem_destroy(p)
      BY <3>4, QuietHolds DEF sem_destroy
    <3>5. CASE sem_wait(p)
      BY <3>5, WaitHolds
    <3>6. CASE sem_wait_return(p)
      BY <3>6, WaitReturnHolds
    <3>7. CASE sem_post(p)
      BY <3>7, PostHolds
    <3>8. CASE fork(p)
      BY <3>8, ForkHolds
    <3>9. CASE wait(p)
      BY <3>9, QuietHolds DEF wait
    <3>10. CASE exit(p)
      BY <3>10, ExitHolds
    <3> QED BY <2>2, <3>1, <3>2, <3>3, <3>4, <3>5, <3>6, <3>7, <3>8, <3>9, <3>10 DEF Step
  <2> QED BY <2>1, <2>2 DEF SemNext
<1> QED BY <1>1, <1>2, PTL DEF SemSpec

(* No process passes a wait of LAB05's semaphore that no post has paid for, the
   counter is the posts less the waits begun, and at zero or above nobody sleeps,
   for any program that initialises it before it forks.                        *)
THEOREM WaitsPaid == SemSpec => []PassesPaid
<1>1. SemIInv => PassesPaid
  BY DEF SemIInv, Counted, PassesPaid
<1> QED BY <1>1, SemInductive, PTL

-----------------------------------------------------------------------------
(* The lines of LAB02/E02.c *)

(* The letters of a kind that a line has room for *)
Room(k) == IF k = "A" THEN 1 ELSE 2
Printing(k) == {t \in AbbThreads : Kind(t) = k /\ abbPc[t] = "print"}

AbbTyped ==
    /\ permits \in [Kinds -> Nat] /\ statAB \in [Kinds -> Nat]
    /\ linesAB \in Seq(Seq(Kinds)) /\ lineAB \in Seq(Kinds)
    /\ abbPc \in [AbbThreads -> {"wait", "print", "returned"}]

(* The room of the line at hand is in permits, in the hands of threads, or
   filled with letters, which the counters count; a full line is ended at once. *)
RoomTaken(k) ==
    /\ IsFiniteSet(Printing(k))
    /\ permits[k] + Cardinality(Printing(k)) + statAB[k] = Room(k)
    /\ Letters(lineAB, k) = statAB[k]

AbbIInv ==
    /\ AbbTyped
    /\ \A k \in Kinds : RoomTaken(k)
    /\ statAB["A"] + statAB["B"] < 3
    /\ \A h \in DOMAIN linesAB : \A k \in Kinds : Letters(linesAB[h], k) = Room(k)

(* Permits and threads in the section, and how letters are counted *)
LEMMA LettersAppended ==
    ASSUME NEW l \in Seq(Kinds), NEW k \in Kinds, NEW q \in Kinds
    PROVE  /\ Letters(l, q) \in Nat
           /\ Letters(Append(l, k), q) = IF k = q THEN Letters(l, q) + 1 ELSE Letters(l, q)
<1> DEFINE places == {j \in DOMAIN l : l[j] = q}
           after == {j \in DOMAIN Append(l, k) : Append(l, k)[j] = q}
<1>1. DOMAIN l = 1 .. Len(l) /\ Len(l) \in Nat
  OBVIOUS
<1>2. DOMAIN Append(l, k) = 1 .. Len(l) + 1
  BY <1>1
<1>3. \A j \in 1 .. Len(l) : Append(l, k)[j] = l[j]
  BY <1>1
<1>4. Append(l, k)[Len(l) + 1] = k
  BY <1>1
<1>5. IsFiniteSet(places) /\ Cardinality(places) \in Nat
  <2>1. IsFiniteSet(1 .. Len(l))
    BY <1>1, FS_Interval
  <2>2. places \in SUBSET (1 .. Len(l))
    BY <1>1
  <2>3. IsFiniteSet(places)
    BY <2>1, <2>2, FS_Subset
  <2> QED BY <2>3, FS_CardinalityType
<1>6. after = IF k = q THEN places \cup {Len(l) + 1} ELSE places
  BY <1>1, <1>2, <1>3, <1>4
<1>7. Len(l) + 1 \notin places
  BY <1>1
<1>8. Cardinality(places \cup {Len(l) + 1}) = Cardinality(places) + 1
  BY <1>5, <1>7, FS_AddElement
<1> QED BY <1>5, <1>6, <1>8 DEF Letters

LEMMA NoLetters == \A k : Letters(<<>>, k) = 0
BY FS_EmptySet DEF Letters

LEMMA AbbStart == AbbInit => AbbIInv
<1> SUFFICES ASSUME AbbInit PROVE AbbIInv
  OBVIOUS
<1>1. AbbTyped
  BY DEF AbbInit, AbbTyped, Kinds
<1>2. ASSUME NEW k \in Kinds PROVE RoomTaken(k)
  <2>1. Printing(k) = {}
    BY DEF Printing, AbbInit
  <2>2. IsFiniteSet(Printing(k)) /\ Cardinality(Printing(k)) = 0
    BY <2>1, FS_EmptySet
  <2>3. permits[k] = Room(k) /\ statAB[k] = 0 /\ lineAB = <<>> /\ Room(k) \in Nat
    BY DEF AbbInit, Room
  <2> QED BY <2>2, <2>3, NoLetters DEF RoomTaken
<1>3. statAB["A"] + statAB["B"] < 3
  BY DEF AbbInit, Kinds
<1>4. DOMAIN linesAB = {}
  BY DEF AbbInit
<1> QED BY <1>1, <1>2, <1>3, <1>4 DEF AbbIInv

(* Who enters or leaves the section. *)
LEMMA PrintingMoves ==
    ASSUME AbbTyped, NEW t \in AbbThreads, NEW k \in Kinds, IsFiniteSet(Printing(k))
    PROVE  /\ Kind(t) \in Kinds
           /\ Cardinality(Printing(k)) \in Nat
           /\ AbbGoto(t, "wait", "print") =>
                 /\ IsFiniteSet(Printing(k)')
                 /\ Cardinality(Printing(k)') =
                       Cardinality(Printing(k)) + (IF k = Kind(t) THEN 1 ELSE 0)
           /\ AbbGoto(t, "print", "returned") =>
                 /\ IsFiniteSet(Printing(k)')
                 /\ Cardinality(Printing(k)') =
                       Cardinality(Printing(k)) - (IF k = Kind(t) THEN 1 ELSE 0)
<1>1. Kind(t) \in Kinds
  BY DEF AbbThreads, Kind, Kinds
<1>2. Cardinality(Printing(k)) \in Nat
  BY FS_CardinalityType
<1>3. ASSUME AbbGoto(t, "wait", "print")
      PROVE  /\ IsFiniteSet(Printing(k)')
             /\ Cardinality(Printing(k)') =
                   Cardinality(Printing(k)) + (IF k = Kind(t) THEN 1 ELSE 0)
  <2>1. Printing(k)' = IF k = Kind(t) THEN Printing(k) \cup {t} ELSE Printing(k)
    BY <1>3 DEF AbbGoto, Printing, AbbTyped
  <2>2. t \notin Printing(k)
    BY <1>3 DEF AbbGoto, Printing
  <2> QED BY <1>2, <2>1, <2>2, FS_AddElement
<1>4. ASSUME AbbGoto(t, "print", "returned")
      PROVE  /\ IsFiniteSet(Printing(k)')
             /\ Cardinality(Printing(k)') =
                   Cardinality(Printing(k)) - (IF k = Kind(t) THEN 1 ELSE 0)
  <2>1. Printing(k)' = IF k = Kind(t) THEN Printing(k) \ {t} ELSE Printing(k)
    BY <1>4 DEF AbbGoto, Printing, AbbTyped
  <2>2. k = Kind(t) => t \in Printing(k)
    BY <1>4 DEF AbbGoto, Printing
  <2> QED BY <1>2, <2>1, <2>2, FS_RemoveElement
<1> QED BY <1>1, <1>2, <1>3, <1>4

LEMMA AbbTypedKept == ASSUME AbbTyped, [AbbNext]_abbVars PROVE AbbTyped'
<1>1. ASSUME NEW t \in AbbThreads, WaitKind(t) PROVE AbbTyped'
  <2>1. Kind(t) \in Kinds
    BY DEF AbbThreads, Kind, Kinds
  <2>2. permits' \in [Kinds -> Nat]
    BY <1>1, <2>1 DEF WaitKind, AbbTyped
  <2> QED BY <1>1, <2>2 DEF WaitKind, AbbGoto, AbbTyped
<1>2. ASSUME NEW t \in AbbThreads, PrintKind(t) PROVE AbbTyped'
  <2>1. Kind(t) \in Kinds
    BY DEF AbbThreads, Kind, Kinds
  <2>2. permits' \in [Kinds -> Nat]
    <3>1. permits' = permits \/ permits' = [permits EXCEPT !["A"] = @ + 1, !["B"] = @ + 2]
      BY <1>2 DEF PrintKind
    <3> QED BY <3>1 DEF AbbTyped, Kinds
  <2>3. statAB' \in [Kinds -> Nat]
    <3>1. statAB' = [statAB EXCEPT ![Kind(t)] = @ + 1] \/ statAB' = [k \in Kinds |-> 0]
      BY <1>2 DEF PrintKind, Cleared
    <3>2. statAB \in [Kinds -> Nat]
      BY DEF AbbTyped
    <3>3. [statAB EXCEPT ![Kind(t)] = @ + 1] \in [Kinds -> Nat]
      BY <2>1, <3>2
    <3>4. [k \in Kinds |-> 0] \in [Kinds -> Nat]
      OBVIOUS
    <3> QED BY <3>1, <3>3, <3>4
  <2>4. lineAB' \in Seq(Kinds) /\ linesAB' \in Seq(Seq(Kinds))
    <3>1. Append(lineAB, Kind(t)) \in Seq(Kinds) /\ <<>> \in Seq(Kinds)
      BY <2>1 DEF AbbTyped
    <3>2. Append(linesAB, Append(lineAB, Kind(t))) \in Seq(Seq(Kinds))
      BY <3>1 DEF AbbTyped
    <3>3. \/ lineAB' = Append(lineAB, Kind(t)) /\ linesAB' = linesAB
          \/ lineAB' = <<>> /\ linesAB' = Append(linesAB, Append(lineAB, Kind(t)))
      BY <1>2 DEF PrintKind
    <3> QED BY <3>1, <3>2, <3>3 DEF AbbTyped
  <2>5. abbPc' \in [AbbThreads -> {"wait", "print", "returned"}]
    BY <1>2 DEF PrintKind, AbbGoto, AbbTyped
  <2> QED BY <2>2, <2>3, <2>4, <2>5 DEF AbbTyped
<1>3. CASE UNCHANGED abbVars
  BY <1>3 DEF abbVars, AbbTyped
<1> QED BY <1>1, <1>2, <1>3 DEF AbbNext

LEMMA WaitKeeps ==
    ASSUME AbbIInv, AbbTyped', NEW t \in AbbThreads, WaitKind(t) PROVE AbbIInv'
<1>1. Kind(t) \in Kinds /\ permits \in [Kinds -> Nat]
  BY DEF AbbThreads, Kind, Kinds, AbbIInv, AbbTyped
<1>2. ASSUME NEW k \in Kinds PROVE RoomTaken(k)'
  <2>1. /\ IsFiniteSet(Printing(k)) /\ Letters(lineAB, k) = statAB[k]
        /\ permits[k] + Cardinality(Printing(k)) + statAB[k] = Room(k)
    BY DEF AbbIInv, RoomTaken
  <2>2. /\ IsFiniteSet(Printing(k)') /\ Cardinality(Printing(k)) \in Nat
        /\ Cardinality(Printing(k)') =
              Cardinality(Printing(k)) + (IF k = Kind(t) THEN 1 ELSE 0)
    BY <2>1, PrintingMoves DEF WaitKind, AbbIInv
  <2>3. permits'[k] = permits[k] - (IF k = Kind(t) THEN 1 ELSE 0)
    BY <1>1 DEF WaitKind
  <2>4. statAB' = statAB /\ lineAB' = lineAB /\ statAB[k] \in Nat /\ permits[k] \in Nat
    BY DEF WaitKind, AbbIInv, AbbTyped
  <2>5. permits'[k] + Cardinality(Printing(k)') + statAB[k] = Room(k)
    BY <2>1, <2>2, <2>3, <2>4
  <2> QED BY <2>1, <2>2, <2>4, <2>5 DEF RoomTaken
<1>3. statAB' = statAB /\ linesAB' = linesAB
  BY DEF WaitKind
<1> QED BY <1>2, <1>3 DEF AbbIInv

(* A letter that does not end the line takes the room its thread had. *)
LEMMA PrintKeeps ==
    ASSUME AbbIInv, AbbTyped', NEW t \in AbbThreads, PrintKind(t) PROVE AbbIInv'
<1> DEFINE own(k) == IF k = Kind(t) THEN 1 ELSE 0
<1>1. /\ Kind(t) \in Kinds /\ "A" \in Kinds /\ "B" \in Kinds
      /\ permits \in [Kinds -> Nat] /\ statAB \in [Kinds -> Nat]
      /\ linesAB \in Seq(Seq(Kinds)) /\ lineAB \in Seq(Kinds)
  BY DEF AbbThreads, Kind, Kinds, AbbIInv, AbbTyped
<1>2. ASSUME NEW k \in Kinds
      PROVE  /\ permits[k] \in Nat /\ statAB[k] \in Nat /\ Room(k) \in Nat
             /\ IsFiniteSet(Printing(k)') /\ Cardinality(Printing(k)') \in Nat
             /\ permits[k] + Cardinality(Printing(k)') + statAB[k] + own(k) = Room(k)
             /\ statAB[k] + own(k) \in Nat
             /\ Letters(Append(lineAB, Kind(t)), k) = statAB[k] + own(k)
             /\ [statAB EXCEPT ![Kind(t)] = @ + 1][k] = statAB[k] + own(k)
  <2>1. /\ IsFiniteSet(Printing(k)) /\ Letters(lineAB, k) = statAB[k]
        /\ permits[k] + Cardinality(Printing(k)) + statAB[k] = Room(k)
    BY DEF AbbIInv, RoomTaken
  <2>2. /\ IsFiniteSet(Printing(k)') /\ Cardinality(Printing(k)) \in Nat
        /\ Cardinality(Printing(k)') = Cardinality(Printing(k)) - own(k)
    BY <2>1, PrintingMoves DEF PrintKind, AbbIInv
  <2>3. Cardinality(Printing(k)') \in Nat
    BY <2>2, FS_CardinalityType
  <2>4. permits[k] \in Nat /\ statAB[k] \in Nat /\ Room(k) \in Nat
    BY <1>1 DEF Room
  <2>5. Letters(Append(lineAB, Kind(t)), k) = statAB[k] + own(k)
    BY <1>1, <2>1, <2>4, LettersAppended
  <2>6. [statAB EXCEPT ![Kind(t)] = @ + 1][k] = statAB[k] + own(k)
    BY <1>1, <2>4
  <2>7. own(k) \in {0, 1}
    OBVIOUS
  <2> HIDE DEF own
  <2>8. permits[k] + Cardinality(Printing(k)') + statAB[k] + own(k) = Room(k)
    BY <2>1, <2>2, <2>4, <2>7
  <2> QED BY <2>2, <2>3, <2>4, <2>5, <2>6, <2>7, <2>8
<1> HIDE DEF own
<1> DEFINE a == statAB["A"] + own("A")
           b == statAB["B"] + own("B")
<1>3. a \in Nat /\ b \in Nat /\ a <= 1 /\ b <= 2
  <2>1. ASSUME NEW k \in Kinds
        PROVE  statAB[k] + own(k) \in Nat /\ statAB[k] + own(k) <= Room(k)
    <3> DEFINE both == statAB[k] + own(k)
               others == Cardinality(Printing(k)')
    <3>1. /\ permits[k] \in Nat /\ others \in Nat /\ both \in Nat /\ Room(k) \in Nat
          /\ statAB[k] \in Nat
      BY <1>2
    <3>2. permits[k] + others + statAB[k] + own(k) = Room(k) /\ own(k) \in {0, 1}
      BY <1>2 DEF own
    <3> HIDE DEF others
    <3> QED BY <3>1, <3>2
  <2>2. Room("A") = 1 /\ Room("B") = 2
    BY DEF Room
  <2> QED BY <1>1, <2>1, <2>2
<1>4. \/ /\ a + b >= 3
         /\ statAB' = [k \in Kinds |-> 0] /\ lineAB' = <<>>
         /\ linesAB' = Append(linesAB, Append(lineAB, Kind(t)))
         /\ permits' = [permits EXCEPT !["A"] = @ + 1, !["B"] = @ + 2]
      \/ /\ ~ (a + b >= 3)
         /\ statAB' = [statAB EXCEPT ![Kind(t)] = @ + 1]
         /\ lineAB' = Append(lineAB, Kind(t))
         /\ permits' = permits /\ linesAB' = linesAB
  BY <1>1, <1>2 DEF PrintKind, Cleared
<1>5. \A h \in DOMAIN linesAB : \A k \in Kinds : Letters(linesAB[h], k) = Room(k)
  BY DEF AbbIInv
<1>6. CASE a + b >= 3
  <2>1. a = 1 /\ b = 2
    BY <1>3, <1>6
  <2>2. \A k \in Kinds : statAB[k] + own(k) = Room(k)
    BY <2>1 DEF Kinds, Room
  <2>3. /\ statAB' = [k \in Kinds |-> 0] /\ lineAB' = <<>>
        /\ linesAB' = Append(linesAB, Append(lineAB, Kind(t)))
        /\ permits' = [permits EXCEPT !["A"] = @ + 1, !["B"] = @ + 2]
    BY <1>4, <1>6
  <2>4. ASSUME NEW k \in Kinds PROVE RoomTaken(k)'
    <3>1. permits[k] = 0 /\ Cardinality(Printing(k)') = 0
      <4>1. /\ permits[k] \in Nat /\ Cardinality(Printing(k)') \in Nat /\ statAB[k] \in Nat
            /\ permits[k] + Cardinality(Printing(k)') + statAB[k] + own(k) = Room(k)
            /\ own(k) \in {0, 1} /\ Room(k) \in Nat
        BY <1>2 DEF own
      <4> QED BY <2>2, <4>1
    <3>2. permits'[k] = Room(k) /\ Room(k) \in Nat
      BY <1>1, <2>3, <3>1 DEF Kinds, Room
    <3>3. statAB'[k] = 0 /\ Letters(lineAB', k) = 0
      BY <2>3, NoLetters
    <3> QED BY <1>2, <3>1, <3>2, <3>3 DEF RoomTaken
  <2>5. ASSUME NEW h \in DOMAIN linesAB', NEW k \in Kinds
        PROVE  Letters(linesAB'[h], k) = Room(k)
    <3> DEFINE l == Append(lineAB, Kind(t))
    <3>1. l \in Seq(Kinds) /\ Letters(l, k) = Room(k)
      BY <1>1, <1>2, <2>2
    <3> HIDE DEF l
    <3>2. CASE h \in DOMAIN linesAB
      <4>1. linesAB'[h] = linesAB[h]
        BY <1>1, <2>3, <3>1, <3>2 DEF l
      <4> QED BY <1>5, <3>2, <4>1
    <3>3. CASE h = Len(linesAB) + 1
      <4>1. linesAB'[h] = l
        BY <1>1, <2>3, <3>1, <3>3 DEF l
      <4> QED BY <3>1, <4>1
    <3>4. h \in DOMAIN linesAB \/ h = Len(linesAB) + 1
      BY <1>1, <2>3, <3>1 DEF l
    <3> QED BY <3>2, <3>3, <3>4
  <2>6. statAB'["A"] + statAB'["B"] < 3
    BY <1>1, <2>3
  <2> QED BY <2>4, <2>5, <2>6 DEF AbbIInv
<1>7. CASE ~ (a + b >= 3)
  <2>1. /\ statAB' = [statAB EXCEPT ![Kind(t)] = @ + 1]
        /\ lineAB' = Append(lineAB, Kind(t))
        /\ permits' = permits /\ linesAB' = linesAB
    BY <1>4, <1>7
  <2>2. ASSUME NEW k \in Kinds PROVE RoomTaken(k)'
    <3>1. permits'[k] + Cardinality(Printing(k)') + statAB'[k] = Room(k)
      <4>1. permits'[k] = permits[k] /\ statAB'[k] = statAB[k] + own(k)
        BY <1>2, <2>1
      <4>2. /\ permits[k] \in Nat /\ Cardinality(Printing(k)') \in Nat
            /\ statAB[k] + own(k) \in Nat /\ statAB[k] \in Nat /\ own(k) \in {0, 1}
        BY <1>2 DEF own
      <4> QED BY <1>2, <4>1, <4>2
    <3>2. Letters(lineAB', k) = statAB'[k]
      BY <1>2, <2>1
    <3> QED BY <1>2, <3>1, <3>2 DEF RoomTaken
  <2>3. statAB'["A"] = a /\ statAB'["B"] = b
    BY <1>1, <1>2, <2>1
  <2>4. statAB'["A"] + statAB'["B"] < 3
    BY <1>3, <1>7, <2>3
  <2> QED BY <1>5, <2>1, <2>2, <2>4 DEF AbbIInv
<1> QED BY <1>6, <1>7

LEMMA AbbStep == ASSUME AbbIInv, [AbbNext]_abbVars PROVE AbbIInv'
<1>1. AbbTyped'
  BY AbbTypedKept DEF AbbIInv
<1>2. ASSUME NEW t \in AbbThreads, WaitKind(t) \/ PrintKind(t) PROVE AbbIInv'
  BY <1>1, <1>2, WaitKeeps, PrintKeeps
<1>3. CASE UNCHANGED abbVars
  <2>1. \A k \in Kinds : RoomTaken(k)' = RoomTaken(k)
    BY <1>3 DEF abbVars, RoomTaken, Printing
  <2> QED BY <1>1, <1>3, <2>1 DEF abbVars, AbbIInv
<1> QED BY <1>2, <1>3 DEF AbbNext

(* Each line of E02 has one A and two Bs. *)
THEOREM LinesComplete == AbbSpec => []LineComplete
<1>1. AbbIInv => LineComplete
  <2> SUFFICES ASSUME AbbIInv PROVE LineComplete
    OBVIOUS
  <2>1. ASSUME NEW k \in Kinds PROVE Letters(lineAB, k) <= Room(k)
    <3>1. Cardinality(Printing(k)) \in Nat
      BY FS_CardinalityType DEF AbbIInv, RoomTaken
    <3>2. permits[k] \in Nat /\ statAB[k] \in Nat /\ Room(k) \in Nat
      BY DEF AbbIInv, AbbTyped, Room
    <3>3. /\ permits[k] + Cardinality(Printing(k)) + statAB[k] = Room(k)
          /\ Letters(lineAB, k) = statAB[k]
      BY DEF AbbIInv, RoomTaken
    <3> QED BY <3>1, <3>2, <3>3
  <2>2. "A" \in Kinds /\ "B" \in Kinds
    BY DEF Kinds
  <2> QED BY <2>1, <2>2 DEF AbbIInv, LineComplete, Room
<1> QED BY <1>1, AbbStart, AbbStep, PTL DEF AbbSpec

-----------------------------------------------------------------------------
(* The line of LAB02/E03.c *)

TwoTyped ==
    /\ stat12 \in [Printers -> Nat] /\ print \in [Printers -> Nat] /\ acapo \in Nat
    /\ printerPc \in [Printers -> {"wait", "print", "returned"}]

(* The permits of a thread, with the one it has taken *)
Permits(t) == print[t] + (IF printerPc[t] = "print" THEN 1 ELSE 0)

(* The counters and permits of t and of the other thread, and the line. *)
Counters(t, mine, its) == stat12[t] = mine /\ stat12[Other(t)] = its
Turns(t, mine, its) == Permits(t) = mine /\ Permits(Other(t)) = its
FirstA(t) == <<"A", t>>
SecondB(t) == <<"B", t>>

(* The first line, from the view of the thread t that began it: who has printed
   what decides who has the next permits.  After it no letter is printed. *)
Begun(t) ==
    \/ Counters(t, 0, 0) /\ Turns(t, 1, 1) /\ line12 = <<>>
    \/ Counters(t, 1, 0) /\ Turns(t, 0, 2) /\ line12 = <<FirstA(t)>>
    \/ Counters(t, 1, 1) /\ Turns(t, 1, 2) /\ line12 = <<FirstA(t), FirstA(Other(t))>>
    \/ Counters(t, 2, 1) /\ Turns(t, 0, 3) /\ line12 = <<FirstA(t), FirstA(Other(t)), SecondB(t)>>
    \/ /\ Counters(t, 1, 2) /\ Turns(t, 2, 1)
       /\ line12 = <<FirstA(t), FirstA(Other(t)), SecondB(Other(t))>>
    \/ /\ Counters(t, 1, 3) /\ Turns(t, 2, 0)
       /\ line12 = <<FirstA(t), FirstA(Other(t)), SecondB(Other(t))>>

Over ==
    /\ \A t \in Printers : stat12[t] >= 2
    /\ LinePaired

TwoIInv == TwoTyped /\ (Over \/ (acapo = 0 /\ \E t \in Printers : Begun(t)))

LEMMA TwoThreads ==
    ASSUME NEW t \in Printers
    PROVE  /\ Other(t) \in Printers /\ Other(t) # t /\ Other(Other(t)) = t
           /\ \A u \in Printers : u = t \/ u = Other(t)
BY DEF Printers, Other

(* What a thread does to the counters, the permits and the line *)
LEMMA LetterStep ==
    ASSUME TwoTyped, NEW t \in Printers, PrintLetter(t)
    PROVE  /\ stat12'[t] = stat12[t] + 1 /\ stat12'[Other(t)] = stat12[Other(t)]
           /\ Permits(t) >= 1
           /\ Permits(t)' = Permits(t) - 1 +
                 (IF t \in Posted(t, stat12[t] + 1, stat12[Other(t)]) THEN 1 ELSE 0)
           /\ Permits(Other(t))' = Permits(Other(t)) +
                 (IF Other(t) \in Posted(t, stat12[t] + 1, stat12[Other(t)]) THEN 1 ELSE 0)
           /\ line12' = Lettered(<<>>, t, stat12[t] + 1, stat12[Other(t)])
              \/ line12' = Lettered(line12, t, stat12[t] + 1, stat12[Other(t)])
           /\ acapo = 0 =>
                 /\ line12' = Lettered(line12, t, stat12[t] + 1, stat12[Other(t)])
                 /\ acapo' = IF stat12[t] + 1 = 2 /\ stat12[Other(t)] = 2 THEN 1 ELSE 0
<1> DEFINE posted == Posted(t, stat12[t] + 1, stat12[Other(t)])
<1>1. /\ Other(t) \in Printers /\ Other(t) # t
      /\ stat12 \in [Printers -> Nat] /\ print \in [Printers -> Nat] /\ acapo \in Nat
      /\ printerPc \in [Printers -> {"wait", "print", "returned"}]
  BY TwoThreads DEF TwoTyped
<1>2. stat12'[t] = stat12[t] + 1 /\ stat12'[Other(t)] = stat12[Other(t)]
  BY <1>1 DEF PrintLetter
<1>3. /\ printerPc[t] = "print" /\ printerPc'[t] # "print"
      /\ printerPc'[Other(t)] = printerPc[Other(t)]
  BY <1>1 DEF PrintLetter, TwoGoto, Again
<1>4. \A u \in Printers : print'[u] = IF u \in posted THEN print[u] + 1 ELSE print[u]
  BY DEF PrintLetter
<1> HIDE DEF posted
<1>5. /\ Permits(t) >= 1
      /\ Permits(t)' = Permits(t) - 1 + (IF t \in posted THEN 1 ELSE 0)
  BY <1>1, <1>3, <1>4 DEF Permits
<1>6. Permits(Other(t))' = Permits(Other(t)) + (IF Other(t) \in posted THEN 1 ELSE 0)
  BY <1>1, <1>3, <1>4 DEF Permits
<1>7. /\ line12' = Lettered(<<>>, t, stat12[t] + 1, stat12[Other(t)])
         \/ line12' = Lettered(line12, t, stat12[t] + 1, stat12[Other(t)])
      /\ acapo = 0 =>
            /\ line12' = Lettered(line12, t, stat12[t] + 1, stat12[Other(t)])
            /\ acapo' = IF stat12[t] + 1 = 2 /\ stat12[Other(t)] = 2 THEN 1 ELSE 0
  <2> DEFINE last == stat12[t] + 1 = 2 /\ stat12[Other(t)] = 2
             old == IF (IF acapo > 0 THEN 1 ELSE 0) = 1 THEN <<>> ELSE line12
  <2>1. line12' = Lettered(old, t, stat12[t] + 1, stat12[Other(t)])
    BY DEF PrintLetter
  <2>2. acapo' = acapo - (IF acapo > 0 THEN 1 ELSE 0) + (IF last THEN 1 ELSE 0)
    BY DEF PrintLetter
  <2>3. old = <<>> \/ old = line12
    OBVIOUS
  <2>4. acapo = 0 => old = line12
    OBVIOUS
  <2>5. acapo = 0 => acapo' = IF last THEN 1 ELSE 0
    <3> HIDE DEF last
    <3> QED BY <2>2
  <2> HIDE DEF old
  <2> QED BY <2>1, <2>3, <2>4, <2>5
<1> QED BY <1>2, <1>5, <1>6, <1>7 DEF posted

LEMMA TwoTypedKept == ASSUME TwoTyped, [TwoNext]_twoVars PROVE TwoTyped'
<1>1. ASSUME NEW t \in Printers, WaitPrint(t) PROVE TwoTyped'
  BY <1>1 DEF WaitPrint, TwoGoto, TwoTyped
<1>2. ASSUME NEW t \in Printers, PrintLetter(t) PROVE TwoTyped'
  <2>1. stat12' \in [Printers -> Nat]
    BY <1>2 DEF PrintLetter, TwoTyped
  <2>2. print' \in [Printers -> Nat]
    BY <1>2 DEF PrintLetter, TwoTyped
  <2>3. acapo' \in Nat
    BY <1>2 DEF PrintLetter, TwoTyped
  <2>4. printerPc' \in [Printers -> {"wait", "print", "returned"}]
    BY <1>2 DEF PrintLetter, TwoGoto, Again, TwoTyped
  <2> QED BY <2>1, <2>2, <2>3, <2>4 DEF TwoTyped
<1>3. CASE UNCHANGED twoVars
  BY <1>3 DEF twoVars, TwoTyped
<1> QED BY <1>1, <1>2, <1>3 DEF TwoNext

LEMMA TwoStart == TwoInit => TwoIInv
<1> SUFFICES ASSUME TwoInit PROVE TwoIInv
  OBVIOUS
<1>1. TwoTyped
  BY DEF TwoInit, TwoTyped, Again
<1>2. \A t \in Printers : printerPc[t] # "print" /\ print[t] = 1 /\ stat12[t] = 0
  BY DEF TwoInit, Again
<1>3. 1 \in Printers /\ Other(1) \in Printers
  BY DEF Printers, Other
<1>4. Begun(1)
  BY <1>2, <1>3 DEF TwoInit, Begun, Counters, Turns, Permits
<1> QED BY <1>1, <1>3, <1>4 DEF TwoInit, TwoIInv

LEMMA WaitPrintKeeps ==
    ASSUME TwoIInv, TwoTyped', NEW t \in Printers, WaitPrint(t) PROVE TwoIInv'
<1>1. \A u \in Printers : Permits(u)' = Permits(u)
  BY DEF WaitPrint, TwoGoto, Permits, TwoIInv, TwoTyped
<1>2. stat12' = stat12 /\ acapo' = acapo /\ line12' = line12
  BY DEF WaitPrint
<1>3. \A u \in Printers : Begun(u)' = Begun(u)
  BY <1>1, <1>2, TwoThreads DEF Begun, Turns, Counters
<1>4. Over' = Over
  BY <1>2 DEF Over, LinePaired
<1> QED BY <1>2, <1>3, <1>4 DEF TwoIInv

LEMMA Longer ==
    ASSUME NEW p, NEW q, NEW x
    PROVE  /\ Append(<<p>>, q) = <<p, q>>
           /\ Append(<<p, q>>, x) = <<p, q, x>>
<1> DEFINE S == {p, q, x}
<1>1. ASSUME NEW l \in Seq(S), NEW e \in S, NEW m \in Seq(S), Len(m) = Len(l) + 1,
             \A h \in 1 .. Len(l) : m[h] = l[h], m[Len(l) + 1] = e
      PROVE  Append(l, e) = m
  <2>1. Append(l, e) \in Seq(S) /\ Len(Append(l, e)) = Len(m) /\ Len(l) \in Nat
    BY <1>1
  <2>2. \A h \in 1 .. Len(m) : Append(l, e)[h] = m[h]
    BY <1>1, <2>1
  <2> QED BY <1>1, <2>1, <2>2, SeqEqual
<1>2. <<p>> \in Seq(S) /\ <<p, q>> \in Seq(S) /\ <<p, q, x>> \in Seq(S) /\ q \in S /\ x \in S
  OBVIOUS
<1> HIDE DEF S
<1>3. Append(<<p>>, q) = <<p, q>>
  <2>1. Len(<<p, q>>) = Len(<<p>>) + 1 /\ Len(<<p>>) = 1
    OBVIOUS
  <2>2. (\A h \in 1 .. Len(<<p>>) : <<p, q>>[h] = <<p>>[h]) /\ <<p, q>>[Len(<<p>>) + 1] = q
    OBVIOUS
  <2> QED BY <1>1, <1>2, <2>1, <2>2
<1>4. Append(<<p, q>>, x) = <<p, q, x>>
  <2>1. Len(<<p, q, x>>) = Len(<<p, q>>) + 1 /\ Len(<<p, q>>) = 2
    OBVIOUS
  <2>2. (\A h \in 1 .. Len(<<p, q>>) : <<p, q, x>>[h] = <<p, q>>[h])
        /\ <<p, q, x>>[Len(<<p, q>>) + 1] = x
    OBVIOUS
  <2> QED BY <1>1, <1>2, <2>1, <2>2
<1> QED BY <1>3, <1>4

LEMMA FirstLinePaired ==
    ASSUME NEW t \in Printers
    PROVE  /\ line12' = <<FirstA(t), FirstA(Other(t)), SecondB(t), SecondB(Other(t))>>
              => LinePaired'
           /\ line12' = <<FirstA(t), FirstA(Other(t)), SecondB(Other(t)), SecondB(t)>>
              => LinePaired'
           /\ line12' = <<FirstA(t), FirstA(Other(t)), SecondB(Other(t))>> => LinePaired'
           /\ line12' = <<>> => LinePaired'
BY TwoThreads DEF LinePaired, FirstA, SecondB

LEMMA PrintLetterKeeps ==
    ASSUME TwoIInv, TwoTyped', NEW u \in Printers, PrintLetter(u) PROVE TwoIInv'
<1>1. CASE Over
  <2>1. stat12[u] >= 2 /\ stat12[Other(u)] >= 2 /\ stat12[u] \in Nat /\ stat12[Other(u)] \in Nat
    BY <1>1, TwoThreads DEF Over, TwoIInv, TwoTyped
  <2>2. stat12'[u] = stat12[u] + 1 /\ stat12'[Other(u)] = stat12[Other(u)]
    BY LetterStep DEF TwoIInv
  <2>3. \A t \in Printers : stat12'[t] >= 2
    BY <2>1, <2>2, TwoThreads
  <2>4. line12' = <<>> \/ line12' = line12
    BY <2>1, LetterStep DEF Lettered, TwoIInv
  <2>5. LinePaired'
    BY <1>1, <2>4, FirstLinePaired DEF Over, LinePaired
  <2> QED BY <2>3, <2>5 DEF Over, TwoIInv
<1>2. ASSUME acapo = 0, NEW t \in Printers, Begun(t) PROVE TwoIInv'
  <2> DEFINE o == Other(t)
  <2>1. /\ o \in Printers /\ o # t /\ Other(o) = t /\ (u = t \/ u = o)
    BY TwoThreads
  <2>2. TwoTyped
    BY DEF TwoIInv
  <2>3. CASE Counters(t, 0, 0) /\ Turns(t, 1, 1) /\ line12 = <<>>
    <3>1. /\ stat12'[u] = 1 /\ stat12'[Other(u)] = 0
          /\ Permits(u)' = 0 /\ Permits(Other(u))' = 2
          /\ line12' = <<FirstA(u)>> /\ acapo' = 0
      BY <1>2, <2>1, <2>2, <2>3, LetterStep, TwoThreads
         DEF Counters, Turns, Posted, Lettered, FirstA
    <3>2. Begun(u)'
      BY <3>1 DEF Begun, Counters, Turns
    <3> QED BY <3>1, <3>2 DEF TwoIInv
  <2>4. CASE Counters(t, 1, 0) /\ Turns(t, 0, 2) /\ line12 = <<FirstA(t)>>
    <3>1. u = o
      BY <2>1, <2>2, <2>4, LetterStep DEF Turns
    <3>2. /\ stat12'[t] = 1 /\ stat12'[o] = 1 /\ Permits(t)' = 1 /\ Permits(o)' = 2
          /\ line12' = <<FirstA(t), FirstA(o)>> /\ acapo' = 0
      <4>1. Posted(u, stat12[u] + 1, stat12[Other(u)]) = Printers
        BY <2>1, <2>4, <3>1 DEF Counters, Posted
      <4>2. Lettered(line12, u, stat12[u] + 1, stat12[Other(u)]) = <<FirstA(t), FirstA(o)>>
        <5>1. Lettered(line12, u, 1, 1) = Append(line12, FirstA(o))
          BY <3>1 DEF Lettered, FirstA
        <5> QED BY <2>1, <2>4, <3>1, <5>1, Longer DEF Counters
      <4>3. stat12[u] = 0 /\ stat12[Other(u)] = 1 /\ Permits(u) = 2 /\ Permits(Other(u)) = 0
        BY <2>1, <2>4, <3>1 DEF Counters, Turns
      <4> QED BY <1>2, <2>1, <2>2, <3>1, <4>1, <4>2, <4>3, LetterStep
    <3>3. Begun(t)'
      BY <3>2 DEF Begun, Counters, Turns
    <3> QED BY <3>2, <3>3 DEF TwoIInv
  <2>5. CASE Counters(t, 1, 1) /\ Turns(t, 1, 2) /\ line12 = <<FirstA(t), FirstA(o)>>
    <3>1. CASE u = t
      <4>1. /\ stat12'[t] = 2 /\ stat12'[o] = 1 /\ Permits(t)' = 0 /\ Permits(o)' = 3
            /\ line12' = <<FirstA(t), FirstA(o), SecondB(t)>> /\ acapo' = 0
        <5>1. Posted(u, stat12[u] + 1, stat12[Other(u)]) = {o}
          BY <2>1, <2>5, <3>1 DEF Counters, Posted
        <5>2. Lettered(line12, u, stat12[u] + 1, stat12[Other(u)])
                 = <<FirstA(t), FirstA(o), SecondB(t)>>
          <6>1. Lettered(line12, u, 2, 1) = Append(line12, SecondB(t))
            BY <3>1 DEF Lettered, SecondB
          <6> QED BY <2>1, <2>5, <3>1, <6>1, Longer DEF Counters
        <5>3. stat12[u] = 1 /\ stat12[Other(u)] = 1 /\ Permits(u) = 1 /\ Permits(Other(u)) = 2
          BY <2>1, <2>5, <3>1 DEF Counters, Turns
        <5> QED BY <1>2, <2>1, <2>2, <3>1, <5>1, <5>2, <5>3, LetterStep
      <4>2. Begun(t)'
        BY <4>1 DEF Begun, Counters, Turns
      <4> QED BY <4>1, <4>2 DEF TwoIInv
    <3>2. CASE u = o
      <4>1. /\ stat12'[t] = 1 /\ stat12'[o] = 2 /\ Permits(t)' = 2 /\ Permits(o)' = 1
            /\ line12' = <<FirstA(t), FirstA(o), SecondB(o)>> /\ acapo' = 0
        <5>1. Posted(u, stat12[u] + 1, stat12[Other(u)]) = {t}
          BY <2>1, <2>5, <3>2 DEF Counters, Posted
        <5>2. Lettered(line12, u, stat12[u] + 1, stat12[Other(u)])
                 = <<FirstA(t), FirstA(o), SecondB(o)>>
          <6>1. Lettered(line12, u, 2, 1) = Append(line12, SecondB(o))
            BY <3>2 DEF Lettered, SecondB
          <6> QED BY <2>1, <2>5, <3>2, <6>1, Longer DEF Counters
        <5>3. stat12[u] = 1 /\ stat12[Other(u)] = 1 /\ Permits(u) = 2 /\ Permits(Other(u)) = 1
          BY <2>1, <2>5, <3>2 DEF Counters, Turns
        <5> QED BY <1>2, <2>1, <2>2, <3>2, <5>1, <5>2, <5>3, LetterStep
      <4>2. Begun(t)'
        BY <4>1 DEF Begun, Counters, Turns
      <4> QED BY <4>1, <4>2 DEF TwoIInv
    <3> QED BY <2>1, <3>1, <3>2
  <2>6. CASE Counters(t, 2, 1) /\ Turns(t, 0, 3) /\ line12 = <<FirstA(t), FirstA(o), SecondB(t)>>
    <3>1. u = o
      BY <2>1, <2>2, <2>6, LetterStep DEF Turns
    <3>2. /\ stat12'[t] = 2 /\ stat12'[o] = 2
          /\ line12' = <<FirstA(t), FirstA(o), SecondB(t), SecondB(o)>>
      BY <1>2, <2>1, <2>2, <2>6, <3>1, LetterStep DEF Counters, Lettered, SecondB
    <3>3. Over'
      BY <3>2, TwoThreads, FirstLinePaired DEF Over
    <3> QED BY <3>3 DEF TwoIInv
  <2>7. CASE /\ Counters(t, 1, 2) /\ Turns(t, 2, 1)
             /\ line12 = <<FirstA(t), FirstA(o), SecondB(o)>>
    <3>1. CASE u = t
      <4>1. /\ stat12'[t] = 2 /\ stat12'[o] = 2
            /\ line12' = <<FirstA(t), FirstA(o), SecondB(o), SecondB(t)>>
        BY <1>2, <2>1, <2>2, <2>7, <3>1, LetterStep DEF Counters, Lettered, SecondB
      <4>2. Over'
        BY <4>1, TwoThreads, FirstLinePaired DEF Over
      <4> QED BY <4>2 DEF TwoIInv
    <3>2. CASE u = o
      <4>1. /\ stat12'[t] = 1 /\ stat12'[o] = 3 /\ Permits(t)' = 2 /\ Permits(o)' = 0
            /\ line12' = <<FirstA(t), FirstA(o), SecondB(o)>> /\ acapo' = 0
        BY <1>2, <2>1, <2>2, <2>7, <3>2, LetterStep DEF Counters, Turns, Posted, Lettered
      <4>2. Begun(t)'
        BY <4>1 DEF Begun, Counters, Turns
      <4> QED BY <4>1, <4>2 DEF TwoIInv
    <3> QED BY <2>1, <3>1, <3>2
  <2>8. CASE /\ Counters(t, 1, 3) /\ Turns(t, 2, 0)
             /\ line12 = <<FirstA(t), FirstA(o), SecondB(o)>>
    <3>1. u = t
      BY <2>1, <2>2, <2>8, LetterStep DEF Turns
    <3>2. /\ stat12'[t] = 2 /\ stat12'[o] = 3
          /\ line12' = <<FirstA(t), FirstA(o), SecondB(o)>>
      BY <1>2, <2>1, <2>2, <2>8, <3>1, LetterStep DEF Counters, Lettered
    <3>3. Over'
      BY <3>2, TwoThreads, FirstLinePaired DEF Over
    <3> QED BY <3>3 DEF TwoIInv
  <2> QED BY <1>2, <2>3, <2>4, <2>5, <2>6, <2>7, <2>8 DEF Begun
<1> QED BY <1>1, <1>2 DEF TwoIInv

LEMMA TwoStep == ASSUME TwoIInv, [TwoNext]_twoVars PROVE TwoIInv'
<1>1. TwoTyped'
  BY TwoTypedKept DEF TwoIInv
<1>2. ASSUME NEW t \in Printers, WaitPrint(t) \/ PrintLetter(t) PROVE TwoIInv'
  BY <1>1, <1>2, WaitPrintKeeps, PrintLetterKeeps
<1>3. CASE UNCHANGED twoVars
  <2>1. \A t \in Printers : Begun(t)' = Begun(t)
    BY <1>3 DEF twoVars, Begun, Turns, Counters, Permits
  <2> QED BY <1>1, <1>3, <2>1 DEF twoVars, TwoIInv, Over, LinePaired
<1> QED BY <1>2, <1>3 DEF TwoNext

LEMMA BegunPaired == ASSUME NEW t \in Printers, Begun(t) PROVE LinePaired
<1> USE TwoThreads
<1>1. CASE line12 = <<>>
  BY <1>1 DEF LinePaired
<1>2. CASE line12 = <<FirstA(t)>>
  BY <1>2 DEF LinePaired, FirstA
<1>3. CASE line12 = <<FirstA(t), FirstA(Other(t))>>
  BY <1>3 DEF LinePaired, FirstA
<1>4. CASE line12 = <<FirstA(t), FirstA(Other(t)), SecondB(t)>>
  BY <1>4 DEF LinePaired, FirstA, SecondB
<1>5. CASE line12 = <<FirstA(t), FirstA(Other(t)), SecondB(Other(t))>>
  BY <1>5 DEF LinePaired, FirstA, SecondB
<1> QED BY <1>1, <1>2, <1>3, <1>4, <1>5 DEF Begun

(* The line of E03 is two As and two Bs, each letter from both threads. *)
THEOREM LinesPaired == TwoSpec => []LinePaired
<1>1. TwoIInv => LinePaired
  BY BegunPaired DEF TwoIInv, Over
<1> QED BY <1>1, TwoStart, TwoStep, PTL DEF TwoSpec

(* The lines that either program prints are whole, for any number of threads
   and any argument, whichever threads come first. *)
THEOREM LinesAreWhole == AbbSpec /\ TwoSpec => []LinesWhole
BY LinesComplete, LinesPaired, PTL DEF LinesWhole

-----------------------------------------------------------------------------
(* The variable of LAB01/E2.c *)

InTurn(c) == varPc[c] \in {"set", "post_ok", "wait_r", "print"}
Uncounted == {"fread", "wait_w", "set", "post_ok", "wait_r", "print", "stop++"}
AllCounted == \A c \in ClientIds : varPc[c] \notin Uncounted

VarTyped ==
    /\ request \in Nat /\ stop \in 0 .. 2
    /\ sem_w \in {0, 1} /\ sem_r \in Nat /\ sem_ok \in Nat
    /\ file \in [ClientIds -> Seq(Int)]
    /\ app = [c \in ClientIds |-> app[c]]
    /\ loaded = [t \in ClientIds \cup {Server} |-> loaded[t]]
    /\ varPc = [t \in ClientIds \cup {Server} |-> varPc[t]]
    /\ \A c \in ClientIds : varPc[c] \in Uncounted \cup {"test_stop", "post_last", "exit"}
    /\ varPc[Server] \in {"while", "wait_ok", "load_g", "store_g", "post_r", "join", "exit"}

(* The permit w is free or with the one client whose turn it is. *)
OneTurn ==
    /\ sem_w = 1 => \A c \in ClientIds : ~ InTurn(c)
    /\ sem_w = 0 => \E c \in ClientIds : InTurn(c)
    /\ \A c, d \in ClientIds : InTurn(c) /\ InTurn(d) => c = d

(* stop is 2 only when both clients have counted themselves out. *)
StopCounts ==
    /\ stop = 2 => AllCounted
    /\ stop = 1 => \E c \in ClientIds : varPc[c] \notin Uncounted
    /\ \A c \in ClientIds : varPc[c] = "stop++" =>
          loaded[c] = 0 \/ (loaded[c] = 1 /\ \E d \in ClientIds : varPc[d] \notin Uncounted)
    /\ \A c \in ClientIds : varPc[c] = "post_last" => stop = 2
    /\ \A c \in ClientIds : varPc[c] \notin Uncounted \ {"stop++"} => file[c] = <<>>
    /\ varPc[Server] \in {"join", "exit"} => stop = 2

Idle == sem_ok = 0 /\ sem_r = 0 /\ varPc[Server] \in {"while", "wait_ok"}

(* How far the exchange with the client in turn has come *)
Exchange(c) ==
    /\ varPc[c] \in {"set", "post_ok", "print"} => Idle
    /\ varPc[c] = "post_ok" => g = app[c]
    /\ varPc[c] = "print" => g = 3 * app[c]
    /\ varPc[c] = "wait_r" =>
          \/ /\ sem_ok = 1 /\ sem_r = 0 /\ varPc[Server] \in {"while", "wait_ok"}
             /\ g = app[c]
          \/ sem_ok = 0 /\ sem_r = 0 /\ varPc[Server] = "load_g" /\ g = app[c]
          \/ sem_ok = 0 /\ sem_r = 0 /\ varPc[Server] = "store_g" /\ loaded[Server] = app[c]
          \/ sem_ok = 0 /\ sem_r = 0 /\ varPc[Server] = "post_r" /\ g = 3 * app[c]
          \/ /\ sem_ok = 0 /\ sem_r = 1 /\ varPc[Server] \in {"while", "wait_ok"}
             /\ g = 3 * app[c]

Exchanges ==
    /\ \A c \in ClientIds : Exchange(c)
    /\ AllCounted \/ (\E c \in ClientIds : InTurn(c)) \/ Idle

(* Whether a client is at a value that is not answered yet *)
Unanswered(c) ==
    IF \/ varPc[c] \in {"wait_w", "set", "post_ok"}
       \/ varPc[c] = "wait_r" /\ (sem_ok = 1 \/ varPc[Server] \in {"load_g", "store_g"})
      THEN 1 ELSE 0
Asked(c) == Len(Values[c]) - Len(file[c]) - Unanswered(c)
RequestsCount == request >= Asked(1) + Asked(2)

VarIInv == VarTyped /\ OneTurn /\ StopCounts /\ Exchanges /\ RequestsCount

LEMMA Ids ==
    ASSUME NEW c \in ClientIds
    PROVE  /\ 3 - c \in ClientIds /\ c # 3 - c /\ Server # c /\ Server # 3 - c
           /\ ClientIds = {c, 3 - c} /\ Server \notin ClientIds
BY DEF ClientIds, Server

(* A step of one thread changes its label alone. *)
LEMMA VarMoves ==
    ASSUME VarTyped, NEW t \in ClientIds \cup {Server}, NEW from, NEW to, VarGoto(t, from, to)
    PROVE  /\ varPc[t] = from /\ varPc'[t] = to
           /\ \A u \in ClientIds \cup {Server} : u # t => varPc'[u] = varPc[u]
           /\ varPc' = [u \in ClientIds \cup {Server} |-> varPc'[u]]
<1>1. varPc = [u \in ClientIds \cup {Server} |-> varPc[u]]
  BY DEF VarTyped
<1> QED BY <1>1 DEF VarGoto

LEMMA ReadValueKeeps == ASSUME VarIInv, NEW c \in ClientIds, ReadValue(c) PROVE VarIInv'
<1> DEFINE d == 3 - c
<1>1. /\ varPc'[d] = varPc[d] /\ varPc'[Server] = varPc[Server]
      /\ varPc' = [u \in ClientIds \cup {Server} |-> varPc'[u]]
  BY VarMoves, Ids DEF ReadValue, VarIInv
<1>2. /\ d \in ClientIds /\ c # d /\ Server # c /\ Server # d
      /\ ClientIds = {c, d} /\ Server \notin ClientIds /\ VarTyped
  BY Ids DEF VarIInv
<1> HIDE DEF d
<1>3. VarTyped'
  <2>1. file' \in [ClientIds -> Seq(Int)] /\ app' = [u \in ClientIds |-> app'[u]]
    <3>1. Tail(file[c]) \in Seq(Int)
      BY DEF ReadValue, VarIInv, VarTyped
    <3> QED BY <3>1 DEF ReadValue, VarIInv, VarTyped
  <2> QED BY <1>1, <1>2, <2>1 DEF ReadValue, VarGoto, varSems, VarTyped, Uncounted
<1>4. OneTurn'
  BY <1>1, <1>2 DEF ReadValue, VarGoto, varSems, VarTyped, OneTurn, InTurn, VarIInv
<1>5. StopCounts'
  BY <1>1, <1>2 DEF ReadValue, VarGoto, varSems, VarTyped, Uncounted, AllCounted, StopCounts,
     VarIInv
<1>6. Exchanges'
  BY <1>1, <1>2 DEF ReadValue, VarGoto, varSems, VarTyped, Exchanges, Exchange, Idle,
     AllCounted, Uncounted, InTurn, VarIInv
<1>7. RequestsCount'
  <2>1. Len(file'[c]) = Len(file[c]) - 1 /\ Len(file[c]) \in Nat /\ file'[d] = file[d]
    BY <1>2 DEF ReadValue, VarTyped
  <2>2. Unanswered(c) = 0 /\ Unanswered(c)' = 1 /\ Unanswered(d)' = Unanswered(d)
    BY <1>1, <1>2 DEF ReadValue, VarGoto, varSems, VarTyped, Unanswered
  <2>3. Asked(c)' = Asked(c) /\ Asked(d)' = Asked(d)
    BY <2>1, <2>2, <1>2, ValuesAssumption DEF Asked, ClientIds
  <2> QED BY <1>2, <2>3 DEF ReadValue, RequestsCount, VarIInv, ClientIds
<1> QED BY <1>3, <1>4, <1>5, <1>6, <1>7 DEF VarIInv

LEMMA WaitTurnKeeps == ASSUME VarIInv, NEW c \in ClientIds, WaitTurn(c) PROVE VarIInv'
<1> DEFINE d == 3 - c
<1>1. /\ varPc'[d] = varPc[d] /\ varPc'[Server] = varPc[Server]
      /\ varPc' = [u \in ClientIds \cup {Server} |-> varPc'[u]]
  BY VarMoves, Ids DEF WaitTurn, VarIInv
<1>2. /\ d \in ClientIds /\ c # d /\ Server # c /\ Server # d
      /\ ClientIds = {c, d} /\ Server \notin ClientIds /\ VarTyped
  BY Ids DEF VarIInv
<1> HIDE DEF d
<1>3. VarTyped'
  <2>1. sem_w' \in {0, 1}
    BY DEF WaitTurn, VarIInv, VarTyped
  <2> QED BY <1>1, <1>2, <2>1 DEF WaitTurn, VarGoto, varLocals, VarTyped, Uncounted
<1>4. OneTurn'
  BY <1>1, <1>2 DEF WaitTurn, VarGoto, varLocals, VarTyped, OneTurn, InTurn, VarIInv
<1>5. StopCounts'
  BY <1>1, <1>2 DEF WaitTurn, VarGoto, varLocals, VarTyped, Uncounted, AllCounted, StopCounts,
     VarIInv
<1>6. Exchanges'
  BY <1>1, <1>2 DEF WaitTurn, VarGoto, varLocals, VarTyped, OneTurn, Exchanges, Exchange, Idle,
     AllCounted, Uncounted, InTurn, VarIInv
<1>7. RequestsCount'
  BY <1>1, <1>2 DEF WaitTurn, VarGoto, varLocals, VarTyped, RequestsCount, Asked, Unanswered,
     VarIInv, ClientIds
<1> QED BY <1>3, <1>4, <1>5, <1>6, <1>7 DEF VarIInv

LEMMA SetGKeeps == ASSUME VarIInv, NEW c \in ClientIds, SetG(c) PROVE VarIInv'
<1> DEFINE d == 3 - c
<1>1. /\ varPc'[d] = varPc[d] /\ varPc'[Server] = varPc[Server]
      /\ varPc' = [u \in ClientIds \cup {Server} |-> varPc'[u]]
  BY VarMoves, Ids DEF SetG, VarIInv
<1>2. /\ d \in ClientIds /\ c # d /\ Server # c /\ Server # d
      /\ ClientIds = {c, d} /\ Server \notin ClientIds /\ VarTyped
  BY Ids DEF VarIInv
<1> HIDE DEF d
<1>3. VarTyped'
  BY <1>1, <1>2 DEF SetG, VarGoto, varSems, varLocals, VarTyped, Uncounted
<1>4. OneTurn'
  BY <1>1, <1>2 DEF SetG, VarGoto, varSems, varLocals, VarTyped, OneTurn, InTurn, VarIInv
<1>5. StopCounts'
  BY <1>1, <1>2 DEF SetG, VarGoto, varSems, varLocals, VarTyped, Uncounted, AllCounted,
     StopCounts, VarIInv
<1>6. Exchanges'
  BY <1>1, <1>2 DEF SetG, VarGoto, varSems, varLocals, VarTyped, OneTurn, Exchanges, Exchange,
     Idle, AllCounted, Uncounted, InTurn, VarIInv
<1>7. RequestsCount'
  BY <1>1, <1>2 DEF SetG, VarGoto, varSems, varLocals, VarTyped, RequestsCount, Asked,
     Unanswered, VarIInv, ClientIds
<1> QED BY <1>3, <1>4, <1>5, <1>6, <1>7 DEF VarIInv

LEMMA PostOkKeeps == ASSUME VarIInv, NEW c \in ClientIds, PostOk(c) PROVE VarIInv'
<1> DEFINE d == 3 - c
<1>1. /\ varPc'[d] = varPc[d] /\ varPc'[Server] = varPc[Server]
      /\ varPc' = [u \in ClientIds \cup {Server} |-> varPc'[u]]
  BY VarMoves, Ids DEF PostOk, VarIInv
<1>2. /\ d \in ClientIds /\ c # d /\ Server # c /\ Server # d
      /\ ClientIds = {c, d} /\ Server \notin ClientIds /\ VarTyped
  BY Ids DEF VarIInv
<1> HIDE DEF d
<1>3. VarTyped'
  BY <1>1, <1>2 DEF PostOk, VarGoto, varLocals, VarTyped, Uncounted
<1>4. OneTurn'
  BY <1>1, <1>2 DEF PostOk, VarGoto, varLocals, VarTyped, OneTurn, InTurn, VarIInv
<1>5. StopCounts'
  BY <1>1, <1>2 DEF PostOk, VarGoto, varLocals, VarTyped, Uncounted, AllCounted, StopCounts,
     VarIInv
<1>6. Exchanges'
  BY <1>1, <1>2 DEF PostOk, VarGoto, varLocals, VarTyped, OneTurn, StopCounts, Exchanges,
     Exchange, Idle, AllCounted, Uncounted, InTurn, VarIInv
<1>7. RequestsCount'
  <2>1. file' = file /\ request' = request
    BY DEF PostOk, varLocals
  <2>2. Unanswered(c)' = Unanswered(c) /\ Unanswered(d)' = Unanswered(d)
    <3>1. CASE VarGoto(c, "post_ok", "wait_r")
      <4>1. varPc[c] = "post_ok" /\ varPc'[c] = "wait_r" /\ varPc[d] # "wait_r"
        BY <1>2, <3>1 DEF VarGoto, VarTyped, OneTurn, InTurn, VarIInv
      <4>2. sem_ok' = 1
        BY <1>2, <3>1 DEF PostOk, VarGoto, Exchanges, Exchange, Idle, VarIInv
      <4> QED BY <1>1, <1>2, <4>1, <4>2 DEF Unanswered
    <3>2. CASE VarGoto(c, "post_last", "exit")
      <4>1. varPc[c] = "post_last" /\ varPc'[c] = "exit"
        BY <1>2, <3>2 DEF VarGoto, VarTyped
      <4>2. varPc[d] # "wait_r"
        BY <1>2, <4>1 DEF StopCounts, AllCounted, Uncounted, VarIInv
      <4> QED BY <1>1, <1>2, <4>1, <4>2 DEF Unanswered
    <3> QED BY <3>1, <3>2 DEF PostOk
  <2>3. Asked(c)' = Asked(c) /\ Asked(d)' = Asked(d)
    BY <2>1, <2>2 DEF Asked
  <2> QED BY <1>2, <2>1, <2>3 DEF RequestsCount, VarIInv, ClientIds
<1> QED BY <1>3, <1>4, <1>5, <1>6, <1>7 DEF VarIInv

LEMMA WaitAnswerKeeps == ASSUME VarIInv, NEW c \in ClientIds, WaitAnswer(c) PROVE VarIInv'
<1> DEFINE d == 3 - c
<1>1. /\ varPc'[d] = varPc[d] /\ varPc'[Server] = varPc[Server]
      /\ varPc' = [u \in ClientIds \cup {Server} |-> varPc'[u]]
  BY VarMoves, Ids DEF WaitAnswer, VarIInv
<1>2. /\ d \in ClientIds /\ c # d /\ Server # c /\ Server # d
      /\ ClientIds = {c, d} /\ Server \notin ClientIds /\ VarTyped
  BY Ids DEF VarIInv
<1> HIDE DEF d
<1>3. VarTyped'
  <2>1. sem_r' \in Nat
    BY DEF WaitAnswer, VarIInv, VarTyped
  <2> QED BY <1>1, <1>2, <2>1 DEF WaitAnswer, VarGoto, varLocals, VarTyped, Uncounted
<1>4. OneTurn'
  BY <1>1, <1>2 DEF WaitAnswer, VarGoto, varLocals, VarTyped, OneTurn, InTurn, VarIInv
<1>5. StopCounts'
  BY <1>1, <1>2 DEF WaitAnswer, VarGoto, varLocals, VarTyped, Uncounted, AllCounted, StopCounts,
     VarIInv
<1>6. Exchanges'
  BY <1>1, <1>2 DEF WaitAnswer, VarGoto, varLocals, VarTyped, OneTurn, Exchanges, Exchange,
     Idle, AllCounted, Uncounted, InTurn, VarIInv
<1>7. RequestsCount'
  <2>1. sem_ok = 0 /\ varPc[Server] \notin {"load_g", "store_g"} /\ sem_ok' = sem_ok
    BY DEF WaitAnswer, VarGoto, Exchanges, Exchange, VarIInv
  <2>2. Unanswered(c)' = Unanswered(c) /\ Unanswered(d)' = Unanswered(d)
    BY <1>1, <1>2, <2>1 DEF WaitAnswer, VarGoto, VarTyped, Unanswered
  <2>3. Asked(c)' = Asked(c) /\ Asked(d)' = Asked(d)
    BY <2>2 DEF WaitAnswer, varLocals, Asked
  <2> QED BY <1>2, <2>3 DEF WaitAnswer, RequestsCount, VarIInv, ClientIds
<1> QED BY <1>3, <1>4, <1>5, <1>6, <1>7 DEF VarIInv

LEMMA GiveTurnKeeps == ASSUME VarIInv, NEW c \in ClientIds, GiveTurn(c) PROVE VarIInv'
<1> DEFINE d == 3 - c
<1>1. /\ varPc'[d] = varPc[d] /\ varPc'[Server] = varPc[Server]
      /\ varPc' = [u \in ClientIds \cup {Server} |-> varPc'[u]]
  BY VarMoves, Ids DEF GiveTurn, VarIInv
<1>2. /\ d \in ClientIds /\ c # d /\ Server # c /\ Server # d
      /\ ClientIds = {c, d} /\ Server \notin ClientIds /\ VarTyped
  BY Ids DEF VarIInv
<1> HIDE DEF d
<1>3. VarTyped'
  <2>1. sem_w' \in {0, 1}
    BY DEF GiveTurn, VarGoto, OneTurn, InTurn, VarIInv, VarTyped
  <2> QED BY <1>1, <1>2, <2>1 DEF GiveTurn, VarGoto, varLocals, VarTyped, Uncounted
<1>4. OneTurn'
  BY <1>1, <1>2 DEF GiveTurn, VarGoto, varLocals, VarTyped, OneTurn, InTurn, VarIInv
<1>5. StopCounts'
  BY <1>1, <1>2 DEF GiveTurn, VarGoto, varLocals, VarTyped, Uncounted, AllCounted, StopCounts,
     VarIInv
<1>6. Exchanges'
  BY <1>1, <1>2 DEF GiveTurn, VarGoto, varLocals, VarTyped, Exchanges, Exchange, Idle,
     AllCounted, Uncounted, InTurn, VarIInv
<1>7. RequestsCount'
  BY <1>1, <1>2 DEF GiveTurn, VarGoto, varLocals, VarTyped, RequestsCount, Asked, Unanswered,
     VarIInv, ClientIds
<1> QED BY <1>3, <1>4, <1>5, <1>6, <1>7 DEF VarIInv

LEMMA LoadStopKeeps == ASSUME VarIInv, NEW c \in ClientIds, LoadStop(c) PROVE VarIInv'
<1> DEFINE d == 3 - c
<1>1. /\ varPc'[d] = varPc[d] /\ varPc'[Server] = varPc[Server]
      /\ varPc' = [u \in ClientIds \cup {Server} |-> varPc'[u]]
  BY VarMoves, Ids DEF LoadStop, VarIInv
<1>2. /\ d \in ClientIds /\ c # d /\ Server # c /\ Server # d
      /\ ClientIds = {c, d} /\ Server \notin ClientIds /\ VarTyped
  BY Ids DEF VarIInv
<1> HIDE DEF d
<1>3. VarTyped'
  BY <1>1, <1>2 DEF LoadStop, VarGoto, varSems, VarTyped, Uncounted
<1>4. OneTurn'
  BY <1>1, <1>2 DEF LoadStop, VarGoto, varSems, VarTyped, OneTurn, InTurn, VarIInv
<1>5. StopCounts'
  BY <1>1, <1>2 DEF LoadStop, VarGoto, varSems, VarTyped, Uncounted, AllCounted, StopCounts,
     VarIInv
<1>6. Exchanges'
  BY <1>1, <1>2 DEF LoadStop, VarGoto, varSems, VarTyped, Exchanges, Exchange, Idle, AllCounted,
     Uncounted, InTurn, VarIInv
<1>7. RequestsCount'
  BY <1>1, <1>2 DEF LoadStop, VarGoto, varSems, VarTyped, RequestsCount, Asked, Unanswered,
     VarIInv, ClientIds
<1> QED BY <1>3, <1>4, <1>5, <1>6, <1>7 DEF VarIInv

LEMMA StoreStopKeeps == ASSUME VarIInv, NEW c \in ClientIds, StoreStop(c) PROVE VarIInv'
<1> DEFINE d == 3 - c
<1>1. /\ varPc'[d] = varPc[d] /\ varPc'[Server] = varPc[Server]
      /\ varPc' = [u \in ClientIds \cup {Server} |-> varPc'[u]]
  BY VarMoves, Ids DEF StoreStop, VarIInv
<1>2. /\ d \in ClientIds /\ c # d /\ Server # c /\ Server # d
      /\ ClientIds = {c, d} /\ Server \notin ClientIds /\ VarTyped
  BY Ids DEF VarIInv
<1> HIDE DEF d
<1>3. VarTyped'
  BY <1>1, <1>2 DEF StoreStop, VarGoto, varSems, varLocals, VarTyped, Uncounted, StopCounts,
     VarIInv
<1>4. OneTurn'
  BY <1>1, <1>2 DEF StoreStop, VarGoto, varSems, varLocals, VarTyped, OneTurn, InTurn, VarIInv
<1>5. StopCounts'
  BY <1>1, <1>2 DEF StoreStop, VarGoto, varSems, varLocals, VarTyped, Uncounted, AllCounted,
     StopCounts, VarIInv
<1>6. Exchanges'
  BY <1>1, <1>2 DEF StoreStop, VarGoto, varSems, varLocals, VarTyped, Exchanges, Exchange, Idle,
     AllCounted, Uncounted, InTurn, VarIInv
<1>7. RequestsCount'
  BY <1>1, <1>2 DEF StoreStop, VarGoto, varSems, varLocals, VarTyped, RequestsCount, Asked,
     Unanswered, VarIInv, ClientIds
<1> QED BY <1>3, <1>4, <1>5, <1>6, <1>7 DEF VarIInv

LEMMA TestStopKeeps == ASSUME VarIInv, NEW c \in ClientIds, TestStop(c) PROVE VarIInv'
<1> DEFINE d == 3 - c
<1>1. /\ varPc'[d] = varPc[d] /\ varPc'[Server] = varPc[Server]
      /\ varPc' = [u \in ClientIds \cup {Server} |-> varPc'[u]]
  BY VarMoves, Ids DEF TestStop, VarIInv
<1>2. /\ d \in ClientIds /\ c # d /\ Server # c /\ Server # d
      /\ ClientIds = {c, d} /\ Server \notin ClientIds /\ VarTyped
  BY Ids DEF VarIInv
<1> HIDE DEF d
<1>3. VarTyped'
  BY <1>1, <1>2 DEF TestStop, VarGoto, varSems, varLocals, VarTyped, Uncounted
<1>4. OneTurn'
  BY <1>1, <1>2 DEF TestStop, VarGoto, varSems, varLocals, VarTyped, OneTurn, InTurn, VarIInv
<1>5. StopCounts'
  BY <1>1, <1>2 DEF TestStop, VarGoto, varSems, varLocals, VarTyped, Uncounted, AllCounted,
     StopCounts, VarIInv
<1>6. Exchanges'
  BY <1>1, <1>2 DEF TestStop, VarGoto, varSems, varLocals, VarTyped, Exchanges, Exchange, Idle,
     AllCounted, Uncounted, InTurn, VarIInv
<1>7. RequestsCount'
  BY <1>1, <1>2 DEF TestStop, VarGoto, varSems, varLocals, VarTyped, RequestsCount, Asked,
     Unanswered, VarIInv, ClientIds
<1> QED BY <1>3, <1>4, <1>5, <1>6, <1>7 DEF VarIInv

LEMMA WhileKeeps == ASSUME VarIInv, While PROVE VarIInv'
<1>1. /\ \A c \in ClientIds : varPc'[c] = varPc[c]
      /\ varPc' = [u \in ClientIds \cup {Server} |-> varPc'[u]]
  BY VarMoves DEF While, NUM_THREADS, VarIInv, ClientIds, Server
<1>2. Server \notin ClientIds /\ VarTyped
  BY DEF VarIInv, ClientIds, Server
<1>3. VarTyped'
  BY <1>1, <1>2 DEF While, NUM_THREADS, VarGoto, varSems, varLocals, VarTyped
<1>4. OneTurn'
  BY <1>1, <1>2 DEF While, NUM_THREADS, VarGoto, varSems, varLocals, VarTyped, OneTurn, InTurn,
     VarIInv
<1>5. StopCounts'
  BY <1>1, <1>2 DEF While, NUM_THREADS, VarGoto, varSems, varLocals, VarTyped, Uncounted,
     AllCounted, StopCounts, VarIInv
<1>6. Exchanges'
  BY <1>1, <1>2 DEF While, NUM_THREADS, VarGoto, varSems, varLocals, VarTyped, StopCounts,
     Exchanges, Exchange, Idle, AllCounted, Uncounted, InTurn, VarIInv
<1>7. RequestsCount'
  BY <1>1, <1>2 DEF While, NUM_THREADS, VarGoto, varSems, varLocals, VarTyped, RequestsCount,
     Asked, Unanswered, VarIInv, ClientIds
<1> QED BY <1>3, <1>4, <1>5, <1>6, <1>7 DEF VarIInv

LEMMA WaitOkKeeps == ASSUME VarIInv, WaitOk PROVE VarIInv'
<1>1. /\ \A c \in ClientIds : varPc'[c] = varPc[c]
      /\ varPc' = [u \in ClientIds \cup {Server} |-> varPc'[u]]
  BY VarMoves DEF WaitOk, VarIInv, ClientIds, Server
<1>2. Server \notin ClientIds /\ VarTyped
  BY DEF VarIInv, ClientIds, Server
<1>3. VarTyped'
  BY <1>1, <1>2 DEF WaitOk, VarGoto, varLocals, VarTyped
<1>4. OneTurn'
  BY <1>1, <1>2 DEF WaitOk, VarGoto, varLocals, VarTyped, OneTurn, InTurn, VarIInv
<1>5. StopCounts'
  BY <1>1, <1>2 DEF WaitOk, VarGoto, varLocals, VarTyped, Uncounted, AllCounted, StopCounts,
     VarIInv
<1>6. Exchanges'
  BY <1>1, <1>2 DEF WaitOk, VarGoto, varLocals, VarTyped, Exchanges, Exchange, Idle, AllCounted,
     Uncounted, InTurn, VarIInv
<1>7. RequestsCount'
  <2>1. \A c \in ClientIds : varPc[c] = "wait_r" => sem_ok = 1
    BY DEF WaitOk, VarGoto, Exchanges, Exchange, VarIInv
  <2>2. varPc'[Server] = "load_g"
    BY <1>2 DEF WaitOk, VarGoto, VarTyped
  <2>3. \A c \in ClientIds : Unanswered(c)' = Unanswered(c)
    BY <1>1, <2>1, <2>2 DEF Unanswered
  <2>4. \A c \in ClientIds : Asked(c)' = Asked(c)
    BY <2>3 DEF WaitOk, varLocals, Asked
  <2> QED BY <2>4 DEF WaitOk, RequestsCount, VarIInv, ClientIds
<1> QED BY <1>3, <1>4, <1>5, <1>6, <1>7 DEF VarIInv

LEMMA LoadGKeeps == ASSUME VarIInv, LoadG PROVE VarIInv'
<1>1. /\ \A c \in ClientIds : varPc'[c] = varPc[c]
      /\ varPc' = [u \in ClientIds \cup {Server} |-> varPc'[u]]
  BY VarMoves DEF LoadG, VarIInv, ClientIds, Server
<1>2. Server \notin ClientIds /\ VarTyped
  BY DEF VarIInv, ClientIds, Server
<1>3. VarTyped'
  BY <1>1, <1>2 DEF LoadG, VarGoto, varSems, VarTyped
<1>4. OneTurn'
  BY <1>1, <1>2 DEF LoadG, VarGoto, varSems, VarTyped, OneTurn, InTurn, VarIInv
<1>5. StopCounts'
  BY <1>1, <1>2 DEF LoadG, VarGoto, varSems, VarTyped, Uncounted, AllCounted, StopCounts,
     VarIInv
<1>6. Exchanges'
  BY <1>1, <1>2 DEF LoadG, VarGoto, varSems, VarTyped, Exchanges, Exchange, Idle, AllCounted,
     Uncounted, InTurn, VarIInv
<1>7. RequestsCount'
  BY <1>1, <1>2 DEF LoadG, VarGoto, varSems, VarTyped, RequestsCount, Asked, Unanswered,
     VarIInv, ClientIds
<1> QED BY <1>3, <1>4, <1>5, <1>6, <1>7 DEF VarIInv

LEMMA StoreGKeeps == ASSUME VarIInv, StoreG PROVE VarIInv'
<1>1. /\ \A c \in ClientIds : varPc'[c] = varPc[c]
      /\ varPc' = [u \in ClientIds \cup {Server} |-> varPc'[u]]
  BY VarMoves DEF StoreG, VarIInv, ClientIds, Server
<1>2. Server \notin ClientIds /\ VarTyped
  BY DEF VarIInv, ClientIds, Server
<1>3. VarTyped'
  BY <1>1, <1>2 DEF StoreG, VarGoto, varSems, varLocals, VarTyped
<1>4. OneTurn'
  BY <1>1, <1>2 DEF StoreG, VarGoto, varSems, varLocals, VarTyped, OneTurn, InTurn, VarIInv
<1>5. StopCounts'
  BY <1>1, <1>2 DEF StoreG, VarGoto, varSems, varLocals, VarTyped, Uncounted, AllCounted,
     StopCounts, VarIInv
<1>6. Exchanges'
  BY <1>1, <1>2 DEF StoreG, VarGoto, varSems, varLocals, VarTyped, Exchanges, Exchange, Idle,
     AllCounted, Uncounted, InTurn, VarIInv
<1>7. RequestsCount'
  <2>1. file' = file /\ request' = request + 1 /\ request \in Nat
    BY <1>2 DEF StoreG, varLocals, VarTyped
  <2>2. \A c \in ClientIds :
           Asked(c) \in Int /\ Asked(c)' = Asked(c) + (IF varPc[c] = "wait_r" THEN 1 ELSE 0)
    <3> SUFFICES ASSUME NEW c \in ClientIds
                 PROVE  /\ Asked(c) \in Int
                        /\ Asked(c)' = Asked(c) + (IF varPc[c] = "wait_r" THEN 1 ELSE 0)
      OBVIOUS
    <3>1. Len(Values[c]) - Len(file[c]) \in Int
      BY <1>2, ValuesAssumption DEF VarTyped, ClientIds
    <3>2. /\ varPc[Server] = "store_g" /\ varPc'[Server] = "post_r" /\ sem_ok' = sem_ok
          /\ varPc'[c] = varPc[c]
      BY <1>1, <1>2 DEF StoreG, VarGoto, varSems, VarTyped
    <3>3. varPc[c] = "wait_r" => sem_ok = 0
      BY <3>2 DEF Exchanges, Exchange, VarIInv
    <3>4. /\ Unanswered(c) \in {0, 1}
          /\ Unanswered(c)' = Unanswered(c) - (IF varPc[c] = "wait_r" THEN 1 ELSE 0)
      BY <3>2, <3>3 DEF Unanswered
    <3> DEFINE n == Len(Values[c]) - Len(file[c])
    <3>5. Asked(c) = n - Unanswered(c) /\ Asked(c)' = n - Unanswered(c)'
      BY <2>1 DEF Asked
    <3> HIDE DEF n
    <3>6. n \in Int
      BY <3>1 DEF n
    <3> QED BY <3>4, <3>5, <3>6
  <2>3. ~ (varPc[1] = "wait_r" /\ varPc[2] = "wait_r")
    BY DEF OneTurn, InTurn, VarIInv, ClientIds
  <2> QED BY <2>1, <2>2, <2>3 DEF RequestsCount, VarIInv, ClientIds
<1> QED BY <1>3, <1>4, <1>5, <1>6, <1>7 DEF VarIInv

LEMMA AnswerKeeps == ASSUME VarIInv, Answer PROVE VarIInv'
<1>1. /\ \A c \in ClientIds : varPc'[c] = varPc[c]
      /\ varPc' = [u \in ClientIds \cup {Server} |-> varPc'[u]]
  BY VarMoves DEF Answer, VarIInv, ClientIds, Server
<1>2. Server \notin ClientIds /\ VarTyped
  BY DEF VarIInv, ClientIds, Server
<1>3. VarTyped'
  BY <1>1, <1>2 DEF Answer, VarGoto, varLocals, VarTyped
<1>4. OneTurn'
  BY <1>1, <1>2 DEF Answer, VarGoto, varLocals, VarTyped, OneTurn, InTurn, VarIInv
<1>5. StopCounts'
  BY <1>1, <1>2 DEF Answer, VarGoto, varLocals, VarTyped, Uncounted, AllCounted, StopCounts,
     VarIInv
<1>6. Exchanges'
  BY <1>1, <1>2 DEF Answer, VarGoto, varLocals, VarTyped, Exchanges, Exchange, Idle, AllCounted,
     Uncounted, InTurn, VarIInv
<1>7. RequestsCount'
  BY <1>1, <1>2 DEF Answer, VarGoto, varLocals, VarTyped, RequestsCount, Asked, Unanswered,
     VarIInv, ClientIds
<1> QED BY <1>3, <1>4, <1>5, <1>6, <1>7 DEF VarIInv

LEMMA JoinKeeps == ASSUME VarIInv, Join PROVE VarIInv'
<1>1. /\ \A c \in ClientIds : varPc'[c] = varPc[c]
      /\ varPc' = [u \in ClientIds \cup {Server} |-> varPc'[u]]
  BY VarMoves DEF Join, VarIInv, ClientIds, Server
<1>2. Server \notin ClientIds /\ VarTyped
  BY DEF VarIInv, ClientIds, Server
<1>3. VarTyped'
  BY <1>1, <1>2 DEF Join, VarGoto, varSems, varLocals, VarTyped
<1>4. OneTurn'
  BY <1>1, <1>2 DEF Join, VarGoto, varSems, varLocals, VarTyped, OneTurn, InTurn, VarIInv
<1>5. StopCounts'
  BY <1>1, <1>2 DEF Join, VarGoto, varSems, varLocals, VarTyped, Uncounted, AllCounted,
     StopCounts, VarIInv
<1>6. Exchanges'
  BY <1>1, <1>2 DEF Join, VarGoto, varSems, varLocals, VarTyped, Exchanges, Exchange, Idle,
     AllCounted, Uncounted, InTurn, VarIInv
<1>7. RequestsCount'
  BY <1>1, <1>2 DEF Join, VarGoto, varSems, varLocals, VarTyped, RequestsCount, Asked,
     Unanswered, VarIInv, ClientIds
<1> QED BY <1>3, <1>4, <1>5, <1>6, <1>7 DEF VarIInv

LEMMA VarStart == VarInit => VarIInv
<1> SUFFICES ASSUME VarInit PROVE VarIInv
  OBVIOUS
<1>1. Server \notin ClientIds
  BY DEF ClientIds, Server
<1>2. /\ \A c \in ClientIds : varPc[c] = "fread" /\ file[c] = Values[c]
      /\ varPc[Server] = "while" /\ sem_w = 1 /\ sem_r = 0 /\ sem_ok = 0 /\ stop = 0
      /\ request = 0 /\ file \in [ClientIds -> Seq(Int)]
  BY <1>1, ValuesAssumption DEF VarInit, ClientIds
<1>3. VarTyped
  BY <1>1, <1>2 DEF VarInit, VarTyped, Uncounted
<1>4. OneTurn /\ Exchanges
  BY <1>2 DEF OneTurn, InTurn, Exchanges, Exchange, Idle
<1>5. StopCounts
  BY <1>2 DEF StopCounts, Uncounted
<1>6. \A c \in ClientIds : Asked(c) = 0
  BY <1>2, ValuesAssumption DEF Asked, Unanswered
<1>7. RequestsCount
  BY <1>2, <1>6 DEF RequestsCount, ClientIds
<1> QED BY <1>3, <1>4, <1>5, <1>7 DEF VarIInv

LEMMA VarStep == VarIInv /\ [VarNext]_varVars => VarIInv'
<1> SUFFICES ASSUME VarIInv, [VarNext]_varVars PROVE VarIInv'
  OBVIOUS
<1>1. CASE VarMain
  BY <1>1, WhileKeeps, WaitOkKeeps, LoadGKeeps, StoreGKeeps, AnswerKeeps, JoinKeeps DEF VarMain
<1>2. ASSUME NEW c \in ClientIds, read_file(c) PROVE VarIInv'
  BY <1>2, ReadValueKeeps, WaitTurnKeeps, SetGKeeps, PostOkKeeps, WaitAnswerKeeps,
     GiveTurnKeeps, LoadStopKeeps, StoreStopKeeps, TestStopKeeps DEF read_file
<1>3. CASE UNCHANGED varVars
  <2> USE <1>3 DEF varVars, varSems, varLocals
  <2>1. VarTyped' /\ OneTurn'
    BY DEF VarIInv, VarTyped, OneTurn, InTurn
  <2>2. StopCounts'
    BY DEF VarIInv, StopCounts, AllCounted
  <2>3. Exchanges'
    BY DEF VarIInv, Exchanges, Exchange, Idle, AllCounted, InTurn
  <2>4. RequestsCount'
    BY DEF VarIInv, RequestsCount, Asked, Unanswered
  <2> QED BY <2>1, <2>2, <2>3, <2>4 DEF VarIInv
<1> QED BY <1>1, <1>2, <1>3 DEF VarNext

(* A client prints its own value tripled, and the server does not go before all
   values are answered, for any contents of the files. *)
THEOREM AnswersRight == VarSpec => []AnswerForMe
<1>1. VarIInv => AnswerForMe
  <2> SUFFICES ASSUME VarIInv PROVE AnswerForMe
    OBVIOUS
  <2>1. \A c \in ClientIds : varPc[c] = "print" => g = 3 * app[c]
    BY DEF VarIInv, Exchanges, Exchange
  <2>2. ASSUME varPc[Server] \in {"join", "exit"}
        PROVE  /\ \A c \in ClientIds : file[c] = <<>> /\ varPc[c] \notin {"wait_w", "wait_r"}
               /\ request >= Len(Values[1]) + Len(Values[2])
    <3>1. AllCounted
      BY <2>2 DEF VarIInv, StopCounts
    <3>2. \A c \in ClientIds : file[c] = <<>> /\ Unanswered(c) = 0
      BY <3>1 DEF AllCounted, Uncounted, VarIInv, StopCounts, Unanswered
    <3>3. \A c \in ClientIds : Asked(c) = Len(Values[c])
      <4>1. \A c \in ClientIds : Len(Values[c]) \in Nat
        BY ValuesAssumption DEF ClientIds
      <4>2. Len(<<>>) = 0
        OBVIOUS
      <4>3. \A c \in ClientIds : Len(file[c]) = 0
        BY <3>2, <4>2
      <4>4. \A c \in ClientIds : Asked(c) = Len(Values[c]) - 0 - 0
        BY <3>2, <4>3 DEF Asked
      <4> QED BY <4>1, <4>4
    <3>4. request >= Len(Values[1]) + Len(Values[2])
      BY <3>3 DEF VarIInv, RequestsCount, ClientIds
    <3> QED BY <3>1, <3>2, <3>4 DEF AllCounted, Uncounted
  <2> QED BY <2>1, <2>2 DEF AnswerForMe
<1> QED BY <1>1, VarStart, VarStep, PTL DEF VarSpec
=============================================================================
