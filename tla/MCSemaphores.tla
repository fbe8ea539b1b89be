---------------------------- MODULE MCSemaphores ----------------------------
(* Processes that wait for one another, and the xv6 kernel: of the month     *)
(* barrier, a program that uses the kernel's semaphores and two processes    *)
(* that use its files, one runs.                                             *)
EXTENDS MonthBarrier, Xv6Semaphore, Xv6Files

(* Statements with distinct sums *)
DistinctMovements == [t \in Accounts |-> [m \in Months |-> 10 * t + m - 2]]

(* "a" asks for a semaphore of value 2 and forks those who post and wait; at
   the end it goes over the two semaphores there are. *)
Calling(name) == <<name, 0>>
Forks == <<Calling("sem_alloc"), <<"sem_init", 2>>, <<"fork", "v">>, <<"fork", "w">>,
           <<"fork", "b">>, <<"fork", "c">>, Calling("sem_wait"), <<"wait", "b">>, <<"wait", "c">>,
           <<"wait", "v">>, <<"wait", "w">>, Calling("sem_destroy"), Calling("sem_alloc"),
           Calling("sem_alloc")>>
Processes == {"a", "b", "c", "v", "w"}
Programs == [p \in Processes |->
    CASE p = "a" -> Forks
      [] p = "b" -> <<Calling("sem_post"), Calling("sem_post")>>
      [] p = "c" -> <<Calling("sem_post"), Calling("sem_post"), Calling("sem_wait")>>
      [] p = "v" -> <<Calling("sem_wait")>>
      [] p = "w" -> <<Calling("sem_wait"), Calling("sem_post"), Calling("sem_wait")>>]

TwoLevels == {<<"f">>, <<"d">>, <<"d", "f">>}
ReadOrBoth == {<<TRUE, FALSE>>, <<TRUE, TRUE>>}

VARIABLE running    \* what runs; the others stay in their initial states

InitPrograms == running \in {"barrier", "semaphores", "files"} /\ Init /\ SemInit /\ FileInit

BarrierStep(t) == running = "barrier" /\ th_work(t) /\ UNCHANGED <<running, semVars, fileVars>>
ProcessStep(p) == running = "semaphores" /\ Step(p) /\ UNCHANGED <<running, vars, fileVars>>
FileStep == running = "files" /\ FileNext /\ UNCHANGED <<running, vars, semVars>>
(* The bounds of Xv6Files may stop its processes anywhere. *)
End ==
    /\ CASE running = "barrier" -> Done
         [] running = "semaphores" -> Stopped
         [] running = "files" -> TRUE
    /\ UNCHANGED <<running, vars, semVars, fileVars>>
NextPrograms ==
    \/ \E t \in Accounts : BarrierStep(t)
    \/ \E p \in Procs : ProcessStep(p)
    \/ FileStep \/ End

SpecPrograms ==
    /\ InitPrograms
    /\ [][NextPrograms]_<<running, vars, semVars, fileVars>>
    /\ \A t \in Accounts : WF_<<running, vars, semVars, fileVars>>(BarrierStep(t))
    /\ \A p \in Procs : WF_<<running, vars, semVars, fileVars>>(ProcessStep(p))

-----------------------------------------------------------------------------

(* Every account gets through every month, and every process exits unless the
   kernel panics: nobody is left asleep. *)
NobodyLeft ==
    <>(CASE running = "barrier" -> Done
         [] running = "semaphores" -> panic \/ \A p \in Procs : status[p] = "exited"
         [] running = "files" -> TRUE)
=============================================================================
