--------------------------- MODULE MCSharedFiles ---------------------------
(* Three programs whose threads share files, one of which runs: the account  *)
(* update (see MCAccountUpdate), the readers and writers, with three threads *)
(* on two servers of two files, and the copy and merge, with two workers.    *)
EXTENDS MCAccountUpdate, ReadersWriters, CopyMerge
CONSTANTS s1, s2
TwoServers == {s1, s2}

Entry(name, path, isDir) == [name |-> name, path |-> path, isDir |-> isDir]
Tree == <<Entry(".", ".", TRUE), Entry("a", "a", FALSE), Entry("d", "d", TRUE),
          Entry(".", "d/.", TRUE), Entry("b", "d/b", FALSE), Entry("z", "z", FALSE)>>
Text == [f \in {"a", "d/b", "z"} |->
    CASE f = "a" -> <<"c", " ", " ", "c", "\n", "c", "\n">>
      [] f = "d/b" -> <<"\n", " ", "c", "c", "\n">>
      [] f = "z" -> <<"c", "c">>]
Starts == {{}, {"a"}}

VARIABLE
    running     \* the program that runs; the others stay in their initial states

ASSUME DirectoryAssumption /\ CopyAssumption

InitPrograms ==
    /\ running \in {"accounts", "directories", "copy"}
    /\ Init /\ (running # "accounts" => program = "E01")
    /\ DirInit /\ (running # "directories" =>
                    server = [t \in Visitors |-> s1] /\ role = [t \in Visitors |-> "reader"])
    /\ CopyInit /\ (running # "copy" => DOMAIN destination = {})

AccountStep(t) == running = "accounts" /\ work(t) /\ UNCHANGED <<running, dirVars, copyVars>>
AccountsEnd == running = "accounts" /\ Done /\ UNCHANGED <<running, vars, dirVars, copyVars>>
DirectoryStep(t) == running = "directories" /\ thWork(t) /\ UNCHANGED <<running, vars, copyVars>>
CopyStep == running = "copy" /\ CopyNext /\ UNCHANGED <<running, vars, dirVars>>
NextPrograms ==
    \/ (\E t \in Threads : AccountStep(t)) \/ AccountsEnd
    \/ \E t \in Visitors : DirectoryStep(t)
    \/ CopyStep

SpecPrograms ==
    /\ InitPrograms
    /\ [][NextPrograms]_<<running, vars, dirVars, copyVars>>
    /\ \A t \in Threads : WF_<<running, vars, dirVars, copyVars>>(AccountStep(t))
    /\ \A t \in Visitors : WF_<<running, vars, dirVars, copyVars>>(DirectoryStep(t))
    /\ WF_<<running, vars, dirVars, copyVars>>(CopyStep)

-----------------------------------------------------------------------------

(* The programs end: the operation files are worked off whatever locks they meet
   on; the threads in the directories all leave, unless a reader has kept csOut;
   and main stops the merger when every file that was copied has been merged. *)
ProgramsEnd ==
    <>(CASE running = "accounts" -> Done
         [] running = "directories" -> Ended \/ OutLost
         [] running = "copy" -> Exited /\ CopiesMerged)
=============================================================================
