----------------------------- MODULE CopyMerge -----------------------------
(* EXAMS/2013-02-16/main.cpp: N workers walk the same directory tree and     *)
(* share its files out by creating them at the destination first.  A copied  *)
(* file is handed, by its name in one shared buffer, to the merging thread,  *)
(* which appends it to data.txt and adds up the counts of the first lines.   *)
EXTENDS Integers, FiniteSets, FiniteSetsExt, Sequences

CONSTANTS
    N,         \* number of workers
    Walk,      \* what FindFirstFile and FindNextFile yield, level by level: a
               \* directory's entries follow it; each has name, path, isDir
    Content,   \* per path of a file, its characters ("c", " " or "\n")
    AtStart,   \* the sets of paths the destination may hold at the start
    NoWorker   \* owner of a free critical section

Workers == 0 .. N - 1
Paths == {Walk[k].path : k \in DOMAIN Walk}
FilePaths == {Walk[k].path : k \in {j \in DOMAIN Walk : ~ Walk[j].isDir}}

CopyAssumption ==
    /\ N \in Nat \ {0} /\ NoWorker \notin Workers
    /\ Len(Walk) \in Nat /\ DOMAIN Walk = 1 .. Len(Walk)
    /\ \A k \in DOMAIN Walk : Walk[k].isDir \in BOOLEAN
    /\ \A f \in FilePaths : IsFiniteSet(DOMAIN Content[f])
    /\ AtStart \subseteq SUBSET Paths
Main == -1
Merger == -2
Zero == [k \in 1 .. 3 |-> 0]
Plus(a, b) == [k \in 1 .. 3 |-> a[k] + b[k]]

VARIABLES
    destination,  \* path |-> the copy's first line (Zero until written)
    cs_check_file_presence, cs_set_file_name_for_merge,   \* owner, or NoWorker
    name_for_merge,
    sem_finish, sem_go_ahead,   \* per worker
    is_done,
    number,       \* number[w]: characters, lines, words counted by w
    entry,        \* the entry of Walk that w is at
    copyPc,
    res, copied_name, n123, n456,  \* locals of th_merge
    data          \* data.txt: its first line, the names appended, and how many of
                  \* their characters the first line has run over

locks == <<cs_check_file_presence, cs_set_file_name_for_merge>>
sems == <<sem_finish, sem_go_ahead>>
merge == <<is_done, res, copied_name, n123, n456, data>>
copyVars == <<destination, locks, name_for_merge, sems, number, entry, copyPc, merge>>

CopyInit ==
    /\ \E S \in AtStart : destination = [p \in S |-> Zero]
    /\ cs_check_file_presence = NoWorker /\ cs_set_file_name_for_merge = NoWorker
    /\ name_for_merge = ""
    /\ sem_finish = [w \in Workers |-> 0] /\ sem_go_ahead = [w \in Workers |-> 0]
    /\ is_done = FALSE
    /\ number = [w \in Workers |-> Zero]
    /\ entry = [w \in Workers |-> 1]
    /\ copyPc = [t \in Workers \cup {Main, Merger} |->
                CASE t = Main -> "join" [] t = Merger -> "wait" [] OTHER -> "entry"]
    /\ res = 0 /\ copied_name = "" /\ n123 = Zero /\ n456 = Zero
    /\ data = [line |-> Zero, body |-> <<>>, overrun |-> 0]

CopyGoto(t, from, to) ==
    /\ copyPc[t] = from
    /\ copyPc' = [copyPc EXCEPT ![t] = to]

-----------------------------------------------------------------------------
(* Helpers *)

FileType(e) ==
    IF e.isDir THEN IF e.name \in {".", ".."} THEN "TYPE_DOT" ELSE "TYPE_DIR"
               ELSE "TYPE_FILE"

(* Where a text has a character, the end of a line, and a word.  A word starts at a
   character that is no blank and follows none in its line, which is looked at when
   its end is read: what follows the last one counts as characters only. *)
LineEnds(text) == {i \in DOMAIN text : text[i] = "\n"}
Words(text) ==
    {i \in DOMAIN text \ LineEnds(text) :
        /\ text[i] # " "
        /\ i = 1 \/ text[i - 1] = " " \/ i - 1 \in LineEnds(text)
        /\ \E j \in LineEnds(text) : i < j}
Positions(text) == <<DOMAIN text, LineEnds(text), Words(text)>>
Counts(text) == [k \in 1 .. 3 |-> Cardinality(Positions(text)[k])]

(* Digits of a number as "%d" prints it, of 32 bits *)
Tens == <<10, 100, 1000, 10000, 100000, 1000000, 10000000, 100000000, 1000000000>>
Digits(n) == 1 + Cardinality({d \in 1 .. 9 : Tens[d] <= n})
Width(line) == Digits(line[1]) + Digits(line[2]) + Digits(line[3])

Here(w) == Walk[entry[w]]
At(w, type) == entry[w] <= Len(Walk) /\ FileType(Here(w)) = type
NextEntry(w) == entry' = [entry EXCEPT ![w] = @ + 1]

-----------------------------------------------------------------------------
(* th_work *)

SkipDot(w) ==
    /\ At(w, "TYPE_DOT")
    /\ CopyGoto(w, "entry", "entry")
    /\ NextEntry(w)
    /\ UNCHANGED <<destination, locks, name_for_merge, sems, number, merge>>

EnterCheckUnguarded(w) ==
    /\ At(w, "TYPE_FILE")
    /\ CopyGoto(w, "entry", "exists")
    /\ cs_check_file_presence' = w
    /\ UNCHANGED <<destination, cs_set_file_name_for_merge, name_for_merge, sems, number, entry,
                   merge>>
EnterCheck(w) ==
    /\ At(w, "TYPE_FILE")
    /\ cs_check_file_presence = NoWorker
    /\ CopyGoto(w, "entry", "exists")
    /\ cs_check_file_presence' = w
    /\ UNCHANGED <<destination, cs_set_file_name_for_merge, name_for_merge, sems, number, entry,
                   merge>>

(* Another worker has the file, or had it in an earlier run, or it is new *)
FileExists(w) ==
    /\ CopyGoto(w, "exists", "entry")
    /\ Here(w).path \in DOMAIN destination
    /\ cs_check_file_presence' = NoWorker
    /\ NextEntry(w)
    /\ UNCHANGED <<destination, cs_set_file_name_for_merge, name_for_merge, sems, number, merge>>
FileAbsent(w) ==
    /\ CopyGoto(w, "exists", "create")
    /\ Here(w).path \notin DOMAIN destination
    /\ UNCHANGED <<destination, locks, name_for_merge, sems, number, entry, merge>>

Write(path, line) ==
    destination' = [p \in DOMAIN destination \cup {path} |->
                       IF p = path THEN line ELSE destination[p]]

CreateFile(w) ==
    /\ CopyGoto(w, "create", "count")
    /\ Write(Here(w).path, Zero)
    /\ cs_check_file_presence' = NoWorker
    /\ UNCHANGED <<cs_set_file_name_for_merge, name_for_merge, sems, number, entry, merge>>

Count(w) ==
    /\ CopyGoto(w, "count", "copy")
    /\ number' = [number EXCEPT ![w] = Plus(@, Counts(Content[Here(w).path]))]
    /\ UNCHANGED <<destination, locks, name_for_merge, sems, entry, merge>>

Copy(w) ==
    /\ CopyGoto(w, "copy", "set")
    /\ Write(Here(w).path, number[w])
    /\ UNCHANGED <<locks, name_for_merge, sems, number, entry, merge>>

EnterSet(w) ==
    /\ cs_set_file_name_for_merge = NoWorker
    /\ CopyGoto(w, "set", "name")
    /\ cs_set_file_name_for_merge' = w
    /\ UNCHANGED <<destination, cs_check_file_presence, name_for_merge, sems, number, entry,
                   merge>>

SetName(w) ==
    /\ CopyGoto(w, "name", "finish")
    /\ name_for_merge' = Here(w).path
    /\ UNCHANGED <<destination, locks, sems, number, entry, merge>>

ReleaseFinish(w) ==
    /\ CopyGoto(w, "finish", "go_ahead")
    /\ sem_finish' = [sem_finish EXCEPT ![w] = @ + 1]
    /\ UNCHANGED <<destination, locks, name_for_merge, sem_go_ahead, number, entry, merge>>

WaitGoAheadNot(w) ==
    /\ CopyGoto(w, "go_ahead", "leave")
    /\ UNCHANGED <<destination, locks, name_for_merge, sems, number, entry, merge>>
WaitGoAhead(w) ==
    /\ sem_go_ahead[w] > 0
    /\ CopyGoto(w, "go_ahead", "leave")
    /\ sem_go_ahead' = [sem_go_ahead EXCEPT ![w] = @ - 1]
    /\ UNCHANGED <<destination, locks, name_for_merge, sem_finish, number, entry, merge>>

LeaveSet(w) ==
    /\ CopyGoto(w, "leave", "entry")
    /\ cs_set_file_name_for_merge' = NoWorker
    /\ number' = [number EXCEPT ![w] = Zero]
    /\ NextEntry(w)
    /\ UNCHANGED <<destination, cs_check_file_presence, name_for_merge, sems, merge>>

(* Two workers may both find the directory missing: the second CreateDirectory
   fails, and neither looks at the result. *)
DirectoryExists(w) ==
    /\ At(w, "TYPE_DIR")
    /\ IF Here(w).path \in DOMAIN destination
         THEN CopyGoto(w, "entry", "entry") /\ NextEntry(w)
         ELSE CopyGoto(w, "entry", "mkdir") /\ UNCHANGED entry
    /\ UNCHANGED <<destination, locks, name_for_merge, sems, number, merge>>

CreateDirectory(w) ==
    /\ CopyGoto(w, "mkdir", "entry")
    /\ destination' = [p \in DOMAIN destination \cup {Here(w).path} |->
                          IF p \in DOMAIN destination THEN destination[p] ELSE Zero]
    /\ NextEntry(w)
    /\ UNCHANGED <<locks, name_for_merge, sems, number, merge>>

th_work(w) ==
    \/ SkipDot(w) \/ EnterCheck(w) \/ FileExists(w) \/ FileAbsent(w) \/ CreateFile(w)
    \/ Count(w) \/ Copy(w) \/ EnterSet(w) \/ SetName(w) \/ ReleaseFinish(w)
    \/ WaitGoAhead(w) \/ LeaveSet(w) \/ DirectoryExists(w) \/ CreateDirectory(w)

-----------------------------------------------------------------------------
(* th_merge *)

workers == <<destination, locks, name_for_merge, number, entry>>

(* WaitForMultipleObjects: the first of the semaphores that can be taken *)
WaitFinish ==
    /\ \E w \in Workers : sem_finish[w] > 0
    /\ LET w == Min({v \in Workers : sem_finish[v] > 0})
       IN  res' = w /\ sem_finish' = [sem_finish EXCEPT ![w] = @ - 1]
    /\ CopyGoto(Merger, "wait", "done?")
    /\ UNCHANGED <<workers, sem_go_ahead, is_done, copied_name, n123, n456, data>>

StopOrTakeName ==
    /\ IF is_done THEN CopyGoto(Merger, "done?", "returned") /\ UNCHANGED copied_name
                  ELSE CopyGoto(Merger, "done?", "release") /\ copied_name' = name_for_merge
    /\ UNCHANGED <<workers, sems, is_done, res, n123, n456, data>>

ReleaseGoAhead ==
    /\ CopyGoto(Merger, "release", "read")
    /\ sem_go_ahead' = [sem_go_ahead EXCEPT ![res] = @ + 1]
    /\ UNCHANGED <<workers, sem_finish, is_done, res, copied_name, n123, n456, data>>

(* Both first lines are read; an empty data.txt leaves the sum as it was. *)
ReadFirstLines ==
    /\ CopyGoto(Merger, "read", "write")
    /\ n123' = destination[copied_name]
    /\ n456' = Plus(IF data.body = <<>> THEN n456 ELSE data.line, destination[copied_name])
    /\ UNCHANGED <<workers, sems, is_done, res, copied_name, data>>

(* The sum is written over the start of data.txt: a line longer than the old
   one runs over the text behind it. *)
WriteFirstLine ==
    /\ CopyGoto(Merger, "write", "append")
    /\ data' = [data EXCEPT !.line = n456,
                            !.overrun = IF data.body = <<>> THEN 0
                                        ELSE @ + Width(n456) - Width(data.line)]
    /\ UNCHANGED <<workers, sems, is_done, res, copied_name, n123, n456>>

AppendContent ==
    /\ CopyGoto(Merger, "append", "wait")
    /\ data' = [data EXCEPT !.body = Append(@, copied_name)]
    /\ UNCHANGED <<workers, sems, is_done, res, copied_name, n123, n456>>

th_merge == WaitFinish \/ StopOrTakeName \/ ReleaseGoAhead \/ ReadFirstLines
            \/ WriteFirstLine \/ AppendContent

-----------------------------------------------------------------------------
(* main *)

Returned(w) == copyPc[w] = "entry" /\ entry[w] > Len(Walk)

JoinOne ==
    /\ \E w \in Workers : Returned(w)
    /\ CopyGoto(Main, "join", "stop")
    /\ is_done' = TRUE
    /\ UNCHANGED <<workers, sems, res, copied_name, n123, n456, data>>
JoinWorkers ==
    /\ \A w \in Workers : Returned(w)
    /\ CopyGoto(Main, "join", "stop")
    /\ is_done' = TRUE
    /\ UNCHANGED <<workers, sems, res, copied_name, n123, n456, data>>

(* to_stop is drawn *)
ReleaseToStop ==
    /\ CopyGoto(Main, "stop", "join_merge")
    /\ \E to_stop \in Workers : sem_finish' = [sem_finish EXCEPT ![to_stop] = @ + 1]
    /\ UNCHANGED <<workers, sem_go_ahead, merge>>

JoinMerge ==
    /\ copyPc[Merger] = "returned"
    /\ CopyGoto(Main, "join_merge", "exit")
    /\ UNCHANGED <<workers, sems, merge>>

main == JoinWorkers \/ ReleaseToStop \/ JoinMerge

Exited == copyPc[Main] = "exit"

CopyNext == main \/ th_merge \/ (\E w \in Workers : th_work(w)) \/ (Exited /\ UNCHANGED copyVars)

CopySpec == CopyInit /\ [][CopyNext]_copyVars

(* Every thread is scheduled, and the walk is finite: a step that can be taken
   is eventually taken by someone, and only finitely many come before it. *)
FairCopySpec == CopySpec /\ WF_copyVars(CopyNext)

-----------------------------------------------------------------------------
(* Properties *)

Merged == {data.body[i] : i \in DOMAIN data.body}

CopyTypeOK ==
    /\ DOMAIN destination \subseteq Paths
    /\ {cs_check_file_presence, cs_set_file_name_for_merge} \subseteq Workers \cup {NoWorker}
    /\ name_for_merge \in Paths \cup {""} /\ copied_name \in Paths \cup {""}
    /\ sem_finish \in [Workers -> 0 .. 1] /\ sem_go_ahead \in [Workers -> 0 .. 1]
    /\ is_done \in BOOLEAN /\ res \in Workers
    /\ entry \in [Workers -> 1 .. Len(Walk) + 1]
    /\ data.overrun >= 0

(* A finished file reaches the merger while its worker waits: the name in the
   shared buffer is that worker's, and the copy it names is complete. *)
HandOver ==
    /\ CopyTypeOK
    /\ \A w \in Workers : sem_finish[w] > 0 /\ ~ is_done =>
          copyPc[w] = "go_ahead" /\ name_for_merge = Here(w).path
    /\ copyPc[Merger] = "release" => copyPc[res] = "go_ahead" /\ copied_name = Here(res).path
    /\ copyPc[Merger] = "read" => destination[copied_name] = Counts(Content[copied_name])

(* data.txt holds every merged file once, and its first line says how many
   characters, lines and words they have together. *)
TotalsMatchBody ==
    /\ \A j, k \in DOMAIN data.body : data.body[j] = data.body[k] => j = k
    /\ copyPc[Merger] # "append" =>
          data.line = [k \in 1 .. 3 |->
                          Cardinality(UNION {{p} \X Positions(Content[p])[k] : p \in Merged})]

(* What must be true when the program ends: every file it copied has been merged,
   and is_done never overtakes a file on its way to the merger. *)
CopiesMerged == \A p \in DOMAIN destination : destination[p] # Zero => p \in Merged
=============================================================================
