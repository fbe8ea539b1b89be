# Formal models of SDP-POLITO

The repository is a collection of small concurrent programs (POSIX threads, Win32 threads,
one xv6 kernel extension, one Linux character device) written for the course "System and
Device Programming". Every program is a system of its own; what they share is a set of
synchronisation patterns: counting semaphores, bounded ring buffers, rendezvous, barriers,
readers/writers, worker pools with a termination flag. The models follow the programs, one
module per program, and an abstract specification per pattern.

## 1. Inventory

State, operations, interaction, hazards and correctness of each part (paths under `src/`).

| Component | State | Operations | What is hard | What makes it correct |
|---|---|---|---|---|
| Bounded buffer `LAB10/E05.cpp` | ring (`buffer,size,read,write`), semaphores `fillCount`/`emptyCount`, critical sections `csP`, `csC` | `Producer`, `Consumer`, `insert`, `remove`, `visit` | producers and consumers hold *different* critical sections, so `insert` and `remove` overlap; the read-modify-write of `write`/`read` must not | an item is neither lost nor overwritten nor delivered twice; FIFO; a slot is never written while it is read; nobody waits for ever |
| Priority semaphore `EXAMS/2011-09-14/main.c` | `cnt`, sorted list of waiters with private semaphores, pipe | `ps_wait`, `ps_signal`, `enqueue_sorted`, `dequeue_sorted`, worker loop `th_work`, logger loop in `main` | waiter published before it sleeps; the three `write`s of a log triple (108-110, 115-117) are separate and interleave with other threads' | highest class first, FIFO in a class; `cnt < 0` iff `-cnt` waiters queued; no lost wakeup; the logger reads whole triples (it does not) |
| xv6 semaphores `LAB05/semaphore.c`, `sysfile.c`, `st.c` | `table.v_sem[]`, `vet_assigned[]`, `semaphore_count`, one spinlock per semaphore, sleep channels | `sem_alloc/init/destroy/wait/post` | `sem_post` wakes only when the counter is >= 0 (132); `semaphore_count` is used as the next free index (49) and decremented by any destroy (97); the handlers take what `argint` returns for the argument (`sysfile.c:451`) | a wait is passed only when a post has paid for it; nobody sleeps on for ever |
| xv6 kernel files `LAB05/file.c`, `sysfile.c` | table of open files, descriptors, inodes with links and references | `open`, `close`, `dup`, `read`, `write`, `link`, `unlink`, `mkdir`, `mknod`, `pipe` | paths are looked up before the transaction of `link` and `unlink`; a call that fails half way must give back what it took; tables at their limits | an open file counts its descriptors, an inode its users and its names |
| Circle line `EXAMS/2013-07-22/main.c` | per-station track semaphores (two directions), per-link semaphores, trains | `work` loop: wait at station, take link, leave, travel, arrive, free link | forward trains free link `station` after the increment (122), not the one they took (96,99); the destination track is not reserved before leaving | one train per track and per link; no train is stuck for ever |
| Account update `LAB10/E01..E04.cpp` | account file of records, per-thread operation files; row lock, mutex, critical section or semaphore | `work`: lock, read record, add, write record, unlock | read-modify-write of a shared record; E04 waits on a file *name* (178) and releases a pointer (190) | every operation is applied exactly once; final balance is the sum |
| Month barrier `EXAMS/2015-01-21/main.cpp` | `finish_reading`, per-thread semaphores `sem_finish_calculating`, `sem_can_go_ahead`, output file matrix | `th_work` | the first arrival of each month is elected leader and resets the election flag before it releases the others | nobody starts month m+1 before all have written month m; exactly one leader a month; no thread left behind |
| Readers/writers `LAB11/E01.cpp` | `readCount[]`, `rmutex[]`, `resource[]` | `thWork`, reader or writer branch | the last reader, not the first, may release `resource`; writers may starve; error returns inside the critical section `csOut` (360) leave it held | writers exclusive, readers shared |
| File pipeline `EXAMS/2016-07-01/main.cpp` (= `LAB12/E01.cpp`) | `N` ring queues A and B, semaphores fill/empty, flags `isDoneA/B`, opened-file table | `ThAWork`, `ThBWork`, `ThCWork`, shutdown in `_tmain` | the done flag is read after the wait and before the queue is drained (428); pointer into the ring used after the lock is released (473); early return -2 holding `csFileOpening` (353); `ReleaseSemaphore(fillAB,N)` fails when the count would exceed `N` (300) | each record of each input file reaches an output file; all threads stop |
| Task queues `EXAMS/2012-02-28/main.cpp` | `Q` ring queues, `full[]`/`empty[]`, `is_done`, locked input file | `client_work`, `server_work`, `select_queue`, shutdown | servers leave when `is_done` even with queued tasks (239); all wake-ups go to `full[0]` (155), capped at 10 | each task of a known client with a matching duration runs once |
| Copy and merge `EXAMS/2013-02-16/main.cpp` | destination tree, `name_for_merge`, per-thread rendezvous semaphores, `data.txt` | `th_work` (recursive), `th_merge`, shutdown | the merge thread copies the shared name before it lets the worker go; several copies of one file name in the trees | each distinct file is copied and merged exactly once, totals add up |
| Car trade statistics `EXAMS/2014-01-24/main.cpp` | shared record offset, per-thread tables, per-thread output files | `th_work`, `is_there`, `get_index`, final merge | the tables are reallocated per product; the branch counter increments the *date* table (287) | each product is processed once; the reported date/branch is the most frequent |
| Polling station `EXAMS/2014-07-03/main.cpp` | voters' ring, male/female one-place buffers, station queue (one ring, `n` semaphore pairs), `hashFreeStation` | `checkSex`, `male`, `female`, `station`, shutdown | full station table indexes past the end (348-351); the ring is shared by stations holding different locks; `isDone` is set before the last voter is registered (244) | each voter votes once |
| Metro `EXAMS/2017-07-17/main.c` | passenger rings per station, rings per arrival station shared by all trains, `num_passenger_per_station`, pipes | `train_work`, `passenger_work`, `station_work` | passengers keyed by arrival station and not by train, so one train unloads another's passengers; `removee` returns a pointer to a reusable slot; the last station is skipped (336) | passengers leave the train they boarded at their destination; everyone arrives |
| A/B file pairs `EXAMS/2015-06-25/concurrent_file_processing.c` | counters `cnt_a`, `cnt_b`, id arrays, semaphores `sa`, `sb` (2) | `thAproc`, `thBproc` | counters updated with no lock by two threads of a type; both last threads may see the total of 4 | one merge per two pairs (there may be two) |
| Salt `EXAMS/2016-09-12/main.c` (does not compile) | `c_na`, `c_cl`, semaphores `na`, `cl`, `printna`, `printcl` | `atomOfSodium`, `atomOfClhorine` | the partner's id is read after the partner may have left and been replaced | both atoms of a molecule print the same pair |
| Shared variable server `LAB01/E2.c` | `g`, `request`, `stop`, semaphores `w`, `r`, `ok` | `read_file` (2 clients), server loop | `stop++` unsynchronised; the final `ok` may or may not be consumed, `request - 1` assumes it is | every value is tripled before its client reads it; the printed count is the number of requests; the server stops |
| Timed wait `LAB02/E01.c` | semaphore, `pidTh2` | `th1Func`, `th2Func` | alarm sent to a pid which is the whole process | a signal before the deadline gives the normal return |
| ABB rounds `LAB02/E02.c`, pairs `LAB02/E03.c` | counters under a mutex, semaphores per kind | `procA/B`, `proc1/2` | posts of a round and their order; loop condition read outside the mutex | each line has one A and two B; each thread prints its rounds |
| Parallel quicksort `LAB03/E01.c`, matrix product `LAB03/E02.c` | `v[]`; `mr`, `count` | `quicksort`, `func`, `print` | children work on disjoint parts of one array; the product's array of thread ids is sized `nc1*nr2` and filled up to `nr1*nc2` (127-130) | sorted permutation; product printed when complete |
| Chardev `LAB06/E02.c` | `char_dev_buf`, `index`, mutex `me` | open, read, write, release | `index` is never reset (291-293), reads clear the buffer | reader gets what was written |
| Directory compare `LAB09/E02.cpp` | name per reader, two shared counting semaphores, `terminate` | `TraverseDirectoryRecursive`, `Comparing` | `terminate++` unsynchronised and read twice by the comparer; the shared semaphores can be taken by the wrong thread | equal trees are reported equal, the comparer ends |
| Merge sort of files `LAB09/E01.cpp` | arrays of handles and data | `WorkTh`, `merge`, `GetNewArrayOf*` | both arrays must be compacted alike; `main` copies records that threads are still to fill in (85); `compare` compares addresses, so that nothing is sorted (233) | each number is in the result once |
| Student file programs `LAB07`, `LAB08`, `LAB01/E1.c` | a record file | search, overwrite | mostly file I/O | the record found is the record overwritten |

## 2. Plan

What is done, in the order it was written; modules of a line belong together, an abstract
specification is named in parentheses. Theorems of components that are of a kind are in one
module.

| | Modules | State |
|---|---|---|
| 1 | `BoundedBuffer` (`FifoChannel`), `BoundedTables_proofs` | modelled, safety and refinement proved |
| 2 | `MonthBarrier` (`CyclicBarrier`), `Xv6Semaphore`, `Semaphores_proofs` | modelled, safety and refinement proved |
| 2 | `PrioritySemaphore` (`PriorityGate`), `CircleLine`, `WaitingLines_proofs` | modelled, safety and refinement proved |
| 2 | `ReadersWriters`, `AccountUpdate` (`Ledger`), `CopyMerge`, `SharedFiles_proofs` | modelled, safety and refinement proved |
| 3 | `FilePipeline`, `FilePipeline_proofs` | modelled, safety proved |
| 3 | `TaskQueues` (`TaskPool`), `TaskQueues_proofs` | modelled, safety and refinement proved |
| 4 | `PollingStation`, `PollingStation_proofs` | modelled, safety proved |
| 5 | `Metro`, `Metro_proofs` | modelled, safety proved |
| 5 | `DirectoryCompare`, `CarStatistics` | modelled |
| 6 | `Xv6Files`, in `BoundedTables_proofs` | partly modelled, safety proved |
| 7 | `SharedVariable`, `LetterRounds`, in `Semaphores_proofs` | modelled, safety proved |
| 7 | `FilePairs`, `Quicksort`, `MergeFiles` | modelled |

Of the invariants that runs check, no theorem states `DateOfMostSales` and `EachInputOnce`, for
which sums over sequences need induction (section 7).

## 3. From the code to the modules

A thread is a model value or a number with a label `pc[t]`; `Goto(t, from, to)` moves it. A
step is one blocking call, or one access to data that another thread may touch at the same
time; accesses that a lock protects in every execution are merged only where nobody else
looks at the data. Local variables are functions over threads and keep the names of the code
(`r`, `index`, `im_first`, `fileData`). A thread that failed its last call of a kind is at a
label of its own and keeps what it holds, as in the code. Win32 semaphores have a maximum, at
which a release adds nothing; POSIX semaphores have none. What is printed, and how long a
thread sleeps, is left out.

### BoundedBuffer (`LAB10/E05.cpp`)

`buffer`, `read`, `write` are the fields of `QUEUE`; `emptyCount`, `fillCount` the counters
of the semaphores; `csP`, `csC` the owners of the critical sections. `Producer` is
wait, enter, store, forward, leave, release; `Consumer` mirrors it and ends with `visit`.
`insert` and `remove` are two steps each, since they hold different critical sections and
overlap. `visit` walks the ring with `pos = pos++`, whose effect is undefined before C++17:
the constant `VisitEnds` chooses whether a consumer comes back from it.

### PrioritySemaphore (`EXAMS/2011-09-14/main.c`)

`sem_list` is the sorted list, as a sequence of threads; `posted[t]` the thread's private
semaphore; `pipe` what was written and not read. `WaitCount`, `WaitUnlock` and `Block` are
the three parts of `ps_wait`: between the last two the mutex is free and the thread is
already in the list. A report is three `write`s, the logger three `read`s.

### MonthBarrier (`EXAMS/2015-01-21/main.cpp`)

`finish_reading` is the semaphore that guards the election, `is_first` its result, the two
arrays of semaphores those of the leader and of the others. `output_file` is the file as a
function from positions to integers, `month_pos` and `account_pos` the offsets the code
computes. A monthly statement is the sum of its records.

### ReadersWriters (`LAB11/E01.cpp`)

`resource[s]`, `rmutex[s]`, `readCount[s]` of each server, `csOut` for the output. A
directory is a function from its files to how often each was modified. A reader that cannot
open a file returns with `csOut` held (362); threads draw their role and server, as `rand()`
does.

### AccountUpdate (`LAB10/E01.cpp`, `E03.cpp`, `E04.cpp`)

The three programs differ in what surrounds the update: `Guards` is the lock on the record,
the mutex or, for E04, nothing, because it waits for a file name. `program` is drawn in
`Init`. A thread is done at the end of its operation file.

### CircleLine (`EXAMS/2013-07-22/main.c`)

`s_station[d][k]` and `s_station_change[k]` are the semaphores. `work` is: enter the station,
take the connecting track, leave the station, arrive. `NextStation` is the index after the
increment or decrement and `RailGivenBack` the track posted with it (115-134), both as the
code computes them.

### FilePipeline (`EXAMS/2016-07-01/main.cpp`)

Two stages, "AB" and "BC", each with N rings, one pair of semaphores, one critical section and a
flag, so that the actions around `insert` and `remove` are written once and used for both. A
thread that is to extract draws queues until it comes to one that is not empty (`NonEmpty`); if
there is none it would draw for ever. `extractedValue` of a B or C is a *place* in a ring, not a
record: B works on a pointer into the ring, and `Target` is what it points at. `WakeAll` is one
release of N permits, which adds all of them or none. `RecordsIntact` is about the records read
so far (`WasRead`), which are as many as were put into the rings or are about to be. Two
definitions are mapped to `LAB12/E01.cpp`, a copy of the same program.

### TaskQueues (`EXAMS/2012-02-28/main.cpp`)

Q rings of `SIZE_QUEUE` slots, each with two semaphores and two critical sections. A ring
holds numbers of records of the input file. A record is locked while it is read, but nobody
writes the file, so reading it is one step. `WaitForMultipleObjects` returns the lowest
index that has a permit. The file's settings are constants; `QueuesAssumption` states that
there are no more servers than clients (line 100 allocates one server's descriptor per
client) nor than a semaphore can hold. `TaskPool` keeps for each client the set of its tasks that
are still to be queued; the next one is the smallest, since the file is read in order.

### PollingStation (`EXAMS/2014-07-03/main.cpp`)

`male` and `female` are the same code for two desks: one set of actions, with the sex as a
parameter. `desk`, `full`, `empty` and `cs` are the one-place buffer of a desk, `hashFreeStation`,
`fullQueueM`, `emptyQueueM` and `csQueueM` belong to the stations. The first ring is filled before
the threads start, by a loop that does not look whether it is full: `Loaded` is what is left in it.
The second ring is used by registrars and stations that hold the critical sections of *different*
stations, so that each index is loaded and stored in two steps. The comparison of the two indices in
`remove` (483) loads them one after the other, in an order the language leaves open (`RemoveFirst`,
`RemoveCompare`). The content of this ring is only printed and is left out. A use of
`hashFreeStation` is one step, since all are made under `csHashFreeStation`. To look for a free
station when there is none (`NoneFree`) writes behind the table and waits on what lies behind the
semaphores: the thread fails and keeps its desk, or the process dies. `registered` is a history
variable, the numbers of the voters in the order in which they were inserted: `RegisteredInTurn`
says that each was the first of those of its desk that were left.

### Metro (`EXAMS/2017-07-17/main.c`)

`ring`, `full`, `empty` and `me` are the two families of queues and their semaphores;
`red_semaphore` admits one train to a station. A boarding passenger is taken out of the ring of the
starting station as a *pointer* into it (`removee`), which is followed again after the semaphore is
posted (`Pointed`). Passengers on board are kept by arrival station, not by train. `num++` (298) is
a load and a store, and the test of the same count when passengers get off (260) and its reset (271)
are two steps, so that an increment of another train may be wiped out between them. The heap is
taken as the zeroed memory of a fresh process, so that a slot nobody has filled reads as nobody.
Steps of a train that touch only its own variables are joined to the next one that others see. The
last station of the line is never unloaded (336). `AlightWhereBound` is an action property: a
passenger is told to get off only after having been let in and by a train that stands where the
journey ends; and from the time a train has a pointer to a passenger until it has counted that
passenger (`Boarding`), the pointer leads to the same one.

### CopyMerge (`EXAMS/2013-02-16/main.cpp`)

`Walk` is what the recursion of `th_work` finds, level by level. `destination` says which
copies exist: the test and the creation under `cs_check_file_presence` decide who copies a
file. `name_for_merge` with the two semaphores of a worker is the hand-over to `th_merge`.
`data` is the file `data.txt` with its first line of totals, which is rewritten in place and
may overrun into the body when the totals grow a digit (164): the model keeps that as
`overrun`. `data.txt` does not exist at the start. A file is a function from positions to
characters; its characters, lines and words are sets of positions, so that counts are
cardinalities; the digits of a total are counted by comparison with the powers of ten that an
`int` can reach.

### CarStatistics (`EXAMS/2014-01-24/main.cpp`)

`date` and `branch` are the two tables of a thread, with their sizes; they are reallocated
with the size of the file at hand and keep what earlier files left (238). A table that grows, also
from nothing after an empty first file, or that is reallocated for no records may end the process
(`ReallocCrashes`). The record of an empty first file is taken from behind a table without slots: it
holds whatever is there, or the process ends (`Chosen`, `EmptyCrashes`). The branch of a sale
is counted in the table of the *dates* (287), as in the code, so that nothing is said of the
branch that is reported. A product whose trade file cannot be opened ends up in no output, and its
thread returns; `missing`, the products without a file, is drawn from `CanMiss`. `EachProductOnce`
counts places in the product file: a place is left aside only if every thread has met such a
product.

### DirectoryCompare (`LAB09/E02.cpp`)

A reader publishes the name of its entry and waits for one of the permits that all readers
share; the comparer waits for as many names as there are readers that have not counted
themselves out in `terminate`.

### Xv6Semaphore, Xv6Files (`LAB05`)

In `Xv6Semaphore` a process is a sequence of system calls, each of which holds a spinlock from
its first access to its last and is one step, except for `sem_wait`, which sleeps between two.
Allocation is one step as well. The handlers pass on what `argint` returns, 0, instead of the
argument, so that all processes use semaphore 0 whatever they ask for, and `sys_sem_destroy`
destroys nothing that anybody uses. `ProgramAssumption` restricts the programs to those that
initialise the semaphore once, before they fork, wait or post, and fork each process once, as the
test program `st.c` does. `Xv6Files` has the table of open files with its reference
counts, the descriptors and the inodes with their links. What is between `begin_trans` and
`commit_trans` is one step, since one transaction is open at a time; what is before it, such as
the lookup of a path, is a step of its own (`pending`). Its bounds are `MaxCalls` on the calls of
all processes and `MaxSize` on a file; the limits `NOFILE`, `NFILE` and `NINODE` of the kernel
are small so that they are met.

### SharedVariable, LetterRounds, FilePairs (`LAB01/E2.c`, `LAB02/E02.c`, `E03.c`, `EXAMS/2015-06-25`)

`SharedVariable` has each access to `g` and `stop` as a step, since no lock is held; its values
are integers, so that a value whose triple is no `int` is left out. `LetterRounds` has both
programs of LAB02: the rounds of A and B threads (`AbbSpec`) and the two printers (`TwoSpec`).
What is done with the mutex held is one step there, since nothing it changes is looked at
without the mutex, except the semaphores it posts, and a thread that gets through one of them
stops at the mutex. `FilePairs` has no lock at all: load, store and test of the counters are
steps.

### Quicksort, MergeFiles (`LAB03/E01.c`, `LAB09/E01.cpp`)

A call of `quicksort` is known by its range, since no range is called twice; `call` holds the
locals of every call there is. A pass of the two inner loops is a step, and so is a swap.
`MergeFiles` keeps of the record of a thread which fields are set, in the array the threads
write to (`set`) and in the copy that `main` reads (`d`); `qsort` leaves everything in place,
as its comparison compares addresses.

## 4. Runs

Programs that ask the same kind of question share a run. Their MC module has the variables of
all of them and a variable `running`: one program runs, the others stay in one initial state, so
that the states of the run are the sum of the states of its programs and each program behaves
as it does alone. `MCTurns` collects the small programs of `MCTasks`. `MCWaitingLines`,
`MCSemaphores`, `MCSharedFiles` and `MCTurns` extend several components, so that the properties
they check are those the theorems of section 7 are about; the definitions that every component has
(`Init`, `Next`, `Goto`, `pc`, `vars` and the like) have a prefix there: `PS` in
`PrioritySemaphore`, `M` in `Metro`, `Sem` in `Xv6Semaphore`, `File` in `Xv6Files`, `Copy` in
`CopyMerge`, `Var` in `SharedVariable`, `Abb` and `Two` in `LetterRounds`, and `Dir` in
`ReadersWriters`, whose threads are the `Visitors` of a directory. The processes of `Xv6Files` are
`Callers`, of which `Shell` is there at the start.

| Run | Instance | What it shows |
|---|---|---|
| `bounded_buffer` | 2 producers, 2 consumers, 2 values, 2 slots | the permits account for every slot, the indices for every item, a slot is not written while it is read; the ring is a FIFO channel; no item stays for ever |
| `semaphores` | `MonthBarrier` with 3 accounts and 3 months; `Xv6Semaphore` with 5 processes; `Xv6Files` with 2 processes, 2 descriptors, 3 open files, 3 inodes and 5 calls | one leader a month although two leaders may be active, complete rows of all earlier months, a cyclic barrier; no wait is passed unpaid; references and links are counted; every account and every process ends |
| `shared_files` | `AccountUpdate` under E01 and E03 with 3 threads, 2 records and 7 operations that cross; `ReadersWriters` with 3 threads, 2 servers of 2 files; `CopyMerge` with 2 workers and a tree of 3 files | what a reader has seen of a directory still holds while it reads on; no modification is undone; every operation takes effect once, at one instant; a copied file is merged once and under its name, and the totals are those of what is merged; the programs end, unless a failed open kept `csOut` |
| `waiting_lines` | `PrioritySemaphore` with 3 threads of every mix of 3 classes, 1 round and a pipe of one word; `CircleLine` with 2 trains and 3 stations, from all places; `Metro` with 2 trains of one seat, 4 stations and 2 passengers | the sign of the counter says whether the list has a waiter; no waiter is forgotten before it sleeps; highest class first, FIFO inside a class; a station track holds one train, and a permit that is taken comes back, maybe for another track; the metro's queues hold those who wait, reports are whole, and passengers get off where they are bound |
| `tasks` | `TaskQueues` with 2 clients, 2 servers, 2 queues of 2 slots and 5 tasks, one of which fits no queue; `CarStatistics` with 3 threads, 6 products in a list of 7, two or three without a trade file, one with an empty one; `SharedVariable` with values for both clients; `LetterRounds` with 2 A and 4 B threads, or two printers with arguments 2, 4 and 6; `Quicksort` of all permutations of 4 and all arrays of 4 with two values, 3 thresholds; `MergeFiles` with 3 files, one of which may not open | permits stand for tasks until the shutdown, tasks are queued once, in order and where they belong, and none is run twice; every product and every number is in the output once; a client gets the answer to its own value; lines are printed in turn; the programs end, the array sorted |
| `file_pipeline` | 2 threads of each kind, files of 2 and 1 records, the second file and any output file may fail to open | one permit goes round in each stage; whoever searches finds a record; records arrive upper-cased and once as long as the ring has not turned |
| `polling_station` | 2 stations, a queue of 3; of 10 voters in the file the first ring keeps 4, one of no desk | a station that is marked taken has exactly one voter, on the way or inside, one marked free none; no voter is overwritten on a desk or inserted twice; all threads end unless a voter found no free station or a station no voter |
| `account_semaphore` (violation) | `AccountUpdate` under E04 | two threads update one record together |
| `circle_line_rail` (violation) | `CircleLine` as above | two trains on one connecting track |
| `pipeline_stop` (violation) | `FilePipeline`, 2 threads of each kind, one record per file, nothing fails | the wake-up at the end is lost, with a record: the program hangs |
| `directory_compare` (violation) | 2 equal trees | a reader that takes two permits makes the trees differ |
| `file_pairs` (violation) | 2 threads of each kind | four files are merged twice |

**Bounds.** Two threads of a kind are needed for them to contend and two suffice for every pair
of steps to meet; three where the third adds a role (the barrier's leader and two others, two
waiters of a class and one that signals; a writer between two readers). A ring of two slots is
the smallest that wraps and can be neither full nor empty; the tasks and records are enough for
it to wrap. Three stations are the smallest circle on which the two neighbours of a station
differ, four the shortest metro line on which two passengers may share a train for a stop and
part. Two posts and two sleepers are needed for a semaphore of xv6 to be posted below zero; two
levels of directories for a name to be unlinked under a path that is looked up. Arrays of four
have parts that are split again on both sides. Threads of `PrioritySemaphore` differ only in
their class, so its mixes are drawn in one order. `Rounds`, `PipeWords`, `VisitEnds`, `MayFail`,
`OutFails`, `MaxCalls` and `MaxSize` are bounds or choices of the model; all other constants are
parameters of the programs.

**Deadlock** is checked in `bounded_buffer`, `semaphores`, `tasks`, `account_semaphore` and
`file_pairs`; where a program of these runs may stop, at its end or at a hang the code has, it
stutters there and nowhere else (`End` in the MC modules). It is not checked where the code can
stand still: `PrioritySemaphore` stops at the bound `Rounds`; permits of `CircleLine` drift to
other tracks until a train waits for one that nobody will post; in `Metro` a train may follow a
pointer to a slot that holds nobody, which ends the process (`crashed`); in `ReadersWriters` a
reader that failed keeps `csOut`, in `FilePipeline` a thread that failed keeps a critical section
or the shutdown loses its wake-up; in `PollingStation` a registrar that found no free station
keeps its desk. `DirectoryCompare` simply ends.

**Fairness.** Every liveness property assumes what the operating system's scheduler gives: a
thread that stays able to run runs, weak fairness of the thread's whole behaviour and not of
single actions. Where a thread may be overtaken on a semaphore or lock, either the others
stop after finitely many turns (`ReadersWriters`, `AccountUpdate`, `TaskQueues`,
`Xv6Semaphore`), so that weak fairness is enough, or only one thread waits on it
(`MonthBarrier`). In `BoundedBuffer` the threads run for ever; `ItemsFlow` asks that *some*
item moves on, not that each thread gets its turn. For `PollingStation`, `CopyMerge` and the
small programs it is enough that some thread runs as long as one can, since no loop of theirs
goes on without using something up. For `FilePipeline` strong fairness of each thread is
assumed, so that the hang which `pipeline_stop` finds cannot be blamed on a thread that was
passed over. Nothing is claimed of the end of `Xv6Files` (its calls are bounded), `Metro` and
`CircleLine` (their trains run for ever) and `CarStatistics`.

## 5. Abstract specifications

`FifoChannel` (bounded FIFO of values), `PriorityGate` (tokens and one FIFO of waiters per
class), `CyclicBarrier` (nobody passes a round before all have arrived), `Ledger` (updates
are atomic, in any order between threads) and `TaskPool` (tasks are queued in file order and
taken in order) know nothing of locks and semaphores. Each program is shown to implement its
specification under the mapping in the `INSTANCE` of its module: `ChannelSpec`, `GateSpec`,
`BarrierSpec`, `LedgerSpec`, `PoolSpec`. The instant of a transfer is where the index moves
(`StoreForward`, `ProducerForward`) or where the record is read or written, so items that are
in a slot but not yet behind the index belong to their thread. `TaskPool` is a safety
specification: tasks that are still queued when the servers leave (line 239) stay queued.

## 6. Findings

1. `account_semaphore`: `LAB10/E04.cpp:178` waits on a name and not on the semaphore, so the
   wait returns at once and the update is unprotected.
2. `circle_line_rail`: a clockwise train takes the track that has the number of the station it
   leaves and posts, with the index already moved on, the one of the station it arrives at
   (`2013-07-22/main.c:122`).
3. `pipeline_stop`: the release at `2016-07-01/main.cpp:300` adds nothing when a permit is
   left, and the B thread that takes it leaves the record it stands for.
4. `directory_compare`: all readers of `LAB09/E02.cpp` wait on one semaphore (320), so that one
   reader can take two permits; names of different entries are then compared and equal trees
   are reported not to be equal.
5. `file_pairs`: the second A and the second B of `2015-06-25` may both have counted themselves
   before either adds up the counters (119, 156); both merge the same four files.

Not findings of a run, but visible in the models:

- `FilePipeline`: `RecordsIntact` holds only while no ring has turned, since a B thread copies
  from its pointer after it has left the critical section (`main.cpp:473`).
- `TaskQueues`: tasks that wait when the last client ends are not run.
- `PrioritySemaphore`: the words of two reports mix in the pipe, and the logger signals on a
  triple that no thread sent.
- `PollingStation`: the scan of the table of free stations runs past its end (`NoneFree`), two
  insertions may advance the index of the ring once, after which a station follows a null pointer
  (`RemoveCompare`), and the last voter of a desk may be left unregistered. `Termination` is
  claimed of runs without the first two, `StationBooked` until the process dies, and no property
  excludes the third.
- `Metro`: an increment (`num++`, 298) that is lost, or wiped out by the reset after the last test
  (260, 271), leaves a passenger on board, which no property excludes; passengers for the last
  station never get off (336).
- `CarStatistics`: the branch is counted in the table of dates (287), and a table that must
  grow is reallocated in a way that may end the process (`ReallocCrashes`).
- `ReadersWriters`, `FilePipeline`: an open that fails leaves a critical section taken
  (`LAB11/E01.cpp:362`, `2016-07-01/main.cpp:354`), and other threads wait for ever; `ProgramsEnd`
  is claimed only where no open failed.
- `Xv6Semaphore`: every call works on semaphore 0 (`sysfile.c:451`); `PassesPaid` and
  `NobodyLeft` hold of programs that initialise it before they fork.
- `SharedVariable`: an increment of `stop` may be lost, after which the server waits for ever;
  the count that is printed is that of the values or one less, depending on whether the server
  takes the last `ok`.
- `LetterRounds`: for an argument above 4 both printers wait for ever, after the first line or
  within it: for 6 a thread may have its third turn before the other's second, and the line stays
  "A A B".
- `MergeFiles`: `main` may merge a record that was copied before its thread had filled it in
  (`LAB09/E01.cpp:85`), with memory nobody has set; and the files are merged unsorted.

## 7. Proofs

Fifteen components have theorems, in eight modules (section 2 says which). The theorems hold for
every value of the constants that satisfies the assumption of the module, where a run shows the
same property on the instance of section 4.

| Component | Theorems | For any |
|---|---|---|
| `BoundedBuffer` | `TypeCorrect`, `SlotsCorrect` (`SlotsAccounted`), `RingCorrect` (`RingConsistent`), `WriterApart` (`WriterApartFromReader`), `ImplementsChannel` (`ChannelSpec`) | finite sets of producers and consumers, size of the ring (`BufferAssumption`) |
| `PrioritySemaphore` | `CounterTells` (`CountMatchesList`), `WakeupsKept` (`NoLostWakeup`), `ImplementsGate` (`GateSpec`) | number of threads, rounds and words in the pipe (`SemaphoreAssumption`) |
| `MonthBarrier` | `LeadersUnique` (`OneLeaderAMonth`), `RowsComplete` (`EarlierMonthsWritten`), `ImplementsBarrier` (`BarrierSpec`) | number of accounts and months, movements (`BarrierAssumption`) |
| `ReadersWriters` | `TypeCorrect`, `ReadersStable` (`StableWhileRead`), `ModificationsKept` (`NoLostModification`) | finite set of threads, servers, number of files of a directory (`DirectoryAssumption`) |
| `AccountUpdate` | `UpdatesUndisturbed` (`UpdateUndisturbed`), `ImplementsLedger` (`LedgerSpec`) | threads, accounts and operation files (`AccountAssumption`), under `Locking` |
| `CircleLine` | `StationTracksSafe` (`StationTrackExclusive`), `RailsKept` (`RailsConserved`) | finite set of trains, number of stations (`LineAssumption`) |
| `FilePipeline` | `PermitAlone` (`OnePermit`), `LoopsEnd` (`ExtractFinds`), `RecordsKept` (`RecordsIntact`) | number of threads of a kind, size of the rings, files, files that fail (`PipelineAssumption`) |
| `Metro` | `ReportsAreWhole` (`ReportsWhole`), `WaitingRight` (`WaitingRing`), `AlightRight` (the action property `AlightWhereBound`) | number of stations, of trains up to that of stations, seats, passengers and their journeys (`MetroAssumption`) |
| `TaskQueues` | `PermitsMatchTasks` (`TokensMatchTasks`), `ImplementsPool` (`PoolSpec`) | finite sets of clients and servers, queues and their intervals, size of the rings, input file (`QueuesAssumption`) |
| `PollingStation` | `StationsBooked` (`StationBooked`), `VotersInTurn` (`RegisteredInTurn`) | number of stations, sizes of the queues, list of voters (`PollingAssumption`) |
| `Xv6Semaphore` | `WaitsPaid` (`PassesPaid`) | finite set of processes, their programs, `MAXSEMAPHORE` (`ProgramAssumption`) |
| `Xv6Files` | `ReferencesRight` (`ReferencesCounted`), `LinkCountsRight` (`LinksCounted`) | finite sets of processes and names, sizes of the three tables, paths of one or two names, modes of opening (`FilesAssumption`) |
| `CopyMerge` | `HandedOver` (`HandOver`), `TotalsRightly` (`TotalsMatchBody`) | number of workers, walk through their trees, contents of the files, copies at the start (`CopyAssumption`) |
| `SharedVariable` | `AnswersRight` (`AnswerForMe`) | values in the two files (`ValuesAssumption`) |
| `LetterRounds` | `LinesAreWhole` (`LinesWhole`) | number of threads, argument of the printers: nothing is assumed of either |

**Assumptions.** They are hypotheses of the theorems, or, where the component has one as an
`ASSUME`, facts of its module. They say what the configuration of a program gives: numbers
are natural and not zero, sets of threads are finite, names of owners are not names of threads.
`Locking` restricts `AccountUpdate` to E01 and E03; of E04 the properties are false (section 6).
`ProgramAssumption` leaves out programs of which `PassesPaid` is false (section 6 too).
`MetroAssumption` has no more trains than stations, since train `i` is given station `i` at the
start. TLC evaluates all of them on the instances of the runs (`MCWaitingLines` and
`MCSharedFiles` assume those that are not an `ASSUME` of their component).

**Shape.** Each module strengthens the properties to an invariant that is inductive, shows it for
`Init` and for every action and concludes that it always holds; the properties follow
from it. TLC finds each invariant (`IInv`; `PSIInv`, `DirIInv`, `SemIInv`, `FilesIInv`,
`CopyIInv`, `AbbIInv`, `TwoIInv`, `VarIInv` where names have a prefix) to hold on the instance of
the component's run. What makes them inductive:

- `BoundedBuffer`: `TypeOK /\ SlotsAccounted /\ RingConsistent`. The parts need each other: a
  release adds its permit, rather than being lost at the maximum, only because all slots are
  accounted for, and only then does the write index stay ahead by what is in the ring.
  `WriterApart` follows, since a producer past its wait leaves at most `Size - 1` items between
  the indices and a consumer past its wait at least one. Threads are counted: `ProducerMove` and
  `ConsumerMove` say that a thread which goes from one label to another changes the cardinality
  of the sets at those labels by one and no other. For the channel, `FifoInv` adds that whoever
  stores or takes owns the critical section, and that a stored value stays in its slot until the
  index moves; a step then appends to the queue of the channel, takes its head or stutters.
- `PrioritySemaphore`: the two properties, that nobody is in the list twice (`NoneTwice`) and
  that who reports has a round left. Without `NoneTwice` a post would take a thread out of the
  list that stays in it. For the gate, the list is in descending order of classes (`InOrder`), so
  that the waiters of a class are a stretch of it: `Rank` says where it begins, `Line` is the
  stretch, and an insertion by `enqueue_sorted` appends to one line and leaves the others.
- `MonthBarrier`: who collects is the only one and has found `finish_reading` set for all the
  others; who wakes has woken those with a lower index, which work on the next month, while the
  others still wait (`OneCollects`, `OneWakes`, `SameMonth`). Two leaders may be active, but of
  two months. `RowsWritten` and `AmountsRun` relate the rows to how far each thread is: a row is
  the row above plus the movements, so that no sum over the months is needed.
- `ReadersWriters`: `rmutex` is held by whoever counts, `readCount` is the number of readers
  inside, and `resource` is taken for the readers together or for one writer (`CountLocked`,
  `ReadersCounted`, `DirectoryLocked`). `SeenHolds` then says that what a thread has read is
  still there.
- `AccountUpdate`: a thread between read and write owns what guards its record, and nothing is
  owned by others (`Guarded`), so that nobody else updates it. Writing the record is the step of
  the ledger; `UpdateUndisturbed`, on which it rests, is no property of a run: where it fails,
  the amount that is written back makes `LedgerSpec` fail.
- `CircleLine`: a train at a stop has the permit of its station. The permits of the rails are one
  set of pairs of a rail and a number, to which a post adds one and from which a wait takes one;
  with the trains on the rails there are always `nStations`.
- `FilePipeline`: one permit *and one record* are in one place: in `empty` with all queues of the
  stage empty, in `fill` with one record queued, or in the hands of one thread, with the record
  or without it, depending on how far it is (`Running`). The semaphores and critical sections
  alone would not do: the release of a full semaphore is lost, and it is the one permit that
  keeps `fill` below its maximum. After a stage is shut down more permits are there (`WakeAll`),
  but who finds the flag set leaves, so that only the thread that had passed the flag before may
  still search (`Finished`). For `RecordsIntact` every record that was read is *tracked*: it is
  in one cell of one stage, or in the hands of one thread. The cells of a ring are filled in turn,
  so that an insertion comes to the place that a B thread still points to only when all other
  cells hold, or held, other records; if no more than `QSize` were read there are not enough
  for that (`Unturned`). The pointers of the B and C threads lead to different cells.
- `Metro`: a ring of those who wait is as large as there are passengers and each of them enters
  once, so that it is filled once and never wraps: what has been put in stays, which is what makes a
  pointer out of `removee` good (`RingHolds`, `PointsInside`). The rings of the arrival stations do
  wrap, are read past their end and are filled by several trains at a time; all that holds of them
  is that who is in the ring of a station was let in and wants to go there (`BoundFor`). As a slot
  that a train points at is never filled again, the pointer of a boarding train leads to one
  passenger, who has been let in (`Settled`). A train that follows a slot nobody has filled ends the
  process: `Dead` is that state. In the proof `ReportsWhole` turned out to be stated with a
  condition in the wrong place; it is now stated as meant, and stronger.
- `TaskQueues`: the permits and the threads between two semaphores account for all slots of a
  ring (`Accounted`). `Held`, the slots that are filled and not given to a server, equals the
  permits, the clients that have stored a task and the servers that have taken a permit, as long
  as clients work; after the shutdown there may be more permits than that, but never fewer held
  slots than servers that have passed the flag. The write index is ahead of the read index by
  what is in the ring. The servers of one ring and its clients exclude each other by two different
  critical sections (`Exclusion`). For the pool, a task is queued where the write index moves and
  run where the slot is read: what is in the ring between the indices is the pool's queue.
- `PollingStation`: one permit goes round at each desk: `empty`, `full`, the registrar and the
  voter on the desk hold it in turn, until `main` adds one to end the registrar. For each station,
  `m` permits are in `emptyQueueM`, `fullQueueM` or with the threads between. A station is marked
  taken exactly for the voter that is on the way to it, waits in its permits or votes there
  (`Booked`). The voters of a desk come out of the first ring in its order (`FileOrder`,
  `InTurn`). A registrar that runs past the table may end the process; then everything stays as
  it is, so that the invariant is `Live \/ Dead`.
- `Xv6Semaphore`: until the semaphore is initialised no process but the first is born and nobody
  has waited or posted (`UnbornAtStart`, `BeforeInit`); the first entry of the table is not given
  out again (`KeptAssigned`), and who sleeps is in its `sem_wait` (`AtWait`). From then on the
  counter is the number of posts minus that of the waits that passed, of the processes that were
  woken and not yet run, and of those asleep. Calls are pairs of a process and an index, so that
  these numbers are cardinalities of sets of pairs.
- `Xv6Files`: a count is the cardinality of the set it stands for: descriptors of an open file,
  open files of an inode and calls that have it in hand, names of an inode. Each action adds one
  element to one of these sets or takes one away (`OneChanged`), or leaves them alone; `fork` adds
  a set of descriptors at a time. What the counts need besides is that a free entry of the table
  of open files uses no inode and a process not yet born has no descriptor (`FreeFiles`), and the
  shape of the directories (`Tree`): names lead from directories to other inodes than themselves
  and the root, and a directory without a name is empty. Without the last part an inode that is
  freed could leave names behind, whose targets would count too few links. Giving a
  name (`NameGiven`) and taking it away (`NameTaken`) preserve `Tree`; an `unlink` finds its
  directory still there, although it may have lost its own name, as it has it in hand.
- `CopyMerge`: the two critical sections (`CopyLocked`); what a worker has counted and written of
  its file is right (`OwnRight`); no two workers copy one file (`CopyAlone`); a file whose name is
  handed over is not among those merged, and each is merged once (`GivenOnce`). `Exchange` follows
  the one permit of a hand-over: from `sem_finish` to the merger and back by `sem_go_ahead`, while
  the worker waits; after the workers are joined only the permit that stops the merger is left.
  `TotalsRight` is the sum at each label of the merger: the sets of positions of two files are
  disjoint, so that one more file adds its own counts.
- `SharedVariable`: one turn is in one place: in `w`, or with the client that has passed its wait
  (`OneTurn`). While a client has it, `Exchange` follows its value through `g` and the two other
  semaphores, label by label; without one nothing is posted (`Idle`) but the last permit of a
  client that goes. `stop` is at most the number of clients that have gone, although an increment
  may be lost (`StopCounts`), so that the server leaves only after both; `RequestsCount` says that
  the requests are at least the values read that nobody still waits for.
- `LetterRounds`: of each kind of letter the permits, the threads past their wait and the letters
  in the line are one A and two Bs (`RoomTaken`), which is why three letters are the right three,
  and resetting both counters is right. For the printers one of the two threads begins; the
  counters, semaphores and the line are then a table of six rows (`Begun`),
  after which the line is full (`Over`).

**What stays with TLC.** Liveness (`ItemsFlow`, `NobodyLeft`, `ProgramsEnd`, `WorkEnds`,
`Termination`), as the prover does not reason about fairness. What sums and recursive functions
compute for every input: the sums of `DateOfMostSales`, the sequences of `EachInputOnce`, the merge
of `MergeFiles` and that the array of `Quicksort` is sorted. The library's theorems of induction
take an operator as a parameter, which the installed provers cannot instantiate. Where a
component could do without, its operators are stated with sets and cardinalities, as in
`CopyMerge`, `TaskPool` and `PollingStation`; the least element of a set stands for an induction
there. The runs that expect a violation have nothing to prove. No module that a theorem reaches
uses recursive operators.

## 8. What is not modelled

- Salt (`EXAMS/2016-09-12/main.c`) does not compile: `main` assigns `print_na` and `print_cl`,
  which are declared nowhere (58). `LAB10/E02.cpp` does not compile either, as it uses a handle it
  does not declare; it has the shape of E03.
- The timed wait (`LAB02/E01.c`) is a race between a sleep and a post, with a signal to the
  whole process: it is about real time.
- The matrix product (`LAB03/E02.c`): each thread is one critical section and the last one
  posts, there is nothing to interleave. The character device (`LAB06/E02.c`) admits one
  process from `open` to `release`; what remains is a sequential buffer.
- The file programs of LAB07, LAB08 and LAB01/E1 are sequential file access with no state beyond
  one record.
- Of xv6, `chdir`, `exec` and `fstat`, and everything outside `file.c`, `sysfile.c` and
  `semaphore.c`: inodes, log, pipes and the scheduler appear as far as the modelled files use them.
- `check_output_file_correctness` of the month barrier, the reading of configurations and
  `printf`s have no effect on what is checked. In `FilePairs` and `LetterRounds` the numbers of the
  threads that are printed are left out, in `Quicksort` the array that each call prints while others
  swap.
