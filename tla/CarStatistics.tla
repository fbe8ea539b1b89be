--------------------------- MODULE CarStatistics ---------------------------
(* EXAMS/2014-01-24/main.cpp: threads share out the products of a file by a  *)
(* common offset; for each, a thread adds up the sales in the product's      *)
(* trade file and finds the date and the branch with most of them.  Each     *)
(* thread has an output file; main joins them in the order of the threads.   *)
EXTENDS Integers, FiniteSets, SequencesExt

CONSTANTS
    N,         \* number of threads
    Products,  \* the product file: per record, the name of its trade file
    Trade,     \* per trade file, its records [id, selling_data, price]
    CanMiss,   \* the sets of trade files that may be the ones that cannot be opened
    Old,       \* records of the output file before the run
    NoOne      \* owner of the free critical section

Threads == 1 .. N
Empty == [size |-> 0, name |-> <<>>, hash |-> <<>>]   \* comparing_* and hash_* tables

VARIABLES
    missing,            \* the trade files that cannot be opened
    offset_file_product,
    cs_get_offset,
    where_read,         \* the record of the product file a thread is at (from 0)
    first_time,         \* whether a thread has made its tables
    date, branch,       \* the two tables of a thread, kept from file to file
    next,               \* the next record of the trade file
    tot_sold_cars, tot_amount,
    output,             \* output[t]: the records in the thread's own file
    out_file, written,  \* the joint output file, and how much of it main has written
    merging,            \* the thread whose file is next
    pc                  \* of the threads, and of main (0)

own == <<where_read, first_time, date, branch, next, tot_sold_cars, tot_amount, output>>
joint == <<out_file, written, merging>>
vars == <<missing, offset_file_product, cs_get_offset, own, joint, pc>>

Init ==
    /\ missing \in CanMiss
    /\ offset_file_product = 0 /\ cs_get_offset = NoOne
    /\ first_time = [t \in Threads |-> FALSE]
    /\ where_read = [t \in Threads |-> 0] /\ next = [t \in Threads |-> 1]
    /\ date = [t \in Threads |-> Empty] /\ branch = [t \in Threads |-> Empty]
    /\ tot_sold_cars = [t \in Threads |-> 0] /\ tot_amount = [t \in Threads |-> 0]
    /\ output = [t \in Threads |-> <<>>]
    /\ out_file = Old /\ written = 0 /\ merging = 1
    /\ pc = [t \in Threads \cup {0} |-> IF t = 0 THEN "join" ELSE "offset"]

Goto(t, from, to) ==
    /\ pc[t] = from
    /\ pc' = [pc EXCEPT ![t] = to]

-----------------------------------------------------------------------------
(* Helpers *)

(* The first slot that holds the name; 0 stands for -1 *)
is_there(name, table) == SelectInSeq(table.name, LAMBDA slot : slot = name)

(* The first of the largest counts *)
get_index(table) ==
    SelectInSeq(table.hash, LAMBDA count : \A k \in DOMAIN table.hash : table.hash[k] <= count)

(* A name not seen before goes to the first free slot. *)
Entered(table, name) ==
    LET free == is_there("", table)
    IN  IF is_there(name, table) # 0 THEN table
        ELSE [table EXCEPT !.name[free] = name, !.hash[free] = @ + 1]
Again(table, k) == IF k = 0 THEN table ELSE [table EXCEPT !.hash[k] = @ + 1]

File(t) == Products[where_read[t] + 1]

-----------------------------------------------------------------------------
(* th_work *)

ReadOffsetUnlocked(t) ==
    /\ Goto(t, "offset", "increment")
    /\ cs_get_offset' = t
    /\ where_read' = [where_read EXCEPT ![t] = offset_file_product]
    /\ UNCHANGED <<missing, offset_file_product, first_time, date, branch, next, tot_sold_cars,
                   tot_amount, output, joint>>
ReadOffset(t) ==
    /\ Goto(t, "offset", "increment")
    /\ cs_get_offset = NoOne
    /\ cs_get_offset' = t
    /\ where_read' = [where_read EXCEPT ![t] = offset_file_product]
    /\ UNCHANGED <<missing, offset_file_product, first_time, date, branch, next, tot_sold_cars,
                   tot_amount, output, joint>>

IncrementOffset(t) ==
    /\ offset_file_product' = offset_file_product + 1
    /\ cs_get_offset' = NoOne
    /\ Goto(t, "increment", IF where_read[t] >= Len(Products) THEN "returned" ELSE "open")
    /\ UNCHANGED <<missing, own, joint>>

OpenFails(t) ==
    /\ Goto(t, "open", "returned")
    /\ File(t) \in missing
    /\ UNCHANGED <<missing, offset_file_product, cs_get_offset, own, joint>>

(* Tables for as many names as the file has records, all zero *)
Table(n) == [size |-> n, name |-> [k \in 1 .. n |-> ""], hash |-> [k \in 1 .. n |-> 0]]

OpenTradeKeeping(t) ==
    LET n == Len(Trade[File(t)]) IN
    /\ Goto(t, "open", "read")
    /\ File(t) \notin missing /\ (first_time[t] => n > 0)
    /\ date' = [date EXCEPT ![t] = IF n > @.size THEN Table(n)
                                  ELSE [Table(n) EXCEPT !.hash = SubSeq(date[t].hash, 1, n)]]
    /\ branch' = [branch EXCEPT ![t] = Table(n)]
    /\ next' = [next EXCEPT ![t] = 1]
    /\ first_time' = [first_time EXCEPT ![t] = TRUE]
    /\ UNCHANGED <<missing, offset_file_product, cs_get_offset, where_read, tot_sold_cars,
                   tot_amount, output, joint>>
OpenTrade(t) ==
    LET n == Len(Trade[File(t)]) IN
    /\ Goto(t, "open", "read")
    /\ File(t) \notin missing /\ (first_time[t] => n > 0)
    /\ date' = [date EXCEPT ![t] = Table(n)]
    /\ branch' = [branch EXCEPT ![t] = Table(n)]
    /\ next' = [next EXCEPT ![t] = 1]
    /\ first_time' = [first_time EXCEPT ![t] = TRUE]
    /\ UNCHANGED <<missing, offset_file_product, cs_get_offset, where_read, tot_sold_cars,
                   tot_amount, output, joint>>

(* Tables that have grown hold pointers nobody has set; realloc of one of them
   works if it happens to be null and else takes the process down.  A table made
   again for no records is null, and is followed once the empty file is read. *)
ReallocCrashes(t) ==
    /\ pc[t] = "open" /\ File(t) \notin missing /\ first_time[t]
    /\ Trade[File(t)] = <<>> \/ date[t].size < Len(Trade[File(t)])
    /\ pc' = [u \in Threads \cup {0} |-> "crashed"]
    /\ UNCHANGED <<missing, offset_file_product, cs_get_offset, own, joint>>

(* A branch seen before is counted in the table of dates, at the branch's slot. *)
CountRecord(t) ==
    /\ Goto(t, "read", "read")
    /\ next[t] <= Len(Trade[File(t)])
    /\ LET rs == Trade[File(t)][next[t]]
           counted == Again(Entered(date[t], rs.selling_data), is_there(rs.selling_data, date[t]))
       IN  /\ date' = [date EXCEPT ![t] = Again(counted, is_there(rs.id, branch[t]))]
           /\ branch' = [branch EXCEPT ![t] = Entered(@, rs.id)]
           /\ tot_amount' = [tot_amount EXCEPT ![t] = @ + rs.price]
    /\ tot_sold_cars' = [tot_sold_cars EXCEPT ![t] = @ + 1]
    /\ next' = [next EXCEPT ![t] = @ + 1]
    /\ UNCHANGED <<missing, offset_file_product, cs_get_offset, where_read, first_time, output,
                   joint>>

(* The name with the largest count.  A first file without records leaves tables
   without slots: what lies behind them is taken for a name, or is no pointer. *)
Chosen(table) == IF table.size = 0 THEN "behind" ELSE table.name[get_index(table)]
EmptyCrashes(t) ==
    /\ pc[t] = "read" /\ date[t].size = 0
    /\ pc' = [u \in Threads \cup {0} |-> "crashed"]
    /\ UNCHANGED <<missing, offset_file_product, cs_get_offset, own, joint>>

WriteRecord(t) ==
    /\ Goto(t, "read", "offset")
    /\ next[t] > Len(Trade[File(t)])
    /\ output' = [output EXCEPT ![t] = Append(@,
          [file |-> File(t), n_cars |-> tot_sold_cars[t], tot_price |-> tot_amount[t],
           data |-> Chosen(date[t]), branch_name |-> Chosen(branch[t])])]
    /\ tot_sold_cars' = [tot_sold_cars EXCEPT ![t] = 0]
    /\ tot_amount' = [tot_amount EXCEPT ![t] = 0]
    /\ UNCHANGED <<missing, offset_file_product, cs_get_offset, where_read, first_time, date,
                   branch, next, joint>>

th_work(t) == ReadOffset(t) \/ IncrementOffset(t) \/ OpenFails(t) \/ OpenTrade(t)
              \/ ReallocCrashes(t) \/ CountRecord(t) \/ EmptyCrashes(t) \/ WriteRecord(t)

-----------------------------------------------------------------------------
(* main *)

JoinThreads ==
    /\ \A t \in Threads : pc[t] = "returned"
    /\ Goto(0, "join", "merge")
    /\ UNCHANGED <<missing, offset_file_product, cs_get_offset, own, joint>>

(* One thread's file after the other; OPEN_ALWAYS keeps the output file there
   was, and its records beyond the new ones stay. *)
MergeFile ==
    /\ merging <= N
    /\ Goto(0, "merge", "merge")
    /\ LET new == output[merging]
           upto == written + Len(new)
       IN  /\ out_file' = [k \in 1 .. IF upto > Len(out_file) THEN upto ELSE Len(out_file) |->
                              IF written < k /\ k <= upto THEN new[k - written] ELSE out_file[k]]
           /\ written' = upto
    /\ merging' = merging + 1
    /\ UNCHANGED <<missing, offset_file_product, cs_get_offset, own>>

(* The output file is printed and the threads' files are deleted. *)
ShowAndDelete ==
    /\ merging > N
    /\ Goto(0, "merge", "exit")
    /\ output' = [t \in Threads |-> <<>>]
    /\ UNCHANGED <<missing, offset_file_product, cs_get_offset, where_read, first_time, date,
                   branch, next, tot_sold_cars, tot_amount, joint>>

main == JoinThreads \/ MergeFile \/ ShowAndDelete

Ended == pc[0] \in {"exit", "crashed"}

Next == main \/ (\E t \in Threads : th_work(t)) \/ (Ended /\ UNCHANGED vars)

Spec == Init /\ [][Next]_vars

-----------------------------------------------------------------------------
(* Properties *)

Amount(trade) == FoldFunction(LAMBDA rs, sum : rs.price + sum, 0, trade)
New == {k \in 1 .. written : TRUE}
(* The places in the product file that a thread has come to, and those that are f *)
Taken == {k \in DOMAIN Products : k <= offset_file_product}
Of(f) == {k \in Taken : Products[k] = f}
Shut == {k \in Taken : Products[k] \in missing}

(* When main has joined the files, every product a thread could open is in the
   output once, with all its sales and no other's; and one was left aside only
   if each thread has met a file it could not open. *)
EachProductOnce ==
    pc[0] = "exit" =>
        /\ \A f \in DOMAIN Trade \ missing :
              /\ Cardinality({k \in New : out_file[k].file = f}) = Cardinality(Of(f))
              /\ \A k \in New : out_file[k].file = f =>
                    out_file[k].n_cars = Len(Trade[f]) /\ out_file[k].tot_price = Amount(Trade[f])
        /\ Cardinality(New) = Cardinality(Taken \ Shut)
        /\ Taken # DOMAIN Products => Cardinality(Shut) = N

Sales(f, d) == Cardinality({k \in DOMAIN Trade[f] : Trade[f][k].selling_data = d})
BranchesDiffer(f) == \A j, k \in DOMAIN Trade[f] : Trade[f][j].id = Trade[f][k].id => j = k

(* The date of a record is one with most sales in the product's own file, though
   the tables are used again from file to file; only where a branch sells twice
   do the branches' counts get in. *)
DateOfMostSales ==
    \A t \in Threads : \A k \in DOMAIN output[t] :
        LET r == output[t][k]
        IN  BranchesDiffer(r.file) =>
                \A rs \in Range(Trade[r.file]) :
                    Sales(r.file, rs.selling_data) <= Sales(r.file, r.data)
=============================================================================
