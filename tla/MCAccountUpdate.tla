--------------------------- MODULE MCAccountUpdate ---------------------------
(* Instances of AccountUpdate for TLC: amounts whose sums tell the operations *)
(* apart, and operations that meet on both records.                           *)
EXTENDS AccountUpdate
CONSTANTS t1, t2, t3
ThreeThreads == {t1, t2, t3}
TwoAccounts == {1, 2}
Amounts == [a \in TwoAccounts |-> 100 * a]
Op(a, n) == [id |-> a, number |-> n]
CrossingOperations ==
    [t \in ThreeThreads |-> CASE t = t1 -> <<Op(1, 1), Op(2, 2), Op(1, 4)>>
                              [] t = t2 -> <<Op(2, 8), Op(1, -16)>>
                              [] t = t3 -> <<Op(1, 32), Op(2, -64)>>]
LockingPrograms == {"E01", "E03"}
SemaphoreProgram == {"E04"}
=============================================================================
