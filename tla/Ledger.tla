------------------------------- MODULE Ledger -------------------------------
(* What the account programs promise: each operation is applied to its       *)
(* account at once, and once; a thread's operations in the order of its file.*)
EXTENDS Integers, Sequences

CONSTANTS Threads, Accounts, Opening, Operations

VARIABLES
    balance,  \* per account
    pending   \* per thread, the operations not applied yet

ledgerVars == <<balance, pending>>

Init ==
    /\ balance = Opening
    /\ pending = Operations

Apply(t) ==
    /\ pending[t] # <<>>
    /\ LET op == Head(pending[t])
       IN  balance' = [balance EXCEPT ![op.id] = @ + op.number]
    /\ pending' = [pending EXCEPT ![t] = Tail(@)]

Next == \E t \in Threads : Apply(t)

Spec == Init /\ [][Next]_ledgerVars
=============================================================================
