------------------------- MODULE MCDirectoryCompare -------------------------
(* Instances of DirectoryCompare for TLC: two copies of one tree. *)
EXTENDS DirectoryCompare
Entry(n, d) == [name |-> n, isDir |-> d]
SameTree == [r \in 0 .. 1 |-> <<Entry(".", TRUE), Entry("d", TRUE), Entry("a", FALSE)>>]
=============================================================================
