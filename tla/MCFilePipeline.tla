--------------------------- MODULE MCFilePipeline ---------------------------
(* Instances of FilePipeline for TLC. *)
EXTENDS FilePipeline, TLC
CONSTANTS a1, a2, b1, b2, c1, c2
TwoA == {a1, a2}
TwoB == {b1, b2}
TwoC == {c1, c2}
ThreeRecords == <<2, 1>>
OneEach == <<1, 1>>
NoFile == {}
SecondFile == {2}
Symmetry == Permutations(TwoA) \cup Permutations(TwoB) \cup Permutations(TwoC)
=============================================================================
