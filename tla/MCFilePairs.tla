----------------------------- MODULE MCFilePairs -----------------------------
(* Instances of FilePairs for TLC. *)
EXTENDS FilePairs
=============================================================================
