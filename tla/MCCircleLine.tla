---------------------------- MODULE MCCircleLine ----------------------------
(* Instances of CircleLine for TLC. *)
EXTENDS CircleLine
CONSTANTS t1, t2
TwoTrains == {t1, t2}
=============================================================================
