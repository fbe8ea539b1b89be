-------------------------- MODULE MCBoundedBuffer --------------------------
(* Instances of BoundedBuffer for TLC. *)
EXTENDS BoundedBuffer
CONSTANTS p1, p2, c1, c2, v1, v2
TwoProducers == {p1, p2}
TwoConsumers == {c1, c2}
TwoValues == {v1, v2}
=============================================================================
