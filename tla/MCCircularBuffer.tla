--------------------------- MODULE MCCircularBuffer ---------------------------
(* Instances of CircularBuffer for model checking. *)
EXTENDS CircularBuffer, TLC

Symmetry == Permutations(Putters) \cup Permutations(Values)
=============================================================================
