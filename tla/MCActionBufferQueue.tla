------------------------- MODULE MCActionBufferQueue -------------------------
(* Instances of ActionBufferQueue for model checking. *)
EXTENDS ActionBufferQueue, TLC

Symmetry == Permutations(Producers) \cup Permutations(Consumers)
              \cup Permutations(Slices)
=============================================================================
