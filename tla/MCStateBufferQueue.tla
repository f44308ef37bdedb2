-------------------------- MODULE MCStateBufferQueue --------------------------
(* Instances of StateBufferQueue for model checking. *)
EXTENDS StateBufferQueue, TLC

Symmetry == Permutations(Workers) \cup Permutations(Envs)
=============================================================================
