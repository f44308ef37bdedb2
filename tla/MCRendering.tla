----------------------------- MODULE MCRendering -----------------------------
(* Instances of Rendering for model checking. *)
EXTENDS Rendering, TLC

Symmetry == Permutations(Names)
=============================================================================
