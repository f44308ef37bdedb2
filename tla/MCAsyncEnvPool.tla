---------------------------- MODULE MCAsyncEnvPool ----------------------------
(* Instances of AsyncEnvPool for model checking. *)
EXTENDS AsyncEnvPool, TLC

Symmetry == Permutations(Workers) \cup Permutations(Envs)
=============================================================================
