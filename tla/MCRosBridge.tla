----------------------------- MODULE MCRosBridge -----------------------------
(* Instances of RosBridge for model checking. *)
EXTENDS RosBridge
=============================================================================
