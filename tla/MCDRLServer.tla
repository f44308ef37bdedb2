------------------------------ MODULE MCDRLServer ------------------------------
(* The server on small worlds: every bound is given in the configurations. *)
EXTENDS DRLServer
=============================================================================
