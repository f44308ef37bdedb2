------------------------------- MODULE EnvPool -------------------------------
(***************************************************************************)
(* What an environment pool promises its client (envpool.h: Send, Recv,    *)
(* Reset): requests make environments pending, and Recv returns a batch    *)
(* of them, each with the one state that follows the state seen last.      *)
(***************************************************************************)
EXTENDS Integers, FiniteSets

CONSTANTS
  Envs,
  Batch   \* the environments one Recv waits for

VARIABLES
  pending,  \* environments requested and not received
  forced,   \* those among them that were asked to reset
  last      \* the last state received of each

vars == <<pending, forced, last>>

Init ==
  /\ pending = {}
  /\ forced = {}
  /\ last = [e \in Envs |-> [done |-> TRUE, step |-> -1]]

Send(S) ==
  /\ S \cap pending = {}
  /\ pending' = pending \cup S
  /\ UNCHANGED <<forced, last>>

Reset(S) ==
  /\ S \cap pending = {}
  /\ pending' = pending \cup S
  /\ forced' = forced \cup S
  /\ UNCHANGED last

(* The step number after the last state seen: a new episode starts at 0.   *)
Following(e) == IF e \in forced \/ last[e].done THEN 0 ELSE last[e].step + 1

(* A batch is all that is pending in synchronous mode, Batch environments  *)
(* otherwise.                                                              *)
Recv(S) ==
  /\ Cardinality(S) = Batch \/ (Batch = Cardinality(Envs) /\ S = pending)
  /\ pending' = pending \ S
  /\ forced' = forced \ S
  /\ \E d \in [S -> BOOLEAN] :
       last' = [e \in Envs |-> IF e \in S THEN [done |-> d[e], step |-> Following(e)]
                               ELSE last[e]]

Next ==
  \/ \E S \in SUBSET Envs : Send(S) \/ Reset(S)
  \/ \E S \in SUBSET pending : Recv(S)

Spec == Init /\ [][Next]_vars
=============================================================================
