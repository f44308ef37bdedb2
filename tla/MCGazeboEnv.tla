----------------------------- MODULE MCGazeboEnv -----------------------------
(* Instances of GazeboEnv for model checking.  The cadences of one, ten    *)
(* and twenty episodes are scaled down.                                    *)
EXTENDS GazeboEnv

MCCadence ==
  [k \in AllKinds |-> CASE k = "pendulum" -> 1
                        [] k = "tracking" -> 3
                        [] OTHER          -> 2]
MCDraws == {-1, 1}
=============================================================================
