-------------------------- MODULE GazeboEnv_proofs --------------------------
(***************************************************************************)
(* Theorems about GazeboEnv: for every set of kinds, size of a formation,  *)
(* length of an episode, number of iterations in a step, cadence of the    *)
(* randomization, and draws within their range.                            *)
(*                                                                         *)
(* The parts of the inductive invariant: Stage says which steps belong to  *)
(* a reset and which to a step, View which iteration the states read are   *)
(* of, Counts how the four counters follow each other, Ends what done_ may *)
(* be between two questions, Dynamics which models have the parameters     *)
(* drawn.  The histories have an invariant of their own, in the second     *)
(* half: it says in each step of the environment how far behind the world  *)
(* they are, for every size of them.                                       *)
(***************************************************************************)
EXTENDS GazeboEnv, SequenceTheorems, TLAPS

StepOfReset == pc \in {"respawn", "settle"} \/ (pc = "observe" /\ reset)
StepOfStep  == pc \in {"iterate", "judge"} \/ (pc = "observe" /\ ~reset)

Stage ==
  /\ pc \in {"reset", "respawn", "settle"} => reset
  /\ pc \in {"step", "iterate", "judge", "reward"} => ~reset
  /\ pc \in {"step", "reward", "write"} \/ StepOfStep => current_episode > 0
  /\ pc = "idle" /\ current_episode = 0 /\ kind # "pendulum" => done
  /\ pc = "respawn" => togo \in 1 .. num_agents
  /\ pc = "iterate" => togo \in 1 .. PhysicsSteps
  /\ pc = "judge" \/ (pc = "observe" /\ ~reset) => kind # "hover"

Fresh == current_state = [a \in Models |-> Read(a)]

View ==
  /\ pc \in {"judge", "reward", "write"} => Fresh
  /\ Waiting => Fresh /\ row.obs = current_state
  /\ kind # "hover" /\ (pc \in {"step", "iterate"} \/ (pc = "observe" /\ ~reset))
       => current_state = row.obs
  /\ kind # "hover" /\ pc \in {"judge", "reward"} => last_state = row.obs

Counts ==
  /\ pc = "reset" \/ StepOfReset => elapsed = 0
  /\ StepOfReset => current_step = 0
  /\ pc = "step" => elapsed = current_step + 1 /\ reference = elapsed
  /\ pc \in {"reward", "write"} \/ StepOfStep \/ Waiting
       => elapsed = current_step /\ reference = elapsed + 1
  /\ Waiting => row.elapsed = elapsed

Ends ==
  /\ StepOfReset => ~done
  /\ kind # "pendulum" /\ (pc = "step" \/ StepOfStep) => ~done
  /\ kind = "hover" /\ pc = "reward" => ~done
  /\ pc \in {"reward", "write"} \/ Waiting =>
       /\ kind \in {"hover", "formation"} /\ done => TimeIsUp
       /\ kind \in {"tracking", "payload"} /\ done => TimeIsUp \/ Failed
       /\ kind = "tracking" /\ TimeIsUp => done
  /\ Waiting => /\ row.done <=> IsDone
                /\ row.trunc <=> IsDone /\ horizon /\ elapsed >= MaxSteps

Dynamics ==
  /\ pc # "respawn" => \A a \in Models : living[a].sdf = sdf
  /\ pc = "respawn" =>
       \A a \in Models : a <= num_agents - togo => living[a].sdf = sdf
  /\ assumed = sdf.mass
  /\ sdf.mass \in -1 .. 1
  /\ kind # "formation" => randomized_rotor \in -1 .. 1 /\ sdf.rotor \in -1 .. 1

-----------------------------------------------------------------------------
(* What an iteration and a randomization do                                *)

Worlds == [Models -> [born : Nat, failed : BOOLEAN, sdf : Parameters]]

(* The models are counted from one, and stay the same for good.            *)
LEMMA Agents ==
  ASSUME kind \in Kinds
  PROVE  /\ num_agents \in Nat \ {0}
         /\ Models = 1 .. num_agents
         /\ 1 \in Models
BY GazeboEnvAssumption DEF num_agents, Models

(* Iterations of the world change which models have failed, and no more.   *)
LEMMA Iterations ==
  ASSUME clock \in Nat, NEW models \in Worlds, run_N(models)
  PROVE  /\ clock' \in Nat
         /\ living' \in Worlds
         /\ \A a \in Models : living'[a].sdf = models[a].sdf
<1>1. PICK f \in [Models -> IF kind = "formation" THEN {FALSE} ELSE BOOLEAN] :
        living' = [a \in Models |-> [models[a] EXCEPT !.failed = f[a]]]
  BY DEF run_N
<1>2. \A a \in Models : /\ f[a] \in BOOLEAN
                        /\ models[a] \in [born : Nat, failed : BOOLEAN, sdf : Parameters]
  BY DEF Worlds
<1>3. clock' \in Nat
  BY DEF run_N
<1> QED
  BY <1>1, <1>2, <1>3 DEF Worlds

(* Respawning a model gives it the parameters its description has now.     *)
LEMMA Respawned ==
  ASSUME clock \in Nat, living \in Worlds, sdf \in Parameters,
         NEW a \in Models
  PROVE  LET w == [living EXCEPT ![a].born = clock, ![a].sdf = sdf]
         IN  /\ w \in Worlds
             /\ w[a].sdf = sdf
             /\ \A b \in Models \ {a} : w[b].sdf = living[b].sdf
BY DEF Worlds

(* A randomization writes parameters within the range drawn from, but for  *)
(* the rotors of a formation, and the mass it assumes is the one it wrote. *)
LEMMA Randomized ==
  ASSUME kind \in Kinds, randomized_rotor \in Int, Randomize
  PROVE  /\ sdf' \in Parameters
         /\ randomized_rotor' \in Int
         /\ assumed' \in Int
         /\ assumed' = sdf'.mass
         /\ sdf'.mass \in -1 .. 1
         /\ sdf'.rotor = randomized_rotor'
         /\ kind # "formation" /\ randomized_rotor \in -1 .. 1
              => randomized_rotor' \in -1 .. 1
<1>1. PICK mass \in Draws, draw \in Draws :
         /\ randomized_rotor' = RandomizedRotor(draw)
         /\ sdf' = [mass |-> mass, rotor |-> randomized_rotor']
         /\ assumed' = mass
  BY DEF Randomize
<1>2. mass \in -1 .. 1 /\ draw \in -1 .. 1
  BY GazeboEnvAssumption
<1>3. /\ RandomizedRotor(draw) \in Int
      /\ kind # "formation" /\ randomized_rotor \in -1 .. 1
           => RandomizedRotor(draw) \in -1 .. 1
  BY <1>2, GazeboEnvAssumption DEF RandomizedRotor, AllKinds
<1> QED
  BY <1>1, <1>2, <1>3 DEF Parameters

(* What a question leaves in done_ is a truth value, by each kind.         *)
LEMMA LatchedByKind ==
  ASSUME kind \in Kinds, done \in BOOLEAN
  PROVE  /\ Latched \in BOOLEAN
         /\ kind \in {"hover", "formation"} => (Latched <=> done \/ TimeIsUp)
         /\ kind = "tracking" => (Latched <=> done)
         /\ kind = "payload" => (Latched <=> done \/ TimeIsUp \/ Failed)
         /\ kind = "pendulum" => (Latched <=> done \/ TimeIsUp \/ Failed)
<1>1. CASE kind \in {"hover", "formation"}
  BY <1>1 DEF Latched
<1>2. CASE kind = "tracking"
  BY <1>2 DEF Latched
<1>3. CASE kind = "payload"
  BY <1>3 DEF Latched, PayloadIsDone
<1>4. CASE kind = "pendulum"
  BY <1>4 DEF Latched, PendulumIsDone
<1> QED
  BY <1>1, <1>2, <1>3, <1>4, GazeboEnvAssumption DEF AllKinds

(* The answer of IsDone, by each kind.                                     *)
LEMMA IsDoneByKind ==
  ASSUME kind \in Kinds, done \in BOOLEAN
  PROVE  /\ IsDone \in BOOLEAN
         /\ kind \in {"hover", "payload"} => (IsDone <=> done \/ TimeIsUp \/ Failed)
         /\ kind = "tracking" => (IsDone <=> done)
         /\ kind = "pendulum" => (IsDone <=> TimeIsUp \/ Failed)
         /\ kind = "formation" => (IsDone <=> done \/ TimeIsUp)
<1>1. CASE kind = "hover"
  BY <1>1 DEF IsDone, HoverIsDone
<1>2. CASE kind = "tracking"
  BY <1>2 DEF IsDone, TrackingIsDone
<1>3. CASE kind = "payload"
  BY <1>3 DEF IsDone, PayloadIsDone
<1>4. CASE kind = "pendulum"
  BY <1>4 DEF IsDone, PendulumIsDone
<1>5. CASE kind = "formation"
  BY <1>5 DEF IsDone, FormationIsDone
<1> QED
  BY <1>1, <1>2, <1>3, <1>4, <1>5, GazeboEnvAssumption DEF AllKinds

(* No step changes the configuration, nor therefore the models there are.  *)
LEMMA Configured ==
  ASSUME [Next]_vars
  PROVE  /\ config' = config
         /\ num_agents' = num_agents
         /\ Models' = Models
<1>1. config' = config
  BY DEF Next, vars, EnvStep, Reset, respawn_model, Settle, ObserveReset, Step,
         Iterate, ObserveStep, CheckDone, ComputeReward, WriteObs
<1> QED
  BY <1>1 DEF config, num_agents, Models

(* A history of actions stays one when an action is pushed.                *)
LEMMA Pushed ==
  ASSUME action_history \in Seq(Nat), NEW a \in Nat
  PROVE  PushAction(a) \in Seq(Nat)
<1>1. CASE kind = "hover"
  <2> DEFINE pushed == <<a>> \o action_history
  <2>1. pushed \in Seq(Nat) /\ Len(pushed) \in Nat \ {0}
    OBVIOUS
  <2>2. SubSeq(pushed, 1, Len(pushed) - 1) \in Seq(Nat)
    BY <2>1, SubSeqProperties
  <2> QED
    BY <1>1, <2>1, <2>2 DEF PushAction
<1>2. CASE kind # "hover"
  <2> DEFINE pushed == Append(action_history, a)
  <2>1. pushed \in Seq(Nat) /\ pushed # <<>>
    BY AppendProperties
  <2>2. Tail(pushed) \in Seq(Nat)
    BY <2>1, HeadTailProperties
  <2> QED
    BY <1>2, <2>1, <2>2 DEF PushAction
<1> QED
  BY <1>1, <1>2

(* The history of no actions is one of numbers of actions.                 *)
LEMMA Padded == NoActions \in Seq(Nat) /\ NoAction \in Nat
<1>1. ActionHistory \in Nat
  BY GazeboEnvAssumption
<1>2. [i \in 1 .. ActionHistory |-> 0] \in Seq(Nat)
  BY <1>1, SeqDef
<1> QED
  BY <1>2 DEF NoActions, NoAction

-----------------------------------------------------------------------------
(* Types and stages                                                        *)

(* The worker starts idle, with no episode begun.                          *)
LEMMA TypeInit == Init => TypeOK /\ Stage
<1> SUFFICES ASSUME Init PROVE TypeOK /\ Stage
  OBVIOUS
<1>1. living \in Worlds
  BY DEF Init, Worlds, Parameters, Nominal
<1>2. TypeOK
  <2>1. /\ kind \in Kinds /\ domain_randomization \in BOOLEAN /\ horizon \in BOOLEAN
        /\ pc = "idle" /\ reset = FALSE /\ done = TRUE
        /\ actions = 0 /\ togo = 0 /\ clock = 1 /\ elapsed = -1
        /\ current_step = 0 /\ current_episode = 0 /\ reference = 0
        /\ sdf = [mass |-> 0, rotor |-> 0] /\ randomized_rotor = 0 /\ assumed = 0
    BY DEF Init, Nominal
  <2>2. sdf \in Parameters
    BY <2>1 DEF Parameters
  <2>3. elapsed \in Int /\ randomized_rotor \in Int /\ assumed \in Int
    BY <2>1
  <2>4. actions \in Nat /\ togo \in Nat /\ clock \in Nat
    BY <2>1
  <2>5. pc \in Steps /\ reset \in BOOLEAN /\ done \in BOOLEAN
    BY <2>1 DEF Steps
  <2>6. current_step \in Nat /\ current_episode \in Nat /\ reference \in Nat
    BY <2>1
  <2>7. latest \in Nat /\ action_history \in Seq(Nat)
    BY Padded DEF Init
  <2> QED
    BY <1>1, <2>1, <2>2, <2>3, <2>4, <2>5, <2>6, <2>7 DEF TypeOK, Worlds
<1>3. Stage
  BY DEF Init, Stage, StepOfStep
<1> QED
  BY <1>2, <1>3

(* Every step keeps the types, and the order of the steps.                 *)
LEMMA TypeStep == TypeOK /\ Stage /\ [Next]_vars => TypeOK' /\ Stage'
<1> SUFFICES ASSUME TypeOK, Stage, [Next]_vars PROVE TypeOK' /\ Stage'
  OBVIOUS
<1> kind \in Kinds
  BY DEF TypeOK
<1> done \in BOOLEAN
  BY DEF TypeOK
<1> /\ num_agents \in Nat \ {0}
    /\ Models = 1 .. num_agents
    /\ num_agents' = num_agents
    /\ Models' = Models
  BY Agents, Configured
<1> USE LatchedByKind, IsDoneByKind, GazeboEnvAssumption
<1>1. ASSUME NEW force_reset \in BOOLEAN, EnvStep(force_reset)
      PROVE  TypeOK' /\ Stage'
  <2>1. TypeOK'
    BY <1>1 DEF EnvStep, TypeOK, Steps, config, worldVars, readVars, paramVars, histVars
  <2>2. Stage'
    BY <1>1 DEF EnvStep, TypeOK, Stage, StepOfStep, AllKinds, config, worldVars
  <2> QED
    BY <2>1, <2>2
<1>2. CASE Reset
  <2>1. sdf' \in Parameters /\ randomized_rotor' \in Int /\ assumed' \in Int
    BY <1>2, Randomized DEF Reset, TypeOK, paramVars, histVars
  <2>2. latest' \in Nat /\ action_history' \in Seq(Nat)
    BY <1>2, Padded DEF Reset, TypeOK, ResetHistories, histVars
  <2>3. TypeOK'
    BY <1>2, <2>1, <2>2 DEF Reset, TypeOK, Steps, config, readVars
  <2>4. Stage'
    BY <1>2 DEF Reset, TypeOK, Stage, StepOfStep, config
  <2> QED
    BY <2>3, <2>4
<1>3. CASE respawn_model
  <2> DEFINE a == num_agents - togo + 1
             w == [living EXCEPT ![a].born = clock, ![a].sdf = sdf]
  <2>1. /\ pc = "respawn"
        /\ run_N(w)
        /\ togo' = togo - 1
        /\ pc' = IF togo = 1 THEN "settle" ELSE "respawn"
        /\ UNCHANGED <<config, actions, reset, sdf, stepVars, readVars, paramVars, histVars>>
    BY <1>3 DEF respawn_model
  <2>2. togo \in 1 .. num_agents /\ a \in Models
    BY <2>1 DEF Stage
  <2>3. w \in Worlds
    BY <2>2, Respawned DEF TypeOK, Worlds
  <2> HIDE DEF a, w
  <2>4. clock' \in Nat /\ living' \in Worlds
    BY <2>1, <2>3, Iterations DEF TypeOK
  <2>5. TypeOK'
    BY <2>1, <2>2, <2>4 DEF TypeOK, Steps, Worlds, config, stepVars, readVars, paramVars, histVars
  <2>6. Stage'
    BY <2>1, <2>2 DEF Stage, StepOfStep, config, stepVars
  <2> QED
    BY <2>5, <2>6
<1>4. CASE Settle
  <2>1. clock' \in Nat /\ living' \in Worlds
    BY <1>4, Iterations DEF Settle, TypeOK, Worlds
  <2>2. TypeOK'
    BY <1>4, <2>1 DEF Settle, TypeOK, Steps, Worlds, config, stepVars, readVars, paramVars, histVars
  <2>3. Stage'
    BY <1>4 DEF Settle, TypeOK, Stage, StepOfStep, config, stepVars
  <2> QED
    BY <2>2, <2>3
<1>5. CASE ObserveReset
  <2>1. latest' \in Nat /\ action_history' \in Seq(Nat)
    BY <1>5, Padded DEF ObserveReset, TypeOK, ResetHistories, histVars
  <2> QED
    BY <1>5, <2>1 DEF ObserveReset, TypeOK, Stage, StepOfStep, Steps, config, worldVars,
                      paramVars
<1>6. CASE Step
  <2>1. latest' \in Nat /\ action_history' \in Seq(Nat)
    BY <1>6, Pushed DEF Step, TypeOK
  <2> QED
    BY <1>6, <2>1 DEF Step, TypeOK, Stage, StepOfStep, Steps, config, worldVars, paramVars
<1>7. CASE Iterate
  <2>1. clock' \in Nat /\ living' \in Worlds
    BY <1>7, Iterations DEF Iterate, TypeOK, Worlds
  <2>2. TypeOK'
    BY <1>7, <2>1 DEF Iterate, TypeOK, Stage, Steps, Worlds, config, stepVars, paramVars, histVars
  <2>3. Stage'
    BY <1>7 DEF Iterate, TypeOK, Stage, StepOfStep, config, stepVars
  <2> QED
    BY <2>2, <2>3
<1>8. CASE ObserveStep
  BY <1>8 DEF ObserveStep, TypeOK, Stage, StepOfStep, Steps, config, worldVars, stepVars, paramVars, histVars
<1>9. CASE CheckDone
  BY <1>9 DEF CheckDone, TypeOK, Stage, StepOfStep, Steps, config, worldVars, paramVars, histVars
<1>10. CASE ComputeReward
  BY <1>10 DEF ComputeReward, TypeOK, Stage, StepOfStep, Steps, config, worldVars, stepVars, paramVars, histVars
<1>11. CASE WriteObs
  BY <1>11 DEF WriteObs, TypeOK, Stage, StepOfStep, Steps, config, worldVars, paramVars, histVars
<1>12. CASE UNCHANGED vars
  BY <1>12 DEF vars, TypeOK, Stage, StepOfStep, config, worldVars, stepVars,
               paramVars, histVars
<1> QED
  BY <1>1, <1>2, <1>3, <1>4, <1>5, <1>6, <1>7, <1>8, <1>9, <1>10, <1>11, <1>12 DEF Next

(* A step is only taken between actions of an episode that is not over.    *)
LEMMA Continues ==
  ASSUME TypeOK, Stage, NEW force_reset \in BOOLEAN, EnvStep(force_reset)
  PROVE  pc' = "step" => Waiting /\ ~IsDone /\ ~force_reset
<1>1. /\ pc = "idle"
      /\ kind = "pendulum" /\ current_episode = 0 => force_reset
      /\ pc' = "step" => ~IsDone /\ ~force_reset
  BY DEF EnvStep
<1>2. kind # "pendulum" /\ current_episode = 0 => IsDone
  BY <1>1, IsDoneByKind, GazeboEnvAssumption DEF TypeOK, Stage, AllKinds
<1> QED
  BY <1>1, <1>2 DEF TypeOK, Waiting

-----------------------------------------------------------------------------
(* Parameters in force                                                     *)

(* The worlds start with the nominal parameters.                           *)
LEMMA DynamicsInit == Init => Dynamics
BY DEF Init, Dynamics, Nominal

(* Every step keeps them: a reset writes descriptions first and respawns   *)
(* every model then, and nothing else touches either.                      *)
LEMMA DynamicsStep == TypeOK /\ Stage /\ Dynamics /\ [Next]_vars => Dynamics'
<1> SUFFICES ASSUME TypeOK, Stage, Dynamics, [Next]_vars PROVE Dynamics'
  OBVIOUS
<1> kind \in Kinds
  BY DEF TypeOK
<1> /\ num_agents \in Nat \ {0}
    /\ Models = 1 .. num_agents
    /\ num_agents' = num_agents
    /\ Models' = Models
  BY Agents, Configured
<1>1. ASSUME NEW force_reset \in BOOLEAN, EnvStep(force_reset) PROVE Dynamics'
  BY <1>1 DEF EnvStep, Dynamics, config, worldVars, paramVars
<1>2. CASE Reset
  <2>1. /\ assumed' = sdf'.mass
        /\ sdf'.mass \in -1 .. 1
        /\ kind # "formation"
             => randomized_rotor' \in -1 .. 1 /\ sdf'.rotor \in -1 .. 1
    BY <1>2, Randomized DEF Reset, TypeOK, Dynamics, paramVars
  <2> QED
    BY <1>2, <2>1 DEF Reset, Dynamics, config
<1>3. CASE respawn_model
  <2> DEFINE a == num_agents - togo + 1
             w == [living EXCEPT ![a].born = clock, ![a].sdf = sdf]
  <2>1. /\ pc = "respawn"
        /\ run_N(w)
        /\ togo' = togo - 1
        /\ pc' = IF togo = 1 THEN "settle" ELSE "respawn"
        /\ UNCHANGED <<config, sdf, paramVars>>
    BY <1>3 DEF respawn_model
  <2>2. togo \in 1 .. num_agents /\ a \in Models
    BY <2>1 DEF Stage
  <2>3. w \in Worlds /\ w[a].sdf = sdf /\ \A b \in Models \ {a} : w[b].sdf = living[b].sdf
    BY <2>2, Respawned DEF TypeOK, Worlds
  <2> HIDE DEF w
  <2>4. \A b \in Models : living'[b].sdf = w[b].sdf
    BY <2>1, <2>3, Iterations DEF TypeOK
  <2>5. \A b \in Models : b <= num_agents - togo' => living'[b].sdf = sdf
    BY <2>1, <2>2, <2>3, <2>4 DEF Dynamics
  <2>6. pc' = "settle" => \A b \in Models : living'[b].sdf = sdf
    BY <2>1, <2>2, <2>5
  <2> QED
    BY <2>1, <2>5, <2>6 DEF Dynamics, config, paramVars
<1>4. CASE Settle
  <2>1. \A a \in Models : living'[a].sdf = living[a].sdf
    BY <1>4, Iterations DEF Settle, TypeOK, Worlds
  <2> QED
    BY <1>4, <2>1 DEF Settle, Dynamics, config, paramVars
<1>5. CASE ObserveReset
  BY <1>5 DEF ObserveReset, Dynamics, config, worldVars, paramVars
<1>6. CASE Step
  BY <1>6 DEF Step, Dynamics, config, worldVars, paramVars
<1>7. CASE Iterate
  <2>1. \A a \in Models : living'[a].sdf = living[a].sdf
    BY <1>7, Iterations DEF Iterate, TypeOK, Worlds
  <2>2. pc' # "respawn"
    BY <1>7 DEF Iterate
  <2> QED
    BY <1>7, <2>1, <2>2 DEF Iterate, Dynamics, config, paramVars
<1>8. CASE ObserveStep
  BY <1>8 DEF ObserveStep, Dynamics, config, worldVars, paramVars
<1>9. CASE CheckDone
  BY <1>9 DEF CheckDone, Dynamics, config, worldVars, paramVars
<1>10. CASE ComputeReward
  BY <1>10 DEF ComputeReward, Dynamics, config, worldVars, paramVars
<1>11. CASE WriteObs
  BY <1>11 DEF WriteObs, Dynamics, config, worldVars, paramVars
<1>12. CASE UNCHANGED vars
  BY <1>12 DEF vars, Dynamics, config, worldVars, paramVars
<1> QED
  BY <1>1, <1>2, <1>3, <1>4, <1>5, <1>6, <1>7, <1>8, <1>9, <1>10, <1>11, <1>12 DEF Next

-----------------------------------------------------------------------------
(* States read                                                             *)

(* No row is written, and no reward given, before the first reset.         *)
LEMMA ViewInit == Init => View
BY DEF Init, View, Waiting

(* Every step keeps them: the states are read after the last iteration of  *)
(* a reset or a step, and no iteration runs between a row and the action   *)
(* that follows it.                                                        *)
LEMMA ViewStep == TypeOK /\ Stage /\ View /\ [Next]_vars => View'
<1> SUFFICES ASSUME TypeOK, Stage, View, [Next]_vars PROVE View'
  OBVIOUS
<1> /\ kind' = kind
    /\ Models' = Models
  BY Configured DEF config
<1>1. ASSUME NEW force_reset \in BOOLEAN, EnvStep(force_reset) PROVE View'
  <2>1. pc = "idle" /\ pc' \in {"reset", "step"} /\ (pc' = "step" => ~reset')
    BY <1>1 DEF EnvStep
  <2>2. pc' = "step" => current_episode > 0
    BY <1>1, Continues DEF Waiting
  <2>3. UNCHANGED <<current_state, row>>
    BY <1>1 DEF EnvStep, readVars
  <2> QED
    BY <2>1, <2>2, <2>3 DEF View, Waiting
<1>2. CASE Reset
  BY <1>2 DEF Reset, View, Waiting
<1>3. CASE respawn_model
  <2>1. pc' \in {"respawn", "settle"}
    BY <1>3 DEF respawn_model
  <2> QED
    BY <2>1 DEF View, Waiting
<1>4. CASE Settle
  <2>1. pc' = "observe" /\ reset'
    BY <1>4 DEF Settle, Stage
  <2> QED
    BY <2>1 DEF View, Waiting
<1>5. CASE ObserveReset
  <2>1. pc' = "write" /\ Fresh'
    BY <1>5 DEF ObserveReset, UpdateControlStates, Fresh, Read, worldVars
  <2> QED
    BY <2>1 DEF View, Waiting
<1>6. CASE Step
  BY <1>6 DEF Step, View, Waiting, readVars
<1>7. CASE Iterate
  <2>1. pc = "iterate" /\ ~reset /\ reset' = reset /\ row' = row
    BY <1>7 DEF Iterate, Stage
  <2>2. CASE kind = "hover"
    <3>1. pc' \in {"iterate", "reward"} /\ Fresh'
      BY <1>7, <2>2 DEF Iterate, Fresh
    <3> QED
      BY <2>2, <3>1 DEF View, Waiting
  <2>3. CASE kind # "hover"
    <3>1. pc' \in {"iterate", "observe"} /\ current_state' = current_state
      BY <1>7, <2>3 DEF Iterate, readVars
    <3> QED
      BY <2>1, <2>3, <3>1 DEF View, Waiting
  <2> QED
    BY <2>2, <2>3
<1>8. CASE ObserveStep
  <2>1. pc = "observe" /\ ~reset /\ pc' = "judge" /\ row' = row
    BY <1>8 DEF ObserveStep
  <2>2. Fresh' /\ last_state' = current_state
    BY <1>8 DEF ObserveStep, UpdateControlStates, Fresh, Read, worldVars
  <2> QED
    BY <2>1, <2>2 DEF View, Waiting
<1>9. CASE CheckDone
  <2>1. /\ pc = "judge" /\ pc' = "reward" /\ row' = row
        /\ last_state' = last_state
        /\ Fresh' <=> Fresh
    BY <1>9 DEF CheckDone, Fresh, Read, readVars, worldVars
  <2> QED
    BY <2>1 DEF View, Waiting
<1>10. CASE ComputeReward
  <2>1. /\ pc = "reward" /\ pc' = "write"
        /\ Fresh' <=> Fresh
    BY <1>10 DEF ComputeReward, Fresh, Read, readVars, worldVars
  <2> QED
    BY <2>1 DEF View, Waiting
<1>11. CASE WriteObs
  <2>1. /\ pc = "write" /\ pc' = "idle"
        /\ row'.obs = current_state' 
        /\ Fresh' <=> Fresh
    BY <1>11 DEF WriteObs, Fresh, Read, readVars, worldVars
  <2> QED
    BY <2>1 DEF View, Waiting
<1>12. CASE UNCHANGED vars
  <2>1. Fresh' <=> Fresh
    BY <1>12 DEF vars, Fresh, Read, readVars, worldVars
  <2> QED
    BY <1>12, <2>1 DEF vars, View, Waiting, readVars, stepVars
<1> QED
  BY <1>1, <1>2, <1>3, <1>4, <1>5, <1>6, <1>7, <1>8, <1>9, <1>10, <1>11, <1>12 DEF Next

-----------------------------------------------------------------------------
(* Counters                                                                *)

(* Nothing has been counted before the first reset.                        *)
LEMMA CountsInit == Init => Counts
BY DEF Init, Counts, Waiting, StepOfReset, StepOfStep

(* Every step keeps the counters together: Env counts at the start of a    *)
(* step, the environment and the trajectory right after it.                *)
LEMMA CountsStep == TypeOK /\ Stage /\ Counts /\ [Next]_vars => Counts'
<1> SUFFICES ASSUME TypeOK, Stage, Counts, [Next]_vars PROVE Counts'
  OBVIOUS
<1> USE DEF Counts, Waiting, StepOfReset, StepOfStep
<1>1. ASSUME NEW force_reset \in BOOLEAN, EnvStep(force_reset) PROVE Counts'
  <2>1. pc' = "step" => Waiting
    BY <1>1, Continues
  <2>2. /\ pc' = IF reset' THEN "reset" ELSE "step"
        /\ elapsed' = IF reset' THEN 0 ELSE elapsed + 1
        /\ UNCHANGED <<current_step, reference>>
    BY <1>1 DEF EnvStep
  <2> QED
    BY <2>1, <2>2 DEF TypeOK
<1>2. CASE Reset
  BY <1>2 DEF Reset
<1>3. CASE respawn_model
  BY <1>3 DEF respawn_model, stepVars
<1>4. CASE Settle
  <2>1. /\ pc = "settle" /\ pc' = "observe" /\ reset' 
        /\ UNCHANGED stepVars
    BY <1>4 DEF Settle, Stage
  <2> QED
    BY <2>1 DEF stepVars
<1>5. CASE ObserveReset
  BY <1>5 DEF ObserveReset
<1>6. CASE Step
  BY <1>6 DEF Step, Stage, TypeOK
<1>7. CASE Iterate
  <2>1. /\ pc = "iterate" /\ pc' \in {"iterate", "reward", "observe"}
        /\ ~reset /\ reset' = reset
        /\ UNCHANGED stepVars
    BY <1>7 DEF Iterate, Stage
  <2> QED
    BY <2>1 DEF stepVars
<1>8. CASE ObserveStep
  BY <1>8 DEF ObserveStep, stepVars
<1>9. CASE CheckDone
  BY <1>9 DEF CheckDone
<1>10. CASE ComputeReward
  BY <1>10 DEF ComputeReward, stepVars
<1>11. CASE WriteObs
  BY <1>11 DEF WriteObs
<1>12. CASE UNCHANGED vars
  BY <1>12 DEF vars, stepVars
<1> QED
  BY <1>1, <1>2, <1>3, <1>4, <1>5, <1>6, <1>7, <1>8, <1>9, <1>10, <1>11, <1>12 DEF Next

-----------------------------------------------------------------------------
(* Ends of episodes                                                        *)

(* No row has been written before the first reset.                         *)
LEMMA EndsInit == Init => Ends
BY DEF Init, Ends, Waiting, StepOfReset, StepOfStep

(* The time an episode has left, and whether it has failed, change with    *)
(* the steps taken and the states read.                                    *)
LEMMA EndsByState ==
  ASSUME UNCHANGED <<current_step, current_state>>
  PROVE  (TimeIsUp' <=> TimeIsUp) /\ (Failed' <=> Failed)
BY DEF TimeIsUp, Failed

(* Every step keeps them: done_ is cleared by a reset, and set only when   *)
(* the steps are over or the state read shows a failure.                   *)
LEMMA EndsStep ==
  TypeOK /\ Stage /\ Counts /\ Ends /\ [Next]_vars => Ends'
<1> SUFFICES ASSUME TypeOK, Stage, Counts, Ends, [Next]_vars PROVE Ends'
  OBVIOUS
<1> /\ kind \in Kinds /\ kind \in AllKinds /\ kind' = kind
    /\ done \in BOOLEAN /\ done' \in BOOLEAN
  BY Configured, TypeStep, GazeboEnvAssumption DEF TypeOK, config
<1> USE DEF Ends, Waiting, StepOfReset, StepOfStep
<1>1. ASSUME NEW force_reset \in BOOLEAN, EnvStep(force_reset) PROVE Ends'
  <2>1. pc' = "step" => Waiting /\ ~IsDone /\ ~force_reset
    BY <1>1, Continues DEF EnvStep
  <2>2. /\ pc' = IF reset' THEN "reset" ELSE "step"
        /\ done' = IF force_reset THEN done ELSE Latched
    BY <1>1 DEF EnvStep
  <2>3. pc' = "step" /\ kind # "pendulum" => ~done'
    BY <2>1, <2>2, LatchedByKind, IsDoneByKind DEF AllKinds
  <2> QED
    BY <2>2, <2>3
<1>2. CASE Reset
  BY <1>2 DEF Reset
<1>3. CASE respawn_model
  BY <1>3 DEF respawn_model, stepVars
<1>4. CASE Settle
  <2>1. /\ pc = "settle" /\ pc' = "observe" /\ reset'
        /\ UNCHANGED stepVars
    BY <1>4 DEF Settle, Stage
  <2> QED
    BY <2>1 DEF stepVars
<1>5. CASE ObserveReset
  <2>1. pc = "observe" /\ reset /\ pc' = "write" /\ done' = done
        /\ current_step' = current_step
    BY <1>5 DEF ObserveReset
  <2>2. ~TimeIsUp'
    BY <2>1, GazeboEnvAssumption DEF Counts, TimeIsUp
  <2> QED
    BY <2>1, <2>2
<1>6. CASE Step
  BY <1>6 DEF Step
<1>7. CASE Iterate
  <2>1. /\ pc = "iterate" /\ ~reset /\ reset' = reset
        /\ pc' \in {"iterate", "reward", "observe"}
        /\ kind # "hover" => pc' # "reward"
        /\ UNCHANGED stepVars
    BY <1>7 DEF Iterate, Stage
  <2> QED
    BY <2>1 DEF stepVars
<1>8. CASE ObserveStep
  BY <1>8 DEF ObserveStep, stepVars
<1>9. CASE CheckDone
  <2>1. /\ pc = "judge" /\ pc' = "reward"
        /\ done' = IF kind = "tracking" THEN done \/ TimeIsUp \/ Failed ELSE Latched
        /\ UNCHANGED <<current_step, current_state>>
    BY <1>9 DEF CheckDone, readVars
  <2>2. (TimeIsUp' <=> TimeIsUp) /\ (Failed' <=> Failed)
    BY <2>1, EndsByState
  <2>3. CASE kind = "tracking"
    <3>1. done' <=> done \/ TimeIsUp \/ Failed
      BY <2>1, <2>3
    <3> QED
      BY <2>1, <2>2, <2>3, <3>1
  <2>4. CASE kind # "tracking"
    <3>1. done' = Latched
      BY <2>1, <2>4
    <3> QED
      BY <2>1, <2>2, <2>4, <3>1, LatchedByKind DEF Stage
  <2> QED
    BY <2>3, <2>4
<1>10. CASE ComputeReward
  <2>1. pc = "reward" /\ pc' = "write" /\ UNCHANGED <<current_step, current_state, done>>
    BY <1>10 DEF ComputeReward, stepVars, readVars
  <2> QED
    BY <2>1, EndsByState
<1>11. CASE WriteObs
  <2>1. /\ pc = "write" /\ pc' = "idle"
        /\ row' = [done    |-> IsDone,
                   trunc   |-> IsDone /\ horizon /\ elapsed >= MaxSteps,
                   elapsed |-> elapsed,
                   obs     |-> current_state,
                   actions |-> action_history,
                   states  |-> state_history']
        /\ done' = Latched
        /\ UNCHANGED <<current_step, current_state, elapsed, horizon>>
    BY <1>11 DEF WriteObs, readVars, config
  <2>2. (TimeIsUp' <=> TimeIsUp) /\ (Failed' <=> Failed)
    BY <2>1, EndsByState
  <2>3. IsDone' <=> IsDone
    <3>1. CASE kind = "hover"
      BY <2>1, <2>2, <3>1, LatchedByKind DEF IsDone, HoverIsDone
    <3>2. CASE kind = "tracking"
      BY <2>1, <2>2, <3>2, LatchedByKind DEF IsDone, TrackingIsDone
    <3>3. CASE kind = "payload"
      BY <2>1, <2>2, <3>3, LatchedByKind DEF IsDone, PayloadIsDone
    <3>4. CASE kind = "pendulum"
      BY <2>1, <2>2, <3>4 DEF IsDone, PendulumIsDone
    <3>5. CASE kind = "formation"
      BY <2>1, <2>2, <3>5, LatchedByKind DEF IsDone, FormationIsDone
    <3> QED
      BY <3>1, <3>2, <3>3, <3>4, <3>5 DEF AllKinds
  <2>4. row'.done = IsDone /\ row'.trunc = (IsDone /\ horizon /\ elapsed >= MaxSteps)
    BY <2>1
  <2> QED
    BY <2>1, <2>2, <2>3, <2>4, LatchedByKind DEF AllKinds
<1>12. CASE UNCHANGED vars
  <2>1. IsDone' <=> IsDone
    BY <1>12 DEF vars, IsDone, HoverIsDone, TrackingIsDone, PayloadIsDone, PendulumIsDone,
                 FormationIsDone, TimeIsUp, Failed, stepVars, readVars
  <2> QED
    BY <1>12, <2>1, EndsByState DEF vars, stepVars, readVars, config
<1> QED
  BY <1>1, <1>2, <1>3, <1>4, <1>5, <1>6, <1>7, <1>8, <1>9, <1>10, <1>11, <1>12 DEF Next

-----------------------------------------------------------------------------
(* Theorems                                                                *)

IInv == TypeOK /\ Stage /\ View /\ Counts /\ Ends /\ Dynamics

(* The invariant of an environment: which step it is in, and what the      *)
(* counters, the flag, the states read and the parameters are there.       *)
THEOREM EnvironmentInvariant == Spec => []IInv
<1>1. Init => IInv
  BY TypeInit, ViewInit, CountsInit, EndsInit, DynamicsInit DEF IInv
<1>2. IInv /\ [Next]_vars => IInv'
  BY TypeStep, ViewStep, CountsStep, EndsStep, DynamicsStep DEF IInv
<1> QED
  BY <1>1, <1>2, PTL DEF Spec

(* Every variable keeps its type, for every environment.                   *)
THEOREM TypeCorrect == Spec => []TypeOK
<1>1. IInv => TypeOK
  BY DEF IInv
<1> QED
  BY <1>1, EnvironmentInvariant, PTL

(* What a row says of the end of an episode is so (Env::Allocate asks      *)
(* IsDone, the worker asks it again before the next action), for every     *)
(* length of an episode.                                                   *)
THEOREM EndsReported == Spec => []DoneReported
<1>1. ASSUME IInv PROVE DoneReported
  <2> SUFFICES ASSUME Waiting PROVE
        /\ row.done <=> IsDone
        /\ row.elapsed >= MaxSteps => row.done
        /\ row.done => row.elapsed >= MaxSteps \/ row.obs[1].failed
        /\ row.trunc <=> horizon /\ row.elapsed >= MaxSteps
    BY DEF DoneReported
  <2>1. kind \in Kinds /\ kind \in AllKinds /\ done \in BOOLEAN
    BY <1>1, GazeboEnvAssumption DEF IInv, TypeOK
  <2>2. row.elapsed = current_step /\ elapsed = current_step
    BY <1>1 DEF IInv, Counts
  <2>3. row.elapsed >= MaxSteps <=> TimeIsUp
    BY <2>2 DEF TimeIsUp
  <2>4. row.obs[1].failed <=> Failed
    BY <1>1 DEF IInv, View, Failed
  <2>5. (row.done <=> IsDone) /\ (row.trunc <=> IsDone /\ horizon /\ TimeIsUp)
    BY <1>1, <2>2 DEF IInv, Ends, TimeIsUp
  <2>6. (TimeIsUp => IsDone) /\ (IsDone => TimeIsUp \/ Failed)
    BY <1>1, <2>1, IsDoneByKind DEF IInv, Ends, AllKinds
  <2> QED
    BY <2>3, <2>4, <2>5, <2>6
<1> QED
  BY <1>1, EnvironmentInvariant, PTL

(* A row shows every model as it is after the last iteration run, for any  *)
(* size of a formation and number of iterations in a step.                 *)
THEOREM RowsCurrent == Spec => []ObservesTheWorld
<1>1. IInv => ObservesTheWorld
  BY DEF IInv, View, Fresh, ObservesTheWorld
<1> QED
  BY <1>1, EnvironmentInvariant, PTL

(* The two states a reward is computed from are that of the last row and   *)
(* that of the world, whatever the number of iterations between them, and  *)
(* a tracker's reference is that of the time flown.                        *)
THEOREM RewardsOfActions == Spec => []RewardSpansTheAction
<1>1. IInv => RewardSpansTheAction
  BY DEF IInv, View, Fresh, Counts, RewardSpansTheAction
<1> QED
  BY <1>1, EnvironmentInvariant, PTL

(* Every model of an episode has the parameters drawn for it, and so does  *)
(* what assumes them; but for the formation they are as drawn.             *)
THEOREM DrawsInForce == Spec => []DynamicsInForce
<1>1. IInv => DynamicsInForce
  BY DEF IInv, Dynamics, Waiting, InRange, DynamicsInForce
<1> QED
  BY <1>1, EnvironmentInvariant, PTL

-----------------------------------------------------------------------------
(* The histories                                                           *)

(* The history of the last count actions, of which newest was the last.    *)
ActionsOf(count, newest) ==
  [i \in 1 .. ActionHistory |->
     LET age == IF kind = "hover" THEN i ELSE ActionHistory - i + 1
     IN  IF age <= count THEN newest - age + 1 ELSE NoAction]

(* In a step of the environment, before the state it leads to is read.     *)
InStep ==
  pc \in {"iterate", "judge", "reward"} \/ (pc \in {"observe", "write"} /\ ~reset)

(* From the reset of the hover's processor on.                             *)
HoverReset ==
  kind = "hover" /\ (pc \in {"respawn", "settle"} \/ (pc = "observe" /\ reset))

Begun ==
  /\ InStep => elapsed > 0 /\ latest = actions
  /\ HoverReset => latest = NoAction
  /\ pc = "write" /\ reset => elapsed = 0 /\ latest = NoAction

ActionsKept ==
  KeepsActions =>
    /\ InStep \/ HoverReset \/ pc = "write" \/ Waiting
         => action_history = ActionsOf(elapsed, actions)
    /\ pc = "step" => action_history = ActionsOf(elapsed - 1, actions - 1)
    /\ Waiting => row.actions = action_history

Entries == [state : [at : Nat, born : Nat, failed : BOOLEAN], action : Nat]

(* States after the last count steps, the last one read at some iteration. *)
StatesOf(count, at, newest) ==
  /\ state_history \in Seq(Entries)
  /\ Len(state_history) = StateHistory
  /\ \A i \in 1 .. StateHistory :
       LET age == StateHistory - i
       IN  /\ state_history[i].state.born = living[1].born
           /\ state_history[i].state.at =
                at - PhysicsSteps * (IF age < count THEN age ELSE count)
           /\ kind = "tracking" =>
                state_history[i].action =
                  IF age < count THEN newest - age ELSE NoAction

StatesKept ==
  KeepsStates =>
    /\ pc = "step" => StatesOf(elapsed - 1, clock, actions - 1)
    /\ pc = "iterate" =>
         StatesOf(elapsed - 1, clock - (PhysicsSteps - togo), actions - 1)
    /\ InStep /\ pc # "iterate" =>
         StatesOf(elapsed - 1, clock - PhysicsSteps, actions - 1)
    /\ pc = "write" /\ reset => StatesOf(0, clock, actions)
    /\ Waiting =>
         /\ StatesOf(elapsed, clock, actions)
         /\ state_history[StateHistory].state = Read(1)
         /\ row.states = state_history

Histories == Begun /\ ActionsKept /\ StatesKept

-----------------------------------------------------------------------------
(* What pushing does                                                       *)

(* Pushed at the back of a full history, an element takes the last place   *)
(* and the others move up.                                                 *)
LEMMA Shifted ==
  ASSUME NEW S, NEW h \in Seq(S), NEW e \in S, NEW n \in Nat \ {0}, Len(h) = n
  PROVE  LET pushed == Append(h, e)
         IN  /\ Len(pushed) > n
             /\ Tail(pushed) \in Seq(S)
             /\ Len(Tail(pushed)) = n
             /\ \A i \in 1 .. n : Tail(pushed)[i] = IF i < n THEN h[i + 1] ELSE e
<1> DEFINE pushed == Append(h, e)
<1>1. /\ pushed \in Seq(S) /\ pushed # <<>>
      /\ Len(pushed) = n + 1
      /\ \A i \in 1 .. n : pushed[i] = h[i]
      /\ pushed[n + 1] = e
  BY AppendProperties
<1> HIDE DEF pushed
<1>2. /\ Tail(pushed) \in Seq(S)
      /\ Len(Tail(pushed)) = Len(pushed) - 1
      /\ \A i \in 1 .. Len(Tail(pushed)) : Tail(pushed)[i] = pushed[i + 1]
  BY <1>1, HeadTailProperties
<1>3. Len(Tail(pushed)) = n /\ Len(pushed) > n
  BY <1>1, <1>2
<1>4. ASSUME NEW i \in 1 .. n
      PROVE  Tail(pushed)[i] = IF i < n THEN h[i + 1] ELSE e
  <2>1. Tail(pushed)[i] = pushed[i + 1]
    BY <1>2, <1>3
  <2>2. CASE i < n
    <3>1. i + 1 \in 1 .. n
      BY <2>2
    <3> QED
      BY <1>1, <2>1, <2>2, <3>1
  <2>3. CASE ~(i < n)
    <3>1. i = n
      BY <2>3
    <3> QED
      BY <1>1, <2>1, <3>1
  <2> QED
    BY <2>2, <2>3
<1> QED
  BY <1>2, <1>3, <1>4 DEF pushed

(* Pushed at the front, it takes the first place.                          *)
LEMMA ShiftedBack ==
  ASSUME NEW S, NEW h \in Seq(S), NEW e \in S, NEW n \in Nat \ {0}, Len(h) = n
  PROVE  LET pushed == <<e>> \o h
         IN  /\ Len(pushed) > n
             /\ SubSeq(pushed, 1, Len(pushed) - 1) \in Seq(S)
             /\ Len(SubSeq(pushed, 1, Len(pushed) - 1)) = n
             /\ \A i \in 1 .. n : SubSeq(pushed, 1, Len(pushed) - 1)[i] =
                                    IF i = 1 THEN e ELSE h[i - 1]
<1> DEFINE pushed == <<e>> \o h
           front  == SubSeq(pushed, 1, Len(pushed) - 1)
<1>1. /\ pushed \in Seq(S)
      /\ Len(pushed) = n + 1
      /\ pushed[1] = e
      /\ \A i \in 2 .. n + 1 : pushed[i] = h[i - 1]
  OBVIOUS
<1> HIDE DEF pushed
<1>2. /\ front \in Seq(S)
      /\ Len(front) = n
      /\ \A i \in 1 .. n : front[i] = pushed[i]
  BY <1>1, SubSeqProperties
<1>3. ASSUME NEW i \in 1 .. n PROVE front[i] = IF i = 1 THEN e ELSE h[i - 1]
  BY <1>1, <1>2
<1> QED
  BY <1>1, <1>2, <1>3 DEF pushed

(* Before any action of the episode the history is all padding.            *)
LEMMA NoActionsOf ==
  ASSUME KeepsActions, NEW newest
  PROVE  NoActions = ActionsOf(0, newest)
<1>1. ASSUME NEW i \in 1 .. ActionHistory
      PROVE  ~((IF kind = "hover" THEN i ELSE ActionHistory - i + 1) <= 0)
  BY GazeboEnvAssumption
<1> QED
  BY <1>1 DEF NoActions, ActionsOf

(* Pushing the next action makes the history of one action more.           *)
LEMMA PushActionsOf ==
  ASSUME action_history \in Seq(Nat), NEW count \in Nat, NEW a \in Nat,
         action_history = ActionsOf(count, a - 1)
  PROVE  PushAction(a) = ActionsOf(count + 1, a)
<1> DEFINE N == ActionHistory
<1>1. N \in Nat \ {0}
  BY GazeboEnvAssumption
<1>2. /\ Len(action_history) = N
      /\ \A i \in 1 .. N :
           action_history[i] =
             LET age == IF kind = "hover" THEN i ELSE N - i + 1
             IN  IF age <= count THEN a - 1 - age + 1 ELSE NoAction
  BY <1>1 DEF ActionsOf
<1>3. /\ PushAction(a) \in Seq(Nat)
      /\ Len(PushAction(a)) = N
      /\ \A i \in 1 .. N :
           PushAction(a)[i] =
             IF kind = "hover" THEN IF i = 1 THEN a ELSE action_history[i - 1]
             ELSE IF i < N THEN action_history[i + 1] ELSE a
  <2>1. CASE kind = "hover"
    <3> DEFINE pushed == <<a>> \o action_history
    <3>1. /\ Len(pushed) > N
          /\ SubSeq(pushed, 1, Len(pushed) - 1) \in Seq(Nat)
          /\ Len(SubSeq(pushed, 1, Len(pushed) - 1)) = N
          /\ \A i \in 1 .. N : SubSeq(pushed, 1, Len(pushed) - 1)[i] =
                                 IF i = 1 THEN a ELSE action_history[i - 1]
      BY <1>1, <1>2, ShiftedBack
    <3>2. PushAction(a) = SubSeq(pushed, 1, Len(pushed) - 1)
      BY <2>1, <3>1 DEF PushAction
    <3> HIDE DEF pushed
    <3> QED
      BY <2>1, <3>1, <3>2
  <2>2. CASE kind # "hover"
    <3> DEFINE pushed == Append(action_history, a)
    <3>1. /\ Len(pushed) > N
          /\ Tail(pushed) \in Seq(Nat)
          /\ Len(Tail(pushed)) = N
          /\ \A i \in 1 .. N : Tail(pushed)[i] =
                                 IF i < N THEN action_history[i + 1] ELSE a
      BY <1>1, <1>2, Shifted
    <3>2. PushAction(a) = Tail(pushed)
      BY <2>2, <3>1 DEF PushAction
    <3> HIDE DEF pushed
    <3> QED
      BY <2>2, <3>1, <3>2
  <2> QED
    BY <2>1, <2>2
<1>4. ASSUME NEW i \in 1 .. N
      PROVE  PushAction(a)[i] = ActionsOf(count + 1, a)[i]
  <2>1. ActionsOf(count + 1, a)[i] =
          LET age == IF kind = "hover" THEN i ELSE N - i + 1
          IN  IF age <= count + 1 THEN a - age + 1 ELSE NoAction
    BY DEF ActionsOf
  <2>2. CASE kind = "hover"
    <3>1. CASE i = 1
      BY <1>3, <2>1, <2>2, <3>1
    <3>2. CASE i # 1
      <4>1. i - 1 \in 1 .. N /\ i \in Nat
        BY <1>1, <3>2
      <4>2. PushAction(a)[i] = IF i - 1 <= count THEN a - 1 - (i - 1) + 1 ELSE NoAction
        BY <1>2, <1>3, <2>2, <3>2, <4>1
      <4>3. ActionsOf(count + 1, a)[i] = IF i <= count + 1 THEN a - i + 1 ELSE NoAction
        BY <2>1, <2>2
      <4> QED
        BY <4>1, <4>2, <4>3
    <3> QED
      BY <3>1, <3>2
  <2>3. CASE kind # "hover"
    <3>1. CASE i = N
      BY <1>1, <1>3, <2>1, <2>3, <3>1
    <3>2. CASE i # N
      <4>1. i + 1 \in 1 .. N /\ i < N /\ i \in Nat
        BY <1>1, <3>2
      <4>2. PushAction(a)[i] =
              IF N - (i + 1) + 1 <= count THEN a - 1 - (N - (i + 1) + 1) + 1 ELSE NoAction
        BY <1>2, <1>3, <2>3, <4>1
      <4>3. ActionsOf(count + 1, a)[i] =
              IF N - i + 1 <= count + 1 THEN a - (N - i + 1) + 1 ELSE NoAction
        BY <2>1, <2>3
      <4>4. N - (i + 1) + 1 = N - i /\ N - i \in Nat
        BY <1>1, <4>1
      <4> HIDE DEF N
      <4> QED
        BY <1>1, <4>1, <4>2, <4>3, <4>4
    <3> QED
      BY <3>1, <3>2
  <2> QED
    BY <2>2, <2>3
<1> HIDE DEF N
<1>5. PushAction(a) = [i \in 1 .. N |-> PushAction(a)[i]]
  BY <1>1, <1>3
<1>6. ActionsOf(count + 1, a) = [i \in 1 .. N |-> ActionsOf(count + 1, a)[i]]
  BY DEF ActionsOf, N
<1> QED
  BY <1>4, <1>5, <1>6

(* What the state history holds before, and after, a state is added to it. *)
LastStep(count, at, newest) ==
  \/ count > 0 /\ latest = newest
       /\ StatesOf(count - 1, at - PhysicsSteps, newest - 1)
  \/ count = 0 /\ latest = NoAction /\ StatesOf(0, at, newest)

StatesAfter(state, count, at, newest) ==
  /\ (state_history \in Seq(Entries))'
  /\ Len(state_history') = StateHistory
  /\ state_history'[StateHistory].state = state
  /\ \A i \in 1 .. StateHistory :
       LET age == StateHistory - i
       IN  /\ state_history'[i].state.born = living[1].born
           /\ state_history'[i].state.at =
                at - PhysicsSteps * (IF age < count THEN age ELSE count)
           /\ kind = "tracking" =>
                state_history'[i].action =
                  IF age < count THEN newest - age ELSE NoAction

(* One state more: a step after the last count of them, the last is now    *)
(* that of the iteration, and the others are one step older.               *)
LEMMA PushStatesOf ==
  ASSUME NEW count \in Nat, NEW at \in Nat, NEW newest \in Nat,
         NEW state \in [at : Nat, born : Nat, failed : BOOLEAN],
         state.at = at, state.born = living[1].born, latest \in Nat,
         LastStep(count, at, newest),
         state_history' = PushState(state),
         living' = living, kind' = kind
  PROVE  StatesAfter(state, count, at, newest)
<1>0. \/ count > 0 /\ latest = newest
            /\ StatesOf(count - 1, at - PhysicsSteps, newest - 1)
      \/ count = 0 /\ latest = NoAction /\ StatesOf(0, at, newest)
  BY DEF LastStep
<1> DEFINE N == StateHistory
           e == [state |-> state, action |-> latest]
<1>1. N \in Nat \ {0} /\ PhysicsSteps \in Nat \ {0}
  BY GazeboEnvAssumption
<1>2. state_history \in Seq(Entries) /\ Len(state_history) = N /\ e \in Entries
  BY <1>0 DEF StatesOf, Entries
<1>3. /\ state_history' \in Seq(Entries)
      /\ Len(state_history') = N
      /\ \A i \in 1 .. N :
           state_history'[i] = IF i < N THEN state_history[i + 1] ELSE e
  <2> DEFINE pushed == Append(state_history, e)
  <2>1. /\ Len(pushed) > N
        /\ Tail(pushed) \in Seq(Entries)
        /\ Len(Tail(pushed)) = N
        /\ \A i \in 1 .. N : Tail(pushed)[i] =
                               IF i < N THEN state_history[i + 1] ELSE e
    BY <1>1, <1>2, Shifted
  <2>2. state_history' = Tail(pushed)
    BY <2>1 DEF PushState
  <2> HIDE DEF pushed
  <2> QED
    BY <2>1, <2>2
<1>4. /\ state_history'[N] = e
      /\ e.state = state
      /\ e.action = latest
  BY <1>1, <1>3
<1> HIDE DEF e
<1>5. ASSUME NEW i \in 1 .. N
      PROVE  LET age == N - i
             IN  /\ state_history'[i].state.born = living[1].born
                 /\ state_history'[i].state.at =
                      at - PhysicsSteps * (IF age < count THEN age ELSE count)
                 /\ kind = "tracking" =>
                      state_history'[i].action =
                        IF age < count THEN newest - age ELSE NoAction
  <2> DEFINE age == N - i
  <2>1. CASE i = N
    <3>1. age = 0 /\ PhysicsSteps * 0 = 0
      BY <1>1, <2>1
    <3>2. (IF age < count THEN age ELSE count) = 0
      BY <3>1
    <3>3. latest = IF 0 < count THEN newest ELSE NoAction
      BY <1>0
    <3> HIDE DEF age
    <3> QED
      BY <1>4, <2>1, <3>1, <3>2, <3>3
  <2>2. CASE i # N
    <3>1. /\ i + 1 \in 1 .. N /\ i < N
          /\ N - (i + 1) = age - 1
          /\ age \in Nat \ {0}
      BY <1>1, <2>2
    <3>2. state_history'[i] = state_history[i + 1]
      BY <1>3, <3>1
    <3> HIDE DEF age
    <3>3. CASE count = 0 /\ latest = NoAction /\ StatesOf(0, at, newest)
      <4>1. /\ (IF age - 1 < 0 THEN age - 1 ELSE 0) = 0
            /\ (IF age < count THEN age ELSE count) = 0
            /\ ~(age - 1 < 0) /\ ~(age < count)
        BY <3>1, <3>3
      <4>2. /\ state_history[i + 1].state.born = living[1].born
            /\ state_history[i + 1].state.at = at - PhysicsSteps * 0
            /\ kind = "tracking" => state_history[i + 1].action = NoAction
        BY <3>1, <3>3, <4>1 DEF StatesOf
      <4> QED
        BY <3>2, <4>1, <4>2 DEF age
    <3>4. CASE /\ count > 0 /\ latest = newest
               /\ StatesOf(count - 1, at - PhysicsSteps, newest - 1)
      <4> DEFINE before == IF age - 1 < count - 1 THEN age - 1 ELSE count - 1
                 after  == IF age < count THEN age ELSE count
      <4>1. after = before + 1 /\ before \in Nat
        BY <3>1, <3>4
      <4>2. (at - PhysicsSteps) - PhysicsSteps * before = at - PhysicsSteps * after
        <5> HIDE DEF before, after
        <5>1. \A k \in Nat : PhysicsSteps * (k + 1) = PhysicsSteps * k + PhysicsSteps
          BY <1>1
        <5>2. PhysicsSteps * before \in Nat
          BY <1>1, <4>1
        <5> QED
          BY <1>1, <4>1, <5>1, <5>2
      <4>3. /\ state_history[i + 1].state.born = living[1].born
            /\ state_history[i + 1].state.at =
                 (at - PhysicsSteps) - PhysicsSteps * before
            /\ kind = "tracking" =>
                 state_history[i + 1].action =
                   IF age - 1 < count - 1 THEN (newest - 1) - (age - 1) ELSE NoAction
        BY <3>1, <3>4 DEF StatesOf
      <4>4. /\ (age - 1 < count - 1) <=> (age < count)
            /\ (newest - 1) - (age - 1) = newest - age
        BY <3>1
      <4> QED
        BY <3>2, <4>2, <4>3, <4>4 DEF age
    <3> QED
      BY <1>0, <3>3, <3>4
  <2> QED
    BY <2>1, <2>2
<1> QED
  BY <1>3, <1>4, <1>5 DEF StatesAfter

-----------------------------------------------------------------------------
(* Every step keeps the histories                                          *)

(* Nothing is said of them before the first reset.                         *)
LEMMA HistoriesInit == Init => Histories
BY DEF Init, Histories, Begun, ActionsKept, StatesKept, InStep, HoverReset, Waiting

(* A step begins with the action given, a reset with none.                 *)
LEMMA BegunStep == IInv /\ Begun /\ [Next]_vars => Begun'
<1> SUFFICES ASSUME IInv, Begun, [Next]_vars PROVE Begun'
  OBVIOUS
<1> kind' = kind
  BY Configured DEF config
<1> USE DEF Begun, InStep, HoverReset
<1>1. ASSUME NEW force_reset \in BOOLEAN, EnvStep(force_reset) PROVE Begun'
  BY <1>1 DEF EnvStep
<1>2. CASE Reset
  BY <1>2 DEF Reset, ResetHistories
<1>3. CASE respawn_model
  BY <1>3 DEF respawn_model, histVars
<1>4. CASE Settle
  BY <1>4 DEF Settle, IInv, Stage, histVars
<1>5. CASE ObserveReset
  <2>1. elapsed = 0 /\ elapsed' = elapsed /\ reset' = reset
    BY <1>5 DEF ObserveReset, IInv, Counts, StepOfReset
  <2>2. latest' = NoAction
    <3>1. CASE kind # "hover"
      BY <1>5, <3>1 DEF ObserveReset, ResetHistories
    <3>2. CASE kind = "hover"
      BY <1>5, <3>2 DEF ObserveReset, histVars
    <3> QED
      BY <3>1, <3>2
  <2> QED
    BY <1>5, <2>1, <2>2 DEF ObserveReset
<1>6. CASE Step
  <2>1. elapsed > 0
    BY <1>6 DEF Step, IInv, Counts, TypeOK
  <2> QED
    BY <1>6, <2>1 DEF Step
<1>7. CASE Iterate
  BY <1>7 DEF Iterate, stepVars, histVars
<1>8. CASE ObserveStep
  BY <1>8 DEF ObserveStep, stepVars, histVars
<1>9. CASE CheckDone
  BY <1>9 DEF CheckDone, histVars
<1>10. CASE ComputeReward
  BY <1>10 DEF ComputeReward, stepVars, histVars, IInv, Stage
<1>11. CASE WriteObs
  BY <1>11 DEF WriteObs
<1>12. CASE UNCHANGED vars
  BY <1>12 DEF vars, stepVars, histVars
<1> QED
  BY <1>1, <1>2, <1>3, <1>4, <1>5, <1>6, <1>7, <1>8, <1>9, <1>10, <1>11, <1>12 DEF Next

(* The actions kept: a step pushes its own, a reset empties them.          *)
LEMMA ActionsKeptStep ==
  IInv /\ ActionsKept /\ [Next]_vars => ActionsKept'
<1> SUFFICES ASSUME IInv, ActionsKept, [Next]_vars PROVE ActionsKept'
  OBVIOUS
<1> kind' = kind /\ (KeepsActions' <=> KeepsActions)
  BY Configured DEF config, KeepsActions
<1> SUFFICES ASSUME KeepsActions PROVE ActionsKept'
  BY DEF ActionsKept
<1>0. /\ elapsed \in Int /\ actions \in Nat /\ action_history \in Seq(Nat)
      /\ current_step \in Nat
  BY DEF IInv, TypeOK
<1> USE DEF ActionsKept, InStep, HoverReset, Waiting
<1>1. ASSUME NEW force_reset \in BOOLEAN, EnvStep(force_reset) PROVE ActionsKept'
  <2>1. pc' = "step" => action_history = ActionsOf(elapsed, actions)
    BY <1>1, Continues DEF IInv
  <2>2. /\ pc' = IF reset' THEN "reset" ELSE "step"
        /\ actions' = actions + 1
        /\ elapsed' = IF reset' THEN 0 ELSE elapsed + 1
        /\ action_history' = action_history
    BY <1>1 DEF EnvStep, histVars
  <2>3. CASE reset'
    BY <2>2, <2>3
  <2>4. CASE ~reset'
    <3>1. elapsed' - 1 = elapsed /\ actions' - 1 = actions
      BY <1>0, <2>2, <2>4
    <3>2. ActionsOf(elapsed' - 1, actions' - 1) = ActionsOf(elapsed, actions)
      BY <3>1
    <3>3. (ActionsOf(elapsed - 1, actions - 1))' = ActionsOf(elapsed' - 1, actions' - 1)
      BY DEF ActionsOf
    <3> QED
      BY <2>1, <2>2, <2>4, <3>2, <3>3
  <2> QED
    BY <2>3, <2>4
<1>2. CASE Reset
  <2>1. kind = "hover" => action_history' = (ActionsOf(elapsed, actions))'
    <3>1. elapsed' = 0
      BY <1>2 DEF Reset, IInv, Counts
    <3>2. kind = "hover" => action_history' = NoActions
      BY <1>2 DEF Reset, ResetHistories
    <3>3. NoActions = ActionsOf(0, actions')
      BY NoActionsOf
    <3>4. (ActionsOf(elapsed, actions))' = ActionsOf(0, actions')
      BY <3>1 DEF ActionsOf
    <3> QED
      BY <3>2, <3>3, <3>4
  <2> QED
    BY <1>2, <2>1 DEF Reset
<1>3. CASE respawn_model
  <2>1. UNCHANGED <<elapsed, actions, action_history, reset>>
        /\ pc = "respawn" /\ pc' \in {"respawn", "settle"}
    BY <1>3 DEF respawn_model, stepVars, histVars
  <2>2. (ActionsOf(elapsed, actions))' = ActionsOf(elapsed, actions)
    BY <2>1 DEF ActionsOf
  <2> QED
    BY <2>1, <2>2
<1>4. CASE Settle
  <2>1. UNCHANGED <<elapsed, actions, action_history, reset>>
        /\ pc = "settle" /\ pc' = "observe" /\ reset
    BY <1>4 DEF Settle, stepVars, histVars, IInv, Stage
  <2>2. (ActionsOf(elapsed, actions))' = ActionsOf(elapsed, actions)
    BY <2>1 DEF ActionsOf
  <2> QED
    BY <2>1, <2>2
<1>5. CASE ObserveReset
  <2>1. UNCHANGED <<elapsed, actions, reset>>
        /\ pc = "observe" /\ reset /\ pc' = "write" /\ elapsed = 0
    BY <1>5 DEF ObserveReset, IInv, Counts, StepOfReset
  <2>2. (ActionsOf(elapsed, actions))' = ActionsOf(elapsed, actions)
    BY <2>1 DEF ActionsOf
  <2>3. action_history' = ActionsOf(elapsed, actions)
    <3>1. CASE kind = "hover"
      BY <1>5, <2>1, <3>1 DEF ObserveReset, histVars
    <3>2. CASE kind # "hover"
      BY <1>5, <2>1, <3>2, NoActionsOf DEF ObserveReset, ResetHistories
    <3> QED
      BY <3>1, <3>2
  <2> QED
    BY <2>1, <2>2, <2>3
<1>6. CASE Step
  <2>1. /\ pc = "step" /\ pc' = "iterate"
        /\ UNCHANGED <<elapsed, actions, reset>>
        /\ action_history' = PushAction(actions)
    BY <1>6 DEF Step
  <2>2. elapsed - 1 \in Nat
    BY <1>0, <2>1 DEF IInv, Counts
  <2>3. action_history' = ActionsOf((elapsed - 1) + 1, actions)
    BY <1>0, <2>1, <2>2, PushActionsOf
  <2>4. (elapsed - 1) + 1 = elapsed
    BY <1>0
  <2>5. (ActionsOf(elapsed, actions))' = ActionsOf(elapsed, actions)
    BY <2>1 DEF ActionsOf
  <2> QED
    BY <2>1, <2>3, <2>4, <2>5
<1>7. CASE Iterate
  <2>1. /\ UNCHANGED <<elapsed, actions, action_history, reset>>
        /\ pc = "iterate" /\ pc' \in {"iterate", "reward", "observe"}
    BY <1>7 DEF Iterate, stepVars, histVars
  <2>2. (ActionsOf(elapsed, actions))' = ActionsOf(elapsed, actions)
    BY <2>1 DEF ActionsOf
  <2> QED
    BY <2>1, <2>2
<1>8. CASE ObserveStep
  <2>1. /\ UNCHANGED <<elapsed, actions, action_history, reset>>
        /\ pc = "observe" /\ ~reset /\ pc' = "judge"
    BY <1>8 DEF ObserveStep, stepVars, histVars
  <2>2. (ActionsOf(elapsed, actions))' = ActionsOf(elapsed, actions)
    BY <2>1 DEF ActionsOf
  <2> QED
    BY <2>1, <2>2
<1>9. CASE CheckDone
  <2>1. /\ UNCHANGED <<elapsed, actions, action_history, reset>>
        /\ pc = "judge" /\ pc' = "reward"
    BY <1>9 DEF CheckDone, histVars
  <2>2. (ActionsOf(elapsed, actions))' = ActionsOf(elapsed, actions)
    BY <2>1 DEF ActionsOf
  <2> QED
    BY <2>1, <2>2
<1>10. CASE ComputeReward
  <2>1. /\ UNCHANGED <<elapsed, actions, action_history, reset>>
        /\ pc = "reward" /\ pc' = "write"
    BY <1>10 DEF ComputeReward, stepVars, histVars
  <2>2. (ActionsOf(elapsed, actions))' = ActionsOf(elapsed, actions)
    BY <2>1 DEF ActionsOf
  <2> QED
    BY <2>1, <2>2
<1>11. CASE WriteObs
  <2>1. /\ UNCHANGED <<elapsed, actions, action_history, reset>>
        /\ pc = "write" /\ pc' = "idle"
        /\ row'.actions = action_history
    BY <1>11 DEF WriteObs
  <2>2. (ActionsOf(elapsed, actions))' = ActionsOf(elapsed, actions)
    BY <2>1 DEF ActionsOf
  <2> QED
    BY <2>1, <2>2
<1>12. CASE UNCHANGED vars
  <2>1. UNCHANGED <<elapsed, actions, action_history, reset, pc, row, current_episode>>
    BY <1>12 DEF vars, stepVars, histVars
  <2>2. /\ (ActionsOf(elapsed, actions))' = ActionsOf(elapsed, actions)
        /\ (ActionsOf(elapsed - 1, actions - 1))' = ActionsOf(elapsed - 1, actions - 1)
    BY <2>1 DEF ActionsOf
  <2> QED
    BY <2>1, <2>2
<1> QED
  BY <1>1, <1>2, <1>3, <1>4, <1>5, <1>6, <1>7, <1>8, <1>9, <1>10, <1>11, <1>12 DEF Next

(* Iterations respawn no model.                                            *)
LEMMA Born ==
  ASSUME TypeOK, run_N(living)
  PROVE  /\ clock' = clock + 1
         /\ living'[1].born = living[1].born
<1>1. PICK f \in [Models -> IF kind = "formation" THEN {FALSE} ELSE BOOLEAN] :
        living' = [a \in Models |-> [living[a] EXCEPT !.failed = f[a]]]
  BY DEF run_N
<1>2. 1 \in Models
  BY Agents DEF TypeOK
<1>3. living[1] \in [born : Nat, failed : BOOLEAN, sdf : Parameters]
  BY <1>2 DEF TypeOK
<1> QED
  BY <1>1, <1>2, <1>3 DEF run_N

(* The states kept: they fall behind the world as it is run, and the state *)
(* pushed with the row brings them up to it.                               *)
LEMMA StatesKeptStep ==
  IInv /\ Begun /\ StatesKept /\ [Next]_vars => StatesKept'
<1> SUFFICES ASSUME IInv, Begun, StatesKept, [Next]_vars PROVE StatesKept'
  OBVIOUS
<1> kind' = kind /\ (KeepsStates' <=> KeepsStates)
  BY Configured DEF config, KeepsStates
<1> SUFFICES ASSUME KeepsStates PROVE StatesKept'
  BY DEF StatesKept
<1>0. /\ elapsed \in Int /\ actions \in Nat /\ clock \in Nat /\ togo \in Nat
      /\ current_step \in Nat /\ latest \in Nat
      /\ PhysicsSteps \in Nat \ {0} /\ StateHistory \in Nat \ {0}
      /\ kind # "hover"
      /\ Read(1) \in [at : Nat, born : Nat, failed : BOOLEAN]
      /\ Read(1).at = clock /\ Read(1).born = living[1].born
  <2>1. TypeOK /\ 1 \in Models
    BY Agents DEF IInv, TypeOK
  <2>2. living[1] \in [born : Nat, failed : BOOLEAN, sdf : Parameters]
    BY <2>1 DEF TypeOK
  <2> QED
    BY <2>1, <2>2, GazeboEnvAssumption DEF TypeOK, Read, KeepsStates
<1> USE DEF StatesKept, InStep, Waiting
<1>1. ASSUME NEW force_reset \in BOOLEAN, EnvStep(force_reset) PROVE StatesKept'
  <2>1. pc' = "step" => StatesOf(elapsed, clock, actions)
    BY <1>1, Continues DEF IInv
  <2>2. /\ pc' = IF reset' THEN "reset" ELSE "step"
        /\ actions' = actions + 1
        /\ elapsed' = IF reset' THEN 0 ELSE elapsed + 1
        /\ UNCHANGED <<state_history, clock, living>>
    BY <1>1 DEF EnvStep, histVars, worldVars
  <2>3. CASE reset'
    BY <2>2, <2>3
  <2>4. CASE ~reset'
    <3>1. elapsed' - 1 = elapsed /\ actions' - 1 = actions
      BY <1>0, <2>2, <2>4
    <3>2. (StatesOf(elapsed - 1, clock, actions - 1))'
      BY <2>1, <2>2, <2>4, <3>1 DEF StatesOf
    <3> QED
      BY <2>2, <2>4, <3>2
  <2> QED
    BY <2>3, <2>4
<1>2. CASE Reset
  BY <1>2 DEF Reset
<1>3. CASE respawn_model
  <2>1. pc' \in {"respawn", "settle"}
    BY <1>3 DEF respawn_model
  <2> QED
    BY <2>1
<1>4. CASE Settle
  <2>1. pc' = "observe" /\ reset'
    BY <1>4 DEF Settle, IInv, Stage
  <2> QED
    BY <2>1
<1>5. CASE ObserveReset
  <2>1. /\ pc' = "write" /\ reset'
        /\ UNCHANGED <<clock, living, actions>>
        /\ state_history' = Since(Read(1))
    BY <1>0, <1>5 DEF ObserveReset, ResetHistories, worldVars
  <2> DEFINE e == [state |-> Read(1), action |-> NoAction]
  <2>2. e \in Entries
    BY <1>0 DEF Entries, NoAction
  <2>3. state_history' = [i \in 1 .. StateHistory |-> e]
    BY <2>1 DEF Since
  <2>4. e.state = Read(1) /\ e.action = NoAction
    OBVIOUS
  <2> HIDE DEF e
  <2>5. state_history' \in Seq(Entries) /\ Len(state_history') = StateHistory
    BY <1>0, <2>2, <2>3, SeqDef
  <2>6. ASSUME NEW i \in 1 .. StateHistory
        PROVE  LET age == StateHistory - i
               IN  /\ state_history'[i].state.born = living'[1].born
                   /\ state_history'[i].state.at =
                        clock' - PhysicsSteps * (IF age < 0 THEN age ELSE 0)
                   /\ kind' = "tracking" =>
                        state_history'[i].action =
                          IF age < 0 THEN actions' - age ELSE NoAction
    <3>1. ~(StateHistory - i < 0) /\ PhysicsSteps * 0 = 0
      BY <1>0
    <3>2. state_history'[i] = e
      BY <2>3
    <3> QED
      BY <1>0, <2>1, <2>4, <3>1, <3>2
  <2>7. (StatesOf(0, clock, actions))'
    BY <2>5, <2>6 DEF StatesOf
  <2> QED
    BY <2>1, <2>7
<1>6. CASE Step
  <2>1. /\ pc = "step" /\ pc' = "iterate" /\ togo' = PhysicsSteps
        /\ UNCHANGED <<elapsed, actions, reset, clock, living, state_history>>
    BY <1>6 DEF Step, worldVars
  <2>2. clock' - (PhysicsSteps - togo') = clock
    BY <1>0, <2>1
  <2>3. (StatesOf(elapsed - 1, clock - (PhysicsSteps - togo), actions - 1))'
    BY <2>1, <2>2 DEF StatesOf
  <2> QED
    BY <2>1, <2>3
<1>7. CASE Iterate
  <2>1. /\ pc = "iterate" /\ run_N(living)
        /\ pc' = IF togo > 1 THEN "iterate" ELSE "observe"
        /\ togo' = togo - 1 /\ togo \in 1 .. PhysicsSteps
        /\ ~reset
        /\ UNCHANGED <<elapsed, actions, reset, state_history>>
    BY <1>0, <1>7 DEF Iterate, IInv, Stage, stepVars, histVars
  <2>2. clock' = clock + 1 /\ living'[1].born = living[1].born
    BY <2>1, Born DEF IInv
  <2>3. clock' - (PhysicsSteps - togo') = clock - (PhysicsSteps - togo)
    BY <1>0, <2>1, <2>2
  <2>4. (StatesOf(elapsed - 1, clock - (PhysicsSteps - togo), actions - 1))'
    BY <2>1, <2>2, <2>3 DEF StatesOf
  <2>5. CASE togo > 1
    BY <2>1, <2>4, <2>5
  <2>6. CASE ~(togo > 1)
    <3>1. clock' - PhysicsSteps = clock' - (PhysicsSteps - togo')
      BY <1>0, <2>1, <2>2, <2>6
    <3>2. (StatesOf(elapsed - 1, clock - PhysicsSteps, actions - 1))'
      BY <2>4, <3>1 DEF StatesOf
    <3> QED
      BY <2>1, <2>6, <3>2
  <2> QED
    BY <2>5, <2>6
<1>8. CASE ObserveStep
  <2>1. /\ pc = "observe" /\ ~reset /\ pc' = "judge"
        /\ UNCHANGED <<elapsed, actions, reset, clock, living, state_history>>
    BY <1>8 DEF ObserveStep, stepVars, histVars, worldVars
  <2>2. (StatesOf(elapsed - 1, clock - PhysicsSteps, actions - 1))'
    BY <2>1 DEF StatesOf
  <2> QED
    BY <2>1, <2>2
<1>9. CASE CheckDone
  <2>1. /\ pc = "judge" /\ pc' = "reward"
        /\ UNCHANGED <<elapsed, actions, reset, clock, living, state_history>>
    BY <1>9 DEF CheckDone, histVars, worldVars
  <2>2. (StatesOf(elapsed - 1, clock - PhysicsSteps, actions - 1))'
    BY <2>1 DEF StatesOf
  <2> QED
    BY <2>1, <2>2
<1>10. CASE ComputeReward
  <2>1. /\ pc = "reward" /\ ~reset /\ pc' = "write"
        /\ UNCHANGED <<elapsed, actions, reset, clock, living, state_history>>
    BY <1>10 DEF ComputeReward, stepVars, histVars, worldVars, IInv, Stage
  <2>2. (StatesOf(elapsed - 1, clock - PhysicsSteps, actions - 1))'
    BY <2>1 DEF StatesOf
  <2> QED
    BY <2>1, <2>2
<1>11. CASE WriteObs
  <2>1. /\ pc = "write" /\ pc' = "idle"
        /\ UNCHANGED <<elapsed, actions, clock, living>>
        /\ state_history' = PushState(current_state[1])
        /\ row'.states = state_history'
    BY <1>11 DEF WriteObs, worldVars
  <2>2. current_state[1] = Read(1)
    BY <2>1, Agents DEF IInv, TypeOK, View, Fresh
  <2>3. /\ elapsed \in Nat
        /\ \/ elapsed > 0 /\ latest = actions
                /\ StatesOf(elapsed - 1, clock - PhysicsSteps, actions - 1)
           \/ elapsed = 0 /\ latest = NoAction /\ StatesOf(0, clock, actions)
    BY <1>0, <2>1 DEF Begun
  <2>4. StatesAfter(Read(1), elapsed, clock, actions)
    <3>1. elapsed \in Nat /\ LastStep(elapsed, clock, actions)
      BY <2>3 DEF LastStep
    <3>2. state_history' = PushState(Read(1)) /\ living' = living
      BY <2>1, <2>2
    <3> QED
      BY <1>0, <3>1, <3>2, PushStatesOf
  <2>5. (StatesOf(elapsed, clock, actions))'
    BY <2>1, <2>4 DEF StatesOf, StatesAfter
  <2>6. Read(1)' = Read(1)
    BY <2>1 DEF Read
  <2>7. state_history'[StateHistory].state = Read(1)
    BY <2>4 DEF StatesAfter
  <2> QED
    BY <2>1, <2>5, <2>6, <2>7
<1>12. CASE UNCHANGED vars
  BY <1>12 DEF vars, StatesOf, Read, worldVars, stepVars, histVars
<1> QED
  BY <1>1, <1>2, <1>3, <1>4, <1>5, <1>6, <1>7, <1>8, <1>9, <1>10, <1>11, <1>12 DEF Next

-----------------------------------------------------------------------------

(* The histories in a row are of its episode, for every size of them, and  *)
(* for every kind that keeps one (PushAction, PushState and Reset of the   *)
(* processors).                                                            *)
THEOREM HistoriesOfEpisode == Spec => []HistoryOfEpisode
<1>1. Init => IInv /\ Histories
  BY TypeInit, ViewInit, CountsInit, EndsInit, DynamicsInit, HistoriesInit DEF IInv
<1>2. IInv /\ Histories /\ [Next]_vars => IInv' /\ Histories'
  BY TypeStep, ViewStep, CountsStep, EndsStep, DynamicsStep, BegunStep,
     ActionsKeptStep, StatesKeptStep DEF IInv, Histories
<1>3. IInv /\ Histories => HistoryOfEpisode
  <2> SUFFICES ASSUME IInv, Histories, Waiting PROVE HistoryOfEpisode
    BY DEF HistoryOfEpisode
  <2>1. KeepsActions =>
         row.actions = [i \in 1 .. ActionHistory |->
           ActionOfAge(IF kind = "hover" THEN i ELSE ActionHistory - i + 1)]
    BY DEF Histories, ActionsKept, ActionsOf, ActionOfAge
  <2>2. ASSUME KeepsStates, NEW i \in 1 .. StateHistory
        PROVE  LET age == StateHistory - i
               IN  /\ row.states[i].state.born = living[1].born
                   /\ row.states[i].state.at =
                        clock - PhysicsSteps * (IF age < elapsed THEN age ELSE elapsed)
                   /\ kind = "tracking" =>
                        row.states[i].action = ActionOfAge(age + 1)
    <3> DEFINE age == StateHistory - i
    <3>1. /\ age \in Nat /\ elapsed \in Int /\ actions \in Nat
      BY GazeboEnvAssumption DEF IInv, TypeOK
    <3>2. /\ age < elapsed <=> age + 1 <= elapsed
          /\ actions - age = actions - (age + 1) + 1
      BY <3>1
    <3>3. StatesOf(elapsed, clock, actions) /\ row.states = state_history
      BY <2>2 DEF Histories, StatesKept
    <3>4. ActionOfAge(age + 1) = IF age < elapsed THEN actions - age ELSE NoAction
      BY <3>2 DEF ActionOfAge
    <3>5. /\ state_history[i].state.born = living[1].born
          /\ state_history[i].state.at =
               clock - PhysicsSteps * (IF age < elapsed THEN age ELSE elapsed)
          /\ kind = "tracking" =>
               state_history[i].action =
                 IF age < elapsed THEN actions - age ELSE NoAction
      BY <3>3 DEF StatesOf
    <3> HIDE DEF age
    <3>6. /\ row.states[i].state.born = living[1].born
          /\ row.states[i].state.at =
               clock - PhysicsSteps * (IF age < elapsed THEN age ELSE elapsed)
          /\ kind = "tracking" => row.states[i].action = ActionOfAge(age + 1)
      BY <3>3, <3>4, <3>5
    <3> QED
      BY <3>6 DEF age
  <2>3. KeepsStates => /\ Len(row.states) = StateHistory
                       /\ row.states[StateHistory].state = Read(1)
    BY DEF Histories, StatesKept, StatesOf
  <2> QED
    BY <2>1, <2>2, <2>3 DEF HistoryOfEpisode
<1> QED
  BY <1>1, <1>2, <1>3, PTL DEF Spec

=============================================================================
