------------------------------ MODULE GazeboEnv ------------------------------
(***************************************************************************)
(* One environment of the pool, as a worker of AsyncEnvPool drives it: the *)
(* base class Env (EnvStep, Allocate), GazeboEnvpool and the environments  *)
(* derived from it, over a DRLServer of its own.                           *)
(*                                                                         *)
(* The environments are of five kinds, told apart by when they call        *)
(* IsDone, UpdateControlStates and the randomization:                      *)
(*   hover, tracking, payload, pendulum, formation                         *)
(* tracking and payload stand for their ll variants too, which send rotor  *)
(* velocities in place of a controller's output.                           *)
(*                                                                         *)
(* Of the state of a model only what the environments decide by is kept:   *)
(* when it was created, whether it has failed (crashed, out of bounds),    *)
(* and the parameters it was created with.  Parameters are offsets from    *)
(* the nominal ones, in units of the largest factor drawn (ten percent);   *)
(* that factors multiply is that offsets add.  The ten iterations run      *)
(* after a respawn, and the three inside it, are one each.                 *)
(***************************************************************************)
EXTENDS Integers, Sequences

CONSTANTS
  Kinds,         \* the kinds of environments checked
  Formation,     \* models of a formation
  MaxSteps,      \* max_steps_per_episode
  PhysicsSteps,  \* physics_steps_per_control
  Draws,         \* what double_rng_ can draw
  Cadence,       \* by kind, the episodes from one randomization to the next
  ActionHistory, \* action_history_size
  StateHistory,  \* state_history_size, state_history_len
  MaxActions,    \* bound: actions the environment is given
  NoRow,         \* no observation has been written
  NoState        \* no state has been read

AllKinds == {"hover", "tracking", "payload", "pendulum", "formation"}

ASSUME GazeboEnvAssumption ==
  /\ Kinds \subseteq AllKinds
  /\ Formation \in Nat \ {0}
  /\ MaxSteps \in Nat \ {0}
  /\ PhysicsSteps \in Nat \ {0}
  /\ Draws \subseteq -1 .. 1
  /\ Draws # {}
  /\ Cadence \in [AllKinds -> Nat \ {0}]
  /\ ActionHistory \in Nat \ {0}
  /\ StateHistory \in Nat \ {0}
  /\ MaxActions \in Nat

VARIABLES
  (* configuration *)
  kind,
  domain_randomization,
  horizon,          \* max_episode_steps is set, to max_steps_per_episode
  (* the worker, inside EnvStep or not *)
  pc,
  actions,          \* actions given so far
  reset,            \* the action is a reset
  togo,             \* models to respawn, or iterations to run
  (* DRLServer and its world *)
  clock,            \* iterations run
  living,           \* the models of the world
  sdf,              \* the parameters of their descriptions
  (* Env and GazeboEnvpool *)
  elapsed,          \* current_step_ of Env
  done, current_step, current_episode,
  current_state, last_state,
  randomized_rotor, \* randomized_rotor_params_
  assumed,          \* the mass the controller or the observation assumes
  (* its processor *)
  reference,        \* current_step_ of the trajectory's
  latest,           \* latest_policy_action_
  action_history,
  state_history,
  row               \* the row last written

config    == <<kind, domain_randomization, horizon>>
worldVars == <<clock, living, sdf>>
stepVars  == <<elapsed, done, current_step, current_episode, reference>>
readVars  == <<current_state, last_state>>
paramVars == <<randomized_rotor, assumed>>
histVars  == <<latest, action_history, state_history>>
vars == <<config, pc, actions, reset, togo, worldVars, stepVars, readVars,
          paramVars, histVars, row>>

num_agents == IF kind = "formation" THEN Formation ELSE 1

Models == 1 .. num_agents

Nominal == [mass |-> 0, rotor |-> 0]

(* The state of model a, as control_states has it after an iteration.      *)
Read(a) == [at |-> clock, born |-> living[a].born, failed |-> living[a].failed]

-----------------------------------------------------------------------------
(* The histories that processors keep for the observations.  An action is  *)
(* the number it has; a feature of an action is the action.                *)

NoAction == 0

KeepsActions == kind \in {"hover", "payload", "pendulum"}
KeepsStates  == kind \in {"tracking", "pendulum"}

NoActions == IF KeepsActions THEN [i \in 1 .. ActionHistory |-> NoAction] ELSE <<>>

(* The histories of an episode that starts in a state.                     *)
Since(state) ==
  IF KeepsStates
  THEN [i \in 1 .. StateHistory |-> [state |-> state, action |-> NoAction]]
  ELSE <<>>

(* The hover has its newest action first, the others last.                 *)
PushAction(a) ==
  IF kind = "hover"
  THEN LET pushed == <<a>> \o action_history
       IN  IF Len(pushed) > ActionHistory
           THEN SubSeq(pushed, 1, Len(pushed) - 1) ELSE pushed
  ELSE LET pushed == Append(action_history, a)
       IN  IF Len(pushed) > ActionHistory THEN Tail(pushed) ELSE pushed

PushState(state) ==
  LET pushed == Append(state_history, [state |-> state, action |-> latest])
  IN  IF Len(pushed) > StateHistory THEN Tail(pushed) ELSE pushed

\* Mutant: the actions of the last episode are kept.
ResetHistoriesKeep ==
  /\ latest' = NoAction
  /\ UNCHANGED action_history
  /\ state_history' = Since(Read(1))

(* Reset of the processors.                                                *)
ResetHistories ==
  /\ latest' = NoAction
  /\ action_history' = NoActions
  /\ state_history' = Since(Read(1))

-----------------------------------------------------------------------------

(* The constructor of the pendulum runs an iteration and reads it.         *)
Init ==
  /\ kind \in Kinds
  /\ domain_randomization \in BOOLEAN
  /\ horizon \in BOOLEAN
  /\ pc = "idle"
  /\ actions = 0
  /\ reset = FALSE
  /\ togo = 0
  /\ clock = 1
  /\ living = [a \in Models |-> [born |-> 0, failed |-> FALSE, sdf |-> Nominal]]
  /\ sdf = Nominal
  /\ elapsed = -1
  /\ done = TRUE
  /\ current_step = 0
  /\ current_episode = 0
  /\ current_state = [a \in Models |->
                        IF kind = "pendulum" THEN Read(a) ELSE NoState]
  /\ last_state = [a \in Models |-> NoState]
  /\ randomized_rotor = 0
  /\ assumed = 0
  /\ reference = 0
  /\ latest = NoAction
  /\ action_history = NoActions
  /\ state_history = IF kind = "pendulum" THEN Since(Read(1)) ELSE <<>>
  /\ row = NoRow

-----------------------------------------------------------------------------
(* IsDone, of the state last read                                          *)

Failed == current_state[1].failed

TimeIsUp == current_step >= MaxSteps

HoverIsDone     == done \/ TimeIsUp \/ Failed
TrackingIsDone  == done
PayloadIsDone   == done \/ TimeIsUp \/ Failed
PendulumIsDone  == TimeIsUp \/ Failed
FormationIsDone == done \/ TimeIsUp

(* An environment never reset answers by done_ alone, except the pendulum. *)
IsDone ==
  CASE kind = "hover"     -> HoverIsDone
    [] kind = "tracking"  -> TrackingIsDone
    [] kind = "payload"   -> PayloadIsDone
    [] kind = "pendulum"  -> PendulumIsDone
    [] kind = "formation" -> FormationIsDone

(* What a call of IsDone leaves in done_: the hover forgets a failure, the *)
(* others keep it; the pendulum never clears the flag, but does not look.  *)
Latched ==
  CASE kind \in {"hover", "formation"} -> done \/ TimeIsUp
    [] kind = "tracking"               -> done
    [] kind = "payload"                -> PayloadIsDone
    [] kind = "pendulum"               -> done \/ PendulumIsDone

-----------------------------------------------------------------------------

(* The worker's decision and Env::PreProcess.  The Python interfaces reset *)
(* an environment before they step it; except for the pendulum it would    *)
(* reset all the same.                                                     *)
EnvStep(force_reset) ==
  /\ pc = "idle"
  /\ actions < MaxActions
  /\ kind = "pendulum" /\ current_episode = 0 => force_reset
  /\ actions' = actions + 1
  /\ reset' = (force_reset \/ IsDone)
  /\ done' = IF force_reset THEN done ELSE Latched
  /\ elapsed' = IF reset' THEN 0 ELSE elapsed + 1
  /\ pc' = IF reset' THEN "reset" ELSE "step"
  /\ UNCHANGED <<config, togo, worldVars, current_step, current_episode,
                 reference, readVars, paramVars, histVars, row>>

-----------------------------------------------------------------------------
(* Reset                                                                   *)

(* hover has the helpers and does not call them.                           *)
RandomizationDue ==
  /\ domain_randomization
  /\ kind # "hover"
  /\ current_episode % Cadence[kind] = 0

(* UpdateRandomizedParams starts from the nominal rotor parameters, but    *)
(* for the formation, where it starts from those drawn last; tracking      *)
(* leaves the rotors alone.                                                *)
RandomizedRotor(draw) ==
  CASE kind = "tracking"  -> randomized_rotor
    [] kind = "formation" -> randomized_rotor + draw
    [] OTHER              -> draw

(* ApplyDomainRandomization writes the descriptions of all the models, and *)
(* for payload, tracking and pendulum what they assume of the mass.        *)
Randomize ==
  \E mass, draw \in Draws :
    /\ randomized_rotor' = RandomizedRotor(draw)
    /\ sdf' = [mass |-> mass, rotor |-> randomized_rotor']
    /\ assumed' = mass

\* Mutant: a failure of the last episode ends the next.
ResetKeepDone ==
  /\ pc = "reset"
  /\ current_step' = 0
  /\ IF RandomizationDue THEN Randomize ELSE UNCHANGED <<sdf, paramVars>>
  /\ togo' = num_agents
  /\ pc' = "respawn"
  /\ UNCHANGED <<config, actions, reset, clock, living, elapsed, done,
                 current_episode, reference, readVars, histVars, row>>

Reset ==
  /\ pc = "reset"
  /\ done' = FALSE
  /\ current_step' = 0
  /\ IF RandomizationDue THEN Randomize ELSE UNCHANGED <<sdf, paramVars>>
  /\ togo' = num_agents
  /\ IF kind = "hover" THEN ResetHistories ELSE UNCHANGED histVars
  /\ pc' = "respawn"
  /\ UNCHANGED <<config, actions, reset, clock, living, elapsed,
                 current_episode, reference, readVars, row>>

(* Iterations of the world: any model may fail or recover.  A formation    *)
(* does not look.                                                          *)
run_N(models) ==
  /\ clock' = clock + 1
  /\ \E f \in [Models -> IF kind = "formation" THEN {FALSE} ELSE BOOLEAN] :
       living' = [a \in Models |-> [models[a] EXCEPT !.failed = f[a]]]

\* Mutant: the description is copied before it is changed.
respawn_modelNominal ==
  /\ pc = "respawn"
  /\ LET a == num_agents - togo + 1
     IN  run_N([living EXCEPT ![a].born = clock, ![a].sdf = Nominal])
  /\ togo' = togo - 1
  /\ pc' = IF togo = 1 THEN "settle" ELSE "respawn"
  /\ UNCHANGED <<config, actions, reset, sdf, stepVars, readVars, paramVars,
                 histVars, row>>

(* The models are respawned one after the other, each with three           *)
(* iterations that move those already there.                               *)
respawn_model ==
  /\ pc = "respawn"
  /\ LET a == num_agents - togo + 1
     IN  run_N([living EXCEPT ![a].born = clock, ![a].sdf = sdf])
  /\ togo' = togo - 1
  /\ pc' = IF togo = 1 THEN "settle" ELSE "respawn"
  /\ UNCHANGED <<config, actions, reset, sdf, stepVars, readVars, paramVars,
                 histVars, row>>

Settle ==
  /\ pc = "settle"
  /\ run_N(living)
  /\ pc' = "observe"
  /\ UNCHANGED <<config, actions, reset, togo, sdf, stepVars, readVars,
                 paramVars, histVars, row>>

\* Mutant: the states of the first model only are read.
UpdateControlStatesFirst ==
  /\ last_state' = current_state
  /\ current_state' = [a \in Models |->
                        IF a = 1 THEN Read(a) ELSE current_state[a]]

UpdateControlStates ==
  /\ last_state' = current_state
  /\ current_state' = [a \in Models |-> Read(a)]

(* The reset of the processor puts the trajectory at its start; that of    *)
(* the hover has been done.                                                *)
ObserveReset ==
  /\ pc = "observe"
  /\ reset
  /\ UpdateControlStates
  /\ reference' = 1
  /\ IF kind = "hover" THEN UNCHANGED histVars ELSE ResetHistories
  /\ current_episode' = current_episode + 1
  /\ pc' = "write"
  /\ UNCHANGED <<config, actions, reset, togo, worldVars, elapsed, done,
                 current_step, paramVars, row>>

-----------------------------------------------------------------------------
(* Step                                                                    *)

(* ProcessAction advances the reference of the trajectory, and keeps the   *)
(* action.                                                                 *)
Step ==
  /\ pc = "step"
  /\ current_step' = current_step + 1
  /\ reference' = reference + 1
  /\ latest' = actions
  /\ action_history' = IF KeepsActions THEN PushAction(actions) ELSE <<>>
  /\ togo' = PhysicsSteps
  /\ pc' = "iterate"
  /\ UNCHANGED <<config, actions, reset, worldVars, elapsed, done,
                 current_episode, readVars, paramVars, state_history, row>>

\* Mutant: every kind reads the states in each iteration.
IterateAll ==
  /\ pc = "iterate"
  /\ run_N(living)
  /\ last_state' = current_state
  /\ current_state' = [a \in Models |->
       [at |-> clock', born |-> living'[a].born, failed |-> living'[a].failed]]
  /\ togo' = togo - 1
  /\ pc' = IF togo > 1 THEN "iterate"
           ELSE IF kind = "hover" THEN "reward" ELSE "observe"
  /\ UNCHANGED <<config, actions, reset, sdf, stepVars, paramVars, histVars, row>>

(* Each iteration is given its command; the hover reads the states after   *)
(* each, the others after the last.                                        *)
Iterate ==
  /\ pc = "iterate"
  /\ run_N(living)
  /\ IF kind = "hover"
     THEN /\ last_state' = current_state
          /\ current_state' = [a \in Models |-> Read(a)']
     ELSE UNCHANGED readVars
  /\ togo' = togo - 1
  /\ pc' = IF togo > 1 THEN "iterate"
           ELSE IF kind = "hover" THEN "reward" ELSE "observe"
  /\ UNCHANGED <<config, actions, reset, sdf, stepVars, paramVars, histVars, row>>

ObserveStep ==
  /\ pc = "observe"
  /\ ~reset
  /\ UpdateControlStates
  /\ pc' = "judge"
  /\ UNCHANGED <<config, actions, reset, togo, worldVars, stepVars, paramVars,
                 histVars, row>>

(* CheckDone of the trackers, IsDone of the others.                        *)
CheckDone ==
  /\ pc = "judge"
  /\ done' = IF kind = "tracking" THEN done \/ TimeIsUp \/ Failed ELSE Latched
  /\ pc' = "reward"
  /\ UNCHANGED <<config, actions, reset, togo, worldVars, elapsed, current_step,
                 current_episode, reference, readVars, paramVars, histVars, row>>

ComputeReward ==
  /\ pc = "reward"
  /\ pc' = "write"
  /\ UNCHANGED <<config, actions, reset, togo, worldVars, stepVars, readVars,
                 paramVars, histVars, row>>

(* Env::Allocate asks IsDone again, ProcessObservation keeps the state and *)
(* fills the row.                                                          *)
WriteObs ==
  /\ pc = "write"
  /\ state_history' = IF KeepsStates THEN PushState(current_state[1]) ELSE <<>>
  /\ row' = [done    |-> IsDone,
             trunc   |-> IsDone /\ horizon /\ elapsed >= MaxSteps,
             elapsed |-> elapsed,
             obs     |-> current_state,
             actions |-> action_history,
             states  |-> state_history']
  /\ done' = Latched
  /\ pc' = "idle"
  /\ UNCHANGED <<config, actions, reset, togo, worldVars, elapsed,
                 current_step, current_episode, reference, readVars, paramVars,
                 latest, action_history>>

-----------------------------------------------------------------------------

Next ==
  \/ \E force_reset \in BOOLEAN : EnvStep(force_reset)
  \/ Reset
  \/ respawn_model
  \/ Settle
  \/ ObserveReset
  \/ Step
  \/ Iterate
  \/ ObserveStep
  \/ CheckDone
  \/ ComputeReward
  \/ WriteObs

Spec == Init /\ [][Next]_vars

-----------------------------------------------------------------------------

Steps ==
  {"idle", "reset", "respawn", "settle", "observe", "step", "iterate", "judge",
   "reward", "write"}

Parameters == [mass : Int, rotor : Int]

(* Each variable keeps its type: the worker is in one of its steps, the    *)
(* counters do not go below where they start, and a model of the world has *)
(* the parameters of a description.                                        *)
TypeOK ==
  /\ kind \in Kinds
  /\ domain_randomization \in BOOLEAN
  /\ horizon \in BOOLEAN
  /\ pc \in Steps
  /\ actions \in Nat
  /\ reset \in BOOLEAN
  /\ togo \in Nat
  /\ clock \in Nat
  /\ living \in [Models -> [born : Nat, failed : BOOLEAN, sdf : Parameters]]
  /\ sdf \in Parameters
  /\ elapsed \in Int
  /\ done \in BOOLEAN
  /\ current_step \in Nat
  /\ current_episode \in Nat
  /\ randomized_rotor \in Int
  /\ assumed \in Int
  /\ reference \in Nat
  /\ latest \in Nat
  /\ action_history \in Seq(Nat)

(* Between actions, after the first.                                       *)
Waiting == pc = "idle" /\ current_episode > 0

(* What a row says of the end of the episode is so: the next action resets *)
(* by itself exactly if the row said done; it says so when the episode's   *)
(* steps are over, and otherwise only of a failure it shows; and with the  *)
(* horizon set an episode is truncated exactly when its steps are over     *)
(* (env.h:201, which asks IsDone a third time in each step).               *)
DoneReported ==
  Waiting =>
    /\ row.done <=> IsDone
    /\ row.elapsed >= MaxSteps => row.done
    /\ row.done => row.elapsed >= MaxSteps \/ row.obs[1].failed
    /\ row.trunc <=> horizon /\ row.elapsed >= MaxSteps

(* An observation is of the models the world has now, all read after the   *)
(* same iteration, the last one run: in a formation, after every respawn.  *)
ObservesTheWorld ==
  Waiting => row.obs = [a \in Models |-> Read(a)]

(* The reward of a step compares what the last row showed with the world   *)
(* as it is: the states between belong to no action.  The hover reads the  *)
(* states in between, and its reward does not compare.  A tracker is       *)
(* rewarded for the reference at the time it has flown.                    *)
RewardSpansTheAction ==
  pc = "reward" =>
    /\ kind # "hover" => last_state = row.obs
    /\ current_state = [a \in Models |-> Read(a)]
    /\ elapsed = current_step
    /\ kind = "tracking" => reference = elapsed + 1

(* The action given so many actions ago, if this episode has one.          *)
ActionOfAge(age) == IF age <= elapsed THEN actions - age + 1 ELSE NoAction

(* The histories in a row are of this episode and no other, whatever the   *)
(* one before it left in them: the actions given in it, in order and       *)
(* padded; and its states, a step's iterations apart, of the model that is *)
(* in the world, the last being the world's.  A tracker's states go with   *)
(* the actions that led to them.                                           *)
HistoryOfEpisode ==
  Waiting =>
    /\ KeepsActions =>
         row.actions = [i \in 1 .. ActionHistory |->
           ActionOfAge(IF kind = "hover" THEN i ELSE ActionHistory - i + 1)]
    /\ KeepsStates =>
         /\ Len(row.states) = StateHistory
         /\ row.states[StateHistory].state = Read(1)
         /\ \A i \in 1 .. StateHistory :
              LET age == StateHistory - i
              IN  /\ row.states[i].state.born = living[1].born
                  /\ row.states[i].state.at =
                       clock - PhysicsSteps * (IF age < elapsed THEN age ELSE elapsed)
                  /\ kind = "tracking" =>
                       row.states[i].action = ActionOfAge(age + 1)

InRange(p) == p.mass \in -1 .. 1 /\ p.rotor \in -1 .. 1

(* The kinds with a controller, or an observation, that knows the mass.    *)
AssumesMass == {"tracking", "payload", "pendulum"}

(* The parameters drawn are in force in the episode they were drawn for    *)
(* and those after it: every model was created with them, what the         *)
(* controller or the observation assumes of the mass is what it is, and    *)
(* they are within the range drawn from.                                   *)
DynamicsInForce ==
  Waiting =>
    /\ \A a \in Models : living[a].sdf = sdf
    /\ domain_randomization /\ kind \in AssumesMass => assumed = sdf.mass
    /\ kind # "formation" => InRange(sdf)

(* "Successive scale factors do not accumulate unintentionally" over the   *)
(* episodes of any environment (domain-randomization.md:39).               *)
NothingAccumulates == Waiting => InRange(sdf)

=============================================================================
