------------------------------- MODULE DRLServer -------------------------------
(***************************************************************************)
(* The simulation server (GzDRL/src/rl_server.cc): DRLServer owns a Gazebo *)
(* server and a DRLHelperSystem that Gazebo calls in every iteration.      *)
(* A reset or a respawn is queued by the caller and carried out by the     *)
(* helper's PreUpdate over two iterations, while handles to entities and   *)
(* the states read from them are cached by model name.                     *)
(*                                                                         *)
(* What Gazebo does is modelled from how the code uses it: every           *)
(* registration of a system gets its own PreUpdate and PostUpdate in an    *)
(* iteration, physics runs between them, and an entity requested for       *)
(* removal lives until the iteration ends.  A body moves once a command    *)
(* has pushed it and rests once its velocity has been set to zero; the     *)
(* motion that gravity and contacts add is left out.                       *)
(***************************************************************************)
EXTENDS Integers, Sequences, FiniteSets, SequencesExt

CONSTANTS
  Models,      \* model_names, the models the server manages
  Scenery,     \* models of the world that are not in model_names
  Stranger,    \* a name that no model of the world has
  Poses,       \* poses a caller asks for
  Masses,      \* masses a caller sets
  None,        \* no pose, no entity
  MaxEntities, \* bound: the number of entities ever created
  MaxSystems   \* bound: the number of registrations of the helper

ASSUME NameAssumption ==
  /\ Models \cap Scenery = {}
  /\ Stranger \notin Models \cup Scenery
  /\ None \notin Poses \cup Nat
  /\ IsFiniteSet(Models \cup Scenery)

ASSUME BoundAssumption ==
  /\ MaxEntities \in Nat
  /\ MaxSystems \in Nat \ {0}

VARIABLES
  ecm,                \* Gazebo's entities, a function on those that exist
  removing,           \* the entities requested for removal
  next_entity,        \* the identifier of the next entity
  systems,            \* how often the helper system is registered
  reset_queue, post_reset_queue, respawn_queue, post_respawn_queue,
  models,             \* the helper's cached entity of each model
  pose_datas,         \* its cached state of each model
  model_sdf_objs,     \* the mass in the cached SDF of each model
  pc,                 \* the phase of the iteration
  turn,               \* the registration whose PreUpdate is next
  left,               \* iterations to run before the call returns
  call                \* the call being served, or the last one served

ecmVars   == <<ecm, removing, next_entity>>
queues    == <<reset_queue, post_reset_queue, respawn_queue, post_respawn_queue>>
cacheVars == <<models, pose_datas>>
vars == <<ecmVars, systems, queues, cacheVars, model_sdf_objs, pc, turn, left, call>>

Names     == Models \cup Scenery \cup {Stranger}
Home      == "home"       \* the pose a model has in the world's SDF
Elsewhere == "elsewhere"  \* wherever a push has taken it
Blank     == "zero"       \* GZ_state::Zero
Nominal   == "nominal"    \* its mass there

\* Mutant: one iteration for a reset or a respawn.
OneStep == 1

STABILIZATION_STEPS == 3

Body(name, pose, mass) ==
  [name |-> name, pose |-> pose, mass |-> mass, moving |-> FALSE,
   pose_cmd |-> None, velocity_cmd |-> FALSE, wrench |-> FALSE]

Request(name, pose) == [name |-> name, pose |-> pose]

EntityByName(name) == {e \in DOMAIN ecm : ecm[e].name = name}

(* The entities that the loop over queue finds, None where there is none.  *)
Found(queue) ==
  {f \in [DOMAIN queue -> DOMAIN ecm \cup {None}] :
     \A i \in DOMAIN queue :
       IF EntityByName(queue[i].name) = {} THEN f[i] = None
       ELSE f[i] \in EntityByName(queue[i].name)}

WorldNames == Models \cup Scenery
WorldOrder == SetToSeq(WorldNames)

(* A constructed server, after the iterations its constructor runs.        *)
Init ==
  /\ ecm = [e \in DOMAIN WorldOrder |-> Body(WorldOrder[e], Home, Nominal)]
  /\ models = [m \in Models |-> CHOOSE e \in DOMAIN WorldOrder : WorldOrder[e] = m]
  /\ removing = {}
  /\ next_entity = Cardinality(WorldNames) + 1
  /\ systems = 1
  /\ reset_queue = <<>>
  /\ post_reset_queue = <<>>
  /\ respawn_queue = <<>>
  /\ post_respawn_queue = <<>>
  /\ pose_datas = [m \in Models |-> Home]
  /\ model_sdf_objs = [m \in Models |-> Nominal]
  /\ pc = "idle"
  /\ turn = 1
  /\ left = 0
  /\ call = [op |-> "construct"]

-----------------------------------------------------------------------------
(* The calls a client makes, one at a time *)

Serve(op) ==
  /\ pc = "idle"
  /\ call' = op

(* server->Run(true, n, false)                                             *)
Run(n) ==
  /\ pc' = "pre"
  /\ turn' = 1
  /\ left' = n

run_N(n) ==
  /\ Serve([op |-> "run"])
  /\ Run(n)
  /\ UNCHANGED <<ecmVars, systems, queues, cacheVars, model_sdf_objs>>

reset_pos(name, pose) ==
  /\ Serve([op |-> "reset", name |-> name, pose |-> pose])
  /\ reset_queue' = Append(reset_queue, Request(name, pose))
  /\ Run(STABILIZATION_STEPS)
  /\ UNCHANGED <<ecmVars, systems, post_reset_queue, respawn_queue, post_respawn_queue,
                 cacheVars, model_sdf_objs>>

respawn_model(name, pose) ==
  /\ next_entity <= MaxEntities
  /\ Serve([op |-> "respawn", name |-> name, pose |-> pose])
  /\ respawn_queue' = Append(respawn_queue, Request(name, pose))
  /\ Run(STABILIZATION_STEPS)
  /\ UNCHANGED <<ecmVars, systems, reset_queue, post_reset_queue, post_respawn_queue,
                 cacheVars, model_sdf_objs>>

(* Writes through the cached handle; an entity that is gone takes nothing. *)
set_wrench(m) ==
  /\ Serve([op |-> "command"])
  /\ ecm' = IF models[m] \in DOMAIN ecm THEN [ecm EXCEPT ![models[m]].wrench = TRUE]
            ELSE ecm
  /\ UNCHANGED <<removing, next_entity, systems, queues, cacheVars, model_sdf_objs,
                 pc, turn, left>>

(* Changes the cached SDF only.                                            *)
set_mass(m, mass) ==
  /\ Serve([op |-> "command"])
  /\ model_sdf_objs' = [model_sdf_objs EXCEPT ![m] = mass]
  /\ UNCHANGED <<ecmVars, systems, queues, cacheVars, pc, turn, left>>

(* reset_world up to its first run: everything is to be removed.           *)
reset_world(model_poses) ==
  /\ Serve([op |-> "world", poses |-> model_poses])
  /\ next_entity + Cardinality(WorldNames) <= MaxEntities + 1
  /\ systems < MaxSystems
  /\ removing' = DOMAIN ecm
  /\ Run(1)
  /\ UNCHANGED <<ecm, next_entity, systems, queues, cacheVars, model_sdf_objs>>

(* Then all of the world is created anew from sdf_root, which knows        *)
(* nothing of the masses set, and runs without handles to it ...           *)
CreateWorld ==
  /\ pc = "return"
  /\ call.op = "world"
  /\ ecm' = [e \in next_entity .. next_entity + Cardinality(WorldNames) - 1 |->
               LET n == WorldOrder[e - next_entity + 1]
               IN  Body(n, IF n \in Models THEN call.poses[n] ELSE Home, Nominal)]
  /\ next_entity' = next_entity + Cardinality(WorldNames)
  /\ call' = [op |-> "created"]
  /\ Run(2)
  /\ UNCHANGED <<removing, systems, queues, cacheVars, model_sdf_objs>>

(* init_method of the helper: an entity of each name becomes the handle,   *)
(* and the states wait to be filled.                                       *)
Handles(entities) ==
  {f \in [Models -> DOMAIN entities] : \A m \in Models : entities[f[m]].name = m}

InitMethod(index) ==
  /\ models' = index
  /\ pose_datas' = [m \in Models |-> Blank]

(* ... and the helper is registered, which configures it.                  *)
AddSystem ==
  /\ pc = "return"
  /\ call.op = "created"
  /\ systems' = systems + 1
  /\ \E index \in Handles(ecm) : InitMethod(index)
  /\ call' = [op |-> "registered"]
  /\ pc' = "idle"
  /\ UNCHANGED <<ecmVars, queues, model_sdf_objs, turn, left>>

Return ==
  /\ pc = "return"
  /\ call.op \notin {"world", "created"}
  /\ pc' = "idle"
  /\ UNCHANGED <<ecmVars, systems, queues, cacheVars, model_sdf_objs, turn, left, call>>

-----------------------------------------------------------------------------
(* One iteration.  PreUpdate of every registration of the helper ...       *)

Pre ==
  /\ pc = "pre"
  /\ IF turn < systems THEN turn' = turn + 1 /\ pc' = pc
                       ELSE turn' = 1 /\ pc' = "physics"
  /\ UNCHANGED <<systems, model_sdf_objs, left, call>>

(* The last request that names an entity is the one that stays.            *)
LastFor(found, e) ==
  CHOOSE i \in DOMAIN found :
    found[i] = e /\ \A j \in DOMAIN found : found[j] = e => j <= i

(* ResetUavCommands: teleport, zero velocities, drop the wrench.           *)
Stopped(body, pose) ==
  [body EXCEPT !.pose_cmd = pose, !.velocity_cmd = TRUE, !.wrench = FALSE]

(* A model without an SDF in model_sdf_objs is the process's end: its      *)
(* iterator is reported and then dereferenced.                             *)
ResetNow ==
  /\ reset_queue # <<>>
  /\ \E found \in Found(reset_queue) :
       /\ \A e \in Range(found) \ {None} : ecm[e].name \in Models
       /\ ecm' = [e \in DOMAIN ecm |->
            IF e \in Range(found) THEN Stopped(ecm[e], reset_queue[LastFor(found, e)].pose)
            ELSE ecm[e]]
  /\ post_reset_queue' = post_reset_queue \o reset_queue
  /\ reset_queue' = <<>>
  /\ Pre
  /\ UNCHANGED <<removing, next_entity, respawn_queue, post_respawn_queue, cacheVars>>

ResetUnmanaged ==
  /\ pc = "pre"
  /\ \E i \in DOMAIN reset_queue : reset_queue[i].name \in Scenery
  /\ pc' = "crashed"
  /\ UNCHANGED <<ecmVars, systems, queues, cacheVars, model_sdf_objs, turn, left, call>>

\* Mutant: the zero velocity commands are never released.
PostResetKeep ==
  /\ reset_queue = <<>>
  /\ post_reset_queue # <<>>
  /\ post_reset_queue' = <<>>
  /\ Pre
  /\ UNCHANGED <<ecmVars, reset_queue, respawn_queue, post_respawn_queue, cacheVars>>

(* ReleaseVelocityCmds, an iteration later.                                *)
PostReset ==
  /\ reset_queue = <<>>
  /\ post_reset_queue # <<>>
  /\ \E found \in Found(post_reset_queue) :
       ecm' = [e \in DOMAIN ecm |->
         IF e \in Range(found) THEN [ecm[e] EXCEPT !.velocity_cmd = FALSE] ELSE ecm[e]]
  /\ post_reset_queue' = <<>>
  /\ Pre
  /\ UNCHANGED <<removing, next_entity, reset_queue, respawn_queue, post_respawn_queue,
                 cacheVars>>

\* Mutant: the old entity is not removed.
RespawnNowKeep ==
  /\ reset_queue = <<>>
  /\ post_reset_queue = <<>>
  /\ respawn_queue # <<>>
  /\ post_respawn_queue' = post_respawn_queue \o respawn_queue
  /\ respawn_queue' = <<>>
  /\ Pre
  /\ UNCHANGED <<ecmVars, reset_queue, post_reset_queue, cacheVars>>

RespawnNow ==
  /\ reset_queue = <<>>
  /\ post_reset_queue = <<>>
  /\ respawn_queue # <<>>
  /\ \E found \in Found(respawn_queue) : removing' = removing \cup (Range(found) \ {None})
  /\ post_respawn_queue' = post_respawn_queue \o respawn_queue
  /\ respawn_queue' = <<>>
  /\ Pre
  /\ UNCHANGED <<ecm, next_entity, reset_queue, post_reset_queue, cacheVars>>

(* The requests whose model is in model_sdf_objs, the entities created for  *)
(* them in the order of the queue, and the world with these in it.         *)
Known == {i \in DOMAIN post_respawn_queue : post_respawn_queue[i].name \in Models}

NewEntity(i) == next_entity + Cardinality({j \in Known : j < i})

Created ==
  [e \in {NewEntity(i) : i \in Known} |->
     LET r == post_respawn_queue[CHOOSE i \in Known : NewEntity(i) = e]
     IN  Body(r.name, r.pose, model_sdf_objs[r.name])]

Added ==
  [e \in DOMAIN ecm \cup DOMAIN Created |-> IF e \in DOMAIN ecm THEN ecm[e] ELSE Created[e]]

\* Mutant: the caches are not re-indexed.
PostRespawnStale ==
  /\ reset_queue = <<>>
  /\ post_reset_queue = <<>>
  /\ respawn_queue = <<>>
  /\ post_respawn_queue # <<>>
  /\ ecm' = Added
  /\ next_entity' = next_entity + Cardinality(Known)
  /\ post_respawn_queue' = <<>>
  /\ Pre
  /\ UNCHANGED <<removing, reset_queue, post_reset_queue, respawn_queue, cacheVars>>

(* The pose command goes to whichever entity then has the name.            *)
PostRespawn ==
  /\ reset_queue = <<>>
  /\ post_reset_queue = <<>>
  /\ respawn_queue = <<>>
  /\ post_respawn_queue # <<>>
  /\ \E index \in Handles(Added) :
       LET told == [i \in Known |-> index[post_respawn_queue[i].name]]
       IN  /\ ecm' = [e \in DOMAIN Added |->
                IF e \in Range(told)
                THEN [Added[e] EXCEPT !.pose_cmd = post_respawn_queue[LastFor(told, e)].pose]
                ELSE Added[e]]
           /\ InitMethod(index)
  /\ next_entity' = next_entity + Cardinality(Known)
  /\ post_respawn_queue' = <<>>
  /\ Pre
  /\ UNCHANGED <<removing, reset_queue, post_reset_queue, respawn_queue>>

NothingQueued ==
  /\ reset_queue \o post_reset_queue \o respawn_queue \o post_respawn_queue = <<>>
  /\ Pre
  /\ UNCHANGED <<ecmVars, queues, cacheVars>>

PreUpdate == \/ ResetNow \/ PostReset \/ RespawnNow \/ PostRespawn \/ NothingQueued

(* ... then physics: a velocity command stops a body for as long as it is  *)
(* there, a wrench pushes it once, a pose command moves it once.           *)
Physics ==
  /\ pc = "physics"
  /\ pc' = "post"
  /\ ecm' = [e \in DOMAIN ecm |->
       LET b == ecm[e]
           moving == ~b.velocity_cmd /\ (b.wrench \/ b.moving)
       IN  [b EXCEPT !.moving = moving,
                     !.pose = IF moving THEN Elsewhere
                              ELSE IF b.pose_cmd # None THEN b.pose_cmd ELSE @,
                     !.pose_cmd = None,
                     !.wrench = FALSE]]
  /\ UNCHANGED <<removing, next_entity, systems, queues, cacheVars, model_sdf_objs,
                 turn, left, call>>

\* Mutant: the states that init_method blanked are skipped.
PostUpdateSkip ==
  /\ pc = "post"
  /\ pc' = "end"
  /\ pose_datas' = [m \in Models |->
       IF models[m] \in DOMAIN ecm /\ pose_datas[m] # Blank
       THEN ecm[models[m]].pose ELSE pose_datas[m]]
  /\ UNCHANGED <<ecmVars, systems, queues, models, model_sdf_objs, turn, left, call>>

(* ... then PostUpdate: the state of every handle that still has an entity. *)
PostUpdate ==
  /\ pc = "post"
  /\ pc' = "end"
  /\ pose_datas' = [m \in Models |->
       IF models[m] \in DOMAIN ecm THEN ecm[models[m]].pose ELSE pose_datas[m]]
  /\ UNCHANGED <<ecmVars, systems, queues, models, model_sdf_objs, turn, left, call>>

(* ... and at last the removals.                                           *)
EndIteration ==
  /\ pc = "end"
  /\ ecm' = Restrict(ecm, DOMAIN ecm \ removing)
  /\ removing' = {}
  /\ left' = left - 1
  /\ pc' = IF left = 1 THEN "return" ELSE "pre"
  /\ UNCHANGED <<next_entity, systems, queues, cacheVars, model_sdf_objs, turn, call>>

-----------------------------------------------------------------------------

Next ==
  \/ run_N(1)
  \/ \E name \in Names, pose \in Poses : reset_pos(name, pose) \/ respawn_model(name, pose)
  \/ \E m \in Models : set_wrench(m)
  \/ \E m \in Models, mass \in Masses : set_mass(m, mass)
  \/ \E model_poses \in [Models -> Poses] : reset_world(model_poses)
  \/ CreateWorld
  \/ AddSystem
  \/ Return
  \/ PreUpdate
  \/ ResetUnmanaged
  \/ Physics
  \/ PostUpdate
  \/ EndIteration

Spec == Init /\ [][Next]_vars

-----------------------------------------------------------------------------

Queue == Seq([name: Names, pose: Poses])
Place == Poses \cup {Home, Elsewhere}
Mass  == Masses \cup {Nominal}

(* Each variable keeps its type; only existing entities are to be removed. *)
TypeOK ==
  /\ next_entity \in Nat \ {0}
  /\ \A e \in DOMAIN ecm :
       /\ e \in 1 .. next_entity - 1
       /\ ecm[e] \in [name: WorldNames, pose: Place, mass: Mass, moving: BOOLEAN,
                      pose_cmd: Poses \cup {None}, velocity_cmd: BOOLEAN, wrench: BOOLEAN]
  /\ removing \subseteq DOMAIN ecm
  /\ systems \in 1 .. MaxSystems
  /\ {reset_queue, post_reset_queue, respawn_queue, post_respawn_queue} \subseteq Queue
  /\ models \in [Models -> 1 .. next_entity - 1]
  /\ pose_datas \in [Models -> Place \cup {Blank}]
  /\ model_sdf_objs \in [Models -> Mass]
  /\ pc \in {"idle", "pre", "physics", "post", "end", "return", "crashed"}
  /\ turn \in 1 .. systems
  /\ left \in 0 .. STABILIZATION_STEPS

(* Until reset_world has registered the helper a second time: from then on *)
(* the second PreUpdate of an iteration takes away the zero velocity the   *)
(* first has given, before physics sees it, and the caches start blank.    *)
OneHelper == systems = 1

(* Whenever PostUpdate reads through a handle, and whenever a client may   *)
(* send a command through one, the handle is that of the living entity of  *)
(* the model, although a respawn has replaced the entity meanwhile.        *)
HandlesLive ==
  OneHelper /\ pc \in {"idle", "post"} /\ call.op \notin {"world", "created"} =>
    \A m \in Models : models[m] \in DOMAIN ecm /\ ecm[models[m]].name = m

(* Between calls every managed model is in the world exactly once, however *)
(* many respawns and world resets there were.                              *)
OneEntityPerModel ==
  pc = "idle" => \A m \in Models : Cardinality(EntityByName(m)) = 1

(* Every managed model that was asked for rests at the pose asked for, free *)
(* of the commands that put it there, and nothing is left queued.          *)
ResetDone ==
  /\ reset_queue = <<>> /\ post_reset_queue = <<>>
  /\ \A e \in EntityByName(call.name) :
       /\ ecm[e].pose = call.pose
       /\ ~ecm[e].moving /\ ~ecm[e].wrench
       /\ ~ecm[e].velocity_cmd /\ ecm[e].pose_cmd = None

(* Three iterations are enough for reset_pos: when it returns the model    *)
(* rests where it was asked to be, with whatever pushed it forgotten.      *)
ResetComplete ==
  pc = "idle" /\ call.op = "reset" /\ OneHelper => ResetDone

(* Three iterations are enough for respawn_model too, whatever the name:   *)
(* nothing is left queued, also for a model of the world that has no SDF   *)
(* to create it from.  The new entity of a model that the server manages   *)
(* rests at the pose asked for and has the mass that set_mass gave the     *)
(* model.                                                                  *)
RespawnComplete ==
  pc = "idle" /\ call.op = "respawn" =>
    /\ respawn_queue = <<>> /\ post_respawn_queue = <<>>
    /\ call.name \in Models => \A e \in EntityByName(call.name) :
         /\ ecm[e].pose = call.pose
         /\ ecm[e].mass = model_sdf_objs[call.name]
         /\ ~ecm[e].moving /\ ecm[e].pose_cmd = None

StatesAreCached ==
  \A m \in Models, e \in DOMAIN ecm : ecm[e].name = m => pose_datas[m] = ecm[e].pose

LiveHandlesAreCached ==
  \A m \in Models : models[m] \in DOMAIN ecm => pose_datas[m] = ecm[models[m]].pose

(* Between calls the cached state of a model is the state of its entity.   *)
(* With the helper registered again reset_world itself returns with blank  *)
(* states; the next call that runs has filled that of every handle to a    *)
(* living entity when it returns, however many helpers run by then.        *)
StateCurrent ==
  pc = "idle" =>
    /\ OneHelper => StatesAreCached
    /\ call.op \in {"run", "reset", "respawn"} => LiveHandlesAreCached

=============================================================================
