---------------------------- MODULE DRLServer_proofs ----------------------------
(***************************************************************************)
(* Proofs about the simulation server.  A request goes through two queues  *)
(* over the iterations of its call, and what the properties say when the   *)
(* call has returned is made true at several of its phases.  The inductive *)
(* invariant says which request is in which queue at which phase (Queued), *)
(* which entities of a model live or are to be removed there (Population), *)
(* which commands bodies have (Commanded, Resetting, Respawning), and what *)
(* handles and cached states are meanwhile (Cached).                       *)
(***************************************************************************)
EXTENDS DRLServer, FiniteSetTheorems, TLAPS

Entity == [name: WorldNames, pose: Place, mass: Mass, moving: BOOLEAN,
           pose_cmd: Poses \cup {None}, velocity_cmd: BOOLEAN, wrench: BOOLEAN]

(* How far the iterations of a call are: before the first PreUpdate, and   *)
(* between the first and the second, which is that of the second helper    *)
(* where there is one.                                                     *)
Fresh == left = 3 /\ pc = "pre" /\ turn = 1

Halfway ==
  IF OneHelper THEN \/ left = 3 /\ pc \in {"physics", "post", "end"}
                    \/ left = 2 /\ pc = "pre"
  ELSE left = 3 /\ pc = "pre" /\ turn = 2

Asked == Request(call.name, call.pose)

Ops == {"construct", "run", "reset", "respawn", "command", "world", "created", "registered"}

Called ==
  /\ call.op \in Ops
  /\ call.op \in {"reset", "respawn"} => call.name \in Names /\ call.pose \in Poses
  /\ call.op = "world" => call.poses \in [Models -> Poses]
  /\ pc \in {"idle", "return"} <=> left = 0
  /\ pc # "pre" => turn = 1
  /\ pc = "idle" => call.op \notin {"world", "created"}
  /\ pc \notin {"idle", "return"} => call.op \in {"run", "reset", "respawn", "world", "created"}
  /\ call.op \in {"world", "created"} => systems < MaxSystems
  /\ call.op = "world" => left <= 1

Queued ==
  /\ reset_queue = IF call.op = "reset" /\ Fresh THEN <<Asked>> ELSE <<>>
  /\ post_reset_queue = IF call.op = "reset" /\ Halfway THEN <<Asked>> ELSE <<>>
  /\ respawn_queue = IF call.op = "respawn" /\ Fresh THEN <<Asked>> ELSE <<>>
  /\ post_respawn_queue = IF call.op = "respawn" /\ Halfway THEN <<Asked>> ELSE <<>>

Living(m) == EntityByName(m) \ removing

(* The model's old entity is gone or going, and its new one is not there.  *)
Replaced(m) == call.op = "respawn" /\ call.name = m /\ Halfway

Population ==
  /\ call.op = "world" => (removing = DOMAIN ecm /\ (pc = "return" => DOMAIN ecm = {}))
  /\ (call.op # "world" /\ removing # {}) => (call.op = "respawn" /\ left = 3 /\ ~Fresh)
  /\ call.op # "world" =>
       \A m \in Models : IF Replaced(m) THEN Living(m) = {}
                         ELSE \E e \in DOMAIN ecm : Living(m) = {e}

Commanded ==
  \A e \in DOMAIN ecm : ecm[e].pose_cmd # None => pc = "physics" \/ (pc = "pre" /\ turn > 1)

(* Where the body is, or will be after physics.                            *)
ToPose(b) == IF b.pose_cmd # None THEN b.pose_cmd ELSE b.pose

Resetting ==
  (call.op = "reset" /\ OneHelper /\ ~Fresh) =>
    \A e \in EntityByName(call.name) :
      /\ call.name \in Models
      /\ ToPose(ecm[e]) = call.pose
      /\ ~ecm[e].wrench
      /\ Halfway => ecm[e].velocity_cmd
      /\ ~Halfway => ~ecm[e].velocity_cmd
      /\ ecm[e].moving => left = 3 /\ pc = "physics"

Respawning ==
  (call.op = "respawn" /\ ~Fresh /\ ~Halfway /\ call.name \in Models) =>
    \A e \in Living(call.name) :
      /\ ToPose(ecm[e]) = call.pose
      /\ ecm[e].pose = call.pose
      /\ ecm[e].mass = model_sdf_objs[call.name]
      /\ ~ecm[e].moving /\ ~ecm[e].wrench

Cached ==
  (OneHelper /\ call.op \notin {"world", "created"}) => \A m \in Models :
    /\ ~Replaced(m) => models[m] \in Living(m)
    /\ left = 3 => models[m] \in EntityByName(m)
    /\ (pc \in {"end", "return", "idle"} /\ models[m] \in DOMAIN ecm) =>
         pose_datas[m] = ecm[models[m]].pose

Served ==
  /\ Called
  /\ Queued
  /\ Population
  /\ Commanded
  /\ Resetting
  /\ Respawning
  /\ Cached

IInv == TypeOK /\ (pc # "crashed" => Served)

-----------------------------------------------------------------------------
(* Lemmas *)

(* The world's models are numbered: each has one number. *)
LEMMA WorldOrdered ==
  /\ Cardinality(WorldNames) \in Nat
  /\ WorldOrder \in [1 .. Cardinality(WorldNames) -> WorldNames]
  /\ \A n \in WorldNames : \E e \in 1 .. Cardinality(WorldNames) :
       /\ WorldOrder[e] = n
       /\ \A d \in 1 .. Cardinality(WorldNames) : WorldOrder[d] = n => d = e
  <1> DEFINE N == Cardinality(WorldNames)
  <1>1. IsFiniteSet(WorldNames) BY NameAssumption DEF WorldNames
  <1>2. N \in Nat /\ ExistsBijection(1 .. N, WorldNames) BY <1>1, FS_CardinalityType
  <1>3. \E f \in [1 .. N -> WorldNames] : IsInjective(f)
    BY <1>2 DEF ExistsBijection, Bijection, Injection
  <1>4. WorldOrder \in [1 .. N -> WorldNames] /\ IsInjective(WorldOrder)
    BY <1>3 DEF WorldOrder, SetToSeq
  <1>5. WorldOrder \in Injection(1 .. N, WorldNames) BY <1>4 DEF Injection
  <1>6. IsFiniteSet(1 .. N) /\ Cardinality(1 .. N) = N BY <1>2, FS_Interval
  <1>7. WorldOrder \in Surjection(1 .. N, WorldNames) BY <1>1, <1>5, <1>6, FS_Injection
  <1>8. QED BY <1>2, <1>4, <1>7 DEF Surjection, IsInjective

(* A queue of one request: what the loop over it finds. *)
LEMMA OneFound ==
  ASSUME NEW r, NEW found \in Found(<<r>>)
  PROVE  /\ Range(found) = {found[1]}
         /\ EntityByName(r.name) = {} => found[1] = None
         /\ EntityByName(r.name) # {} => found[1] \in EntityByName(r.name)
         /\ <<r>>[LastFor(found, found[1])] = r
  <1>1. DOMAIN <<r>> = {1} /\ <<r>>[1] = r OBVIOUS
  <1>2. DOMAIN found = {1} BY <1>1 DEF Found
  <1>3. Range(found) = {found[1]} BY <1>2 DEF Range
  <1>4. LastFor(found, found[1]) = 1 BY <1>2 DEF LastFor
  <1>5. IF EntityByName(r.name) = {} THEN found[1] = None ELSE found[1] \in EntityByName(r.name)
    BY <1>1 DEF Found
  <1>6. QED BY <1>1, <1>3, <1>4, <1>5

(* Between calls nothing is queued and nothing is to be removed. *)
LEMMA AtRest ==
  ASSUME TypeOK, Served, pc \in {"idle", "return"}
  PROVE  /\ left = 0 /\ turn = 1 /\ ~Fresh /\ ~Halfway
         /\ reset_queue = <<>> /\ post_reset_queue = <<>>
         /\ respawn_queue = <<>> /\ post_respawn_queue = <<>>
         /\ call.op # "world" =>
              /\ removing = {}
              /\ \A m \in Models : Living(m) = EntityByName(m)
              /\ \A m \in Models : \E e \in DOMAIN ecm : Living(m) = {e}
  <1>1. left = 0 /\ turn = 1 BY DEF Served, Called
  <1>2. ~Fresh /\ ~Halfway BY <1>1 DEF Fresh, Halfway
  <1>3. /\ reset_queue = <<>> /\ post_reset_queue = <<>>
        /\ respawn_queue = <<>> /\ post_respawn_queue = <<>>
    BY <1>2 DEF Served, Queued
  <1>4. ASSUME call.op # "world"
        PROVE  /\ removing = {}
               /\ \A m \in Models : Living(m) = EntityByName(m)
               /\ \A m \in Models : \E e \in DOMAIN ecm : Living(m) = {e}
    <2>1. removing = {} BY <1>1, <1>4 DEF Served, Population
    <2>2. \A m \in Models : \E e \in DOMAIN ecm : Living(m) = {e}
      BY <1>2, <1>4 DEF Served, Population, Replaced
    <2>3. \A m \in Models : Living(m) = EntityByName(m) BY <2>1 DEF Living
    <2>4. QED BY <2>1, <2>2, <2>3
  <1>5. QED BY <1>1, <1>2, <1>3, <1>4

(* Which of the two queues an iteration begins with tells its phase. *)
LEMMA Phases ==
  ASSUME TypeOK, Served, pc = "pre"
  PROVE  /\ reset_queue # <<>> =>
              /\ call.op = "reset" /\ Fresh /\ ~Halfway
              /\ reset_queue = <<Asked>> /\ post_reset_queue = <<>>
              /\ respawn_queue = <<>> /\ post_respawn_queue = <<>>
         /\ post_reset_queue # <<>> =>
              /\ call.op = "reset" /\ Halfway /\ ~Fresh
              /\ post_reset_queue = <<Asked>> /\ reset_queue = <<>>
              /\ respawn_queue = <<>> /\ post_respawn_queue = <<>>
         /\ respawn_queue # <<>> =>
              /\ call.op = "respawn" /\ Fresh /\ ~Halfway
              /\ respawn_queue = <<Asked>> /\ post_respawn_queue = <<>>
              /\ reset_queue = <<>> /\ post_reset_queue = <<>>
         /\ post_respawn_queue # <<>> =>
              /\ call.op = "respawn" /\ Halfway /\ ~Fresh
              /\ post_respawn_queue = <<Asked>> /\ respawn_queue = <<>>
              /\ reset_queue = <<>> /\ post_reset_queue = <<>>
  <1>1. ~(Fresh /\ Halfway) BY DEF Fresh, Halfway
  <1>2. QED BY <1>1 DEF Served, Queued

(* What PreUpdate of one registration does to the phase. *)
LEMMA Passed ==
  ASSUME TypeOK, Served, Pre
  PROVE  /\ ~Fresh'
         /\ Fresh => Halfway'
         /\ ~Fresh => ~Halfway'
         /\ pc' \in {"pre", "physics"} /\ (pc' = "pre" => turn' > 1)
         /\ pc' # "pre" => turn' = 1
         /\ turn' \in 1 .. systems /\ pc # "crashed"
         /\ systems' = systems /\ left' = left /\ call' = call
         /\ (OneHelper' <=> OneHelper) /\ model_sdf_objs' = model_sdf_objs
         /\ OneHelper => pc' = "physics"
  <1>1. systems \in Nat /\ turn \in Nat /\ 1 <= turn /\ turn <= systems /\ left \in Nat
    BY BoundAssumption DEF TypeOK, STABILIZATION_STEPS
  <1>2. pc = "pre" /\ systems' = systems /\ left' = left /\ call' = call
    BY DEF Pre
  <1>3. CASE turn < systems
    <2>1. turn' = turn + 1 /\ pc' = "pre" BY <1>2, <1>3 DEF Pre
    <2>2. QED BY <1>1, <1>2, <1>3, <2>1 DEF Pre, Fresh, Halfway, OneHelper
  <1>4. CASE ~(turn < systems)
    <2>1. turn' = 1 /\ pc' = "physics" BY <1>4 DEF Pre
    <2>2. QED BY <1>1, <1>2, <1>4, <2>1 DEF Pre, Fresh, Halfway, OneHelper
  <1>5. QED BY <1>3, <1>4

(* A step that keeps the entities and their names keeps the population. *)
LEMMA NamesKept ==
  ASSUME DOMAIN ecm' = DOMAIN ecm, \A e \in DOMAIN ecm : ecm'[e].name = ecm[e].name
  PROVE  \A m : EntityByName(m)' = EntityByName(m)
  BY DEF EntityByName

(* A body is an entity at rest. *)
LEMMA BodyType ==
  ASSUME NEW name \in WorldNames, NEW pose \in Place, NEW mass \in Mass
  PROVE  /\ Body(name, pose, mass) \in Entity
         /\ Body(name, pose, mass).name = name
         /\ Body(name, pose, mass).pose = pose
         /\ Body(name, pose, mass).mass = mass
         /\ Body(name, pose, mass).pose_cmd = None
         /\ ~Body(name, pose, mass).moving /\ ~Body(name, pose, mass).wrench
         /\ ~Body(name, pose, mass).velocity_cmd
  BY DEF Body, Entity

(* ... and during an iteration's PreUpdate the call goes on. *)
LEMMA StillCalled ==
  ASSUME TypeOK, Served, Pre
  PROVE  Called'
  <1>1. /\ pc = "pre" /\ left' = left /\ call' = call /\ systems' = systems
        /\ pc' \in {"pre", "physics"} /\ (pc' # "pre" => turn' = 1)
    BY Passed DEF Pre
  <1>2. QED BY <1>1 DEF Served, Called

(* The queues are sequences of requests. *)
LEMMA QueueType ==
  ASSUME call.name \in Names, call.pose \in Poses
  PROVE  <<>> \in Queue /\ <<Asked>> \in Queue
  BY DEF Queue, Asked, Request

-----------------------------------------------------------------------------
(* The initial state *)

(* A constructed server satisfies the invariant. *)
LEMMA InitInvariant == Init => IInv
  <1> SUFFICES ASSUME Init PROVE IInv
    OBVIOUS
  <1> DEFINE N == Cardinality(WorldNames)
  <1>1. /\ N \in Nat
        /\ WorldOrder \in [1 .. N -> WorldNames]
        /\ \A n \in WorldNames : \E e \in 1 .. N :
             WorldOrder[e] = n /\ \A d \in 1 .. N : WorldOrder[d] = n => d = e
    BY WorldOrdered
  <1> HIDE DEF N
  <1>2. DOMAIN WorldOrder = 1 .. N BY <1>1
  <1>3. DOMAIN ecm = 1 .. N /\ next_entity = N + 1 BY <1>2 DEF Init, N
  <1>4. \A e \in 1 .. N : ecm[e] = Body(WorldOrder[e], Home, Nominal) BY <1>2 DEF Init
  <1>5. \A e \in DOMAIN ecm : /\ e \in 1 .. next_entity - 1
                              /\ ecm[e] \in Entity
                              /\ ecm[e].name = WorldOrder[e]
                              /\ ecm[e].pose_cmd = None /\ ecm[e].pose = Home
    <2> SUFFICES ASSUME NEW e \in 1 .. N
                 PROVE  /\ e \in 1 .. next_entity - 1
                        /\ ecm[e] \in Entity
                        /\ ecm[e].name = WorldOrder[e]
                        /\ ecm[e].pose_cmd = None /\ ecm[e].pose = Home
      BY <1>3
    <2>1. WorldOrder[e] \in WorldNames BY <1>1
    <2>2. Home \in Place /\ Nominal \in Mass BY DEF Place, Mass
    <2>3. e \in 1 .. next_entity - 1 BY <1>1, <1>3
    <2>4. ecm[e] = Body(WorldOrder[e], Home, Nominal) BY <1>4
    <2>5. QED BY <2>1, <2>2, <2>3, <2>4, BodyType
  <1>6. \A m \in Models : models[m] \in 1 .. N /\ EntityByName(m) = {models[m]}
    <2> SUFFICES ASSUME NEW m \in Models
                 PROVE  models[m] \in 1 .. N /\ EntityByName(m) = {models[m]}
      OBVIOUS
    <2>1. PICK e \in 1 .. N : WorldOrder[e] = m /\ \A d \in 1 .. N : WorldOrder[d] = m => d = e
      BY <1>1 DEF WorldNames
    <2>2. models[m] = CHOOSE d \in DOMAIN WorldOrder : WorldOrder[d] = m BY DEF Init
    <2>3. models[m] = e BY <1>2, <2>1, <2>2
    <2>4. EntityByName(m) = {e} BY <1>3, <1>5, <2>1 DEF EntityByName
    <2>5. QED BY <2>3, <2>4
  <1>7. TypeOK
    <2>1. models \in [Models -> 1 .. next_entity - 1]
      <3>1. models = [m \in Models |-> CHOOSE e \in DOMAIN WorldOrder : WorldOrder[e] = m]
        BY DEF Init
      <3>2. \A m \in Models : models[m] \in 1 .. next_entity - 1 BY <1>1, <1>3, <1>6
      <3>3. QED BY <3>1, <3>2
    <2>2. next_entity \in Nat \ {0} BY <1>1, <1>3
    <2>3. systems \in 1 .. MaxSystems /\ turn \in 1 .. systems BY BoundAssumption DEF Init
    <2>4. <<>> \in Queue BY DEF Queue
    <2>5. QED BY <1>5, <2>1, <2>2, <2>3, <2>4
              DEF Init, TypeOK, Entity, Place, Mass, STABILIZATION_STEPS
  <1>8. ~Fresh /\ ~Halfway BY DEF Init, Fresh, Halfway
  <1>9. Served
    <2>1. call.op = "construct" /\ left = 0 /\ pc = "idle" /\ removing = {} /\ turn = 1
      BY DEF Init
    <2>2. Called BY <2>1 DEF Called, Ops
    <2>3. Queued BY <1>8 DEF Queued, Init
    <2>4. Population BY <1>3, <1>6, <1>8, <2>1 DEF Population, Living, Replaced
    <2>5. Commanded BY <1>5 DEF Commanded
    <2>6. Resetting /\ Respawning BY <2>1 DEF Resetting, Respawning
    <2>7. \A m \in Models : pose_datas[m] = Home BY DEF Init
    <2>8. Cached BY <1>3, <1>5, <1>6, <2>1, <2>7 DEF Cached, Living
    <2>9. QED BY <2>2, <2>3, <2>4, <2>5, <2>6, <2>8 DEF Served
  <1>10. QED BY <1>7, <1>9 DEF IInv

-----------------------------------------------------------------------------
(* The calls *)

(* A call that has only been queued and set running. *)
LEMMA CallBegun ==
  ASSUME TypeOK, Served, pc = "idle", pc' = "pre", turn' = 1, left' \in 1 .. 3,
         call'.op \in {"run", "reset", "respawn"},
         call'.op \in {"reset", "respawn"} =>
           call'.name \in Names /\ call'.pose \in Poses /\ left' = 3,
         call'.op = "run" => left' = 1,
         UNCHANGED <<ecmVars, systems, post_reset_queue, post_respawn_queue, cacheVars,
                     model_sdf_objs>>,
         reset_queue' = IF call'.op = "reset" THEN <<Asked'>> ELSE reset_queue,
         respawn_queue' = IF call'.op = "respawn" THEN <<Asked'>> ELSE respawn_queue
  PROVE  TypeOK' /\ Served'
  <1>1. /\ left = 0 /\ turn = 1
        /\ reset_queue = <<>> /\ post_reset_queue = <<>>
        /\ respawn_queue = <<>> /\ post_respawn_queue = <<>>
        /\ call.op \notin {"world", "created"} /\ removing = {}
        /\ \A m \in Models : Living(m) = EntityByName(m)
        /\ \A m \in Models : \E e \in DOMAIN ecm : Living(m) = {e}
        /\ \A m \in Models : ~Replaced(m)
    BY AtRest DEF Served, Called, Replaced
  <1>2. ecm' = ecm /\ removing' = removing /\ next_entity' = next_entity /\ systems' = systems
        /\ models' = models /\ pose_datas' = pose_datas /\ model_sdf_objs' = model_sdf_objs
        /\ post_reset_queue' = <<>> /\ post_respawn_queue' = <<>>
    BY <1>1 DEF ecmVars, cacheVars
  <1>3. (Fresh' <=> left' = 3) /\ ~Halfway'
    BY <1>2 DEF Fresh, Halfway, OneHelper
  <1>4. \A m : EntityByName(m)' = EntityByName(m) /\ Living(m)' = Living(m)
    BY <1>2 DEF EntityByName, Living
  <1>5. TypeOK'
    <2>1. call'.op \in {"reset", "respawn"} => <<Asked'>> \in Queue
      BY DEF Queue, Asked, Request
    <2>2. <<>> \in Queue BY DEF Queue
    <2>3. {reset_queue', post_reset_queue', respawn_queue', post_respawn_queue'} \subseteq Queue
      BY <1>1, <1>2, <2>1, <2>2
    <2>4. turn' \in 1 .. systems' BY <1>1, <1>2 DEF TypeOK
    <2>5. QED BY <1>2, <2>3, <2>4 DEF TypeOK, STABILIZATION_STEPS
  <1>6. Called'
    <2>1. left' # 0 /\ pc' \notin {"idle", "return"} OBVIOUS
    <2>2. call'.op \in Ops /\ call'.op \notin {"world", "created"} BY DEF Ops
    <2>3. QED BY <2>1, <2>2 DEF Called
  <1>7. Queued' BY <1>1, <1>2, <1>3 DEF Queued
  <1>8. Population' BY <1>1, <1>2, <1>3, <1>4 DEF Population, Replaced
  <1>9. Commanded' BY <1>2 DEF Served, Commanded
  <1>10. Resetting' /\ Respawning' BY <1>3 DEF Resetting, Respawning
  <1>11. Cached'
    <2>1. ASSUME OneHelper' PROVE \A m \in Models : models[m] \in Living(m)
      BY <1>1, <1>2, <2>1 DEF Served, Cached, OneHelper
    <2>2. QED BY <1>1, <1>2, <1>4, <2>1 DEF Cached
  <1>12. QED BY <1>5, <1>6, <1>7, <1>8, <1>9, <1>10, <1>11 DEF Served

(* run_N, reset_pos and respawn_model. *)
LEMMA RunInvariant ==
  ASSUME TypeOK, Served, run_N(1)
  PROVE  TypeOK' /\ Served'
  <1>1. /\ pc = "idle" /\ pc' = "pre" /\ turn' = 1 /\ left' = 1 /\ call'.op = "run"
        /\ reset_queue' = reset_queue /\ respawn_queue' = respawn_queue
    BY DEF run_N, Serve, Run, queues
  <1>2. UNCHANGED <<ecmVars, systems, post_reset_queue, post_respawn_queue, cacheVars,
                    model_sdf_objs>>
    BY DEF run_N, queues
  <1>3. QED BY <1>1, <1>2, CallBegun

LEMMA ResetInvariant ==
  ASSUME TypeOK, Served, NEW name \in Names, NEW pose \in Poses, reset_pos(name, pose)
  PROVE  TypeOK' /\ Served'
  <1>1. /\ pc = "idle" /\ pc' = "pre" /\ turn' = 1 /\ left' = 3
        /\ call' = [op |-> "reset", name |-> name, pose |-> pose]
        /\ respawn_queue' = respawn_queue
    BY DEF reset_pos, Serve, Run, STABILIZATION_STEPS
  <1>2. reset_queue' = <<Asked'>>
    <2>1. reset_queue = <<>> BY <1>1, AtRest
    <2>2. reset_queue' = Append(<<>>, Request(name, pose)) BY <2>1 DEF reset_pos
    <2>3. Asked' = Request(name, pose) BY <1>1 DEF Asked, Request
    <2>4. QED BY <2>2, <2>3
  <1>3. UNCHANGED <<ecmVars, systems, post_reset_queue, post_respawn_queue, cacheVars,
                    model_sdf_objs>>
    BY DEF reset_pos
  <1>4. call'.op = "reset" /\ call'.name = name /\ call'.pose = pose BY <1>1
  <1>5. QED BY <1>1, <1>2, <1>3, <1>4, CallBegun

LEMMA RespawnInvariant ==
  ASSUME TypeOK, Served, NEW name \in Names, NEW pose \in Poses, respawn_model(name, pose)
  PROVE  TypeOK' /\ Served'
  <1>1. /\ pc = "idle" /\ pc' = "pre" /\ turn' = 1 /\ left' = 3
        /\ call' = [op |-> "respawn", name |-> name, pose |-> pose]
        /\ reset_queue' = reset_queue
    BY DEF respawn_model, Serve, Run, STABILIZATION_STEPS
  <1>2. respawn_queue' = <<Asked'>>
    <2>1. respawn_queue = <<>> BY <1>1, AtRest
    <2>2. respawn_queue' = Append(<<>>, Request(name, pose)) BY <2>1 DEF respawn_model
    <2>3. Asked' = Request(name, pose) BY <1>1 DEF Asked, Request
    <2>4. QED BY <2>2, <2>3
  <1>3. UNCHANGED <<ecmVars, systems, post_reset_queue, post_respawn_queue, cacheVars,
                    model_sdf_objs>>
    BY DEF respawn_model
  <1>4. call'.op = "respawn" /\ call'.name = name /\ call'.pose = pose BY <1>1
  <1>5. QED BY <1>1, <1>2, <1>3, <1>4, CallBegun

(* set_wrench writes to the entity of the handle, if there is one. *)
LEMMA WrenchInvariant ==
  ASSUME TypeOK, Served, NEW m \in Models, set_wrench(m)
  PROVE  TypeOK' /\ Served'
  <1>1. /\ left = 0 /\ turn = 1 /\ pc = "idle" /\ ~Fresh /\ ~Halfway
        /\ reset_queue = <<>> /\ post_reset_queue = <<>>
        /\ respawn_queue = <<>> /\ post_respawn_queue = <<>>
        /\ call.op \notin {"world", "created"} /\ removing = {}
        /\ \A n \in Models : Living(n) = EntityByName(n)
        /\ \A n \in Models : \E e \in DOMAIN ecm : Living(n) = {e}
        /\ \A n \in Models : ~Replaced(n)
    BY AtRest DEF Served, Called, Replaced, set_wrench, Serve
  <1>2. /\ removing' = removing /\ next_entity' = next_entity /\ systems' = systems
        /\ models' = models /\ pose_datas' = pose_datas /\ model_sdf_objs' = model_sdf_objs
        /\ reset_queue' = <<>> /\ post_reset_queue' = <<>>
        /\ respawn_queue' = <<>> /\ post_respawn_queue' = <<>>
        /\ pc' = pc /\ turn' = turn /\ left' = left /\ call'.op = "command"
    BY <1>1 DEF set_wrench, Serve, queues, cacheVars
  <1>3. /\ DOMAIN ecm' = DOMAIN ecm
        /\ \A e \in DOMAIN ecm : ecm'[e] = ecm[e] \/ ecm'[e] = [ecm[e] EXCEPT !.wrench = TRUE]
    BY DEF set_wrench
  <1>4. \A e \in DOMAIN ecm : /\ ecm'[e] \in Entity
                              /\ ecm'[e].name = ecm[e].name /\ ecm'[e].pose = ecm[e].pose
                              /\ ecm'[e].pose_cmd = ecm[e].pose_cmd
    <2> SUFFICES ASSUME NEW e \in DOMAIN ecm
                 PROVE  /\ ecm'[e] \in Entity
                        /\ ecm'[e].name = ecm[e].name /\ ecm'[e].pose = ecm[e].pose
                        /\ ecm'[e].pose_cmd = ecm[e].pose_cmd
      OBVIOUS
    <2>1. ecm[e] \in Entity BY DEF TypeOK, Entity
    <2>2. QED BY <1>3, <2>1 DEF Entity
  <1>5. \A n : EntityByName(n)' = EntityByName(n) /\ Living(n)' = Living(n)
    BY <1>2, <1>3, <1>4, NamesKept DEF Living
  <1>6. ~Fresh' /\ ~Halfway' BY <1>1, <1>2 DEF Fresh, Halfway
  <1>7. TypeOK'
    <2>1. <<>> \in Queue BY DEF Queue
    <2>2. \A e \in DOMAIN ecm' : e \in 1 .. next_entity' - 1 /\ ecm'[e] \in Entity
      BY <1>2, <1>3, <1>4 DEF TypeOK
    <2>3. removing' \subseteq DOMAIN ecm' BY <1>2, <1>3 DEF TypeOK
    <2>4. QED BY <1>2, <2>1, <2>2, <2>3 DEF TypeOK, Entity
  <1>8. Called' BY <1>1, <1>2 DEF Called, Ops
  <1>9. Queued' BY <1>2, <1>6 DEF Queued
  <1>10. Population' BY <1>1, <1>2, <1>3, <1>5 DEF Population, Replaced
  <1>11. Commanded' BY <1>1, <1>2, <1>3, <1>4 DEF Served, Commanded
  <1>12. Resetting' /\ Respawning' BY <1>2 DEF Resetting, Respawning
  <1>13. Cached'
    <2>1. SUFFICES ASSUME OneHelper', NEW n \in Models
                   PROVE  /\ models'[n] \in Living(n)'
                          /\ models'[n] \in DOMAIN ecm' => pose_datas'[n] = ecm'[models'[n]].pose
      BY <1>1, <1>2 DEF Cached
    <2>2. /\ models[n] \in Living(n)
          /\ models[n] \in DOMAIN ecm => pose_datas[n] = ecm[models[n]].pose
      BY <1>1, <1>2, <2>1 DEF Served, Cached, OneHelper
    <2>3. QED BY <1>2, <1>3, <1>4, <1>5, <2>2
  <1>14. QED BY <1>7, <1>8, <1>9, <1>10, <1>11, <1>12, <1>13 DEF Served

(* A step that leaves the world, the queues and the caches alone, from and *)
(* to a point between the calls of the server. *)
LEMMA NothingDone ==
  ASSUME TypeOK, Served, pc \in {"idle", "return"}, pc' = "idle",
         call.op \notin {"world", "created"},
         call'.op = "command" \/ (call' = call /\ model_sdf_objs' = model_sdf_objs),
         model_sdf_objs' \in [Models -> Mass],
         UNCHANGED <<ecmVars, systems, queues, cacheVars, turn, left>>
  PROVE  TypeOK' /\ Served'
  <1>1. /\ left = 0 /\ turn = 1 /\ ~Fresh /\ ~Halfway
        /\ reset_queue = <<>> /\ post_reset_queue = <<>>
        /\ respawn_queue = <<>> /\ post_respawn_queue = <<>> /\ removing = {}
        /\ \A n \in Models : \E e \in DOMAIN ecm : Living(n) = {e}
        /\ \A n \in Models : ~Replaced(n)
    BY AtRest DEF Replaced
  <1>2. /\ ecm' = ecm /\ removing' = removing /\ next_entity' = next_entity
        /\ systems' = systems /\ models' = models /\ pose_datas' = pose_datas
        /\ reset_queue' = reset_queue /\ post_reset_queue' = post_reset_queue
        /\ respawn_queue' = respawn_queue /\ post_respawn_queue' = post_respawn_queue
        /\ turn' = turn /\ left' = left
    BY DEF ecmVars, queues, cacheVars
  <1>3. ~Fresh' /\ ~Halfway' BY <1>1, <1>2 DEF Fresh, Halfway
  <1>4. \A n : EntityByName(n)' = EntityByName(n) /\ Living(n)' = Living(n)
    BY <1>2 DEF EntityByName, Living
  <1>5. TypeOK' BY <1>2 DEF TypeOK
  <1>6. Called' BY <1>1, <1>2 DEF Served, Called, Ops
  <1>7. Queued' BY <1>1, <1>2, <1>3 DEF Queued
  <1>8. Population' BY <1>1, <1>2, <1>3, <1>4 DEF Population, Replaced, Served, Called
  <1>9. Commanded' BY <1>1, <1>2 DEF Served, Commanded
  <1>10. Resetting'
    <2>1. CASE call' = call /\ model_sdf_objs' = model_sdf_objs
      BY <1>1, <1>2, <1>3, <1>4, <2>1 DEF Served, Resetting, OneHelper
    <2>2. CASE call'.op = "command" BY <2>2 DEF Resetting
    <2>3. QED BY <2>1, <2>2
  <1>11. Respawning'
    <2>1. CASE call' = call /\ model_sdf_objs' = model_sdf_objs
      BY <1>1, <1>2, <1>3, <1>4, <2>1 DEF Served, Respawning
    <2>2. CASE call'.op = "command" BY <2>2 DEF Respawning
    <2>3. QED BY <2>1, <2>2
  <1>12. Cached' BY <1>1, <1>2, <1>3, <1>4 DEF Served, Cached, OneHelper
  <1>13. QED BY <1>5, <1>6, <1>7, <1>8, <1>9, <1>10, <1>11, <1>12 DEF Served

(* set_mass changes the SDF only, and a call that returns nothing. *)
LEMMA MassInvariant ==
  ASSUME TypeOK, Served, NEW m \in Models, NEW mass \in Masses, set_mass(m, mass)
  PROVE  TypeOK' /\ Served'
  <1>1. /\ pc = "idle" /\ pc' = "idle" /\ call' = [op |-> "command"]
        /\ model_sdf_objs' = [model_sdf_objs EXCEPT ![m] = mass]
        /\ UNCHANGED <<ecmVars, systems, queues, cacheVars, turn, left>>
    BY DEF set_mass, Serve
  <1>2. call.op \notin {"world", "created"} BY <1>1 DEF Served, Called
  <1>3. model_sdf_objs' \in [Models -> Mass] BY <1>1 DEF TypeOK, Mass
  <1>4. QED BY <1>1, <1>2, <1>3, NothingDone

(* A call that has run its iterations returns. *)
LEMMA ReturnInvariant ==
  ASSUME TypeOK, Served, Return
  PROVE  TypeOK' /\ Served'
  <1>1. /\ pc = "return" /\ pc' = "idle" /\ call' = call /\ model_sdf_objs' = model_sdf_objs
        /\ call.op \notin {"world", "created"}
        /\ UNCHANGED <<ecmVars, systems, queues, cacheVars, turn, left>>
    BY DEF Return
  <1>2. model_sdf_objs' \in [Models -> Mass] BY <1>1 DEF TypeOK
  <1>3. QED BY <1>1, <1>2, NothingDone

(* reset_world asks for the removal of everything ... *)
LEMMA WorldInvariant ==
  ASSUME TypeOK, Served, NEW model_poses \in [Models -> Poses], reset_world(model_poses)
  PROVE  TypeOK' /\ Served'
  <1>1. /\ left = 0 /\ turn = 1 /\ pc = "idle"
        /\ reset_queue = <<>> /\ post_reset_queue = <<>>
        /\ respawn_queue = <<>> /\ post_respawn_queue = <<>>
    BY AtRest DEF reset_world, Serve
  <1>2. /\ ecm' = ecm /\ removing' = DOMAIN ecm /\ next_entity' = next_entity
        /\ systems' = systems /\ systems < MaxSystems
        /\ models' = models /\ pose_datas' = pose_datas /\ model_sdf_objs' = model_sdf_objs
        /\ reset_queue' = <<>> /\ post_reset_queue' = <<>>
        /\ respawn_queue' = <<>> /\ post_respawn_queue' = <<>>
        /\ pc' = "pre" /\ turn' = 1 /\ left' = 1
        /\ call'.op = "world" /\ call'.poses = model_poses
    BY <1>1 DEF reset_world, Serve, Run, queues, cacheVars
  <1>3. ~Fresh' /\ ~Halfway' BY <1>2 DEF Fresh, Halfway
  <1>4. TypeOK'
    <2>1. turn' \in 1 .. systems' BY <1>1, <1>2 DEF TypeOK
    <2>2. left' \in 0 .. STABILIZATION_STEPS BY <1>2 DEF STABILIZATION_STEPS
    <2>3. <<>> \in Queue BY DEF Queue
    <2>4. QED BY <1>2, <2>1, <2>2, <2>3 DEF TypeOK
  <1>5. Called' BY <1>2 DEF Called, Ops
  <1>6. Queued' BY <1>2, <1>3 DEF Queued
  <1>7. Population' BY <1>2 DEF Population
  <1>8. Commanded' BY <1>1, <1>2 DEF Served, Commanded
  <1>9. Resetting' /\ Respawning' /\ Cached' BY <1>2 DEF Resetting, Respawning, Cached
  <1>10. QED BY <1>4, <1>5, <1>6, <1>7, <1>8, <1>9 DEF Served

(* ... creates the world again in an empty one ... *)
LEMMA CreateInvariant ==
  ASSUME TypeOK, Served, CreateWorld
  PROVE  TypeOK' /\ Served'
  <1> DEFINE N == Cardinality(WorldNames)
             D == next_entity .. next_entity + N - 1
             n(e) == WorldOrder[e - next_entity + 1]
  <1>1. /\ left = 0 /\ turn = 1 /\ pc = "return" /\ call.op = "world"
        /\ reset_queue = <<>> /\ post_reset_queue = <<>>
        /\ respawn_queue = <<>> /\ post_respawn_queue = <<>>
    BY AtRest DEF CreateWorld
  <1>2. /\ removing = {} /\ systems < MaxSystems /\ call.poses \in [Models -> Poses]
    BY <1>1 DEF Served, Population, Called
  <1>3. /\ ecm' = [e \in D |->
                     Body(n(e), IF n(e) \in Models THEN call.poses[n(e)] ELSE Home, Nominal)]
        /\ next_entity' = next_entity + N
    BY DEF CreateWorld
  <1>4. /\ removing' = {} /\ systems' = systems
        /\ models' = models /\ pose_datas' = pose_datas /\ model_sdf_objs' = model_sdf_objs
        /\ reset_queue' = <<>> /\ post_reset_queue' = <<>>
        /\ respawn_queue' = <<>> /\ post_respawn_queue' = <<>>
        /\ pc' = "pre" /\ turn' = 1 /\ left' = 2 /\ call'.op = "created"
    BY <1>1, <1>2 DEF CreateWorld, Run, queues, cacheVars
  <1>5. /\ N \in Nat /\ next_entity \in Nat \ {0}
        /\ WorldOrder \in [1 .. N -> WorldNames]
        /\ \A m \in WorldNames : \E e \in 1 .. N :
             WorldOrder[e] = m /\ \A d \in 1 .. N : WorldOrder[d] = m => d = e
    BY WorldOrdered DEF TypeOK
  <1> HIDE DEF N
  <1>6. \A e \in D : e - next_entity + 1 \in 1 .. N /\ n(e) \in WorldNames
    <2>1. \A e \in D : e - next_entity + 1 \in 1 .. N BY <1>5
    <2>2. QED BY <1>5, <2>1
  <1> HIDE DEF n
  <1>7. \A e \in D : ecm'[e] \in Entity /\ ecm'[e].name = n(e) /\ ecm'[e].pose_cmd = None
    <2> SUFFICES ASSUME NEW e \in D
                 PROVE  ecm'[e] \in Entity /\ ecm'[e].name = n(e) /\ ecm'[e].pose_cmd = None
      OBVIOUS
    <2> DEFINE p == IF n(e) \in Models THEN call.poses[n(e)] ELSE Home
    <2>1. p \in Place BY <1>2 DEF Place
    <2>2. ecm'[e] = Body(n(e), p, Nominal) BY <1>3
    <2>3. Nominal \in Mass BY DEF Mass
    <2> HIDE DEF p
    <2>4. QED BY <1>6, <2>1, <2>2, <2>3, BodyType
  <1>8. DOMAIN ecm' = D BY <1>3
  <1>9. D \subseteq 1 .. next_entity' - 1
    BY <1>3, <1>5
  <1>10. TypeOK'
    <2>1. next_entity' \in Nat \ {0} /\ next_entity' >= next_entity BY <1>3, <1>5
    <2>2. models' \in [Models -> 1 .. next_entity' - 1] BY <1>4, <1>5, <2>1 DEF TypeOK
    <2>3. turn' \in 1 .. systems' BY <1>1, <1>4 DEF TypeOK
    <2>4. left' \in 0 .. STABILIZATION_STEPS BY <1>4 DEF STABILIZATION_STEPS
    <2>5. <<>> \in Queue BY DEF Queue
    <2>6. \A e \in DOMAIN ecm' : e \in 1 .. next_entity' - 1 /\ ecm'[e] \in Entity
      BY <1>7, <1>8, <1>9
    <2>7. QED BY <1>4, <2>1, <2>2, <2>3, <2>4, <2>5, <2>6 DEF TypeOK, Entity
  <1>11. Called' BY <1>2, <1>4 DEF Called, Ops
  <1>12. Queued' BY <1>4 DEF Queued
  <1>13. Population'
    <2>1. SUFFICES ASSUME NEW m \in Models
                   PROVE  \E e \in DOMAIN ecm' : Living(m)' = {e}
      BY <1>4 DEF Population, Replaced
    <2>2. PICK k \in 1 .. N : WorldOrder[k] = m /\ \A d \in 1 .. N : WorldOrder[d] = m => d = k
      BY <1>5 DEF WorldNames
    <2>3. k + next_entity - 1 \in D /\ n(k + next_entity - 1) = m
      BY <1>5, <2>2 DEF n
    <2>4. \A e \in D : n(e) = m => e = k + next_entity - 1
      BY <1>5, <1>6, <2>2 DEF n
    <2>5. EntityByName(m)' = {k + next_entity - 1}
      BY <1>7, <1>8, <2>3, <2>4 DEF EntityByName
    <2>6. QED BY <1>4, <1>8, <2>3, <2>5 DEF Living
  <1>14. Commanded' BY <1>7, <1>8 DEF Commanded
  <1>15. Resetting' /\ Respawning' /\ Cached' BY <1>4 DEF Resetting, Respawning, Cached
  <1>16. QED BY <1>10, <1>11, <1>12, <1>13, <1>14, <1>15 DEF Served

(* ... and registers the helper once more. *)
LEMMA AddInvariant ==
  ASSUME TypeOK, Served, AddSystem
  PROVE  TypeOK' /\ Served'
  <1>1. /\ left = 0 /\ turn = 1 /\ pc = "return" /\ call.op = "created"
        /\ reset_queue = <<>> /\ post_reset_queue = <<>>
        /\ respawn_queue = <<>> /\ post_respawn_queue = <<>> /\ removing = {}
        /\ \A m \in Models : \E e \in DOMAIN ecm : Living(m) = {e}
    BY AtRest DEF AddSystem
  <1>2. models' \in Handles(ecm) /\ pose_datas' = [m \in Models |-> Blank]
    BY DEF AddSystem, InitMethod
  <1>3. /\ ecm' = ecm /\ removing' = removing /\ next_entity' = next_entity
        /\ model_sdf_objs' = model_sdf_objs
        /\ reset_queue' = <<>> /\ post_reset_queue' = <<>>
        /\ respawn_queue' = <<>> /\ post_respawn_queue' = <<>>
        /\ pc' = "idle" /\ turn' = 1 /\ left' = 0 /\ call'.op = "registered"
    BY <1>1, <1>2 DEF AddSystem, InitMethod, queues, ecmVars
  <1>4. systems' \in 1 .. MaxSystems /\ systems' # 1
    <2>1. systems \in 1 .. MaxSystems BY DEF TypeOK
    <2>2. systems' = systems + 1 /\ systems < MaxSystems
      BY <1>1 DEF AddSystem, Served, Called
    <2>3. QED BY <2>1, <2>2, BoundAssumption
  <1>5. ~OneHelper' /\ ~Halfway'
    <2>1. ~OneHelper' BY <1>4 DEF OneHelper
    <2>2. QED BY <1>3, <2>1 DEF Halfway
  <1>6. TypeOK'
    <2>1. DOMAIN ecm \subseteq 1 .. next_entity - 1 BY DEF TypeOK
    <2>2. models' \in [Models -> 1 .. next_entity' - 1] BY <1>2, <1>3, <2>1 DEF Handles
    <2>3. turn' \in 1 .. systems' BY <1>3, <1>4, BoundAssumption
    <2>4. left' \in 0 .. STABILIZATION_STEPS BY <1>3 DEF STABILIZATION_STEPS
    <2>5. <<>> \in Queue BY DEF Queue
    <2>6. QED BY <1>2, <1>3, <1>4, <2>2, <2>3, <2>4, <2>5 DEF TypeOK
  <1>7. Called' BY <1>3 DEF Called, Ops
  <1>8. Queued' BY <1>3 DEF Queued
  <1>9. Population' BY <1>1, <1>3, <1>5 DEF Population, Replaced, Living, EntityByName
  <1>10. Commanded' BY <1>1, <1>3 DEF Served, Commanded
  <1>11. Resetting' /\ Respawning' /\ Cached'
    BY <1>3, <1>5 DEF Resetting, Respawning, Cached
  <1>12. QED BY <1>6, <1>7, <1>8, <1>9, <1>10, <1>11 DEF Served

-----------------------------------------------------------------------------
(* An iteration *)

(* Physics carries out what a body has been told. *)
LEMMA Moved ==
  ASSUME TypeOK, Physics, NEW e \in DOMAIN ecm
  PROVE  /\ ecm'[e] \in Entity /\ ecm'[e].name = ecm[e].name /\ ecm'[e].mass = ecm[e].mass
         /\ ecm'[e].pose_cmd = None /\ ~ecm'[e].wrench
         /\ ecm'[e].velocity_cmd = ecm[e].velocity_cmd
         /\ ecm'[e].moving <=> ~ecm[e].velocity_cmd /\ (ecm[e].wrench \/ ecm[e].moving)
         /\ ~ecm'[e].moving => ecm'[e].pose = ToPose(ecm[e])
  <1> DEFINE b == ecm[e]
             moving == ~b.velocity_cmd /\ (b.wrench \/ b.moving)
             pose == IF moving THEN Elsewhere ELSE IF b.pose_cmd # None THEN b.pose_cmd ELSE b.pose
  <1>1. b \in Entity BY DEF TypeOK, Entity
  <1>2. ecm'[e] = [b EXCEPT !.moving = moving, !.pose = pose, !.pose_cmd = None, !.wrench = FALSE]
    BY DEF Physics
  <1>3. moving \in BOOLEAN OBVIOUS
  <1>4. pose \in Place BY <1>1 DEF Entity, Place
  <1>5. ~moving => pose = ToPose(b) BY DEF ToPose
  <1> HIDE DEF moving, pose, b
  <1>6. QED
    <2>1. /\ ecm'[e] \in Entity
          /\ ecm'[e].name = b.name /\ ecm'[e].mass = b.mass /\ ecm'[e].pose_cmd = None
          /\ ecm'[e].wrench = FALSE /\ ecm'[e].velocity_cmd = b.velocity_cmd
          /\ ecm'[e].moving = moving /\ ecm'[e].pose = pose
      BY <1>1, <1>2, <1>3, <1>4 DEF Entity
    <2>2. QED BY <1>5, <2>1 DEF b, moving

LEMMA PhysicsInvariant ==
  ASSUME TypeOK, Served, Physics
  PROVE  TypeOK' /\ Served'
  <1>1. /\ removing' = removing /\ next_entity' = next_entity /\ systems' = systems
        /\ models' = models /\ pose_datas' = pose_datas /\ model_sdf_objs' = model_sdf_objs
        /\ reset_queue' = reset_queue /\ post_reset_queue' = post_reset_queue
        /\ respawn_queue' = respawn_queue /\ post_respawn_queue' = post_respawn_queue
        /\ turn' = turn /\ left' = left /\ call' = call /\ pc = "physics" /\ pc' = "post"
    BY DEF Physics, queues, cacheVars
  <1>2. DOMAIN ecm' = DOMAIN ecm BY DEF Physics
  <1>3. \A m : EntityByName(m)' = EntityByName(m) /\ Living(m)' = Living(m)
    BY <1>1, <1>2, Moved, NamesKept DEF Living
  <1>4. /\ ~Fresh /\ ~Fresh' /\ (Halfway' <=> Halfway) /\ (OneHelper' <=> OneHelper)
        /\ OneHelper /\ left = 3 => Halfway
    BY <1>1 DEF Fresh, Halfway, OneHelper
  <1>5. TypeOK'
    <2>1. \A e \in DOMAIN ecm' : e \in 1 .. next_entity' - 1 /\ ecm'[e] \in Entity
      BY <1>1, <1>2, Moved DEF TypeOK
    <2>2. removing' \subseteq DOMAIN ecm' BY <1>1, <1>2 DEF TypeOK
    <2>3. QED BY <1>1, <2>1, <2>2 DEF TypeOK, Entity
  <1>6. Called' BY <1>1 DEF Served, Called
  <1>7. Queued' BY <1>1, <1>4 DEF Served, Queued, Asked
  <1>8. Population' BY <1>1, <1>2, <1>3, <1>4 DEF Served, Population, Replaced
  <1>9. Commanded' BY <1>2, Moved DEF Commanded
  <1>10. Resetting'
    <2>1. SUFFICES ASSUME call.op = "reset", OneHelper, NEW e \in EntityByName(call.name)
                   PROVE  /\ call.name \in Models
                          /\ ToPose(ecm'[e]) = call.pose
                          /\ ~ecm'[e].wrench
                          /\ Halfway => ecm'[e].velocity_cmd
                          /\ ~Halfway => ~ecm'[e].velocity_cmd
                          /\ ~ecm'[e].moving
      BY <1>1, <1>3, <1>4 DEF Resetting, ToPose
    <2>2. e \in DOMAIN ecm BY DEF EntityByName
    <2>3. /\ call.name \in Models
          /\ ToPose(ecm[e]) = call.pose
          /\ ~ecm[e].wrench
          /\ Halfway => ecm[e].velocity_cmd
          /\ ~Halfway => ~ecm[e].velocity_cmd
          /\ ecm[e].moving => left = 3
      BY <1>4, <2>1 DEF Served, Resetting
    <2>4. ~ecm'[e].moving BY <1>4, <2>1, <2>2, <2>3, Moved
    <2>5. QED BY <2>2, <2>3, <2>4, Moved DEF ToPose
  <1>11. Respawning'
    <2>1. SUFFICES ASSUME call.op = "respawn", ~Halfway, call.name \in Models,
                          NEW e \in Living(call.name)
                   PROVE  /\ ToPose(ecm'[e]) = call.pose
                          /\ ecm'[e].pose = call.pose
                          /\ ecm'[e].mass = model_sdf_objs[call.name]
                          /\ ~ecm'[e].moving /\ ~ecm'[e].wrench
      BY <1>1, <1>3, <1>4 DEF Respawning, ToPose
    <2>2. e \in DOMAIN ecm BY DEF Living, EntityByName
    <2>3. /\ ToPose(ecm[e]) = call.pose
          /\ ecm[e].mass = model_sdf_objs[call.name]
          /\ ~ecm[e].moving /\ ~ecm[e].wrench
      BY <1>4, <2>1 DEF Served, Respawning
    <2>4. QED BY <2>2, <2>3, Moved DEF ToPose
  <1>12. Cached' BY <1>1, <1>3, <1>4 DEF Served, Cached, Replaced
  <1>13. QED BY <1>5, <1>6, <1>7, <1>8, <1>9, <1>10, <1>11, <1>12 DEF Served

LEMMA PostUpdateInvariant ==
  ASSUME TypeOK, Served, PostUpdate
  PROVE  TypeOK' /\ Served'
  <1>1. /\ ecm' = ecm /\ removing' = removing /\ next_entity' = next_entity
        /\ systems' = systems /\ models' = models /\ model_sdf_objs' = model_sdf_objs
        /\ reset_queue' = reset_queue /\ post_reset_queue' = post_reset_queue
        /\ respawn_queue' = respawn_queue /\ post_respawn_queue' = post_respawn_queue
        /\ turn' = turn /\ left' = left /\ call' = call /\ pc = "post" /\ pc' = "end"
    BY DEF PostUpdate, queues, ecmVars
  <1>2. \A m : EntityByName(m)' = EntityByName(m) /\ Living(m)' = Living(m)
    BY <1>1 DEF EntityByName, Living
  <1>3. /\ ~Fresh /\ ~Fresh' /\ (Halfway' <=> Halfway) /\ (OneHelper' <=> OneHelper)
    BY <1>1 DEF Fresh, Halfway, OneHelper
  <1>4. pose_datas' = [m \in Models |-> IF models[m] \in DOMAIN ecm THEN ecm[models[m]].pose
                                        ELSE pose_datas[m]]
    BY DEF PostUpdate
  <1>5. TypeOK'
    <2>1. \A e \in DOMAIN ecm : ecm[e].pose \in Place BY DEF TypeOK
    <2>2. pose_datas' \in [Models -> Place \cup {Blank}] BY <1>4, <2>1 DEF TypeOK
    <2>3. QED BY <1>1, <2>2 DEF TypeOK
  <1>6. Called' BY <1>1 DEF Served, Called
  <1>7. Queued' BY <1>1, <1>3 DEF Served, Queued, Asked
  <1>8. Population' BY <1>1, <1>2, <1>3 DEF Served, Population, Replaced
  <1>9. Commanded' BY <1>1 DEF Served, Commanded
  <1>10. Resetting' BY <1>1, <1>2, <1>3 DEF Served, Resetting
  <1>11. Respawning' BY <1>1, <1>2, <1>3 DEF Served, Respawning
  <1>12. Cached' BY <1>1, <1>2, <1>3, <1>4 DEF Served, Cached, Replaced
  <1>13. QED BY <1>5, <1>6, <1>7, <1>8, <1>9, <1>10, <1>11, <1>12 DEF Served

(* The removals at the end of an iteration leave the living. *)
LEMMA EndInvariant ==
  ASSUME TypeOK, Served, EndIteration
  PROVE  TypeOK' /\ Served'
  <1>1. /\ removing' = {} /\ next_entity' = next_entity /\ systems' = systems
        /\ models' = models /\ pose_datas' = pose_datas /\ model_sdf_objs' = model_sdf_objs
        /\ reset_queue' = reset_queue /\ post_reset_queue' = post_reset_queue
        /\ respawn_queue' = respawn_queue /\ post_respawn_queue' = post_respawn_queue
        /\ turn' = turn /\ left' = left - 1 /\ call' = call /\ pc = "end"
        /\ pc' = IF left = 1 THEN "return" ELSE "pre"
    BY DEF EndIteration, queues, cacheVars
  <1>2. DOMAIN ecm' = DOMAIN ecm \ removing /\ \A e \in DOMAIN ecm' : ecm'[e] = ecm[e]
    BY DEF EndIteration, Restrict
  <1>3. \A m : EntityByName(m)' = Living(m) /\ Living(m)' = Living(m)
    BY <1>1, <1>2 DEF Living, EntityByName
  <1>4. left \in 1 .. 3 BY <1>1 DEF TypeOK, Served, Called, STABILIZATION_STEPS
  <1>5. ~Fresh /\ ~Fresh' /\ (Halfway' <=> Halfway) /\ (OneHelper' <=> OneHelper)
    BY <1>1, <1>4 DEF Fresh, Halfway, OneHelper
  <1>6. TypeOK'
    <2>1. left' \in 0 .. STABILIZATION_STEPS BY <1>1, <1>4 DEF STABILIZATION_STEPS
    <2>2. \A e \in DOMAIN ecm' : e \in 1 .. next_entity' - 1 /\ ecm'[e] \in Entity
      BY <1>1, <1>2 DEF TypeOK, Entity
    <2>3. QED BY <1>1, <2>1, <2>2 DEF TypeOK, Entity
  <1>7. Called' BY <1>1, <1>4 DEF Served, Called
  <1>8. Queued' BY <1>1, <1>5 DEF Served, Queued, Asked
  <1>9. Population'
    <2>1. CASE call.op = "world" BY <1>1, <1>2, <2>1 DEF Served, Population
    <2>2. CASE call.op # "world"
      <3>1. ASSUME NEW m \in Models
            PROVE  IF Replaced(m)' THEN Living(m)' = {} ELSE \E e \in DOMAIN ecm' : Living(m)' = {e}
        <4>1. Replaced(m)' <=> Replaced(m) BY <1>1, <1>5 DEF Replaced
        <4>2. IF Replaced(m) THEN Living(m) = {} ELSE \E e \in DOMAIN ecm : Living(m) = {e}
          BY <2>2 DEF Served, Population
        <4>3. Living(m) \subseteq DOMAIN ecm' BY <1>2 DEF Living, EntityByName
        <4>4. QED BY <1>3, <4>1, <4>2, <4>3
      <3>2. QED BY <1>1, <2>2, <3>1 DEF Population
    <2>3. QED BY <2>1, <2>2
  <1>10. Commanded' BY <1>1, <1>2 DEF Served, Commanded
  <1>11. Resetting'
    <2>1. \A m : Living(m) \subseteq EntityByName(m) BY DEF Living
    <2>2. \A m, e : e \in Living(m) => e \in DOMAIN ecm' BY <1>2 DEF Living, EntityByName
    <2>3. QED BY <1>1, <1>2, <1>3, <1>5, <2>1, <2>2 DEF Served, Resetting
  <1>12. Respawning'
    <2>1. \A m, e : e \in Living(m) => e \in DOMAIN ecm' BY <1>2 DEF Living, EntityByName
    <2>2. QED BY <1>1, <1>2, <1>3, <1>5, <2>1 DEF Served, Respawning
  <1>13. Cached' BY <1>1, <1>2, <1>3, <1>4, <1>5 DEF Served, Cached, Replaced
  <1>14. QED BY <1>6, <1>7, <1>8, <1>9, <1>10, <1>11, <1>12, <1>13 DEF Served

(* PreUpdate with nothing queued. *)
LEMMA NothingInvariant ==
  ASSUME TypeOK, Served, NothingQueued
  PROVE  TypeOK' /\ Served'
  <1>1. /\ reset_queue = <<>> /\ post_reset_queue = <<>>
        /\ respawn_queue = <<>> /\ post_respawn_queue = <<>>
    <2>1. reset_queue \o post_reset_queue \o respawn_queue \o post_respawn_queue = <<>>
      BY DEF NothingQueued
    <2>2. /\ reset_queue \in Queue /\ post_reset_queue \in Queue
          /\ respawn_queue \in Queue /\ post_respawn_queue \in Queue
      BY DEF TypeOK
    <2>3. \A q \in Queue : q # <<>> => Len(q) > 0 BY DEF Queue
    <2>4. Len(reset_queue \o post_reset_queue \o respawn_queue \o post_respawn_queue) =
            Len(reset_queue) + Len(post_reset_queue) + Len(respawn_queue)
              + Len(post_respawn_queue)
      BY <2>2 DEF Queue
    <2>5. Len(<<>>) = 0 /\ \A q \in Queue : Len(q) \in Nat BY DEF Queue
    <2>6. QED BY <2>1, <2>2, <2>3, <2>4, <2>5
  <1>2. /\ ecm' = ecm /\ removing' = removing /\ next_entity' = next_entity
        /\ models' = models /\ pose_datas' = pose_datas
        /\ reset_queue' = reset_queue /\ post_reset_queue' = post_reset_queue
        /\ respawn_queue' = respawn_queue /\ post_respawn_queue' = post_respawn_queue
        /\ Pre /\ pc = "pre"
    BY DEF NothingQueued, Pre, ecmVars, queues, cacheVars
  <1>3. /\ ~Fresh' /\ (~Fresh => ~Halfway')
        /\ pc' \in {"pre", "physics"} /\ (pc' = "pre" => turn' > 1)
        /\ turn' \in 1 .. systems
        /\ systems' = systems /\ left' = left /\ call' = call
        /\ (OneHelper' <=> OneHelper) /\ model_sdf_objs' = model_sdf_objs
    BY <1>2, Passed
  <1>4. call.op \in {"reset", "respawn"} => ~Fresh /\ ~Halfway /\ ~Halfway'
    <2>1. <<Asked>> # <<>> OBVIOUS
    <2>2. QED BY <1>1, <1>3, <2>1 DEF Served, Queued
  <1>5. \A m : EntityByName(m)' = EntityByName(m) /\ Living(m)' = Living(m)
    BY <1>2 DEF EntityByName, Living
  <1>6. \A m : ~Replaced(m) /\ ~Replaced(m)' BY <1>3, <1>4 DEF Replaced
  <1>7. TypeOK' BY <1>2, <1>3 DEF TypeOK
  <1>8. Called' BY <1>2, StillCalled
  <1>9. Queued' BY <1>1, <1>2, <1>3, <1>4 DEF Queued
  <1>10. Population' BY <1>2, <1>3, <1>5, <1>6 DEF Served, Population
  <1>11. Commanded' BY <1>3 DEF Commanded
  <1>12. Resetting' BY <1>2, <1>3, <1>4, <1>5 DEF Served, Resetting
  <1>13. Respawning' BY <1>2, <1>3, <1>4, <1>5 DEF Served, Respawning
  <1>14. Cached' BY <1>2, <1>3, <1>5, <1>6 DEF Served, Cached
  <1>15. QED BY <1>7, <1>8, <1>9, <1>10, <1>11, <1>12, <1>13, <1>14 DEF Served

(* The first half of a reset. *)
LEMMA ResetNowInvariant ==
  ASSUME TypeOK, Served, ResetNow
  PROVE  TypeOK' /\ Served'
  <1>1. /\ call.op = "reset" /\ Fresh /\ ~Halfway /\ left = 3
        /\ reset_queue = <<Asked>> /\ post_reset_queue = <<>>
        /\ respawn_queue = <<>> /\ post_respawn_queue = <<>>
    BY Phases DEF ResetNow, Pre, Fresh
  <1>2. /\ removing' = removing /\ next_entity' = next_entity
        /\ models' = models /\ pose_datas' = pose_datas
        /\ respawn_queue' = <<>> /\ post_respawn_queue' = <<>> /\ reset_queue' = <<>>
        /\ Pre
    BY <1>1 DEF ResetNow, cacheVars
  <1>3. /\ ~Fresh' /\ Halfway'
        /\ pc' \in {"pre", "physics"} /\ (pc' = "pre" => turn' > 1)
        /\ turn' \in 1 .. systems /\ (OneHelper => pc' = "physics")
        /\ systems' = systems /\ left' = left /\ call' = call
        /\ (OneHelper' <=> OneHelper) /\ model_sdf_objs' = model_sdf_objs
    BY <1>1, <1>2, Passed
  <1>4. post_reset_queue' = <<Asked>>
    <2>1. post_reset_queue' = <<>> \o <<Asked>> BY <1>1 DEF ResetNow
    <2>2. QED BY <2>1
  <1>5. Asked' = Asked BY <1>3 DEF Asked
  <1>6. Asked.name = call.name /\ Asked.pose = call.pose BY DEF Asked, Request
  <1>7. PICK found \in Found(<<Asked>>) :
          /\ \A e \in Range(found) \ {None} : ecm[e].name \in Models
          /\ ecm' = [e \in DOMAIN ecm |->
               IF e \in Range(found)
               THEN Stopped(ecm[e], <<Asked>>[LastFor(found, e)].pose) ELSE ecm[e]]
    BY <1>1 DEF ResetNow
  <1>8. /\ Range(found) = {found[1]}
        /\ EntityByName(call.name) # {} => found[1] \in EntityByName(call.name)
        /\ <<Asked>>[LastFor(found, found[1])] = Asked
    BY <1>6, OneFound
  <1>9. /\ DOMAIN ecm' = DOMAIN ecm
        /\ \A e \in DOMAIN ecm : ecm'[e] = IF e = found[1] THEN Stopped(ecm[e], call.pose)
                                           ELSE ecm[e]
    BY <1>6, <1>7, <1>8
  <1>10. call.pose \in Poses BY <1>1 DEF Served, Called
  <1>11. \A e \in DOMAIN ecm :
           /\ ecm'[e] \in Entity /\ ecm'[e].name = ecm[e].name
           /\ e = found[1] => /\ ecm'[e].pose_cmd = call.pose /\ ecm'[e].velocity_cmd
                              /\ ~ecm'[e].wrench
    <2> SUFFICES ASSUME NEW e \in DOMAIN ecm
                 PROVE  /\ ecm'[e] \in Entity /\ ecm'[e].name = ecm[e].name
                        /\ e = found[1] => /\ ecm'[e].pose_cmd = call.pose
                                           /\ ecm'[e].velocity_cmd /\ ~ecm'[e].wrench
      OBVIOUS
    <2>1. ecm[e] \in Entity BY DEF TypeOK, Entity
    <2>2. QED BY <1>9, <1>10, <2>1 DEF Entity, Stopped
  <1>12. \A m : EntityByName(m)' = EntityByName(m) /\ Living(m)' = Living(m)
    BY <1>2, <1>9, <1>11, NamesKept DEF Living
  <1>13. \A m : ~Replaced(m) /\ ~Replaced(m)' BY <1>1, <1>3 DEF Replaced
  <1>14. TypeOK'
    <2>1. \A e \in DOMAIN ecm' : e \in 1 .. next_entity' - 1 /\ ecm'[e] \in Entity
      BY <1>2, <1>9, <1>11 DEF TypeOK
    <2>2. <<>> \in Queue /\ <<Asked>> \in Queue BY <1>1, QueueType DEF Served, Called
    <2>3. removing' \subseteq DOMAIN ecm' BY <1>2, <1>9 DEF TypeOK
    <2>4. QED BY <1>2, <1>3, <1>4, <2>1, <2>2, <2>3 DEF TypeOK, Entity
  <1>15. Called' BY <1>2, StillCalled
  <1>16. Queued' BY <1>1, <1>2, <1>3, <1>4, <1>5 DEF Queued
  <1>17. Population' BY <1>2, <1>3, <1>9, <1>12, <1>13 DEF Served, Population
  <1>18. Commanded' BY <1>3 DEF Commanded
  <1>19. Resetting'
    <2>1. SUFFICES ASSUME OneHelper, NEW e \in EntityByName(call.name)
                   PROVE  /\ call.name \in Models
                          /\ ToPose(ecm'[e]) = call.pose
                          /\ ~ecm'[e].wrench
                          /\ ecm'[e].velocity_cmd
      BY <1>1, <1>3, <1>12 DEF Resetting, ToPose
    <2>2. /\ found[1] \in EntityByName(call.name) /\ found[1] \in DOMAIN ecm
          /\ ecm[found[1]].name = call.name
      BY <1>8, <2>1 DEF EntityByName
    <2>3. found[1] # None BY <2>2, NameAssumption DEF TypeOK
    <2>4. call.name \in Models BY <1>7, <1>8, <2>2, <2>3
    <2>5. \E x \in DOMAIN ecm : EntityByName(call.name) = {x}
      BY <1>1, <1>13, <2>4 DEF Served, Population, Living
    <2>6. e = found[1] BY <2>1, <2>2, <2>5
    <2>7. QED BY <1>10, <1>11, <2>2, <2>4, <2>6, NameAssumption DEF ToPose
  <1>20. Respawning' BY <1>1, <1>3 DEF Respawning
  <1>21. Cached' BY <1>2, <1>3, <1>12, <1>13 DEF Served, Cached
  <1>22. QED BY <1>14, <1>15, <1>16, <1>17, <1>18, <1>19, <1>20, <1>21 DEF Served

(* The second half of a reset. *)
LEMMA PostResetInvariant ==
  ASSUME TypeOK, Served, PostReset
  PROVE  TypeOK' /\ Served'
  <1>1. /\ call.op = "reset" /\ Halfway /\ ~Fresh /\ pc = "pre"
        /\ reset_queue = <<>> /\ post_reset_queue = <<Asked>>
        /\ respawn_queue = <<>> /\ post_respawn_queue = <<>>
    BY Phases DEF PostReset, Pre
  <1>2. /\ removing' = removing /\ next_entity' = next_entity
        /\ models' = models /\ pose_datas' = pose_datas
        /\ respawn_queue' = <<>> /\ post_respawn_queue' = <<>> /\ reset_queue' = <<>>
        /\ post_reset_queue' = <<>> /\ Pre
    BY <1>1 DEF PostReset, cacheVars
  <1>3. /\ ~Fresh' /\ ~Halfway'
        /\ pc' \in {"pre", "physics"} /\ (pc' = "pre" => turn' > 1)
        /\ turn' \in 1 .. systems /\ (OneHelper => pc' = "physics")
        /\ systems' = systems /\ left' = left /\ call' = call
        /\ (OneHelper' <=> OneHelper) /\ model_sdf_objs' = model_sdf_objs
    BY <1>1, <1>2, Passed
  <1>4. Asked.name = call.name BY DEF Asked, Request
  <1>5. PICK found \in Found(<<Asked>>) :
          ecm' = [e \in DOMAIN ecm |->
            IF e \in Range(found) THEN [ecm[e] EXCEPT !.velocity_cmd = FALSE] ELSE ecm[e]]
    BY <1>1 DEF PostReset
  <1>6. /\ Range(found) = {found[1]}
        /\ EntityByName(call.name) # {} => found[1] \in EntityByName(call.name)
    BY <1>4, OneFound
  <1>7. /\ DOMAIN ecm' = DOMAIN ecm
        /\ \A e \in DOMAIN ecm :
             ecm'[e] = IF e = found[1] THEN [ecm[e] EXCEPT !.velocity_cmd = FALSE] ELSE ecm[e]
    BY <1>5, <1>6
  <1>8. \A e \in DOMAIN ecm :
          /\ ecm'[e] \in Entity /\ ecm'[e].name = ecm[e].name
          /\ ecm'[e].pose = ecm[e].pose /\ ecm'[e].pose_cmd = ecm[e].pose_cmd
          /\ ecm'[e].wrench = ecm[e].wrench /\ ecm'[e].moving = ecm[e].moving
          /\ e = found[1] => ~ecm'[e].velocity_cmd
    <2> SUFFICES ASSUME NEW e \in DOMAIN ecm
                 PROVE  /\ ecm'[e] \in Entity /\ ecm'[e].name = ecm[e].name
                        /\ ecm'[e].pose = ecm[e].pose /\ ecm'[e].pose_cmd = ecm[e].pose_cmd
                        /\ ecm'[e].wrench = ecm[e].wrench /\ ecm'[e].moving = ecm[e].moving
                        /\ e = found[1] => ~ecm'[e].velocity_cmd
      OBVIOUS
    <2>1. ecm[e] \in Entity BY DEF TypeOK, Entity
    <2>2. QED BY <1>7, <2>1 DEF Entity
  <1>9. \A m : EntityByName(m)' = EntityByName(m) /\ Living(m)' = Living(m)
    BY <1>2, <1>7, <1>8, NamesKept DEF Living
  <1>10. \A m : ~Replaced(m) /\ ~Replaced(m)' BY <1>1, <1>3 DEF Replaced
  <1>11. TypeOK'
    <2>1. \A e \in DOMAIN ecm' : e \in 1 .. next_entity' - 1 /\ ecm'[e] \in Entity
      BY <1>2, <1>7, <1>8 DEF TypeOK
    <2>2. <<>> \in Queue BY DEF Queue
    <2>3. removing' \subseteq DOMAIN ecm' BY <1>2, <1>7 DEF TypeOK
    <2>4. QED BY <1>2, <1>3, <2>1, <2>2, <2>3 DEF TypeOK, Entity
  <1>12. Called' BY <1>2, StillCalled
  <1>13. Queued' BY <1>1, <1>2, <1>3 DEF Queued
  <1>14. Population' BY <1>2, <1>3, <1>7, <1>9, <1>10 DEF Served, Population
  <1>15. Commanded' BY <1>3 DEF Commanded
  <1>16. Resetting'
    <2>1. SUFFICES ASSUME OneHelper, NEW e \in EntityByName(call.name)
                   PROVE  /\ call.name \in Models
                          /\ ToPose(ecm'[e]) = call.pose
                          /\ ~ecm'[e].wrench /\ ~ecm'[e].velocity_cmd /\ ~ecm'[e].moving
      BY <1>1, <1>3, <1>9 DEF Resetting, ToPose
    <2>2. e \in DOMAIN ecm BY DEF EntityByName
    <2>3. /\ call.name \in Models
          /\ ToPose(ecm[e]) = call.pose
          /\ ~ecm[e].wrench /\ ~ecm[e].moving
      BY <1>1, <2>1 DEF Served, Resetting
    <2>4. \E x \in DOMAIN ecm : EntityByName(call.name) = {x}
      BY <1>1, <1>10, <2>3 DEF Served, Population, Living
    <2>5. e = found[1] BY <1>6, <2>1, <2>4
    <2>6. QED BY <1>8, <2>2, <2>3, <2>5 DEF ToPose
  <1>17. Respawning' BY <1>1, <1>3 DEF Respawning
  <1>18. Cached' BY <1>2, <1>3, <1>9, <1>10 DEF Served, Cached
  <1>19. QED BY <1>11, <1>12, <1>13, <1>14, <1>15, <1>16, <1>17, <1>18 DEF Served

(* The first half of a respawn. *)
LEMMA RespawnNowInvariant ==
  ASSUME TypeOK, Served, RespawnNow
  PROVE  TypeOK' /\ Served'
  <1>1. /\ call.op = "respawn" /\ Fresh /\ ~Halfway /\ left = 3 /\ pc = "pre"
        /\ respawn_queue = <<Asked>> /\ post_respawn_queue = <<>>
        /\ reset_queue = <<>> /\ post_reset_queue = <<>>
    BY Phases DEF RespawnNow, Pre, Fresh
  <1>2. /\ ecm' = ecm /\ next_entity' = next_entity
        /\ models' = models /\ pose_datas' = pose_datas
        /\ reset_queue' = <<>> /\ post_reset_queue' = <<>> /\ respawn_queue' = <<>>
        /\ Pre
    BY <1>1 DEF RespawnNow, cacheVars
  <1>3. /\ ~Fresh' /\ Halfway'
        /\ pc' \in {"pre", "physics"} /\ (pc' = "pre" => turn' > 1)
        /\ turn' \in 1 .. systems
        /\ systems' = systems /\ left' = left /\ call' = call
        /\ (OneHelper' <=> OneHelper) /\ model_sdf_objs' = model_sdf_objs
    BY <1>1, <1>2, Passed
  <1>4. post_respawn_queue' = <<Asked>>
    <2>1. post_respawn_queue' = <<>> \o <<Asked>> BY <1>1 DEF RespawnNow
    <2>2. QED BY <2>1
  <1>5. Asked' = Asked BY <1>3 DEF Asked
  <1>6. Asked.name = call.name /\ Asked.pose = call.pose BY DEF Asked, Request
  <1>7. removing = {} BY <1>1 DEF Served, Population
  <1>8. PICK found \in Found(<<Asked>>) : removing' = Range(found) \ {None}
    BY <1>1, <1>7 DEF RespawnNow
  <1>9. /\ removing' = {found[1]} \ {None}
        /\ EntityByName(call.name) = {} => found[1] = None
        /\ EntityByName(call.name) # {} => found[1] \in EntityByName(call.name)
    BY <1>6, <1>8, OneFound
  <1>10. None \notin DOMAIN ecm BY NameAssumption DEF TypeOK
  <1>11. \A m : EntityByName(m)' = EntityByName(m) BY <1>2 DEF EntityByName
  <1>12. \A m : m # call.name => Living(m)' = Living(m)
    BY <1>7, <1>9, <1>10, <1>11 DEF Living, EntityByName
  <1>13. \A m : ~Replaced(m) /\ (Replaced(m)' <=> m = call.name)
    BY <1>1, <1>3 DEF Replaced
  <1>14. TypeOK'
    <2>1. <<>> \in Queue /\ <<Asked>> \in Queue BY <1>1, QueueType DEF Served, Called
    <2>2. removing' \subseteq DOMAIN ecm' BY <1>2, <1>9 DEF EntityByName
    <2>3. QED BY <1>2, <1>3, <1>4, <2>1, <2>2 DEF TypeOK
  <1>15. Called' BY <1>2, StillCalled
  <1>16. Queued' BY <1>1, <1>2, <1>3, <1>4, <1>5 DEF Queued
  <1>17. Population'
    <2>1. ASSUME NEW m \in Models
          PROVE  IF Replaced(m)' THEN Living(m)' = {} ELSE \E e \in DOMAIN ecm' : Living(m)' = {e}
      <3>1. \E e \in DOMAIN ecm : Living(m) = {e} BY <1>1, <1>13 DEF Served, Population
      <3>2. CASE m = call.name
        <4>1. EntityByName(m) = {found[1]} BY <1>7, <1>9, <3>1, <3>2 DEF Living
        <4>2. found[1] # None BY <1>10, <4>1 DEF EntityByName
        <4>3. Living(m)' = {} BY <1>9, <1>11, <4>1, <4>2 DEF Living
        <4>4. QED BY <1>13, <3>2, <4>3
      <3>3. CASE m # call.name BY <1>2, <1>12, <1>13, <3>1, <3>3
      <3>4. QED BY <3>2, <3>3
    <2>2. QED BY <1>1, <1>3, <2>1 DEF Population
  <1>18. Commanded' BY <1>3 DEF Commanded
  <1>19. Resetting' /\ Respawning' BY <1>1, <1>3 DEF Resetting, Respawning
  <1>20. Cached'
    <2>1. SUFFICES ASSUME OneHelper, NEW m \in Models
                   PROVE  /\ m # call.name => models[m] \in Living(m)'
                          /\ models[m] \in EntityByName(m)
      BY <1>2, <1>3, <1>11, <1>13 DEF Cached
    <2>2. models[m] \in Living(m) /\ models[m] \in EntityByName(m)
      BY <1>1, <1>13, <2>1 DEF Served, Cached
    <2>3. QED BY <1>12, <2>2
  <1>21. QED BY <1>14, <1>15, <1>16, <1>17, <1>18, <1>19, <1>20 DEF Served

(* What a queue of one respawn creates. *)
LEMMA OneCreated ==
  ASSUME TypeOK, NEW r, post_respawn_queue = <<r>>
  PROVE  /\ r.name \in Models =>
              /\ Known = {1} /\ Cardinality(Known) = 1
              /\ DOMAIN Added = DOMAIN ecm \cup {next_entity}
              /\ Added[next_entity] = Body(r.name, r.pose, model_sdf_objs[r.name])
         /\ r.name \notin Models =>
              Known = {} /\ Cardinality(Known) = 0 /\ DOMAIN Added = DOMAIN ecm
         /\ \A e \in DOMAIN ecm : Added[e] = ecm[e]
         /\ next_entity \notin DOMAIN ecm
  <1>1. DOMAIN <<r>> = {1} /\ <<r>>[1] = r OBVIOUS
  <1>2. Known = IF r.name \in Models THEN {1} ELSE {} BY <1>1 DEF Known
  <1>3. Cardinality({}) = 0 /\ Cardinality({1}) = 1 BY FS_EmptySet, FS_Singleton
  <1>4. next_entity \notin DOMAIN ecm BY DEF TypeOK
  <1>5. \A e \in DOMAIN ecm : Added[e] = ecm[e] BY DEF Added
  <1>6. CASE r.name \in Models
    <2>1. {j \in Known : j < 1} = {} BY <1>2, <1>6
    <2>2. NewEntity(1) = next_entity
      <3>1. Cardinality({j \in Known : j < 1}) = 0 BY <1>3, <2>1
      <3>2. next_entity \in Nat BY DEF TypeOK
      <3>3. QED BY <3>1, <3>2 DEF NewEntity
    <2>3. DOMAIN Created = {next_entity} BY <1>2, <1>6, <2>2 DEF Created
    <2>4. (CHOOSE i \in Known : NewEntity(i) = next_entity) = 1 BY <1>2, <1>6, <2>2
    <2>5. Created[next_entity] = Body(r.name, r.pose, model_sdf_objs[r.name])
      BY <1>1, <1>2, <1>6, <2>2, <2>4 DEF Created
    <2>6. QED BY <1>2, <1>3, <1>4, <1>5, <1>6, <2>3, <2>5 DEF Added
  <1>7. CASE r.name \notin Models
    <2>1. DOMAIN Created = {} BY <1>2, <1>7 DEF Created
    <2>2. QED BY <1>2, <1>3, <1>4, <1>5, <1>7, <2>1 DEF Added
  <1>8. QED BY <1>6, <1>7

(* The second half of a respawn. *)
LEMMA PostRespawnInvariant ==
  ASSUME TypeOK, Served, PostRespawn
  PROVE  TypeOK' /\ Served'
  <1>1. /\ call.op = "respawn" /\ Halfway /\ ~Fresh /\ pc = "pre"
        /\ reset_queue = <<>> /\ post_reset_queue = <<>>
        /\ respawn_queue = <<>> /\ post_respawn_queue = <<Asked>>
    BY Phases DEF PostRespawn, Pre
  <1>2. /\ removing' = removing /\ next_entity' = next_entity + Cardinality(Known)
        /\ reset_queue' = <<>> /\ post_reset_queue' = <<>>
        /\ respawn_queue' = <<>> /\ post_respawn_queue' = <<>> /\ Pre
    BY <1>1 DEF PostRespawn
  <1>3. /\ ~Fresh' /\ ~Halfway'
        /\ pc' \in {"pre", "physics"} /\ (pc' = "pre" => turn' > 1)
        /\ turn' \in 1 .. systems
        /\ systems' = systems /\ left' = left /\ call' = call
        /\ (OneHelper' <=> OneHelper) /\ model_sdf_objs' = model_sdf_objs
    BY <1>1, <1>2, Passed
  <1>4. /\ Asked.name = call.name /\ Asked.pose = call.pose
        /\ call.pose \in Poses
    BY <1>1 DEF Asked, Request, Served, Called
  <1>5. /\ call.name \in Models =>
              /\ Known = {1} /\ Cardinality(Known) = 1
              /\ DOMAIN Added = DOMAIN ecm \cup {next_entity}
              /\ Added[next_entity] = Body(call.name, call.pose, model_sdf_objs[call.name])
        /\ call.name \notin Models =>
              Known = {} /\ Cardinality(Known) = 0 /\ DOMAIN Added = DOMAIN ecm
        /\ \A e \in DOMAIN ecm : Added[e] = ecm[e]
        /\ next_entity \notin DOMAIN ecm
    BY <1>1, <1>4, OneCreated
  <1>6. \A e \in DOMAIN Added : Added[e] \in Entity
    <2>1. \A e \in DOMAIN ecm : ecm[e] \in Entity BY DEF TypeOK, Entity
    <2>2. CASE call.name \in Models
      <3>1. /\ call.name \in WorldNames /\ call.pose \in Place
            /\ model_sdf_objs[call.name] \in Mass
        BY <1>4, <2>2 DEF WorldNames, Place, TypeOK
      <3>2. Added[next_entity] \in Entity BY <1>5, <2>2, <3>1, BodyType
      <3>3. QED BY <1>5, <2>1, <2>2, <3>2
    <2>3. CASE call.name \notin Models BY <1>5, <2>1, <2>3
    <2>4. QED BY <2>2, <2>3
  <1>7. PICK index \in Handles(Added) :
          LET told == [i \in Known |-> index[post_respawn_queue[i].name]]
          IN  /\ ecm' = [e \in DOMAIN Added |->
                   IF e \in Range(told)
                   THEN [Added[e] EXCEPT !.pose_cmd = post_respawn_queue[LastFor(told, e)].pose]
                   ELSE Added[e]]
              /\ InitMethod(index)
    BY DEF PostRespawn
  <1>8. /\ DOMAIN ecm' = DOMAIN Added
        /\ \A e \in DOMAIN Added :
             ecm'[e] \in {Added[e], [Added[e] EXCEPT !.pose_cmd = call.pose]}
    <2> DEFINE told == [i \in Known |-> index[post_respawn_queue[i].name]]
    <2>1. ecm' = [e \in DOMAIN Added |->
                    IF e \in Range(told)
                    THEN [Added[e] EXCEPT !.pose_cmd = post_respawn_queue[LastFor(told, e)].pose]
                    ELSE Added[e]]
      BY <1>7
    <2>2. \A e \in Range(told) : post_respawn_queue[LastFor(told, e)].pose = call.pose
      <3>1. SUFFICES ASSUME NEW e \in Range(told)
                     PROVE  LastFor(told, e) = 1
        BY <1>1, <1>4
      <3>2. DOMAIN told = Known OBVIOUS
      <3>3. Known = {1}
        <4>1. Known # {} BY <3>1, <3>2 DEF Range
        <4>2. QED BY <1>5, <4>1
      <3> HIDE DEF told
      <3>4. told[1] = e BY <3>1, <3>2, <3>3 DEF Range
      <3>5. QED BY <3>2, <3>3, <3>4 DEF LastFor
    <2> HIDE DEF told
    <2>3. QED BY <2>1, <2>2
  <1>9. \A e \in DOMAIN Added :
          /\ ecm'[e] \in Entity /\ ecm'[e].name = Added[e].name
          /\ ecm'[e].pose = Added[e].pose /\ ecm'[e].mass = Added[e].mass
          /\ ecm'[e].moving = Added[e].moving /\ ecm'[e].wrench = Added[e].wrench
          /\ ecm'[e].pose_cmd \in {Added[e].pose_cmd, call.pose}
    <2> SUFFICES ASSUME NEW e \in DOMAIN Added
                 PROVE  /\ ecm'[e] \in Entity /\ ecm'[e].name = Added[e].name
                        /\ ecm'[e].pose = Added[e].pose /\ ecm'[e].mass = Added[e].mass
                        /\ ecm'[e].moving = Added[e].moving
                        /\ ecm'[e].wrench = Added[e].wrench
                        /\ ecm'[e].pose_cmd \in {Added[e].pose_cmd, call.pose}
      OBVIOUS
    <2> DEFINE b == Added[e]
    <2>1. b \in Entity /\ call.pose \in Poses BY <1>4, <1>6
    <2>2. ecm'[e] = b \/ ecm'[e] = [b EXCEPT !.pose_cmd = call.pose] BY <1>8
    <2> HIDE DEF b
    <2>3. /\ ecm'[e] \in Entity /\ ecm'[e].name = b.name
          /\ ecm'[e].pose = b.pose /\ ecm'[e].mass = b.mass
          /\ ecm'[e].moving = b.moving /\ ecm'[e].wrench = b.wrench
          /\ ecm'[e].pose_cmd \in {b.pose_cmd, call.pose}
      BY <2>1, <2>2 DEF Entity
    <2>4. QED BY <2>3 DEF b
  <1>10. /\ models' = index /\ pose_datas' = [m \in Models |-> Blank]
         /\ index \in [Models -> DOMAIN Added] /\ \A m \in Models : Added[index[m]].name = m
    BY <1>7 DEF InitMethod, Handles
  <1>11. /\ call.name \in Models => EntityByName(call.name)' =
                                      EntityByName(call.name) \cup {next_entity}
         /\ \A m \in Models : m # call.name => EntityByName(m)' = EntityByName(m)
    <2>1. \A m : EntityByName(m)' = {e \in DOMAIN Added : Added[e].name = m}
      BY <1>8, <1>9 DEF EntityByName
    <2>2. \A m : EntityByName(m) = {e \in DOMAIN ecm : Added[e].name = m}
      BY <1>5 DEF EntityByName
    <2>3. CASE call.name \in Models
      <3>1. Added[next_entity].name = call.name BY <1>5, <2>3 DEF Body
      <3>2. DOMAIN Added = DOMAIN ecm \cup {next_entity} BY <1>5, <2>3
      <3>3. QED BY <1>3, <2>1, <2>2, <2>3, <3>1, <3>2
    <2>4. CASE call.name \notin Models
      <3>1. DOMAIN Added = DOMAIN ecm BY <1>5, <2>4
      <3>2. QED BY <2>1, <2>2, <2>4, <3>1
    <2>5. QED BY <2>3, <2>4
  <1>12. /\ call.name \in Models => Living(call.name)' = {next_entity}
         /\ \A m \in Models : m # call.name => Living(m)' = Living(m)
    <2>1. next_entity \notin removing BY <1>5 DEF TypeOK
    <2>2. call.name \in Models => Living(call.name) = {}
      BY <1>1 DEF Served, Population, Replaced
    <2>3. QED BY <1>2, <1>11, <2>1, <2>2 DEF Living
  <1>13. \A m : (Replaced(m) <=> m = call.name) /\ ~Replaced(m)'
    BY <1>1, <1>3 DEF Replaced
  <1>14. next_entity' \in Nat \ {0} /\ next_entity' >= next_entity
         /\ \A e \in DOMAIN Added : e \in 1 .. next_entity' - 1
    <2>1. next_entity \in Nat \ {0} /\ \A e \in DOMAIN ecm : e \in 1 .. next_entity - 1
      BY DEF TypeOK
    <2>2. CASE call.name \in Models
      <3>1. next_entity' = next_entity + 1 BY <1>2, <1>5, <2>2
      <3>2. QED BY <1>5, <2>1, <2>2, <3>1
    <2>3. CASE call.name \notin Models
      <3>1. next_entity' = next_entity BY <1>2, <1>5, <2>1, <2>3
      <3>2. QED BY <1>5, <2>1, <2>3, <3>1
    <2>4. QED BY <2>2, <2>3
  <1>15. TypeOK'
    <2>1. \A e \in DOMAIN ecm' : e \in 1 .. next_entity' - 1 /\ ecm'[e] \in Entity
      BY <1>8, <1>9, <1>14
    <2>2. <<>> \in Queue BY DEF Queue
    <2>3. removing' \subseteq DOMAIN ecm'
      <3>1. DOMAIN ecm \subseteq DOMAIN Added BY <1>5
      <3>2. QED BY <1>2, <1>8, <3>1 DEF TypeOK
    <2>4. models' \in [Models -> 1 .. next_entity' - 1] BY <1>10, <1>14
    <2>5. QED BY <1>2, <1>3, <1>10, <1>14, <2>1, <2>2, <2>3, <2>4 DEF TypeOK, Entity
  <1>16. Called' BY <1>2, StillCalled
  <1>17. Queued' BY <1>1, <1>2, <1>3 DEF Queued
  <1>18. Population'
    <2>1. ASSUME NEW m \in Models PROVE \E e \in DOMAIN ecm' : Living(m)' = {e}
      <3>1. CASE m = call.name
        <4>1. next_entity \in DOMAIN ecm' BY <1>5, <1>8, <3>1
        <4>2. QED BY <1>3, <1>12, <3>1, <4>1
      <3>2. CASE m # call.name
        <4>1. \E e \in DOMAIN ecm : Living(m) = {e}
          BY <1>1, <1>13, <3>2 DEF Served, Population
        <4>2. QED BY <1>5, <1>8, <1>12, <3>2, <4>1
      <3>3. QED BY <3>1, <3>2
    <2>2. removing' # {} => left = 3 BY <1>1, <1>2 DEF Served, Population
    <2>3. QED BY <1>1, <1>3, <1>13, <2>1, <2>2 DEF Population
  <1>19. Commanded' BY <1>3 DEF Commanded
  <1>20. Resetting' BY <1>1, <1>3 DEF Resetting
  <1>21. Respawning'
    <2>1. SUFFICES ASSUME call.name \in Models
                   PROVE  LET b == ecm'[next_entity]
                          IN  /\ ToPose(b) = call.pose
                              /\ b.pose = call.pose
                              /\ b.mass = model_sdf_objs[call.name]
                              /\ ~b.moving /\ ~b.wrench
      BY <1>1, <1>3, <1>12 DEF Respawning, ToPose
    <2>2. next_entity \in DOMAIN Added BY <1>5, <2>1
    <2>3. /\ Added[next_entity].pose = call.pose
          /\ Added[next_entity].mass = model_sdf_objs[call.name]
          /\ ~Added[next_entity].moving /\ ~Added[next_entity].wrench
          /\ Added[next_entity].pose_cmd = None
      BY <1>5, <2>1 DEF Body
    <2>4. QED BY <1>9, <2>2, <2>3 DEF ToPose
  <1>22. Cached'
    <2>1. SUFFICES ASSUME OneHelper, NEW m \in Models
                   PROVE  /\ models'[m] \in Living(m)'
                          /\ left # 3
      BY <1>3 DEF Cached
    <2>2. left # 3 BY <1>1, <2>1 DEF Halfway
    <2>3. removing' = {} BY <1>1, <1>2, <2>2 DEF Served, Population
    <2>4. models'[m] \in EntityByName(m)' BY <1>8, <1>9, <1>10 DEF EntityByName
    <2>5. QED BY <2>2, <2>3, <2>4 DEF Living
  <1>23. QED BY <1>15, <1>16, <1>17, <1>18, <1>19, <1>20, <1>21, <1>22 DEF Served

-----------------------------------------------------------------------------
(* Theorems *)

(* Resetting a model that the server does not manage ends the process. *)
LEMMA CrashType ==
  ASSUME TypeOK, ResetUnmanaged
  PROVE  TypeOK' /\ pc' = "crashed"
  BY DEF TypeOK, ResetUnmanaged, ecmVars, queues, cacheVars

(* Every step keeps the invariant. *)
LEMMA NextInvariant == IInv /\ [Next]_vars => IInv'
  <1> SUFFICES ASSUME IInv, [Next]_vars PROVE IInv'
    OBVIOUS
  <1>1. CASE UNCHANGED vars
    <2>1. /\ ecm' = ecm /\ removing' = removing /\ next_entity' = next_entity
          /\ systems' = systems /\ models' = models /\ pose_datas' = pose_datas
          /\ model_sdf_objs' = model_sdf_objs
          /\ reset_queue' = reset_queue /\ post_reset_queue' = post_reset_queue
          /\ respawn_queue' = respawn_queue /\ post_respawn_queue' = post_respawn_queue
          /\ turn' = turn /\ left' = left /\ call' = call /\ pc' = pc
      BY <1>1 DEF vars, ecmVars, queues, cacheVars
    <2>2. TypeOK' BY <2>1 DEF IInv, TypeOK
    <2>3. /\ Fresh' = Fresh /\ Halfway' = Halfway /\ Asked' = Asked
          /\ OneHelper' = OneHelper
          /\ \A m : EntityByName(m)' = EntityByName(m)
      BY <2>1 DEF Fresh, Halfway, Asked, OneHelper, EntityByName
    <2>4. Served => Served'
      <3>1. Called => Called' BY <2>1 DEF Called
      <3>2. Queued => Queued' BY <2>1, <2>3 DEF Queued
      <3>3. Population => Population' BY <2>1, <2>3 DEF Population, Replaced, Living
      <3>4. Commanded => Commanded' BY <2>1 DEF Commanded
      <3>5. Resetting => Resetting' BY <2>1, <2>3 DEF Resetting
      <3>6. Respawning => Respawning' BY <2>1, <2>3 DEF Respawning, Living
      <3>7. Cached => Cached' BY <2>1, <2>3 DEF Cached, Replaced, Living
      <3>8. QED BY <3>1, <3>2, <3>3, <3>4, <3>5, <3>6, <3>7 DEF Served
    <2>5. QED BY <2>1, <2>2, <2>4 DEF IInv
  <1>2. CASE Next
    <2>1. TypeOK BY DEF IInv
    <2>2. pc # "crashed" => Served BY DEF IInv
    <2>3. SUFFICES TypeOK' /\ (Served' \/ pc' = "crashed") BY DEF IInv
    <2>4. CASE run_N(1) BY <2>1, <2>2, <2>4, RunInvariant DEF run_N, Serve
    <2>5. ASSUME NEW name \in Names, NEW pose \in Poses, reset_pos(name, pose)
          PROVE  TypeOK' /\ Served'
      BY <2>1, <2>2, <2>5, ResetInvariant DEF reset_pos, Serve
    <2>6. ASSUME NEW name \in Names, NEW pose \in Poses, respawn_model(name, pose)
          PROVE  TypeOK' /\ Served'
      BY <2>1, <2>2, <2>6, RespawnInvariant DEF respawn_model, Serve
    <2>7. ASSUME NEW m \in Models, set_wrench(m) PROVE TypeOK' /\ Served'
      BY <2>1, <2>2, <2>7, WrenchInvariant DEF set_wrench, Serve
    <2>8. ASSUME NEW m \in Models, NEW mass \in Masses, set_mass(m, mass)
          PROVE  TypeOK' /\ Served'
      BY <2>1, <2>2, <2>8, MassInvariant DEF set_mass, Serve
    <2>9. ASSUME NEW model_poses \in [Models -> Poses], reset_world(model_poses)
          PROVE  TypeOK' /\ Served'
      BY <2>1, <2>2, <2>9, WorldInvariant DEF reset_world, Serve
    <2>10. CASE CreateWorld BY <2>1, <2>2, <2>10, CreateInvariant DEF CreateWorld
    <2>11. CASE AddSystem BY <2>1, <2>2, <2>11, AddInvariant DEF AddSystem
    <2>12. CASE Return BY <2>1, <2>2, <2>12, ReturnInvariant DEF Return
    <2>13. CASE PreUpdate
      <3>1. PreUpdate => Pre
        BY DEF PreUpdate, ResetNow, PostReset, RespawnNow, PostRespawn, NothingQueued
      <3>2. Served BY <2>2, <2>13, <3>1 DEF Pre
      <3>3. CASE ResetNow BY <2>1, <3>2, <3>3, ResetNowInvariant
      <3>4. CASE PostReset BY <2>1, <3>2, <3>4, PostResetInvariant
      <3>5. CASE RespawnNow BY <2>1, <3>2, <3>5, RespawnNowInvariant
      <3>6. CASE PostRespawn BY <2>1, <3>2, <3>6, PostRespawnInvariant
      <3>7. CASE NothingQueued BY <2>1, <3>2, <3>7, NothingInvariant
      <3>8. QED BY <2>13, <3>3, <3>4, <3>5, <3>6, <3>7 DEF PreUpdate
    <2>14. CASE ResetUnmanaged BY <2>1, <2>14, CrashType
    <2>15. CASE Physics BY <2>1, <2>2, <2>15, PhysicsInvariant DEF Physics
    <2>16. CASE PostUpdate BY <2>1, <2>2, <2>16, PostUpdateInvariant DEF PostUpdate
    <2>17. CASE EndIteration BY <2>1, <2>2, <2>17, EndInvariant DEF EndIteration
    <2>18. QED
      BY <1>2, <2>4, <2>5, <2>6, <2>7, <2>8, <2>9, <2>10, <2>11, <2>12, <2>13, <2>14, <2>15,
         <2>16, <2>17 DEF Next
  <1>3. QED BY <1>1, <1>2

(* The requests, the entities, the commands and the caches are at every    *)
(* phase of an iteration where the invariant says.                         *)
THEOREM ServerInvariant == Spec => []IInv
  BY InitInvariant, NextInvariant, PTL DEF Spec

(* Every variable keeps its type: the type invariant. *)
THEOREM TypeCorrect == Spec => []TypeOK
  <1>1. IInv => TypeOK BY DEF IInv
  <1>2. QED BY <1>1, ServerInvariant, PTL

(* Without reset_world a handle is always that of the living entity of its *)
(* model when states are read or commands sent.                            *)
THEOREM HandlesFollow == Spec => []HandlesLive
  <1>1. IInv => HandlesLive
    <2>1. SUFFICES ASSUME IInv, OneHelper, pc \in {"idle", "post"},
                          call.op \notin {"world", "created"}, NEW m \in Models
                   PROVE  models[m] \in EntityByName(m)
      BY DEF HandlesLive, EntityByName
    <2>2. /\ ~Replaced(m) => models[m] \in Living(m)
          /\ left = 3 => models[m] \in EntityByName(m)
      BY <2>1 DEF IInv, Served, Cached
    <2>3. CASE Replaced(m)
      <3>1. left = 3 BY <2>1, <2>3 DEF Replaced, Halfway
      <3>2. QED BY <2>2, <3>1
    <2>4. CASE ~Replaced(m) BY <2>2, <2>4 DEF Living
    <2>5. QED BY <2>3, <2>4
  <1>2. QED BY <1>1, ServerInvariant, PTL

(* However many respawns and world resets, between calls each model the    *)
(* server manages is in the world once.                                    *)
THEOREM ModelsOnce == Spec => []OneEntityPerModel
  <1>1. IInv => OneEntityPerModel
    <2>1. SUFFICES ASSUME IInv, pc = "idle", NEW m \in Models
                   PROVE  Cardinality(EntityByName(m)) = 1
      BY DEF OneEntityPerModel
    <2>2. call.op # "world" BY <2>1 DEF IInv, Served, Called
    <2>3. PICK e : EntityByName(m) = {e} BY <2>1, <2>2, AtRest DEF IInv
    <2>4. QED BY <2>3, FS_Singleton
  <1>2. QED BY <1>1, ServerInvariant, PTL

(* reset_pos returns with the model at rest where it was asked to be.      *)
THEOREM ResetsComplete == Spec => []ResetComplete
  <1>1. IInv => ResetComplete
    <2>1. SUFFICES ASSUME IInv, pc = "idle", call.op = "reset", OneHelper PROVE ResetDone
      BY DEF ResetComplete
    <2>2. /\ left = 0 /\ ~Fresh /\ ~Halfway
          /\ reset_queue = <<>> /\ post_reset_queue = <<>>
      BY <2>1, AtRest DEF IInv
    <2>3. ASSUME NEW e \in EntityByName(call.name)
          PROVE  /\ ecm[e].pose = call.pose
                 /\ ~ecm[e].moving /\ ~ecm[e].wrench
                 /\ ~ecm[e].velocity_cmd /\ ecm[e].pose_cmd = None
      <3>1. /\ ToPose(ecm[e]) = call.pose
            /\ ~ecm[e].moving /\ ~ecm[e].wrench /\ ~ecm[e].velocity_cmd
        BY <2>1, <2>2 DEF IInv, Served, Resetting
      <3>2. ecm[e].pose_cmd = None BY <2>1 DEF IInv, Served, Commanded, EntityByName
      <3>3. QED BY <3>1, <3>2 DEF ToPose
    <2>4. QED BY <2>2, <2>3 DEF ResetDone
  <1>2. QED BY <1>1, ServerInvariant, PTL

(* respawn_model returns with the model's new entity at the pose asked for *)
(* and of the mass set, also when the helper is registered several times.  *)
THEOREM RespawnsComplete == Spec => []RespawnComplete
  <1>1. IInv => RespawnComplete
    <2>1. SUFFICES ASSUME IInv, pc = "idle", call.op = "respawn"
                   PROVE  /\ respawn_queue = <<>> /\ post_respawn_queue = <<>>
                          /\ call.name \in Models => \A e \in EntityByName(call.name) :
                               /\ ecm[e].pose = call.pose
                               /\ ecm[e].mass = model_sdf_objs[call.name]
                               /\ ~ecm[e].moving /\ ecm[e].pose_cmd = None
      BY DEF RespawnComplete
    <2>2. /\ ~Fresh /\ ~Halfway /\ respawn_queue = <<>> /\ post_respawn_queue = <<>>
          /\ call.name \in Models => Living(call.name) = EntityByName(call.name)
      BY <2>1, AtRest DEF IInv
    <2>3. ASSUME call.name \in Models, NEW e \in EntityByName(call.name)
          PROVE  /\ ecm[e].pose = call.pose
                 /\ ecm[e].mass = model_sdf_objs[call.name]
                 /\ ~ecm[e].moving /\ ecm[e].pose_cmd = None
      <3>1. ecm[e].pose_cmd = None
        BY <2>1 DEF IInv, Served, Commanded, EntityByName
      <3>2. QED BY <2>1, <2>2, <2>3, <3>1 DEF IInv, Served, Respawning
    <2>4. QED BY <2>2, <2>3
  <1>2. QED BY <1>1, ServerInvariant, PTL

(* Once an iteration of a call has read the states, until the next call,   *)
(* that of each handle to a living entity is cached.                       *)
ReadAfterwards ==
  \/ pc = "end"
  \/ pc \in {"return", "idle"} /\ call.op \in {"run", "reset", "respawn"}

ReadInv == ReadAfterwards => LiveHandlesAreCached

LEMMA ReadStep == ReadInv /\ [Next]_vars => ReadInv'
  <1>1. SUFFICES ASSUME ReadInv, [Next]_vars, ReadAfterwards'
                 PROVE  LiveHandlesAreCached'
    BY DEF ReadInv
  <1>2. CASE PostUpdate
    <2>1. SUFFICES ASSUME NEW m \in Models, models[m] \in DOMAIN ecm
                   PROVE  pose_datas'[m] = ecm[models[m]].pose
      BY <1>2 DEF LiveHandlesAreCached, PostUpdate, ecmVars
    <2>2. QED BY <1>2, <2>1 DEF PostUpdate
  <1>3. CASE EndIteration
    <2>1. LiveHandlesAreCached BY <1>1, <1>3 DEF ReadInv, ReadAfterwards, EndIteration
    <2>2. SUFFICES ASSUME NEW m \in Models, models[m] \in DOMAIN ecm'
                   PROVE  pose_datas[m] = ecm'[models[m]].pose
      BY <1>3 DEF LiveHandlesAreCached, EndIteration, cacheVars
    <2>3. models[m] \in DOMAIN ecm /\ ecm'[models[m]] = ecm[models[m]]
      BY <1>3, <2>2 DEF EndIteration, Restrict
    <2>4. QED BY <2>1, <2>3 DEF LiveHandlesAreCached
  <1>4. CASE Return
    <2>1. ReadAfterwards /\ UNCHANGED <<ecm, models, pose_datas>>
      BY <1>1, <1>4 DEF ReadAfterwards, Return, ecmVars, cacheVars
    <2>2. QED BY <1>1, <2>1 DEF ReadInv, LiveHandlesAreCached
  <1>5. CASE UNCHANGED vars
    <2>1. ReadAfterwards /\ UNCHANGED <<ecm, models, pose_datas>>
      BY <1>1, <1>5 DEF ReadAfterwards, vars, ecmVars, cacheVars
    <2>2. QED BY <1>1, <2>1 DEF ReadInv, LiveHandlesAreCached
  <1>6. ASSUME NEW name \in Names, NEW pose \in Poses,
               reset_pos(name, pose) \/ respawn_model(name, pose)
        PROVE FALSE
    BY <1>1, <1>6 DEF ReadAfterwards, reset_pos, respawn_model, Run
  <1>7. ASSUME NEW m \in Models, set_wrench(m) \/ \E mass \in Masses : set_mass(m, mass)
        PROVE FALSE
    BY <1>1, <1>7 DEF ReadAfterwards, set_wrench, set_mass, Serve
  <1>8. ASSUME run_N(1) \/ CreateWorld
        PROVE FALSE
    BY <1>1, <1>8 DEF ReadAfterwards, run_N, CreateWorld, Run
  <1>9. ASSUME NEW model_poses \in [Models -> Poses], reset_world(model_poses)
         PROVE FALSE
    BY <1>1, <1>9 DEF ReadAfterwards, reset_world, Run
  <1>10. ASSUME AddSystem
         PROVE FALSE
    BY <1>1, <1>10 DEF ReadAfterwards, AddSystem
  <1>11. ASSUME PreUpdate \/ ResetUnmanaged \/ Physics
         PROVE FALSE
    BY <1>1, <1>11 DEF ReadAfterwards, PreUpdate, ResetNow, PostReset, RespawnNow,
       PostRespawn, NothingQueued, Pre, ResetUnmanaged, Physics
  <1>12. QED
    BY <1>1, <1>2, <1>3, <1>4, <1>5, <1>6, <1>7, <1>8, <1>9, <1>10, <1>11 DEF Next

(* Between calls the cached states are those of the living entities while  *)
(* the helper is registered once; and however often it is registered, a    *)
(* call that has run returns with the state of every live handle cached.   *)
THEOREM StatesFollow == Spec => []StateCurrent
  <1>1. ASSUME IInv, OneHelper, pc = "idle" PROVE StatesAreCached
    <2>1. SUFFICES ASSUME NEW m \in Models, NEW e \in DOMAIN ecm, ecm[e].name = m
                   PROVE  pose_datas[m] = ecm[e].pose
      BY DEF StatesAreCached
    <2>2. call.op \notin {"world", "created"} BY <1>1 DEF IInv, Served, Called
    <2>3. /\ ~Halfway /\ Living(m) = EntityByName(m)
          /\ \E d \in DOMAIN ecm : Living(m) = {d}
      BY <1>1, <2>1, <2>2, AtRest DEF IInv
    <2>4. models[m] \in Living(m) /\ (models[m] \in DOMAIN ecm =>
                                        pose_datas[m] = ecm[models[m]].pose)
      BY <1>1, <2>1, <2>2, <2>3 DEF IInv, Served, Cached, Replaced
    <2>5. e \in EntityByName(m) BY <2>1 DEF EntityByName
    <2>6. models[m] = e BY <2>3, <2>4, <2>5
    <2>7. QED BY <2>4, <2>6
  <1>2. IInv /\ ReadInv => StateCurrent
    BY <1>1 DEF StateCurrent, ReadInv, ReadAfterwards
  <1>3. Init => ReadInv
    <2>1. SUFFICES ASSUME Init PROVE ~ReadAfterwards BY DEF ReadInv
    <2>2. pc = "idle" /\ call.op = "construct" BY <2>1 DEF Init
    <2>3. QED BY <2>2 DEF ReadAfterwards
  <1>4. Spec => []ReadInv
    BY <1>3, ReadStep, PTL DEF Spec
  <1>5. QED BY <1>2, <1>4, ServerInvariant, PTL
=============================================================================
