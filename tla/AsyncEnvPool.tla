----------------------------- MODULE AsyncEnvPool -----------------------------
(***************************************************************************)
(* The asynchronous environment pool (envs/envpool/core/async_envpool.h)   *)
(* with the environments it runs (env.h): the client's Send, Reset, Recv   *)
(* and destructor, the worker threads, the action buffer queue between     *)
(* them and the state buffer queue back.                                   *)
(*                                                                         *)
(* The action buffer queue is the atomic bulk FIFO that ActionBufferQueue  *)
(* is checked to implement while it holds at most 2 * num_envs slices; the *)
(* state buffer queue is StateBufferQueue, step by step.                   *)
(*                                                                         *)
(* The client follows the rules the code relies on: it sends actions only  *)
(* for environments whose last state it has received, and in synchronous   *)
(* mode one thread alternates one Send or Reset with one Recv.             *)
(***************************************************************************)
EXTENDS Integers, Sequences, FiniteSets

CONSTANTS
  Workers, Creators, Envs, NoRow, Batch, StockSize,
  MaxBlocks,   \* bound: the number of batches received in one behaviour
  MaxRequests, \* bound: the number of Send and Reset calls
  MaxIds       \* bound: the number of environments one call names

NumEnvs == Cardinality(Envs)
IsSync  == Batch = NumEnvs

(* An action for a worker; order is its row in synchronous mode. *)
Slice == [env: Envs \cup {NoRow}, order: Int, force_reset: BOOLEAN]

(* What a row of the state buffer queue holds. *)
State == [env: Envs, done: BOOLEAN, step: Int]

(* num_envs and batch_size of the EnvSpec; a worker for each thread. *)
ASSUME PoolAssumption ==
  /\ IsFiniteSet(Envs)
  /\ IsFiniteSet(Workers)
  /\ Batch \in 1 .. NumEnvs
  /\ StockSize \in Nat \ {0}
  /\ MaxBlocks \in Nat
  /\ MaxIds \in Nat

ASSUME BlankAssumption == NoRow \notin Envs \cup State

VARIABLES
  alloc_count, done_ptr, queue,      \* the state buffer queue, see there
  stock, quit, cstep,
  wstep, wenv, wpos, wrow,
  rstep, rpos, radd, ret,
  in_flight,         \* environments sent whose state has not been received
  actions,           \* the action buffer queue
  wpc,               \* what each worker does in its loop
  slice,             \* raw_action of each worker
  wreset,            \* reset, as it decided it
  stop,              \* stop_
  stepping_env_num,  \* stepping_env_num_
  done,              \* IsDone() of each environment
  current_step,      \* current_step_ of each environment
  request,           \* the environments of the request in flight, in order
  forced,            \* those whose state in flight comes from Reset
  seen,              \* the last state the client received of each one
  requests           \* counts the requests, for the bound

sbqVars   == <<alloc_count, done_ptr, queue, stock, quit, cstep,
               wstep, wenv, wpos, wrow, rstep, rpos, radd, ret>>
workVars  == <<wpc, slice, wreset>>
envVars   == <<done, current_step>>
clientVars == <<in_flight, request, forced, seen, requests>>
vars == <<sbqVars, actions, workVars, stop, stepping_env_num, envVars, clientVars>>

SBQ == INSTANCE StateBufferQueue

(* The vector a destructor sends: default-initialised slices, whose        *)
(* content no worker looks at.                                             *)
EmptySlice == [env |-> NoRow, order |-> 0, force_reset |-> FALSE]

IdLists == {s \in UNION {[1 .. n -> Envs] : n \in 1 .. MaxIds} :
              \A i, j \in DOMAIN s : s[i] = s[j] => i = j}
IdsOf(s) == {s[i] : i \in DOMAIN s}

\* Mutant: rows are taken as they come in synchronous mode too.
OrderNone(i) == SBQ!Unordered

Order(i) == IF IsSync THEN i - 1 ELSE SBQ!Unordered

(* IsDone() is true from the construction of an environment on, so that    *)
(* its first action resets it.                                             *)
Init ==
  /\ SBQ!Init
  /\ actions = <<>>
  /\ wpc = [w \in Workers |-> "dequeue"]
  /\ slice = [w \in Workers |-> EmptySlice]
  /\ wreset = [w \in Workers |-> FALSE]
  /\ stop = FALSE
  /\ stepping_env_num = 0
  /\ done = [e \in Envs |-> TRUE]
  /\ current_step = [e \in Envs |-> -1]
  /\ request = <<>>
  /\ forced = {}
  /\ seen = [e \in Envs |-> [done |-> TRUE, step |-> -1]]
  /\ requests = 0

-----------------------------------------------------------------------------
(* The client *)

MayRequest(ids) ==
  /\ ~stop
  /\ requests < MaxRequests
  /\ IdsOf(ids) \cap in_flight = {}
  /\ IsSync => rstep = "idle" /\ in_flight = {}

\* Mutant: every slice names the first environment of the call.
RequestFirst(ids, force) ==
  /\ MayRequest(ids)
  /\ actions' = actions \o [i \in DOMAIN ids |->
                  [env |-> ids[1], order |-> Order(i), force_reset |-> force]]
  /\ stepping_env_num' = IF IsSync THEN stepping_env_num + Len(ids)
                         ELSE stepping_env_num
  /\ in_flight' = in_flight \cup IdsOf(ids)
  /\ forced' = IF force THEN forced \cup IdsOf(ids) ELSE forced
  /\ request' = ids
  /\ requests' = requests + 1
  /\ UNCHANGED <<sbqVars, workVars, stop, envVars, seen>>

(* SendImpl and Reset differ in force_reset and in SetAction, which stores *)
(* the action in environments no worker is running.                        *)
Request(ids, force) ==
  /\ MayRequest(ids)
  /\ actions' = actions \o [i \in DOMAIN ids |->
                  [env |-> ids[i], order |-> Order(i), force_reset |-> force]]
  /\ stepping_env_num' = IF IsSync THEN stepping_env_num + Len(ids)
                         ELSE stepping_env_num
  /\ in_flight' = in_flight \cup IdsOf(ids)
  /\ forced' = IF force THEN forced \cup IdsOf(ids) ELSE forced
  /\ request' = ids
  /\ requests' = requests + 1
  /\ UNCHANGED <<sbqVars, workVars, stop, envVars, seen>>

Send(ids)  == Request(ids, FALSE)
Reset(ids) == Request(ids, TRUE)

\* Mutant: a partial batch is waited for as if it were full.
AdditionalWaitNone == 0

AdditionalWait ==
  IF IsSync /\ stepping_env_num < Batch THEN Batch - stepping_env_num ELSE 0

(* In synchronous mode a Recv with nothing in flight is made up for as a   *)
(* whole and returns an empty batch.                                       *)
CallRecv ==
  /\ ~stop
  /\ done_ptr < MaxBlocks
  /\ SBQ!CallWait(AdditionalWait)
  /\ UNCHANGED <<actions, workVars, stop, stepping_env_num, envVars, clientVars>>

WaitStep ==
  /\ SBQ!ReaderStep
  /\ UNCHANGED <<actions, workVars, stop, stepping_env_num, envVars, clientVars>>

Received == {ret[i].env : i \in DOMAIN ret}

ReturnRecv ==
  /\ SBQ!ReturnWait
  /\ stepping_env_num' = IF IsSync THEN stepping_env_num - Len(ret)
                         ELSE stepping_env_num
  /\ in_flight' = in_flight \ Received
  /\ forced' = forced \ Received
  /\ seen' = [e \in Envs |->
       IF e \in Received
       THEN LET i == CHOOSE i \in DOMAIN ret : ret[i].env = e
            IN  [done |-> ret[i].done, step |-> ret[i].step]
       ELSE seen[e]]
  /\ request' = <<>>
  /\ UNCHANGED <<actions, workVars, stop, envVars, requests>>

(* The destructor, up to joining the workers: one empty slice for each.    *)
Destroy ==
  /\ ~stop
  /\ rstep = "idle"
  /\ stop' = TRUE
  /\ actions' = actions \o [i \in 1 .. Cardinality(Workers) |-> EmptySlice]
  /\ UNCHANGED <<sbqVars, workVars, stepping_env_num, envVars, clientVars>>

-----------------------------------------------------------------------------
(* The worker threads *)

Goto(w, from, to) ==
  /\ wpc[w] = from
  /\ wpc' = [wpc EXCEPT ![w] = to]

Dequeue(w) ==
  /\ Goto(w, "dequeue", "check")
  /\ actions # <<>>
  /\ slice' = [slice EXCEPT ![w] = Head(actions)]
  /\ actions' = Tail(actions)
  /\ UNCHANGED <<sbqVars, wreset, stop, stepping_env_num, envVars, clientVars>>

Exit(w) ==
  /\ Goto(w, "check", "exited")
  /\ stop
  /\ UNCHANGED <<sbqVars, actions, slice, wreset, stop, stepping_env_num,
                 envVars, clientVars>>

\* Mutant: only a forced reset resets the environment.
DecideForced(w) ==
  /\ Goto(w, "check", "run")
  /\ ~stop
  /\ wreset' = [wreset EXCEPT ![w] = slice[w].force_reset]
  /\ UNCHANGED <<sbqVars, actions, slice, stop, stepping_env_num, envVars, clientVars>>

Decide(w) ==
  /\ Goto(w, "check", "run")
  /\ ~stop
  /\ wreset' = [wreset EXCEPT ![w] = slice[w].force_reset \/ done[slice[w].env]]
  /\ UNCHANGED <<sbqVars, actions, slice, stop, stepping_env_num, envVars, clientVars>>

\* Mutant: a reset does not restart the step count.
RunKeepCount(w) ==
  LET e == slice[w].env IN
  /\ Goto(w, "run", "write")
  /\ current_step' = [current_step EXCEPT ![e] = @ + 1]
  /\ \E d \in BOOLEAN : done' = [done EXCEPT ![e] = d]
  /\ SBQ!ClaimPos(w, e)
  /\ UNCHANGED <<actions, slice, wreset, stop, stepping_env_num, clientVars>>

(* EnvStep up to the StateBufferQueue::Allocate that Reset or Step makes:  *)
(* the environment is reset or stepped, and may be done afterwards.        *)
Run(w) ==
  LET e == slice[w].env IN
  /\ Goto(w, "run", "write")
  /\ current_step' = [current_step EXCEPT ![e] = IF wreset[w] THEN 0 ELSE @ + 1]
  /\ \E d \in BOOLEAN : done' = [done EXCEPT ![e] = d]
  /\ SBQ!ClaimPos(w, e)
  /\ UNCHANGED <<actions, slice, wreset, stop, stepping_env_num, clientVars>>

AllocateStep(w) ==
  /\ wpc[w] = "write"
  /\ SBQ!CountAlloc(w) \/ SBQ!TakeRow(w, slice[w].order)
  /\ UNCHANGED <<actions, workVars, stop, stepping_env_num, envVars, clientVars>>

(* Env::Allocate fills in the common fields, the environment the others.   *)
WriteState(w) ==
  LET e == slice[w].env IN
  /\ SBQ!FillRow(w, [env |-> e, done |-> done[e], step |-> current_step[e]])
  /\ UNCHANGED <<actions, workVars, stop, stepping_env_num, envVars, clientVars>>

(* PostProcess, after which the worker dequeues its next action.           *)
PostProcess(w) ==
  /\ SBQ!Done(w) \/ SBQ!SignalReady(w)
  /\ IF wstep'[w] = "idle"
     THEN /\ wpc' = [wpc EXCEPT ![w] = "dequeue"]
          /\ slice' = [slice EXCEPT ![w] = EmptySlice]
          /\ wreset' = [wreset EXCEPT ![w] = FALSE]
     ELSE UNCHANGED workVars
  /\ UNCHANGED <<actions, stop, stepping_env_num, envVars, clientVars>>

WorkerStep(w) ==
  \/ Dequeue(w)
  \/ Exit(w)
  \/ Decide(w)
  \/ Run(w)
  \/ AllocateStep(w)
  \/ WriteState(w)
  \/ PostProcess(w)

CreatorStep(c) ==
  /\ SBQ!CreatorStep(c)
  /\ UNCHANGED <<actions, workVars, stop, stepping_env_num, envVars, clientVars>>

-----------------------------------------------------------------------------

Next ==
  \/ \E ids \in IdLists : Send(ids) \/ Reset(ids)
  \/ CallRecv
  \/ WaitStep
  \/ ReturnRecv
  \/ Destroy
  \/ \E w \in Workers : WorkerStep(w)
  \/ \E c \in Creators : CreatorStep(c)

Spec == Init /\ [][Next]_vars

-----------------------------------------------------------------------------

(* Each variable keeps its type; stepping_env_num never goes below zero.   *)
TypeOK ==
  /\ \A i \in DOMAIN actions : actions[i] \in Slice
  /\ wpc \in [Workers -> {"dequeue", "check", "run", "write", "exited"}]
  /\ slice \in [Workers -> Slice]
  /\ wreset \in [Workers -> BOOLEAN]
  /\ stop \in BOOLEAN
  /\ stepping_env_num \in Nat
  /\ done \in [Envs -> BOOLEAN]
  /\ current_step \in [Envs -> Int]
  /\ \A i \in DOMAIN ret : ret[i] \in State \cup {NoRow}
  /\ in_flight \subseteq Envs

(* No environment is ever run by two workers, nor queued while it runs or  *)
(* queued twice; so the action buffer queue holds no more than num_envs    *)
(* slices, half of what it must hold to be a FIFO.                         *)
OneWorkerPerEnv ==
  ~stop =>
    /\ \A w \in Workers : wpc[w] # "dequeue" =>
         /\ \A v \in Workers \ {w} : wpc[v] # "dequeue" => slice[v].env # slice[w].env
         /\ \A i \in DOMAIN actions : actions[i].env # slice[w].env
    /\ \A i, j \in DOMAIN actions : actions[i].env = actions[j].env => i = j

(* The pool uses the state buffer queue as that needs to be used: with     *)
(* rows given in the order of a request, and positions moved past the rows *)
(* a partial batch lacks, no worker meets a buffer other than its batch's, *)
(* a full one, or a row that is not its own.                               *)
StorageSafe == SBQ!StorageSafe

(* In synchronous mode row i of a batch is the state of the i-th           *)
(* environment of the request, however the workers are scheduled.          *)
RowsInRequestOrder ==
  IsSync /\ rstep = "return" =>
    /\ Len(ret) = Len(request)
    /\ \A i \in DOMAIN request : ret[i] # NoRow /\ ret[i].env = request[i]

(* The counter that decides how many missing environments Recv makes up    *)
(* for is the number of environments in flight; it never wraps below zero. *)
SteppingCount == IsSync => stepping_env_num = Cardinality(in_flight)

(* What the pool promises its client. *)
Promise == INSTANCE EnvPool WITH pending <- in_flight, last <- seen

(* Every Recv returns a batch of new states of different environments in   *)
(* flight, each the successor of the state the client saw before: a reset  *)
(* state after a forced reset or a finished episode, else the next step.   *)
ImplementsEnvPool == Promise!Spec

(* When the threads of the pool have gone as far as they can, no Recv of a *)
(* synchronous pool is still waiting, since it makes up for the            *)
(* environments not requested; and no worker keeps the destructor waiting. *)
NothingStranded ==
  ~ENABLED ((\E w \in Workers : WorkerStep(w)) \/ (\E c \in Creators : CreatorStep(c))
            \/ WaitStep \/ ReturnRecv)
  => /\ IsSync => rstep = "idle"
     /\ stop => \A w \in Workers : wpc[w] = "exited"

=============================================================================
