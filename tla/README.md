# Verification of GzDRL

TLA+ specifications of the concurrent core of GzDRL, with TLC configurations
and TLAPS proofs. Paths are relative to the repository; `core/` stands for
`src/envs/envpool/core/`, `rl_server.cc` for `src/GzDRL/src/rl_server.cc` and
`async_rl_server.hh` for `src/GzDRL/include/async_rl_server.hh`.

Run a model with `tlc -config X.cfg MCModule`, a proof with `tlapm Module_proofs.tla`.
`PROJECT.json` lists every run, the source lines each definition models, the
hazards, the theorems and, for each property, a faulty variant of a definition
(the operators commented `Mutant:`) that violates it.

## 1. The system

GzDRL steps many Gazebo worlds in one process. There are two ways in from
Python, and a third that puts one world on ROS topics.

    Python  env.send / recv / reset                Python  pool.run_N / reset_pos ...
              |                                               |
        AsyncEnvPool  (core/async_envpool.h)           AsyncDRLServerPool (async_rl_server.hh)
          | ActionBufferQueue    ^ StateBufferQueue       | one BlockingQueue per server
          v                      |                        v
        worker threads -> Env (env.h) -> Gazebo...Env   worker threads
                                 |                        |
                                 +------> DRLServer <-----+
                                          DRLHelperSystem (Gazebo's PreUpdate/PostUpdate)
                                          Sensors -> render thread -> VideoRecordingManager

    ROS topics <-> RosDRLServer (src/sitl): executor thread, owner, native threads
                     | server_mutex_                 ^ image and lidar callbacks
                     +----> DRLServer ----------> render thread

| Component | State | Operations | Hard behaviour | What makes it correct | Module |
|---|---|---|---|---|---|
| ActionBufferQueue (`core/action_buffer_queue.h`) | ring, `alloc_ptr_`, `done_ptr_`, three semaphores | EnqueueBulk, Dequeue | ring never tested for room; permits and slots counted apart | no slice lost, overwritten or read unwritten; FIFO; nothing stranded | `ActionBufferQueue`, `ActionFifo` |
| StateBuffer, StateBufferQueue (`core/state_buffer.h`, `state_buffer_queue.h`) | ring of buffers, packed offsets, done counts, stock, `quit_` | Allocate, Done, Wait, background makers, destructor | lock-free workers hold pointers the reader replaces; partial batches | rows exclusive, batches complete, buffers outlive their users, Wait and destructor return | `StateBufferQueue` |
| CircularBuffer (`core/circular_buffer.h`) | buffer, head, tail, two semaphores | Put, Get | slot number taken before the slot is written | FIFO, no slot lost or overwritten | `CircularBuffer` |
| AsyncEnvPool (`core/async_envpool.h`), Env (`env.h`) | `stepping_env_num_`, `is_sync_`, `stop_`, each env's done flag and step | Send, Recv, Reset, worker loop, destructor | schedule of workers, partial batches, auto-reset, shutdown | one new state per request, in order, following the last one seen | `AsyncEnvPool`, `EnvPool` |
| DRLServer, DRLHelperSystem (`rl_server.cc`) | four request queues, caches of entities, states and SDF | run_N, reset_pos, respawn_model, set_wrench, set_mass, reset_world; PreUpdate, PostUpdate | requests take several iterations; removal is deferred; caches outlive entities | requests finished when the call returns, caches follow the world | `DRLServer` |
| AsyncDRLServerPool, BlockingQueue (`async_rl_server.hh`) | a queue, a closed flag and a thread per server; `num_servers_`, `servers_` | submit, call, close, worker_loop | submissions race close; calls that raise abandon commands | commands run once, in order; results in the order asked for; everyone returns | `AsyncServerPool` |
| Sensors (`src/GzDRL/src/sensor/sensor_interface.cc`) | `updateAvailable`, `forceUpdate`, `running`, `doInit`, the next update time, condition variables | PostUpdate, WaitForInit, RunOnce, Stop, destructor | hand-over of an iteration between simulation and render thread, initialization, shutdown in mid-iteration | what is rendered is the iteration that asked for it, no due frame or command goes unrendered, nobody blocked for ever | `Rendering` |
| VideoRecordingManager (`src/GzDRL/src/sensor/video_recording_manager.cc`) | command queue, recordings, states under two locks | StartRecording, StopRecording, OnRender, Shutdown | commands and states change apart; the caller polls | the state a caller is told is what happens | `Rendering` |
| Gazebo environments, processors (`src/envs/gazebo_envpool/`) | step counter, two limits, histories, cached states, drawn parameters | Reset, Step, IsDone, randomization, UpdateControlStates | counters of base and derived class; draws take effect iterations later; observations before or after the last iteration | episodes end and say why; rows, rewards, histories and parameters are of the episode and step they are given for | `GazeboEnv` |
| ROS server (`src/sitl/src/ros_rl_server.cc`, `ros_rl_server.hh`) | `server_mutex_`, `elapsed_sim_time_`, the executor and its thread, the context's `ctxt_users_` and `owns_ctxt_` | Run, Pause, Spin, SpinAsync, WithServerLocked, commands, reset_pose, odometry, image and lidar callbacks, destructor | four kinds of thread, one of which takes no lock; a context shared by bridges and host; joining an executor that may be in a callback | nobody waits for ever, messages keep the order of time, a bridge keeps its context | `RosBridge` |
| ThreadPool, Array/Dict/Spec, controllers, plugins, trajectories, bindings, adapters | - | - | sequential or arithmetic on reals | - | not modelled, see 7 |

Interactions. The client's thread writes slices into the action queue; a worker
takes one, runs the environment (which drives a DRLServer), takes a row of the
state queue, fills it and reports it; the client's Recv takes the batch.
Background threads keep a stock of fresh buffers in a CircularBuffer. In the
server pool a Python thread, without the interpreter lock, puts one command per
server and then waits for one future after another. A DRLServer call queues
requests that DRLHelperSystem carries out when Gazebo calls it back, before and
after physics, in the iterations the call runs.

## 2. Modules

**ActionBufferQueue** has one action per access to shared memory: a producer's
`CallEnqueueBulk`, `LockEnqueue`, `AllocSlots`, `WriteSlot`, `Publish`,
`UnlockEnqueue`, a consumer's `TakeToken`, `LockDequeue`, `ClaimSlot`,
`ReadSlot`, `UnlockDequeue`. Callers keep at most `2 * NumEnvs` slices outstanding, which follows for the
pool from its theorem `ActionRoom` (section 5). The
**ActionFifo** module is the promise: a vector is put at once, each slice goes
to one consumer, in order. `ImplementsFifo` maps the published, unclaimed part
of the ring to the queue and each consumer's slot to its hand.

**CircularBuffer** splits Put and Get in the same way: wait, take a position,
move the value, signal. Its variables and the order of its values are in
**CircularBufferState**, with names of their own, so that one module can speak
of both rings.

**StateBufferQueue** models Allocate in its atomic steps (count the allocation,
take a row from the packed offset word, fill, add to the done count, signal),
Wait in nine (the stock, the partial count, the semaphore, ..., the swap) and
the makers' loop with its test of `quit_`. Environments are single-player, so
the two halves of the packed word move together. The stock is its number of
buffers. On its own the module is the queue as the pool uses it, in both modes:
in synchronous mode a row is the order of its slice, and a Wait may make up for
the environments a partial request leaves out (`Orders`, `Receive`).

**AsyncEnvPool** instantiates StateBufferQueue (its steps are the same actions)
and adds the client, the workers and the environments' done flags and counters.
The action queue is a sequence there: that is ActionFifo, which ActionBufferQueue
implements while it has room for what is queued, which this module bounds. **EnvPool** is its promise to the client; `ImplementsEnvPool` states
it as a refinement. The environment decides freely at each step whether the
episode is over.

The client of the model obeys two rules that the code neither tests nor could do without: it
sends for an environment only after it has received that environment's state,
and in synchronous mode it alternates one Send or Reset with one Recv.

**DRLServer** models an iteration of Gazebo as phases: one PreUpdate per
registration of the helper, physics, PostUpdates, removal of entities. A call
(`reset_pos`, `respawn_model`, ...) queues its request and runs its iterations;
`PreUpdate` does, in the order of the code, resets, the second half of resets,
respawns, the second half of respawns. Entities are records with pose, mass and
pending commands; a body "moves" once pushed and until its velocity is set to
zero. What Gazebo does is external, modelled from how the code relies on it.

**AsyncServerPool** models each caller's steps (`CheckEnv`, `Push`, `Notify`,
`Get`), the worker's `Pop` and `Execute`, and close (`CloseQueue`, `NotifyAll`,
`Join`, `ClearServers`, `ZeroServers`), with condition variables whose waiters
must be woken. A command ends well or with an exception. `NumServers` and lists
of environments, with an unknown id in one of them, are constants.

**Rendering** has three parties. The caller's thread starts, moves and stops
recordings, polling their state, or just steps; an iteration takes it through
PostUpdate of the Sensors system (hand a request to the render thread, or wait
for the one that is due). The render thread waits for a scene (`WaitForInit`),
then loops through `RunOnce`: take the time, run the sensors and their
callbacks, execute the recorder's commands, render the frames due, compute the
next frame's time. Between them stand `renderMutex` with `renderCv`,
`renderUtilMutex` with `updateTimeCv` and the recorder's two mutexes. A
condition variable is its predicate. Time is abstracted to what is due: an
iteration may make the next frame of any recording due, and the sensors'
update time is now, later or never. Gazebo may stop the sensors at any point.

**GazeboEnv** is one environment of any of the five kinds (pendulum, hover,
tracking, payload, formation): `Reset`, `Step` and what they call, statement
by statement, over a world that counts its iterations and in which a model may
fail or recover in any of them. `Randomize` draws factors for the parameters,
which act on the world only once they are handed over and the models created
anew; `UpdateControlStates` copies the world's state; the histories of actions
and states are sequences of the steps they were taken in. A row is what
`WriteState` would give a client, as facts: the iteration it observed, the
step and end it reports, its histories. The rows of the model keep no reward: at the step
that computes one, `RewardSpansTheAction` speaks of the states it compares. That a
pendulum's first request is a Reset is an assumption (its constructor runs no
reset and the pool's first request is one).

**RosBridge** is one RosDRLServer of ROS 2, with the other bridges of the
process as far as they count for the context. Its owner constructs it, lets it
run and spin, and destroys it (`ResetNode`, `ClearNode`, `Destroyed` are the
destructor up to the join, the clearing, and `ReleaseCtxt`). What any thread
does with the server is a `task`: a callback of the executor or a call of
`WithServerLocked` takes `server_mutex_`, copies the control states if it is
to, and runs its iterations (`Iterate`, `PostUpdate`). An iteration with an
image due waits for the render thread, whose callback (`ImageStamp`,
`PublishImage`) reads time and states without the mutex; a state being written
then may be read `Torn`. Iterations are numbered, and a stamp is the iteration
whose time it is. rclcpp is external: callbacks of a node run one at a time
(its default callback group), `cancel` lowers a flag that `spin` raises when it
begins. The handshake with the render thread is Rendering's, reduced to its two
ends.

The `MC*` modules only define symmetry sets, records and lists of constants; the
`*_proofs` modules hold theorems (section 5).

## 3. Runs

| Run | Module / cfg | Instance | What it shows |
|---|---|---|---|
| `abq` | MCActionBufferQueue / Abq | 2 producers, 2 consumers, ring of 2, vectors of 1 or 2, 4 slots in all | token accounting, no overwriting, no unwritten read, implements ActionFifo, everything sent is dequeued |
| `cb` | MCCircularBuffer / Cb | 1 putter, 1 getter, 2 slots, 6 puts | FIFO, no slot lost or overwritten |
| `sbq` | MCStateBufferQueue / Sbq | 2 workers, 3 environments, batches of 2, 7 batches around a ring of 6, 1 maker (asynchronous; synchronous mode is run by `pool_sync`) | buffers outlive their users, rows are exclusive, batches complete; Wait returns, beginning with its wait for the stock; the destructor returns when enough buffers are in stock or about to be put |
| `pool_sync` | MCAsyncEnvPool / PoolSync | 2 workers, 2 environments, 3 requests, partial ones too | storage is safe with orders and after partial batches, one worker per environment, order of rows, no receive and no join left waiting, refinement of EnvPool |
| `pool_async` | / PoolAsync | 3 environments, batches of 2, 2 requests | refinement of EnvPool with racing sends and mixed batches |
| `server` | MCDRLServer / Server | 2 models in model_names, 1 other, scenery and an unknown name, 2 poses, reset_world once | reset and respawn complete, nothing stays queued, one entity per model, handles and states current, states blanked by reset_world filled by the next call |
| `server_pool` | MCAsyncServerPool / ServerPool | 2 servers, 2 callers, 2 calls, a closing thread | nothing dropped, order kept, results in order, servers outlive workers, every call and close end |
| `rendering` | MCRendering / Rendering | 2 names, 3 calls, any number of iterations, a world with or without sensors, Stop at any point | states are true, what is rendered is what was asked for, no due frame or command is left, every call returns, the destructor leaves nothing running |
| `server_destroyed` | / ServerDestroyed | no recordings, a Python callback bound | violated: see Findings |
| `gazebo_env` | MCGazeboEnv / GazeboEnv | the 5 kinds, formations of 2, 7 actions, episodes of at most 3 steps of 2 iterations, histories of 2 | ends reported truly, rows current, rewards span one action, parameters drawn are in force, histories of the episode |
| `ros_bridge` | MCRosBridge / Ros | 1 other bridge, 1 native thread, 3 callbacks or calls, resets of 2 iterations | a bridge keeps its executor, nobody waits for ever, messages in order |
| `formation_drift` | MCGazeboEnv / FormationDrift | a formation, 5 actions | violated: see Findings |

Why the bounds are enough. In `abq`, `cb` and `sbq`, `MaxAlloc`, `MaxPuts` and `MaxBlocks` let
the ring wrap, so that a slot or buffer is used for a second time while
threads of its first use may still be about. The two pool runs receive two and
three batches, in rings too large to wrap by that: what they add is the order of
requests and, in `pool_sync`, positions that a partial batch has moved. That
the pool's ring is safe for any number of batches is a theorem (`PoolStorageSafe`).
Two producers and two consumers (or two workers) are the least number with a
race of equals; two workers on batches of two of three environments make a batch
whose rows come from any two environments and from one worker or both.
The rings' real sizes are the code's formulas of the number of environments and
the batch. Three requests have a partial batch before and after a full one. A
respawn creates one entity, so `MaxEntities` counts the respawns: four in one
world, or one before or after a reset_world. `MaxSystems` is how often the helper is registered; reset_world
raises it by one. In the server pool two calls are one each of two callers, or
two of one, the second after the first has raised or returned.
`StockSize` is smaller than the code's (the ring's size), which makes an empty
stock common rather than impossible. The configurations of the first four modules
switch deadlock checking off since their bounds (and a client that has left)
stop the system, and `server` because the process may stop in an undefined
access (`ResetUnmanaged`). `server_pool` checks it, with an explicit
`Finished` step.

Two names and three calls let one recording be stopped while another is started,
and one name be started again. In `gazebo_env` the cadences of randomization
are scaled down (1 for the pendulum, 3 for tracking and 2 for the others,
against 1, 20 and 10 in the code) so that an episode with and one without a
draw both happen; factors are -1 or 1 and stand for logarithms. Seven actions
hold two whole episodes and the start of a third. In `ros_bridge` three
callbacks or calls are two odometry messages with iterations between them, or
two calls that meet in `server_mutex_` and one more; a reset has 2 iterations
in place of the 13 of `reset_pose` (3 in `reset_pos`, then 10), enough for two images due in one call. Run, Pause, the other
bridge and the host may act at any point, and the context be shut down once.

Two runs ask for progress by an invariant, `NothingStranded` and `NobodyStuck`:
when the threads can take no step of their own (`~ENABLED`), no call is left
waiting. Between two calls of the client a thread takes finitely many steps, so
under the fairness below this says as much as the temporal formula would, on
instances too large for TLC to check that.

`OneHelper` in DRLServer says that reset_world has not been called, and HandlesLive,
ResetComplete and the first half of StateCurrent (every state is its entity's) are
claimed under it, because after it the helper runs twice in each iteration (see
section 4). OneEntityPerModel, RespawnComplete and the second half of StateCurrent
(a call that has run leaves the state of every living handle cached) hold even then.

Fairness. Each thread that is inside a call or its loop takes its next step if
it can (weak fairness): they are operating-system threads and block only on
semaphores, condition variables and joins, which the models represent by
guards. Nobody is obliged to make a call, to close or to destroy. The one
assumption beyond this is in StateBufferQueue's own run, where weak
fairness of `Received` says that the reader's client takes a batch it was given.
A semaphore's wait needs no strong fairness in these runs: a permit
stays until some waiter takes it, and the properties speak of all of them. In
`rendering` the same is assumed of the render thread and of a caller inside an
iteration or a call (the calls poll by running iterations), and of the
destructor once begun; a frame is not assumed ever to become due.

## 4. Findings

* `server_destroyed`: `~DRLServer` runs with Python's interpreter lock held (the
  binding gives it up in methods, never in the destructor) and joins the render
  thread, whose image callback bound from Python may be waiting for that lock:
  neither goes on (`rl_server.cc:1942`, against "cleanly shuts down" in
  `rl_server.hh:766`).
* `formation_drift`: the formation multiplies its rotor parameters by each
  draw in place, so draws accumulate and leave the range of one
  (`gazebo_multiagent_formation_ll.hh:179`, against
  `src/docs/guides/domain-randomization.md:39`).

Met while modelling, without a run (the first three were seen as TLC
counterexamples of the modules here, the others read in the code):

* Two putters of a CircularBuffer: `Put` takes its slot number first, writes later and
  signals without regard to earlier slots, so `Get` can move an empty
  pointer out of the slower one's slot (`core/circular_buffer.h:55`). The
  state queue starts two makers on machines with 128 processors or more.
* The state queue's destructor can wait for ever for a buffer that a maker
  which has already seen `quit_` does not put (`state_buffer_queue.h:92`);
  `DestructorDrains` says that it returns unless fewer buffers are in stock or
  about to be put than there are makers.
* `reset_world` registers the helper a second time. From then on it runs twice per
  iteration, a reset's zero velocity is withdrawn before physics sees it, and
  the call returns with all cached states blank (`rl_server.cc:1877`). The next
  call that runs fills them (`StateCurrent`).
* After `reset_world` a respawn removes and creates in one iteration, so the
  handle found by name may be the old entity's; and respawning a model of the
  world that is not in `model_names` removes it for good (`rl_server.cc:351`).
* `start_camera_recording` can report failure of a recording that then runs: a
  stop of that name queued before it finds no recording and clears the new state.
* The ROS bridge's image and lidar callbacks do not take `server_mutex_`
  (and could not: `NobodyStuck` fails if they do, since an iteration under it
  waits for them), though `src/examples/real_time_inference/src/main.cc:223`
  calls it "the same lock used by ROS callbacks". Their transforms come from
  the control states of whichever call copied them last, perhaps one that is
  writing them.
* `elapsed_sim_time_` is set by the run timer only: without `Run`, with
  `WithServerLocked` or after `reset_pose`, stamps stay behind or at zero
  (`ros_rl_server.cc:237`); an image's stamp may also be later than its frame.
* Destroying a bridge just after `SpinAsync` can hang: `cancel` before `spin`
  has no effect, and the join waits for a spin nobody ends
  (`ros_rl_server.cc:144`). And it clears messages the render thread may be
  using (`ros_rl_server.cc:170`).
* `set_controller` for several servers gives them one stateful PIDController
  (`async_rl_server.cc:706`), used by their worker threads at once; its
  integrator is not reset by `reset_pos`, and the rotor mapping it captures
  (`rl_server.cc:1640`) is stale after `set_rotor_parameters` and a respawn.
* The rotor plugin's filters survive `reset_pos`, and the velocity commands
  `reset_pos` clears are the model's, not its links'; contact data asked for
  of a model ends with its respawn.

## 5. Proofs

For every value of the constants, under the assumptions the modules name:

* `ActionBufferQueue_proofs`: `TypeCorrect`,
  `LocksHold`, `TokensAccounted`, `ReadsArePublished`, `NothingOverwritten`, from
  `QueueInvariant`. None of the last three is inductive alone. The inductive
  invariant `IInv` has four parts: `Locked` (types, and at most one thread in
  each critical section), `Positions` (the bulk being written ends at `alloc_ptr`, the slot being
  read is the last claimed), `TokenAccounting` (permits in the semaphore, in hands and
  used add up to what is published) and `Room` (what callers count as outstanding is what the ring
  holds: slices still to be allocated, allocated and not claimed, being
  read; at most a ring of them). Two live positions are then less than a ring
  apart and have different slots.
  `FifoImplemented` (ImplementsFifo) is the refinement: `Publish` is ActionFifo's
  `Put`, `ClaimSlot` its `Take`, `UnlockDequeue` its `Leave`, every other step
  leaves it alone. It adds what the live slots hold (`Stored`) to `IInv`.
* `StateBufferQueue_proofs`: `TypeCorrect`, `RingNeverLapped` (StorageSafe) and
  `BatchesComplete` (BatchComplete) from `QueueInvariant`, for any number of workers and
  environments and any batch. The ring has no lock and no test: that a
  worker finds its batch's buffer, and a row of its own in it, is an argument by
  counting. Of the positions claimed and not received there are no more than
  environments in flight (`Room`), so the positions in use fit the buffers in place
  (`Ring`, `Places`). In a buffer, offset and done count lag behind the positions
  claimed by the workers that have not come so far (`Counts`), so the last `Done`
  comes when every other worker has finished with the buffer (`Signals`). A partial
  batch is in these counts twice: between `AddDone` and `SwapBuffer` its buffer has
  more rows done than were given (`Missing`), and between `AdvanceBlock` and
  `SwapBuffer` the positions have moved past rows nobody claimed (`Own`). Rows may be
  given in any order, so as many are given as the buffer has counted, none
  of them made up for (`Marked`): a batch then has no gap. And each environment in
  flight is with one worker or in one row (`Sent`), rows being blank until their
  worker fills them (`Given`, `Written`), so a batch is of different environments (`Taken`).
* `AsyncEnvPool_proofs`: `TypeCorrect`, `OneWorker` (OneWorkerPerEnv),
  `PoolStorageSafe` (StorageSafe), `RequestOrder` (RowsInRequestOrder),
  `CountOfStepping` (SteppingCount), `ActionRoom`, and `KeepsPromise`, the refinement
  of EnvPool, for any number of workers and environments, both modes, any batch
  and any requests, destroyed at any point.
  The pool's queue holds states where StateBufferQueue's holds environments, and
  its `in_flight` begins when a request is made, not when a worker claims a
  position. So the proofs instantiate `StateBufferQueue_proofs` as `Q`, with each state
  replaced by its environment and in flight what is `Entered` (sent, and not
  `Waiting` in the action queue or with a worker that has still to run it), and prove
  `UsesQueue`: every step of the pool is a step of that queue or leaves it alone.
  That its callers keep the queue's rules is what has to be shown, and Q's
  invariant is needed for it. The invariant of the pool, `PInv`, adds: `Phases` and
  `Reading` (how a worker's and the reader's place here and in the queue go
  together), `Single` (slices in the queue and with workers are of
  different environments in flight), `Ordered` (in synchronous mode what is in flight is one request,
  which `stepping_env_num` counts and orders index), `Filled` (a row holds its environment's
  present state, in the place of its request) and `History` (what an
  environment's counters are against the state its client saw last, and which slices
  come from a Reset). For the refinement, `Request` is EnvPool's `Send` or `Reset`,
  `ReturnRecv` its `Recv`, and every other step leaves it alone.
  `ActionRoom` says that there are never more slices queued than environments and,
  after `stop`, one more for each worker. The ring of `2 * num_envs`
  has room for them if `num_threads <= num_envs`, which the default, `min(batch_size,
  processors)`, guarantees. With more threads the destructor's slices may overwrite others;
  by then every worker breaks off before it looks at one.
* `ActionBufferQueue_proofs`, second part, of CircularBuffer (as `CB`):
  `StockTypeCorrect`; `SlotsAccounted`, for any number of
  threads; and `OneToOne`, for one putter and one getter: `SlotFree` and
  `GetsInOrder`. Its invariant says that the filled slots are a window of
  positions, as long as the permits say, each holding what was put at its
  position and all other slots empty.
* `GazeboEnv_proofs`: `TypeCorrect`, and from `EnvironmentInvariant` the safety
  properties `EndsReported` (DoneReported), `RowsCurrent` (ObservesTheWorld),
  `RewardsOfActions` (RewardSpansTheAction) and `DrawsInForce`
  (DynamicsInForce), for every kind, formation, length of
  an episode, number of iterations, cadence and range of draws. Rows are written at
  one step only, while what they say is made true at several, so
  the inductive invariant `IInv` speaks of the steps between: `Stage` (what the counters
  are at each program counter), `View` (which iteration the copied states are
  of), `Counts` and `Ends` (the step counter against the limits and the flag),
  `Dynamics` (which of the draws, the server's parameters and the models'
  agree at each step of a reset).
  `HistoriesOfEpisode` (HistoryOfEpisode) holds for histories of any length: `Begun` (the
  history starts with its episode), `ActionsKept` and `StatesKept` (what each
  history holds at each step) are preserved by every action on top of `IInv`.
* `DRLServer_proofs`: `TypeCorrect`, `HandlesFollow` (HandlesLive), `ModelsOnce`
  (OneEntityPerModel), `ResetsComplete`, `RespawnsComplete` and `StatesFollow`
  (StateCurrent), for any models, scenery, poses and masses, any number of
  respawns and of world resets. What they say of a call that has returned is made
  true at several phases of its three iterations, so the inductive invariant of
  `ServerInvariant` names these: `Fresh`, before the first PreUpdate, and `Halfway`, between the
  two that carry out a request, which belong to two iterations or, after reset_world, to
  two helpers in one. `Queued` says which request is in which queue then, `Population` that
  each model has one entity that is not to be removed, or none while it
  is `Replaced`, `Commanded`, `Resetting` and `Respawning` which commands bodies have
  and what physics will make of them, `Cached` which handles and states may be old.
  The half of StateCurrent that also holds after reset_world has an invariant of its
  own, `ReadInv`: an iteration's PostUpdate makes it true, removals keep it.
* `Rendering_proofs`: `TypeCorrect`, `ToldTheTruth` (StatesTrue), `RendersTheRequest`
  (RenderedAsRequested) and `NoDueFrameSkipped` (DueFramesRequested), for any names and
  number of calls. Their invariants are apart: one of the handshake (who may write
  which flag at which step of the two threads), one of the iterations (what is
  due, and which thread still has to look at it), and one of the recorder (the
  state of a name against the commands queued for it and those being executed).
* `RosBridge_proofs`: `ExecutorsServe` (ExecutorServes), for any number of
  bridges in the process and of native threads. That the executor of a bridge
  in use goes on depends on a flag and on a context other bridges release; the
  inductive `IInv` says who is counted for it (`Counted`), that a bridge with a
  node has it until it is shut down from outside (`Attached`), and when there
  is an executor thread and its flag is up (`Serving`). `OrderKept` (MessagesInOrder)
  is by a second one, of `MessageInvariant`: who has the server, how far the clock and the
  control states are behind the iterations, and that each message under way lies
  between the last one out and them.
* `AsyncServerPool_proofs`: `NoneDropped` (NothingDropped), `ServersKeepOrder`
  (ProgramOrder), `ResultsOrdered` (ResultsInRequestOrder) and `ServersOutlive`
  (ServersOutliveWorkers), for any number of servers, of threads and of calls
  naming any environments. `PoolInvariant` establishes an `IInv` in which
  `Closing` says how far `close()` has come in its loops, `Checked` that what a
  call has gone past is a server, `Held` where accepted commands may be,
  `Submitted` that what a call may still submit comes after all its thread has
  submitted, `InLine` that the commands a server has run, runs and will run
  are in the order of their threads as one line, across the queue, the
  worker and the history, and `Collected` that each result in hand is that of
  its place in the list. ProgramOrder alone says nothing of what is
  queued, so `Pop` could break it; `InLine` and `Submitted` are what it needs.

Assumptions: the sets of threads and slices are as the modules' `ASSUME`s say
(finite, disjoint, no `NoSlice` among the slices), the ring has a positive
size, in ActionBufferQueue a bulk is admitted only with room for it (`ActionRoom`),
in StateBufferQueue and AsyncEnvPool the environments (and workers) are finitely many, a batch is
at most all environments and the blank row is neither an environment nor a
state, in DRLServer the names are finitely many and the
constant for "none" is neither a pose nor a number, in GazeboEnv limits, sizes and
cadences are as `GazeboEnv` names them, in AsyncServerPool a call names at
least one environment, and in RosBridge a bridge is none of the others and no native thread
has the name of a thread of the bridge.

## 6. Only model-checked

* Liveness (`Drains`, `WaitReturns`, `DestructorDrains`, `CallsEnd`, `CloseReturns`,
  `CallsReturn`, `StopEnds`), and `NothingStranded` and `NobodyStuck`, which speak of
  `ENABLED`: outside of what the proof system does.
* That ActionBufferQueue with its callers is the sequence of AsyncEnvPool: the two
  refinements, of ActionFifo and EnvPool, are proved apart, and their modules
  meet in `ActionRoom` alone, not in a composition.

## 7. Not modelled, and why

* Contents of observations, actions and rewards, which is most of the processors;
  controllers, plugins, trajectories and samplers: arithmetic on reals. What of
  them is about time and episodes is in `GazeboEnv`. The construction of an environment.
* Of the Sensors system: frame buffers, triggered sensors, battery states, and
  `Reset` and `RemoveSensor`; of the recorder: drawing and encoding.
* DRLServer's other commands (velocities, rotors, joints, contacts, controllers,
  traces, force fields): each writes a component the iteration reads, like
  `set_wrench`, the one modelled.
* Of the ROS server: the ROS 1 variant, the conversion of messages, its filter and
  its binding; an exception out of the iterations that end the construction.
* Gazebo, rclcpp, the vendored concurrent queue and semaphore, Python: external.
* Memory orders: the atomics in question are used with sequential consistency
  or inside semaphores, so interleaving is what can happen.
* Two threads calling `close()` of the server pool, multi-player environments,
  thread affinity.

## 8. Plan

1. DRLServer's remaining commands (velocity, rotor, joint, contact) in the
   same iteration model, with controllers as stateful callbacks; ThreadPool.
2. One specification of AsyncEnvPool over ActionBufferQueue's own steps, from which
   the present one follows by `FifoImplemented` and `ActionRoom`.
