------------------------------ MODULE RosBridge ------------------------------
(***************************************************************************)
(* The ROS 2 bridge (sitl/src/ros_rl_server.cc, ros_rl_server.hh): a       *)
(* RosDRLServer owns a DRLServer that four kinds of thread use, the owner  *)
(* of the bridge, the executor that runs its timers and subscriptions,     *)
(* native threads in WithServerLocked, and the render thread of the        *)
(* server's sensors, which runs the image and lidar callbacks.             *)
(*                                                                         *)
(* The first three meet in server_mutex_, the render thread does not take  *)
(* it.  Bridges of one process share a ROS context by counting their       *)
(* references to it; one bridge is modelled whole, the others (Peers) as   *)
(* far as they hold a reference.                                           *)
(*                                                                         *)
(* rclcpp is modelled from how it is used here: the callbacks of a node    *)
(* are in its default group and run one at a time, spin raises a flag that *)
(* cancel lowers, and ends when it finds the flag down or the context      *)
(* shut.  The server is its iterations; in an iteration with an image due, *)
(* PostUpdate waits for the last rendering and hands over the next, which  *)
(* module Rendering has in detail.                                         *)
(***************************************************************************)
EXTENDS Integers, FiniteSets

CONSTANTS
  Peers,      \* other bridges of the process
  Natives,    \* threads that call WithServerLocked
  ResetSteps, \* iterations of a reset_pose message
  MaxCalls    \* bound: callbacks and native calls begun in one behaviour

ASSUME BridgeAssumption ==
  /\ "bridge" \notin Peers
  /\ {"owner", "executor", "free"} \cap Natives = {}
  /\ ResetSteps \in Nat \ {0}
  /\ MaxCalls \in Nat

VARIABLES
  ctxt_ok,          \* rclcpp::ok()
  owns_ctxt,        \* owns_ctxt_
  ctxt_users,       \* the bridges that ctxt_users_ counts
  signalled,        \* the host, or a signal, has shut the context down
  opc,              \* what the owner does with the bridge
  xpc,              \* the thread in exec_->spin()
  spinning,         \* exec_->is_spinning()
  run_timer,        \* run_timer_ is active
  server_mutex,     \* the thread that holds server_mutex_
  task,             \* what each thread does with the server
  calls,            \* callbacks and native calls begun
  sim_iterations,   \* iterations the server has begun
  elapsed_sim_time, \* the iteration that elapsed_sim_time_ is the time of
  control_states,   \* the iteration they were last copied from
  rpc, frame,       \* the render thread, and the frame it is at
  odom, image,      \* the last messages published
  crashed           \* a callback has used what the destructor had cleared

ctxtVars   == <<ctxt_ok, owns_ctxt, ctxt_users, signalled>>
spinVars   == <<xpc, spinning, run_timer>>
serverVars == <<server_mutex, task, calls>>
timeVars   == <<sim_iterations, elapsed_sim_time, control_states>>
renderVars == <<rpc, frame>>
msgVars    == <<odom, image>>
worldVars  == <<serverVars, timeVars, renderVars, msgVars, crashed>>
vars == <<ctxtVars, opc, spinVars, worldVars>>

Threads == {"owner", "executor"} \cup Natives
Free    == "free"
Torn    == -1       \* a state read while it was written
NoTask  == [op |-> "none", pc |-> "idle", left |-> 0, stamp |-> 0, of |-> 0]
NoFrame == [of |-> 0, stamp |-> 0, state |-> 0]

Init ==
  /\ ctxt_ok = FALSE
  /\ owns_ctxt = FALSE
  /\ ctxt_users = {}
  /\ signalled = FALSE
  /\ opc = "none"
  /\ xpc = "absent"
  /\ spinning = FALSE
  /\ run_timer = FALSE
  /\ server_mutex = Free
  /\ task = [t \in Threads |-> NoTask]
  /\ calls = 0
  /\ sim_iterations = 0
  /\ elapsed_sim_time = 0
  /\ control_states = 0
  /\ rpc = "idle"
  /\ frame = NoFrame
  /\ odom = [stamp |-> 0, of |-> 0]
  /\ image = NoFrame
  /\ crashed = FALSE

-----------------------------------------------------------------------------
(* The context of the process *)

InitCtxt(b) ==
  /\ ctxt_users' = ctxt_users \cup {b}
  /\ ctxt_ok' = (ctxt_ok \/ ctxt_users = {})
  /\ owns_ctxt' = (owns_ctxt \/ (ctxt_users = {} /\ ~ctxt_ok))
  /\ UNCHANGED signalled

\* Mutant: whoever goes first takes the context with it.
ReleaseCtxtAlways(b) ==
  /\ ctxt_users' = ctxt_users \ {b}
  /\ ctxt_ok' = (ctxt_ok /\ ~owns_ctxt)
  /\ owns_ctxt' = (owns_ctxt /\ ctxt_users' # {})
  /\ UNCHANGED signalled

(* The last reference gone, a context made by a bridge is shut down.       *)
ReleaseCtxt(b) ==
  /\ ctxt_users' = ctxt_users \ {b}
  /\ ctxt_ok' = (ctxt_ok /\ ~(owns_ctxt /\ ctxt_users' = {}))
  /\ owns_ctxt' = (owns_ctxt /\ ctxt_users' # {})
  /\ UNCHANGED signalled

Peer ==
  /\ \E p \in Peers : IF p \in ctxt_users THEN ReleaseCtxt(p) ELSE InitCtxt(p)
  /\ UNCHANGED <<opc, spinVars, worldVars>>

(* The host program initializes the context, and shuts it down; so does    *)
(* the signal handler of ROS.                                              *)
Host ==
  /\ ~signalled
  /\ ctxt_ok' = ~ctxt_ok
  /\ signalled' = ctxt_ok
  /\ UNCHANGED <<owns_ctxt, ctxt_users, opc, spinVars, worldVars>>

-----------------------------------------------------------------------------
(* The owner of the bridge *)

(* The members before InitCtxt may throw, with nothing to undo.            *)
Construct ==
  /\ opc = "none"
  /\ InitCtxt("bridge")
  /\ opc' = "make"
  /\ UNCHANGED <<spinVars, worldVars>>

(* MakeNode and SetupDRLServer; a dead context or a model without an SDF   *)
(* makes them throw.  The iterations after them run with the callbacks     *)
(* bound, without server_mutex_: no other thread has the server yet.       *)
MakeNode ==
  /\ opc = "make"
  /\ \/ /\ ctxt_ok
        /\ task' = [task EXCEPT !["owner"] =
                      [NoTask EXCEPT !.op = "construct", !.pc = "work", !.left = 1]]
        /\ opc' = "warm"
     \/ /\ opc' = "clear"
        /\ UNCHANGED task
  /\ UNCHANGED <<ctxtVars, spinVars, server_mutex, calls,
                 timeVars, renderVars, msgVars, crashed>>

Constructed ==
  /\ opc = "warm"
  /\ task["owner"] = NoTask
  /\ opc' = "ready"
  /\ UNCHANGED <<ctxtVars, spinVars, worldVars>>

Run ==
  /\ opc = "ready"
  /\ run_timer' = TRUE
  /\ UNCHANGED <<ctxtVars, opc, xpc, spinning, worldVars>>

Pause ==
  /\ opc = "ready"
  /\ run_timer' = FALSE
  /\ UNCHANGED <<ctxtVars, opc, xpc, spinning, worldVars>>

(* A thread that has ended is still joinable, so no new one starts.        *)
SpinAsync ==
  /\ opc = "ready"
  /\ xpc = "absent"
  /\ xpc' = "started"
  /\ UNCHANGED <<ctxtVars, opc, spinning, run_timer, worldVars>>

(* Spin joins the thread of SpinAsync, or is the spinning thread itself;   *)
(* it returns when the spinning has ended.                                 *)
Spin ==
  /\ opc = "ready"
  /\ opc' = "spin"
  /\ xpc' = IF xpc = "absent" THEN "started" ELSE xpc
  /\ UNCHANGED <<ctxtVars, spinning, run_timer, worldVars>>

SpinReturns ==
  /\ opc = "spin"
  /\ xpc = "ended"
  /\ opc' = "ready"
  /\ xpc' = "absent"
  /\ UNCHANGED <<ctxtVars, spinning, run_timer, worldVars>>

(* The destructor, up to the join: the executor is cancelled.  Native      *)
(* threads have returned from the bridge by then.                          *)
ResetNode ==
  /\ opc = "ready"
  /\ \A t \in Natives : task[t] = NoTask
  /\ spinning' = FALSE
  /\ opc' = "join"
  /\ UNCHANGED <<ctxtVars, xpc, run_timer, worldVars>>

(* The executor joined, the timers, subscribers, publishers, messages, the *)
(* broadcaster and the node are cleared.                                   *)
ClearNode ==
  /\ \/ opc = "join" /\ xpc \in {"absent", "ended"}
     \/ opc = "clear"
  /\ run_timer' = FALSE
  /\ opc' = "release"
  /\ UNCHANGED <<ctxtVars, xpc, spinning, worldVars>>

Destroyed ==
  /\ opc = "release"
  /\ ReleaseCtxt("bridge")
  /\ opc' = "gone"
  /\ UNCHANGED <<spinVars, worldVars>>

-----------------------------------------------------------------------------
(* The executor's loop *)

StartSpin ==
  /\ xpc = "started"
  /\ xpc' = "spinning"
  /\ spinning' = TRUE
  /\ UNCHANGED <<ctxtVars, opc, run_timer, worldVars>>

EndSpin ==
  /\ xpc = "spinning"
  /\ ~spinning \/ ~ctxt_ok
  /\ task["executor"] = NoTask
  /\ xpc' = "ended"
  /\ spinning' = FALSE
  /\ UNCHANGED <<ctxtVars, opc, run_timer, worldVars>>

-----------------------------------------------------------------------------
(* What the threads do with the server *)

Begin(t, op, pc, left) ==
  /\ task[t] = NoTask
  /\ calls < MaxCalls
  /\ calls' = calls + 1
  /\ task' = [task EXCEPT ![t] =
                [NoTask EXCEPT !.op = op, !.pc = pc, !.left = left]]
  /\ UNCHANGED <<ctxtVars, opc, spinVars, server_mutex,
                 timeVars, renderVars, msgVars, crashed>>

Callback(op, pc, left) ==
  /\ xpc = "spinning"
  /\ spinning
  /\ ctxt_ok
  /\ Begin("executor", op, pc, left)

(* The callbacks of the bridge: the run timer, a command, a reset_pose and *)
(* an odometry publisher.                                                  *)
RunTimer  == run_timer /\ Callback("run", "lock", 1)
Command   == Callback("command", "lock", 0)
ResetPose == Callback("reset_pose", "lock", ResetSteps)
Odometry  == Callback("odom", "stamp", 0)

(* A native thread steps under control, which first copies the states.     *)
WithServerLocked(t) ==
  /\ opc \in {"ready", "spin"}
  /\ \E left \in {0, 1} : Begin(t, "control", "lock", left)

Goto(t, pc) == task' = [task EXCEPT ![t].pc = pc]

\* Mutant: the states are copied without server_mutex_.
OdomStampOnly(t) ==
  /\ task[t].pc = "stamp"
  /\ task' = [task EXCEPT ![t].pc = "copy", ![t].stamp = elapsed_sim_time]
  /\ UNCHANGED <<ctxtVars, opc, spinVars, server_mutex, calls,
                 timeVars, renderVars, msgVars, crashed>>

OdomStamp(t) ==
  /\ task[t].pc = "stamp"
  /\ task' = [task EXCEPT ![t].pc = "lock", ![t].stamp = elapsed_sim_time]
  /\ UNCHANGED <<ctxtVars, opc, spinVars, server_mutex, calls,
                 timeVars, renderVars, msgVars, crashed>>

Lock(t) ==
  /\ task[t].pc = "lock"
  /\ server_mutex = Free
  /\ server_mutex' = t
  /\ Goto(t, IF task[t].op \in {"odom", "control"} THEN "copy" ELSE "work")
  /\ UNCHANGED <<ctxtVars, opc, spinVars, calls, timeVars,
                 renderVars, msgVars, crashed>>

(* An iteration is under way.                                              *)
InIteration == \E t \in Threads : task[t].pc = "post"

(* update_control_states, and the copy an odometry message is made from.   *)
UpdateControlStates(t) ==
  /\ task[t].pc = "copy"
  /\ control_states' = sim_iterations
  /\ task' = [task EXCEPT ![t].pc = "work",
                          ![t].of = IF InIteration THEN Torn ELSE sim_iterations]
  /\ UNCHANGED <<ctxtVars, opc, spinVars, server_mutex, calls,
                 sim_iterations, elapsed_sim_time, renderVars, msgVars, crashed>>

(* run_N: one iteration, in which an image is due or not (never, without   *)
(* sensors).                                                               *)
Iterate(t) ==
  /\ task[t].pc = "work"
  /\ task[t].left > 0
  /\ sim_iterations' = sim_iterations + 1
  /\ \E due \in BOOLEAN :
       task' = [task EXCEPT ![t].pc = IF due THEN "post" ELSE "work",
                            ![t].left = @ - 1]
  /\ UNCHANGED <<ctxtVars, opc, spinVars, server_mutex, calls,
                 elapsed_sim_time, control_states, renderVars, msgVars, crashed>>

PostUpdate(t) ==
  /\ task[t].pc = "post"
  /\ rpc = "idle"
  /\ rpc' = "render"
  /\ frame' = [NoFrame EXCEPT !.of = sim_iterations]
  /\ Goto(t, "work")
  /\ UNCHANGED <<ctxtVars, opc, spinVars, server_mutex, calls,
                 timeVars, msgVars, crashed>>

(* The run timer alone keeps the time, before the lock is released.        *)
Unlock(t) ==
  /\ task[t].pc = "work"
  /\ task[t].left = 0
  /\ server_mutex' = IF server_mutex = t THEN Free ELSE server_mutex
  /\ elapsed_sim_time' = IF task[t].op = "run" THEN sim_iterations
                         ELSE elapsed_sim_time
  /\ odom' = IF task[t].op = "odom"
             THEN [stamp |-> task[t].stamp, of |-> task[t].of] ELSE odom
  /\ task' = [task EXCEPT ![t] = NoTask]
  /\ UNCHANGED <<ctxtVars, opc, spinVars, calls, sim_iterations,
                 control_states, renderVars, image, crashed>>

-----------------------------------------------------------------------------
(* The image and lidar callbacks, on the render thread *)

Cleared == opc \in {"release", "gone"}

\* Mutant: the callback takes server_mutex_ as the others do.
ImageStampLocked ==
  /\ rpc = "render"
  /\ ~Cleared
  /\ server_mutex = Free
  /\ frame' = [frame EXCEPT !.stamp = elapsed_sim_time]
  /\ rpc' = "callback"
  /\ UNCHANGED <<ctxtVars, opc, spinVars, serverVars, timeVars,
                 msgVars, crashed>>

ImageStamp ==
  /\ rpc = "render"
  /\ ~Cleared
  /\ frame' = [frame EXCEPT !.stamp = elapsed_sim_time]
  /\ rpc' = "callback"
  /\ UNCHANGED <<ctxtVars, opc, spinVars, serverVars, timeVars,
                 msgVars, crashed>>

(* Image, camera information and the transform from the control states,    *)
(* which another thread may be writing.                                    *)
PublishImage ==
  /\ rpc = "callback"
  /\ ~Cleared
  /\ \E torn \in {FALSE, \E t \in Threads : task[t].pc = "copy"} :
       image' = [frame EXCEPT !.state = IF torn THEN Torn ELSE control_states]
  /\ frame' = NoFrame
  /\ rpc' = "idle"
  /\ UNCHANGED <<ctxtVars, opc, spinVars, serverVars, timeVars,
                 odom, crashed>>

(* A callback that finds the messages and publishers cleared.              *)
UseCleared ==
  /\ rpc # "idle"
  /\ Cleared
  /\ rpc' = "idle"
  /\ frame' = NoFrame
  /\ crashed' = TRUE
  /\ UNCHANGED <<ctxtVars, opc, spinVars, serverVars, timeVars,
                 msgVars>>

-----------------------------------------------------------------------------

OwnerCall == Construct \/ Run \/ Pause \/ SpinAsync \/ Spin \/ ResetNode
OwnerStep == MakeNode \/ Constructed \/ SpinReturns \/ ClearNode \/ Destroyed
ExecutorStep == StartSpin \/ EndSpin
ServerStep(t) ==
  \/ OdomStamp(t)
  \/ Lock(t)
  \/ UpdateControlStates(t)
  \/ Iterate(t)
  \/ PostUpdate(t)
  \/ Unlock(t)
RenderStep == ImageStamp \/ PublishImage \/ UseCleared

Next ==
  /\ ~crashed
  /\ \/ Peer
     \/ Host
     \/ OwnerCall
     \/ OwnerStep
     \/ ExecutorStep
     \/ RunTimer \/ Command \/ ResetPose \/ Odometry
     \/ \E t \in Natives : WithServerLocked(t)
     \/ \E t \in Threads : ServerStep(t)
     \/ RenderStep

Spec == Init /\ [][Next]_vars

-----------------------------------------------------------------------------

(* Each variable keeps its type; who holds server_mutex_ is in a call.     *)
TypeOK ==
  /\ {ctxt_ok, owns_ctxt, signalled, spinning, run_timer, crashed} \subseteq BOOLEAN
  /\ ctxt_users \subseteq Peers \cup {"bridge"}
  /\ opc \in {"none", "make", "warm", "ready", "spin", "join", "clear",
              "release", "gone"}
  /\ xpc \in {"absent", "started", "spinning", "ended"}
  /\ server_mutex \in Threads \cup {Free}
  /\ server_mutex # Free => task[server_mutex] # NoTask
  /\ \A t \in Threads : task[t].left \in 0 .. ResetSteps
  /\ {elapsed_sim_time, control_states, frame.of} \subseteq 0 .. sim_iterations
  /\ rpc \in {"idle", "render", "callback"}

(* Odometry is the state of one iteration, never of an earlier one than    *)
(* the message before it or its own stamp says, and stamps never go back.  *)
(* An image's stamp, and the state its transform is made of, are from      *)
(* before the next image's iteration: a consumer that orders messages by   *)
(* stamp never pairs an image with a later one.                            *)
MessagesInOrder ==
  [][/\ odom' # odom => /\ odom'.stamp <= odom'.of
                        /\ odom.stamp <= odom'.stamp
                        /\ odom.of <= odom'.of
     /\ image' # image => /\ image.stamp <= image'.stamp
                          /\ image.stamp < image'.of
                          /\ image.state < image'.of]_vars

(* Nothing ends the executor of a bridge except its own destructor and a   *)
(* shutdown of the context from outside: not the end of another bridge,    *)
(* whichever of them has made the context.                                 *)
ExecutorServes ==
  xpc = "ended" => signalled \/ opc \in {"join", "clear", "release", "gone"}

(* No thread waits for ever, although an iteration waits under              *)
(* server_mutex_ for a rendering whose callbacks run on another thread, and *)
(* the destructor for an executor whose callbacks take that mutex: when     *)
(* every thread has gone as far as it can, all calls have ended and the     *)
(* owner is in none, unless it spins.  The destructor hangs if the executor *)
(* began to spin only after it was cancelled, and no other way.             *)
NobodyStuck ==
  ~crashed
  /\ ~ENABLED (OwnerStep \/ ExecutorStep \/ RenderStep
               \/ \E t \in Threads : ServerStep(t))
  => /\ \A t \in Threads : task[t] = NoTask
     /\ rpc = "idle"
     /\ opc \in {"spin", "join"} => xpc = "spinning" /\ spinning
     /\ opc \in {"none", "ready", "spin", "join", "gone"}

=============================================================================
