-------------------------- MODULE RosBridge_proofs --------------------------
(***************************************************************************)
(* What ends an executor, and in which order the messages of a bridge are: *)
(* proofs about RosBridge for any number of bridges in the process and of  *)
(* native threads.                                                         *)
(***************************************************************************)
EXTENDS RosBridge, TLAPS

(* The owner may use the bridge, and the executor's callbacks may run.     *)
InUse == {"ready", "spin"}

Flags == {ctxt_ok, owns_ctxt, signalled, spinning} \subseteq BOOLEAN

(* From InitCtxt to ReleaseCtxt the bridge is counted.                     *)
Counted ==
  opc \in {"make", "warm", "join", "clear", "release"} \cup InUse =>
    "bridge" \in ctxt_users

(* A bridge that has a node has the context it was made in, until the      *)
(* context is shut down from outside.                                      *)
Attached == opc \in {"warm"} \cup InUse => ctxt_ok \/ signalled

(* Nothing lowers the flag of an executor while its bridge is in use, and  *)
(* there is no executor thread before that.                                *)
Serving ==
  /\ xpc = "spinning" /\ opc \in InUse => spinning
  /\ xpc # "absent" => opc \in {"join", "release", "gone"} \cup InUse

(* ExecutorServes is not inductive: why the flag is up and the context     *)
(* alive depends on who counts, and on when a node can exist.              *)
IInv == Flags /\ Counted /\ Attached /\ Serving /\ ExecutorServes

LEMMA InitIInv == Init => IInv
  BY DEF Init, IInv, Flags, Counted, Attached, Serving, ExecutorServes, InUse

(* Another bridge that comes or goes leaves the context alive as long as   *)
(* this one is counted.                                                    *)
LEMMA PeersLeaveContext ==
  ASSUME NEW p \in Peers, IInv, InitCtxt(p) \/ ReleaseCtxt(p)
  PROVE  /\ {ctxt_ok', owns_ctxt'} \subseteq BOOLEAN
         /\ "bridge" \in ctxt_users => "bridge" \in ctxt_users'
         /\ "bridge" \in ctxt_users /\ ctxt_ok => ctxt_ok'
         /\ signalled' = signalled
  <1>1. p # "bridge"
    BY BridgeAssumption
  <1>2. CASE InitCtxt(p)
    BY <1>2 DEF InitCtxt, IInv, Flags
  <1>3. CASE ReleaseCtxt(p)
    <2>1. "bridge" \in ctxt_users => "bridge" \in ctxt_users'
      BY <1>1, <1>3 DEF ReleaseCtxt
    <2>2. "bridge" \in ctxt_users => ctxt_ok' = ctxt_ok
      BY <2>1, <1>3 DEF ReleaseCtxt, IInv, Flags
    <2> QED
      BY <2>1, <2>2, <1>3 DEF ReleaseCtxt, IInv, Flags
  <1> QED
    BY <1>2, <1>3

(* What neither the context, the owner nor the executor's loop sees.       *)
LEMMA RestIInv ==
  ASSUME IInv, UNCHANGED <<ctxtVars, opc, xpc, spinning>>
  PROVE  IInv'
  BY DEF IInv, Flags, Counted, Attached, Serving, ExecutorServes, InUse, ctxtVars

LEMMA NextIInv == IInv /\ [Next]_vars => IInv'
  <1> SUFFICES ASSUME IInv, [Next]_vars
               PROVE  IInv'
    OBVIOUS
  <1>1. CASE Peer
    <2>1. PICK p \in Peers : InitCtxt(p) \/ ReleaseCtxt(p)
      BY <1>1 DEF Peer
    <2>2. UNCHANGED <<opc, xpc, spinning>>
      BY <1>1 DEF Peer, spinVars
    <2>3. /\ {ctxt_ok', owns_ctxt'} \subseteq BOOLEAN
          /\ "bridge" \in ctxt_users => "bridge" \in ctxt_users'
          /\ "bridge" \in ctxt_users /\ ctxt_ok => ctxt_ok'
          /\ signalled' = signalled
      BY <2>1, PeersLeaveContext
    <2> QED
      BY <2>2, <2>3 DEF IInv, Flags, Counted, Attached, Serving, ExecutorServes, InUse
  <1>2. CASE Host
    BY <1>2 DEF Host, spinVars, IInv, Flags, Counted, Attached, Serving,
                ExecutorServes, InUse
  <1>3. CASE OwnerCall
    <2>1. CASE Construct
      BY <2>1 DEF Construct, InitCtxt, spinVars, IInv, Flags, Counted, Attached,
                  Serving, ExecutorServes, InUse
    <2>2. CASE Run \/ Pause
      BY <2>2, RestIInv DEF Run, Pause
    <2>3. CASE SpinAsync \/ Spin
      BY <2>3 DEF SpinAsync, Spin, ctxtVars, IInv, Flags, Counted, Attached,
                  Serving, ExecutorServes, InUse
    <2>4. CASE ResetNode
      BY <2>4 DEF ResetNode, ctxtVars, IInv, Flags, Counted, Attached,
                  Serving, ExecutorServes, InUse
    <2> QED
      BY <1>3, <2>1, <2>2, <2>3, <2>4 DEF OwnerCall
  <1>4. CASE OwnerStep
    <2>1. CASE MakeNode
      BY <2>1 DEF MakeNode, ctxtVars, spinVars, IInv, Flags, Counted, Attached,
                  Serving, ExecutorServes, InUse
    <2>2. CASE Constructed
      BY <2>2 DEF Constructed, ctxtVars, spinVars, IInv, Flags, Counted, Attached,
                  Serving, ExecutorServes, InUse
    <2>3. CASE SpinReturns
      BY <2>3 DEF SpinReturns, ctxtVars, IInv, Flags, Counted, Attached,
                  Serving, ExecutorServes, InUse
    <2>4. CASE ClearNode
      BY <2>4 DEF ClearNode, ctxtVars, IInv, Flags, Counted, Attached,
                  Serving, ExecutorServes, InUse
    <2>5. CASE Destroyed
      BY <2>5 DEF Destroyed, ReleaseCtxt, spinVars, IInv, Flags, Counted, Attached,
                  Serving, ExecutorServes, InUse
    <2> QED
      BY <1>4, <2>1, <2>2, <2>3, <2>4, <2>5 DEF OwnerStep
  <1>5. CASE ExecutorStep
    <2>1. CASE StartSpin
      BY <2>1 DEF StartSpin, ctxtVars, IInv, Flags, Counted, Attached,
                  Serving, ExecutorServes, InUse
    <2>2. CASE EndSpin
      BY <2>2 DEF EndSpin, ctxtVars, IInv, Flags, Counted, Attached,
                  Serving, ExecutorServes, InUse
    <2> QED
      BY <1>5, <2>1, <2>2 DEF ExecutorStep
  <1>6. CASE RunTimer \/ Command \/ ResetPose \/ Odometry
    BY <1>6, RestIInv DEF RunTimer, Command, ResetPose, Odometry, Callback, Begin,
                          spinVars
  <1>7. CASE \E t \in Natives : WithServerLocked(t)
    BY <1>7, RestIInv DEF WithServerLocked, Begin, spinVars
  <1>8. CASE \E t \in Threads : ServerStep(t)
    <2>1. PICK t \in Threads : ServerStep(t)
      BY <1>8
    <2>2. UNCHANGED <<ctxtVars, opc, spinVars>>
      BY <2>1 DEF ServerStep, OdomStamp, Lock, UpdateControlStates, Iterate,
                  PostUpdate, Unlock
    <2> QED
      BY <2>2, RestIInv DEF spinVars
  <1>9. CASE RenderStep
    BY <1>9, RestIInv DEF RenderStep, ImageStamp, PublishImage, UseCleared, spinVars
  <1>10. CASE UNCHANGED vars
    BY <1>10, RestIInv DEF vars, spinVars
  <1> QED
    BY <1>1, <1>2, <1>3, <1>4, <1>5, <1>6, <1>7, <1>8, <1>9, <1>10 DEF Next

(* A bridge, its node and its executor have the context and the flag they  *)
(* need, whatever the other bridges and threads of the process do.         *)
THEOREM BridgeInvariant == Spec => []IInv
  BY InitIInv, NextIInv, PTL DEF Spec

(* The executor of a bridge ends by the bridge's destructor or by a        *)
(* shutdown from outside, never by the end of another bridge, however many *)
(* share the context that one of them has made (InitCtxt, ReleaseCtxt).    *)
THEOREM ExecutorsServe == Spec => []ExecutorServes
  <1>1. IInv => ExecutorServes
    BY DEF IInv
  <1> QED
    BY <1>1, BridgeInvariant, PTL

-----------------------------------------------------------------------------
(* The order of messages.  Threads are told apart by who has the server;   *)
(* iterations are numbers that only the one who has it raises.             *)
Tasks ==
  [op : {"none", "construct", "run", "command", "reset_pose", "odom", "control"},
   pc : {"idle", "stamp", "lock", "copy", "work", "post"},
   left : Nat, stamp : Nat, of : Int]

Typed ==
  /\ task \in [Threads -> Tasks]
  /\ sim_iterations \in Nat /\ elapsed_sim_time \in Nat /\ control_states \in Nat
  /\ frame \in [of : Nat, stamp : Nat, state : Int]
  /\ image \in [of : Nat, stamp : Nat, state : Int]
  /\ odom \in [stamp : Nat, of : Int]

Using(t) == task[t].pc \in {"copy", "work", "post"}

(* The server is used under server_mutex_, except by the constructor, when *)
(* there is no other thread.                                               *)
Excluded ==
  /\ \A t \in Threads : Using(t) => server_mutex = t \/ t = "owner"
  /\ task["owner"] # NoTask => opc = "warm" /\ task["owner"].op = "construct"
  /\ opc \in {"none", "make", "warm"} =>
       \A t \in Threads \ {"owner"} : task[t] = NoTask

(* Neither the clock of the run timer nor the control states are ahead of  *)
(* the server, and both are behind it while an iteration is under way.     *)
Clocks ==
  /\ elapsed_sim_time <= sim_iterations /\ control_states <= sim_iterations
  /\ \A t \in Threads : task[t].pc = "post" =>
       elapsed_sim_time < sim_iterations /\ control_states < sim_iterations

(* An odometry message under way is stamped between the last one and the   *)
(* clock, and has the state of the iteration the server is at.             *)
OdometryKept ==
  /\ odom.stamp <= elapsed_sim_time /\ odom.of <= sim_iterations
  /\ \A t \in Threads : task[t].op = "odom" =>
       /\ t = "executor" /\ task[t].left = 0 /\ task[t].pc # "post"
       /\ task[t].pc # "stamp" => /\ odom.stamp <= task[t].stamp
                                  /\ task[t].stamp <= elapsed_sim_time
       /\ task[t].pc = "work" => task[t].of = sim_iterations

(* The last image is behind the clock and the control states, and both of  *)
(* it are behind the iteration being rendered.                             *)
ImagesKept ==
  /\ image.stamp <= elapsed_sim_time /\ image.state <= control_states
  /\ rpc # "idle" => image.stamp < frame.of /\ image.state < frame.of
  /\ rpc = "callback" =>
       image.stamp <= frame.stamp /\ frame.stamp <= elapsed_sim_time

MInv == Typed /\ Excluded /\ Clocks /\ OdometryKept /\ ImagesKept

(* Only one thread at a time uses the server.                              *)
LEMMA OneUser ==
  ASSUME Typed, Excluded, NEW t \in Threads, NEW u \in Threads, Using(t), Using(u)
  PROVE  t = u
  <1>1. ASSUME NEW v \in Threads \ {"owner"}, Using(v)
        PROVE  server_mutex = v /\ opc # "warm"
    BY <1>1 DEF Excluded, Using, NoTask
  <1>2. Using("owner") => opc = "warm"
    BY DEF Excluded, Using, NoTask, Threads
  <1>3. QED BY <1>1, <1>2

(* What a callback or a native call begins with: x.                        *)
Begins(t, x) ==
  /\ task[t] = NoTask /\ task' = [task EXCEPT ![t] = x]
  /\ x.op \in {"run", "command", "reset_pose", "odom", "control"}
  /\ x.pc \in {"lock", "stamp"}
  /\ x.op = "odom" => t = "executor" /\ x.left = 0 /\ x.pc = "stamp"
  /\ opc \notin {"none", "make", "warm"}
  /\ UNCHANGED <<opc, server_mutex, timeVars, renderVars, msgVars>>

(* Every call that begins is of one of those threads and kinds, on a       *)
(* bridge that is constructed.                                             *)
LEMMA CallsBegin ==
  ASSUME IInv,
         \/ RunTimer \/ Command \/ ResetPose \/ Odometry
         \/ \E t \in Natives : WithServerLocked(t)
  PROVE  \E t \in Threads \ {"owner"}, x \in Tasks : Begins(t, x)
  <1>1. "executor" \in Threads \ {"owner"} /\ Natives \subseteq Threads \ {"owner"}
    BY BridgeAssumption DEF Threads
  <1>2. ASSUME NEW t \in Threads \ {"owner"},
               NEW op \in {"run", "command", "reset_pose", "odom", "control"},
               NEW pc \in {"lock", "stamp"}, NEW left \in Nat,
               op = "odom" => t = "executor" /\ left = 0 /\ pc = "stamp",
               opc \notin {"none", "make", "warm"}, Begin(t, op, pc, left)
        PROVE  \E u \in Threads \ {"owner"}, x \in Tasks : Begins(u, x)
    <2> DEFINE x == [NoTask EXCEPT !.op = op, !.pc = pc, !.left = left]
    <2>1. x \in Tasks /\ x.op = op /\ x.pc = pc /\ x.left = left
      <3>1. NoTask \in Tasks
        BY DEF NoTask, Tasks
      <3>2. QED BY <3>1 DEF Tasks
    <2> HIDE DEF x
    <2>2. Begins(t, x)
      BY <1>2, <2>1 DEF Begin, Begins, x
    <2>3. QED BY <2>1, <2>2
  <1>3. ASSUME NEW op, NEW pc, NEW left, Callback(op, pc, left)
        PROVE  opc \notin {"none", "make", "warm"} /\ Begin("executor", op, pc, left)
    BY <1>3 DEF Callback, IInv, Serving, InUse
  <1>4. CASE RunTimer
    BY <1>1, <1>2, <1>3, <1>4 DEF RunTimer
  <1>5. CASE Command
    BY <1>1, <1>2, <1>3, <1>5 DEF Command
  <1>6. CASE ResetPose
    BY <1>1, <1>2, <1>3, <1>6, BridgeAssumption DEF ResetPose
  <1>7. CASE Odometry
    BY <1>1, <1>2, <1>3, <1>7 DEF Odometry
  <1>8. ASSUME NEW t \in Natives, WithServerLocked(t)
        PROVE  \E u \in Threads \ {"owner"}, x \in Tasks : Begins(u, x)
    <2>1. PICK left \in {0, 1} : Begin(t, "control", "lock", left)
      BY <1>8 DEF WithServerLocked
    <2>2. opc \notin {"none", "make", "warm"}
      BY <1>8 DEF WithServerLocked
    <2>3. QED BY <1>1, <1>2, <2>1, <2>2
  <1>9. QED BY <1>4, <1>5, <1>6, <1>7, <1>8

(* The steps that matter here: the rest leaves the tasks, the iterations   *)
(* and the messages alone, and does not undo the construction.             *)
LEMMA StepKinds ==
  ASSUME IInv, [Next]_vars
  PROVE  \/ /\ UNCHANGED worldVars
            /\ opc' \in {"none", "make"} => opc \in {"none", "make"}
            /\ opc' # "warm" /\ opc = "warm" => task["owner"] = NoTask
            /\ opc' = "warm" => opc = "warm"
         \/ opc = "make" /\ MakeNode
         \/ \E t \in Threads \ {"owner"}, x \in Tasks : Begins(t, x)
         \/ \E t \in Threads : ServerStep(t)
         \/ RenderStep
  <1>1. CASE Peer \/ Host
    BY <1>1 DEF Peer, Host
  <1>2. CASE OwnerCall
    BY <1>2 DEF OwnerCall, Construct, Run, Pause, SpinAsync, Spin, ResetNode
  <1>3. CASE OwnerStep
    BY <1>3 DEF OwnerStep, MakeNode, Constructed, SpinReturns, ClearNode, Destroyed
  <1>4. CASE ExecutorStep
    BY <1>4 DEF ExecutorStep, StartSpin, EndSpin
  <1>5. CASE UNCHANGED vars
    BY <1>5 DEF vars
  <1>6. QED BY <1>1, <1>2, <1>3, <1>4, <1>5, CallsBegin DEF Next

(* The threads start without tasks and the messages empty.                 *)
LEMMA InitMessages == Init => MInv
  <1> SUFFICES ASSUME Init PROVE MInv
    OBVIOUS
  <1>1. NoTask \in Tasks /\ NoTask.pc = "idle" /\ NoTask.op = "none"
    BY DEF NoTask, Tasks
  <1>2. NoFrame \in [of : Nat, stamp : Nat, state : Int]
        /\ NoFrame.stamp = 0 /\ NoFrame.state = 0
    BY DEF NoFrame
  <1>3. \A t \in Threads : task[t] = NoTask
    BY DEF Init
  <1>4. Typed
    BY <1>1, <1>2 DEF Init, Typed
  <1>5. Excluded /\ Clocks /\ OdometryKept /\ ImagesKept
    BY <1>1, <1>2, <1>3 DEF Init, Excluded, Clocks, OdometryKept, ImagesKept, Using,
       Threads
  <1>6. QED BY <1>4, <1>5 DEF MInv

(* What a step of a thread at the server does to its own task, and that it *)
(* leaves the other tasks, the owner and the last image alone.             *)
LEMMA ServerSteps ==
  ASSUME Typed, NEW t \in Threads, ServerStep(t)
  PROVE  /\ UNCHANGED <<opc, image>> /\ task' \in [Threads -> Tasks]
         /\ \A u \in Threads : u # t => task'[u] = task[u]
         /\ \/ /\ OdomStamp(t) /\ task'[t].pc = "lock"
               /\ task'[t].stamp = elapsed_sim_time
            \/ /\ Lock(t) /\ task'[t].pc \in {"copy", "work"}
               /\ task[t].op = "odom" => task'[t].pc = "copy"
               /\ task'[t].stamp = task[t].stamp
            \/ /\ UpdateControlStates(t) /\ task'[t].pc = "work"
               /\ task'[t].stamp = task[t].stamp
               /\ ~InIteration => task'[t].of = sim_iterations
            \/ /\ Iterate(t) /\ task'[t].pc \in {"work", "post"}
               /\ task'[t].stamp = task[t].stamp
            \/ /\ PostUpdate(t) /\ task'[t].pc = "work"
               /\ task'[t].stamp = task[t].stamp /\ task'[t].of = task[t].of
            \/ Unlock(t) /\ task'[t] = NoTask
         /\ ~Unlock(t) => /\ task'[t].op = task[t].op
                          /\ task[t].left = 0 => task'[t].left = 0
  <1>1. UNCHANGED <<opc, image>>
    BY DEF ServerStep, OdomStamp, Lock, UpdateControlStates, Iterate, PostUpdate,
       Unlock, msgVars
  <1>2. task[t] \in Tasks /\ task \in [Threads -> Tasks]
    BY DEF Typed
  <1>3. ASSUME NEW x \in Tasks, task' = [task EXCEPT ![t] = x]
        PROVE  /\ task' \in [Threads -> Tasks] /\ task'[t] = x
               /\ \A u \in Threads : u # t => task'[u] = task[u]
    BY <1>2, <1>3
  <1>4. CASE OdomStamp(t)
    <2> DEFINE x == [task[t] EXCEPT !.pc = "lock", !.stamp = elapsed_sim_time]
    <2>1. /\ x \in Tasks /\ x.pc = "lock" /\ x.stamp = elapsed_sim_time
          /\ x.op = task[t].op /\ x.left = task[t].left
      BY <1>2 DEF Tasks, Typed
    <2>2. task' = [task EXCEPT ![t] = x]
      BY <1>2, <1>4 DEF OdomStamp
    <2> HIDE DEF x
    <2>3. /\ task' \in [Threads -> Tasks] /\ task'[t] = x
          /\ \A u \in Threads : u # t => task'[u] = task[u]
      BY <1>3, <2>1, <2>2
    <2>4. QED BY <1>1, <1>4, <2>1, <2>3
  <1>5. CASE Lock(t) \/ PostUpdate(t)
    <2>1. PICK pc \in {"copy", "work"} :
            /\ task' = [task EXCEPT ![t].pc = pc]
            /\ Lock(t) /\ task[t].op = "odom" => pc = "copy"
            /\ PostUpdate(t) => pc = "work"
      BY <1>5 DEF Lock, PostUpdate, Goto
    <2> DEFINE x == [task[t] EXCEPT !.pc = pc]
    <2>2. /\ x \in Tasks /\ x.pc = pc /\ x.stamp = task[t].stamp
          /\ x.op = task[t].op /\ x.left = task[t].left /\ x.of = task[t].of
      BY <1>2 DEF Tasks
    <2>3. task' = [task EXCEPT ![t] = x]
      BY <1>2, <2>1
    <2> HIDE DEF x
    <2>4. /\ task' \in [Threads -> Tasks] /\ task'[t] = x
          /\ \A u \in Threads : u # t => task'[u] = task[u]
      BY <1>3, <2>2, <2>3
    <2>5. QED BY <1>1, <1>5, <2>1, <2>2, <2>4
  <1>6. CASE UpdateControlStates(t)
    <2> DEFINE of == IF InIteration THEN Torn ELSE sim_iterations
               x == [task[t] EXCEPT !.pc = "work", !.of = of]
    <2>1. of \in Int
      BY DEF Torn, Typed
    <2>2. task' = [task EXCEPT ![t] = x]
      BY <1>2, <1>6 DEF UpdateControlStates
    <2>3. ~InIteration => of = sim_iterations
      OBVIOUS
    <2> HIDE DEF of
    <2>4. /\ x \in Tasks /\ x.pc = "work" /\ x.stamp = task[t].stamp
          /\ x.op = task[t].op /\ x.left = task[t].left /\ x.of = of
      BY <1>2, <2>1 DEF Tasks
    <2> HIDE DEF x
    <2>5. /\ task' \in [Threads -> Tasks] /\ task'[t] = x
          /\ \A u \in Threads : u # t => task'[u] = task[u]
      BY <1>3, <2>2, <2>4
    <2>6. QED BY <1>1, <1>6, <2>3, <2>4, <2>5
  <1>7. CASE Iterate(t)
    <2>1. PICK pc \in {"post", "work"} :
            task' = [task EXCEPT ![t].pc = pc, ![t].left = @ - 1]
      BY <1>7 DEF Iterate
    <2> DEFINE x == [task[t] EXCEPT !.pc = pc, !.left = task[t].left - 1]
    <2>2. task[t].left - 1 \in Nat /\ task[t].left # 0
      BY <1>2, <1>7 DEF Tasks, Iterate
    <2>3. task' = [task EXCEPT ![t] = x]
      BY <1>2, <2>1
    <2>4. /\ x \in Tasks /\ x.pc = pc /\ x.stamp = task[t].stamp
          /\ x.op = task[t].op
      BY <1>2, <2>2 DEF Tasks
    <2> HIDE DEF x
    <2>5. /\ task' \in [Threads -> Tasks] /\ task'[t] = x
          /\ \A u \in Threads : u # t => task'[u] = task[u]
      BY <1>3, <2>3, <2>4
    <2>6. QED BY <1>1, <1>7, <2>2, <2>4, <2>5
  <1>8. CASE Unlock(t)
    <2>1. NoTask \in Tasks
      BY DEF NoTask, Tasks
    <2>2. task' = [task EXCEPT ![t] = NoTask]
      BY <1>8 DEF Unlock
    <2>3. QED BY <1>1, <1>3, <1>8, <2>1, <2>2
  <1>9. QED BY <1>4, <1>5, <1>6, <1>7, <1>8 DEF ServerStep

(* The constructor's own task: it has the server to itself.                *)
LEMMA Constructing ==
  ASSUME Typed, MakeNode
  PROVE  /\ task' \in [Threads -> Tasks] /\ opc' \in {"warm", "clear"}
         /\ \A u \in Threads : u # "owner" => task'[u] = task[u]
         /\ \/ task' = task /\ opc' = "clear"
            \/ /\ task'["owner"].op = "construct" /\ task'["owner"].pc = "work"
               /\ opc' = "warm"
         /\ UNCHANGED <<server_mutex, timeVars, renderVars, msgVars>>
  <1> DEFINE x == [NoTask EXCEPT !.op = "construct", !.pc = "work", !.left = 1]
  <1>1. NoTask \in Tasks
    BY DEF NoTask, Tasks
  <1>2. task' = task \/ task' = [task EXCEPT !["owner"] = x]
    BY DEF MakeNode
  <1>4. "owner" \in Threads /\ task \in [Threads -> Tasks]
    BY DEF Threads, Typed
  <1>5. opc' \in {"warm", "clear"} /\ (opc' = "clear" => task' = task)
    BY DEF MakeNode
  <1>6. opc' = "warm" => task' = [task EXCEPT !["owner"] = x]
    BY DEF MakeNode
  <1>7. UNCHANGED <<server_mutex, timeVars, renderVars, msgVars>>
    BY DEF MakeNode
  <1>8. x \in Tasks /\ x.op = "construct" /\ x.pc = "work"
    BY <1>1 DEF Tasks
  <1> HIDE DEF x
  <1>9. QED BY <1>4, <1>5, <1>6, <1>7, <1>8

(* Every step keeps the types.                                             *)
LEMMA TypedStep == ASSUME Typed, IInv, [Next]_vars PROVE Typed'
  <1>1. CASE UNCHANGED worldVars
    BY <1>1 DEF Typed, worldVars, serverVars, timeVars, renderVars, msgVars
  <1>2. CASE MakeNode
    BY <1>2, Constructing DEF Typed, timeVars, renderVars, msgVars
  <1>3. ASSUME NEW t \in Threads \ {"owner"}, NEW x \in Tasks, Begins(t, x)
        PROVE  Typed'
    BY <1>3 DEF Begins, Typed, timeVars, renderVars, msgVars
  <1>4. ASSUME NEW t \in Threads, ServerStep(t)
        PROVE  Typed'
    <2>1. task' \in [Threads -> Tasks] /\ image' = image
      BY <1>4, ServerSteps
    <2>2. CASE OdomStamp(t) \/ Lock(t)
      BY <2>1, <2>2 DEF OdomStamp, Lock, Typed, timeVars, renderVars, msgVars
    <2>3. CASE UpdateControlStates(t) \/ Iterate(t)
      BY <2>1, <2>3 DEF UpdateControlStates, Iterate, Typed, renderVars, msgVars
    <2>4. CASE PostUpdate(t)
      <3>1. frame' \in [of : Nat, stamp : Nat, state : Int]
        <4>1. frame' = [NoFrame EXCEPT !.of = sim_iterations]
          BY <2>4 DEF PostUpdate
        <4>2. NoFrame \in [of : Nat, stamp : Nat, state : Int]
          BY DEF NoFrame
        <4>3. QED BY <4>1, <4>2 DEF Typed
      <3>2. QED BY <2>1, <2>4, <3>1 DEF PostUpdate, Typed, timeVars, msgVars
    <2>5. CASE Unlock(t)
      <3>1. task[t] \in Tasks
        BY DEF Typed
      <3>2. [stamp |-> task[t].stamp, of |-> task[t].of] \in [stamp : Nat, of : Int]
        BY <3>1 DEF Tasks
      <3>3. odom' \in [stamp : Nat, of : Int]
        BY <2>5, <3>2 DEF Unlock, Typed
      <3>4. elapsed_sim_time' \in Nat /\ UNCHANGED <<sim_iterations, control_states>>
        BY <2>5 DEF Unlock, Typed
      <3>5. QED BY <2>1, <2>5, <3>3, <3>4 DEF Unlock, Typed, renderVars
    <2>6. QED BY <1>4, <2>2, <2>3, <2>4, <2>5 DEF ServerStep
  <1>5. CASE RenderStep
    <2>1. UNCHANGED <<task, timeVars, odom>>
      BY <1>5 DEF RenderStep, ImageStamp, PublishImage, UseCleared, serverVars, msgVars
    <2>2. frame' \in [of : Nat, stamp : Nat, state : Int]
      BY <1>5 DEF RenderStep, ImageStamp, PublishImage, UseCleared, NoFrame, Typed
    <2>3. image' \in [of : Nat, stamp : Nat, state : Int]
      <3>1. CASE PublishImage
        <4>1. PICK state \in {Torn, control_states} :
                image' = [frame EXCEPT !.state = state]
          BY <3>1 DEF PublishImage
        <4>2. state \in Int
          BY DEF Torn, Typed
        <4>3. QED BY <4>1, <4>2 DEF Typed
      <3>2. CASE ImageStamp \/ UseCleared
        BY <3>2 DEF ImageStamp, UseCleared, Typed, msgVars
      <3>3. QED BY <1>5, <3>1, <3>2 DEF RenderStep
    <2>4. QED BY <2>1, <2>2, <2>3 DEF Typed, timeVars
  <1>6. QED BY <1>1, <1>2, <1>3, <1>4, <1>5, StepKinds

(* Every step keeps the threads apart: a thread goes to the server from    *)
(* "lock", when nobody holds the mutex, or as the constructor.             *)
LEMMA ExcludedStep == ASSUME Typed, IInv, Excluded, [Next]_vars PROVE Excluded'
  <1>0. "owner" \in Threads /\ NoTask.pc = "idle" /\ NoTask.op = "none"
        /\ NoTask.left = 0
    BY DEF Threads, NoTask
  <1>1. CASE /\ UNCHANGED worldVars
             /\ opc' \in {"none", "make"} => opc \in {"none", "make"}
             /\ opc' # "warm" /\ opc = "warm" => task["owner"] = NoTask
             /\ opc' = "warm" => opc = "warm"
    <2>1. UNCHANGED <<server_mutex, task>>
      BY <1>1 DEF worldVars, serverVars
    <2>2. QED BY <1>1, <2>1 DEF Excluded, Using
  <1>2. CASE opc = "make" /\ MakeNode
    BY <1>0, <1>2, Constructing DEF Excluded, Using
  <1>3. ASSUME NEW t \in Threads \ {"owner"}, NEW x \in Tasks, Begins(t, x)
        PROVE  Excluded'
    BY <1>0, <1>3 DEF Begins, Excluded, Using, Typed
  <1>4. ASSUME NEW t \in Threads, ServerStep(t)
        PROVE  Excluded'
    <2>1. opc' = opc /\ \A u \in Threads : u # t => task'[u] = task[u]
      BY <1>4, ServerSteps
    <2>2. task'[t] = NoTask \/ task'[t].op = task[t].op
      <3>1. CASE Unlock(t)
        BY <3>1 DEF Unlock, Typed
      <3>2. CASE ~Unlock(t)
        BY <1>4, <3>2, ServerSteps
      <3>3. QED BY <3>1, <3>2
    <2>3. task[t] # NoTask
      BY <1>0, <1>4 DEF ServerStep, OdomStamp, Lock, UpdateControlStates, Iterate,
         PostUpdate, Unlock, Using
    <2>4. /\ task'["owner"] # NoTask => opc' = "warm" /\ task'["owner"].op = "construct"
          /\ opc' \in {"none", "make", "warm"} =>
               \A u \in Threads \ {"owner"} : task'[u] = NoTask
      <3>1. CASE t = "owner"
        BY <2>1, <2>2, <2>3, <3>1 DEF Excluded
      <3>2. CASE t # "owner"
        <4>1. opc \notin {"none", "make", "warm"}
          BY <2>3, <3>2 DEF Excluded
        <4>2. task'["owner"] = task["owner"]
          BY <1>0, <2>1, <3>2
        <4>3. QED BY <2>1, <4>1, <4>2 DEF Excluded
      <3>3. QED BY <3>1, <3>2
    <2>5. SUFFICES \A u \in Threads : Using(u)' => server_mutex' = u \/ u = "owner"
      BY <2>4 DEF Excluded
    <2>6. \A u \in Threads : u # t => (Using(u)' <=> Using(u))
      BY <2>1 DEF Using
    <2>7. CASE Lock(t)
      <3>1. server_mutex = Free /\ server_mutex' = t
        BY <2>7 DEF Lock
      <3>2. \A u \in Threads : u # "owner" => u # Free
        BY BridgeAssumption DEF Threads, Free
      <3>3. QED BY <2>6, <3>1, <3>2 DEF Excluded
    <2>8. CASE OdomStamp(t)
      <3>1. server_mutex' = server_mutex
        BY <2>8 DEF OdomStamp
      <3>2. task'[t].pc = "lock"
        BY <2>8, <1>0 DEF OdomStamp, Typed
      <3>3. QED BY <2>6, <3>1, <3>2 DEF Excluded, Using
    <2>9. CASE UpdateControlStates(t) \/ Iterate(t) \/ PostUpdate(t)
      <3>1. Using(t) /\ server_mutex' = server_mutex
        BY <2>9 DEF UpdateControlStates, Iterate, PostUpdate, Using, serverVars
      <3>2. QED BY <2>6, <3>1 DEF Excluded
    <2>10. CASE Unlock(t)
      <3>1. Using(t)
        BY <2>10 DEF Unlock, Using
      <3>2. \A u \in Threads : Using(u) => u = t
        BY <3>1, OneUser
      <3>3. ~Using(t)'
        BY <1>0, <2>10 DEF Unlock, Using, Typed
      <3>4. QED BY <2>6, <3>2, <3>3
    <2>11. QED BY <1>4, <2>7, <2>8, <2>9, <2>10 DEF ServerStep
  <1>5. CASE RenderStep
    BY <1>5 DEF RenderStep, ImageStamp, PublishImage, UseCleared, serverVars, Excluded,
       Using
  <1>6. QED BY <1>1, <1>2, <1>3, <1>4, <1>5, StepKinds

(* Every step keeps the clocks behind the server.  Whoever moves them or   *)
(* the server is the only one there.                                       *)
LEMMA ClocksStep ==
  ASSUME Typed, Excluded, IInv, Clocks, [Next]_vars
  PROVE  Clocks'
  <1>0. NoTask.pc = "idle"
    BY DEF NoTask
  <1>1. CASE UNCHANGED worldVars
    BY <1>1 DEF Clocks, worldVars, serverVars, timeVars
  <1>2. CASE MakeNode
    <2>1. \A u \in Threads : task'[u].pc = "post" => task[u].pc = "post"
      BY <1>2, Constructing
    <2>2. UNCHANGED timeVars
      BY <1>2 DEF MakeNode
    <2>3. QED BY <2>1, <2>2 DEF Clocks, timeVars
  <1>3. ASSUME NEW t \in Threads \ {"owner"}, NEW x \in Tasks, Begins(t, x)
        PROVE  Clocks'
    BY <1>3 DEF Begins, Clocks, Typed, timeVars
  <1>4. ASSUME NEW t \in Threads, ServerStep(t)
        PROVE  Clocks'
    <2>1. \A u \in Threads : u # t => task'[u] = task[u]
      BY <1>4, ServerSteps
    <2>2. \A u \in Threads : u # t /\ task[u].pc = "post" /\ Using(t) => FALSE
      BY OneUser DEF Using
    <2>3. CASE OdomStamp(t) \/ Lock(t) \/ PostUpdate(t)
      <3>1. task'[t].pc # "post" /\ UNCHANGED timeVars
        <4>1. CASE OdomStamp(t)
          BY <4>1 DEF OdomStamp, Typed
        <4>2. CASE Lock(t)
          BY <4>2 DEF Lock, Goto, Typed
        <4>3. CASE PostUpdate(t)
          BY <4>3 DEF PostUpdate, Goto, Typed
        <4>4. QED BY <2>3, <4>1, <4>2, <4>3
      <3>2. QED BY <2>1, <3>1 DEF Clocks, timeVars
    <2>4. CASE UpdateControlStates(t) \/ Unlock(t)
      <3>1. /\ Using(t) /\ task'[t].pc # "post" /\ sim_iterations' = sim_iterations
            /\ control_states' \in {control_states, sim_iterations}
            /\ elapsed_sim_time' \in {elapsed_sim_time, sim_iterations}
        <4>1. CASE UpdateControlStates(t)
          BY <4>1 DEF UpdateControlStates, Using, Typed
        <4>2. CASE Unlock(t)
          BY <1>0, <4>2 DEF Unlock, Using, Typed
        <4>3. QED BY <2>4, <4>1, <4>2
      <3>2. \A u \in Threads : task'[u].pc # "post"
        BY <2>1, <2>2, <3>1
      <3>3. QED BY <3>1, <3>2 DEF Clocks, Typed
    <2>5. CASE Iterate(t)
      <3>1. /\ sim_iterations' = sim_iterations + 1
            /\ UNCHANGED <<elapsed_sim_time, control_states>>
        BY <2>5 DEF Iterate
      <3>2. QED BY <3>1 DEF Clocks, Typed
    <2>6. QED BY <1>4, <2>3, <2>4, <2>5 DEF ServerStep
  <1>5. CASE RenderStep
    BY <1>5 DEF RenderStep, ImageStamp, PublishImage, UseCleared, serverVars, timeVars,
       Clocks
  <1>6. QED BY <1>1, <1>2, <1>3, <1>4, <1>5, StepKinds

(* Every step keeps the odometry message under way between the last one    *)
(* and the clock.                                                          *)
LEMMA OdometryStep ==
  ASSUME Typed, Excluded, IInv, Clocks, OdometryKept, [Next]_vars
  PROVE  OdometryKept'
  <1>0. NoTask.op = "none"
    BY DEF NoTask
  <1>1. CASE UNCHANGED worldVars
    BY <1>1 DEF OdometryKept, worldVars, serverVars, timeVars, msgVars
  <1>2. CASE MakeNode
    <2>1. \A u \in Threads : task'[u].op = "odom" => task'[u] = task[u]
      BY <1>2, Constructing
    <2>2. UNCHANGED <<timeVars, msgVars>>
      BY <1>2 DEF MakeNode
    <2>3. QED BY <2>1, <2>2 DEF OdometryKept, timeVars, msgVars
  <1>3. ASSUME NEW t \in Threads \ {"owner"}, NEW x \in Tasks, Begins(t, x)
        PROVE  OdometryKept'
    <2>1. task'[t] = x /\ \A u \in Threads : u # t => task'[u] = task[u]
      BY <1>3 DEF Begins, Typed
    <2>2. UNCHANGED <<odom, elapsed_sim_time, sim_iterations>>
      BY <1>3 DEF Begins, timeVars, msgVars
    <2>3. QED BY <1>3, <2>1, <2>2 DEF Begins, OdometryKept
  <1>4. ASSUME NEW t \in Threads, ServerStep(t)
        PROVE  OdometryKept'
    <2>1. \A u \in Threads : u # t => task'[u] = task[u]
      BY <1>4, ServerSteps
    <2>2. \A u \in Threads : u # t /\ Using(u) /\ Using(t) => FALSE
      BY OneUser
    <2>3. ~Unlock(t) => /\ odom' = odom /\ elapsed_sim_time' = elapsed_sim_time
                        /\ task'[t].op = task[t].op
                        /\ task[t].left = 0 => task'[t].left = 0
      BY <1>4, ServerSteps DEF ServerStep, OdomStamp, Lock, UpdateControlStates,
         Iterate, PostUpdate, timeVars, msgVars
    <2>4. CASE OdomStamp(t)
      <3>1. /\ ~Unlock(t) /\ sim_iterations' = sim_iterations
            /\ task'[t].pc = "lock" /\ task'[t].stamp = elapsed_sim_time
        BY <2>4 DEF OdomStamp, Unlock, timeVars, Typed
      <3>2. QED BY <2>1, <2>3, <3>1 DEF OdometryKept, Typed
    <2>5. CASE Lock(t)
      <3>1. /\ ~Unlock(t) /\ sim_iterations' = sim_iterations /\ task[t].pc # "stamp"
            /\ task[t].op = "odom" => task'[t].pc = "copy"
            /\ task'[t].stamp = task[t].stamp
        BY <2>5 DEF Lock, Goto, Unlock, timeVars, Typed
      <3>2. QED BY <2>1, <2>3, <3>1 DEF OdometryKept
    <2>6. CASE UpdateControlStates(t)
      <3>1. Using(t) /\ task[t].pc # "post"
        BY <2>6 DEF UpdateControlStates, Using
      <3>2. ~InIteration
        BY <2>2, <3>1 DEF InIteration, Using
      <3>3. /\ ~Unlock(t) /\ sim_iterations' = sim_iterations /\ task[t].pc = "copy"
            /\ task'[t].pc = "work" /\ task'[t].of = sim_iterations
            /\ task'[t].stamp = task[t].stamp
        BY <2>6, <3>2 DEF UpdateControlStates, Unlock, Typed
      <3>4. QED BY <2>1, <2>3, <3>3 DEF OdometryKept
    <2>7. CASE Iterate(t)
      <3>1. /\ Using(t) /\ ~Unlock(t) /\ task[t].left > 0
            /\ sim_iterations' = sim_iterations + 1
        BY <2>7 DEF Iterate, Unlock, Using
      <3>2. task[t].op # "odom" /\ task'[t].op # "odom"
        BY <2>3, <3>1 DEF OdometryKept
      <3>3. \A u \in Threads : u # t => task[u].pc # "work"
        BY <2>2, <3>1 DEF Using
      <3>4. odom.of <= sim_iterations'
        BY <3>1 DEF OdometryKept, Typed
      <3>5. QED BY <2>1, <2>3, <3>1, <3>2, <3>3, <3>4 DEF OdometryKept
    <2>8. CASE PostUpdate(t)
      <3>1. ~Unlock(t) /\ sim_iterations' = sim_iterations /\ task[t].pc = "post"
        BY <2>8 DEF PostUpdate, Unlock, timeVars
      <3>2. task[t].op # "odom" /\ task'[t].op # "odom"
        BY <2>3, <3>1 DEF OdometryKept
      <3>3. QED BY <2>1, <2>3, <3>1, <3>2 DEF OdometryKept
    <2>9. CASE Unlock(t)
      <3>1. /\ Using(t) /\ sim_iterations' = sim_iterations /\ task[t].pc = "work"
            /\ elapsed_sim_time' \in {elapsed_sim_time, sim_iterations}
            /\ task'[t] = NoTask
        BY <2>9 DEF Unlock, Using, Typed
      <3>2. elapsed_sim_time <= elapsed_sim_time'
        BY <3>1 DEF Clocks, Typed
      <3>3. odom'.stamp <= elapsed_sim_time /\ odom'.of <= sim_iterations
        <4>1. CASE task[t].op = "odom"
          <5>1. odom'.stamp = task[t].stamp /\ odom'.of = task[t].of
            BY <2>9, <4>1 DEF Unlock
          <5>2. QED BY <3>1, <4>1, <5>1 DEF OdometryKept, Typed
        <4>2. CASE task[t].op # "odom"
          BY <2>9, <4>2 DEF Unlock, OdometryKept
        <4>3. QED BY <4>1, <4>2
      <3>4. ASSUME NEW u \in Threads, task'[u].op = "odom"
            PROVE  /\ u # t /\ task'[u] = task[u]
        BY <1>0, <2>1, <3>1, <3>4
      <3>5. task[t].op # "odom" \/ \A u \in Threads : task'[u].op # "odom"
        BY <3>4 DEF OdometryKept
      <3>6. task[t].op # "odom" => odom' = odom
        BY <2>9 DEF Unlock
      <3>7. odom'.stamp <= elapsed_sim_time' /\ odom'.of <= sim_iterations'
        BY <3>1, <3>2, <3>3, TypedStep DEF Typed
      <3>8. ASSUME NEW u \in Threads, task'[u].op = "odom"
            PROVE  /\ u = "executor" /\ task'[u].left = 0 /\ task'[u].pc # "post"
                   /\ task'[u].pc # "stamp" => /\ odom'.stamp <= task'[u].stamp
                                               /\ task'[u].stamp <= elapsed_sim_time'
                   /\ task'[u].pc = "work" => task'[u].of = sim_iterations'
        <4>1. task'[u] = task[u] /\ odom' = odom
          BY <3>4, <3>5, <3>6, <3>8
        <4>2. task[u].stamp \in Nat
          BY DEF Typed, Tasks
        <4>3. task[u].stamp <= elapsed_sim_time => task[u].stamp <= elapsed_sim_time'
          BY <3>1, <3>2, <4>2 DEF Typed
        <4>4. QED BY <3>1, <3>8, <4>1, <4>3 DEF OdometryKept
      <3>9. QED BY <3>7, <3>8 DEF OdometryKept
    <2>10. QED BY <1>4, <2>4, <2>5, <2>6, <2>7, <2>8, <2>9 DEF ServerStep
  <1>5. CASE RenderStep
    BY <1>5 DEF RenderStep, ImageStamp, PublishImage, UseCleared, serverVars, timeVars,
       msgVars, OdometryKept
  <1>6. QED BY <1>1, <1>2, <1>3, <1>4, <1>5, StepKinds

(* Every step keeps the last image behind what is being rendered.  A frame *)
(* is handed over at an iteration that neither the clock nor the control   *)
(* states have reached.                                                    *)
LEMMA ImagesStep ==
  ASSUME Typed, Typed', Excluded, IInv, Clocks, ImagesKept, [Next]_vars
  PROVE  ImagesKept'
  <1> USE DEF ImagesKept
  <1>1. CASE UNCHANGED worldVars
    BY <1>1 DEF worldVars, timeVars, renderVars, msgVars
  <1>2. CASE MakeNode
    BY <1>2 DEF MakeNode, timeVars, renderVars, msgVars
  <1>3. ASSUME NEW t \in Threads \ {"owner"}, NEW x \in Tasks, Begins(t, x)
        PROVE  ImagesKept'
    BY <1>3 DEF Begins, timeVars, renderVars, msgVars
  <1>4. ASSUME NEW t \in Threads, ServerStep(t)
        PROVE  ImagesKept'
    <2>1. image' = image
      BY <1>4, ServerSteps
    <2>2. CASE OdomStamp(t) \/ Lock(t) \/ Iterate(t)
      BY <2>1, <2>2 DEF OdomStamp, Lock, Iterate, timeVars, renderVars
    <2>3. CASE UpdateControlStates(t)
      BY <2>1, <2>3 DEF UpdateControlStates, renderVars, Clocks, Typed
    <2>4. CASE PostUpdate(t)
      <3>1. /\ elapsed_sim_time < sim_iterations /\ control_states < sim_iterations
            /\ frame'.of = sim_iterations /\ rpc' = "render" /\ UNCHANGED timeVars
        BY <2>4 DEF PostUpdate, NoFrame, Clocks
      <3>2. QED BY <2>1, <3>1 DEF Typed, timeVars
    <2>5. CASE Unlock(t)
      <3>1. elapsed_sim_time <= elapsed_sim_time' /\ control_states' = control_states
        BY <2>5 DEF Unlock, Clocks, Typed
      <3>2. QED BY <2>1, <2>5, <3>1 DEF Unlock, renderVars, Typed
    <2>6. QED BY <1>4, <2>2, <2>3, <2>4, <2>5 DEF ServerStep
  <1>5. CASE ImageStamp
    <2>1. /\ frame'.stamp = elapsed_sim_time /\ frame'.of = frame.of
          /\ rpc # "idle" /\ rpc' = "callback" /\ UNCHANGED <<timeVars, image>>
      BY <1>5 DEF ImageStamp, Typed, msgVars
    <2>2. QED BY <2>1 DEF timeVars, Typed
  <1>6. CASE PublishImage
    <2>1. PICK state \in {Torn, control_states} : image' = [frame EXCEPT !.state = state]
      BY <1>6 DEF PublishImage
    <2>2. /\ image'.stamp = frame.stamp /\ image'.state \in {Torn, control_states}
          /\ rpc = "callback" /\ rpc' = "idle" /\ UNCHANGED timeVars
      BY <1>6, <2>1 DEF PublishImage, Typed
    <2>3. QED BY <2>2 DEF timeVars, Typed, Torn
  <1>7. CASE UseCleared
    BY <1>7 DEF UseCleared, timeVars, msgVars
  <1>8. QED BY <1>1, <1>2, <1>3, <1>4, <1>5, <1>6, <1>7, StepKinds DEF RenderStep

(* Who has the server, how far the clocks and the control states are, and  *)
(* where the messages under way are between them.                          *)
THEOREM MessageInvariant == Spec => []MInv
  <1>1. IInv /\ MInv /\ [Next]_vars => MInv'
    <2> SUFFICES ASSUME IInv, MInv, [Next]_vars PROVE MInv'
      OBVIOUS
    <2>1. Typed /\ Excluded /\ Clocks /\ OdometryKept /\ ImagesKept
      BY DEF MInv
    <2>2. Typed'
      BY <2>1, TypedStep
    <2>3. QED BY <2>1, <2>2, ExcludedStep, ClocksStep, OdometryStep, ImagesStep DEF MInv
  <1>2. QED BY <1>1, InitMessages, BridgeInvariant, PTL DEF Spec

(* Odometry and images are published in the order of their stamps and of   *)
(* the iterations they show, each odometry message of one iteration, and   *)
(* an image never with a stamp or a transform of a later image's iteration *)
(* (odometry timer and callbacks of SetupDRLServer), for any number of     *)
(* native threads that step the server in between.                         *)
THEOREM OrderKept == Spec => MessagesInOrder
  <1> DEFINE Order == /\ odom' # odom => /\ odom'.stamp <= odom'.of
                                         /\ odom.stamp <= odom'.stamp
                                         /\ odom.of <= odom'.of
                      /\ image' # image => /\ image.stamp <= image'.stamp
                                           /\ image.stamp < image'.of
                                           /\ image.state < image'.of
  <1>1. IInv /\ MInv /\ [Next]_vars => [Order]_vars
    <2> SUFFICES ASSUME IInv, MInv, [Next]_vars PROVE Order
      OBVIOUS
    <2>0. Typed /\ Excluded /\ Clocks /\ OdometryKept /\ ImagesKept
      BY DEF MInv
    <2>1. CASE UNCHANGED msgVars
      BY <2>1 DEF msgVars
    <2>2. ASSUME NEW t \in Threads, Unlock(t), odom' # odom
          PROVE  Order
      <3>1. /\ task[t].op = "odom" /\ task[t].pc = "work" /\ image' = image
            /\ odom'.stamp = task[t].stamp /\ odom'.of = task[t].of
        BY <2>2 DEF Unlock
      <3>2. /\ odom.stamp <= task[t].stamp /\ task[t].stamp <= elapsed_sim_time
            /\ task[t].of = sim_iterations
        BY <2>0, <3>1 DEF OdometryKept
      <3>3. task[t].stamp \in Nat
        BY <2>0 DEF Typed, Tasks
      <3>4. QED BY <2>0, <3>1, <3>2, <3>3 DEF OdometryKept, Clocks, Typed
    <2>3. CASE PublishImage
      <3>1. PICK state \in {Torn, control_states} :
              image' = [frame EXCEPT !.state = state]
        BY <2>3 DEF PublishImage
      <3>2. /\ image'.stamp = frame.stamp /\ image'.of = frame.of
            /\ rpc = "callback" /\ odom' = odom
        BY <2>0, <2>3, <3>1 DEF PublishImage, Typed
      <3>3. QED BY <2>0, <3>2 DEF ImagesKept
    <2>4. ASSUME NEW t \in Threads, ServerStep(t) PROVE Order
      BY <2>1, <2>2, <2>4 DEF ServerStep, OdomStamp, Lock, UpdateControlStates, Iterate,
         PostUpdate, Unlock, msgVars
    <2>5. CASE RenderStep
      BY <2>1, <2>3, <2>5 DEF RenderStep, ImageStamp, UseCleared
    <2>6. MakeNode \/ UNCHANGED worldVars => UNCHANGED msgVars
      BY DEF MakeNode, worldVars, msgVars
    <2>7. ASSUME NEW t, NEW x, Begins(t, x) PROVE UNCHANGED msgVars
      BY <2>7 DEF Begins
    <2>8. QED BY <2>1, <2>4, <2>5, <2>6, <2>7, StepKinds
  <1>2. QED BY <1>1, MessageInvariant, BridgeInvariant, PTL DEF Spec, MessagesInOrder
=============================================================================
