------------------------------ MODULE Rendering ------------------------------
(***************************************************************************)
(* Sensors and camera recordings of one DRLServer: the simulation thread   *)
(* (PostUpdate of the Sensors system, run inside run_once), the render     *)
(* thread (WaitForInit, RunOnce) and the VideoRecordingManager between     *)
(* them, driven by start_camera_recording, stop_camera_recording and       *)
(* plain steps.                                                            *)
(*                                                                         *)
(* The threads meet in renderMutex with renderCv, renderUtilMutex with     *)
(* updateTimeCv, and the two mutexes of the recorder.  A condition         *)
(* variable is its predicate: the waits here are never woken by the wrong  *)
(* notification, for two threads share each of them, except that nobody    *)
(* notifies updateTimeCv when the sensors stop.                            *)
(*                                                                         *)
(* Time is abstracted to what is due.  A frame of a recording is due or    *)
(* not, an iteration may make any of them due; a camera sensor of the      *)
(* world likewise.                                                         *)
(***************************************************************************)
EXTENDS Integers, Sequences, FiniteSets, Functions

CONSTANTS
  Names,        \* names given to recording cameras
  MaxCalls,     \* bound: calls of start, move and stop in one behaviour
  Interrupts,   \* whether Gazebo may stop the sensors in mid-iteration
  PythonCallback \* whether bind_img_cb has bound a Python function

ASSUME RenderingAssumption ==
  /\ IsFiniteSet(Names)
  /\ MaxCalls \in Nat
  /\ Interrupts \in BOOLEAN
  /\ PythonCallback \in BOOLEAN

VARIABLES
  sensed,           \* the world has camera sensors of its own
  (* the caller, and the iteration it is in *)
  pc,               \* the step the caller's thread executes next
  call,             \* the operation it is in: [op, cam]
  calls,            \* operations started so far
  (* SensorsPrivate *)
  running, initialized, doInit, updateAvailable, forceUpdate,
  updateTime, updateTimeToApply, updateTimeApplied,
                    \* iterations, only told apart: three values do
  nextUpdateTime,   \* "now", "later" or "never"
  sensorsToUpdate,  \* whether any sensor is in the set
  activeSensors,    \* likewise
  pendingSensors,   \* sensors of the ECM not created by the render thread
  connected,        \* sensors created, with their image callbacks
  rpc,              \* the step the render thread executes next
  (* VideoRecordingManager *)
  states,           \* what callers are told about each name
  commands,         \* queued for the render thread
  cmds,             \* taken by it, not yet executed
  recordings,       \* names being recorded
  warmup,           \* recordings still in their first frame
  due,              \* recordings whose next frame is due
  hinted            \* recordings nextFrameTimeNs was computed from

simVars    == <<pc, call, calls>>
initVars   == <<initialized, doInit>>
timeVars   == <<updateTime, updateTimeToApply, updateTimeApplied>>
shakeVars  == <<running, initVars, updateAvailable, forceUpdate, timeVars>>
sensorVars == <<nextUpdateTime, sensorsToUpdate, activeSensors,
                pendingSensors, connected>>
recVars    == <<recordings, warmup, due, hinted>>
vars == <<sensed, simVars, shakeVars, sensorVars, rpc, states, commands,
          cmds, recVars>>

NoCall == [op |-> "none", cam |-> "none"]

Init ==
  /\ sensed \in BOOLEAN
  /\ pc = "idle"
  /\ call = NoCall
  /\ calls = 0
  /\ running = TRUE
  /\ initialized = FALSE
  /\ doInit = FALSE
  /\ updateAvailable = FALSE
  /\ forceUpdate = FALSE
  /\ updateTime = 0
  /\ updateTimeToApply = 0
  /\ updateTimeApplied = 0
  /\ nextUpdateTime = "now"
  /\ sensorsToUpdate = FALSE
  /\ activeSensors = FALSE
  /\ pendingSensors = sensed
  /\ connected = FALSE
  /\ rpc = "init"
  /\ states = [c \in Names |-> "kNone"]
  /\ commands = <<>>
  /\ cmds = <<>>
  /\ recordings = {}
  /\ warmup = {}
  /\ due = {}
  /\ hinted = {}

(* renderMutex is held by the render thread while it runs the sensors and  *)
(* the recorder.                                                           *)
RenderMutexFree == rpc \notin {"callbacks", "record", "commands", "frames"}

-----------------------------------------------------------------------------
(* DRLServer: the caller's thread between iterations                       *)

(* A plain run_once.                                                       *)
run_once ==
  /\ pc = "idle"
  /\ running
  /\ pc' = "check"
  /\ call' = [op |-> "step", cam |-> "none"]
  /\ UNCHANGED <<sensed, calls, shakeVars, sensorVars, rpc, states, commands,
                 cmds, recVars>>

(* StartRecording refuses a name it knows, and its caller does not look at *)
(* the answer.  The state is set first, the command queued after.          *)
StartRecording(c) ==
  /\ pc = "idle"
  /\ running
  /\ calls < MaxCalls
  /\ calls' = calls + 1
  /\ call' = [op |-> "start", cam |-> c]
  /\ IF states[c] = "kNone"
     THEN /\ states' = [states EXCEPT ![c] = "kQueued"]
          /\ pc' = "push"
     ELSE /\ states' = states
          /\ pc' = "initialize"
  /\ UNCHANGED <<sensed, shakeVars, sensorVars, rpc, commands, cmds, recVars>>

PushStart ==
  /\ pc = "push"
  /\ commands' = Append(commands, [type |-> "kStart", cam |-> call.cam])
  /\ pc' = "initialize"
  /\ UNCHANGED <<sensed, call, calls, shakeVars, sensorVars, rpc, states, cmds,
                 recVars>>

(* Without camera sensors nothing else asks for a scene.                   *)
StartCameraRecording ==
  /\ pc = "initialize"
  /\ ~initialized => RenderMutexFree
  /\ doInit' = (doInit \/ ~initialized)
  /\ pc' = "poll"
  /\ UNCHANGED <<sensed, call, calls, running, initialized, updateAvailable,
                 forceUpdate, updateTime, updateTimeToApply, updateTimeApplied,
                 sensorVars, rpc, states, commands, cmds, recVars>>

StopRecording(c) ==
  /\ pc = "idle"
  /\ running
  /\ calls < MaxCalls
  /\ calls' = calls + 1
  /\ call' = [op |-> "stop", cam |-> c]
  /\ commands' = Append(commands, [type |-> "kStop", cam |-> c])
  /\ pc' = "poll"
  /\ UNCHANGED <<sensed, shakeVars, sensorVars, rpc, states, cmds, recVars>>

UpdateRecordingCamPos(c) ==
  /\ pc = "idle"
  /\ running
  /\ calls < MaxCalls
  /\ calls' = calls + 1
  /\ commands' = Append(commands, [type |-> "kUpdatePose", cam |-> c])
  /\ UNCHANGED <<sensed, pc, call, shakeVars, sensorVars, rpc, states, cmds,
                 recVars>>

(* The loops of start_camera_recording and stop_camera_recording: step     *)
(* while the recorder has not answered.                                    *)
Unanswered ==
  IF call.op = "start" THEN states[call.cam] = "kQueued"
                       ELSE states[call.cam] # "kNone"

PollAgain ==
  /\ pc = "poll"
  /\ Unanswered
  /\ pc' = "check"
  /\ UNCHANGED <<sensed, call, calls, shakeVars, sensorVars, rpc, states,
                 commands, cmds, recVars>>

(* The answer ends the call, with an exception when a start has failed.    *)
Answered ==
  /\ pc = "poll"
  /\ ~Unanswered
  /\ pc' = "idle"
  /\ call' = NoCall
  /\ UNCHANGED <<sensed, calls, shakeVars, sensorVars, rpc, states, commands,
                 cmds, recVars>>

(* Two minutes have passed: the call throws, its command stays queued.     *)
TimeOut ==
  /\ pc = "return"
  /\ call.op # "step"
  /\ pc' = "idle"
  /\ call' = NoCall
  /\ UNCHANGED <<sensed, calls, shakeVars, sensorVars, rpc, states, commands,
                 cmds, recVars>>

Return ==
  /\ pc = "return"
  /\ pc' = IF call.op = "step" THEN "idle" ELSE "poll"
  /\ call' = IF call.op = "step" THEN NoCall ELSE call
  /\ UNCHANGED <<sensed, calls, shakeVars, sensorVars, rpc, states, commands,
                 cmds, recVars>>

-----------------------------------------------------------------------------
(* Sensors::PostUpdate                                                     *)

(* The next time a sensor is to be updated, and which: those connected.    *)
NextUpdateTime == IF connected THEN "later" ELSE "never"

SensorsHaveConnections == connected

(* The iteration has moved time on: frames become due.                     *)
AskForInit ==
  /\ pc = "check"
  /\ RenderMutexFree \/ initialized
  /\ doInit' = (doInit \/ (~initialized /\ (forceUpdate \/ sensed)))
  /\ \E more \in SUBSET (recordings \ due) : due' = due \cup more
  /\ pc' = "enter"
  /\ UNCHANGED <<sensed, call, calls, running, initialized, updateAvailable,
                 forceUpdate, updateTime, updateTimeToApply, updateTimeApplied,
                 sensorVars, rpc, states, commands, cmds, recordings, warmup,
                 hinted>>

Enter ==
  /\ pc = "enter"
  /\ pc' = IF running /\ initialized THEN "apply" ELSE "return"
  /\ UNCHANGED <<sensed, call, calls, shakeVars, sensorVars, rpc, states,
                 commands, cmds, recVars>>

\* Mutant: the state of an iteration is given to renderUtil without waiting.
UpdateTakenOrNot == TRUE

(* updateTimeCv: the render thread has taken what the last request asked   *)
(* it to take.                                                             *)
UpdateTaken == ~updateAvailable \/ updateTimeToApply = updateTimeApplied

(* pendingCommands and nextFrameTimeNs, as RequiresRender reads them.      *)
RequiresRender == commands # <<>> \/ hinted \cap due # {}

RenderNeeded(dueNow) ==
  \/ dueNow
  \/ pendingSensors
  \/ forceUpdate
  \/ RequiresRender

(* UpdateFromECM, and whether this iteration is rendered.                  *)
Decide ==
  /\ pc = "apply"
  /\ UpdateTaken
  /\ updateTime' = CHOOSE t \in 0 .. 2 :
                     t \notin {updateTimeToApply, updateTimeApplied}
  /\ LET next == IF nextUpdateTime = "never" /\ SensorsHaveConnections
                 THEN NextUpdateTime ELSE nextUpdateTime
     IN  /\ nextUpdateTime' = next
         /\ \E dueNow \in {next = "now", next # "never"} :
              pc' = IF RenderNeeded(dueNow) THEN "slot" ELSE "return"
  /\ UNCHANGED <<sensed, call, calls, running, initVars,
                 updateAvailable, forceUpdate, updateTimeToApply,
                 updateTimeApplied, sensorsToUpdate, activeSensors,
                 pendingSensors, connected, rpc, states, commands, cmds,
                 recVars>>

(* renderCv: the rendering under way is finished, or there will be none.   *)
AwaitRenderer ==
  /\ pc = "slot"
  /\ RenderMutexFree
  /\ ~running \/ ~updateAvailable
  /\ pc' = IF running THEN "publish" ELSE "return"
  /\ UNCHANGED <<sensed, call, calls, shakeVars, sensorVars, rpc, states,
                 commands, cmds, recVars>>

\* Mutant: only sensors of the world force a rendering.
PublishUnforced ==
  /\ pc = "publish"
  /\ activeSensors' = sensorsToUpdate
  /\ sensorsToUpdate' = SensorsHaveConnections
  /\ nextUpdateTime' = NextUpdateTime
  /\ forceUpdate' = pendingSensors
  /\ updateTimeToApply' = updateTime
  /\ updateAvailable' = TRUE
  /\ pc' = "return"
  /\ UNCHANGED <<sensed, call, calls, running, initVars, updateTime,
                 updateTimeApplied, pendingSensors, connected, rpc, states,
                 commands, cmds, recVars>>

(* The render thread is idle until updateAvailable is set, the last of     *)
(* these assignments.                                                      *)
Publish ==
  /\ pc = "publish"
  /\ activeSensors' = sensorsToUpdate
  /\ sensorsToUpdate' = SensorsHaveConnections
  /\ nextUpdateTime' = NextUpdateTime
  /\ forceUpdate' = (pendingSensors \/ RequiresRender)
  /\ updateTimeToApply' = updateTime
  /\ updateAvailable' = TRUE
  /\ pc' = "return"
  /\ UNCHANGED <<sensed, call, calls, running, initVars,
                 updateTime, updateTimeApplied, pendingSensors, connected, rpc, states,
                 commands, cmds, recVars>>

-----------------------------------------------------------------------------
(* The render thread                                                       *)

(* Every method of the binding gives the GIL up while it runs, and the     *)
(* interpreter between two of them when asked to: the destructor does not. *)
GilFree == pc \notin {"destroy", "join"}

WaitForInit ==
  /\ rpc = "init"
  /\ doInit \/ ~running
  /\ initialized' = doInit
  /\ updateAvailable' = FALSE
  /\ rpc' = IF running THEN "ready" ELSE "teardown"
  /\ UNCHANGED <<sensed, simVars, running, doInit, forceUpdate,
                 updateTime, updateTimeToApply, updateTimeApplied, sensorVars, states,
                 commands, cmds, recVars>>

(* CreateSensor, called back for every sensor renderUtil has seen in the   *)
(* ECM: the sensor is made and its image or lidar callback connected.      *)
CreateSensors ==
  /\ connected' = (connected \/ pendingSensors)
  /\ pendingSensors' = FALSE

(* The start of RunOnce: renderUtil.Update takes the iteration.            *)
RunOnce ==
  /\ rpc = "ready"
  /\ running
  /\ updateAvailable
  /\ updateTimeApplied' = updateTime
  /\ CreateSensors
  /\ rpc' = "draw"
  /\ UNCHANGED <<sensed, simVars, running, initVars,
                 updateAvailable, forceUpdate, updateTime, updateTimeToApply,
                 nextUpdateTime, sensorsToUpdate, activeSensors, states,
                 commands, cmds, recVars>>

(* Without an active sensor and unforced the iteration is not rendered.    *)
(* From here to PostRender renderMutex is held; the sensors due, if any,   *)
(* are rendered first.                                                     *)
Draw ==
  /\ rpc = "draw"
  /\ \E published \in {FALSE, connected} :
       rpc' = CASE ~(activeSensors \/ forceUpdate) -> "finish"
                [] published                       -> "callbacks"
                [] OTHER                           -> "record"
  /\ UNCHANGED <<sensed, simVars, shakeVars, sensorVars, states, commands,
                 cmds, recVars>>

(* The frame is stored and given to the callbacks bound to the sensor,     *)
(* those in Python under the GIL.                                          *)
ImageSensorCB ==
  /\ rpc = "callbacks"
  /\ PythonCallback => GilFree
  /\ rpc' = "record"
  /\ UNCHANGED <<sensed, simVars, shakeVars, sensorVars, states, commands,
                 cmds, recVars>>

(* OnRender takes the whole queue.                                         *)
TakeCommands ==
  /\ rpc = "record"
  /\ cmds' = commands
  /\ commands' = <<>>
  /\ rpc' = "commands"
  /\ UNCHANGED <<sensed, simVars, shakeVars, sensorVars, states, recVars>>

ClearState(c) == states' = [states EXCEPT ![c] = "kNone"]

(* The camera or the encoder may not start.                                *)
DoStart(c) ==
  IF c \in recordings
  THEN UNCHANGED <<states, recVars>>
  ELSE \/ /\ ClearState(c)
          /\ UNCHANGED recVars
       \/ /\ recordings' = recordings \cup {c}
          /\ warmup' = warmup \cup {c}
          /\ due' = due \cup {c}
          /\ states' = [states EXCEPT ![c] = "kActive"]
          /\ UNCHANGED hinted

\* Mutant: the state is cleared and the recording left in the map.
DoStopStateOnly(c) ==
  /\ ClearState(c)
  /\ UNCHANGED recVars

DoStop(c) ==
  /\ ClearState(c)
  /\ recordings' = recordings \ {c}
  /\ warmup' = warmup \ {c}
  /\ due' = due \ {c}
  /\ UNCHANGED hinted

ProcessCommands ==
  /\ rpc = "commands"
  /\ cmds # <<>>
  /\ cmds' = Tail(cmds)
  /\ LET cmd == Head(cmds)
     IN  CASE cmd.type = "kStart"      -> DoStart(cmd.cam)
           [] cmd.type = "kStop"       -> DoStop(cmd.cam)
           [] cmd.type = "kUpdatePose" -> UNCHANGED <<states, recVars>>
  /\ UNCHANGED <<sensed, simVars, shakeVars, sensorVars, rpc, commands>>

\* Mutant: the hint is not computed again.
CaptureFramesOldHint ==
  /\ rpc = "commands"
  /\ cmds = <<>>
  /\ warmup' = {}
  /\ \E later \in SUBSET recordings : due' = (due \cap warmup) \cup later
  /\ rpc' = "frames"
  /\ UNCHANGED <<sensed, simVars, shakeVars, sensorVars, states, commands,
                 cmds, recordings, hinted>>

(* Every recording takes its frame if one is due, except in its first      *)
(* rendering.  The frame is of the iteration rendered: by now the next one *)
(* may be due, or one due now was not due then.  RefreshNextFrameHint is   *)
(* last.                                                                   *)
CaptureFrames ==
  /\ rpc = "commands"
  /\ cmds = <<>>
  /\ warmup' = {}
  /\ \E later \in SUBSET recordings : due' = (due \cap warmup) \cup later
  /\ hinted' = recordings
  /\ rpc' = "frames"
  /\ UNCHANGED <<sensed, simVars, shakeVars, sensorVars, states, commands,
                 cmds, recordings>>

(* activeSensors is cleared and renderMutex released.                      *)
PostRender ==
  /\ rpc = "frames"
  /\ activeSensors' = FALSE
  /\ rpc' = "finish"
  /\ UNCHANGED <<sensed, simVars, shakeVars, nextUpdateTime, sensorsToUpdate,
                 pendingSensors, connected, states, commands, cmds, recVars>>

Finish ==
  /\ rpc = "finish"
  /\ forceUpdate' = FALSE
  /\ updateAvailable' = FALSE
  /\ rpc' = "ready"
  /\ UNCHANGED <<sensed, simVars, running, initVars, timeVars, sensorVars,
                 states, commands, cmds, recVars>>

LeaveLoop ==
  /\ rpc = "ready"
  /\ ~running
  /\ rpc' = "teardown"
  /\ UNCHANGED <<sensed, simVars, shakeVars, sensorVars, states, commands,
                 cmds, recVars>>

\* Mutant: the loop erases from the map it walks and ends after one.
ShutdownOne ==
  /\ rpc = "teardown"
  /\ \E gone \in {recordings} \cup {{c} : c \in recordings} :
       /\ recordings' = recordings \ gone
       /\ states' = [c \in Names |-> IF c \in gone THEN "kNone" ELSE states[c]]
  /\ rpc' = "ended"
  /\ UNCHANGED <<sensed, simVars, shakeVars, sensorVars, commands, cmds,
                 warmup, due, hinted>>

(* Recordings still in flight are finalized; queued commands are not.      *)
Shutdown ==
  /\ rpc = "teardown"
  /\ states' = [c \in Names |-> IF c \in recordings THEN "kNone"
                                                    ELSE states[c]]
  /\ recordings' = {}
  /\ warmup' = {}
  /\ due' = {}
  /\ hinted' = {}
  /\ rpc' = "ended"
  /\ UNCHANGED <<sensed, simVars, shakeVars, sensorVars, commands, cmds>>

-----------------------------------------------------------------------------

(* SensorsPrivate::Stop sets the flag and joins the render thread.  It is  *)
(* called by the destructor of the server, once no call is running, or by  *)
(* the Stop event of Gazebo, which a signal raises.                        *)
SetStopped ==
  /\ RenderMutexFree
  /\ running' = FALSE
  /\ UNCHANGED <<sensed, calls, initialized, doInit, updateAvailable,
                 forceUpdate, updateTime, updateTimeToApply, updateTimeApplied,
                 sensorVars, rpc, states, commands, cmds, recVars>>

StopEvent ==
  /\ Interrupts
  /\ running
  /\ SetStopped
  /\ UNCHANGED <<pc, call>>

Destroy ==
  /\ pc = "idle"
  /\ pc' = "destroy"
  /\ UNCHANGED <<sensed, call, calls, shakeVars, sensorVars, rpc, states,
                 commands, cmds, recVars>>

Stop ==
  /\ pc = "destroy"
  /\ SetStopped
  /\ pc' = "join"
  /\ UNCHANGED call

Join ==
  /\ pc = "join"
  /\ rpc = "ended"
  /\ pc' = "destroyed"
  /\ UNCHANGED <<sensed, call, calls, shakeVars, sensorVars, rpc, states,
                 commands, cmds, recVars>>

PostUpdate ==
  \/ AskForInit
  \/ Enter
  \/ Decide
  \/ AwaitRenderer
  \/ Publish

Client ==
  \/ run_once
  \/ Destroy
  \/ \E c \in Names : \/ StartRecording(c)
                      \/ StopRecording(c)
                      \/ UpdateRecordingCamPos(c)

(* What a call does once made: its thread never stops on its own.          *)
CallStep ==
  \/ PushStart
  \/ StartCameraRecording
  \/ PollAgain
  \/ Answered
  \/ Return
  \/ PostUpdate
  \/ Stop
  \/ Join

RenderThread ==
  \/ WaitForInit
  \/ RunOnce
  \/ Draw
  \/ ImageSensorCB
  \/ TakeCommands
  \/ ProcessCommands
  \/ CaptureFrames
  \/ PostRender
  \/ Finish
  \/ LeaveLoop
  \/ Shutdown

Next == Client \/ CallStep \/ TimeOut \/ RenderThread \/ StopEvent

Spec == Init /\ [][Next]_vars

(* Both threads are scheduled by the system.  Nobody has to make a call,   *)
(* nor to stop the server.                                                 *)
FairSpec == Spec /\ WF_vars(CallStep) /\ WF_vars(RenderThread)

-----------------------------------------------------------------------------

RenderSteps ==
  {"init", "ready", "draw", "callbacks", "record", "commands", "frames",
   "finish", "teardown", "ended"}

Commands ==
  [type : {"kStart", "kStop", "kUpdatePose"}, cam : Names]

(* Each variable keeps its type.                                           *)
TypeOK ==
  /\ pc \in {"idle", "push", "initialize", "poll", "check",
             "enter", "apply", "slot", "publish", "return", "destroy", "join",
             "destroyed"}
  /\ rpc \in RenderSteps
  /\ call.op \in {"none", "step", "start", "stop"}
  /\ nextUpdateTime \in {"now", "later", "never"}
  /\ states \in [Names -> {"kNone", "kQueued", "kActive"}]
  /\ commands \in Seq(Commands)
  /\ cmds \in Seq(Commands)
  /\ {recordings, warmup, due, hinted} \subseteq SUBSET Names

(* What a caller is told about a name is so: Active names are being        *)
(* recorded, and no other; a Queued name has a start on its way (the two   *)
(* are written under different locks by different threads).                *)
StatesTrue ==
  \A c \in Names :
    /\ states[c] = "kActive" <=> c \in recordings
    /\ states[c] = "kQueued" =>
         \/ pc = "push" /\ call.cam = c
         \/ [type |-> "kStart", cam |-> c]
              \in Range(commands) \cup Range(cmds)

(* What is rendered is the iteration that asked for it: a later PostUpdate *)
(* never overrides its state in renderUtil before the render thread has    *)
(* taken it (sensor_interface.cc:1103).                                    *)
RenderedAsRequested ==
  rpc \in {"draw", "callbacks", "record", "commands", "frames"} =>
    updateTimeApplied = updateTimeToApply

(* With the render thread idle, an iteration goes without rendering only   *)
(* when no command waits and no recording has a frame due: the hint that   *)
(* the simulation thread reads for it is never behind the recordings.      *)
DueFramesRequested ==
  [][pc = "apply" /\ pc' = "return" /\ ~updateAvailable
       => commands = <<>> /\ recordings \cap due = {}]_vars

(* Every call returns, those that step until the recorder has answered     *)
(* too, and not because their two minutes are over: each of their          *)
(* iterations gets the queue rendered.  Only the Stop event of Gazebo,     *)
(* which ends the render thread under a call, can keep it from returning.  *)
CallsReturn == (call # NoCall) ~> (call = NoCall \/ ~running)

(* Once the sensors are stopped the render thread ends, so that Stop can   *)
(* join it, and leaves no recording unfinished.                            *)
StopEnds ==
  ~running ~> /\ rpc = "ended"
              /\ \A c \in Names : states[c] # "kActive" /\ c \notin recordings

(* The destructor "cleanly shuts down simulation server"                   *)
(* (rl_server.hh:766), with a Python callback bound too.                   *)
ShutsDown == (pc = "destroy") ~> (pc = "destroyed")

=============================================================================
