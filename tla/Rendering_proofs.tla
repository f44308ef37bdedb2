--------------------------- MODULE Rendering_proofs ---------------------------
(***************************************************************************)
(* Theorems about Rendering, for every set of names and every number of    *)
(* calls.  The two threads meet in a handshake: the first part of the      *)
(* invariant says who may move at each point of it and which iteration is  *)
(* asked for, the second where a queued command is and what the recorder   *)
(* has computed from its recordings.                                       *)
(***************************************************************************)
EXTENDS Rendering, SequenceTheorems, TLAPS

(* The render thread is between taking an iteration and giving the slot    *)
(* back.                                                                   *)
Rendering == {"draw", "callbacks", "record", "commands", "frames"}

(* TypeOK, with the iterations and the call in progress.                   *)
Typed ==
  /\ TypeOK
  /\ {updateTime, updateTimeToApply, updateTimeApplied} \subseteq 0 .. 2
  /\ call \in [op : {"none", "step", "start", "stop"}, cam : Names \cup {"none"}]
  /\ pc = "push" => call.cam \in Names

(* Who may move: nothing is asked of a render thread that waits for its    *)
(* initialization, an iteration in progress keeps the slot taken, and a    *)
(* caller about to publish has found it free.                              *)
Handshake ==
  /\ rpc = "init" => ~initialized
  /\ pc \in {"apply", "slot", "publish"} => initialized
  /\ rpc \in Rendering \cup {"finish"} => updateAvailable
  /\ pc = "publish" => ~updateAvailable

(* Which iteration: the one asked for and not yet taken is the last one    *)
(* given to renderUtil, and one that is to be asked for has not been       *)
(* taken.  The caller does not reach the slot before the last request was  *)
(* taken.                                                                  *)
Iterations ==
  /\ updateAvailable /\ rpc = "ready" =>
       updateTime = updateTimeToApply /\ updateTimeToApply # updateTimeApplied
  /\ pc = "slot" => ~(updateAvailable /\ rpc = "ready")
  /\ pc \in {"slot", "publish"} => updateTime # updateTimeApplied
  /\ RenderedAsRequested

(* What the recorder holds: commands it has taken are executed before it   *)
(* takes others, and the hint is computed again after the last of them.    *)
Recorder ==
  /\ rpc # "commands" => cmds = <<>>
  /\ rpc # "commands" => hinted = recordings
  /\ StatesTrue

Inv == Typed /\ Handshake /\ Iterations /\ Recorder

-----------------------------------------------------------------------------
(* Commands in a queue                                                     *)

(* A command appended is in the queue, and what was in it stays.           *)
LEMMA RangeAppend ==
  ASSUME NEW S, NEW s \in Seq(S), NEW e \in S
  PROVE  e \in Range(Append(s, e)) /\ Range(s) \subseteq Range(Append(s, e))
  <1> DEFINE t == Append(s, e)
  <1>1. /\ Len(s) \in Nat /\ Len(t) = Len(s) + 1 /\ t[Len(s) + 1] = e
        /\ \A i \in 1 .. Len(s) : t[i] = s[i]
        /\ DOMAIN s = 1 .. Len(s) /\ DOMAIN t = 1 .. Len(t)
    BY AppendProperties, LenProperties
  <1> HIDE DEF t
  <1>2. e \in Range(t)
    BY <1>1 DEF Range
  <1>3. ASSUME NEW i \in 1 .. Len(s) PROVE s[i] \in Range(t)
    <2>1. i \in DOMAIN t /\ t[i] = s[i]
      BY <1>1
    <2>2. QED BY <2>1 DEF Range
  <1>4. Range(s) \subseteq Range(t)
    BY <1>1, <1>3 DEF Range
  <1>5. QED BY <1>2, <1>4 DEF t

(* Executing the command at the head takes only that one from the queue.   *)
LEMMA RangeTail ==
  ASSUME NEW S, NEW s \in Seq(S), s # <<>>, NEW e \in Range(s), e # Head(s)
  PROVE  e \in Range(Tail(s))
  <1>1. PICK i \in 1 .. Len(s) : s[i] = e
    BY LenProperties DEF Range
  <1>2. i - 1 \in 1 .. Len(Tail(s)) /\ Tail(s)[i - 1] = e
    <2>1. i # 1
      BY <1>1
    <2>2. /\ Len(s) \in Nat /\ Len(Tail(s)) = Len(s) - 1
          /\ \A k \in 1 .. Len(Tail(s)) : Tail(s)[k] = s[k + 1]
      BY HeadTailProperties, LenProperties
    <2>3. i - 1 \in 1 .. Len(Tail(s))
      BY <1>1, <2>1, <2>2
    <2>4. Tail(s)[i - 1] = s[(i - 1) + 1]
      BY <2>2, <2>3
    <2>5. QED BY <1>1, <2>3, <2>4
  <1>3. DOMAIN Tail(s) = 1 .. Len(Tail(s))
    BY HeadTailProperties, LenProperties
  <1>4. QED BY <1>2, <1>3 DEF Range

(* Of three iterations one is neither of two others: Decide finds a new    *)
(* one.                                                                    *)
LEMMA AnotherIteration ==
  ASSUME NEW a \in 0 .. 2, NEW b \in 0 .. 2
  PROVE  (CHOOSE t \in 0 .. 2 : t \notin {a, b}) \in (0 .. 2) \ {a, b}
  <1>1. \E t \in 0 .. 2 : t \notin {a, b}
    <2>1. CASE 0 \notin {a, b}
      BY <2>1
    <2>2. CASE 1 \notin {a, b}
      BY <2>2
    <2>3. CASE 2 \notin {a, b}
      BY <2>3
    <2>4. QED BY <2>1, <2>2, <2>3
  <1>2. QED BY <1>1

-----------------------------------------------------------------------------
(* Types                                                                   *)

(* The variables start typed.                                              *)
LEMMA TypedInit == Init => Typed
  <1> SUFFICES ASSUME Init PROVE Typed
    OBVIOUS
  <1>1. commands \in Seq(Commands) /\ cmds \in Seq(Commands)
    BY EmptySeq DEF Init
  <1>2. /\ states \in [Names -> {"kNone", "kQueued", "kActive"}]
        /\ {recordings, warmup, due, hinted} \subseteq SUBSET Names
    BY DEF Init
  <1>3. /\ call \in [op : {"none", "step", "start", "stop"},
                    cam : Names \cup {"none"}]
        /\ call.op = "none"
    BY DEF Init, NoCall
  <1>4. QED BY <1>1, <1>2, <1>3 DEF Init, Typed, TypeOK, RenderSteps

(* Every step keeps the types.                                             *)
LEMMA TypedStep == ASSUME Typed, [Next]_vars PROVE Typed'
  <1> USE DEF Typed, TypeOK, RenderSteps, Commands, simVars,
          initVars, timeVars, shakeVars, sensorVars, recVars
  <1>1. CASE run_once
    BY <1>1 DEF run_once
  <1>2. CASE PushStart
    BY <1>2 DEF PushStart
  <1>3. CASE StartCameraRecording
    BY <1>3 DEF StartCameraRecording
  <1>4. CASE PollAgain
    BY <1>4 DEF PollAgain
  <1>5. CASE Answered
    BY <1>5 DEF Answered, NoCall
  <1>6. CASE TimeOut
    BY <1>6 DEF TimeOut, NoCall
  <1>7. CASE Return
    BY <1>7 DEF Return, NoCall
  <1>8. CASE AskForInit
    BY <1>8 DEF AskForInit
  <1>9. CASE Enter
    BY <1>9 DEF Enter
  <1>10. CASE Decide
    BY <1>10 DEF Decide, NextUpdateTime
  <1>11. CASE AwaitRenderer
    BY <1>11 DEF AwaitRenderer
  <1>12. CASE Publish
    BY <1>12 DEF Publish, SensorsHaveConnections, NextUpdateTime
  <1>13. CASE WaitForInit
    BY <1>13 DEF WaitForInit
  <1>14. CASE RunOnce
    BY <1>14 DEF RunOnce, CreateSensors
  <1>15. CASE Draw
    BY <1>15 DEF Draw
  <1>16. CASE ImageSensorCB
    BY <1>16 DEF ImageSensorCB
  <1>17. CASE TakeCommands
    BY <1>17 DEF TakeCommands
  <1>18. CASE ProcessCommands
    <2>1. cmds # <<>> /\ cmds' = Tail(cmds) /\ Head(cmds) \in Commands
      BY <1>18, HeadTailProperties DEF ProcessCommands
    <2>2. cmds' \in Seq(Commands)
      BY <2>1, HeadTailProperties
    <2>3. /\ states' \in [Names -> {"kNone", "kQueued", "kActive"}]
          /\ {recordings, warmup, due, hinted}' \subseteq SUBSET Names
      <3>1. CASE DoStart(Head(cmds).cam)
        <4>1. \/ UNCHANGED <<states, recVars>>
              \/ ClearState(Head(cmds).cam) /\ UNCHANGED recVars
              \/ /\ recordings' = recordings \cup {Head(cmds).cam}
                 /\ warmup' = warmup \cup {Head(cmds).cam}
                 /\ due' = due \cup {Head(cmds).cam}
                 /\ states' = [states EXCEPT ![Head(cmds).cam] = "kActive"]
                 /\ hinted' = hinted
          BY <3>1 DEF DoStart
        <4>2. Head(cmds).cam \in Names
          BY <2>1
        <4>3. CASE UNCHANGED <<states, recVars>>
          BY <4>3
        <4>4. CASE ClearState(Head(cmds).cam) /\ UNCHANGED recVars
          BY <4>2, <4>4 DEF ClearState
        <4>5. CASE /\ recordings' = recordings \cup {Head(cmds).cam}
                   /\ warmup' = warmup \cup {Head(cmds).cam}
                   /\ due' = due \cup {Head(cmds).cam}
                   /\ states' = [states EXCEPT ![Head(cmds).cam] = "kActive"]
                   /\ hinted' = hinted
          BY <4>2, <4>5
        <4>6. QED BY <4>1, <4>3, <4>4, <4>5
      <3>2. CASE DoStop(Head(cmds).cam)
        BY <2>1, <3>2 DEF DoStop, ClearState
      <3>3. CASE UNCHANGED <<states, recVars>>
        BY <3>3
      <3>4. QED BY <1>18, <2>1, <3>1, <3>2, <3>3 DEF ProcessCommands
    <2>4. UNCHANGED <<sensed, simVars, shakeVars, sensorVars, rpc, commands>>
      BY <1>18 DEF ProcessCommands
    <2>5. QED BY <2>2, <2>3, <2>4
  <1>19. CASE CaptureFrames
    BY <1>19 DEF CaptureFrames
  <1>20. CASE PostRender
    BY <1>20 DEF PostRender
  <1>21. CASE Finish
    BY <1>21 DEF Finish
  <1>22. CASE LeaveLoop
    BY <1>22 DEF LeaveLoop
  <1>23. CASE Shutdown
    BY <1>23 DEF Shutdown
  <1>24. CASE StopEvent
    <2>1. running' = FALSE /\ UNCHANGED <<pc, call>>
      BY <1>24 DEF StopEvent, SetStopped
    <2>2. UNCHANGED <<sensed, calls, initialized, doInit, updateAvailable,
            forceUpdate, updateTime, updateTimeToApply, updateTimeApplied,
            sensorVars, rpc, states, commands, cmds, recVars>>
      BY <1>24 DEF StopEvent, SetStopped
    <2>3. QED BY <2>1, <2>2
  <1>25. CASE Destroy
    BY <1>25 DEF Destroy
  <1>26. CASE Stop
    BY <1>26 DEF Stop, SetStopped
  <1>27. CASE Join
    BY <1>27 DEF Join
  <1>28. ASSUME NEW c \in Names, StartRecording(c) PROVE Typed'
    BY <1>28 DEF StartRecording
  <1>29. ASSUME NEW c \in Names, StopRecording(c) PROVE Typed'
    BY <1>29 DEF StopRecording
  <1>30. ASSUME NEW c \in Names, UpdateRecordingCamPos(c) PROVE Typed'
    BY <1>30 DEF UpdateRecordingCamPos
  <1>31. CASE UNCHANGED vars
    BY <1>31 DEF vars
  <1>32. QED
    BY <1>1, <1>2, <1>3, <1>4, <1>5, <1>6, <1>7, <1>8, <1>9, <1>10, <1>11,
       <1>12, <1>13, <1>14, <1>15, <1>16, <1>17, <1>18, <1>19, <1>20,
       <1>21, <1>22, <1>23, <1>24, <1>25, <1>26, <1>27, <1>28, <1>29,
       <1>30, <1>31 DEF Next, Client, CallStep, PostUpdate,
       RenderThread

(* Type correctness of the two threads and of the recorder between them.   *)
THEOREM TypeCorrect == Spec => []TypeOK
  <1>1. Typed => TypeOK
    BY DEF Typed
  <1>2. QED BY TypedInit, TypedStep, <1>1, PTL DEF Spec

-----------------------------------------------------------------------------
(* The handshake                                                           *)

(* Nothing is asked for at first.                                          *)
LEMMA HandshakeInit == Init => Handshake
  BY DEF Init, Handshake, Rendering

(* Every step keeps the handshake.                                         *)
LEMMA HandshakeStep == ASSUME Typed, Handshake, [Next]_vars PROVE Handshake'
  <1> USE DEF Handshake, Rendering, RenderMutexFree, simVars,
          initVars, timeVars, shakeVars, sensorVars, recVars
  <1>1. CASE run_once
    BY <1>1 DEF run_once
  <1>2. CASE PushStart
    BY <1>2 DEF PushStart
  <1>3. CASE StartCameraRecording
    BY <1>3 DEF StartCameraRecording
  <1>4. CASE PollAgain
    BY <1>4 DEF PollAgain
  <1>5. CASE Answered
    BY <1>5 DEF Answered, NoCall
  <1>6. CASE TimeOut
    BY <1>6 DEF TimeOut, NoCall
  <1>7. CASE Return
    BY <1>7 DEF Return, NoCall
  <1>8. CASE AskForInit
    BY <1>8 DEF AskForInit
  <1>9. CASE Enter
    BY <1>9 DEF Enter
  <1>10. CASE Decide
    BY <1>10 DEF Decide, NextUpdateTime
  <1>11. CASE AwaitRenderer
    BY <1>11 DEF AwaitRenderer
  <1>12. CASE Publish
    BY <1>12 DEF Publish, SensorsHaveConnections, NextUpdateTime
  <1>13. CASE WaitForInit
    BY <1>13 DEF WaitForInit, Typed
  <1>14. CASE RunOnce
    BY <1>14 DEF RunOnce, CreateSensors
  <1>15. CASE Draw
    BY <1>15 DEF Draw
  <1>16. CASE ImageSensorCB
    BY <1>16 DEF ImageSensorCB
  <1>17. CASE TakeCommands
    BY <1>17 DEF TakeCommands
  <1>18. CASE ProcessCommands
    BY <1>18 DEF ProcessCommands
  <1>19. CASE CaptureFrames
    BY <1>19 DEF CaptureFrames
  <1>20. CASE PostRender
    BY <1>20 DEF PostRender
  <1>21. CASE Finish
    BY <1>21 DEF Finish
  <1>22. CASE LeaveLoop
    BY <1>22 DEF LeaveLoop
  <1>23. CASE Shutdown
    BY <1>23 DEF Shutdown
  <1>24. CASE StopEvent
    BY <1>24 DEF StopEvent, SetStopped
  <1>25. CASE Destroy
    BY <1>25 DEF Destroy
  <1>26. CASE Stop
    BY <1>26 DEF Stop, SetStopped
  <1>27. CASE Join
    BY <1>27 DEF Join
  <1>28. ASSUME NEW c \in Names, StartRecording(c) PROVE Handshake'
    BY <1>28 DEF StartRecording
  <1>29. ASSUME NEW c \in Names, StopRecording(c) PROVE Handshake'
    BY <1>29 DEF StopRecording
  <1>30. ASSUME NEW c \in Names, UpdateRecordingCamPos(c) PROVE Handshake'
    BY <1>30 DEF UpdateRecordingCamPos
  <1>31. CASE UNCHANGED vars
    BY <1>31 DEF vars
  <1>32. QED
    BY <1>1, <1>2, <1>3, <1>4, <1>5, <1>6, <1>7, <1>8, <1>9, <1>10, <1>11,
       <1>12, <1>13, <1>14, <1>15, <1>16, <1>17, <1>18, <1>19, <1>20,
       <1>21, <1>22, <1>23, <1>24, <1>25, <1>26, <1>27, <1>28, <1>29,
       <1>30, <1>31 DEF Next, Client, CallStep, PostUpdate,
       RenderThread

(* The first iteration is asked for before any is taken.                   *)
LEMMA IterationsInit == Init => Iterations
  BY DEF Init, Iterations, RenderedAsRequested

(* Every step keeps the iteration asked for.                               *)
LEMMA IterationsStep ==
  ASSUME Typed, Handshake, Iterations, [Next]_vars
  PROVE  Iterations'
  <1> USE DEF Handshake, Iterations, RenderedAsRequested, Rendering, UpdateTaken,
          simVars, initVars, timeVars, shakeVars, sensorVars, recVars
  <1>1. CASE run_once
    BY <1>1 DEF run_once
  <1>2. CASE PushStart
    BY <1>2 DEF PushStart
  <1>3. CASE StartCameraRecording
    BY <1>3 DEF StartCameraRecording
  <1>4. CASE PollAgain
    BY <1>4 DEF PollAgain
  <1>5. CASE Answered
    BY <1>5 DEF Answered, NoCall
  <1>6. CASE TimeOut
    BY <1>6 DEF TimeOut, NoCall
  <1>7. CASE Return
    BY <1>7 DEF Return, NoCall
  <1>8. CASE AskForInit
    BY <1>8 DEF AskForInit
  <1>9. CASE Enter
    BY <1>9 DEF Enter
  <1>10. CASE Decide
    <2>1. /\ pc = "apply" /\ UpdateTaken /\ initialized /\ pc' \in {"slot", "return"}
          /\ UNCHANGED <<updateAvailable, updateTimeToApply, updateTimeApplied, rpc>>
      BY <1>10 DEF Decide
    <2>2. updateTime' \notin {updateTimeToApply, updateTimeApplied}
      BY <1>10, AnotherIteration DEF Decide, Typed
    <2>3. ~(updateAvailable /\ rpc = "ready")
      BY <2>1
    <2>4. QED BY <2>1, <2>2, <2>3
  <1>11. CASE AwaitRenderer
    BY <1>11 DEF AwaitRenderer
  <1>12. CASE Publish
    BY <1>12 DEF Publish, SensorsHaveConnections, NextUpdateTime
  <1>13. CASE WaitForInit
    BY <1>13 DEF WaitForInit
  <1>14. CASE RunOnce
    BY <1>14 DEF RunOnce, CreateSensors
  <1>15. CASE Draw
    BY <1>15 DEF Draw
  <1>16. CASE ImageSensorCB
    BY <1>16 DEF ImageSensorCB
  <1>17. CASE TakeCommands
    BY <1>17 DEF TakeCommands
  <1>18. CASE ProcessCommands
    BY <1>18 DEF ProcessCommands
  <1>19. CASE CaptureFrames
    BY <1>19 DEF CaptureFrames
  <1>20. CASE PostRender
    BY <1>20 DEF PostRender
  <1>21. CASE Finish
    BY <1>21 DEF Finish
  <1>22. CASE LeaveLoop
    BY <1>22 DEF LeaveLoop
  <1>23. CASE Shutdown
    BY <1>23 DEF Shutdown
  <1>24. CASE StopEvent
    BY <1>24 DEF StopEvent, SetStopped
  <1>25. CASE Destroy
    BY <1>25 DEF Destroy
  <1>26. CASE Stop
    BY <1>26 DEF Stop, SetStopped
  <1>27. CASE Join
    BY <1>27 DEF Join
  <1>28. ASSUME NEW c \in Names, StartRecording(c) PROVE Iterations'
    BY <1>28 DEF StartRecording
  <1>29. ASSUME NEW c \in Names, StopRecording(c) PROVE Iterations'
    BY <1>29 DEF StopRecording
  <1>30. ASSUME NEW c \in Names, UpdateRecordingCamPos(c) PROVE Iterations'
    BY <1>30 DEF UpdateRecordingCamPos
  <1>31. CASE UNCHANGED vars
    BY <1>31 DEF vars
  <1>32. QED
    BY <1>1, <1>2, <1>3, <1>4, <1>5, <1>6, <1>7, <1>8, <1>9, <1>10, <1>11,
       <1>12, <1>13, <1>14, <1>15, <1>16, <1>17, <1>18, <1>19, <1>20,
       <1>21, <1>22, <1>23, <1>24, <1>25, <1>26, <1>27, <1>28, <1>29,
       <1>30, <1>31 DEF Next, Client, CallStep, PostUpdate,
       RenderThread

-----------------------------------------------------------------------------
(* The recorder                                                            *)

(* Nobody is recording at first.                                           *)
LEMMA RecorderInit == Init => Recorder
  BY DEF Init, Recorder, StatesTrue

(* Every step keeps the recorder's books.  A start that is taken from the   *)
(* queue either answers its name or finds it already recording.            *)
LEMMA RecorderStep == ASSUME Typed, Recorder, [Next]_vars PROVE Recorder'
  <1> USE DEF Recorder, StatesTrue, simVars,
          initVars, timeVars, shakeVars, sensorVars, recVars
  <1>1. CASE run_once
    BY <1>1 DEF run_once
  <1>2. CASE PushStart
    <2> DEFINE cmd == [type |-> "kStart", cam |-> call.cam]
    <2>1. pc = "push" /\ commands' = Append(commands, cmd)
      BY <1>2 DEF PushStart
    <2>2. cmd \in Commands /\ commands \in Seq(Commands)
      BY <2>1 DEF Typed, TypeOK, Commands
    <2>3. cmd \in Range(commands') /\ Range(commands) \subseteq Range(commands')
      BY <2>1, <2>2, RangeAppend
    <2>4. UNCHANGED <<call, rpc, states, cmds, recVars>>
      BY <1>2 DEF PushStart
    <2>5. QED BY <2>1, <2>3, <2>4
  <1>3. CASE StartCameraRecording
    BY <1>3 DEF StartCameraRecording
  <1>4. CASE PollAgain
    BY <1>4 DEF PollAgain
  <1>5. CASE Answered
    BY <1>5 DEF Answered, NoCall
  <1>6. CASE TimeOut
    BY <1>6 DEF TimeOut, NoCall
  <1>7. CASE Return
    BY <1>7 DEF Return, NoCall
  <1>8. CASE AskForInit
    BY <1>8 DEF AskForInit
  <1>9. CASE Enter
    BY <1>9 DEF Enter
  <1>10. CASE Decide
    BY <1>10 DEF Decide, NextUpdateTime
  <1>11. CASE AwaitRenderer
    BY <1>11 DEF AwaitRenderer
  <1>12. CASE Publish
    BY <1>12 DEF Publish, SensorsHaveConnections, NextUpdateTime
  <1>13. CASE WaitForInit
    BY <1>13 DEF WaitForInit
  <1>14. CASE RunOnce
    BY <1>14 DEF RunOnce, CreateSensors
  <1>15. CASE Draw
    BY <1>15 DEF Draw
  <1>16. CASE ImageSensorCB
    BY <1>16 DEF ImageSensorCB
  <1>17. CASE TakeCommands
    BY <1>17 DEF TakeCommands
  <1>18. CASE ProcessCommands
    <2> DEFINE n == Head(cmds).cam
               start(c) == [type |-> "kStart", cam |-> c]
    <2>1. /\ cmds # <<>> /\ cmds' = Tail(cmds) /\ rpc = "commands"
          /\ UNCHANGED <<pc, call, rpc, commands>>
      BY <1>18 DEF ProcessCommands
    <2>2. Head(cmds) \in Commands /\ cmds \in Seq(Commands)
      BY <2>1, HeadTailProperties DEF Typed, TypeOK
    <2>3. \A c \in Names : start(c) \in Range(cmds) /\ start(c) # Head(cmds)
                            => start(c) \in Range(cmds')
      BY <2>1, <2>2, RangeTail
    <2>4. n \in Names /\ Head(cmds).type \in {"kStart", "kStop", "kUpdatePose"}
      BY <2>2 DEF Commands
    <2>5. states \in [Names -> {"kNone", "kQueued", "kActive"}]
      BY DEF Typed, TypeOK
    <2>6. ASSUME NEW c \in Names,
                 states[c] = "kQueued", start(c) # Head(cmds)
          PROVE  \/ pc' = "push" /\ call'.cam = c
                 \/ start(c) \in Range(commands') \cup Range(cmds')
      BY <2>1, <2>3, <2>6
    <2>7. \A c \in Names \ {n} : start(c) # Head(cmds)
      <3>1. \A c \in Names : start(c).cam = c
        OBVIOUS
      <3>2. QED BY <3>1
    <2>8. CASE Head(cmds).type = "kStart"
      <3>1. DoStart(n)
        BY <1>18, <2>8 DEF ProcessCommands
      <3>2. CASE n \in recordings
        <4>1. UNCHANGED <<states, recVars>> /\ states[n] # "kQueued"
          BY <2>4, <3>1, <3>2 DEF DoStart
        <4>2. QED BY <2>1, <2>6, <2>7, <4>1
      <3>3. CASE n \notin recordings /\ ClearState(n) /\ UNCHANGED recVars
        <4>1. states' = [states EXCEPT ![n] = "kNone"] /\ recordings' = recordings
          BY <3>3 DEF ClearState
        <4>2. QED BY <2>1, <2>4, <2>5, <2>6, <2>7, <3>3, <4>1
      <3>4. CASE /\ n \notin recordings /\ recordings' = recordings \cup {n}
                 /\ states' = [states EXCEPT ![n] = "kActive"]
        BY <2>1, <2>4, <2>5, <2>6, <2>7, <3>4
      <3>5. QED BY <3>1, <3>2, <3>3, <3>4 DEF DoStart
    <2>9. CASE Head(cmds).type = "kStop"
      <3>1. /\ states' = [states EXCEPT ![n] = "kNone"]
            /\ recordings' = recordings \ {n}
        BY <1>18, <2>9 DEF ProcessCommands, DoStop, ClearState
      <3>2. QED BY <2>1, <2>4, <2>5, <2>6, <2>7, <3>1
    <2>10. CASE Head(cmds).type = "kUpdatePose"
      <3>1. UNCHANGED <<states, recVars>>
        BY <1>18, <2>10 DEF ProcessCommands
      <3>2. \A c \in Names : start(c) # Head(cmds)
        <4>1. \A c \in Names : start(c).type = "kStart"
          OBVIOUS
        <4>2. QED BY <2>10, <4>1
      <3>3. QED BY <2>1, <2>6, <3>1, <3>2
    <2>11. QED BY <2>4, <2>8, <2>9, <2>10
  <1>19. CASE CaptureFrames
    BY <1>19 DEF CaptureFrames
  <1>20. CASE PostRender
    BY <1>20 DEF PostRender
  <1>21. CASE Finish
    BY <1>21 DEF Finish
  <1>22. CASE LeaveLoop
    BY <1>22 DEF LeaveLoop
  <1>23. CASE Shutdown
    BY <1>23 DEF Shutdown
  <1>24. CASE StopEvent
    BY <1>24 DEF StopEvent, SetStopped
  <1>25. CASE Destroy
    BY <1>25 DEF Destroy
  <1>26. CASE Stop
    BY <1>26 DEF Stop, SetStopped
  <1>27. CASE Join
    BY <1>27 DEF Join
  <1>28. ASSUME NEW c \in Names, StartRecording(c) PROVE Recorder'
    <2>1. pc = "idle" /\ states \in [Names -> {"kNone", "kQueued", "kActive"}]
      BY <1>28 DEF StartRecording, Typed, TypeOK
    <2>2. UNCHANGED <<rpc, commands, cmds, recVars>> /\ call'.cam = c
      BY <1>28 DEF StartRecording
    <2>3. \/ states' = [states EXCEPT ![c] = "kQueued"] /\ states[c] = "kNone"
             /\ pc' = "push"
          \/ states' = states
      BY <1>28 DEF StartRecording
    <2>4. QED BY <2>1, <2>2, <2>3
  <1>29. ASSUME NEW c \in Names, StopRecording(c) PROVE Recorder'
    <2> DEFINE cmd == [type |-> "kStop", cam |-> c]
    <2>1. commands' = Append(commands, cmd)
      BY <1>29 DEF StopRecording
    <2>2. Range(commands) \subseteq Range(commands')
      <3>1. commands \in Seq(Commands) /\ cmd \in Commands
        BY DEF Typed, TypeOK, Commands
      <3>2. QED BY <2>1, <3>1, RangeAppend
    <2>3. pc = "idle" /\ UNCHANGED <<rpc, states, cmds, recVars>>
      BY <1>29 DEF StopRecording
    <2>4. QED BY <2>2, <2>3
  <1>30. ASSUME NEW c \in Names, UpdateRecordingCamPos(c) PROVE Recorder'
    <2> DEFINE cmd == [type |-> "kUpdatePose", cam |-> c]
    <2>1. commands' = Append(commands, cmd)
      BY <1>30 DEF UpdateRecordingCamPos
    <2>2. Range(commands) \subseteq Range(commands')
      <3>1. commands \in Seq(Commands) /\ cmd \in Commands
        BY DEF Typed, TypeOK, Commands
      <3>2. QED BY <2>1, <3>1, RangeAppend
    <2>3. pc = "idle" /\ UNCHANGED <<rpc, states, cmds, recVars>>
      BY <1>30 DEF UpdateRecordingCamPos
    <2>4. QED BY <2>2, <2>3
  <1>31. CASE UNCHANGED vars
    BY <1>31 DEF vars
  <1>32. QED
    BY <1>1, <1>2, <1>3, <1>4, <1>5, <1>6, <1>7, <1>8, <1>9, <1>10, <1>11,
       <1>12, <1>13, <1>14, <1>15, <1>16, <1>17, <1>18, <1>19, <1>20,
       <1>21, <1>22, <1>23, <1>24, <1>25, <1>26, <1>27, <1>28, <1>29,
       <1>30, <1>31 DEF Next, Client, CallStep, PostUpdate,
       RenderThread

-----------------------------------------------------------------------------
(* Inv holds from the start and every step keeps it. *)
LEMMA Invariance == Spec => []Inv
  <1>1. Init => Inv
    BY TypedInit, HandshakeInit, IterationsInit, RecorderInit DEF Inv
  <1>2. Inv /\ [Next]_vars => Inv'
    BY TypedStep, HandshakeStep, IterationsStep, RecorderStep DEF Inv
  <1>3. QED BY <1>1, <1>2, PTL DEF Spec

(* What callers are told of a recording is so (StartRecording,             *)
(* GetRecordingState): Active names are the ones being recorded, and a     *)
(* Queued one has its start pending.                                       *)
THEOREM ToldTheTruth == Spec => []StatesTrue
  <1>1. Inv => StatesTrue
    BY DEF Inv, Recorder
  <1>2. QED BY Invariance, <1>1, PTL

(* The render thread renders the iteration that PostUpdate published: no   *)
(* later iteration replaces it in renderUtil before RunOnce has taken it.  *)
THEOREM RendersTheRequest == Spec => []RenderedAsRequested
  <1>1. Inv => RenderedAsRequested
    BY DEF Inv, Iterations
  <1>2. QED BY Invariance, <1>1, PTL

(* An iteration that PostUpdate lets pass without rendering, the render    *)
(* thread being idle, leaves neither a command nor a due frame behind: the *)
(* hint it reads without the recorder's lock is that of the recordings.    *)
THEOREM NoDueFrameSkipped == Spec => DueFramesRequested
  <1> DEFINE Skip == pc = "apply" /\ pc' = "return" /\ ~updateAvailable
                       => commands = <<>> /\ recordings \cap due = {}
  <1>1. Inv /\ [Next]_vars => [Skip]_vars
    <2> SUFFICES ASSUME Inv, Next, pc = "apply", pc' = "return", ~updateAvailable
                 PROVE  commands = <<>> /\ recordings \cap due = {}
      OBVIOUS
    <2>1. hinted = recordings
      BY DEF Inv, Handshake, Recorder, Rendering
    <2>2. Decide
      BY DEF Next, Client, CallStep, PostUpdate, RenderThread, run_once, PushStart,
             StartCameraRecording, PollAgain, Answered, TimeOut, Return, AskForInit,
             Enter, AwaitRenderer, Publish, WaitForInit, RunOnce, Draw, ImageSensorCB,
             TakeCommands, ProcessCommands, CaptureFrames, PostRender, Finish, LeaveLoop,
             Shutdown, StopEvent, Destroy, Stop, Join, StartRecording, StopRecording,
             UpdateRecordingCamPos, simVars
    <2>3. ~RequiresRender
      BY <2>2 DEF Decide, RenderNeeded
    <2>4. QED BY <2>1, <2>3 DEF RequiresRender
  <1>2. QED BY Invariance, <1>1, PTL DEF Spec, DueFramesRequested
=============================================================================
