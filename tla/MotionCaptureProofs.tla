------------------------- MODULE MotionCaptureProofs -------------------------
(***************************************************************************)
(* Proofs about the detector and the camera together: the two state        *)
(* machines agree, for every hold-off, queue size and number of restarts.  *)
(***************************************************************************)
EXTENDS MotionCapture, DetectionProofs

USE MaxRestartsAssumption, QueueSizeAssumption

-----------------------------------------------------------------------------
(* The queue.                                                              *)

\* The event that is sent becomes the newest one, if the queue has room.
LEMMA SentIsNewest ==
  ASSUME QueueTypeOK, NEW e \in Event, osal_queue_send(e), ~QueueFull
  PROVE  mqueue' # <<>> /\ mqueue'[Len(mqueue')] = e
  BY DEF QueueTypeOK, osal_queue_send

\* A receive leaves the newest event alone, unless it takes it.
LEMMA ReceiveKeepsNewest ==
  ASSUME QueueTypeOK, osal_queue_receive, mqueue # <<>>
  PROVE  IF mqueue' = <<>> THEN ReceivedEvent = mqueue[Len(mqueue)]
         ELSE mqueue'[Len(mqueue')] = mqueue[Len(mqueue)]
  <1>1. mqueue' = Tail(mqueue) /\ ReceivedEvent = Head(mqueue)
    BY DEF osal_queue_receive, ReceivedEvent
  <1>2. mqueue \in Seq(Event) /\ Len(mqueue) \in Nat /\ Len(mqueue) # 0
    BY DEF QueueTypeOK
  <1>3. Len(mqueue') = Len(mqueue) - 1
    BY <1>1, <1>2
  <1>4. CASE Len(mqueue) = 1
    BY <1>1, <1>2, <1>3, <1>4
  <1>5. CASE Len(mqueue) > 1
    <2>1. mqueue' # <<>>
      BY <1>3, <1>5
    <2>2. mqueue'[Len(mqueue')] = mqueue[Len(mqueue)]
      BY <1>1, <1>2, <1>3, <1>5
    <2> QED BY <2>1, <2>2
  <1>6. Len(mqueue) = 1 \/ Len(mqueue) > 1
    <2>1. \A n \in Nat : n = 0 \/ n = 1 \/ n > 1
      OBVIOUS
    <2> QED BY <1>2, <2>1, Zenon
  <1> QED BY <1>4, <1>5, <1>6

-----------------------------------------------------------------------------
(* Type correctness of the camera.                                         *)

LEMMA CamTypeStep ==
  ASSUME CamTypeOK, CamNext
  PROVE  CamTypeOK'
  <1> USE DEF CamTypeOK, CameraPc, CameraState
  <1>1. CASE StreamOn
    BY <1>1 DEF StreamOn, QueueTypeOK
  <1>2. CASE CamLoopCheck
    BY <1>2 DEF CamLoopCheck, QueueTypeOK
  <1>3. CASE Receive
    BY <1>3, ReceiveTypeOK DEF Receive
  <1>4. CASE SwitchEvent
    BY <1>4 DEF SwitchEvent, QueueTypeOK
  <1>5. CASE SetState
    BY <1>5 DEF SetState, TargetState, QueueTypeOK
  <1>6. CASE SwitchState
    <2>1. saveFrame' \in BOOLEAN /\ streaming' \in BOOLEAN
      BY <1>6, Zenon DEF SwitchState
    <2>2. cam_pc' \in CameraPc /\ camera_state' \in CameraState
      BY <1>6 DEF SwitchState
    <2> QED
      BY <1>6, <2>1, <2>2 DEF SwitchState, QueueTypeOK
  <1>7. CASE WriteFrame
    BY <1>7 DEF WriteFrame, QueueTypeOK
  <1>8. CASE CamDelay
    BY <1>8 DEF CamDelay, QueueTypeOK
  <1>9. CASE CamDelete
    BY <1>9 DEF CamDelete, QueueTypeOK
  <1>10. CASE CamExit
    BY <1>10 DEF CamExit, QueueTypeOK
  <1> QED
    BY <1>1, <1>2, <1>3, <1>4, <1>5, <1>6, <1>7, <1>8, <1>9, <1>10
       DEF CamNext, CamTask

-----------------------------------------------------------------------------
(* The steps of the composition, one lemma for each of its actors.         *)

LEMMA DetectorPart ==
  ASSUME IInv, DetectorStep
  PROVE  IInv'
  <1> USE DEF IInv
  <1>1. DetIInv'
    BY DetStep DEF DetectorStep
  <1>2. TypeOK'
    <2>1. QueueTypeOK' /\ DetTypeOK'
      BY <1>1 DEF DetIInv, DetTypeOK
    <2> QED
      BY <2>1 DEF DetectorStep, camVars, TypeOK, CamTypeOK
  <1>3. ExitInv'
    BY DEF ExitInv, DetectorStep, DetNext, DetTask, DetLoopCheck, ReadGpio,
           ProcessNextState, MotionAppears, MotionPauses, NoChange,
           SwitchMotionDetected, SwitchMotionLost, Settle, TimeoutEntry,
           TimeoutRun, TimeoutExit, Lose, SwitchDefault, DetDelay, DetDelete,
           ExitSetState, ExitUnexport, Tick, fsmVars, handlerVars
  <1>4. CameraInv'
    BY DEF CameraInv, DetectorStep, camVars
  <1>5. Agreement'
    <2>1. ASSUME NEW e \in Event, Announce(e)
          PROVE  Agreement'
      <3>1. SUFFICES ASSUME ~QueueFull
                     PROVE  DrainedState' = TargetState(e)
        BY <2>1 DEF Announce, Agreement, TargetState
      <3>2. mqueue' # <<>> /\ mqueue'[Len(mqueue')] = e
        BY <2>1, <3>1, SentIsNewest DEF Announce, TypeOK, DetTypeOK
      <3> QED
        BY <3>2 DEF DrainedState, Outstanding, TargetState, Event, EVENT_NONE,
                    EVENT_MOTION_DETECTED, EVENT_MOTION_LOST
    <2>2. CASE SwitchMotionDetected
      BY <2>1, <2>2 DEF SwitchMotionDetected, Event
    <2>3. CASE SwitchMotionLost
      BY <2>1, <2>3 DEF SwitchMotionLost, Event
    <2>4. CASE UNCHANGED eventVars
      BY <2>4 DEF Agreement, DrainedState, Outstanding, TargetState,
                  DetectorStep, camVars, eventVars
    <2> QED
      BY <2>2, <2>3, <2>4
         DEF DetectorStep, DetNext, DetTask, DetLoopCheck, ReadGpio,
             ProcessNextState, Settle, TimeoutEntry, TimeoutRun, TimeoutExit,
             Lose, SwitchDefault, DetDelay, DetDelete, ExitSetState,
             ExitUnexport, Tick
  <1> QED BY <1>1, <1>2, <1>3, <1>4, <1>5

LEMMA CameraPart ==
  ASSUME IInv, CameraStep
  PROVE  IInv'
  <1> USE DEF IInv
  <1>1. CamTypeOK'
    BY CamTypeStep DEF CameraStep, TypeOK
  <1>2. TypeOK' /\ DetIInv'
    <2>1. QueueTypeOK'
      BY <1>1 DEF CamTypeOK
    <2>2. DetTypeOK'
      BY <2>1 DEF CameraStep, detVars, fsmVars, handlerVars, TypeOK, DetTypeOK
    <2>3. DetIInv'
      BY <2>2 DEF CameraStep, detVars, fsmVars, handlerVars, DetIInv, HoldOffInv,
                  LosingInv, SwitchInv, SessionInv, NoticedInv, NoOrphanSession,
                  InSession, Pending
    <2> QED
      BY <1>1, <2>2, <2>3 DEF CameraStep, TypeOK
  <1>3. ExitInv'
    BY DEF ExitInv, CameraStep, detVars, fsmVars, handlerVars
  <1>4. CameraInv'
    BY DEF CameraInv, CameraStep, CamNext, CamTask, StreamOn, CamLoopCheck,
           Receive, SwitchEvent, Relevant, SetState, TargetState, SwitchState,
           WriteFrame, CamDelay, CamDelete, CamExit, Event
  <1>5. Agreement'
    <2> USE DEF Agreement, CameraInv, CameraStep, detVars, DrainedState, Outstanding
    <2>1. CASE Receive
      <3>1. CASE mqueue = <<>>
        BY <2>1, <3>1 DEF Receive, osal_queue_receive, ReceivedEvent
      <3>2. CASE mqueue # <<>>
        <4>1. IF mqueue' = <<>> THEN event' = mqueue[Len(mqueue)]
              ELSE mqueue'[Len(mqueue')] = mqueue[Len(mqueue)]
          BY <2>1, <3>2, ReceiveKeepsNewest DEF Receive, TypeOK, DetTypeOK
        <4> QED
          BY <2>1, <3>2, <4>1 DEF Receive
      <3> QED BY <3>1, <3>2
    <2>2. CASE SwitchEvent
      BY <2>2 DEF SwitchEvent, Relevant, TargetState, TypeOK, CamTypeOK,
                  EventOrNone, Event, EVENT_NONE, EVENT_MOTION_DETECTED, EVENT_MOTION_LOST
    <2>3. CASE SetState
      <3>1. event \in Event /\ event # EVENT_NONE
        BY <2>3 DEF SetState, Event, EVENT_NONE, EVENT_MOTION_DETECTED, EVENT_MOTION_LOST
      <3>2. mqueue # <<>> => mqueue[Len(mqueue)] \in Event
        BY DEF TypeOK, DetTypeOK, QueueTypeOK
      <3>3. mqueue # <<>> => mqueue[Len(mqueue)] # EVENT_NONE
        BY <3>2 DEF Event, EVENT_NONE, EVENT_MOTION_DETECTED, EVENT_MOTION_LOST
      <3>4. DrainedState' = DrainedState
        BY <2>3, <3>1, <3>3 DEF SetState, TargetState
      <3> QED
        <4> HIDE DEF DrainedState
        <4> QED BY <2>3, <3>4 DEF SetState, TargetState
    <2>4. CASE CamExit
      BY <2>4 DEF CamExit
    <2>5. CASE StreamOn \/ CamLoopCheck \/ SwitchState \/ WriteFrame \/ CamDelay
               \/ CamDelete
      <3> USE DEF StreamOn, CamLoopCheck, SwitchState, WriteFrame, CamDelay, CamDelete
      <3>1. Outstanding' = Outstanding
        BY <2>5
      <3>2. UNCHANGED <<announced, delivered, camera_exited>>
        BY <2>5
      <3>3. ~camera_exited => camera_state' = camera_state
        BY <2>5
      <3> HIDE DEF Outstanding, StreamOn, CamLoopCheck, SwitchState, WriteFrame,
                   CamDelay, CamDelete
      <3> QED BY <3>1, <3>2, <3>3
    <2> QED
      BY <2>1, <2>2, <2>3, <2>4, <2>5 DEF CamNext, CamTask
  <1> QED BY <1>1, <1>2, <1>3, <1>4, <1>5

LEMMA RestartPart ==
  ASSUME IInv, Restart
  PROVE  IInv'
  <1> USE DEF IInv
  <1>1. QueueTypeOK'
    <2>1. CASE mqueue' = mqueue
      BY <2>1 DEF QueueTypeOK, TypeOK, DetTypeOK
    <2>2. CASE mqueue' = <<>>
      BY <2>2 DEF QueueTypeOK
    <2> QED BY <2>1, <2>2 DEF Restart
  <1>2. DetBoot' /\ CamBoot'
    BY DEF Restart, DetReboot, DetBoot, CamReboot, CamBoot
  <1>3. DetIInv'
    BY <1>1, <1>2, DetBootInv, PTL
  <1>4. TypeOK'
    <2>1. saveFrame' \in BOOLEAN /\ streaming' \in BOOLEAN /\ camera_exited' \in BOOLEAN
      BY <1>2, Zenon DEF CamBoot
    <2>2. CamTypeOK'
      BY <1>1, <1>2, <2>1 DEF CamBoot, CamTypeOK, CameraPc, CameraState, EventOrNone
    <2> QED
      BY <1>3, <2>2 DEF Restart, TypeOK, DetIInv
  <1>5. ExitInv' /\ CameraInv' /\ Agreement'
    BY <1>2 DEF DetBoot, CamBoot, ExitInv, CameraInv, Agreement
  <1> QED BY <1>3, <1>4, <1>5

-----------------------------------------------------------------------------
(* The theorems.                                                           *)

\* The inductive invariant holds of every behaviour of the two tasks.
THEOREM Invariant == Spec => []IInv
  <1>1. Init => IInv
    <2> SUFFICES ASSUME Init PROVE IInv
      OBVIOUS
    <2>1. QueueTypeOK
      BY DEF Init, QueueTypeOK
    <2>2. DetIInv
      BY <2>1, DetBootInv DEF Init
    <2>3. TypeOK
      <3>1. saveFrame \in BOOLEAN /\ streaming \in BOOLEAN /\ camera_exited \in BOOLEAN
        BY Zenon DEF Init, CamBoot
      <3>2. CamTypeOK
        BY <2>1, <3>1 DEF Init, CamBoot, CamTypeOK, CameraPc, CameraState, EventOrNone
      <3> QED
        BY <2>2, <3>2 DEF Init, TypeOK, DetIInv
    <2>4. ExitInv /\ CameraInv /\ Agreement
      BY DEF Init, DetBoot, CamBoot, ExitInv, CameraInv, Agreement
    <2> QED BY <2>2, <2>3, <2>4 DEF IInv
  <1>2. IInv /\ [Next]_vars => IInv'
    <2> SUFFICES ASSUME IInv, [Next]_vars PROVE IInv'
      OBVIOUS
    <2>1. CASE Next
      BY <2>1, DetectorPart, CameraPart, RestartPart DEF Next
    <2>2. CASE UNCHANGED vars
      <3>1. UNCHANGED detectionVars
        BY <2>2 DEF vars, detectionVars
      <3>2. DetIInv'
        BY <3>1, DetStutter DEF IInv
      <3>3. TypeOK' /\ ExitInv' /\ CameraInv' /\ Agreement'
        BY <2>2, <3>2 DEF IInv, vars, detVars, camVars, fsmVars, handlerVars,
             TypeOK, DetIInv, CamTypeOK, ExitInv, CameraInv, Agreement,
             DrainedState, Outstanding, QueueTypeOK
      <3> QED BY <3>2, <3>3 DEF IInv
    <2> QED BY <2>1, <2>2
  <1> QED
    BY <1>1, <1>2, PTL DEF Spec

\* Until shutdown, the camera is in the state that the detector's last accepted
\* event asks for, or will be when it has taken what is queued.
THEOREM TasksAgree == Spec => []Agreement
  <1>1. IInv => Agreement
    BY DEF IInv
  <1> QED
    BY <1>1, Invariant, PTL

\* At rest, the camera captures exactly while there is motion or the hold-off
\* runs.
THEOREM CaptureIsMotion == Spec => []CaptureMatchesMotion
  <1>1. IInv => CaptureMatchesMotion
    <2> SUFFICES ASSUME IInv, Quiescent, Up, delivered
                 PROVE  camera_state = "eSTATE_CAPTURING" <=>
                          \/ motion_detected
                          \/ detection_state \in {"eSTATE_TIMEOUT", "eSTATE_MOTION_LOST"}
      BY DEF CaptureMatchesMotion, Up
    <2>1. camera_state = TargetState(announced)
      BY DEF IInv, Agreement, Up, DrainedState, Outstanding, Quiescent
    <2>2. InSession <=>
            \/ motion_detected
            \/ detection_state \in {"eSTATE_TIMEOUT", "eSTATE_MOTION_LOST"}
      BY DEF IInv, DetIInv, ExitInv, Up, Quiescent, HoldOffInv, LosingInv,
             SessionInv, NoOrphanSession, InSession, DetTypeOK, DetectionState
    <2> QED
      BY <2>1, <2>2 DEF InSession, TargetState
  <1> QED
    BY <1>1, Invariant, PTL

\* Every variable of the two tasks keeps its type.
THEOREM TypeCorrect == Spec => []TypeOK
  <1>1. IInv => TypeOK
    BY DEF IInv
  <1> QED
    BY <1>1, Invariant, PTL

-----------------------------------------------------------------------------
(* What the camera has heard.                                              *)

\* Until shutdown the camera captures if what it heard last is a motion, except
\* between taking an event and acting on it.
HeardInv ==
  ~camera_exited =>
    /\ IF cam_pc \in {"event", "set"} /\ event # EVENT_NONE
         THEN heard = event
         ELSE camera_state = "eSTATE_CAPTURING" <=> heard = EVENT_MOTION_DETECTED
    /\ cam_pc = "write" => (saveFrame <=> camera_state = "eSTATE_CAPTURING")

\* A step of the camera keeps that.
LEMMA HeardStep ==
  ASSUME TypeOK, CameraInv, HeardInv, CamNext
  PROVE  HeardInv'
  <1> USE DEF HeardInv, EVENT_NONE, EVENT_MOTION_DETECTED, EVENT_MOTION_LOST
  <1>1. CASE CamExit
    BY <1>1 DEF CamExit
  <1>2. CASE StreamOn \/ CamLoopCheck \/ WriteFrame \/ CamDelay \/ CamDelete
    BY <1>2 DEF StreamOn, CamLoopCheck, WriteFrame, CamDelay, CamDelete
  <1>3. CASE Receive
    BY <1>3 DEF Receive
  <1>4. CASE SwitchEvent
    BY <1>4 DEF SwitchEvent, Relevant, CameraInv, TypeOK, CamTypeOK, EventOrNone, Event
  <1>5. CASE SetState
    BY <1>5 DEF SetState, TargetState, CameraInv, Event
  <1>6. CASE SwitchState
    BY <1>6 DEF SwitchState, CameraInv
  <1> QED
    BY <1>1, <1>2, <1>3, <1>4, <1>5, <1>6 DEF CamNext, CamTask

\* Each frame is kept or dropped as the last event that was taken asks for.
THEOREM FramesAsHeard == Spec => []SaveMatchesHeard
  <1>1. Init => HeardInv
    BY DEF Init, CamBoot, HeardInv, EVENT_NONE, EVENT_MOTION_DETECTED
  <1>2. IInv /\ HeardInv /\ [Next]_vars => HeardInv'
    <2> SUFFICES ASSUME IInv, HeardInv, [Next]_vars PROVE HeardInv'
      OBVIOUS
    <2>1. CASE CameraStep
      BY <2>1, HeardStep DEF CameraStep, IInv
    <2>2. CASE DetectorStep \/ UNCHANGED vars
      BY <2>2 DEF DetectorStep, vars, camVars, HeardInv
    <2>3. CASE Restart
      BY <2>3 DEF Restart, CamReboot, HeardInv, EVENT_NONE, EVENT_MOTION_DETECTED
    <2> QED
      BY <2>1, <2>2, <2>3 DEF Next
  <1>3. HeardInv => SaveMatchesHeard
    BY DEF HeardInv, SaveMatchesHeard
  <1> QED
    BY <1>1, <1>2, <1>3, Invariant, PTL DEF Spec

\* No event and no step of either task undoes camera_exit, except the assignment
\* that the camera task had decided on before.
THEOREM CameraStaysOut == Spec => CameraExitKept
  <1>1. [Next]_vars =>
          [camera_exited /\ camera_state = "eSTATE_EXIT" /\ cam_pc # "set" =>
             \/ camera_state' = "eSTATE_EXIT" /\ cam_pc' # "set"
             \/ Restart]_vars
    <2> SUFFICES ASSUME Next, camera_state = "eSTATE_EXIT", cam_pc # "set", ~Restart
                 PROVE  camera_state' = "eSTATE_EXIT" /\ cam_pc' # "set"
      OBVIOUS
    <2>1. CASE DetectorStep
      BY <2>1 DEF DetectorStep, camVars
    <2>2. CASE CameraStep
      BY <2>2 DEF CameraStep, CamNext, CamTask, StreamOn, CamLoopCheck, Receive,
           SwitchEvent, Relevant, SetState, SwitchState, WriteFrame, CamDelay, CamDelete,
           CamExit
    <2> QED
      BY <2>1, <2>2 DEF Next
  <1> QED
    BY <1>1, PTL DEF Spec, CameraExitKept
=============================================================================
