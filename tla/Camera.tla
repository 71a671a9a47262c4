-------------------------------- MODULE Camera --------------------------------
(***************************************************************************)
(* The camera of src/src/camera/camera.c: the camera task, which takes one *)
(* motion event per iteration from the queue, and on every iteration takes *)
(* one frame from the driver, to keep it or to drop it; and camera_exit,   *)
(* which the OSAL's scheduler thread runs at shutdown.  Both write the     *)
(* variable `state' (camera_state here) with no lock, so the task is cut   *)
(* into steps between each test of it and the assignment that follows.     *)
(***************************************************************************)
EXTENDS MotionEvents

VARIABLES
  cam_pc,             \* where the camera task is in its loop
  event,              \* the local `event' of an iteration
  camera_state,       \* `state', the camera's state machine
  saveFrame,          \* the argument of the last framebuffer_writeframe
  streaming,          \* the driver is between STREAMON and STREAMOFF
  camera_exited,      \* camera_exit has been called
  heard               \* history: the last event taken from the queue

camVars == <<cam_pc, event, camera_state, saveFrame, streaming,
             camera_exited, heard>>
cameraVars == <<camVars, mqueue>>

CameraState == {"eSTATE_IDLE", "eSTATE_CAPTURING", "eSTATE_EXITING", "eSTATE_EXIT"}
CameraPc == {"start", "loop", "receive", "event", "set", "act", "write",
             "delay", "delete", "gone"}

CamTypeOK ==
  /\ QueueTypeOK
  /\ cam_pc \in CameraPc
  /\ event \in EventOrNone
  /\ camera_state \in CameraState
  /\ saveFrame \in BOOLEAN
  /\ streaming \in BOOLEAN
  /\ camera_exited \in BOOLEAN
  /\ heard \in EventOrNone

-----------------------------------------------------------------------------
(* The initial state, and the state after a restart of the process.        *)

CamBoot ==
  /\ cam_pc = "start"
  /\ event = EVENT_NONE
  /\ camera_state = "eSTATE_IDLE"
  /\ saveFrame = FALSE
  /\ streaming = FALSE
  /\ camera_exited = FALSE
  /\ heard = EVENT_NONE

\* The same values, assigned by a new start of the program.
CamReboot ==
  /\ cam_pc' = "start"
  /\ event' = EVENT_NONE
  /\ camera_state' = "eSTATE_IDLE"
  /\ saveFrame' = FALSE
  /\ streaming' = FALSE
  /\ camera_exited' = FALSE
  /\ heard' = EVENT_NONE

-----------------------------------------------------------------------------
(* The camera task.                                                        *)

\* camera_capturestate(eCAMERA_ON); a failure of the ioctl is not looked at.
StreamOn ==
  /\ cam_pc = "start"
  /\ streaming' \in BOOLEAN
  /\ cam_pc' = "loop"
  /\ UNCHANGED <<event, camera_state, saveFrame, camera_exited, heard, mqueue>>

CamLoopCheck ==
  /\ cam_pc = "loop"
  /\ cam_pc' = IF camera_state = "eSTATE_EXIT" THEN "delete" ELSE "receive"
  /\ UNCHANGED <<event, camera_state, saveFrame, streaming, camera_exited,
                 heard, mqueue>>

\* process_event_queue: at most one event per iteration.
Receive ==
  /\ cam_pc = "receive"
  /\ event' = ReceivedEvent
  /\ heard' = IF event' = EVENT_NONE THEN heard ELSE event'
  /\ osal_queue_receive
  /\ cam_pc' = "event"
  /\ UNCHANGED <<camera_state, saveFrame, streaming, camera_exited>>

\* Mutant: a lost motion is also acted upon while the camera is idle only.
Mut_Relevant ==
  event \in Event /\ camera_state = "eSTATE_IDLE"

\* Mutant: a motion is acted upon in the wrong state.
Mut_RelevantSwapped ==
  \/ event = EVENT_MOTION_DETECTED /\ camera_state = "eSTATE_CAPTURING"
  \/ event = EVENT_MOTION_LOST /\ camera_state # "eSTATE_EXIT"

\* Mutant: the state is not tested when the motion is lost.
Mut_RelevantUntested ==
  \/ event = EVENT_MOTION_DETECTED /\ camera_state = "eSTATE_IDLE"
  \/ event = EVENT_MOTION_LOST

\* The tests of the first switch: does the event change the state?
Relevant ==
  \/ event = EVENT_MOTION_DETECTED /\ camera_state = "eSTATE_IDLE"
  \/ event = EVENT_MOTION_LOST /\ camera_state # "eSTATE_EXIT"

SwitchEvent ==
  /\ cam_pc = "event"
  /\ cam_pc' = IF Relevant THEN "set" ELSE "act"
  /\ UNCHANGED <<event, camera_state, saveFrame, streaming, camera_exited,
                 heard, mqueue>>

\* The state an event leads to.
TargetState(e) ==
  IF e = EVENT_MOTION_DETECTED THEN "eSTATE_CAPTURING" ELSE "eSTATE_IDLE"

\* set_camera_state after the test; camera_exit may have come in between.
SetState ==
  /\ cam_pc = "set"
  /\ camera_state' = TargetState(event)
  /\ cam_pc' = "act"
  /\ UNCHANGED <<event, saveFrame, streaming, camera_exited, heard, mqueue>>

\* The second switch, on the frame of this iteration.  The eSTATE_EXITING
\* case calls camera_capturestate(eCAMERA_OFF) and moves to eSTATE_EXIT.
SwitchState ==
  /\ cam_pc = "act"
  /\ IF camera_state \in {"eSTATE_IDLE", "eSTATE_CAPTURING"}
       THEN /\ saveFrame' = (camera_state = "eSTATE_CAPTURING")
            /\ cam_pc' = "write"
       ELSE /\ UNCHANGED saveFrame
            /\ cam_pc' = "delay"
  /\ IF camera_state = "eSTATE_EXITING"
       THEN /\ streaming' \in {FALSE, streaming}
            /\ camera_state' = "eSTATE_EXIT"
       ELSE UNCHANGED <<streaming, camera_state>>
  /\ UNCHANGED <<event, camera_exited, heard, mqueue>>

\* framebuffer_writeframe: select waits with no timeout until the driver has
\* a frame (or an error) for the task.
WriteFrame ==
  /\ cam_pc = "write"
  /\ cam_pc' = "delay"
  /\ UNCHANGED <<event, camera_state, saveFrame, streaming, camera_exited,
                 heard, mqueue>>

\* osal_task_delay returns when the sequencer releases the task.
CamDelay ==
  /\ cam_pc = "delay"
  /\ cam_pc' = "loop"
  /\ UNCHANGED <<event, camera_state, saveFrame, streaming, camera_exited,
                 heard, mqueue>>

CamDelete ==
  /\ cam_pc = "delete"
  /\ cam_pc' = "gone"
  /\ UNCHANGED <<event, camera_state, saveFrame, streaming, camera_exited,
                 heard, mqueue>>

CamTask ==
  \/ StreamOn \/ CamLoopCheck \/ Receive \/ SwitchEvent \/ SetState
  \/ SwitchState \/ WriteFrame \/ CamDelay \/ CamDelete

\* camera_exit, in the scheduler thread: eSTATE_EXIT at once, whatever the
\* task is doing.
CamExit ==
  /\ ~camera_exited
  /\ camera_state' = "eSTATE_EXIT"
  /\ camera_exited' = TRUE
  /\ UNCHANGED <<cam_pc, event, saveFrame, streaming, heard, mqueue>>

CamNext == CamTask \/ CamExit

-----------------------------------------------------------------------------
(* Properties.                                                             *)

\* Until shutdown, the frame an iteration handles is kept exactly if the last
\* event taken from the queue, in this iteration or an earlier one, was
\* EVENT_MOTION_DETECTED: no event is skipped, whatever order they come in.
SaveMatchesHeard ==
  cam_pc = "write" /\ ~camera_exited =>
    (saveFrame <=> heard = EVENT_MOTION_DETECTED)
=============================================================================
