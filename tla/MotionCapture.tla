---------------------------- MODULE MotionCapture ----------------------------
(***************************************************************************)
(* The detector and the camera together: "the detection and camera modules *)
(* collaborate to detect motion and capture video frames, each operating   *)
(* as a state machine".  They share nothing but the event queue, which is  *)
(* bounded, is written and read without waiting, and outlives the process: *)
(* a crash may leave events behind for the next start of the program.      *)
(***************************************************************************)
EXTENDS Detection, Camera

CONSTANT MAX_RESTARTS \* a bound on the restarts explored

ASSUME MaxRestartsAssumption == MAX_RESTARTS \in Nat

VARIABLE restarts     \* how often the program has been started again

vars == <<detVars, camVars, mqueue, restarts>>

TypeOK == DetTypeOK /\ CamTypeOK /\ restarts \in 0 .. MAX_RESTARTS

Init ==
  /\ DetBoot
  /\ CamBoot
  /\ mqueue = <<>>
  /\ restarts = 0

-----------------------------------------------------------------------------

DetectorStep == DetNext /\ UNCHANGED <<camVars, restarts>>

CameraStep == CamNext /\ UNCHANGED <<detVars, restarts>>

\* The process is killed, or dies, at any point and is started again.  Its
\* variables are initialised; the queue, which nothing unlinks, is as it was,
\* unless the board was rebooted too.
Restart ==
  /\ restarts < MAX_RESTARTS
  /\ DetReboot
  /\ CamReboot
  /\ mqueue' \in {mqueue, <<>>}
  /\ restarts' = restarts + 1

Next == DetectorStep \/ CameraStep \/ Restart

Spec == Init /\ [][Next]_vars

\* Nobody shuts the program down.
Up == exit_pc = "not_called" /\ ~camera_exited

\* Both tasks are SCHED_FIFO threads that the sequencer releases again and
\* again, and the webcam goes on delivering frames.
FairSpec ==
  /\ Init
  /\ [][Next /\ Up']_vars
  /\ WF_vars(DetTask /\ UNCHANGED <<camVars, restarts>>)
  /\ WF_vars(Tick /\ UNCHANGED <<camVars, restarts>>)
  /\ WF_vars(CamTask /\ UNCHANGED <<detVars, restarts>>)

-----------------------------------------------------------------------------
(* Properties.                                                             *)

\* The last event the camera has yet to act upon: the newest one in the
\* queue, else the one in hand.
Outstanding ==
  IF mqueue # <<>> THEN mqueue[Len(mqueue)]
  ELSE IF cam_pc \in {"event", "set"} THEN event
  ELSE EVENT_NONE

\* The state the camera will be in when it has acted upon all of them.
DrainedState ==
  IF Outstanding = EVENT_NONE THEN camera_state
  ELSE TargetState(Outstanding)

\* Until shutdown, if the queue accepted the detector's last event, the camera
\* is in the state that event asks for, or will be once it has taken what is in
\* the queue: the two state machines cannot drift apart by any interleaving of
\* the tasks, nor by what an earlier run of the program left in the queue.
Agreement ==
  ~camera_exited /\ delivered => DrainedState = TargetState(announced)

\* The eSTATE_EXIT of camera_exit is final for this run of the program, wherever
\* the camera task is and whatever is in the queue, but for one place: it
\* may be between its test of the state and the assignment (camera.c:169-179).
CameraExitKept ==
  [][camera_exited /\ camera_state = "eSTATE_EXIT" /\ cam_pc # "set" =>
       \/ camera_state' = "eSTATE_EXIT" /\ cam_pc' # "set"
       \/ Restart]_vars

\* Both tasks are between two iterations and there is nothing in the queue.
Quiescent ==
  det_pc \in {"delay", "loop"} /\ cam_pc \in {"delay", "loop"} /\ mqueue = <<>>

\* At rest, and until shutdown, the camera captures exactly while there is
\* motion or the hold-off runs, provided the last event was accepted.
CaptureMatchesMotion ==
  Quiescent /\ Up /\ delivered =>
    (camera_state = "eSTATE_CAPTURING" <=>
       motion_detected \/ detection_state \in {"eSTATE_TIMEOUT", "eSTATE_MOTION_LOST"})

\* README.md:107 gives the hold-off as what ensures "continuous motion detection
\* without gaps", and README.md:81 moves the camera to eSTATE_CAPTURING: at rest,
\* and until shutdown, motion that the detector knows of is being captured.  Here
\* the event may have been refused by a full queue, which the detector ignores.
OpenSessionCaptured ==
  Quiescent /\ Up /\ motion_detected =>
    camera_state = "eSTATE_CAPTURING"

\* README.md:2 promises motion-activated streaming: the camera captures only
\* when this run of the program has seen motion.
CaptureNeedsMotion ==
  camera_state = "eSTATE_CAPTURING" => announced # EVENT_NONE

\* If the sensor shows motion for good, the camera ends up capturing for good,
\* unless the program is shut down or the last event is refused by the queue.
MotionIsCaptured ==
  <>[](cur_status # 0 /\ delivered) => <>[](camera_state = "eSTATE_CAPTURING")

\* If the sensor goes quiet for good, the camera ends up idle for good, unless
\* the program is shut down, or the last event is refused by the queue, or none
\* has been accepted since a restart, when an older one may keep it capturing.
QuietEndsCapture ==
  <>[](cur_status = 0 /\ delivered) => <>[](camera_state = "eSTATE_IDLE")

-----------------------------------------------------------------------------
(* The inductive invariant behind Agreement and CaptureMatchesMotion.      *)

CameraInv ==
  /\ ~camera_exited => camera_state \in {"eSTATE_IDLE", "eSTATE_CAPTURING"}
  /\ cam_pc = "set" => event \in Event

ExitInv == exit_pc = "not_called" => detection_state # "eSTATE_EXIT"

IInv == TypeOK /\ DetIInv /\ ExitInv /\ CameraInv /\ Agreement
=============================================================================
