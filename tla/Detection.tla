------------------------------ MODULE Detection ------------------------------
(***************************************************************************)
(* The motion detector of src/src/detection/detection.c: the detection     *)
(* task, which samples the PIR sensor on a GPIO pin and drives a state     *)
(* machine with a software hold-off, and detection_exit, which the OSAL's  *)
(* scheduler thread runs at shutdown.  The two share detection_state with  *)
(* no lock, so an iteration of the task is cut into steps wherever the     *)
(* exit handler, which has the higher priority, can come between.          *)
(***************************************************************************)
EXTENDS MotionEvents

CONSTANT TIMEOUT      \* the hold-off (5.0 s in the code), in ticks of Tick

ASSUME TimeoutAssumption == TIMEOUT \in Nat \ {0}

VARIABLES
  det_pc,             \* where the detection task is in its loop
  cur_status,         \* the last sample, as the uint8_t the task keeps
  motion_detected,
  detection_state,
  detection_substate,
  elapsed,            \* time since timeout_start, up to TIMEOUT
  gpio_exported,      \* the pin can be read through sysfs
  exit_pc,            \* where the scheduler thread is in detection_exit
  announced,          \* history: the last event given to osal_queue_send
  delivered,          \* history: that event was accepted by the queue
  quiet               \* history: time since the last high sample, up to TIMEOUT

fsmVars == <<motion_detected, detection_state, detection_substate>>
handlerVars == <<gpio_exported, exit_pc>>
eventVars == <<announced, delivered, mqueue>>
detVars == <<det_pc, cur_status, fsmVars, elapsed, handlerVars,
             announced, delivered, quiet>>
detectionVars == <<detVars, mqueue>>

DetectionState == {"eSTATE_DETECTING", "eSTATE_MOTION_DETECTED",
                   "eSTATE_MOTION_LOST", "eSTATE_TIMEOUT", "eSTATE_EXIT"}
DetectionSubstate == {"eSUBSTATE_ENTRY", "eSUBSTATE_RUN", "eSUBSTATE_EXIT"}
DetectionPc == {"loop", "read", "process", "switch", "settle", "lose",
                "delay", "delete", "gone"}

DetTypeOK ==
  /\ QueueTypeOK
  /\ det_pc \in DetectionPc
  /\ cur_status \in {0, 1, 255}
  /\ motion_detected \in BOOLEAN
  /\ detection_state \in DetectionState
  /\ detection_substate \in DetectionSubstate
  /\ elapsed \in 0 .. TIMEOUT
  /\ gpio_exported \in BOOLEAN
  /\ exit_pc \in {"not_called", "state_set", "returned"}
  /\ announced \in EventOrNone
  /\ delivered \in BOOLEAN
  /\ quiet \in 0 .. TIMEOUT

-----------------------------------------------------------------------------
(* The initial state, and the state after a restart of the process.        *)

\* detection_init ignores the result of initialize_gpio: the task starts
\* whether or not the pin could be exported.
DetBoot ==
  /\ det_pc = "loop"
  /\ cur_status = 0
  /\ motion_detected = FALSE
  /\ detection_state = "eSTATE_DETECTING"
  /\ detection_substate = "eSUBSTATE_ENTRY"
  /\ elapsed = TIMEOUT
  /\ gpio_exported \in BOOLEAN
  /\ exit_pc = "not_called"
  /\ announced = EVENT_NONE
  /\ delivered = FALSE
  /\ quiet = TIMEOUT

\* The same values, assigned by a new start of the program.
DetReboot ==
  /\ det_pc' = "loop"
  /\ cur_status' = 0
  /\ motion_detected' = FALSE
  /\ detection_state' = "eSTATE_DETECTING"
  /\ detection_substate' = "eSUBSTATE_ENTRY"
  /\ elapsed' = TIMEOUT
  /\ gpio_exported' \in BOOLEAN
  /\ exit_pc' = "not_called"
  /\ announced' = EVENT_NONE
  /\ delivered' = FALSE
  /\ quiet' = TIMEOUT

DetInit == DetBoot /\ mqueue = <<>>

-----------------------------------------------------------------------------
(* The detection task.                                                     *)

DetLoopCheck ==
  /\ det_pc = "loop"
  /\ det_pc' = IF detection_state = "eSTATE_EXIT" THEN "delete" ELSE "read"
  /\ UNCHANGED <<cur_status, fsmVars, elapsed, handlerVars, quiet, eventVars>>

\* What read_gpio_value may return: a failed open or read is -1.
GpioReadings == IF gpio_exported THEN {-1, 0, 1} ELSE {-1}

\* Mutant: the sample is kept as the int that read_gpio_value returns.
Mut_AsUint8(value) == value

\* The int returned is narrowed to a uint8_t: a failure, -1, becomes 255.
AsUint8(value) == value % 256

ReadGpio ==
  /\ det_pc = "read"
  /\ \E value \in GpioReadings : cur_status' = AsUint8(value)
  /\ quiet' = IF cur_status' = 0 THEN quiet ELSE 0
  /\ det_pc' = "process"
  /\ UNCHANGED <<fsmVars, elapsed, handlerVars, eventVars>>

\* Mutant: motion does not cancel a hold-off.
Mut_MotionAppears ==
  /\ cur_status # 0
  /\ ~motion_detected
  /\ detection_state' = IF detection_state = "eSTATE_TIMEOUT"
                         THEN detection_state ELSE "eSTATE_MOTION_DETECTED"
  /\ UNCHANGED <<motion_detected, detection_substate>>

\* process_next_state, first branch: motion where none was known.
MotionAppears ==
  /\ cur_status # 0
  /\ ~motion_detected
  /\ detection_state' = "eSTATE_MOTION_DETECTED"
  /\ UNCHANGED <<motion_detected, detection_substate>>

\* process_next_state, second branch: motion ends and the hold-off starts.
MotionPauses ==
  /\ cur_status = 0
  /\ motion_detected
  /\ motion_detected' = FALSE
  /\ IF detection_state # "eSTATE_TIMEOUT"
       THEN /\ detection_substate' = "eSUBSTATE_ENTRY"
            /\ detection_state' = "eSTATE_TIMEOUT"
       ELSE UNCHANGED <<detection_substate, detection_state>>

NoChange ==
  /\ motion_detected <=> cur_status # 0
  /\ UNCHANGED fsmVars

ProcessNextState ==
  /\ det_pc = "process"
  /\ MotionAppears \/ MotionPauses \/ NoChange
  /\ det_pc' = "switch"
  /\ UNCHANGED <<cur_status, elapsed, handlerVars, quiet, eventVars>>

\* The sends of the task; the result of osal_queue_send is not looked at.
Announce(e) ==
  /\ osal_queue_send(e)
  /\ announced' = e
  /\ delivered' = ~QueueFull

SwitchMotionDetected ==
  /\ det_pc = "switch"
  /\ detection_state = "eSTATE_MOTION_DETECTED"
  /\ motion_detected' = TRUE
  /\ Announce(EVENT_MOTION_DETECTED)
  /\ det_pc' = "settle"
  /\ UNCHANGED <<cur_status, detection_state, detection_substate, elapsed,
                 handlerVars, quiet>>

SwitchMotionLost ==
  /\ det_pc = "switch"
  /\ detection_state = "eSTATE_MOTION_LOST"
  /\ motion_detected' = FALSE
  /\ Announce(EVENT_MOTION_LOST)
  /\ det_pc' = "settle"
  /\ UNCHANGED <<cur_status, detection_state, detection_substate, elapsed,
                 handlerVars, quiet>>

\* The set_detection_state(eSTATE_DETECTING) that ends both sending cases.
Settle ==
  /\ det_pc = "settle"
  /\ detection_state' = "eSTATE_DETECTING"
  /\ det_pc' = "delay"
  /\ UNCHANGED <<cur_status, motion_detected, detection_substate, elapsed,
                 handlerVars, quiet, eventVars>>

InTimeout(substate) ==
  /\ det_pc = "switch"
  /\ detection_state = "eSTATE_TIMEOUT"
  /\ detection_substate = substate

\* Mutant: the sub-state does not advance, and every visit restarts the clock.
Mut_TimeoutEntry ==
  /\ InTimeout("eSUBSTATE_ENTRY")
  /\ elapsed' = 0
  /\ det_pc' = "delay"
  /\ UNCHANGED <<cur_status, fsmVars, handlerVars, quiet, eventVars>>

TimeoutEntry ==
  /\ InTimeout("eSUBSTATE_ENTRY")
  /\ detection_substate' = "eSUBSTATE_RUN"
  /\ elapsed' = 0
  /\ det_pc' = "delay"
  /\ UNCHANGED <<cur_status, motion_detected, detection_state, handlerVars,
                 quiet, eventVars>>

\* Mutant: the hold-off ends one unit of time early.
Mut_TimeoutElapsed == elapsed >= TIMEOUT - 1

TimeoutElapsed == elapsed >= TIMEOUT

TimeoutRun ==
  /\ InTimeout("eSUBSTATE_RUN")
  /\ detection_substate' = IF TimeoutElapsed THEN "eSUBSTATE_EXIT"
                           ELSE detection_substate
  /\ det_pc' = "delay"
  /\ UNCHANGED <<cur_status, motion_detected, detection_state, elapsed,
                 handlerVars, quiet, eventVars>>

TimeoutExit ==
  /\ InTimeout("eSUBSTATE_EXIT")
  /\ motion_detected' = FALSE
  /\ det_pc' = "lose"
  /\ UNCHANGED <<cur_status, detection_state, detection_substate, elapsed,
                 handlerVars, quiet, eventVars>>

\* Mutant: the hold-off ends straight in eSTATE_DETECTING.
Mut_Lose ==
  /\ det_pc = "lose"
  /\ detection_state' = "eSTATE_DETECTING"
  /\ det_pc' = "delay"
  /\ UNCHANGED <<cur_status, motion_detected, detection_substate, elapsed,
                 handlerVars, quiet, eventVars>>

\* The set_detection_state(eSTATE_MOTION_LOST) that ends the hold-off.
Lose ==
  /\ det_pc = "lose"
  /\ detection_state' = "eSTATE_MOTION_LOST"
  /\ det_pc' = "delay"
  /\ UNCHANGED <<cur_status, motion_detected, detection_substate, elapsed,
                 handlerVars, quiet, eventVars>>

SwitchDefault ==
  /\ det_pc = "switch"
  /\ detection_state \in {"eSTATE_DETECTING", "eSTATE_EXIT"}
  /\ det_pc' = "delay"
  /\ UNCHANGED <<cur_status, fsmVars, elapsed, handlerVars, quiet, eventVars>>

\* osal_task_delay returns when the sequencer releases the task.
DetDelay ==
  /\ det_pc = "delay"
  /\ det_pc' = "loop"
  /\ UNCHANGED <<cur_status, fsmVars, elapsed, handlerVars, quiet, eventVars>>

DetDelete ==
  /\ det_pc = "delete"
  /\ det_pc' = "gone"
  /\ UNCHANGED <<cur_status, fsmVars, elapsed, handlerVars, quiet, eventVars>>

DetTask ==
  \/ DetLoopCheck \/ ReadGpio \/ ProcessNextState
  \/ SwitchMotionDetected \/ SwitchMotionLost \/ Settle
  \/ TimeoutEntry \/ TimeoutRun \/ TimeoutExit \/ Lose
  \/ SwitchDefault \/ DetDelay \/ DetDelete

-----------------------------------------------------------------------------
(* The scheduler thread in detection_exit, and the passing of time.        *)

ExitSetState ==
  /\ exit_pc = "not_called"
  /\ detection_state' = "eSTATE_EXIT"
  /\ exit_pc' = "state_set"
  /\ UNCHANGED <<det_pc, cur_status, motion_detected, detection_substate,
                 elapsed, gpio_exported, quiet, eventVars>>

ExitUnexport ==
  /\ exit_pc = "state_set"
  /\ gpio_exported' \in {FALSE, gpio_exported}   \* its failure is ignored
  /\ exit_pc' = "returned"
  /\ UNCHANGED <<det_pc, cur_status, fsmVars, elapsed, quiet, eventVars>>

Later(t) == IF t < TIMEOUT THEN t + 1 ELSE t

Tick ==
  /\ elapsed' = Later(elapsed)
  /\ quiet' = Later(quiet)
  /\ UNCHANGED <<det_pc, cur_status, fsmVars, handlerVars, eventVars>>

DetNext == DetTask \/ ExitSetState \/ ExitUnexport \/ Tick

-----------------------------------------------------------------------------
(* The component on its own: a reader empties the queue at any time.       *)

Reader ==
  /\ mqueue # <<>>
  /\ osal_queue_receive
  /\ UNCHANGED detVars

DetSpec == DetInit /\ [][DetNext \/ Reader]_detectionVars

\* The task is a SCHED_FIFO thread released by every tick of the timer, and
\* the clock does not stop; nothing obliges the user to shut down.
DetFairSpec == DetSpec /\ WF_detectionVars(DetTask) /\ WF_detectionVars(Tick)

-----------------------------------------------------------------------------
(* Properties.                                                             *)

\* The events announced form sessions of motion as MotionSession promises:
\* EVENT_MOTION_DETECTED only after a sample that shows motion
\* (process_next_state), EVENT_MOTION_LOST only when a session is open and no
\* sample has shown motion for the whole hold-off (the eSTATE_TIMEOUT case),
\* whatever the sensor does and whenever detection_exit comes in between.
MS == INSTANCE MotionSession WITH
        active <- announced = EVENT_MOTION_DETECTED,
        moving <- cur_status # 0,
        HOLD <- TIMEOUT

SessionSpec == MS!Spec

\* A session cannot be forgotten: back in eSTATE_DETECTING with
\* motion_detected FALSE, where the task would do nothing more about it, the
\* last event announced is not EVENT_MOTION_DETECTED.
NoOrphanSession ==
  detection_state = "eSTATE_DETECTING" /\ ~motion_detected =>
    announced # EVENT_MOTION_DETECTED

\* Until shutdown, when an iteration of the task ends on a sample with motion,
\* the flag and the listeners both know of it: also if the motion interrupted
\* a hold-off at any of its sub-states, or came with the end of one.
SampleAnnounced ==
  det_pc \in {"delay", "loop"} /\ cur_status # 0 /\ exit_pc = "not_called" =>
    motion_detected /\ announced = EVENT_MOTION_DETECTED

\* If the sensor goes quiet for good, the session is closed, unless the
\* system is shut down first: no sub-state of the hold-off can trap the task.
HoldOffExpires ==
  <>[](cur_status = 0) =>
    []<>(announced # EVENT_MOTION_DETECTED \/ exit_pc # "not_called")

\* What README.md:74 says of eSTATE_EXIT: it is entered from any state and no
\* transition leaves it.
DetExitIsFinal ==
  [][detection_state = "eSTATE_EXIT" => detection_state' = "eSTATE_EXIT"]_detectionVars

-----------------------------------------------------------------------------
(* The inductive invariant behind SessionSpec, NoOrphanSession and         *)
(* SampleAnnounced: what each state of the detector knows of the session.  *)

InSession == announced = EVENT_MOTION_DETECTED

\* A sample with motion has been taken and not yet been acted upon.
Pending == det_pc = "process" /\ cur_status # 0

HoldOffInv ==
  /\ detection_state = "eSTATE_TIMEOUT" => ~motion_detected /\ InSession
  /\ detection_state = "eSTATE_TIMEOUT" /\ detection_substate = "eSUBSTATE_RUN"
       => elapsed <= quiet \/ Pending
  /\ detection_state = "eSTATE_TIMEOUT" /\ detection_substate = "eSUBSTATE_EXIT"
       => quiet >= TIMEOUT \/ Pending

LosingInv ==
  /\ det_pc = "lose" =>
       /\ ~motion_detected
       /\ InSession
       /\ quiet >= TIMEOUT
       /\ cur_status = 0
  /\ detection_state = "eSTATE_MOTION_LOST" =>
       /\ ~motion_detected
       /\ det_pc # "settle" => InSession /\ (quiet >= TIMEOUT \/ Pending)

SwitchInv ==
  det_pc = "switch" =>
    /\ detection_state = "eSTATE_MOTION_DETECTED" => cur_status # 0
    /\ detection_state \in {"eSTATE_MOTION_LOST", "eSTATE_TIMEOUT"} =>
         cur_status = 0

SessionInv ==
  /\ motion_detected => InSession
  /\ detection_state = "eSTATE_MOTION_DETECTED" => det_pc \in {"switch", "settle"}
  /\ det_pc = "settle" => (motion_detected <=> InSession)
  /\ NoOrphanSession

\* Once an iteration has processed a sample with motion, it is known already
\* or about to be announced.
NoticedInv ==
  exit_pc = "not_called" /\ cur_status # 0 /\ det_pc \notin {"read", "process"} =>
    \/ motion_detected /\ InSession
    \/ det_pc = "switch" /\ detection_state = "eSTATE_MOTION_DETECTED"

DetIInv == DetTypeOK /\ HoldOffInv /\ LosingInv /\ SwitchInv /\ SessionInv /\ NoticedInv
=============================================================================
