--------------------------- MODULE DetectionProofs ---------------------------
(***************************************************************************)
(* Proofs about the detector: its inductive invariant, the safety          *)
(* properties that follow from it, and that it implements MotionSession.   *)
(***************************************************************************)
EXTENDS Detection, TLAPS

USE TimeoutAssumption, QueueSizeAssumption

-----------------------------------------------------------------------------
(* The queue.                                                              *)

\* A send leaves a queue of events within its bound, whether it is accepted
\* or not.
LEMMA SendTypeOK ==
  ASSUME QueueTypeOK, NEW e \in Event, osal_queue_send(e)
  PROVE  QueueTypeOK'
  BY DEF QueueTypeOK, osal_queue_send, QueueFull

\* A receive leaves a queue of events within its bound, and yields one of the
\* events or EVENT_NONE.
LEMMA ReceiveTypeOK ==
  ASSUME QueueTypeOK, osal_queue_receive
  PROVE  QueueTypeOK' /\ ReceivedEvent \in EventOrNone
  <1>1. CASE mqueue = <<>>
    BY <1>1 DEF QueueTypeOK, osal_queue_receive, ReceivedEvent, EventOrNone
  <1>2. CASE mqueue # <<>>
    BY <1>2 DEF QueueTypeOK, osal_queue_receive, ReceivedEvent, EventOrNone
  <1> QED BY <1>1, <1>2

-----------------------------------------------------------------------------
(* The inductive invariant.                                                *)

LEMMA DetBootInv == DetBoot /\ QueueTypeOK => DetIInv
  <1> SUFFICES ASSUME DetBoot, QueueTypeOK
               PROVE  DetIInv
    OBVIOUS
  <1>1. DetTypeOK
    <2>1. gpio_exported \in BOOLEAN /\ motion_detected \in BOOLEAN /\ delivered \in BOOLEAN
      BY Zenon DEF DetBoot
    <2>2. announced \in EventOrNone
      BY DEF DetBoot, EventOrNone
    <2> QED
      BY <2>1, <2>2 DEF DetBoot, DetTypeOK, DetectionPc, DetectionState, DetectionSubstate
  <1>2. announced # EVENT_MOTION_DETECTED
    BY DEF DetBoot, EVENT_NONE, EVENT_MOTION_DETECTED
  <1>3. SessionInv
    BY <1>2 DEF DetBoot, SessionInv, NoOrphanSession, InSession
  <1> QED
    BY <1>1, <1>2, <1>3 DEF DetBoot, DetIInv, HoldOffInv, LosingInv, SwitchInv, NoticedInv

LEMMA DetTypeStep ==
  ASSUME DetTypeOK, DetNext \/ Reader
  PROVE  DetTypeOK'
  <1> USE DEF DetTypeOK, DetectionPc, DetectionState, DetectionSubstate,
              EventOrNone, Event
  <1>1. CASE DetLoopCheck
    BY <1>1 DEF DetLoopCheck, fsmVars, handlerVars, eventVars, QueueTypeOK
  <1>2. CASE ReadGpio
    <2>1. cur_status' \in {0, 1, 255}
      <3>1. PICK value \in GpioReadings : cur_status' = value % 256
        BY <1>2, Zenon DEF ReadGpio, AsUint8
      <3>2. value \in {-1, 0, 1}
        BY <3>1, Zenon DEF GpioReadings
      <3> QED BY <3>1, <3>2
    <2> QED
      BY <1>2, <2>1 DEF ReadGpio, fsmVars, handlerVars, eventVars, QueueTypeOK
  <1>3. CASE ProcessNextState
    <2>1. motion_detected' \in BOOLEAN
      BY <1>3, Zenon DEF ProcessNextState, MotionAppears, MotionPauses, NoChange, fsmVars
    <2>2. detection_state' \in DetectionState /\ detection_substate' \in DetectionSubstate
      BY <1>3 DEF ProcessNextState, MotionAppears, MotionPauses, NoChange, fsmVars
    <2> QED
      BY <1>3, <2>1, <2>2 DEF ProcessNextState, handlerVars, eventVars, QueueTypeOK
  <1>4. CASE SwitchMotionDetected
    BY <1>4, SendTypeOK DEF SwitchMotionDetected, Announce, handlerVars
  <1>5. CASE SwitchMotionLost
    BY <1>5, SendTypeOK DEF SwitchMotionLost, Announce, handlerVars
  <1>6. CASE Settle
    BY <1>6 DEF Settle, handlerVars, eventVars, QueueTypeOK
  <1>7. CASE TimeoutEntry
    BY <1>7 DEF TimeoutEntry, InTimeout, handlerVars, eventVars, QueueTypeOK
  <1>8. CASE TimeoutRun
    BY <1>8 DEF TimeoutRun, TimeoutElapsed, InTimeout, handlerVars, eventVars, QueueTypeOK
  <1>9. CASE TimeoutExit
    BY <1>9 DEF TimeoutExit, InTimeout, handlerVars, eventVars, QueueTypeOK
  <1>10. CASE Lose
    BY <1>10 DEF Lose, handlerVars, eventVars, QueueTypeOK
  <1>11. CASE SwitchDefault
    BY <1>11 DEF SwitchDefault, fsmVars, handlerVars, eventVars, QueueTypeOK
  <1>12. CASE DetDelay
    BY <1>12 DEF DetDelay, fsmVars, handlerVars, eventVars, QueueTypeOK
  <1>13. CASE DetDelete
    BY <1>13 DEF DetDelete, fsmVars, handlerVars, eventVars, QueueTypeOK
  <1>14. CASE ExitSetState
    BY <1>14 DEF ExitSetState, eventVars, QueueTypeOK
  <1>15. CASE ExitUnexport
    <2>1. gpio_exported' \in BOOLEAN
      BY <1>15, Zenon DEF ExitUnexport
    <2> QED
      BY <1>15, <2>1 DEF ExitUnexport, fsmVars, eventVars, QueueTypeOK
  <1>16. CASE Tick
    BY <1>16 DEF Tick, Later, fsmVars, handlerVars, eventVars, QueueTypeOK
  <1>17. CASE Reader
    BY <1>17, ReceiveTypeOK DEF Reader, detVars, fsmVars, handlerVars
  <1> QED
    BY <1>1, <1>2, <1>3, <1>4, <1>5, <1>6, <1>7, <1>8, <1>9, <1>10, <1>11,
       <1>12, <1>13, <1>14, <1>15, <1>16, <1>17 DEF DetNext, DetTask

LEMMA DetSafetyStep ==
  ASSUME DetIInv, DetNext \/ Reader
  PROVE  HoldOffInv' /\ LosingInv' /\ SwitchInv' /\ SessionInv' /\ NoticedInv'
  <1> USE DEF DetIInv, HoldOffInv, LosingInv, SwitchInv, SessionInv, NoticedInv,
              NoOrphanSession, InSession, Pending, EVENT_NONE,
              EVENT_MOTION_DETECTED, EVENT_MOTION_LOST
  <1>1. CASE DetLoopCheck
    BY <1>1 DEF DetTypeOK, DetectionState, DetectionSubstate, DetectionPc, DetLoopCheck, fsmVars, handlerVars, eventVars
  <1>2. CASE ReadGpio
    BY <1>2 DEF DetTypeOK, DetectionState, DetectionSubstate, DetectionPc, ReadGpio, fsmVars, handlerVars, eventVars
  <1>3. CASE ProcessNextState
    BY <1>3 DEF DetTypeOK, DetectionState, DetectionSubstate, DetectionPc, ProcessNextState, MotionAppears, MotionPauses, NoChange, fsmVars, handlerVars, eventVars
  <1>4. CASE SwitchMotionDetected
    BY <1>4 DEF DetTypeOK, DetectionState, DetectionSubstate, DetectionPc, SwitchMotionDetected, Announce, handlerVars
  <1>5. CASE SwitchMotionLost
    BY <1>5 DEF DetTypeOK, DetectionState, DetectionSubstate, DetectionPc, SwitchMotionLost, Announce, handlerVars
  <1>6. CASE Settle
    BY <1>6 DEF DetTypeOK, DetectionState, DetectionSubstate, DetectionPc, Settle, handlerVars, eventVars
  <1>7. CASE TimeoutEntry
    BY <1>7 DEF DetTypeOK, DetectionState, DetectionSubstate, DetectionPc, TimeoutEntry, InTimeout, handlerVars, eventVars
  <1>8. CASE TimeoutRun
    BY <1>8 DEF DetTypeOK, DetectionState, DetectionSubstate, DetectionPc, TimeoutRun, TimeoutElapsed, InTimeout, handlerVars, eventVars
  <1>9. CASE TimeoutExit
    BY <1>9 DEF DetTypeOK, DetectionState, DetectionSubstate, DetectionPc, TimeoutExit, InTimeout, handlerVars, eventVars
  <1>10. CASE Lose
    BY <1>10 DEF DetTypeOK, DetectionState, DetectionSubstate, DetectionPc, Lose, handlerVars, eventVars
  <1>11. CASE SwitchDefault
    BY <1>11 DEF DetTypeOK, DetectionState, DetectionSubstate, DetectionPc, SwitchDefault, fsmVars, handlerVars, eventVars
  <1>12. CASE DetDelay
    BY <1>12 DEF DetTypeOK, DetectionState, DetectionSubstate, DetectionPc, DetDelay, fsmVars, handlerVars, eventVars
  <1>13. CASE DetDelete
    BY <1>13 DEF DetTypeOK, DetectionState, DetectionSubstate, DetectionPc, DetDelete, fsmVars, handlerVars, eventVars
  <1>14. CASE ExitSetState
    BY <1>14 DEF DetTypeOK, DetectionState, DetectionSubstate, DetectionPc, ExitSetState, eventVars
  <1>15. CASE ExitUnexport
    BY <1>15 DEF DetTypeOK, DetectionState, DetectionSubstate, DetectionPc, ExitUnexport, fsmVars, eventVars
  <1>16. CASE Tick
    BY <1>16 DEF DetTypeOK, DetectionState, DetectionSubstate, DetectionPc, Tick, Later, fsmVars, handlerVars, eventVars
  <1>17. CASE Reader
    BY <1>17 DEF DetTypeOK, DetectionState, DetectionSubstate, DetectionPc, Reader, detVars, fsmVars, handlerVars
  <1> QED
    BY <1>1, <1>2, <1>3, <1>4, <1>5, <1>6, <1>7, <1>8, <1>9, <1>10, <1>11, <1>12, <1>13, <1>14, <1>15, <1>16, <1>17 DEF DetNext, DetTask

LEMMA DetStutter ==
  ASSUME DetIInv, UNCHANGED detectionVars
  PROVE  DetIInv'
  BY DEF DetIInv, DetTypeOK, HoldOffInv, LosingInv, SwitchInv, SessionInv,
         NoticedInv, NoOrphanSession, InSession, Pending, QueueTypeOK,
         detectionVars, detVars, fsmVars, handlerVars

LEMMA DetStep ==
  ASSUME DetIInv, [DetNext \/ Reader]_detectionVars
  PROVE  DetIInv'
  <1>1. CASE DetNext \/ Reader
    <2>1. DetTypeOK'
      BY <1>1, DetTypeStep DEF DetIInv
    <2> QED
      BY <1>1, <2>1, DetSafetyStep DEF DetIInv
  <1>2. CASE UNCHANGED detectionVars
    BY <1>2, DetStutter
  <1> QED BY <1>1, <1>2

\* The inductive invariant holds of every behaviour of the detector.
THEOREM DetInvariant == DetSpec => []DetIInv
  <1>1. DetInit => DetIInv
    <2> SUFFICES ASSUME DetInit PROVE DetIInv
      OBVIOUS
    <2>1. QueueTypeOK
      BY DEF DetInit, QueueTypeOK
    <2> QED
      BY <2>1, DetBootInv DEF DetInit
  <1>2. DetIInv /\ [DetNext \/ Reader]_detectionVars => DetIInv'
    BY DetStep
  <1> QED
    BY <1>1, <1>2, PTL DEF DetSpec

\* The variables of the detector keep their types, the sample that of a
\* uint8_t, and the queue its bound.
THEOREM DetTypeCorrect == DetSpec => []DetTypeOK
  <1>1. DetIInv => DetTypeOK
    BY DEF DetIInv
  <1> QED
    BY <1>1, DetInvariant, PTL

\* No interleaving of the detection task with detection_exit makes the
\* detector forget a session it has announced.
THEOREM SessionNeverOrphaned == DetSpec => []NoOrphanSession
  <1>1. DetIInv => NoOrphanSession
    BY DEF DetIInv, SessionInv
  <1> QED
    BY <1>1, DetInvariant, PTL

\* Until shutdown, no iteration of the detection task ends on a sample with
\* motion that has not been announced.
THEOREM MotionAlwaysAnnounced == DetSpec => []SampleAnnounced
  <1>1. DetIInv => SampleAnnounced
    BY DEF DetIInv, NoticedInv, SampleAnnounced, InSession
  <1> QED
    BY <1>1, DetInvariant, PTL

-----------------------------------------------------------------------------
(* The detector implements MotionSession.                                  *)

LEMMA SessionStep ==
  ASSUME DetIInv, DetNext \/ Reader
  PROVE  [MS!Next]_MS!vars
  <1> USE DEF MS!Next, MS!vars
  <1>1. CASE ReadGpio
    BY <1>1 DEF MS!Sample, ReadGpio, fsmVars, handlerVars, eventVars
  <1>2. CASE SwitchMotionDetected
    BY <1>2 DEF MS!Open, DetIInv, SwitchInv, SwitchMotionDetected, Announce
  <1>3. CASE SwitchMotionLost
    BY <1>3 DEF MS!Close, DetIInv, SwitchInv, LosingInv, InSession, Pending,
                SwitchMotionLost, Announce, EVENT_MOTION_DETECTED, EVENT_MOTION_LOST
  <1>4. CASE Tick
    BY <1>4 DEF MS!Tick, Tick, Later, DetIInv, DetTypeOK, eventVars
  <1>5. CASE \/ DetLoopCheck \/ ProcessNextState \/ Settle \/ TimeoutEntry
             \/ TimeoutRun \/ TimeoutExit \/ Lose \/ SwitchDefault \/ DetDelay
             \/ DetDelete \/ ExitSetState \/ ExitUnexport \/ Reader
    <2>1. UNCHANGED <<announced, cur_status, quiet>>
      BY <1>5 DEF DetLoopCheck, ProcessNextState, Settle, TimeoutEntry,
                  TimeoutRun, TimeoutExit, Lose, SwitchDefault, DetDelay,
                  DetDelete, ExitSetState, ExitUnexport, Reader, detVars, eventVars
    <2> QED BY <2>1
  <1> QED
    BY <1>1, <1>2, <1>3, <1>4, <1>5 DEF DetNext, DetTask

\* Whatever the sensor does and whenever detection_exit interrupts the task,
\* the events announced are sessions of motion that end only after the full
\* hold-off: every step of the detector is a step of MotionSession or leaves
\* its variables alone.
THEOREM DetectorImplementsSession == DetSpec => SessionSpec
  <1>1. DetInit => MS!Init
    BY DEF DetInit, DetBoot, MS!Init, EVENT_NONE, EVENT_MOTION_DETECTED
  <1>2. DetIInv /\ [DetNext \/ Reader]_detectionVars => [MS!Next]_MS!vars
    <2> SUFFICES ASSUME DetIInv, [DetNext \/ Reader]_detectionVars
                 PROVE  [MS!Next]_MS!vars
      OBVIOUS
    <2>1. CASE DetNext \/ Reader
      BY <2>1, SessionStep
    <2>2. CASE UNCHANGED detectionVars
      BY <2>2 DEF MS!vars, detectionVars, detVars
    <2> QED BY <2>1, <2>2
  <1> QED
    BY <1>1, <1>2, DetInvariant, PTL DEF DetSpec, SessionSpec, MS!Spec
=============================================================================
