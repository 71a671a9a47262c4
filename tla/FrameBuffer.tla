----------------------------- MODULE FrameBuffer -----------------------------
(***************************************************************************)
(* src/middleware/frameBuffer/framebuffer.c: frames come from the webcam's *)
(* driver in its own buffers, are copied into the ring incomingBuffer, and *)
(* the driver gets its buffer back.  The camera task runs                  *)
(* framebuffer_writeframe; the transcoder task, of lower priority, uses    *)
(* the read side without copying.  A frame is the number of its capture.   *)
(***************************************************************************)
EXTENDS RingBuffer

CONSTANTS
  INCOMING_SIZE,      \* slots of incomingBuffer, 128 in the code
  NUM_FRAME_BUFS,     \* buffers shared with the driver, 32 in the code
  MAX_FRAMES          \* a bound on the frames captured

ASSUME IncomingSizeAssumption == INCOMING_SIZE \in Nat \ {0, 1}
ASSUME NumFrameBufsAssumption == NUM_FRAME_BUFS \in Nat \ {0}
ASSUME MaxFramesAssumption == MAX_FRAMES \in Nat

VARIABLES
  fb_pc,              \* where the camera task is in framebuffer_writeframe
  writeCondition,     \* the argument saveFrame
  fb_data, fb_write, fb_read,   \* incomingBuffer
  driver_bufs,        \* buffers queued in the driver
  lost_bufs,          \* history: buffers that could not be queued again
  captured            \* history: frames taken from the driver to be kept

fbVars == <<fb_pc, writeCondition, fb_data, fb_write, fb_read, driver_bufs,
            lost_bufs, captured>>

\* What a slot holds: a whole frame, nothing yet (0), or a copy under way.
Torn == -1
SlotValue == {Torn} \cup 0 .. MAX_FRAMES

FrameBufferTypeOK ==
  /\ fb_pc \in {"idle", "dequeue", "store", "copy", "publish", "requeue"}
  /\ writeCondition \in BOOLEAN
  /\ fb_data \in [0 .. INCOMING_SIZE - 1 -> SlotValue]
  /\ fb_write \in 0 .. INCOMING_SIZE - 1
  /\ fb_read \in 0 .. INCOMING_SIZE - 1
  /\ driver_bufs \in 0 .. NUM_FRAME_BUFS
  /\ lost_bufs \in 0 .. NUM_FRAME_BUFS
  /\ captured \in 0 .. MAX_FRAMES

\* framebuffer_init; framebuffer_initframebuffers queues every buffer, and
\* does not look at the result.
FrameBufferInit ==
  /\ fb_pc = "idle"
  /\ writeCondition = FALSE
  /\ fb_data = [i \in 0 .. INCOMING_SIZE - 1 |-> 0]
  /\ fb_write = 0
  /\ fb_read = 0
  /\ driver_bufs \in 0 .. NUM_FRAME_BUFS
  /\ lost_bufs = NUM_FRAME_BUFS - driver_bufs
  /\ captured = 0

-----------------------------------------------------------------------------
(* framebuffer_writeframe.                                                 *)

\* The call, and select, which may be interrupted and then ends the call.
FbSelect ==
  /\ fb_pc = "idle"
  /\ writeCondition' \in BOOLEAN
  /\ fb_pc' \in {"idle", "dequeue"}
  /\ UNCHANGED <<fb_data, fb_write, fb_read, driver_bufs, lost_bufs, captured>>

\* VIDIOC_DQBUF takes a filled buffer, or fails and ends the call.
FbDequeueFails ==
  /\ fb_pc = "dequeue"
  /\ fb_pc' = "idle"
  /\ UNCHANGED <<writeCondition, fb_data, fb_write, fb_read, driver_bufs,
                 lost_bufs, captured>>

FbDequeue ==
  /\ fb_pc = "dequeue"
  /\ driver_bufs > 0
  /\ driver_bufs' = driver_bufs - 1
  /\ IF writeCondition
       THEN captured < MAX_FRAMES /\ captured' = captured + 1 /\ fb_pc' = "store"
       ELSE UNCHANGED captured /\ fb_pc' = "requeue"
  /\ UNCHANGED <<writeCondition, fb_data, fb_write, fb_read, lost_bufs>>

IncomingFull == IsFull(fb_write, fb_read, INCOMING_SIZE)
IncomingEmpty == IsEmpty(fb_write, fb_read)

\* Mutant: a full ring ends the call at once.
Mut_FbFullNext == "idle"

\* Where writeframe goes on when there is no room: a trace, nothing else.
FbFullNext == "requeue"

\* With room in the ring, memcpy starts on the slot at writePtr.
FbStore ==
  /\ fb_pc = "store"
  /\ IF IncomingFull
       THEN UNCHANGED fb_data /\ fb_pc' = FbFullNext
       ELSE fb_data' = [fb_data EXCEPT ![fb_write] = Torn] /\ fb_pc' = "copy"
  /\ UNCHANGED <<writeCondition, fb_write, fb_read, driver_bufs, lost_bufs, captured>>

FbCopied ==
  /\ fb_pc = "copy"
  /\ fb_data' = [fb_data EXCEPT ![fb_write] = captured]
  /\ fb_pc' = "publish"
  /\ UNCHANGED <<writeCondition, fb_write, fb_read, driver_bufs, lost_bufs, captured>>

FbPublish ==
  /\ fb_pc = "publish"
  /\ fb_write' = Inc(fb_write, INCOMING_SIZE)
  /\ fb_pc' = "requeue"
  /\ UNCHANGED <<writeCondition, fb_data, fb_read, driver_bufs, lost_bufs, captured>>

\* VIDIOC_QBUF gives the buffer back.  When it fails nothing tries again.
FbRequeue ==
  /\ fb_pc = "requeue"
  /\ \/ driver_bufs' = driver_bufs + 1 /\ UNCHANGED lost_bufs
     \/ lost_bufs' = lost_bufs + 1 /\ UNCHANGED driver_bufs
  /\ fb_pc' = "idle"
  /\ UNCHANGED <<writeCondition, fb_data, fb_write, fb_read, captured>>

framebuffer_writeframe ==
  \/ FbSelect \/ FbDequeueFails \/ FbDequeue
  \/ FbStore \/ FbCopied \/ FbPublish \/ FbRequeue

-----------------------------------------------------------------------------
(* The read side, called by the transcoder.                                *)

\* Mutant: the reader takes the slot at writePtr.
Mut_FrameAtHead == fb_data[fb_write]

\* framebuffer_getframe_ptr: the slot at readPtr stays in the ring.
FrameAtHead == fb_data[fb_read]

\* framebuffer_freeframe.
framebuffer_freeframe ==
  fb_read' = IF IncomingEmpty THEN fb_read ELSE Inc(fb_read, INCOMING_SIZE)

-----------------------------------------------------------------------------

IncomingFrames == Contents(fb_data, fb_write, fb_read, INCOMING_SIZE)

\* The frame being written, from VIDIOC_DQBUF until it is in the ring.
FrameInHand ==
  IF fb_pc \in {"store", "copy", "publish"} THEN <<captured>> ELSE <<>>

\* However a call of framebuffer_writeframe goes, on a full ring too, each of
\* the buffers is with the driver, in use by the call, or one that the driver
\* itself refused: capturing never starves the driver of buffers.
BuffersReturned ==
  driver_bufs + lost_bufs
    + (IF fb_pc \in {"idle", "dequeue"} THEN 0 ELSE 1) = NUM_FRAME_BUFS
=============================================================================
