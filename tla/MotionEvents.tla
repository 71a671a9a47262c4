---------------------------- MODULE MotionEvents ----------------------------
(***************************************************************************)
(* The event queue "/motion_events": a POSIX message queue that the        *)
(* detection task writes and the camera task reads.  Both ends open it     *)
(* with O_NONBLOCK, so a send to a full queue and a receive from an empty  *)
(* one return at once with an error that neither caller looks at.  The     *)
(* queue belongs to the kernel: it is never unlinked and outlives the      *)
(* process.                                                                *)
(***************************************************************************)
EXTENDS Integers, Sequences

CONSTANT QUEUE_SIZE   \* mq_maxmsg; camera_init and detection_init pass 10

ASSUME QueueSizeAssumption == QUEUE_SIZE \in Nat \ {0}

VARIABLE mqueue       \* the events in the queue, oldest first

EVENT_NONE == "EVENT_NONE"
EVENT_MOTION_DETECTED == "EVENT_MOTION_DETECTED"
EVENT_MOTION_LOST == "EVENT_MOTION_LOST"

\* The events that travel through the queue, and what a variable of type
\* event_e may hold.
Event == {EVENT_MOTION_DETECTED, EVENT_MOTION_LOST}
EventOrNone == Event \cup {EVENT_NONE}

QueueTypeOK == mqueue \in Seq(Event) /\ Len(mqueue) <= QUEUE_SIZE

QueueFull == Len(mqueue) >= QUEUE_SIZE

\* Mutant: the queue has no bound.
Mut_osal_queue_send(e) == mqueue' = Append(mqueue, e)

\* mq_send on a non-blocking queue: EAGAIN, and nothing queued, when full.
osal_queue_send(e) ==
  mqueue' = IF QueueFull THEN mqueue ELSE Append(mqueue, e)

\* mq_receive on a non-blocking queue: the oldest event, or an error that
\* process_event_queue turns into EVENT_NONE.  The caller names the variable
\* that takes the event.
ReceivedEvent == IF mqueue = <<>> THEN EVENT_NONE ELSE Head(mqueue)

osal_queue_receive ==
  mqueue' = IF mqueue = <<>> THEN mqueue ELSE Tail(mqueue)
=============================================================================
