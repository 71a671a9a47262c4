------------------------------- MODULE Pipeline -------------------------------
(***************************************************************************)
(* The way of a frame through the program: the camera task fills           *)
(* incomingBuffer (FrameBuffer), the transcoder task of                    *)
(* src/src/transcoder/transcoder.c converts each frame into the ring       *)
(* imageBuffer of src/middleware/image/image.c, and the nvm task of        *)
(* src/src/nvm/nvm.c sends it over UDP in chunks.  The two rings are the   *)
(* only things the tasks share, with no lock, and both are read in place.  *)
(***************************************************************************)
EXTENDS FrameBuffer

CONSTANTS
  IMAGE_SIZE,         \* slots of imageBuffer, 256 in the code
  CHUNKS              \* datagrams of a frame, 75 of 1024 bytes in the code

ASSUME ImageSizeAssumption == IMAGE_SIZE \in Nat \ {0, 1}
ASSUME ChunksAssumption == CHUNKS \in Nat \ {0}

VARIABLES
  tr_pc,              \* where the transcoder task is
  tr_i,               \* its loop counter, over two frames per release
  rgbFrame,           \* its local copy of the frame
  img_data, img_write, img_read,   \* imageBuffer
  nvm_pc,             \* where the nvm task is
  nvm_i,              \* its loop counter, over two frames per release
  chunk,              \* datagrams of the frame sent so far
  wire,               \* history: the content of the last datagram
  tr_exit, nvm_exit,  \* the two exit_task flags
  shown               \* history: the last frame sent to its end

trVars == <<tr_pc, tr_i, rgbFrame, img_data, img_write>>
nvmVars == <<img_read, nvm_pc, nvm_i, chunk, wire, shown>>
exitVars == <<tr_exit, nvm_exit>>
vars == <<fbVars, trVars, nvmVars, exitVars>>

TypeOK ==
  /\ FrameBufferTypeOK
  /\ tr_pc \in {"check", "get", "convert", "write", "copy", "publish", "free",
                "delay", "gone"}
  /\ tr_i \in 0 .. 2
  /\ rgbFrame \in SlotValue
  /\ img_data \in [0 .. IMAGE_SIZE - 1 -> SlotValue]
  /\ img_write \in 0 .. IMAGE_SIZE - 1
  /\ img_read \in 0 .. IMAGE_SIZE - 1
  /\ nvm_pc \in {"read", "send", "sent", "failed", "exit", "delay", "gone"}
  /\ nvm_i \in 0 .. 2
  /\ chunk \in 0 .. CHUNKS
  /\ wire \in SlotValue
  /\ tr_exit \in BOOLEAN /\ nvm_exit \in BOOLEAN
  /\ shown \in 0 .. MAX_FRAMES

Init ==
  /\ FrameBufferInit
  /\ tr_pc = "check"
  /\ tr_i = 0
  /\ rgbFrame = 0
  /\ img_data = [i \in 0 .. IMAGE_SIZE - 1 |-> 0]
  /\ img_write = 0
  /\ img_read = 0
  /\ nvm_pc = "read"
  /\ nvm_i = 0
  /\ chunk = 0
  /\ wire = 0
  /\ tr_exit = FALSE /\ nvm_exit = FALSE
  /\ shown = 0

-----------------------------------------------------------------------------
(* The transcoder task.                                                    *)

TrCheck ==
  /\ tr_pc = "check"
  /\ tr_pc' = IF tr_exit THEN "gone" ELSE "get"
  /\ tr_i' = 0
  /\ UNCHANGED <<fbVars, rgbFrame, img_data, img_write, nvmVars, exitVars>>

\* The loop of two calls of process_frames; after the second, the delay.
TrLoopEnd == tr_i' = tr_i + 1 /\ tr_pc' = (IF tr_i + 1 < 2 THEN "get" ELSE "delay")

TrGet ==
  /\ tr_pc = "get"
  /\ IF IncomingEmpty
       THEN TrLoopEnd
       ELSE tr_pc' = "convert" /\ UNCHANGED tr_i
  /\ UNCHANGED <<fbVars, rgbFrame, img_data, img_write, nvmVars, exitVars>>

\* image_convert from MJPEG copies the frame from the ring, in place.
TrConvert ==
  /\ tr_pc = "convert"
  /\ rgbFrame' = FrameAtHead
  /\ tr_pc' = "write"
  /\ UNCHANGED <<fbVars, tr_i, img_data, img_write, nvmVars, exitVars>>

ImageFull == IsFull(img_write, img_read, IMAGE_SIZE)
ImageEmpty == IsEmpty(img_write, img_read)

\* imagebuffer_write; nobody looks at its failure on a full ring.
TrWrite ==
  /\ tr_pc = "write"
  /\ IF ImageFull
       THEN UNCHANGED img_data /\ tr_pc' = "free"
       ELSE img_data' = [img_data EXCEPT ![img_write] = Torn] /\ tr_pc' = "copy"
  /\ UNCHANGED <<fbVars, tr_i, rgbFrame, img_write, nvmVars, exitVars>>

TrCopied ==
  /\ tr_pc = "copy"
  /\ img_data' = [img_data EXCEPT ![img_write] = rgbFrame]
  /\ tr_pc' = "publish"
  /\ UNCHANGED <<fbVars, tr_i, rgbFrame, img_write, nvmVars, exitVars>>

TrPublish ==
  /\ tr_pc = "publish"
  /\ img_write' = Inc(img_write, IMAGE_SIZE)
  /\ tr_pc' = "free"
  /\ UNCHANGED <<fbVars, tr_i, rgbFrame, img_data, nvmVars, exitVars>>

TrFree ==
  /\ tr_pc = "free"
  /\ framebuffer_freeframe
  /\ TrLoopEnd
  /\ UNCHANGED <<fb_pc, writeCondition, fb_data, fb_write, driver_bufs,
                 lost_bufs, captured, rgbFrame, img_data, img_write, nvmVars,
                 exitVars>>

\* osal_task_delay returns when the sequencer releases the task.
TrDelay ==
  /\ tr_pc = "delay"
  /\ tr_pc' = "check"
  /\ UNCHANGED <<fbVars, tr_i, rgbFrame, img_data, img_write, nvmVars, exitVars>>

Transcoder ==
  \/ TrCheck \/ TrGet \/ TrConvert \/ TrWrite \/ TrCopied \/ TrPublish
  \/ TrFree \/ TrDelay

-----------------------------------------------------------------------------
(* The nvm task.                                                           *)

NvmLoopEnd == nvm_i' = nvm_i + 1 /\ nvm_pc' = (IF nvm_i + 1 < 2 THEN "read" ELSE "exit")

\* imagebuffer_startread: the slot at readPtr stays in the ring.
NvmRead ==
  /\ nvm_pc = "read"
  /\ IF ImageEmpty
       THEN NvmLoopEnd
       ELSE nvm_pc' = "send" /\ UNCHANGED nvm_i
  /\ chunk' = 0
  /\ UNCHANGED <<fbVars, trVars, img_read, wire, shown, exitVars>>

\* image_save: one sendto per chunk, out of the slot.
NvmSend ==
  /\ nvm_pc = "send"
  /\ wire' = img_data[img_read]
  /\ chunk' = chunk + 1
  /\ nvm_pc' = IF chunk + 1 < CHUNKS THEN "send" ELSE "sent"
  /\ UNCHANGED <<fbVars, trVars, img_read, nvm_i, shown, exitVars>>

\* The socket or a sendto fails: the rest of the frame is given up.
NvmSendFails ==
  /\ nvm_pc = "send"
  /\ nvm_pc' = "failed"
  /\ UNCHANGED <<fbVars, trVars, img_read, nvm_i, chunk, wire, shown, exitVars>>

\* Mutant: the slot of a frame that could not be sent is kept.
Mut_NvmEndRead ==
  /\ nvm_pc \in {"sent", "failed"}
  /\ img_read' = IF nvm_pc = "failed" THEN img_read ELSE Inc(img_read, IMAGE_SIZE)
  /\ shown' = IF nvm_pc = "sent" THEN wire ELSE shown
  /\ NvmLoopEnd
  /\ UNCHANGED <<fbVars, trVars, chunk, wire, exitVars>>

\* imagebuffer_endread, after a success and after a failure.
NvmEndRead ==
  /\ nvm_pc \in {"sent", "failed"}
  /\ img_read' = IF ImageEmpty THEN img_read ELSE Inc(img_read, IMAGE_SIZE)
  /\ shown' = IF nvm_pc = "sent" THEN wire ELSE shown
  /\ NvmLoopEnd
  /\ UNCHANGED <<fbVars, trVars, chunk, wire, exitVars>>

\* The test of exit_task, after the two frames.
NvmExitCheck ==
  /\ nvm_pc = "exit"
  /\ nvm_pc' = IF nvm_exit THEN "gone" ELSE "delay"
  /\ UNCHANGED <<fbVars, trVars, img_read, nvm_i, chunk, wire, shown, exitVars>>

NvmDelay ==
  /\ nvm_pc = "delay"
  /\ nvm_pc' = "read"
  /\ nvm_i' = 0
  /\ UNCHANGED <<fbVars, trVars, img_read, chunk, wire, shown, exitVars>>

Nvm == NvmRead \/ NvmSend \/ NvmSendFails \/ NvmEndRead \/ NvmExitCheck \/ NvmDelay

-----------------------------------------------------------------------------

Camera ==
  framebuffer_writeframe /\ UNCHANGED <<trVars, nvmVars, exitVars>>

\* transcoder_exit and nvm_exit, run in this order by the scheduler thread.
TranscoderExit ==
  /\ ~tr_exit
  /\ tr_exit' = TRUE
  /\ UNCHANGED <<fbVars, trVars, nvmVars, nvm_exit>>

NvmExit ==
  /\ tr_exit /\ ~nvm_exit
  /\ nvm_exit' = TRUE
  /\ UNCHANGED <<fbVars, trVars, nvmVars, tr_exit>>

Next == Camera \/ Transcoder \/ Nvm \/ TranscoderExit \/ NvmExit

Spec == Init /\ [][Next]_vars

\* Nobody shuts the program down.
Up == ~tr_exit /\ ~nvm_exit

\* The three tasks are SCHED_FIFO threads that the sequencer releases again and
\* again; the network may refuse any frame, and the webcam may fall silent, but
\* a frame in the camera task's hands does not wait for it.
FairSpec ==
  /\ Init
  /\ [][Next /\ Up']_vars
  /\ WF_vars(fb_pc \notin {"idle", "dequeue"} /\ Camera)
  /\ WF_vars(Transcoder)
  /\ WF_vars(Nvm)

-----------------------------------------------------------------------------
(* Properties.                                                             *)

\* Where a frame may be, the oldest first: imageBuffer, the transcoder, which
\* leaves it in incomingBuffer until it has been written on or dropped,
\* incomingBuffer, and the camera task.
ImageFrames == Contents(img_data, img_write, img_read, IMAGE_SIZE)

Untranscoded ==
  IF tr_pc = "free" THEN Tail(IncomingFrames) ELSE IncomingFrames

InFlight == ImageFrames \o Untranscoded \o FrameInHand

\* The rings and the three tasks together are a lossy channel that keeps the
\* order: what arrives was captured, arrives once, and never after a younger
\* frame, under every interleaving of the tasks and also when a ring is full,
\* a send fails or the program is shut down.
FS == INSTANCE FrameStream WITH newest <- captured, flight <- InFlight

FrameStreamSpec == FS!Spec

\* At every moment, the frames in the rings and with the tasks are in the order
\* of their capture, none is there twice, and none is as old as the last one sent.
FramesInOrder == FS!InOrder

\* A slot that is read in place is not written to: while the transcoder
\* converts a frame, and while nvm sends one chunk after the other, the slot
\* keeps a whole frame, the one it had at first.
SlotsStable ==
  [][/\ tr_pc = "convert" => FrameAtHead # Torn /\ fb_data'[fb_read] = fb_data[fb_read]
     /\ nvm_pc \in {"send", "sent"} =>
          img_data[img_read] # Torn /\ img_data'[img_read] = img_data[img_read]]_vars

\* The chunks of one image_save all come from one frame.
ChunksOfOneFrame ==
  nvm_pc \in {"send", "sent"} /\ chunk > 0 => wire = img_data[img_read]

Frames(s) == {s[i] : i \in DOMAIN s}

\* A frame that was captured disappears only by being sent, or because the
\* ring it had to go into was full, or because the network refused it.
DropsAreForced ==
  [][\A f \in Frames(InFlight) \ Frames(InFlight') :
       \/ shown' = f
       \/ fb_pc = "store" /\ f = captured /\ IncomingFull
       \/ tr_pc = "write" /\ f = rgbFrame /\ ImageFull
       \/ nvm_pc = "failed" /\ f = img_data[img_read]]_vars

\* Until shutdown, no frame stays on the way for ever: each is sent, or dropped,
\* also when the network refuses one frame after the other.
FramesLeave ==
  \A f \in 1 .. MAX_FRAMES : f \in Frames(InFlight) ~> f \notin Frames(InFlight)

-----------------------------------------------------------------------------
(* The inductive invariant behind them.                                    *)

\* The writer of a ring has seen room, and its reader a frame, before the other
\* side moved: the one can only have made more room since, the other only more
\* frames.
RoomInv ==
  /\ fb_pc \in {"copy", "publish"} => ~IncomingFull
  /\ tr_pc \in {"convert", "write", "copy", "publish", "free"} => ~IncomingEmpty
  /\ tr_pc \in {"copy", "publish"} => ~ImageFull
  /\ nvm_pc \in {"send", "sent", "failed"} => ~ImageEmpty

\* What is between the pointers of a ring are whole frames, and what a task
\* holds is what it has read, or will publish.
FramesInv ==
  /\ IncomingFrames \in Seq(1 .. MAX_FRAMES)
  /\ ImageFrames \in Seq(1 .. MAX_FRAMES)
  /\ fb_pc \in {"store", "copy", "publish"} => captured > 0
  /\ fb_pc = "publish" => fb_data[fb_write] = captured
  /\ tr_pc \in {"write", "copy", "publish"} => rgbFrame = FrameAtHead
  /\ tr_pc = "publish" => img_data[img_write] = rgbFrame

\* Where the loop counters, and the count of the chunks, are within bounds.
LoopInv ==
  /\ tr_pc \notin {"check", "delay", "gone"} => tr_i < 2
  /\ nvm_pc \in {"read", "send", "sent", "failed"} => nvm_i < 2
  /\ nvm_pc = "send" => chunk < CHUNKS
  /\ nvm_pc = "sent" => chunk > 0

IInv ==
  /\ TypeOK /\ BuffersReturned /\ ChunksOfOneFrame
  /\ RoomInv /\ FramesInv /\ LoopInv
=============================================================================
