---------------------------- MODULE PipelineProofs ----------------------------
(***************************************************************************)
(* Proofs about the way of a frame from the webcam to the network, for     *)
(* rings of every size, every number of frames, chunks and driver buffers. *)
(***************************************************************************)
EXTENDS Pipeline, RingProofs, SequenceTheorems, TLAPS

USE IncomingSizeAssumption, NumFrameBufsAssumption, MaxFramesAssumption,
    ImageSizeAssumption, ChunksAssumption

-----------------------------------------------------------------------------
(* The two rings.                                                          *)

\* Both rings are rings of slots.
LEMMA Rings ==
  ASSUME TypeOK
  PROVE  /\ Ring(fb_data, fb_write, fb_read, INCOMING_SIZE, SlotValue)
         /\ Ring(img_data, img_write, img_read, IMAGE_SIZE, SlotValue)
  BY DEF TypeOK, FrameBufferTypeOK, Ring

\* The frame at the head of incomingBuffer is the oldest in it, and imageBuffer
\* the same.
LEMMA HeadsOfRings ==
  ASSUME TypeOK
  PROVE  /\ ~IncomingEmpty =>
              IncomingFrames # <<>> /\ Head(IncomingFrames) = FrameAtHead
         /\ ~ImageEmpty =>
              ImageFrames # <<>> /\ Head(ImageFrames) = img_data[img_read]
  <1>1. ~IncomingEmpty => IncomingFrames # <<>> /\ Head(IncomingFrames) = FrameAtHead
    BY Rings, FreeTakesHead DEF IncomingEmpty, IncomingFrames, FrameAtHead
  <1>2. ~ImageEmpty => ImageFrames # <<>> /\ Head(ImageFrames) = img_data[img_read]
    BY Rings, FreeTakesHead DEF ImageEmpty, ImageFrames
  <1> QED
    BY <1>1, <1>2

\* What each step does to the contents of incomingBuffer.
LEMMA IncomingStep ==
  ASSUME IInv, Next
  PROVE  \/ /\ FbPublish
            /\ IncomingFrames' = Append(IncomingFrames, captured)
         \/ /\ TrFree
            /\ IncomingFrames' = Tail(IncomingFrames)
         \/ /\ ~FbPublish /\ ~TrFree
            /\ IncomingFrames' = IncomingFrames
  <1> USE DEF IInv
  <1>1. CASE FbPublish
    <2>1. ~IsFull(fb_write, fb_read, INCOMING_SIZE) /\ fb_data[fb_write] = captured
      BY <1>1 DEF FbPublish, RoomInv, FramesInv, IncomingFull
    <2>2. fb_data' = fb_data /\ fb_read' = fb_read /\ fb_write' = Inc(fb_write, INCOMING_SIZE)
      BY <1>1 DEF FbPublish
    <2> QED
      BY <1>1, <2>1, <2>2, Rings, PublishAppends DEF IncomingFrames
  <1>2. CASE TrFree
    <2>1. ~IsEmpty(fb_write, fb_read)
      BY <1>2 DEF TrFree, RoomInv, IncomingEmpty
    <2>2. fb_data' = fb_data /\ fb_write' = fb_write /\ fb_read' = Inc(fb_read, INCOMING_SIZE)
      BY <1>2, <2>1 DEF TrFree, framebuffer_freeframe, IncomingEmpty
    <2> QED
      BY <1>2, <2>1, <2>2, Rings, FreeTakesHead DEF IncomingFrames
  <1>3. CASE ~FbPublish /\ ~TrFree
    <2>1. fb_write' = fb_write /\ fb_read' = fb_read
      BY <1>3 DEF Next, Camera, framebuffer_writeframe, FbSelect, FbDequeueFails,
           FbDequeue, FbStore, FbCopied, FbRequeue, Transcoder, TrCheck, TrGet,
           TrConvert, TrWrite, TrCopied, TrPublish, TrDelay, Nvm, NvmRead, NvmSend,
           NvmSendFails, NvmEndRead, NvmExitCheck, NvmDelay, TranscoderExit, NvmExit, fbVars
    <2>2. \/ fb_data' = fb_data
          \/ \E v \in SlotValue : fb_data' = [fb_data EXCEPT ![fb_write] = v]
      BY <1>3 DEF Next, Camera, framebuffer_writeframe, FbSelect, FbDequeueFails,
           FbDequeue, FbStore, FbCopied, FbRequeue, Transcoder, TrCheck, TrGet,
           TrConvert, TrWrite, TrCopied, TrPublish, TrDelay, Nvm, NvmRead, NvmSend,
           NvmSendFails, NvmEndRead, NvmExitCheck, NvmDelay, TranscoderExit, NvmExit, fbVars,
           TypeOK, FrameBufferTypeOK, SlotValue
    <2>3. ASSUME NEW v, fb_data' = [fb_data EXCEPT ![fb_write] = v]
          PROVE  IncomingFrames' = IncomingFrames
      <3>1. IncomingFrames' = Contents([fb_data EXCEPT ![fb_write] = v],
                                       fb_write, fb_read, INCOMING_SIZE)
        BY <2>1, <2>3 DEF IncomingFrames
      <3> QED
        BY <3>1, Rings, WriteUnseen DEF IncomingFrames
    <2>4. CASE fb_data' = fb_data
      BY <1>3, <2>1, <2>4 DEF IncomingFrames
    <2> QED
      BY <1>3, <2>2, <2>3, <2>4
  <1> QED
    BY <1>1, <1>2, <1>3 DEF FbPublish, TrFree

\* What each step does to the contents of imageBuffer.
LEMMA ImageStep ==
  ASSUME IInv, Next
  PROVE  \/ /\ TrPublish
            /\ ImageFrames' = Append(ImageFrames, rgbFrame)
         \/ /\ NvmEndRead
            /\ ImageFrames' = Tail(ImageFrames)
         \/ /\ ~TrPublish /\ ~NvmEndRead
            /\ ImageFrames' = ImageFrames
  <1> USE DEF IInv
  <1>1. CASE TrPublish
    <2>1. ~IsFull(img_write, img_read, IMAGE_SIZE) /\ img_data[img_write] = rgbFrame
      BY <1>1 DEF TrPublish, RoomInv, FramesInv, ImageFull
    <2>2. img_data' = img_data /\ img_read' = img_read /\ img_write' = Inc(img_write, IMAGE_SIZE)
      BY <1>1 DEF TrPublish, nvmVars
    <2> QED
      BY <1>1, <2>1, <2>2, Rings, PublishAppends DEF ImageFrames
  <1>2. CASE NvmEndRead
    <2>1. ~IsEmpty(img_write, img_read)
      BY <1>2 DEF NvmEndRead, RoomInv, ImageEmpty
    <2>2. img_data' = img_data /\ img_write' = img_write /\ img_read' = Inc(img_read, IMAGE_SIZE)
      BY <1>2, <2>1 DEF NvmEndRead, ImageEmpty, trVars
    <2> QED
      BY <1>2, <2>1, <2>2, Rings, FreeTakesHead DEF ImageFrames
  <1>3. CASE ~TrPublish /\ ~NvmEndRead
    <2>1. img_write' = img_write /\ img_read' = img_read
      BY <1>3 DEF Next, Camera, Transcoder, TrCheck, TrGet, TrConvert, TrWrite,
           TrCopied, TrFree, TrDelay, Nvm, NvmRead, NvmSend, NvmSendFails,
           NvmExitCheck, NvmDelay, TranscoderExit, NvmExit, trVars, nvmVars
    <2>2. \/ img_data' = img_data
          \/ \E v \in SlotValue : img_data' = [img_data EXCEPT ![img_write] = v]
      BY <1>3 DEF Next, Camera, Transcoder, TrCheck, TrGet, TrConvert, TrWrite,
           TrCopied, TrFree, TrDelay, Nvm, NvmRead, NvmSend, NvmSendFails,
           NvmExitCheck, NvmDelay, TranscoderExit, NvmExit, trVars, TypeOK, SlotValue
    <2>3. ASSUME NEW v, img_data' = [img_data EXCEPT ![img_write] = v]
          PROVE  ImageFrames' = ImageFrames
      <3>1. ImageFrames' = Contents([img_data EXCEPT ![img_write] = v],
                                    img_write, img_read, IMAGE_SIZE)
        BY <2>1, <2>3 DEF ImageFrames
      <3> QED
        BY <3>1, Rings, WriteUnseen DEF ImageFrames
    <2>4. CASE img_data' = img_data
      BY <1>3, <2>1, <2>4 DEF ImageFrames
    <2> QED
      BY <1>3, <2>2, <2>3, <2>4
  <1> QED
    BY <1>1, <1>2, <1>3 DEF TrPublish, NvmEndRead

-----------------------------------------------------------------------------
(* Type correctness.                                                       *)

\* The steps of the camera task keep the types, and account for each buffer.
LEMMA CameraTypes ==
  ASSUME IInv, Camera
  PROVE  TypeOK' /\ BuffersReturned'
  <1> USE DEF IInv, TypeOK, FrameBufferTypeOK, BuffersReturned, Camera, trVars, nvmVars, exitVars
  <1>1. CASE FbSelect
    BY <1>1 DEF FbSelect
  <1>2. CASE FbDequeueFails
    BY <1>2 DEF FbDequeueFails
  <1>3. CASE FbDequeue
    BY <1>3 DEF FbDequeue
  <1>4. CASE FbStore
    BY <1>4 DEF FbStore, FbFullNext, SlotValue
  <1>5. CASE FbCopied
    BY <1>5 DEF FbCopied, SlotValue
  <1>6. CASE FbPublish
    BY <1>6, IncInRange DEF FbPublish
  <1>7. CASE FbRequeue
    BY <1>7 DEF FbRequeue
  <1> QED
    BY <1>1, <1>2, <1>3, <1>4, <1>5, <1>6, <1>7 DEF framebuffer_writeframe

\* The steps of the transcoder task keep the types.
LEMMA TranscoderTypes ==
  ASSUME IInv, Transcoder
  PROVE  TypeOK' /\ BuffersReturned'
  <1> USE DEF IInv, TypeOK, FrameBufferTypeOK, BuffersReturned, fbVars, nvmVars, exitVars
  <1>1. CASE TrCheck
    BY <1>1 DEF TrCheck
  <1>2. CASE TrGet
    BY <1>2 DEF TrGet, TrLoopEnd, LoopInv
  <1>3. CASE TrConvert
    BY <1>3 DEF TrConvert, FrameAtHead
  <1>4. CASE TrWrite
    BY <1>4 DEF TrWrite, SlotValue
  <1>5. CASE TrCopied
    BY <1>5 DEF TrCopied
  <1>6. CASE TrPublish
    BY <1>6, IncInRange DEF TrPublish
  <1>7. CASE TrFree
    <2>1. fb_read' \in 0 .. INCOMING_SIZE - 1
      BY <1>7, IncInRange DEF TrFree, framebuffer_freeframe
    <2>2. tr_i' \in 0 .. 2 /\ tr_pc' \in {"get", "delay"}
      BY <1>7 DEF TrFree, TrLoopEnd, LoopInv
    <2> QED
      BY <1>7, <2>1, <2>2 DEF TrFree
  <1>8. CASE TrDelay
    BY <1>8 DEF TrDelay
  <1> QED
    BY <1>1, <1>2, <1>3, <1>4, <1>5, <1>6, <1>7, <1>8 DEF Transcoder

\* A frame at the head of imageBuffer is a whole one.
LEMMA ImageHeadIsFrame ==
  ASSUME IInv, ~ImageEmpty
  PROVE  img_data[img_read] \in 1 .. MAX_FRAMES
  BY HeadsOfRings DEF IInv, FramesInv

\* A frame at the head of incomingBuffer is a whole one.
LEMMA IncomingHeadIsFrame ==
  ASSUME IInv, ~IncomingEmpty
  PROVE  FrameAtHead \in 1 .. MAX_FRAMES
  BY HeadsOfRings DEF IInv, FramesInv

\* The steps of the nvm task keep the types.
LEMMA NvmTypes ==
  ASSUME IInv, Nvm
  PROVE  TypeOK' /\ BuffersReturned'
  <1> USE DEF IInv, TypeOK, FrameBufferTypeOK, BuffersReturned, fbVars, trVars, exitVars
  <1>1. CASE NvmRead
    BY <1>1 DEF NvmRead, NvmLoopEnd, LoopInv
  <1>2. CASE NvmSend
    BY <1>2 DEF NvmSend, LoopInv
  <1>3. CASE NvmSendFails
    BY <1>3 DEF NvmSendFails
  <1>4. CASE NvmEndRead
    <2>1. nvm_pc = "sent" => wire \in 1 .. MAX_FRAMES
      BY <1>4, ImageHeadIsFrame DEF NvmEndRead, ChunksOfOneFrame, RoomInv, LoopInv
    <2> QED
      <3>1. img_read' \in 0 .. IMAGE_SIZE - 1
        BY <1>4, IncInRange DEF NvmEndRead
      <3>2. nvm_i' \in 0 .. 2 /\ nvm_pc' \in {"read", "exit"}
        BY <1>4 DEF NvmEndRead, NvmLoopEnd, LoopInv
      <3>3. shown' \in 0 .. MAX_FRAMES
        BY <1>4, <2>1 DEF NvmEndRead
      <3> QED
        BY <1>4, <3>1, <3>2, <3>3 DEF NvmEndRead
  <1>5. CASE NvmExitCheck
    BY <1>5 DEF NvmExitCheck
  <1>6. CASE NvmDelay
    BY <1>6 DEF NvmDelay
  <1> QED
    BY <1>1, <1>2, <1>3, <1>4, <1>5, <1>6 DEF Nvm

\* Every step keeps the types and accounts for each buffer.
LEMMA TypeStep ==
  ASSUME IInv, Next
  PROVE  TypeOK' /\ BuffersReturned'
  <1>1. CASE TranscoderExit \/ NvmExit
    <2>1. UNCHANGED <<fbVars, trVars, nvmVars>> /\ tr_exit' \in BOOLEAN /\ nvm_exit' \in BOOLEAN
      BY <1>1, Zenon DEF TranscoderExit, NvmExit, IInv, TypeOK
    <2>2. FrameBufferTypeOK' /\ BuffersReturned'
      BY <2>1 DEF IInv, TypeOK, FrameBufferTypeOK, BuffersReturned, fbVars
    <2> QED
      BY <2>1, <2>2 DEF IInv, TypeOK, trVars, nvmVars
  <1> QED
    BY <1>1, CameraTypes, TranscoderTypes, NvmTypes DEF Next

-----------------------------------------------------------------------------
(* The invariant.                                                          *)

\* The counters of the loops stay within their bounds.
LEMMA LoopStep ==
  ASSUME IInv, Next
  PROVE  LoopInv'
  <1> USE DEF IInv, LoopInv
  <1>1. CASE Camera \/ TranscoderExit \/ NvmExit
    BY <1>1 DEF Camera, TranscoderExit, NvmExit, trVars, nvmVars
  <1>2. CASE Transcoder
    BY <1>2 DEF Transcoder, TrCheck, TrGet, TrConvert, TrWrite, TrCopied, TrPublish, TrFree,
         TrDelay, TrLoopEnd, nvmVars
  <1>3. CASE Nvm
    BY <1>3 DEF Nvm, NvmRead, NvmSend, NvmSendFails, NvmEndRead, NvmExitCheck, NvmDelay,
         NvmLoopEnd, trVars, TypeOK
  <1> QED
    BY <1>1, <1>2, <1>3 DEF Next

\* What a task has seen of a ring stays true, whatever the task on the other
\* side does.
LEMMA RoomStep ==
  ASSUME IInv, Next
  PROVE  RoomInv'
  <1> USE DEF IInv, RoomInv
  <1>1. /\ INCOMING_SIZE \in Nat \ {0} /\ IMAGE_SIZE \in Nat \ {0}
        /\ fb_write \in 0 .. INCOMING_SIZE - 1 /\ fb_read \in 0 .. INCOMING_SIZE - 1
        /\ img_write \in 0 .. IMAGE_SIZE - 1 /\ img_read \in 0 .. IMAGE_SIZE - 1
    BY DEF TypeOK, FrameBufferTypeOK
  <1>2. CASE FbPublish /\ Camera
    <2>1. ~IncomingEmpty'
      BY <1>1, <1>2, OtherSideMayGoOn DEF FbPublish, IncomingFull, IncomingEmpty
    <2> QED
      BY <1>2, <2>1 DEF FbPublish, Camera, trVars, nvmVars, ImageFull, ImageEmpty
  <1>3. CASE Camera /\ ~FbPublish
    <2>1. UNCHANGED <<fb_write, fb_read>>
      BY <1>3 DEF Camera, framebuffer_writeframe, FbSelect, FbDequeueFails, FbDequeue,
           FbStore, FbCopied, FbRequeue
    <2>2. fb_pc' \in {"copy", "publish"} => ~IncomingFull
      BY <1>3 DEF Camera, framebuffer_writeframe, FbSelect, FbDequeueFails, FbDequeue,
           FbStore, FbFullNext, FbCopied, FbRequeue
    <2> QED
      BY <1>3, <2>1, <2>2 DEF Camera, trVars, nvmVars, ImageFull, ImageEmpty, IncomingFull, IncomingEmpty
  <1>4. CASE TrPublish
    <2>1. ~ImageEmpty'
      BY <1>1, <1>4, OtherSideMayGoOn DEF TrPublish, ImageFull, ImageEmpty, nvmVars
    <2> QED
      BY <1>4, <2>1 DEF TrPublish, fbVars, nvmVars, IncomingFull, IncomingEmpty
  <1>5. CASE TrFree
    <2>1. ~IncomingFull => ~IncomingFull'
      BY <1>1, <1>5, OtherSideMayGoOn
         DEF TrFree, framebuffer_freeframe, IncomingFull, IncomingEmpty
    <2> QED
      BY <1>5, <2>1 DEF TrFree, TrLoopEnd, nvmVars, ImageEmpty
  <1>6. CASE TrCheck \/ TrGet \/ TrConvert \/ TrWrite \/ TrCopied \/ TrDelay
    BY <1>6 DEF TrCheck, TrGet, TrConvert, TrWrite, TrCopied, TrDelay, TrLoopEnd, fbVars,
         nvmVars, IncomingFull, IncomingEmpty, ImageFull, ImageEmpty
  <1>7. CASE NvmEndRead
    <2>1. ~ImageFull => ~ImageFull'
      BY <1>1, <1>7, OtherSideMayGoOn DEF NvmEndRead, ImageFull, ImageEmpty, trVars
    <2> QED
      BY <1>7, <2>1 DEF NvmEndRead, NvmLoopEnd, fbVars, trVars, IncomingFull, IncomingEmpty
  <1>8. CASE NvmRead \/ NvmSend \/ NvmSendFails \/ NvmExitCheck \/ NvmDelay
    BY <1>8 DEF NvmRead, NvmSend, NvmSendFails, NvmExitCheck, NvmDelay, NvmLoopEnd, fbVars,
         trVars, IncomingFull, IncomingEmpty, ImageFull, ImageEmpty
  <1>9. CASE TranscoderExit \/ NvmExit
    BY <1>9 DEF TranscoderExit, NvmExit, fbVars, trVars, nvmVars, IncomingFull,
         IncomingEmpty, ImageFull, ImageEmpty
  <1> QED
    BY <1>2, <1>3, <1>4, <1>5, <1>6, <1>7, <1>8, <1>9 DEF Next, Transcoder, Nvm

\* The slot that a task reads in place is not the one that the other side of the
\* ring writes to: no step changes it.
LEMMA ReadSlotsKept ==
  ASSUME IInv, Next
  PROVE  /\ ~IncomingEmpty => fb_data'[fb_read] = fb_data[fb_read]
         /\ ~ImageEmpty => img_data'[img_read] = img_data[img_read]
  <1> USE DEF IInv, TypeOK, FrameBufferTypeOK
  <1>1. CASE Camera
    <2>1. fb_data' = fb_data \/ \E v : fb_data' = [fb_data EXCEPT ![fb_write] = v]
      BY <1>1 DEF Camera, framebuffer_writeframe, FbSelect, FbDequeueFails, FbDequeue,
           FbStore, FbCopied, FbPublish, FbRequeue
    <2> QED
      BY <1>1, <2>1 DEF Camera, trVars, IncomingEmpty, IsEmpty
  <1>2. CASE Transcoder
    <2>1. img_data' = img_data \/ \E v : img_data' = [img_data EXCEPT ![img_write] = v]
      BY <1>2 DEF Transcoder, TrCheck, TrGet, TrConvert, TrWrite, TrCopied, TrPublish,
           TrFree, TrDelay
    <2>2. fb_data' = fb_data
      BY <1>2 DEF Transcoder, TrCheck, TrGet, TrConvert, TrWrite, TrCopied, TrPublish,
           TrFree, TrDelay, fbVars
    <2> QED
      BY <2>1, <2>2 DEF ImageEmpty, IsEmpty
  <1>3. CASE Nvm
    BY <1>3 DEF Nvm, NvmRead, NvmSend, NvmSendFails, NvmEndRead, NvmExitCheck, NvmDelay,
         fbVars, trVars
  <1>4. CASE TranscoderExit \/ NvmExit
    BY <1>4 DEF TranscoderExit, NvmExit, fbVars, trVars
  <1> QED
    BY <1>1, <1>2, <1>3, <1>4 DEF Next

\* The rings hold whole frames only.
LEMMA RingFramesStep ==
  ASSUME IInv, Next
  PROVE  /\ IncomingFrames' \in Seq(1 .. MAX_FRAMES)
         /\ ImageFrames' \in Seq(1 .. MAX_FRAMES)
  <1> USE DEF IInv, FramesInv
  <1>1. IncomingFrames' \in Seq(1 .. MAX_FRAMES)
    <2>1. CASE FbPublish /\ IncomingFrames' = Append(IncomingFrames, captured)
      <3>1. captured \in 1 .. MAX_FRAMES
        BY <2>1 DEF FbPublish, TypeOK, FrameBufferTypeOK
      <3> QED
        BY <2>1, <3>1
    <2>2. CASE TrFree /\ IncomingFrames' = Tail(IncomingFrames)
      <3>1. IncomingFrames # <<>>
        BY <2>2, HeadsOfRings DEF TrFree, RoomInv
      <3> QED
        BY <2>2, <3>1
    <2> QED
      BY <2>1, <2>2, IncomingStep
  <1>2. ImageFrames' \in Seq(1 .. MAX_FRAMES)
    <2>1. CASE TrPublish /\ ImageFrames' = Append(ImageFrames, rgbFrame)
      <3>1. rgbFrame \in 1 .. MAX_FRAMES
        BY <2>1, IncomingHeadIsFrame DEF TrPublish, RoomInv
      <3> QED
        BY <2>1, <3>1
    <2>2. CASE NvmEndRead /\ ImageFrames' = Tail(ImageFrames)
      <3>1. ImageFrames # <<>>
        BY <2>2, HeadsOfRings DEF NvmEndRead, RoomInv
      <3> QED
        BY <2>2, <3>1
    <2> QED
      BY <2>1, <2>2, ImageStep
  <1> QED
    BY <1>1, <1>2

\* What a task holds is what it has read, and what it has written to its slot is
\* there until it publishes it.
LEMMA FramesStep ==
  ASSUME IInv, Next
  PROVE  FramesInv'
  <1> USE DEF IInv
  <1>1. /\ (fb_pc \in {"store", "copy", "publish"} => captured > 0)'
        /\ (fb_pc = "publish" => fb_data[fb_write] = captured)'
    <2>1. CASE Camera
      BY <2>1 DEF Camera, framebuffer_writeframe, FbSelect, FbDequeueFails, FbDequeue,
           FbStore, FbFullNext, FbCopied, FbPublish, FbRequeue, FramesInv, TypeOK,
           FrameBufferTypeOK
    <2>2. CASE ~Camera
      <3>1. UNCHANGED <<fb_pc, captured, fb_data, fb_write>>
        BY <2>2 DEF Next, Transcoder, TrCheck, TrGet, TrConvert, TrWrite, TrCopied,
             TrPublish, TrFree, TrDelay, Nvm, NvmRead, NvmSend, NvmSendFails, NvmEndRead,
             NvmExitCheck, NvmDelay, TranscoderExit, NvmExit, fbVars
      <3> QED
        BY <3>1 DEF FramesInv
    <2> QED
      BY <2>1, <2>2
  <1>2. /\ (tr_pc \in {"write", "copy", "publish"} => rgbFrame = FrameAtHead)'
        /\ (tr_pc = "publish" => img_data[img_write] = rgbFrame)'
    <2>1. CASE Transcoder
      BY <2>1 DEF Transcoder, TrCheck, TrGet, TrConvert, TrWrite, TrCopied, TrPublish,
           TrFree, TrDelay, TrLoopEnd, FrameAtHead, FramesInv, TypeOK, fbVars
    <2>2. CASE ~Transcoder
      <3>1. UNCHANGED <<trVars, fb_read>>
        BY <2>2 DEF Next, Camera, framebuffer_writeframe, FbSelect, FbDequeueFails, FbDequeue,
             FbStore, FbCopied, FbPublish, FbRequeue, Nvm, NvmRead, NvmSend, NvmSendFails,
             NvmEndRead, NvmExitCheck, NvmDelay, TranscoderExit, NvmExit, fbVars
      <3>2. tr_pc \in {"write", "copy", "publish"} => FrameAtHead' = FrameAtHead
        BY <3>1, ReadSlotsKept DEF FrameAtHead, RoomInv
      <3> QED
        BY <3>1, <3>2 DEF FramesInv, trVars
    <2> QED
      BY <2>1, <2>2
  <1> QED
    BY <1>1, <1>2, RingFramesStep DEF FramesInv

\* The chunks that are sent come from the slot, which keeps its frame.
LEMMA ChunksStep ==
  ASSUME IInv, Next
  PROVE  ChunksOfOneFrame'
  <1> USE DEF IInv, ChunksOfOneFrame
  <1>1. CASE Nvm
    BY <1>1 DEF Nvm, NvmRead, NvmSend, NvmSendFails, NvmEndRead, NvmExitCheck, NvmDelay,
         NvmLoopEnd, trVars
  <1>2. CASE ~Nvm
    <2>1. UNCHANGED nvmVars
      BY <1>2 DEF Next, Camera, Transcoder, TrCheck, TrGet, TrConvert, TrWrite, TrCopied,
           TrPublish, TrFree, TrDelay, TranscoderExit, NvmExit
    <2> QED
      BY <2>1, ReadSlotsKept DEF nvmVars, RoomInv
  <1> QED
    BY <1>1, <1>2

\* The inductive invariant, for rings of every size.
THEOREM PipelineInvariant == Spec => []IInv
  <1>1. Init => IInv
    <2> SUFFICES ASSUME Init
                 PROVE  IInv
      OBVIOUS
    <2>1. TypeOK /\ BuffersReturned
      <3>0. 0 \in SlotValue /\ 0 \in 0 .. INCOMING_SIZE - 1 /\ 0 \in 0 .. IMAGE_SIZE - 1
        BY DEF SlotValue
      <3>1. FrameBufferTypeOK
        <4>1. fb_data \in [0 .. INCOMING_SIZE - 1 -> SlotValue]
          BY <3>0 DEF Init, FrameBufferInit
        <4>2. driver_bufs \in 0 .. NUM_FRAME_BUFS /\ lost_bufs \in 0 .. NUM_FRAME_BUFS
          BY DEF Init, FrameBufferInit
        <4>3. captured \in 0 .. MAX_FRAMES
          BY DEF Init, FrameBufferInit
        <4> QED
          BY <3>0, <4>1, <4>2, <4>3 DEF Init, FrameBufferInit, FrameBufferTypeOK
      <3>2. BuffersReturned
        BY DEF Init, FrameBufferInit, BuffersReturned
      <3>3. img_data \in [0 .. IMAGE_SIZE - 1 -> SlotValue]
        BY <3>0 DEF Init
      <3>4. chunk \in 0 .. CHUNKS /\ shown \in 0 .. MAX_FRAMES
        BY DEF Init
      <3>5. tr_exit \in BOOLEAN /\ nvm_exit \in BOOLEAN
        BY Zenon DEF Init
      <3>6. tr_i \in 0 .. 2 /\ nvm_i \in 0 .. 2
        BY DEF Init
      <3> QED
        BY <3>0, <3>1, <3>2, <3>3, <3>4, <3>5, <3>6, Zenon DEF Init, TypeOK
    <2>2. IncomingFrames = <<>> /\ ImageFrames = <<>>
      BY DEF Init, FrameBufferInit, IncomingFrames, ImageFrames, Contents, GetLen
    <2> QED
      BY <2>1, <2>2 DEF Init, FrameBufferInit, IInv, ChunksOfOneFrame, RoomInv, FramesInv, LoopInv
  <1>2. IInv /\ [Next]_vars => IInv'
    <2>1. ASSUME IInv, Next
          PROVE  IInv'
      BY <2>1, TypeStep, LoopStep, RoomStep, FramesStep, ChunksStep DEF IInv
    <2>2. ASSUME IInv, UNCHANGED vars
          PROVE  IInv'
      BY <2>2 DEF vars, fbVars, trVars, nvmVars, exitVars, IInv, TypeOK, FrameBufferTypeOK,
           BuffersReturned, ChunksOfOneFrame, RoomInv, FramesInv, LoopInv, IncomingFull,
           IncomingEmpty, ImageFull, ImageEmpty, IncomingFrames, ImageFrames, FrameAtHead
    <2> QED
      BY <2>1, <2>2
  <1> QED
    BY <1>1, <1>2, PTL DEF Spec

\* Type correctness of the whole pipeline.
THEOREM PipelineTypeCorrect == Spec => []TypeOK
  BY PipelineInvariant, PTL DEF IInv

\* No path through framebuffer_writeframe keeps a buffer of the driver.
THEOREM NoBufferKept == Spec => []BuffersReturned
  BY PipelineInvariant, PTL DEF IInv

\* The datagrams of one image_save carry one frame, however the tasks interleave.
THEOREM OneFrameSent == Spec => []ChunksOfOneFrame
  BY PipelineInvariant, PTL DEF IInv

\* A slot that is read in place keeps the whole frame that it holds.
THEOREM ReadInPlace == Spec => SlotsStable
  <1> DEFINE Stable ==
        /\ tr_pc = "convert" => FrameAtHead # Torn /\ fb_data'[fb_read] = fb_data[fb_read]
        /\ nvm_pc \in {"send", "sent"} =>
             img_data[img_read] # Torn /\ img_data'[img_read] = img_data[img_read]
  <1>1. IInv /\ [Next]_vars => [Stable]_vars
    <2> SUFFICES ASSUME IInv, Next
                 PROVE  Stable
      OBVIOUS
    <2>1. Torn \notin 1 .. MAX_FRAMES
      BY DEF Torn
    <2>2. tr_pc = "convert" => ~IncomingEmpty
      BY DEF IInv, RoomInv
    <2>3. nvm_pc \in {"send", "sent"} => ~ImageEmpty
      BY DEF IInv, RoomInv
    <2> QED
      BY <2>1, <2>2, <2>3, ReadSlotsKept, IncomingHeadIsFrame, ImageHeadIsFrame
  <1> QED
    BY <1>1, PipelineInvariant, PTL DEF Spec, SlotsStable

-----------------------------------------------------------------------------
(* The frames on their way.                                                *)

Frame == 1 .. MAX_FRAMES

\* Where the frames are, as sequences.
LEMMA PartsAreSeqs ==
  ASSUME IInv
  PROVE  /\ ImageFrames \in Seq(Frame)
         /\ Untranscoded \in Seq(Frame)
         /\ FrameInHand \in Seq(Frame)
  <1> USE DEF IInv, FramesInv, Frame
  <1>1. IncomingFrames \in Seq(Frame) /\ (tr_pc = "free" => IncomingFrames # <<>>)
    BY HeadsOfRings DEF RoomInv
  <1>2. fb_pc \in {"store", "copy", "publish"} => captured \in Frame
    BY DEF TypeOK, FrameBufferTypeOK
  <1> HIDE DEF Frame
  <1>3. tr_pc = "free" => Tail(IncomingFrames) \in Seq(Frame)
    BY <1>1
  <1>4. Untranscoded \in Seq(Frame)
    BY <1>1, <1>3 DEF Untranscoded
  <1>5. FrameInHand \in Seq(Frame)
    BY <1>2 DEF FrameInHand
  <1>6. ImageFrames \in Seq(Frame)
    BY DEF Frame
  <1> QED
    BY <1>4, <1>5, <1>6

\* The places that the tasks move frames between, and where they lose them.
Keeps == UNCHANGED <<ImageFrames, Untranscoded, FrameInHand, captured, shown>>

Captures ==
  /\ captured < MAX_FRAMES /\ captured' = captured + 1
  /\ FrameInHand = <<>> /\ FrameInHand' = <<captured'>>
  /\ UNCHANGED <<ImageFrames, Untranscoded, shown>>

Refuses ==
  /\ fb_pc = "store" /\ IncomingFull
  /\ FrameInHand = <<captured>> /\ FrameInHand' = <<>>
  /\ UNCHANGED <<ImageFrames, Untranscoded, captured, shown>>

Stores ==
  /\ FrameInHand = <<captured>> /\ FrameInHand' = <<>>
  /\ Untranscoded' = Append(Untranscoded, captured)
  /\ UNCHANGED <<ImageFrames, captured, shown>>

Skips ==
  /\ tr_pc = "write" /\ ImageFull
  /\ Untranscoded # <<>> /\ Head(Untranscoded) = rgbFrame
  /\ Untranscoded' = Tail(Untranscoded)
  /\ UNCHANGED <<ImageFrames, FrameInHand, captured, shown>>

Transcodes ==
  /\ Untranscoded # <<>>
  /\ ImageFrames' = Append(ImageFrames, Head(Untranscoded))
  /\ Untranscoded' = Tail(Untranscoded)
  /\ UNCHANGED <<FrameInHand, captured, shown>>

Ends ==
  /\ ImageFrames # <<>>
  /\ ImageFrames' = Tail(ImageFrames)
  /\ \/ shown' = Head(ImageFrames)
     \/ nvm_pc = "failed" /\ Head(ImageFrames) = img_data[img_read] /\ UNCHANGED shown
  /\ UNCHANGED <<Untranscoded, FrameInHand, captured>>

\* Every step does one of these.
LEMMA PartsStep ==
  ASSUME IInv, Next
  PROVE  Keeps \/ Captures \/ Refuses \/ Stores \/ Skips \/ Transcodes \/ Ends
  <1> USE DEF IInv
  <1>1. CASE Camera
    <2>1. UNCHANGED <<ImageFrames, tr_pc, shown>>
      BY <1>1, ImageStep DEF Camera, TrPublish, NvmEndRead, NvmLoopEnd, trVars, nvmVars
    <2>2. CASE FbPublish
      <3>1. IncomingFrames' = Append(IncomingFrames, captured)
        BY <2>2, IncomingStep DEF FbPublish, TrFree
      <3>2. tr_pc = "free" => IncomingFrames # <<>>
        BY HeadsOfRings DEF RoomInv
      <3>3. Untranscoded' = Append(Untranscoded, captured)
        BY <2>1, <3>1, <3>2, HeadTailAppend DEF Untranscoded, FramesInv
      <3> QED
        BY <2>1, <2>2, <3>3 DEF FbPublish, Stores, FrameInHand
    <2>3. CASE ~FbPublish
      <3>1. UNCHANGED Untranscoded
        BY <1>1, <2>1, <2>3, IncomingStep DEF Camera, TrFree, TrLoopEnd, trVars, Untranscoded
      <3> QED
        BY <1>1, <2>1, <2>3, <3>1 DEF Camera, framebuffer_writeframe, FbSelect, FbDequeueFails,
             FbDequeue, FbStore, FbFullNext, FbCopied, FbRequeue, Keeps, Captures, Refuses,
             FrameInHand
    <2> QED
      BY <2>2, <2>3
  <1>2. CASE Transcoder
    <2>1. UNCHANGED <<FrameInHand, captured, shown>>
      BY <1>2 DEF Transcoder, TrCheck, TrGet, TrConvert, TrWrite, TrCopied, TrPublish,
           TrFree, TrDelay, fbVars, nvmVars, FrameInHand
    <2>2. tr_pc \in {"write", "publish", "free"} => IncomingFrames # <<>>
      BY HeadsOfRings DEF RoomInv
    <2>3. tr_pc \in {"write", "publish"} => Head(IncomingFrames) = rgbFrame
      BY HeadsOfRings DEF RoomInv, FramesInv
    <2>4. CASE TrPublish
      <3>1. UNCHANGED IncomingFrames /\ ImageFrames' = Append(ImageFrames, rgbFrame)
        BY <2>4, IncomingStep, ImageStep DEF TrPublish, FbPublish, TrFree, NvmEndRead, NvmLoopEnd,
             fbVars, nvmVars
      <3> QED
        BY <2>1, <2>2, <2>3, <2>4, <3>1 DEF TrPublish, Untranscoded, Transcodes
    <2>5. CASE ~TrPublish
      <3>1. UNCHANGED ImageFrames
        BY <1>2, <2>5, ImageStep DEF Transcoder, TrCheck, TrGet, TrConvert, TrWrite, TrCopied,
             TrFree, TrDelay, NvmEndRead, NvmLoopEnd, nvmVars
      <3>2. CASE TrFree
        <4>1. IncomingFrames' = Tail(IncomingFrames)
          BY <3>2, IncomingStep DEF TrFree, FbPublish
        <4> QED
          BY <2>1, <3>1, <3>2, <4>1 DEF TrFree, TrLoopEnd, Untranscoded, Keeps
      <3>3. CASE ~TrFree
        <4>1. UNCHANGED IncomingFrames
          BY <1>2, <3>3, IncomingStep DEF Transcoder, TrCheck, TrGet, TrConvert, TrWrite,
               TrCopied, TrPublish, TrDelay, FbPublish, fbVars
        <4>2. CASE TrWrite /\ ImageFull
          BY <2>1, <2>2, <2>3, <3>1, <4>1, <4>2 DEF TrWrite, Untranscoded, Skips
        <4>3. CASE ~(TrWrite /\ ImageFull)
          <5>1. UNCHANGED Untranscoded
            BY <1>2, <2>5, <3>3, <4>1, <4>3 DEF Transcoder, TrCheck, TrGet, TrConvert, TrWrite,
                 TrCopied, TrDelay, TrLoopEnd, Untranscoded
          <5> QED
            BY <2>1, <3>1, <5>1 DEF Keeps
        <4> QED
          BY <4>2, <4>3
      <3> QED
        BY <3>2, <3>3
    <2> QED
      BY <2>4, <2>5
  <1>3. CASE Nvm
    <2>1. UNCHANGED <<fbVars, trVars>>
      BY <1>3 DEF Nvm, NvmRead, NvmSend, NvmSendFails, NvmEndRead, NvmExitCheck, NvmDelay
    <2>2. UNCHANGED <<Untranscoded, FrameInHand, captured>>
      <3>1. UNCHANGED <<IncomingFrames, tr_pc>>
        BY <2>1, IncomingStep DEF FbPublish, TrFree, TrLoopEnd, fbVars, trVars
      <3> QED
        BY <2>1, <3>1 DEF Untranscoded, FrameInHand, fbVars
    <2>3. CASE NvmEndRead
      <3>1. ImageFrames' = Tail(ImageFrames)
        BY <2>1, <2>3, ImageStep DEF TrPublish, trVars
      <3>2. ImageFrames # <<>> /\ Head(ImageFrames) = img_data[img_read]
        BY <2>3, HeadsOfRings DEF NvmEndRead, RoomInv
      <3>3. nvm_pc = "sent" => wire = img_data[img_read]
        BY DEF ChunksOfOneFrame, LoopInv
      <3> QED
        BY <2>2, <2>3, <3>1, <3>2, <3>3 DEF NvmEndRead, Ends
    <2>4. CASE ~NvmEndRead
      <3>1. UNCHANGED ImageFrames
        BY <2>1, <2>4, ImageStep DEF TrPublish, trVars
      <3>2. UNCHANGED shown
        BY <1>3, <2>4 DEF Nvm, NvmRead, NvmSend, NvmSendFails, NvmExitCheck, NvmDelay
      <3> QED
        BY <2>2, <3>1, <3>2 DEF Keeps
    <2> QED
      BY <2>3, <2>4
  <1>4. CASE TranscoderExit \/ NvmExit
    <2>1. UNCHANGED <<fbVars, trVars, nvmVars>>
      BY <1>4 DEF TranscoderExit, NvmExit
    <2>2. UNCHANGED <<IncomingFrames, ImageFrames>>
      BY <2>1 DEF IncomingFrames, ImageFrames, fbVars, trVars, nvmVars
    <2> QED
      BY <2>1, <2>2 DEF Keeps, Untranscoded, FrameInHand, fbVars, trVars, nvmVars
  <1> QED
    BY <1>1, <1>2, <1>3, <1>4 DEF Next

\* A sequence is its head in front of its tail.
LEMMA HeadAndTail ==
  ASSUME NEW S, NEW s \in Seq(S), s # <<>>
  PROVE  Head(s) \in S /\ Tail(s) \in Seq(S) /\ s = <<Head(s)>> \o Tail(s)
  OBVIOUS

\* Head and tail of a concatenation.
LEMMA HeadTailConcat ==
  ASSUME NEW S, NEW s \in Seq(S), NEW t \in Seq(S), s # <<>>
  PROVE  s \o t # <<>> /\ Head(s \o t) = Head(s) /\ Tail(s \o t) = Tail(s) \o t
  OBVIOUS

\* A frame is dropped for a reason: the ring that it has to go into is full, or
\* the network refuses it.
Forced(f) ==
  \/ fb_pc = "store" /\ f = captured /\ IncomingFull
  \/ tr_pc = "write" /\ f = rgbFrame /\ ImageFull
  \/ nvm_pc = "failed" /\ f = img_data[img_read]

\* The frames on their way, as one sequence.
LEMMA InFlightIsSeq ==
  ASSUME IInv
  PROVE  InFlight \in Seq(Frame)
  BY PartsAreSeqs, ConcatProperties DEF InFlight

\* All that the steps do to the frames on their way.
LEMMA FlightStep ==
  ASSUME IInv, Next
  PROVE  \/ UNCHANGED <<InFlight, captured, shown>>
         \/ /\ captured < MAX_FRAMES /\ captured' = captured + 1
            /\ InFlight' = Append(InFlight, captured')
            /\ UNCHANGED shown
         \/ /\ InFlight # <<>>
            /\ shown' = Head(InFlight) /\ InFlight' = Tail(InFlight)
            /\ UNCHANGED captured
         \/ \E a, b \in Seq(Frame), f \in Frame :
              /\ InFlight = a \o <<f>> \o b /\ InFlight' = a \o b
              /\ Forced(f)
              /\ UNCHANGED <<captured, shown>>
  <1> DEFINE I == ImageFrames
             U == Untranscoded
             H == FrameInHand
  <1>a. I \in Seq(Frame) /\ U \in Seq(Frame) /\ H \in Seq(Frame)
    BY PartsAreSeqs
  <1>b. I \o U \in Seq(Frame) /\ U \o H \in Seq(Frame) /\ I \o (U \o H) = (I \o U) \o H
    <2> HIDE DEF I, U, H
    <2>1. I \o U \in Seq(Frame) /\ U \o H \in Seq(Frame)
      BY <1>a
    <2>2. I \o (U \o H) = (I \o U) \o H
      BY <1>a
    <2> QED
      BY <2>1, <2>2
  <1>1. CASE Keeps
    BY <1>1 DEF Keeps, InFlight
  <1>2. CASE Captures
    <2>1. InFlight = I \o U /\ InFlight' = (I \o U) \o <<captured'>>
      BY <1>b, <1>2, ConcatEmptySeq DEF Captures, InFlight
    <2>2. captured' \in Frame
      BY <1>2 DEF Captures, Frame, IInv, TypeOK, FrameBufferTypeOK
    <2>3. InFlight' = Append(InFlight, captured')
      BY <1>b, <2>1, <2>2, AppendIsConcat
    <2> QED
      BY <1>2, <2>3 DEF Captures
  <1>3. CASE Refuses
    <2>1. InFlight = (I \o U) \o <<captured>> \o <<>> /\ InFlight' = (I \o U) \o <<>>
      BY <1>a, <1>b, <1>3, ConcatEmptySeq DEF Refuses, InFlight
    <2>2. captured \in Frame /\ <<>> \in Seq(Frame)
      BY <1>3 DEF Refuses, Frame, IInv, TypeOK, FrameBufferTypeOK, FramesInv
    <2> QED
      BY <1>b, <1>3, <2>1, <2>2 DEF Refuses, Forced
  <1>4. CASE Stores
    <2>1. captured \in Frame
      BY <1>4, PartsAreSeqs, ElementOfSeq DEF Stores
    <2>2. Append(U, captured) = U \o <<captured>>
      BY <1>a, <2>1, AppendIsConcat
    <2>3. InFlight' = (I \o (U \o <<captured>>)) \o <<>>
      BY <1>4, <2>2 DEF Stores, InFlight
    <2>4. I \o (U \o <<captured>>) = InFlight /\ InFlight \in Seq(Frame)
      BY <1>a, <1>b, <1>4 DEF Stores, InFlight
    <2> QED
      BY <1>4, <2>3, <2>4, ConcatEmptySeq DEF Stores
  <1>5. CASE Skips
    <2> DEFINE d == <<Head(U)>>
               t == Tail(U)
    <2>1. d \in Seq(Frame) /\ t \in Seq(Frame) /\ U = d \o t /\ Head(U) \in Frame
      BY <1>a, <1>5, HeadAndTail DEF Skips
    <2>2. Forced(Head(U)) /\ InFlight' = (I \o t) \o H
      BY <1>5 DEF Skips, Forced, InFlight
    <2> HIDE DEF d, t
    <2>3. /\ t \o H \in Seq(Frame)
          /\ (I \o (d \o t)) \o H = (I \o d) \o (t \o H)
          /\ (I \o t) \o H = I \o (t \o H)
      <3>0. I \in Seq(Frame) /\ d \in Seq(Frame) /\ t \in Seq(Frame) /\ H \in Seq(Frame)
        BY <1>a, <2>1
      <3>1. t \o H \in Seq(Frame)
        BY <3>0
      <3>2. (I \o t) \o H = I \o (t \o H)
        BY <3>0
      <3>3. (I \o (d \o t)) \o H = (I \o d) \o (t \o H)
        BY <3>0
      <3> QED
        BY <3>1, <3>2, <3>3
    <2>4. InFlight = I \o d \o (t \o H) /\ InFlight' = I \o (t \o H)
      BY <2>1, <2>2, <2>3 DEF InFlight
    <2> USE DEF d
    <2> QED
      BY <1>a, <1>5, <2>1, <2>2, <2>3, <2>4 DEF Skips
  <1>6. CASE Transcodes
    <2> DEFINE f == Head(U)
               t == Tail(U)
    <2>1. U = <<f>> \o t /\ f \in Frame /\ t \in Seq(Frame)
      BY <1>a, <1>6, HeadAndTail DEF Transcodes
    <2>2. Append(I, f) = I \o <<f>>
      BY <1>a, <2>1, AppendIsConcat
    <2>3. InFlight = (I \o (<<f>> \o t)) \o H /\ InFlight' = ((I \o <<f>>) \o t) \o H
      BY <1>6, <2>1, <2>2 DEF Transcodes, InFlight
    <2> HIDE DEF f, t
    <2>4. (I \o <<f>>) \o t = I \o (<<f>> \o t)
      BY <1>a, <2>1, ConcatAssociative
    <2> QED
      BY <1>6, <2>3, <2>4 DEF Transcodes
  <1>7. CASE Ends
    <2>1. InFlight = I \o (U \o H) /\ InFlight' = Tail(I) \o (U \o H)
      <3>1. Tail(I) \in Seq(Frame)
        BY <1>a, <1>7, HeadAndTail DEF Ends
      <3>2. (Tail(I) \o U) \o H = Tail(I) \o (U \o H)
        BY <1>a, <3>1, ConcatAssociative
      <3> QED
        BY <1>b, <1>7, <3>2 DEF Ends, InFlight
    <2>2. InFlight # <<>> /\ Head(InFlight) = Head(I) /\ Tail(InFlight) = InFlight'
      BY <1>a, <1>b, <1>7, <2>1, HeadTailConcat DEF Ends
    <2>3. CASE shown' = Head(I)
      BY <1>7, <2>2, <2>3 DEF Ends
    <2>4. CASE nvm_pc = "failed" /\ Head(I) = img_data[img_read] /\ UNCHANGED shown
      <3>1. InFlight \in Seq(Frame)
        BY <1>b, <1>a, <2>1, ConcatProperties
      <3> DEFINE f == Head(InFlight)
                 t == Tail(InFlight)
      <3>2. InFlight = <<>> \o <<f>> \o t /\ InFlight' = <<>> \o t
            /\ f \in Frame /\ t \in Seq(Frame) /\ <<>> \in Seq(Frame)
        BY <2>2, <3>1, HeadAndTail, ConcatEmptySeq
      <3>3. Forced(f)
        BY <2>2, <2>4 DEF Forced
      <3> HIDE DEF f
      <3> QED
        BY <1>7, <2>4, <3>2, <3>3 DEF Ends
    <2> QED
      BY <1>7, <2>3, <2>4 DEF Ends
  <1> QED
    BY <1>1, <1>2, <1>3, <1>4, <1>5, <1>6, <1>7, PartsStep

-----------------------------------------------------------------------------
(* The refinement of FrameStream, and what follows from it.                *)

\* To take an element out of a sequence is RemoveAt at its place.
LEMMA TakenOut ==
  ASSUME NEW a \in Seq(Frame), NEW b \in Seq(Frame), NEW f \in Frame
  PROVE  /\ Len(a) + 1 \in 1 .. Len(a \o <<f>> \o b)
         /\ FS!RemoveAt(a \o <<f>> \o b, Len(a) + 1) = a \o b
  <1> DEFINE whole == a \o <<f>> \o b
             p == Len(a) + 1
  <1>1. whole \in Seq(Frame) /\ Len(whole) = p + Len(b) /\ p \in Nat /\ Len(b) \in Nat
    OBVIOUS
  <1>2. \A i \in 1 .. p - 1 : whole[i] = a[i]
    OBVIOUS
  <1>3. \A i \in 1 .. Len(b) : whole[p + i] = b[i]
    OBVIOUS
  <1>4. p \in 1 .. Len(whole) /\ Len(a) = p - 1
    BY <1>1
  <1> HIDE DEF whole, p
  <1>5. SubSeq(whole, 1, p - 1) = a
    BY <1>1, <1>2, <1>4
  <1>6. SubSeq(whole, p + 1, Len(whole)) = b
    <2> DEFINE rest == SubSeq(whole, p + 1, Len(whole))
    <2>1. rest \in Seq(Frame) /\ Len(rest) = Len(b)
      BY <1>1, <1>4
    <2>2. \A i \in 1 .. Len(b) : rest[i] = whole[p + i]
      BY <1>1, <1>4
    <2> QED
      BY <1>3, <2>1, <2>2, SeqEqual
  <1>7. FS!RemoveAt(whole, p) = a \o b
    BY <1>5, <1>6 DEF FS!RemoveAt
  <1> QED
    BY <1>4, <1>7 DEF whole, p

\* The rings and the tasks are a lossy channel that keeps the order.
THEOREM PipelineIsStream == Spec => FrameStreamSpec
  <1>1. Init => FS!Init
    <2> SUFFICES ASSUME Init
                 PROVE  FS!Init
      OBVIOUS
    <2>1. IncomingFrames = <<>> /\ ImageFrames = <<>>
      BY DEF Init, FrameBufferInit, IncomingFrames, ImageFrames, Contents, GetLen
    <2>2. InFlight = <<>>
      BY <2>1 DEF Init, FrameBufferInit, InFlight, Untranscoded, FrameInHand
    <2> QED
      BY <2>2 DEF Init, FrameBufferInit, FS!Init
  <1>2. IInv /\ [Next]_vars => [FS!Next]_FS!vars
    <2>1. ASSUME IInv, Next
          PROVE  [FS!Next]_FS!vars
      <3>1. CASE UNCHANGED <<InFlight, captured, shown>>
        BY <3>1 DEF FS!vars
      <3>2. CASE /\ captured < MAX_FRAMES /\ captured' = captured + 1
                 /\ InFlight' = Append(InFlight, captured')
                 /\ UNCHANGED shown
        BY <3>2 DEF FS!Next, FS!Capture
      <3>3. CASE /\ InFlight # <<>>
                 /\ shown' = Head(InFlight) /\ InFlight' = Tail(InFlight)
                 /\ UNCHANGED captured
        BY <3>3 DEF FS!Next, FS!Show
      <3>4. CASE \E a, b \in Seq(Frame), f \in Frame :
                   /\ InFlight = a \o <<f>> \o b /\ InFlight' = a \o b
                   /\ Forced(f)
                   /\ UNCHANGED <<captured, shown>>
        <4>1. \E i \in 1 .. Len(InFlight) : InFlight' = FS!RemoveAt(InFlight, i)
          BY <3>4, TakenOut
        <4> QED
          BY <3>4, <4>1 DEF FS!Next, FS!Drop
      <3> QED
        BY <2>1, <3>1, <3>2, <3>3, <3>4, FlightStep
    <2>2. ASSUME UNCHANGED vars
          PROVE  UNCHANGED FS!vars
      BY <2>2 DEF vars, fbVars, trVars, nvmVars, FS!vars, InFlight, ImageFrames, Untranscoded,
           IncomingFrames, FrameInHand
    <2> QED
      BY <2>1, <2>2
  <1> QED
    BY <1>1, <1>2, PipelineInvariant, PTL DEF Spec, FrameStreamSpec, FS!Spec

\* So the frames keep the order of their capture, and none arrives twice.
THEOREM FramesKeepOrder == Spec => []FramesInOrder
  BY PipelineIsStream, FS!StreamInOrder, PTL DEF FrameStreamSpec, FramesInOrder

\* No frame is lost but where a ring is full or the network refuses it.
THEOREM LossesAreForced == Spec => DropsAreForced
  <1> DEFINE Drops ==
        \A f \in Frames(InFlight) \ Frames(InFlight') :
          \/ shown' = f
          \/ fb_pc = "store" /\ f = captured /\ IncomingFull
          \/ tr_pc = "write" /\ f = rgbFrame /\ ImageFull
          \/ nvm_pc = "failed" /\ f = img_data[img_read]
  <1>1. IInv /\ [Next]_vars => [Drops]_vars
    <2> SUFFICES ASSUME IInv, Next, NEW f \in Frames(InFlight), f \notin Frames(InFlight')
                 PROVE  shown' = f \/ Forced(f)
      BY DEF Forced
    <2>1. CASE UNCHANGED <<InFlight, captured, shown>>
      BY <2>1 DEF Frames
    <2>2. CASE InFlight' = Append(InFlight, captured')
      <3>1. \A i \in DOMAIN InFlight : i \in DOMAIN InFlight' /\ InFlight'[i] = InFlight[i]
        BY <2>2, InFlightIsSeq
      <3> QED
        BY <3>1 DEF Frames
    <2>3. CASE InFlight # <<>> /\ shown' = Head(InFlight) /\ InFlight' = Tail(InFlight)
      <3>1. PICK i \in DOMAIN InFlight : f = InFlight[i]
        BY DEF Frames
      <3>2. i # 1 => i - 1 \in DOMAIN InFlight' /\ InFlight'[i - 1] = f
        BY <2>3, <3>1, InFlightIsSeq
      <3>3. i = 1
        BY <3>2 DEF Frames
      <3> QED
        BY <2>3, <3>1, <3>3, InFlightIsSeq
    <2>4. ASSUME NEW a \in Seq(Frame), NEW b \in Seq(Frame), NEW g \in Frame,
                 InFlight = a \o <<g>> \o b, InFlight' = a \o b, Forced(g)
          PROVE  Forced(f)
      <3>1. PICK i \in DOMAIN InFlight : f = InFlight[i]
        BY DEF Frames
      <3>2. i <= Len(a) => i \in DOMAIN InFlight' /\ InFlight'[i] = f
        BY <2>4, <3>1
      <3>3. i > Len(a) + 1 => i - 1 \in DOMAIN InFlight' /\ InFlight'[i - 1] = f
        BY <2>4, <3>1
      <3>4. i = Len(a) + 1
        BY <2>4, <3>1, <3>2, <3>3 DEF Frames
      <3>5. f = g
        BY <2>4, <3>1, <3>4
      <3> QED
        BY <2>4, <3>5
    <2> QED
      BY <2>1, <2>2, <2>3, <2>4, FlightStep, Zenon
  <1> QED
    BY <1>1, PipelineInvariant, PTL DEF Spec, DropsAreForced
=============================================================================
