# A verification of the motion detector

TLA+ modules, TLC configurations and TLAPS proofs for the motion-activated video
streamer in this repository: a C program for the BeagleBone Black that samples a PIR
sensor, captures frames from a USB webcam while there is motion, and streams them over
UDP to a viewer on a host PC. Line numbers refer to the repository's sources.

## The system

`main` (`src/main.c`) initialises everything and creates four tasks. A task is a
`SCHED_FIFO` thread that does one iteration and then waits for its semaphore, which the
OSAL's scheduler thread posts every so many ticks of an 11 ms timer.

| Component | State | Operations | Talks to |
|---|---|---|---|
| Detector, `src/detection/detection.c` | `motion_detected`, `detection_state`, `detection_substate`, `timeout_start` | `detection_task` (period 1 tick), `detection_exit` | GPIO pin by sysfs; queue, as its writer |
| Event queue, `utils/osal/osal.c`, `middleware/events` | a POSIX queue of at most 10 events, which outlives the process | `osal_queue_create`, `_send`, `_receive`, all non-blocking | detector, camera |
| Camera, `src/camera/camera.c` | `state`, the driver's streaming state | `camera_task` (2 ticks), `camera_exit` | queue, as its reader; frame buffer, as its writer |
| Ring buffer, `utils/ringbuffer` | `data`, `size`, `readPtr`, `writePtr` | macros | frame buffer, image buffer |
| Frame buffer, `middleware/frameBuffer` | ring of 128 frames, 32 buffers shared with the driver | `framebuffer_writeframe`, `_getframe_ptr`, `_freeframe` | V4L2 driver, camera, transcoder |
| Transcoder, `src/transcoder` | `exit_task`, a frame on its stack | `transcoder_task` (6 ticks), `transcoder_exit` | both rings |
| Image buffer and sender, `middleware/image` | ring of 256 frames, UDP socket | `imagebuffer_*`, `image_convert`, `image_save` | transcoder, nvm, network |
| nvm, `src/nvm` | `exit_task` | `nvm_task` (6 ticks), `nvm_exit` | image buffer |
| OSAL scheduler, `utils/osal/osal.c` | `tick`, the tasks' table, semaphores, `startShutdown` | signal handler, sequencer, task create, start, delete, wait; init, deinit | every task, main |
| Stream viewer, `utils/stream-viewer` | bytes received and not yet shown, listeners | `FrameTransform._transform`, a message, a browser that connects or closes | network, browsers |
| Colour conversion, `middleware/image` | look-up tables | `yuv2rgb` | transcoder, in the YUYV configuration |

What makes it hard, in the order of the risk:

* The exit handlers run in the scheduler thread and write the tasks' state variables,
  which the tasks test and set without a lock.
* Detector and camera are two state machines kept in step by events alone, through a
  queue that may be full, that nobody checks, and that survives a crash.
* The sensor may change at each iteration of the hold-off, which spreads over iterations.
* Frames are read in place, in two rings, by tasks slower than those that write them.
* Sends, `ioctl`s and reads of the pin fail, and most results are ignored.
* Shutdown cancels threads, frees what they use and ends in `SIGKILL`.
* The viewer has nothing but the bytes of a JPEG picture to tell where a frame begins, on a
  network that loses, reorders and repeats datagrams.

What makes each component correct: for the detector, every motion is announced and its
end is announced exactly after the hold-off; for the camera, each frame is kept or
dropped as the last event says; for both, they agree; for the rings, a slot in use is not
written and the order is kept; for the pipeline, a frame is lost for a reason only, and
none is stuck; for the scheduler, each task is released at its rate; for shutdown, each
handler runs once and nothing is freed before its user has ended; for the viewer, a fault
spoils the pictures it hits and no others; for the colour conversion, every value is the
nearest to the exact one.

## The modules

| Module | Models |
|---|---|
| `MotionEvents` | the queue: bounded, sends refused when full, receives empty-handed when empty |
| `MotionSession` | abstract: a session of motion, opened by motion, closed after a hold-off of quiet |
| `Detection` | `detection.c`, cut into steps at every unlocked access; states its implementation of `MotionSession` |
| `DetectionProofs` | theorems on `Detection` |
| `Camera` | `camera.c`, cut into steps in the same way |
| `MotionCapture` | `Detection` and `Camera` on one queue, with restarts of the process |
| `MotionCaptureProofs` | theorems on `MotionCapture` |
| `RingBuffer` | the ring's pointer arithmetic, as operators |
| `RingProofs` | what the operators of `RingBuffer` do to the contents of a ring, and what the macros' remainders do |
| `RingMask` | the same in masked unsigned integers, as the macros do it |
| `ColorConvert` | `yuv2rgb`, its tables and `rgb888_convert` as functions, and the conversion they approximate |
| `ColorProofs` | theorems on `ColorConvert` |
| `FrameBuffer` | `framebuffer.c`, and the driver's buffers |
| `FrameStream` | abstract: a channel that loses frames and keeps their order; with its one theorem |
| `Pipeline` | `FrameBuffer` with `transcoder.c`, `nvm.c` and both halves of `image.c`'s ring; states its implementation of `FrameStream` |
| `PipelineProofs` | theorems on `Pipeline` |
| `Osal` | tasks, timer, scheduler thread and `main` of `osal.c`, from the creation of the tasks to the `SIGKILL` |
| `OsalProofs` | theorems on `Osal` |
| `StreamViewer` | `image_save`'s datagrams, the network, `stream-viewer.js` and its browsers |
| `StreamViewerProofs` | theorems on `StreamViewer` |
| `MC*` | the modules the runs check, one for each composition; `MCArithmetic` feeds `RingMask` and `ColorConvert` |

### How the detector's code is cut

One iteration of `detection_task` is the actions `DetLoopCheck` (the `while`), `ReadGpio`,
`ProcessNextState`, one action of the `switch`, and `DetDelay`. Where a case ends in
`set_detection_state`, that assignment is an action of its own (`Settle`, `Lose`), since
`detection_exit` may run between the send and the assignment. `ProcessNextState` is one
step: its test and its assignment of `detection_state` can be reordered with the exit
handler only in a way that ends in the same states as an exit before or after the step,
or in an exit overwritten, which the model has as well. `ExitSetState` and `ExitUnexport`
are the two halves of `detection_exit`; after the second, and whenever the pin could not
be exported, every sample is -1, which `AsUint8` turns into 255, motion.

Time is the action `Tick`: `elapsed` and `quiet` count it up to `TIMEOUT`, which is all
that is ever compared. The history variables `announced`, `delivered`, `quiet` (and
`heard` in `Camera`) record what was sent, accepted, seen and received; nothing the code
does depends on them.

### How the camera's code is cut

`Receive` takes one event, `SwitchEvent` tests it against `state`, `SetState` assigns,
`SwitchState` decides about the frame, `WriteFrame` is the wait in `select` and the rest of
`framebuffer_writeframe`, which `FrameBuffer` models in detail. `SwitchState` keeps the
`eSTATE_EXITING` case, although nothing enters that state.

### How frames are modelled

A frame is the number of its capture; 0 is a slot never written, and `Torn` a slot while
`memcpy` or the structure assignment is under way, so that a reader that comes in between
would see it. The copy and the increment of `writePtr` are separate steps, in the order of
the source. `imagebuffer_init` is called by both `nvm_init` and `transcoder_init` before any task
exists, and both calls leave an empty ring.

### How the scheduler is cut

`Osal` begins after `osal_init`, with the scheduler thread at the head of its loop and `main` about to
create the first task. `pc` says where these two are, `task_pc` where each task is, and
every access to what they share is a step of its own. A task's body is the single place
`work`: what it does there is the business of the other modules. `Alarm` and `Increment` are
the two lines of the timer's handler (osal.c:633, 634), which runs in whichever thread the
kernel picks; that thread stands still in between, and a `sem_wait` it was in returns, as
the handlers are installed without `SA_RESTART` and no caller looks at the result.
`osal_deinit` may be run by the scheduler thread and by `main`, even by both at a time.

* The threads interleave freely. The tasks and the scheduler thread are bound to one core
  (osal.c:195, 596), where a thread of higher priority only gives way when it blocks; but `main` is not
  bound, and nothing locks the process's memory, so each may stop at a page fault.
* Creating a semaphore or a thread is taken to succeed. `pthread_create` returns a positive number when it
  fails, which `IS_ERROR` takes for success (osal.c:219): the slot is then `SUSPENDED` with a handle
  of 0, which `main` joins. `osal_init` ends the program first if it may not use `SCHED_FIFO`, the likeliest reason.
* `PERIOD_MS` gives the periods `main` may choose from for each task, of which the code has one.
* `os_sched_mutex` has the priority ceiling `rt_max_prio`, so `pthread_mutex_lock` fails in the
  scheduler thread and in `main`. These go on without the mutex and unlock it, which may
  or may not take it from a task that holds it (`Unlock`).
* `pthread_cancel` of the handle 0 of an empty slot, or of a thread already joined, and
  `pthread_join` of the handle 0 are undefined: the process ends or goes on.
* `osal_task_start` writes `RUNNING` into the slot at `task_idx`, the one after the last task,
  and so makes it look like one: it is joined, told and deleted in vain.
* Only `tick % period_cnts` is ever used: `tick` is kept modulo `CYCLE`, a common multiple
  of the counts.

* Between its joins and `osal_deinit`, `main` unmaps the driver's buffers (main.c:99), in
  `framebuffer_deinit`. A task of `Capturing` that is at work then may copy out of one: the
  process ends by SIGSEGV (`UseUnmapped`).

Left out are `os_tcb_mutex`, which only `main` takes, and `scheduler_started`, which is
only read while it is still false.

### How the viewer is modelled

A byte is a record of its frame, its place there and its value, of which only `FF`, `D8` and
`D9` matter: two pictures are never equal by accident, and a picture pieced together from two
is told from both. `NextFrame` copies a picture over its slot of `incomingBuffer` as
framebuffer.c:138 does, so the slot's end is what longer, older pictures left. The rings between
that copy and `image_save` pass whole slots on in order, which is what `Pipeline` shows; a picture that the
full `imageBuffer` refuses (transcoder.c:67) leaves its bytes in the slot and is never sent, like one whose
first send fails. `SendTo` is a
round of the loop in `image_save`, `SendFails` gives up the rest of a frame. The network
is a sequence of datagrams; a fault removes one, lets it overtake the one before it, or
repeats it. The handler of a message is `Message`, which joins the buffers, and then a `Push` for
every round of the loop in `_transform`, down to the listeners. JavaScript runs the handler to its end,
and what it leaves to the streams of Node.js is done before the next event: while the loop's
condition, `HasPicture`, is true, `Message`, `Connect` and `Close` wait, and what the properties
say of the viewer they say of the time between two events. The board and the network are other
processes and go on, and the viewer may be killed. As
long as no browser has ever connected, Node.js keeps part of the data unparsed; as nothing
shows which, `Message` parses it at once and keeps the pictures in `ready`.

The webcam is taken to send whole JPEG pictures with no marker in between (`JpegAssumption`), and no
longer than a slot, which `memcpy` takes for granted as well.

Two history variables record what the faults did, and no guard reads them. `damaged` has the frames
hit: that of a datagram that is lost or repeated, both when one overtakes the other, the frame of which
the rest is not sent, and at a restart the frame of the last datagram that arrived. `latest` is the
place in the stream behind that datagram.

### How the colour conversion is modelled

`Fixed` is the rounding of the five coefficients to 1/32768; a table is a function of a byte,
and each of its 256 lines has been compared with that function. `Quotient` is C's
division. `Exact` is the conversion with the decimal coefficients, in thousandths. The code
is compiled, but the configured format, MJPEG, takes the other branch of `rgb888_convert`,
which `Pipeline` models.

## The runs

| Run | Bounds | Shows |
|---|---|---|
| `detection` | hold-off 3, queue 2 | safety, refinement and progress of the detector, against any sensor, reader and exit |
| `capture` | hold-off 1, queue 2, 1 restart | safety of detector, camera and queue, and where alone the camera's exit is undone |
| `capture_live` | the same, no shutdown | the camera follows the sensor in the end |
| `arithmetic` | rings of 2, 4, 8, 128, 256; 12 values of a byte | every pair of pointers of those sizes; pairs of pixels, within 508 thousandths of the exact colours |
| `pipeline` | rings of 4 and 2, 4 frames, 2 chunks, 1 driver buffer | slots, order, losses, buffers, through shutdown |
| `pipeline_live` | rings of 2 and 2, 2 frames, 1 chunk, no shutdown | no frame is stuck |
| `osal` | 2 tasks (periods of 1 and 2 ticks) in 3 slots, semaphores up to 2 | exit functions before cancellation and end, each once; buffers unmapped after their last use |
| `osal_live` | 1 task with a period of 1 or 2 ticks in 2 slots, semaphores up to 2 | a task of one tick works for ever, one of any period when the scheduler is punctual; a shutdown ends |
| `viewer` | 3 frames of 4 to 6 bytes in slots of 6, datagrams of 2, 2 faults, 2 in transit, 2 browsers | nothing shown but what was sent; with faults, pictures lost only around the frames they hit, at most two for a fault |
| `detection_exit`, `capture_full`, `capture_stale` | smallest that show it | the findings below |

Why the bounds are enough. The detector only compares `elapsed` with the hold-off: 3
allows less, equal and more than one tick to go, and 1 is enough when the length of the
hold-off is not in question. A queue of 2 has a state that is neither empty nor full, may
hold both events in both orders, and is full after two sends. One restart is enough to
start with each queue that a run can leave. Rings of 4 and 2 fill and wrap with 4 frames;
one of 2 holds a single frame, so that writer and reader always work on neighbouring
slots. One driver buffer is enough as the task holds one at a time. Two tasks in `osal` may hold and
want the mutex against each other, and the third slot is the one that is no task; a
semaphore of 2 tells a post from two in a row, and `MAX_POSTS` drops what is beyond, where the real
semaphore would only release a late task once more. Handlers do not nest in `Osal`: that a
second timer signal interrupts `tick++` in another thread would take a handler 11 ms long. What does not depend on
the bounds is what the theorems say.

In `viewer`, a datagram of 2 bytes puts the start marker at the head of a datagram, as 1024 bytes do,
and an end marker within one, across two, or in the one that ends the frame; the third frame
reuses the slot of the first, so that it may have an old end marker behind its own, whole
or only its second half. Two faults may hit one frame, two in a row or two apart. Two datagrams in
transit are enough to overtake, and a datagram that overtakes twice has used both faults. Three
datagrams in transit, 4 frames, datagrams of 3 bytes with 3 faults, and a single slot were
tried as well and give the same results. The bound of `LossIsLocal` is reached: losing an end marker costs its picture and the next.
The run has 1.2 million states and takes about 90 seconds with two workers.

The runs of `Osal` and `StreamViewer` turn off the check for deadlock, because the process and the
stream end. In the others
the tasks may end, but the clock, the sensor or the driver go on.

### Fairness

`DetFairSpec`: the detection task goes on (a real-time thread that is released at every
tick) and so does the clock. `FairSpec` of `MotionCapture` adds the camera task, which
assumes that the webcam goes on delivering frames, as `select` has no timeout.
`FairSpec` of `Pipeline`: transcoder, nvm and the camera task while it holds a frame; it does
not assume that the webcam delivers, nor that the network ever accepts a datagram. Shutdown is
never assumed to happen: the two `FairSpec`s exclude it, and `HoldOffExpires` accepts it as
an excuse. `FairSpec` of `Osal`: the timer fires, a handler ends, and scheduler thread, `main` and
tasks, which signals interrupt, each run when they can again and again (strong
fairness): the signals come 11 ms apart, which leaves all of them time, and a mutex is
handed on in the order of the priorities, each holder keeping it for two assignments. `TickTaskRuns`
and `EveryTaskRuns` are what justifies, in turn, that the other modules assume the tasks run. Fairness only ever says that a task runs, never which branch it takes.

`EveryTaskRuns` has a premise instead of a fairness condition: that the scheduler thread is in the end
`Punctual`, and looks at a tick after its handler and before the next. The priorities provide that: the timer's
signal goes to `main` first, which has the highest one (osal.c:90), so the handler is done before the scheduler
thread runs, and nothing else holds that up for a tick. It is needed. The handler posts before it counts
(osal.c:633, 634), and a late pass sees a later tick: without the premise TLC finds a behaviour in which
every look the scheduler takes at it finds an odd tick, and a task with a period of two never runs again. With a period
of one tick there is nothing to miss, and `TickTaskRuns` has no premise. Both say that the task begins and ends
its work over and over, so that one stuck at the mutex does not count as working.

## What is proved

For every hold-off, queue size and number of restarts, from the constants' assumptions
`TIMEOUT \in Nat \ {0}`, `QUEUE_SIZE \in Nat \ {0}`, `MAX_RESTARTS \in Nat`:

* `DetInvariant`: the detector's inductive invariant `DetIInv`, and from it
  `DetTypeCorrect`, `SessionNeverOrphaned` (`NoOrphanSession`), `MotionAlwaysAnnounced`
  (`SampleAnnounced`);
* `DetectorImplementsSession`: every behaviour of the detector is one of `MotionSession`;
* `Invariant`: the joint invariant `IInv` of `MotionCapture`, and from it `TypeCorrect` (`TypeOK`),
  `TasksAgree` (`Agreement`) and `CaptureIsMotion` (`CaptureMatchesMotion`); `FramesAsHeard`
  (`SaveMatchesHeard`), with `HeardInv` beside `IInv`; and `CameraStaysOut` (`CameraExitKept`),
  which needs no invariant: the guards of the camera's steps are enough;
* `OsalInvariant`: the inductive invariant `IInv` of `Osal`, and from it `OsalTypeCorrect` (`TypeOK`)
  `ToldBeforeTeardown` (`ExitsBeforeTeardown`) and `UnmappedAfterUse` (`UnmapsAfterUse`), for every `NUM_TASKS < MAX_TASKS`, every
  period, `CYCLE` a common multiple of the counts, and `MAX_POSTS \in Nat \ {0}`;
* `PipelineInvariant`: the inductive invariant `IInv` of `Pipeline`, and from it `PipelineTypeCorrect`
  (`TypeOK`), `NoBufferKept` (`BuffersReturned`), `OneFrameSent` (`ChunksOfOneFrame`) and `ReadInPlace`
  (`SlotsStable`); `PipelineIsStream`, the refinement of `FrameStream`, step by step; from that
  and `StreamInOrder`, `FramesKeepOrder` (`FramesInOrder`); and `LossesAreForced` (`DropsAreForced`). They hold
  for rings of any size from 2, and any number of frames, datagrams of a frame and driver buffers;
* `ViewerInvariant`: the inductive invariant `IInv` of `StreamViewer`, and from it `StreamIsClean`
  (`CleanStream`), `OnlyHitAreLost` (`OnlyHitFramesLost`), `ViewersKeepStep` (`ViewersInStep`) and
  `ViewerTypeCorrect` (`TypeOK`); and `LossIsFew`, at most four pictures lost for each fault. They hold for
  slots, datagrams and rings of any size, any set of pictures that `JpegAssumption` allows, and any browsers
  and bounds;
* `WrapIsRemainder`: `Inc` and `GetLen` are the remainders that ringbuffer.h takes, first in unsigned
  arithmetic, then by the ring's size, for every size that divides the range of an unsigned
  integer, which a power of two does. What is left to `MaskIsWrap` is that `&` with `size - 1` is
  the remainder by `size`;
* `PixelsAreNear` and `FramesAreNear`, with no assumption: for all bytes, and for a frame of any
  size and content, the colours are within 508 thousandths of the exact ones and no sum
  leaves the range of an `int`. The lemmas are the values of the coefficients, what each table
  is off (`Tables`), and that dividing towards zero and clamping is rounding (`Rounding`).

`SessionSpec` is not inductive by itself. That a session closes only after the whole
hold-off needs to know, at `Lose` and in `eSTATE_MOTION_LOST`, that the sensor has been
quiet for `TIMEOUT`; that comes from `eSUBSTATE_EXIT`, whose quiet comes from
`elapsed <= quiet` in `eSUBSTATE_RUN` (`HoldOffInv`, `LosingInv`). Each of these facts is
suspended while a sample with motion waits to be processed (`Pending`), as that sample
resets `quiet` before the state machine has heard of it. `SessionInv` ties `motion_detected`
and the states to the session, which is where the interruption by `detection_exit` matters:
the state may be overwritten, the session must not be. `NoticedInv` says the same of a
sample with motion, from `ProcessNextState` to the end of the iteration.

`Agreement` is stated on the state the camera will be in once it has taken what is in the
queue (`DrainedState`), so it is inductive with `CameraInv` alone: a send changes the last
event, a receive moves it into the task's hands, acting on it makes it the state. A
restart keeps the queue but clears `delivered`. `SaveMatchesHeard` looks at the frame alone; `HeardInv` follows
the event from its receipt to the state it sets, and the state to the flag of the frame.

`ExitsBeforeTeardown` has two ways to go wrong, as `osal_deinit` has two callers. For the scheduler
thread, `OrderInv` says how far its loop over the slots has told the tasks. For `main`, the
argument goes through the tasks: it gets past one that has ended or whose slot is unused
(`ToldInv`), and that only comes about in a task that was told, or by a teardown, which
comes after all have been told (`TeardownInv`). `CreatedInv` is needed since a slot is also
unused before its task exists: a signal is handled, and `main` joins, only when all
tasks are there. `NUM_TASKS < MAX_TASKS` is what keeps `osal_task_start`'s write at
`task_idx` within the table.

`UnmapsAfterUse` goes the same way one step further (`EndedInv`): until the scheduler thread tears
down, a slot is unused, and `main` gets past a task, only when that task has left its loop, and
not just been told to. It does not hold when both tear down: `osal_task_delete` in the
scheduler thread marks a slot whose task is still at work (osal.c:280), `main` skips
it and unmaps. The property names this exception; the process is about to be killed then.

In `Pipeline`, no task looks at the state of another, and what it has tested of a ring may be old
when it acts on it. `RoomInv` says that the tests stay true: a writer that found room
keeps it, as the reader only makes more, and a reader that found a frame keeps it (`OtherSideMayGoOn` in
`RingProofs`). So the writer's slot is never one between the pointers (`SlotInUse`), what it writes
there is not seen before it is published (`WriteUnseen`), and the slots between the
pointers are whole frames (`FramesInv`). `PartsStep` then says of each step which of the four places
of a frame it touches, and `FlightStep`, on the four put together, that a step leaves the frames on
their way as they are, adds a captured one at the end, takes the shown one from the head, or
takes one out for a reason. Both `FrameStreamSpec` and `DropsAreForced` are read off that;
`FramesInOrder` follows from the refinement alone, by a theorem about `FrameStream`.
`TypeOK` is not inductive without `ChunksOfOneFrame`: that `shown` is a whole frame rests on
the datagrams having come from a whole slot.

In `StreamViewer`, the viewer knows no frames, only bytes, so `CleanStream` needs to know which bytes
they are. A place in the stream is a frame and a number of its bytes; without a fault, the datagrams in
transit are the stream from the place where the last one to arrive ended to the place where `image_save` is,
one following the other (`TransitInv`), and the viewer's buffer is what comes behind the
last picture it pushed, up to the first of these places (`BufferInv`). That the search finds the next picture there
and nothing else is the lemma `Markers`. The buffer may hold the rest of a slot and the beginning of the
next. In the rest there may be end markers and pieces of several older pictures, but no start marker
(`FramesInv`): those of older pictures were at place 1, which is always overwritten, and none is put
together where a picture ends, which is in a `D9`. Across the border of two slots there is none either,
as the next slot begins with an `FF`. With this invariant `ViewersInStep` is a matter of `ViewersInv`: who listens is who is
connected, and what waits is the end of what was pushed.

With faults there is no saying what the viewer keeps: losses, swaps and repetitions can piece together any
buffer. `OnlyHitFramesLost` is proved by saying it only of the frames that no fault has hit (`LossInv`). `LinkInv`
looks at each border of two neighbouring datagrams, the last one to arrive and the next one to be sent
included: behind a place in the stream comes the next byte, unless its frame, or that of what comes, was hit. So
a frame that was not hit still arrives whole and in order, in between of whatever. `KeptInv` says what there is
in the buffer when the last to arrive was of such a frame: either its picture is out and its rest is all there is
(`KeepsRest`), or all that has come of it is there, behind bytes in which a start marker may be left, but no
end marker behind that (`KeepsFrame`). That start is the one hazard left: the next end marker, which is that of the
frame itself, then closes a spliced picture, and the frame is lost. It can only come from the frame in
front, and not when that was not hit either, which is the last conjunct of `KeepsFrame`. `PushedInv` follows each
picture for which neither was hit from the network to `pushed`. What makes the two hold through a `Push` is that it
takes away everything up to the end marker, so that what a hit frame has left goes with the next whole
frame. `LossIsFew` then counts: a fault hits at most two frames (`HitsCounted`), and each costs at most its own
picture and the next.

The fairness conjuncts are not used in any proof. Liveness under fairness is out of the proof
system's reach and only model-checked (`HoldOffExpires`, `MotionIsCaptured`,
`QuietEndsCapture`, `FramesLeave`, `ShutdownEnds`, `TickTaskRuns`, `EveryTaskRuns`). Of what a fault costs the viewer, two
properties are only model-checked. `LossIsLocal` has two pictures for each fault where `LossIsFew` has
four: the two differ for a datagram that overtakes one of another frame, which hits both, and to show that
this never costs more than two needs the history of each swap, not just the set of frames that were hit.
`PendingBounded` adds up the lengths of the pieces that all faults together have left in the buffer, and a sum over a
sequence is a recursive definition. What the ring's mask computes
(`MaskIsWrap`) stays so as well, as bit operations are recursive definitions. `ConvertIsNear` is what
`FramesAreNear` says, on frames of eight bytes.

## Where code and documents differ

* `detection_exit`: `set_detection_state` in the task overwrites `eSTATE_EXIT`
  (detection.c:162, 171, 203, 244, 253), and the task goes on. README.md:74 has
  `eSTATE_EXIT` entered from any state and never left.
* `capture_full`: a refused `EVENT_MOTION_DETECTED` is not sent again, and the motion is not
  captured (detection.c:158-160). `Agreement` and `CaptureMatchesMotion` hold in spite of it
  because they speak of events that were accepted.
* `capture_stale`: the queue survives the process (osal.c:547), so a restart may capture
  without any motion.

Read in the code, and true of the models by their shape, so that no run is spent on them:
README.md:70 draws the edge to `eSTATE_TIMEOUT` from `eSTATE_MOTION_DETECTED`, and the code enters it
from `eSTATE_DETECTING`; README.md:82-85 switch the camera off through `eSTATE_EXITING`, which
nothing enters, as `camera_exit` sets `eSTATE_EXIT` directly (camera.c:227); and `eSTATE_EXIT` of the
camera can be overwritten in the same way as the detector's (camera.c:177); `CameraExitKept` checks
that this is the only place. The source marks
the lines 272-281 of `osal_task_delete` as a critical section, which the scheduler thread runs
without the mutex, whose ceiling (osal.c:328) is below its priority (osal.c:598). README.md
says of datagrams of 1k bytes that "the stream viewer parses each packet individually";
it joins them (stream-viewer.js:22), and would show nothing if it did not, which is the mutant
of `CleanStream`. The loop over a YUYV frame (image.c:124-133) writes 3/2 of `FRAME_SIZE` bytes, and
the destination has `FRAME_SIZE`: the two configurations that reach it need a larger one.

## What is not modelled, and the plan

Done: detector, camera, their queue and restarts; rings and pipeline; scheduler and
shutdown; viewer; colour conversion. Planned, in this order:

1. The rate of release in `Osal`: how often, and not only that, a task is released when the handler is
   interrupted between osal.c:633 and 634, when a pass of the scheduler is late or a task overruns.
2. A camera that `VIDIOC_QBUF` starves of buffers, and threads that are not created.
3. A proof of `LossIsLocal`'s two pictures for each fault, from a history that tells the swaps apart.

Left out for good: the demo tasks (not compiled), the system log (its state is set up
before the first task and never changes again; tasks that trace at the same time mix their lines, and
nothing else depends on it), the
V4L2 negotiation of `camera_init` (it succeeds or ends the process before any task exists),
the HTTP framing of the viewer, build and packaging files. Of the mapping of the driver's buffers
`Osal` has whether it is there, and `FrameBuffer` the number of the buffers. `PROJECT.json` lists the hazards with
the properties that cover them, and notes on those that none covers: some of these are what the code does,
such as the buffers it loses to a refused `VIDIOC_QBUF`, or the unmapping that `UnmapsAfterUse` excepts.
