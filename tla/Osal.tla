--------------------------------- MODULE Osal ---------------------------------
(***************************************************************************)
(* The tasks of src/utils/osal/osal.c, from their creation in main to the  *)
(* end of the process.  A timer signal posts a semaphore; the scheduler    *)
(* thread takes it and releases every task whose period divides the tick;  *)
(* a task does its work and waits for the next release.  On SIGINT or      *)
(* SIGTERM the scheduler calls the tasks' exit functions and osal_deinit,  *)
(* while main waits for the tasks in osal_task_wait_all.                   *)
(*                                                                         *)
(* A signal handler runs in whichever thread the kernel picks, which goes  *)
(* on when the handler has returned, out of sem_wait if it was in there.   *)
(* The threads interleave freely: their priorities order them while none   *)
(* blocks, but their memory is not locked and any of them may fault.       *)
(***************************************************************************)
EXTENDS Integers, FiniteSets

CONSTANTS
  NUM_TASKS,          \* tasks that main creates, 4 in the code
  MAX_TASKS,          \* slots for tasks, 5 in the code
  PERIOD_MS,          \* the periods that main may give each task, one in the code
  TIMER_TICK_MS,      \* the period of the timer, 11 in the code
  Capturing,          \* the tasks that use the driver's buffers: camera
  CYCLE,              \* a multiple of each count: tick is kept modulo CYCLE
  MAX_POSTS           \* a bound on the count of a semaphore

Id == 0 .. NUM_TASKS - 1
Slot == 0 .. MAX_TASKS - 1
\* The counts of osal_task_set_period.
Counts(period_ms) == period_ms \div TIMER_TICK_MS

ASSUME TasksAssumption ==
  NUM_TASKS \in Nat /\ MAX_TASKS \in Nat /\ NUM_TASKS < MAX_TASKS
ASSUME PeriodAssumption ==
  TIMER_TICK_MS \in Nat \ {0} /\ PERIOD_MS \in [Id -> SUBSET Nat \ {{}}]
ASSUME CapturingAssumption == Capturing \subseteq Id
ASSUME CycleAssumption ==
  /\ CYCLE \in Nat \ {0}
  /\ \A i \in Id : \A period_ms \in PERIOD_MS[i] :
       Counts(period_ms) # 0 => CYCLE % Counts(period_ms) = 0
ASSUME MaxPostsAssumption == MAX_POSTS \in Nat \ {0}

VARIABLES
  tick,
  handling,           \* the thread in the SIGALRM handler, before its tick++
  sched_sem,          \* os_sched_sem
  timer_on,           \* the timer is armed
  sequencerCallbackAssigned,
  startShutdown,
  task_idx,
  task_state,         \* of every slot
  period_cnts,        \* of every slot
  signal_sem,         \* of every slot
  sched_mutex,        \* the task that holds os_sched_mutex
  task_pc,            \* where each task is
  cancelled,          \* tasks with a pthread_cancel pending
  pc,                 \* where the scheduler thread and main are
  slot,               \* and the loop counter of each
  exits,              \* history: calls of each task's exit function
  mapped,             \* the driver's buffers are in the process's memory
  alive               \* the process has not ended

timerVars == <<tick, handling, sched_sem, timer_on>>
flagVars == <<sequencerCallbackAssigned, startShutdown, mapped, alive>>
slotVars == <<task_idx, task_state, period_cnts, signal_sem>>
taskVars == <<task_pc, cancelled, exits>>
vars == <<timerVars, flagVars, slotVars, sched_mutex, taskVars, pc, slot>>

Scheduler == MAX_TASKS
Main == MAX_TASKS + 1
NoOne == MAX_TASKS + 2    \* os_sched_mutex is free, or no handler runs
Thread == {Scheduler, Main}
Exited(i) == task_pc[i] = "exited"
\* Where a signal may be handled: in the two, or in a task that is there.
Handler == Thread \cup {i \in Id : task_pc[i] # "none" /\ ~Exited(i)}

\* Where the scheduler thread and main may be.
Place == {"create", "period", "arm", "test", "wait", "pass", "start", "stop", "exits",
          "join", "joining", "close", "delete", "cancel", "kill"}

TypeOK ==
  /\ tick \in 0 .. CYCLE - 1
  /\ handling \in Thread \cup Id \cup {NoOne}
  /\ sched_sem \in 0 .. MAX_POSTS
  /\ timer_on \in BOOLEAN
  /\ sequencerCallbackAssigned \in BOOLEAN
  /\ startShutdown \in BOOLEAN
  /\ task_idx \in 0 .. NUM_TASKS
  /\ task_state \in [Slot -> {"UNUSED", "RUNNING", "SUSPENDED"}]
  /\ period_cnts \in [Slot -> Nat]
  /\ signal_sem \in [Slot -> 0 .. MAX_POSTS]
  /\ sched_mutex \in Id \cup {NoOne}
  /\ task_pc \in [Id -> {"none", "work", "suspend", "wait", "delete", "exit",
                         "exited"}]
  /\ cancelled \subseteq Id
  /\ pc \in [Thread -> Place]
  /\ slot \in [Thread -> Slot]
  /\ exits \in [Id -> 0 .. 1]
  /\ mapped \in BOOLEAN
  /\ alive \in BOOLEAN

\* osal_init and framebuffer_init are done: the scheduler thread is there and no
\* task is.
Init ==
  /\ tick = 0
  /\ handling = NoOne
  /\ sched_sem = 0
  /\ timer_on = FALSE
  /\ sequencerCallbackAssigned = FALSE
  /\ startShutdown = FALSE
  /\ task_idx = 0
  /\ task_state = [i \in Slot |-> "UNUSED"]
  /\ period_cnts = [i \in Slot |-> 0]
  /\ signal_sem = [i \in Slot |-> 0]
  /\ sched_mutex = NoOne
  /\ task_pc = [i \in Id |-> "none"]
  /\ cancelled = {}
  /\ pc = [t \in Thread |-> IF t = Scheduler THEN "test" ELSE "create"]
  /\ slot = [t \in Thread |-> 0]
  /\ exits = [i \in Id |-> 0]
  /\ mapped = TRUE
  /\ alive = TRUE

\* Thread t is not suspended by a handler.
Runs(t) == alive /\ t # handling

At(t, place) == Runs(t) /\ pc[t] = place
Goto(t, place) == pc' = [pc EXCEPT ![t] = place]

\* MUTANT: the loop runs to i <= MAX_TASKS.
Mut_NextSlot(t, again, after) ==
  /\ slot' = [slot EXCEPT ![t] = (@ + 1) % (MAX_TASKS + 1)]
  /\ Goto(t, IF slot'[t] = 0 THEN after ELSE again)

\* The next round of t's loop over the slots, or what comes after the loop.
NextSlot(t, again, after) ==
  /\ slot' = [slot EXCEPT ![t] = (@ + 1) % MAX_TASKS]
  /\ Goto(t, IF slot'[t] = 0 THEN after ELSE again)

Post(count) == IF count < MAX_POSTS THEN count + 1 ELSE count

-----------------------------------------------------------------------------
(* osal_signal_handler_dispatcher, in thread t.  The handlers are installed *)
(* without SA_RESTART: a sem_wait in t ends with EINTR, which nobody sees.  *)

Interrupt(t) ==
  /\ task_pc' = IF t \in Id /\ task_pc[t] = "wait"
                THEN [task_pc EXCEPT ![t] = "work"] ELSE task_pc
  /\ pc' = IF t = Scheduler /\ pc[t] = "wait"
           THEN [pc EXCEPT ![t] = "pass"] ELSE pc

\* A handler ends before the next tick.
Alarm(t) ==
  /\ alive /\ t \in Handler
  /\ timer_on /\ handling = NoOne
  /\ sched_sem' = Post(sched_sem)
  /\ handling' = t
  /\ Interrupt(t)
  /\ UNCHANGED <<tick, timer_on, flagVars, slotVars, sched_mutex, cancelled, exits,
                 slot>>

Increment ==
  /\ alive /\ handling # NoOne
  /\ handling' = NoOne
  /\ tick' = (tick + 1) % CYCLE
  /\ UNCHANGED <<sched_sem, timer_on, flagVars, slotVars, sched_mutex, taskVars, pc,
                 slot>>

\* SIGINT or SIGTERM, which end the process until they have a handler.
Terminate(t) ==
  /\ Runs(t) /\ t \in Handler
  /\ IF sequencerCallbackAssigned
       THEN startShutdown' = TRUE /\ Interrupt(t) /\ UNCHANGED alive
       ELSE alive' = FALSE /\ UNCHANGED <<startShutdown, task_pc, pc>>
  /\ UNCHANGED <<timerVars, sequencerCallbackAssigned, mapped, slotVars, sched_mutex,
                 cancelled, exits, slot>>

-----------------------------------------------------------------------------
(* os_sched_mutex.  Its priority ceiling, rt_max_prio, is below the         *)
(* priorities of the scheduler thread and of main, for which locking fails: *)
(* nobody looks, and they go on without it and unlock it.                   *)

Unlock(t) == sched_mutex' \in IF sched_mutex = t THEN {NoOne} ELSE {NoOne, sched_mutex}

-----------------------------------------------------------------------------
(* main creates the tasks and starts the timer.  os_tcb_mutex, which no     *)
(* other thread uses, and scheduler_started, still false, are left out.     *)

\* osal_task_create, up to pthread_create and the lock of osal_task_set_period.
\* Semaphore and thread are taken to be created.
CreateTask ==
  /\ At(Main, "create")
  /\ IF task_idx \in Id
       THEN /\ task_pc' = [task_pc EXCEPT ![task_idx] = "work"]
            /\ signal_sem' = [signal_sem EXCEPT ![task_idx] = 0]
            /\ Goto(Main, "period")
       ELSE Goto(Main, "arm") /\ UNCHANGED <<task_pc, signal_sem>>
  /\ UNCHANGED <<timerVars, flagVars, task_idx, task_state, period_cnts, sched_mutex,
                 cancelled, exits, slot>>

\* osal_task_set_period, and the rest of osal_task_create.
osal_task_set_period ==
  /\ At(Main, "period")
  /\ \E period_ms \in PERIOD_MS[task_idx] :
       period_cnts' = [period_cnts EXCEPT ![task_idx] = Counts(period_ms)]
  /\ Unlock(Main)
  /\ task_state' = [task_state EXCEPT ![task_idx] = "SUSPENDED"]
  /\ task_idx' = task_idx + 1
  /\ Goto(Main, "create")
  /\ UNCHANGED <<timerVars, flagVars, signal_sem, taskVars, slot>>

osal_start_scheduler ==
  /\ At(Main, "arm")
  /\ IF sequencerCallbackAssigned
       THEN /\ timer_on' = TRUE
            /\ Unlock(Main)
            /\ Goto(Main, "join")
            /\ UNCHANGED sequencerCallbackAssigned
       ELSE /\ sequencerCallbackAssigned' = TRUE
            /\ UNCHANGED <<timer_on, sched_mutex, pc>>
  /\ UNCHANGED <<tick, handling, sched_sem, startShutdown, mapped, alive, slotVars,
                 taskVars, slot>>

-----------------------------------------------------------------------------
(* A task.  Its work has cancellation points, as has the wait.              *)

\* The end of the work, and the lock of osal_task_suspend or osal_task_delete.
Lock(i, next) ==
  /\ Runs(i) /\ task_pc[i] = "work"
  /\ sched_mutex = NoOne
  /\ sched_mutex' = i
  /\ task_pc' = [task_pc EXCEPT ![i] = next]
  /\ UNCHANGED <<timerVars, flagVars, slotVars, cancelled, exits, pc, slot>>

\* The critical section, and the unlock.
Mark(i, from, state, next) ==
  /\ Runs(i) /\ task_pc[i] = from
  /\ task_state' = [task_state EXCEPT ![i] = state]
  /\ Unlock(i)
  /\ task_pc' = [task_pc EXCEPT ![i] = next]
  /\ UNCHANGED <<timerVars, flagVars, task_idx, period_cnts, signal_sem, cancelled,
                 exits, pc, slot>>

osal_task_suspend(i) == Lock(i, "suspend") \/ Mark(i, "suspend", "SUSPENDED", "wait")

\* Its exit function lets the task end its loop, unless the flag it sets has
\* been overwritten, as the detection and the camera task may do.
osal_task_delete(i) ==
  exits[i] > 0 /\ (Lock(i, "delete") \/ Mark(i, "delete", "UNUSED", "exit"))

osal_sem_wait(i) ==
  /\ Runs(i) /\ task_pc[i] = "wait"
  /\ signal_sem[i] > 0
  /\ signal_sem' = [signal_sem EXCEPT ![i] = @ - 1]
  /\ task_pc' = [task_pc EXCEPT ![i] = "work"]
  /\ UNCHANGED <<timerVars, flagVars, task_idx, task_state, period_cnts, sched_mutex,
                 cancelled, exits, pc, slot>>

\* pthread_exit, or a cancellation point of a cancelled task.
TaskEnds(i) ==
  /\ Runs(i)
  /\ \/ task_pc[i] = "exit"
     \/ i \in cancelled /\ task_pc[i] \in {"work", "wait"}
  /\ task_pc' = [task_pc EXCEPT ![i] = "exited"]
  /\ UNCHANGED <<timerVars, flagVars, slotVars, sched_mutex, cancelled, exits, pc, slot>>

\* The camera task copies out of a buffer that is not mapped any more: SIGSEGV.
UseUnmapped(i) ==
  /\ Runs(i) /\ task_pc[i] = "work" /\ i \in Capturing
  /\ ~mapped
  /\ alive' = FALSE
  /\ UNCHANGED <<timerVars, sequencerCallbackAssigned, startShutdown, mapped, slotVars,
                 sched_mutex, taskVars, pc, slot>>

Task(i) ==
  \/ osal_task_suspend(i) \/ osal_task_delete(i) \/ osal_sem_wait(i) \/ TaskEnds(i)
  \/ UseUnmapped(i)

-----------------------------------------------------------------------------
(* The scheduler thread, osal_signal_handler_task.                          *)

Scheduling(from) == At(Scheduler, from)

\* MUTANT: the loop never ends.
Mut_SchedTest == Scheduling("test") /\ Goto(Scheduler, "wait")

SchedTest ==
  Scheduling("test") /\ Goto(Scheduler, IF startShutdown THEN "stop" ELSE "wait")

SchedWait ==
  /\ Scheduling("wait")
  /\ sched_sem > 0
  /\ sched_sem' = sched_sem - 1
  /\ Goto(Scheduler, "pass")

\* MUTANT: only a task whose task_state says so.
Mut_Due(s) ==
  /\ task_state[s] = "RUNNING"
  /\ period_cnts[s] # 0 /\ tick % period_cnts[s] = 0

\* MUTANT: the tick is compared with the period.
Mut2_Due(s) ==
  /\ task_state[s] # "UNUSED"
  /\ tick = period_cnts[s]

Due(s) ==
  /\ task_state[s] # "UNUSED"
  /\ period_cnts[s] # 0 /\ tick % period_cnts[s] = 0

osal_task_generic_sequencer ==
  /\ Scheduling("pass")
  /\ IF Due(slot[Scheduler])
       THEN Goto(Scheduler, "start") /\ UNCHANGED slot
       ELSE NextSlot(Scheduler, "pass", "test")

\* It marks the slot after the last task, and not the task it starts.
osal_task_start ==
  /\ Scheduling("start")
  /\ signal_sem' = [signal_sem EXCEPT ![slot[Scheduler]] = Post(@)]
  /\ task_state' = [task_state EXCEPT ![task_idx] = "RUNNING"]
  /\ Unlock(Scheduler)
  /\ NextSlot(Scheduler, "pass", "test")

osal_stop_scheduler ==
  /\ Scheduling("stop")
  /\ timer_on' = FALSE
  /\ Unlock(Scheduler)
  /\ Goto(Scheduler, "exits")

\* MUTANT: a suspended task is not told.
Mut_Told(s) == task_state[s] = "RUNNING" /\ s \in Id

\* Only the tasks have an exit function.
Told(s) == task_state[s] # "UNUSED" /\ s \in Id

CallExit ==
  /\ Scheduling("exits")
  /\ LET s == slot[Scheduler] IN
       exits' = IF Told(s) THEN [exits EXCEPT ![s] = @ + 1] ELSE exits
  /\ NextSlot(Scheduler, "exits", "delete")

-----------------------------------------------------------------------------
(* osal_deinit and its osal_task_delete(i, true), in the scheduler thread   *)
(* or in main.  The last step sends SIGKILL, which ends the process.        *)

MarkUnused(t) ==
  /\ At(t, "delete")
  /\ task_state' = [task_state EXCEPT ![slot[t]] = "UNUSED"]
  /\ Unlock(t)
  /\ Goto(t, "cancel")

\* main is past the task it has waited for.
Joined(i) ==
  /\ Exited(i)
  /\ \/ pc[Main] \in {"join", "joining"} /\ slot[Main] > i
     \/ pc[Main] \in {"close", "delete", "cancel", "kill"}

\* The handle of a slot without a task is 0; with it, or with the handle of a
\* task that has been joined, the result is undefined.
Cancel(t) ==
  /\ At(t, "cancel")
  /\ LET s == slot[t] IN
       IF s \in Id /\ ~Joined(s)
         THEN cancelled' = cancelled \cup {s} /\ UNCHANGED alive
         ELSE alive' \in BOOLEAN /\ UNCHANGED cancelled
  /\ NextSlot(t, "delete", "kill")

Kill(t) == At(t, "kill") /\ alive' = FALSE /\ timer_on' = FALSE

Deinit(t) ==
  \/ /\ MarkUnused(t)
     /\ UNCHANGED <<timerVars, flagVars, task_idx, period_cnts, signal_sem, taskVars, slot>>
  \/ /\ Cancel(t)
     /\ UNCHANGED <<timerVars, sequencerCallbackAssigned, startShutdown, mapped,
                    slotVars, sched_mutex, task_pc, exits>>
  \/ /\ Kill(t)
     /\ UNCHANGED <<tick, handling, sched_sem, sequencerCallbackAssigned, startShutdown,
                    mapped, slotVars, sched_mutex, taskVars, pc, slot>>

SchedulerThread ==
  \/ SchedTest /\ UNCHANGED <<timerVars, flagVars, slotVars, sched_mutex, taskVars, slot>>
  \/ /\ SchedWait
     /\ UNCHANGED <<tick, handling, timer_on, flagVars, slotVars, sched_mutex, taskVars,
                    slot>>
  \/ /\ osal_task_generic_sequencer
     /\ UNCHANGED <<timerVars, flagVars, slotVars, sched_mutex, taskVars>>
  \/ /\ osal_task_start
     /\ UNCHANGED <<timerVars, flagVars, task_idx, period_cnts, taskVars>>
  \/ /\ osal_stop_scheduler
     /\ UNCHANGED <<tick, handling, sched_sem, flagVars, slotVars, taskVars, slot>>
  \/ /\ CallExit
     /\ UNCHANGED <<timerVars, flagVars, slotVars, sched_mutex, task_pc, cancelled>>
  \/ Deinit(Scheduler)

-----------------------------------------------------------------------------
(* main waits for the tasks in turn, and unmaps the driver's buffers.       *)

\* MUTANT: main does not wait for a task that is suspended.
Mut_osal_task_wait_all ==
  \/ /\ At(Main, "join")
     /\ IF task_state[slot[Main]] # "RUNNING"
          THEN NextSlot(Main, "join", "close")
          ELSE Goto(Main, "joining") /\ UNCHANGED slot
     /\ UNCHANGED alive
  \/ /\ At(Main, "joining")
     /\ Exited(slot[Main])
     /\ NextSlot(Main, "join", "close")
     /\ UNCHANGED alive

osal_task_wait_all ==
  \/ /\ At(Main, "join")
     /\ IF task_state[slot[Main]] = "UNUSED"
          THEN NextSlot(Main, "join", "close")
          ELSE Goto(Main, "joining") /\ UNCHANGED slot
     /\ UNCHANGED alive
  \/ /\ At(Main, "joining")
     /\ IF slot[Main] \in Id
          THEN Exited(slot[Main]) /\ UNCHANGED alive
          ELSE alive' \in BOOLEAN
     /\ NextSlot(Main, "join", "close")

framebuffer_deinit ==
  /\ At(Main, "close")
  /\ mapped' = FALSE
  /\ Goto(Main, "delete")
  /\ UNCHANGED <<timerVars, sequencerCallbackAssigned, startShutdown, alive, slotVars,
                 sched_mutex, taskVars, slot>>

MainThread ==
  \/ CreateTask \/ osal_task_set_period \/ osal_start_scheduler
  \/ /\ osal_task_wait_all
     /\ UNCHANGED <<timerVars, sequencerCallbackAssigned, startShutdown, mapped,
                    slotVars, sched_mutex, taskVars>>
  \/ framebuffer_deinit
  \/ Deinit(Main)

Next ==
  \/ SchedulerThread \/ MainThread
  \/ \E i \in Id : Task(i)
  \/ Increment
  \/ \E t \in Thread \cup Id : Alarm(t) \/ Terminate(t)

Spec == Init /\ [][Next]_vars

\* The timer runs, a handler ends, and each thread gets a share of the CPU
\* and of the mutex between the signals that interrupt it.
FairSpec ==
  /\ Spec
  /\ SF_vars(SchedulerThread) /\ SF_vars(MainThread)
  /\ \A i \in Id : SF_vars(Task(i))
  /\ WF_vars(Increment)
  /\ WF_vars(\E t \in Thread \cup Id : Alarm(t))

-----------------------------------------------------------------------------

\* Once SIGINT and SIGTERM are handled, no task is cancelled and the process
\* does not end before every task's exit function has been called, whichever
\* of the scheduler thread (osal.c:660-671) and main (main.c:97-100) is first.
ExitsBeforeTeardown ==
  sequencerCallbackAssigned /\ (cancelled # {} \/ ~alive) => \A i \in Id : exits[i] > 0

\* A shutdown that was asked for ends the process, wherever the scheduler
\* thread and the tasks were: neither a wait for the next tick (osal.c:654)
\* nor a mutex nor main's joins hold it up.
ShutdownEnds == startShutdown ~> ~alive

\* Task i begins its work again and again, and ends it, until the shutdown.
Works(i) ==
  /\ []<>(task_pc[i] = "work" \/ startShutdown \/ ~alive)
  /\ []<>(task_pc[i] = "wait" \/ startShutdown \/ ~alive)

\* Until the shutdown a task with a period of one tick goes round its loop again
\* and again: no post, no release, no wake-up and no unlock is lost for good
\* between the handler, the scheduler and osal_task_suspend.
TickTaskRuns == \A i \in Id : <>[](period_cnts[i] = 1) => Works(i)

\* The scheduler looks at a tick when its handler is done, and before the next.
Punctual == pc[Scheduler] \in {"pass", "start"} => handling = NoOne /\ sched_sem = 0

\* When the priorities make the scheduler punctual, a task of any period of at
\* least a tick goes round its loop again and again, in spite of the handler's
\* order (osal.c:633) and however long its own iterations take.
EveryTaskRuns ==
  \A i \in Id : <>[](period_cnts[i] # 0 /\ Punctual) => Works(i)

\* The task has left its loop for good.
Ended(i) == task_pc[i] \in {"exit", "exited"}

\* main unmaps the driver's buffers (main.c:97-99) only when every task has
\* left its loop: no wake-up by a signal, no overwritten flag and no slot that
\* looks unused lets it past a task that may still copy a frame.  The one
\* exception is a scheduler thread that is tearing down at the same time, and
\* has marked the tasks' slots (osal.c:280) before they have ended.
UnmapsAfterUse ==
  ~mapped /\ pc[Scheduler] \notin {"delete", "cancel", "kill"} =>
    \A i \in Id : Ended(i)
=============================================================================
