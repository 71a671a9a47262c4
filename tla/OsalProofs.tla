----------------------------- MODULE OsalProofs -----------------------------
(***************************************************************************)
(* For any number of tasks, periods and slots: no task is cancelled and    *)
(* the process does not end before each task's exit function was called,   *)
(* each is called once, and the driver's buffers stay in memory until the  *)
(* last task has left its loop.                                            *)
(***************************************************************************)
EXTENDS Osal, TLAPS

AllTold == \A i \in Id : exits[i] > 0

\* The places of each of the two threads.
PlaceInv ==
  /\ pc[Scheduler] \in {"test", "wait", "pass", "start", "stop", "exits", "delete",
                        "cancel", "kill"}
  /\ pc[Main] \in {"create", "period", "arm", "join", "joining", "close", "delete",
                   "cancel", "kill"}
  /\ pc[Scheduler] \in {"test", "wait", "stop"} => slot[Scheduler] = 0
  /\ pc[Main] \in {"create", "period", "arm"} => slot[Main] = 0

\* A shutdown is heard of when every task has been created.
CreatedInv ==
  /\ pc[Main] = "period" => task_idx \in Id
  /\ pc[Main] \notin {"create", "period"} => task_idx = NUM_TASKS
  /\ sequencerCallbackAssigned => pc[Main] \notin {"create", "period"}
  /\ pc[Main] \notin {"create", "period", "arm"} => sequencerCallbackAssigned
  /\ startShutdown => sequencerCallbackAssigned
  /\ pc[Scheduler] \in {"stop", "exits", "delete", "cancel", "kill"} => startShutdown

\* The scheduler thread calls the exit functions in the order of the slots.
OrderInv ==
  /\ pc[Scheduler] \in {"test", "wait", "pass", "start", "stop"} =>
       \A i \in Id : exits[i] = 0
  /\ pc[Scheduler] = "exits" =>
       \A i \in Id : exits[i] = IF i < slot[Scheduler] THEN 1 ELSE 0

\* A slot becomes unused, a task ends, and main gets past it, only when its exit
\* function has been called.
ToldInv ==
  /\ \A i \in Id : i < task_idx /\ task_state[i] = "UNUSED" => exits[i] > 0
  /\ \A i \in Id : task_pc[i] \in {"delete", "exit", "exited"} => exits[i] > 0
  /\ pc[Main] \in {"join", "joining"} => \A i \in Id : i < slot[Main] => exits[i] > 0

\* Whoever tears down does so when every exit function has been called.
TeardownInv ==
  /\ \A t \in Thread : pc[t] \in {"close", "delete", "cancel", "kill"} => AllTold
  /\ cancelled # {} => AllTold
  /\ ~alive /\ sequencerCallbackAssigned => AllTold

TearsDown(t) == pc[t] \in {"delete", "cancel", "kill"}

\* Until the scheduler thread tears down, a slot is unused, and main gets past a
\* task, only when the task has left its loop.
EndedInv ==
  TearsDown(Scheduler) \/
    /\ \A i \in Id : i < task_idx /\ task_state[i] = "UNUSED" => Ended(i)
    /\ pc[Main] \in {"join", "joining"} => \A i \in Id : i < slot[Main] => Ended(i)
    /\ pc[Main] = "close" \/ TearsDown(Main) => \A i \in Id : Ended(i)

\* Only a main that tears down has unmapped the buffers.
MappedInv == EndedInv /\ (~mapped => TearsDown(Main))

IInv ==
  TypeOK /\ PlaceInv /\ CreatedInv /\ OrderInv /\ ToldInv /\ TeardownInv /\ MappedInv

-----------------------------------------------------------------------------

\* The two threads and the tasks have different names.
LEMMA Threads ==
  /\ Thread = {Scheduler, Main} /\ Scheduler # Main
  /\ Scheduler \notin Id /\ Main \notin Id /\ NoOne \notin Id \cup Thread
  /\ Id \subseteq Slot /\ 0 \in Slot /\ Id \subseteq Nat /\ Slot \subseteq Nat
  /\ NUM_TASKS \in Slot /\ NUM_TASKS \in Nat /\ MAX_POSTS \in Nat
  /\ \A n \in Nat : n \in Id <=> n < NUM_TASKS
BY TasksAssumption, MaxPostsAssumption
DEF Thread, Scheduler, Main, NoOne, Id, Slot

\* The slot after the last one is the first.
LEMMA Wrap ==
  ASSUME NEW s \in Slot
  PROVE  /\ (s + 1) % MAX_TASKS \in Slot
         /\ (s + 1) % MAX_TASKS = 0 => s + 1 = MAX_TASKS
         /\ (s + 1) % MAX_TASKS # 0 => (s + 1) % MAX_TASKS = s + 1
BY TasksAssumption DEF Slot

\* A semaphore's count stays within its bound.
LEMMA PostType ==
  ASSUME NEW count \in 0 .. MAX_POSTS
  PROVE  Post(count) \in 0 .. MAX_POSTS
BY MaxPostsAssumption DEF Post

\* The tick stays within its cycle.
LEMMA TickType ==
  ASSUME NEW n \in 0 .. CYCLE - 1
  PROVE  (n + 1) % CYCLE \in 0 .. CYCLE - 1
BY CycleAssumption

\* The mutex is held by a task or by no one, also after an unlock that fails.
LEMMA UnlockType ==
  ASSUME NEW t, sched_mutex \in Id \cup {NoOne}, Unlock(t)
  PROVE  sched_mutex' \in Id \cup {NoOne}
BY DEF Unlock

\* What a loop over the slots does at the end of a round.
LEMMA NextSlotEffect ==
  ASSUME TypeOK, NEW t \in Thread, NEW again \in Place, NEW after \in Place,
         NextSlot(t, again, after)
  PROVE  /\ pc' \in [Thread -> Place] /\ slot' \in [Thread -> Slot]
         /\ \A u \in Thread \ {t} : pc'[u] = pc[u] /\ slot'[u] = slot[u]
         /\ \/ slot[t] + 1 = MAX_TASKS /\ slot'[t] = 0 /\ pc'[t] = after
            \/ slot'[t] = slot[t] + 1 /\ pc'[t] = again
<1>1. slot[t] \in Slot /\ slot' = [slot EXCEPT ![t] = (slot[t] + 1) % MAX_TASKS]
  BY DEF TypeOK, NextSlot
<1>2. slot'[t] = (slot[t] + 1) % MAX_TASKS /\ slot' \in [Thread -> Slot]
  BY <1>1, Wrap DEF TypeOK
<1>3. pc' = [pc EXCEPT ![t] = IF slot'[t] = 0 THEN after ELSE again]
  BY DEF NextSlot, Goto
<1>. QED
  BY <1>1, <1>2, <1>3, Wrap DEF TypeOK

\* A task's counts are a natural number, 0 for a period below the tick.
LEMMA CountsType == \A i \in Id : \A period_ms \in PERIOD_MS[i] : Counts(period_ms) \in Nat
<1>. SUFFICES ASSUME NEW i \in Id, NEW period_ms \in PERIOD_MS[i]
              PROVE  Counts(period_ms) \in Nat
  OBVIOUS
<1>1. period_ms \in Nat /\ TIMER_TICK_MS \in Nat \ {0}
  BY PeriodAssumption
<1>. QED
  BY <1>1 DEF Counts

\* The state after osal_init satisfies the invariant.
LEMMA Initially == Init => IInv
<1>. SUFFICES ASSUME Init PROVE IInv
  OBVIOUS
<1>1. TypeOK
  <2>1. tick \in 0 .. CYCLE - 1 /\ 0 \in 0 .. MAX_POSTS /\ task_idx \in 0 .. NUM_TASKS
    BY Threads, CycleAssumption, MaxPostsAssumption DEF Init
  <2>2. pc \in [Thread -> Place] /\ slot \in [Thread -> Slot]
    BY Threads DEF Init, Place
  <2>3. signal_sem \in [Slot -> 0 .. MAX_POSTS] /\ exits \in [Id -> 0 .. 1]
    BY <2>1, Threads DEF Init
  <2>. QED
    BY <2>1, <2>2, <2>3, Threads DEF Init, TypeOK
<1>2. PlaceInv
  BY Threads DEF Init, PlaceInv
<1>3. CreatedInv /\ OrderInv
  BY Threads DEF Init, CreatedInv, OrderInv
<1>4. ToldInv /\ TeardownInv
  BY Threads DEF Init, ToldInv, TeardownInv
<1>5. MappedInv
  BY Threads DEF Init, MappedInv, EndedInv, TearsDown
<1>. QED
  BY <1>1, <1>2, <1>3, <1>4, <1>5 DEF IInv

\* A tick is handled.
LEMMA AlarmStep ==
  ASSUME IInv, NEW t \in Thread \cup Id, Alarm(t)
  PROVE  IInv'
<1>1. TypeOK'
  BY Threads, PostType DEF IInv, TypeOK, Alarm, Handler, Interrupt, flagVars,
     slotVars, Place
<1>2. PlaceInv'
  BY Threads DEF IInv, TypeOK, PlaceInv, Alarm, Handler, Interrupt, flagVars,
     slotVars
<1>3. CreatedInv'
  BY Threads DEF IInv, TypeOK, PlaceInv, CreatedInv, Alarm, Handler, Interrupt,
     flagVars, slotVars
<1>4. OrderInv'
  BY Threads DEF IInv, TypeOK, PlaceInv, OrderInv, Alarm, Handler, Interrupt,
     flagVars, slotVars
<1>5. ToldInv'
  BY Threads DEF IInv, TypeOK, PlaceInv, CreatedInv, ToldInv, TeardownInv,
     AllTold, Alarm, Handler, Interrupt, flagVars, slotVars
<1>6. TeardownInv'
  BY Threads DEF IInv, TypeOK, PlaceInv, CreatedInv, OrderInv, ToldInv,
     TeardownInv, AllTold, Alarm, Handler, Interrupt, flagVars, slotVars
<1>7. MappedInv'
  BY Threads DEF IInv, TypeOK, PlaceInv, CreatedInv, MappedInv, EndedInv,
     TearsDown, Ended, Alarm, Handler, Interrupt, flagVars, slotVars
<1>. QED  BY <1>1, <1>2, <1>3, <1>4, <1>5, <1>6, <1>7 DEF IInv

\* The handler ends.
LEMMA IncrementStep ==
  ASSUME IInv, Increment
  PROVE  IInv'
<1>1. TypeOK'
  BY Threads, TickType DEF IInv, TypeOK, Increment, flagVars, slotVars, taskVars
<1>2. PlaceInv'
  BY Threads DEF IInv, TypeOK, PlaceInv, Increment, flagVars, slotVars, taskVars
<1>3. CreatedInv'
  BY Threads DEF IInv, TypeOK, PlaceInv, CreatedInv, Increment, flagVars,
     slotVars, taskVars
<1>4. OrderInv'
  BY Threads DEF IInv, TypeOK, PlaceInv, OrderInv, Increment, flagVars, slotVars,
     taskVars
<1>5. ToldInv'
  BY Threads DEF IInv, TypeOK, PlaceInv, CreatedInv, ToldInv, TeardownInv,
     AllTold, Increment, flagVars, slotVars, taskVars
<1>6. TeardownInv'
  BY Threads DEF IInv, TypeOK, PlaceInv, CreatedInv, OrderInv, ToldInv,
     TeardownInv, AllTold, Increment, flagVars, slotVars, taskVars
<1>7. MappedInv'
  BY Threads DEF IInv, TypeOK, PlaceInv, CreatedInv, MappedInv, EndedInv,
     TearsDown, Ended, Increment, flagVars, slotVars, taskVars
<1>. QED  BY <1>1, <1>2, <1>3, <1>4, <1>5, <1>6, <1>7 DEF IInv

\* SIGINT or SIGTERM.
LEMMA TerminateStep ==
  ASSUME IInv, NEW t \in Thread \cup Id, Terminate(t)
  PROVE  IInv'
<1>1. TypeOK'
  BY Threads DEF IInv, TypeOK, Terminate, Runs, Handler, Interrupt, timerVars,
     slotVars, Place
<1>2. PlaceInv'
  BY Threads DEF IInv, TypeOK, PlaceInv, Terminate, Runs, Handler, Interrupt,
     timerVars, slotVars
<1>3. CreatedInv'
  BY Threads DEF IInv, TypeOK, PlaceInv, CreatedInv, Terminate, Runs, Handler,
     Interrupt, timerVars, slotVars
<1>4. OrderInv'
  BY Threads DEF IInv, TypeOK, PlaceInv, OrderInv, Terminate, Runs, Handler,
     Interrupt, timerVars, slotVars
<1>5. ToldInv'
  <2>1. CASE sequencerCallbackAssigned
    BY <2>1, Threads
       DEF IInv, TypeOK, PlaceInv, CreatedInv, ToldInv, TeardownInv, AllTold, Terminate,
           Runs, Interrupt, slotVars
  <2>2. CASE ~sequencerCallbackAssigned
    BY <2>2, Threads
       DEF IInv, TypeOK, PlaceInv, CreatedInv, ToldInv, TeardownInv, AllTold, Terminate,
           Runs, slotVars
  <2>. QED  BY <2>1, <2>2
<1>6. TeardownInv'
  <2>1. CASE sequencerCallbackAssigned
    BY <2>1, Threads
       DEF IInv, TypeOK, PlaceInv, CreatedInv, ToldInv, TeardownInv, AllTold, Terminate,
           Runs, Interrupt, slotVars
  <2>2. CASE ~sequencerCallbackAssigned
    BY <2>2, Threads
       DEF IInv, TypeOK, PlaceInv, CreatedInv, ToldInv, TeardownInv, AllTold, Terminate,
           Runs, slotVars
  <2>. QED  BY <2>1, <2>2
<1>7. MappedInv'
  BY Threads DEF IInv, TypeOK, PlaceInv, CreatedInv, MappedInv, EndedInv,
     TearsDown, Ended, Terminate, Runs, Handler, Interrupt, slotVars
<1>. QED  BY <1>1, <1>2, <1>3, <1>4, <1>5, <1>6, <1>7 DEF IInv

\* main creates a task.
LEMMA CreateStep ==
  ASSUME IInv, CreateTask
  PROVE  IInv'
<1>1. TypeOK'
  BY Threads, MaxPostsAssumption DEF IInv, TypeOK, CreateTask, At, Runs, Goto,
     timerVars, flagVars, Place
<1>2. PlaceInv'
  BY Threads DEF IInv, TypeOK, PlaceInv, CreateTask, At, Runs, Goto, timerVars,
     flagVars
<1>3. CreatedInv'
  BY Threads DEF IInv, TypeOK, PlaceInv, CreatedInv, CreateTask, At, Runs, Goto,
     timerVars, flagVars
<1>4. OrderInv'
  BY Threads DEF IInv, TypeOK, PlaceInv, OrderInv, CreateTask, At, Runs, Goto,
     timerVars, flagVars
<1>5. ToldInv'
  BY Threads DEF IInv, TypeOK, PlaceInv, CreatedInv, ToldInv, TeardownInv,
     AllTold, CreateTask, At, Runs, Goto, timerVars, flagVars
<1>6. TeardownInv'
  BY Threads DEF IInv, TypeOK, PlaceInv, CreatedInv, OrderInv, ToldInv,
     TeardownInv, AllTold, CreateTask, At, Runs, Goto, timerVars, flagVars
<1>7. MappedInv'
  BY Threads DEF IInv, TypeOK, PlaceInv, CreatedInv, MappedInv, EndedInv,
     TearsDown, Ended, CreateTask, At, Runs, Goto, timerVars, flagVars
<1>. QED  BY <1>1, <1>2, <1>3, <1>4, <1>5, <1>6, <1>7 DEF IInv

\* main sets its period.
LEMMA PeriodStep ==
  ASSUME IInv, osal_task_set_period
  PROVE  IInv'
<1>1. TypeOK'
  BY Threads, CountsType, UnlockType DEF IInv, TypeOK, CreatedInv, osal_task_set_period, At,
     Runs, Goto, timerVars, flagVars, taskVars, Place
<1>2. PlaceInv'
  BY Threads DEF IInv, TypeOK, PlaceInv, osal_task_set_period, At, Runs, Goto,
     timerVars, flagVars, taskVars
<1>3. CreatedInv'
  BY Threads DEF IInv, TypeOK, PlaceInv, CreatedInv, osal_task_set_period, At,
     Runs, Goto, timerVars, flagVars, taskVars
<1>4. OrderInv'
  BY Threads DEF IInv, TypeOK, PlaceInv, OrderInv, osal_task_set_period, At, Runs,
     Goto, timerVars, flagVars, taskVars
<1>5. ToldInv'
  BY Threads DEF IInv, TypeOK, PlaceInv, CreatedInv, ToldInv, TeardownInv,
     AllTold, osal_task_set_period, At, Runs, Goto, timerVars, flagVars, taskVars
<1>6. TeardownInv'
  BY Threads DEF IInv, TypeOK, PlaceInv, CreatedInv, OrderInv, ToldInv,
     TeardownInv, AllTold, osal_task_set_period, At, Runs, Goto, timerVars,
     flagVars, taskVars
<1>7. MappedInv'
  BY Threads DEF IInv, TypeOK, PlaceInv, CreatedInv, MappedInv, EndedInv,
     TearsDown, Ended, osal_task_set_period, At, Runs, Goto,
     timerVars, flagVars, taskVars
<1>. QED  BY <1>1, <1>2, <1>3, <1>4, <1>5, <1>6, <1>7 DEF IInv

\* main starts the timer.
LEMMA ArmStep ==
  ASSUME IInv, osal_start_scheduler
  PROVE  IInv'
<1>1. TypeOK'
  BY Threads, UnlockType DEF IInv, TypeOK, osal_start_scheduler, At, Runs, Goto,
     slotVars, taskVars, Place
<1>2. PlaceInv'
  BY Threads DEF IInv, TypeOK, PlaceInv, osal_start_scheduler, At, Runs, Goto,
     slotVars, taskVars
<1>3. CreatedInv'
  BY Threads DEF IInv, TypeOK, PlaceInv, CreatedInv, osal_start_scheduler, At,
     Runs, Goto, slotVars, taskVars
<1>4. OrderInv'
  BY Threads DEF IInv, TypeOK, PlaceInv, OrderInv, osal_start_scheduler, At, Runs,
     Goto, slotVars, taskVars
<1>5. ToldInv'
  BY Threads DEF IInv, TypeOK, PlaceInv, CreatedInv, ToldInv, TeardownInv,
     AllTold, osal_start_scheduler, At, Runs, Goto, slotVars, taskVars
<1>6. TeardownInv'
  BY Threads DEF IInv, TypeOK, PlaceInv, CreatedInv, OrderInv, ToldInv,
     TeardownInv, AllTold, osal_start_scheduler, At, Runs, Goto, slotVars,
     taskVars
<1>7. MappedInv'
  BY Threads DEF IInv, TypeOK, PlaceInv, CreatedInv, MappedInv, EndedInv,
     TearsDown, Ended, osal_start_scheduler, At, Runs, Goto, slotVars,
     taskVars
<1>. QED  BY <1>1, <1>2, <1>3, <1>4, <1>5, <1>6, <1>7 DEF IInv

\* A task suspends itself.
LEMMA SuspendStep ==
  ASSUME IInv, NEW i \in Id, osal_task_suspend(i)
  PROVE  IInv'
<1>1. TypeOK'
  BY Threads, UnlockType DEF IInv, TypeOK, osal_task_suspend, Lock, Mark, Runs,
     timerVars, flagVars, slotVars
<1>2. PlaceInv'
  BY Threads DEF IInv, TypeOK, PlaceInv, osal_task_suspend, Lock, Mark, Runs,
     timerVars, flagVars, slotVars
<1>3. CreatedInv'
  BY Threads DEF IInv, TypeOK, PlaceInv, CreatedInv, osal_task_suspend, Lock,
     Mark, Runs, timerVars, flagVars, slotVars
<1>4. OrderInv'
  BY Threads DEF IInv, TypeOK, PlaceInv, OrderInv, osal_task_suspend, Lock, Mark,
     Runs, timerVars, flagVars, slotVars
<1>5. ToldInv'
  BY Threads DEF IInv, TypeOK, PlaceInv, CreatedInv, ToldInv, TeardownInv,
     AllTold, osal_task_suspend, Lock, Mark, Runs, timerVars, flagVars, slotVars
<1>6. TeardownInv'
  BY Threads DEF IInv, TypeOK, PlaceInv, CreatedInv, OrderInv, ToldInv,
     TeardownInv, AllTold, osal_task_suspend, Lock, Mark, Runs, timerVars,
     flagVars, slotVars
<1>7. MappedInv'
  BY Threads DEF IInv, TypeOK, PlaceInv, CreatedInv, MappedInv, EndedInv,
     TearsDown, Ended, osal_task_suspend, Lock, Mark, Runs, timerVars, flagVars,
     slotVars
<1>. QED  BY <1>1, <1>2, <1>3, <1>4, <1>5, <1>6, <1>7 DEF IInv

\* A task deletes itself.
LEMMA DeleteStep ==
  ASSUME IInv, NEW i \in Id, osal_task_delete(i)
  PROVE  IInv'
<1>1. TypeOK'
  BY Threads, UnlockType DEF IInv, TypeOK, osal_task_delete, Lock, Mark, Runs,
     timerVars, flagVars, slotVars
<1>2. PlaceInv'
  BY Threads DEF IInv, TypeOK, PlaceInv, osal_task_delete, Lock, Mark, Runs,
     timerVars, flagVars, slotVars
<1>3. CreatedInv'
  BY Threads DEF IInv, TypeOK, PlaceInv, CreatedInv, osal_task_delete, Lock, Mark,
     Runs, timerVars, flagVars, slotVars
<1>4. OrderInv'
  BY Threads DEF IInv, TypeOK, PlaceInv, OrderInv, osal_task_delete, Lock, Mark,
     Runs, timerVars, flagVars, slotVars
<1>5. ToldInv'
  BY Threads DEF IInv, TypeOK, PlaceInv, CreatedInv, ToldInv, TeardownInv,
     AllTold, osal_task_delete, Lock, Mark, Runs, timerVars, flagVars, slotVars
<1>6. TeardownInv'
  BY Threads DEF IInv, TypeOK, PlaceInv, CreatedInv, OrderInv, ToldInv,
     TeardownInv, AllTold, osal_task_delete, Lock, Mark, Runs, timerVars,
     flagVars, slotVars
<1>7. MappedInv'
  BY Threads DEF IInv, TypeOK, PlaceInv, CreatedInv, MappedInv, EndedInv,
     TearsDown, Ended, osal_task_delete, Lock, Mark, Runs, timerVars, flagVars,
     slotVars
<1>. QED  BY <1>1, <1>2, <1>3, <1>4, <1>5, <1>6, <1>7 DEF IInv

\* A task is released.
LEMMA WaitStep ==
  ASSUME IInv, NEW i \in Id, osal_sem_wait(i)
  PROVE  IInv'
<1>1. TypeOK'
  BY Threads DEF IInv, TypeOK, osal_sem_wait, Runs, timerVars, flagVars
<1>2. PlaceInv'
  BY Threads DEF IInv, TypeOK, PlaceInv, osal_sem_wait, Runs, timerVars, flagVars
<1>3. CreatedInv'
  BY Threads DEF IInv, TypeOK, PlaceInv, CreatedInv, osal_sem_wait, Runs,
     timerVars, flagVars
<1>4. OrderInv'
  BY Threads DEF IInv, TypeOK, PlaceInv, OrderInv, osal_sem_wait, Runs, timerVars,
     flagVars
<1>5. ToldInv'
  BY Threads DEF IInv, TypeOK, PlaceInv, CreatedInv, ToldInv, TeardownInv,
     AllTold, osal_sem_wait, Runs, timerVars, flagVars
<1>6. TeardownInv'
  BY Threads DEF IInv, TypeOK, PlaceInv, CreatedInv, OrderInv, ToldInv,
     TeardownInv, AllTold, osal_sem_wait, Runs, timerVars, flagVars
<1>7. MappedInv'
  BY Threads DEF IInv, TypeOK, PlaceInv, CreatedInv, MappedInv, EndedInv,
     TearsDown, Ended, osal_sem_wait, Runs, timerVars, flagVars
<1>. QED  BY <1>1, <1>2, <1>3, <1>4, <1>5, <1>6, <1>7 DEF IInv

\* A task ends.
LEMMA EndStep ==
  ASSUME IInv, NEW i \in Id, TaskEnds(i)
  PROVE  IInv'
<1>1. TypeOK'
  BY Threads DEF IInv, TypeOK, TaskEnds, Runs, timerVars, flagVars, slotVars
<1>2. PlaceInv'
  BY Threads DEF IInv, TypeOK, PlaceInv, TaskEnds, Runs, timerVars, flagVars,
     slotVars
<1>3. CreatedInv'
  BY Threads DEF IInv, TypeOK, PlaceInv, CreatedInv, TaskEnds, Runs, timerVars,
     flagVars, slotVars
<1>4. OrderInv'
  BY Threads DEF IInv, TypeOK, PlaceInv, OrderInv, TaskEnds, Runs, timerVars,
     flagVars, slotVars
<1>5. ToldInv'
  BY Threads DEF IInv, TypeOK, PlaceInv, CreatedInv, ToldInv, TeardownInv,
     AllTold, TaskEnds, Runs, timerVars, flagVars, slotVars
<1>6. TeardownInv'
  BY Threads DEF IInv, TypeOK, PlaceInv, CreatedInv, OrderInv, ToldInv,
     TeardownInv, AllTold, TaskEnds, Runs, timerVars, flagVars, slotVars
<1>7. MappedInv'
  BY Threads DEF IInv, TypeOK, PlaceInv, CreatedInv, MappedInv, EndedInv,
     TearsDown, Ended, TaskEnds, Runs, timerVars, flagVars, slotVars
<1>. QED  BY <1>1, <1>2, <1>3, <1>4, <1>5, <1>6, <1>7 DEF IInv

\* The scheduler thread tests its loop.
LEMMA TestStep ==
  ASSUME IInv, SchedTest,
         UNCHANGED <<timerVars, flagVars, slotVars, sched_mutex, taskVars, slot>>
  PROVE  IInv'
<1>1. TypeOK'
  BY Threads DEF IInv, TypeOK, SchedTest, Scheduling, At, Runs, Goto, timerVars,
     flagVars, slotVars, taskVars, Place
<1>2. PlaceInv'
  BY Threads DEF IInv, TypeOK, PlaceInv, SchedTest, Scheduling, At, Runs, Goto,
     timerVars, flagVars, slotVars, taskVars
<1>3. CreatedInv'
  BY Threads DEF IInv, TypeOK, PlaceInv, CreatedInv, SchedTest, Scheduling, At,
     Runs, Goto, timerVars, flagVars, slotVars, taskVars
<1>4. OrderInv'
  BY Threads DEF IInv, TypeOK, PlaceInv, OrderInv, SchedTest, Scheduling, At,
     Runs, Goto, timerVars, flagVars, slotVars, taskVars
<1>5. ToldInv'
  BY Threads DEF IInv, TypeOK, PlaceInv, CreatedInv, ToldInv, TeardownInv,
     AllTold, SchedTest, Scheduling, At, Runs, Goto, timerVars, flagVars,
     slotVars, taskVars
<1>6. TeardownInv'
  BY Threads DEF IInv, TypeOK, PlaceInv, CreatedInv, OrderInv, ToldInv,
     TeardownInv, AllTold, SchedTest, Scheduling, At, Runs, Goto, timerVars,
     flagVars, slotVars, taskVars
<1>7. MappedInv'
  BY Threads DEF IInv, TypeOK, PlaceInv, CreatedInv, MappedInv, EndedInv,
     TearsDown, Ended, SchedTest, Scheduling, At, Runs, Goto, timerVars, flagVars,
     slotVars, taskVars
<1>. QED  BY <1>1, <1>2, <1>3, <1>4, <1>5, <1>6, <1>7 DEF IInv

\* It takes a tick.
LEMMA TickStep ==
  ASSUME IInv, SchedWait,
         UNCHANGED <<tick, handling, timer_on, flagVars, slotVars, sched_mutex, taskVars,
                     slot>>
  PROVE  IInv'
<1>1. TypeOK'
  BY Threads DEF IInv, TypeOK, SchedWait, Scheduling, At, Runs, Goto, flagVars,
     slotVars, taskVars, Place
<1>2. PlaceInv'
  BY Threads DEF IInv, TypeOK, PlaceInv, SchedWait, Scheduling, At, Runs, Goto,
     flagVars, slotVars, taskVars
<1>3. CreatedInv'
  BY Threads DEF IInv, TypeOK, PlaceInv, CreatedInv, SchedWait, Scheduling, At,
     Runs, Goto, flagVars, slotVars, taskVars
<1>4. OrderInv'
  BY Threads DEF IInv, TypeOK, PlaceInv, OrderInv, SchedWait, Scheduling, At,
     Runs, Goto, flagVars, slotVars, taskVars
<1>5. ToldInv'
  BY Threads DEF IInv, TypeOK, PlaceInv, CreatedInv, ToldInv, TeardownInv,
     AllTold, SchedWait, Scheduling, At, Runs, Goto, flagVars, slotVars, taskVars
<1>6. TeardownInv'
  BY Threads DEF IInv, TypeOK, PlaceInv, CreatedInv, OrderInv, ToldInv,
     TeardownInv, AllTold, SchedWait, Scheduling, At, Runs, Goto, flagVars,
     slotVars, taskVars
<1>7. MappedInv'
  BY Threads DEF IInv, TypeOK, PlaceInv, CreatedInv, MappedInv, EndedInv,
     TearsDown, Ended, SchedWait, Scheduling, At, Runs, Goto, flagVars, slotVars,
     taskVars
<1>. QED  BY <1>1, <1>2, <1>3, <1>4, <1>5, <1>6, <1>7 DEF IInv

\* It looks at a slot.
LEMMA SequenceStep ==
  ASSUME IInv, osal_task_generic_sequencer,
         UNCHANGED <<timerVars, flagVars, slotVars, sched_mutex, taskVars>>
  PROVE  IInv'
<1>1. At(Scheduler, "pass") /\ slot[Scheduler] \in Slot /\ TypeOK
  BY Threads DEF osal_task_generic_sequencer, Scheduling, IInv, TypeOK
<1>2. /\ pc' \in [Thread -> Place] /\ slot' \in [Thread -> Slot]
      /\ pc'[Main] = pc[Main] /\ slot'[Main] = slot[Main]
      /\ \/ pc'[Scheduler] \in {"start", "pass"}
         \/ pc'[Scheduler] = "test" /\ slot'[Scheduler] = 0
  <2>1. CASE Due(slot[Scheduler])
    BY <1>1, <2>1, Threads DEF osal_task_generic_sequencer, Goto, TypeOK, Place
  <2>2. CASE ~Due(slot[Scheduler])
    <3>1. NextSlot(Scheduler, "pass", "test")
      BY <2>2 DEF osal_task_generic_sequencer
    <3>. QED  BY <1>1, <3>1, Threads, NextSlotEffect DEF Place
  <2>. QED  BY <2>1, <2>2
<1>3. TypeOK'
  BY <1>1, <1>2 DEF TypeOK, timerVars, flagVars, slotVars, taskVars
<1>4. PlaceInv' /\ CreatedInv' /\ OrderInv'
  BY <1>1, <1>2, Threads DEF IInv, PlaceInv, CreatedInv, OrderInv, At, flagVars, slotVars,
     taskVars
<1>5. ToldInv' /\ TeardownInv'
  BY <1>1, <1>2, Threads DEF IInv, ToldInv, TeardownInv, AllTold, flagVars, slotVars,
     taskVars
<1>6. MappedInv'
  BY <1>1, <1>2, Threads DEF IInv, PlaceInv, MappedInv, EndedInv, TearsDown, Ended, At,
     flagVars, slotVars, taskVars
<1>. QED  BY <1>3, <1>4, <1>5, <1>6 DEF IInv

\* It releases a task.
LEMMA StartStep ==
  ASSUME IInv, osal_task_start,
         UNCHANGED <<timerVars, flagVars, task_idx, period_cnts, taskVars>>
  PROVE  IInv'
<1>1. TypeOK'
  BY Threads, Wrap, PostType, UnlockType DEF IInv, TypeOK, osal_task_start,
     NextSlot, Scheduling, At, Runs, Goto, timerVars, flagVars, taskVars, Place
<1>2. PlaceInv'
  BY Threads, Wrap DEF IInv, TypeOK, PlaceInv, osal_task_start, NextSlot,
     Scheduling, At, Runs, Goto, timerVars, flagVars, taskVars
<1>3. CreatedInv'
  BY Threads, Wrap DEF IInv, TypeOK, PlaceInv, CreatedInv, osal_task_start,
     NextSlot, Scheduling, At, Runs, Goto, timerVars, flagVars, taskVars
<1>4. OrderInv'
  BY Threads, Wrap DEF IInv, TypeOK, PlaceInv, OrderInv, osal_task_start,
     NextSlot, Scheduling, At, Runs, Goto, timerVars, flagVars, taskVars
<1>5. ToldInv'
  BY Threads, Wrap DEF IInv, TypeOK, PlaceInv, CreatedInv, ToldInv, TeardownInv,
     AllTold, osal_task_start, NextSlot, Scheduling, At, Runs, Goto, timerVars,
     flagVars, taskVars
<1>6. TeardownInv'
  BY Threads, Wrap DEF IInv, TypeOK, PlaceInv, CreatedInv, OrderInv, ToldInv,
     TeardownInv, AllTold, osal_task_start, NextSlot, Scheduling, At, Runs, Goto,
     timerVars, flagVars, taskVars
<1>7. MappedInv'
  BY Threads, Wrap DEF IInv, TypeOK, PlaceInv, CreatedInv, MappedInv, EndedInv,
     TearsDown, Ended, osal_task_start, NextSlot, Scheduling, At, Runs, Goto,
     timerVars, flagVars, taskVars
<1>. QED  BY <1>1, <1>2, <1>3, <1>4, <1>5, <1>6, <1>7 DEF IInv

\* It stops the timer.
LEMMA StopStep ==
  ASSUME IInv, osal_stop_scheduler,
         UNCHANGED <<tick, handling, sched_sem, flagVars, slotVars, taskVars, slot>>
  PROVE  IInv'
<1>1. TypeOK'
  BY Threads, UnlockType DEF IInv, TypeOK, osal_stop_scheduler, Scheduling, At,
     Runs, Goto, flagVars, slotVars, taskVars, Place
<1>2. PlaceInv'
  BY Threads DEF IInv, TypeOK, PlaceInv, osal_stop_scheduler, Scheduling, At,
     Runs, Goto, flagVars, slotVars, taskVars
<1>3. CreatedInv'
  BY Threads DEF IInv, TypeOK, PlaceInv, CreatedInv, osal_stop_scheduler,
     Scheduling, At, Runs, Goto, flagVars, slotVars, taskVars
<1>4. OrderInv'
  BY Threads DEF IInv, TypeOK, PlaceInv, OrderInv, osal_stop_scheduler,
     Scheduling, At, Runs, Goto, flagVars, slotVars, taskVars
<1>5. ToldInv'
  BY Threads DEF IInv, TypeOK, PlaceInv, CreatedInv, ToldInv, TeardownInv,
     AllTold, osal_stop_scheduler, Scheduling, At, Runs, Goto, flagVars, slotVars,
     taskVars
<1>6. TeardownInv'
  BY Threads DEF IInv, TypeOK, PlaceInv, CreatedInv, OrderInv, ToldInv,
     TeardownInv, AllTold, osal_stop_scheduler, Scheduling, At, Runs, Goto,
     flagVars, slotVars, taskVars
<1>7. MappedInv'
  BY Threads DEF IInv, TypeOK, PlaceInv, CreatedInv, MappedInv, EndedInv,
     TearsDown, Ended, osal_stop_scheduler, Scheduling, At, Runs, Goto, flagVars,
     slotVars, taskVars
<1>. QED  BY <1>1, <1>2, <1>3, <1>4, <1>5, <1>6, <1>7 DEF IInv

\* It calls an exit function.
LEMMA ExitsStep ==
  ASSUME IInv, CallExit,
         UNCHANGED <<timerVars, flagVars, slotVars, sched_mutex, task_pc, cancelled>>
  PROVE  IInv'
<1> DEFINE s == slot[Scheduler]
<1>1. pc[Scheduler] = "exits" /\ s \in Slot /\ s \in Nat /\ alive /\ TypeOK
  BY Threads DEF CallExit, Scheduling, At, Runs, IInv, TypeOK
<1>2. /\ pc' \in [Thread -> Place] /\ slot' \in [Thread -> Slot]
      /\ pc'[Main] = pc[Main] /\ slot'[Main] = slot[Main]
      /\ \/ s + 1 = MAX_TASKS /\ pc'[Scheduler] = "delete"
         \/ slot'[Scheduler] = s + 1 /\ pc'[Scheduler] = "exits"
  BY <1>1, Threads, NextSlotEffect DEF CallExit, Place
<1>3. task_idx = NUM_TASKS
  BY <1>1 DEF IInv, CreatedInv
\* A task whose slot is unused would have been told, and no task from s on is.
<1>4. ASSUME s \in Id PROVE Told(s) /\ exits[s] = 0
  <2>1. exits[s] = 0
    BY <1>1, <1>4, Threads DEF IInv, OrderInv
  <2>2. s < task_idx
    BY <1>3, <1>4, Threads
  <2>. QED  BY <1>4, <2>1, <2>2 DEF IInv, ToldInv, Told
<1>5. \A i \in Id : exits[i] = (IF i < s THEN 1 ELSE 0)
                   /\ exits'[i] = (IF i < s + 1 THEN 1 ELSE 0)
  <2>1. \A i \in Id : exits[i] = IF i < s THEN 1 ELSE 0
    BY <1>1 DEF IInv, OrderInv
  <2>2. CASE s \in Id
    <3>1. exits' = [exits EXCEPT ![s] = exits[s] + 1]
      BY <1>4, <2>2 DEF CallExit
    <3>2. exits[s] + 1 = 1
      BY <1>4, <2>2
    <3>. QED  BY <1>1, <2>1, <2>2, <3>1, <3>2, Threads DEF TypeOK
  <2>3. CASE s \notin Id
    <3>1. exits' = exits
      BY <2>3 DEF CallExit, Told
    <3>2. \A i \in Id : i < s
      BY <1>1, <2>3, Threads
    <3>. QED  BY <1>1, <2>1, <3>1, <3>2, Threads
  <2>. QED  BY <2>1, <2>2, <2>3
<1>6. exits' \in [Id -> 0 .. 1] /\ \A i \in Id : exits'[i] >= exits[i]
  <2>1. exits' = [i \in Id |-> exits'[i]]
    BY <1>1 DEF CallExit, TypeOK
  <2>. QED  BY <1>1, <1>5, <2>1, Threads
<1>7. pc'[Scheduler] = "delete" => AllTold'
  BY <1>1, <1>2, <1>5, Threads DEF AllTold, Place, Slot
<1>8. TypeOK'
  BY <1>1, <1>2, <1>6 DEF TypeOK, timerVars, flagVars, slotVars
<1>9. PlaceInv' /\ CreatedInv' /\ OrderInv'
  BY <1>1, <1>2, <1>5, Threads DEF IInv, PlaceInv, CreatedInv, OrderInv, flagVars,
     slotVars
<1>10. AllTold => AllTold'
  BY <1>1, <1>6, Threads DEF AllTold, TypeOK
<1>11. ToldInv'
  BY <1>1, <1>2, <1>6, Threads DEF IInv, ToldInv, TypeOK, slotVars
<1>12. TeardownInv'
  BY <1>1, <1>2, <1>7, <1>10, Threads DEF IInv, TeardownInv, flagVars
<1>13. MappedInv'
  BY <1>1, <1>2, Threads DEF IInv, MappedInv, EndedInv, TearsDown, Ended, flagVars, slotVars
<1>. QED  BY <1>8, <1>9, <1>11, <1>12, <1>13 DEF IInv

\* osal_deinit marks a slot.
LEMMA MarkUnusedStep ==
  ASSUME IInv, NEW t \in Thread, MarkUnused(t),
         UNCHANGED <<timerVars, flagVars, task_idx, period_cnts, signal_sem, taskVars,
                     slot>>
  PROVE  IInv'
<1>1. TypeOK'
  BY Threads, UnlockType DEF IInv, TypeOK, MarkUnused, At, Runs, Goto, timerVars,
     flagVars, taskVars, Place
<1>2. PlaceInv'
  BY Threads DEF IInv, TypeOK, PlaceInv, MarkUnused, At, Runs, Goto, timerVars,
     flagVars, taskVars
<1>3. CreatedInv'
  BY Threads DEF IInv, TypeOK, PlaceInv, CreatedInv, MarkUnused, At, Runs, Goto,
     timerVars, flagVars, taskVars
<1>4. OrderInv'
  BY Threads DEF IInv, TypeOK, PlaceInv, OrderInv, MarkUnused, At, Runs, Goto,
     timerVars, flagVars, taskVars
<1>5. ToldInv'
  BY Threads DEF IInv, TypeOK, PlaceInv, CreatedInv, ToldInv, TeardownInv,
     AllTold, MarkUnused, At, Runs, Goto, timerVars, flagVars, taskVars
<1>6. TeardownInv'
  BY Threads DEF IInv, TypeOK, PlaceInv, CreatedInv, OrderInv, ToldInv,
     TeardownInv, AllTold, MarkUnused, At, Runs, Goto, timerVars, flagVars,
     taskVars
<1>7. MappedInv'
  BY Threads DEF IInv, TypeOK, PlaceInv, CreatedInv, MappedInv, EndedInv,
     TearsDown, Ended, MarkUnused, At, Runs, Goto, timerVars, flagVars, taskVars
<1>. QED  BY <1>1, <1>2, <1>3, <1>4, <1>5, <1>6, <1>7 DEF IInv

\* It cancels a task.
LEMMA CancelStep ==
  ASSUME IInv, NEW t \in Thread, Cancel(t),
         UNCHANGED <<timerVars, sequencerCallbackAssigned, startShutdown, mapped,
                     slotVars, sched_mutex, task_pc, exits>>
  PROVE  IInv'
<1>1. TypeOK'
  BY Threads, Wrap DEF IInv, TypeOK, Cancel, NextSlot, At, Runs, Goto, timerVars,
     slotVars, Place
<1>2. PlaceInv'
  BY Threads, Wrap DEF IInv, TypeOK, PlaceInv, Cancel, NextSlot, At, Runs, Goto,
     timerVars, slotVars
<1>3. CreatedInv'
  BY Threads, Wrap DEF IInv, TypeOK, PlaceInv, CreatedInv, Cancel, NextSlot, At,
     Runs, Goto, timerVars, slotVars
<1>4. OrderInv'
  BY Threads, Wrap DEF IInv, TypeOK, PlaceInv, OrderInv, Cancel, NextSlot, At,
     Runs, Goto, timerVars, slotVars
<1>5. ToldInv'
  BY Threads, Wrap DEF IInv, TypeOK, PlaceInv, CreatedInv, ToldInv, TeardownInv,
     AllTold, Cancel, NextSlot, At, Runs, Goto, timerVars, slotVars
<1>6. TeardownInv'
  BY Threads, Wrap DEF IInv, TypeOK, PlaceInv, CreatedInv, OrderInv, ToldInv,
     TeardownInv, AllTold, Cancel, NextSlot, At, Runs, Goto, timerVars, slotVars
<1>7. MappedInv'
  BY Threads, Wrap DEF IInv, TypeOK, PlaceInv, CreatedInv, MappedInv, EndedInv,
     TearsDown, Ended, Cancel, NextSlot, At, Runs, Goto, timerVars, slotVars
<1>. QED  BY <1>1, <1>2, <1>3, <1>4, <1>5, <1>6, <1>7 DEF IInv

\* It kills the process.
LEMMA KillStep ==
  ASSUME IInv, NEW t \in Thread, Kill(t),
         UNCHANGED <<tick, handling, sched_sem, sequencerCallbackAssigned, startShutdown,
                     mapped, slotVars, sched_mutex, taskVars, pc, slot>>
  PROVE  IInv'
<1>1. TypeOK'
  BY Threads DEF IInv, TypeOK, Kill, At, Runs, slotVars, taskVars
<1>2. PlaceInv'
  BY Threads DEF IInv, TypeOK, PlaceInv, Kill, At, Runs, slotVars, taskVars
<1>3. CreatedInv'
  BY Threads DEF IInv, TypeOK, PlaceInv, CreatedInv, Kill, At, Runs, slotVars,
     taskVars
<1>4. OrderInv'
  BY Threads DEF IInv, TypeOK, PlaceInv, OrderInv, Kill, At, Runs, slotVars,
     taskVars
<1>5. ToldInv'
  BY Threads DEF IInv, TypeOK, PlaceInv, CreatedInv, ToldInv, TeardownInv,
     AllTold, Kill, At, Runs, slotVars, taskVars
<1>6. TeardownInv'
  BY Threads DEF IInv, TypeOK, PlaceInv, CreatedInv, OrderInv, ToldInv,
     TeardownInv, AllTold, Kill, At, Runs, slotVars, taskVars
<1>7. MappedInv'
  BY Threads DEF IInv, TypeOK, PlaceInv, CreatedInv, MappedInv, EndedInv,
     TearsDown, Ended, Kill, At, Runs, slotVars, taskVars
<1>. QED  BY <1>1, <1>2, <1>3, <1>4, <1>5, <1>6, <1>7 DEF IInv

\* main waits for the tasks.
LEMMA JoinStep ==
  ASSUME IInv, osal_task_wait_all,
         UNCHANGED <<timerVars, sequencerCallbackAssigned, startShutdown, mapped,
                     slotVars, sched_mutex, taskVars>>
  PROVE  IInv'
<1> DEFINE s == slot[Main]
<1>1. pc[Main] \in {"join", "joining"} /\ alive /\ s \in Slot /\ s \in Nat /\ TypeOK
  BY Threads DEF osal_task_wait_all, At, Runs, IInv, TypeOK
<1>2. task_idx = NUM_TASKS /\ sequencerCallbackAssigned
  BY <1>1 DEF IInv, CreatedInv
<1>3. /\ pc' \in [Thread -> Place] /\ slot' \in [Thread -> Slot] /\ alive' \in BOOLEAN
      /\ pc'[Scheduler] = pc[Scheduler] /\ slot'[Scheduler] = slot[Scheduler]
      /\ \/ pc'[Main] = "joining" /\ slot'[Main] = s /\ alive' = alive
         \/ /\ s \in Id => exits[s] > 0 /\ alive' = alive
            /\ \/ s + 1 = MAX_TASKS /\ pc'[Main] = "close"
               \/ slot'[Main] = s + 1 /\ pc'[Main] = "join"
  <2>1. CASE pc[Main] = "join" /\ task_state[s] # "UNUSED"
    BY <1>1, <2>1, Threads DEF osal_task_wait_all, At, Goto, TypeOK, Place
  <2>2. CASE pc[Main] = "join" /\ task_state[s] = "UNUSED"
    <3>1. s \in Id => exits[s] > 0
      BY <1>1, <1>2, <2>2, Threads DEF IInv, ToldInv
    <3>2. NextSlot(Main, "join", "close") /\ alive' = alive
      BY <2>2 DEF osal_task_wait_all, At
    <3>. QED  BY <1>1, <3>1, <3>2, Threads, NextSlotEffect DEF Place
  <2>3. CASE pc[Main] = "joining"
    <3>1. s \in Id => exits[s] > 0 /\ alive' = alive
      BY <2>3, Threads DEF osal_task_wait_all, At, Exited, IInv, ToldInv
    <3>2. NextSlot(Main, "join", "close") /\ alive' \in BOOLEAN
      BY <1>1, <2>3 DEF osal_task_wait_all, At
    <3>. QED  BY <1>1, <3>1, <3>2, Threads, NextSlotEffect DEF Place
  <2>. QED  BY <1>1, <2>1, <2>2, <2>3
<1>4. \A i \in Id : i < s => exits[i] > 0
  BY <1>1 DEF IInv, ToldInv
<1>5. s \notin Id => AllTold
  BY <1>1, <1>4, Threads DEF AllTold
<1>6. TypeOK'
  BY <1>1, <1>3 DEF TypeOK, timerVars, slotVars, taskVars
<1>7. PlaceInv' /\ CreatedInv' /\ OrderInv'
  BY <1>1, <1>2, <1>3, Threads DEF IInv, PlaceInv, CreatedInv, OrderInv, slotVars, taskVars
<1>8. ToldInv'
  <2>1. ASSUME NEW i \in Id, i < slot'[Main], pc'[Main] \in {"join", "joining"}
        PROVE  exits[i] > 0
    <3>1. i < s \/ (i = s /\ pc'[Main] = "join" /\ slot'[Main] = s + 1)
      <4>1. i \in Nat
        BY Threads
      <4>2. slot'[Main] = s \/ (pc'[Main] = "join" /\ slot'[Main] = s + 1)
        BY <1>3, <2>1
      <4>. QED  BY <1>1, <2>1, <4>1, <4>2
    <3>. QED  BY <1>3, <1>4, <3>1
  <2>. QED  BY <2>1 DEF IInv, ToldInv, slotVars, taskVars
<1>9. TeardownInv'
  <2>1. pc'[Main] = "close" => AllTold
    <3>1. ASSUME NEW i \in Id, pc'[Main] = "close" PROVE exits[i] > 0
      <4>1. i < s \/ i = s
        BY <1>1, <1>3, <3>1, Threads DEF Slot
      <4>. QED  BY <1>3, <1>4, <3>1, <4>1
    <3>. QED  BY <3>1 DEF AllTold
  <2>2. alive' = alive \/ AllTold
    BY <1>3, <1>5
  <2>. QED
    BY <1>1, <1>2, <1>3, <2>1, <2>2, Threads DEF IInv, TeardownInv, AllTold, taskVars
<1>10. MappedInv'
  <2>1. CASE TearsDown(Scheduler)
    BY <1>1, <1>3, <2>1, Threads DEF IInv, MappedInv, EndedInv, TearsDown
  <2>2. CASE ~TearsDown(Scheduler)
    <3>1. \A i \in Id : i < s => Ended(i)
      BY <1>1, <2>2 DEF IInv, MappedInv, EndedInv
    <3>2. pc'[Main] # "joining" /\ s \in Id => Ended(s)
      BY <1>1, <1>2, <2>2, Threads
         DEF IInv, MappedInv, EndedInv, osal_task_wait_all, At, Goto, Exited, Ended, TypeOK
    <3>3. \A i \in Id : i < s + 1 => i < s \/ i = s
      BY <1>1, Threads
    <3>4. pc'[Main] \in {"join", "joining"} => \A i \in Id : i < slot'[Main] => Ended(i)
      BY <1>3, <3>1, <3>2, <3>3
    <3>5. pc'[Main] = "close" => \A i \in Id : Ended(i)
      <4>1. pc'[Main] = "close" => \A i \in Id : i < s + 1
        BY <1>1, <1>3, Threads DEF Slot
      <4>. QED  BY <3>1, <3>2, <3>3, <4>1
    <3>. QED
      BY <1>1, <1>3, <2>2, <3>4, <3>5
         DEF IInv, MappedInv, EndedInv, TearsDown, Ended, slotVars, taskVars
  <2>. QED  BY <2>1, <2>2
<1>. QED  BY <1>6, <1>7, <1>8, <1>9, <1>10 DEF IInv

\* main unmaps the driver's buffers.
LEMMA CloseStep ==
  ASSUME IInv, framebuffer_deinit
  PROVE  IInv'
<1>1. pc[Main] = "close" /\ pc' = [pc EXCEPT ![Main] = "delete"] /\ mapped' = FALSE
  BY DEF framebuffer_deinit, At, Goto
<1>2. TypeOK'
  BY <1>1, Threads DEF IInv, TypeOK, framebuffer_deinit, timerVars, slotVars, taskVars, Place
<1>3. PlaceInv' /\ CreatedInv' /\ OrderInv'
  BY <1>1, Threads DEF IInv, TypeOK, PlaceInv, CreatedInv, OrderInv, framebuffer_deinit,
     slotVars, taskVars
<1>4. ToldInv' /\ TeardownInv'
  BY <1>1, Threads DEF IInv, TypeOK, ToldInv, TeardownInv, AllTold, framebuffer_deinit,
     slotVars, taskVars
<1>5. MappedInv'
  BY <1>1, Threads DEF IInv, TypeOK, MappedInv, EndedInv, TearsDown, Ended,
     framebuffer_deinit, slotVars, taskVars
<1>. QED  BY <1>2, <1>3, <1>4, <1>5 DEF IInv

\* A task faults on a buffer that main has unmapped.
LEMMA UseUnmappedStep ==
  ASSUME IInv, NEW i \in Id, UseUnmapped(i)
  PROVE  IInv'
<1>1. AllTold /\ alive' = FALSE
  BY Threads DEF UseUnmapped, IInv, MappedInv, TearsDown, TeardownInv
<1>2. TypeOK'
  BY <1>1 DEF IInv, TypeOK, UseUnmapped, timerVars, slotVars, taskVars
<1>3. PlaceInv' /\ CreatedInv' /\ OrderInv'
  BY <1>1 DEF IInv, PlaceInv, CreatedInv, OrderInv, UseUnmapped, slotVars, taskVars
<1>4. ToldInv' /\ TeardownInv'
  BY <1>1 DEF IInv, ToldInv, TeardownInv, AllTold, UseUnmapped, slotVars, taskVars
<1>5. MappedInv'
  BY DEF IInv, MappedInv, EndedInv, TearsDown, Ended, UseUnmapped, slotVars, taskVars
<1>. QED  BY <1>2, <1>3, <1>4, <1>5 DEF IInv

\* A step of Spec is one of the above, or changes nothing.
LEMMA Inductive == IInv /\ [Next]_vars => IInv'
<1>. SUFFICES ASSUME IInv, [Next]_vars PROVE IInv'
  OBVIOUS
<1>1. CASE SchedulerThread
  <2>1. CASE Deinit(Scheduler)
    BY <2>1, Threads, MarkUnusedStep, CancelStep, KillStep DEF Deinit
  <2>. QED
    BY <1>1, <2>1, TestStep, TickStep, SequenceStep, StartStep, StopStep, ExitsStep
       DEF SchedulerThread
<1>2. CASE MainThread
  <2>1. CASE Deinit(Main)
    BY <2>1, Threads, MarkUnusedStep, CancelStep, KillStep DEF Deinit
  <2>. QED
    BY <1>2, <2>1, CreateStep, PeriodStep, ArmStep, JoinStep, CloseStep DEF MainThread
<1>3. ASSUME NEW i \in Id, Task(i) PROVE IInv'
  BY <1>3, SuspendStep, DeleteStep, WaitStep, EndStep, UseUnmappedStep DEF Task
<1>4. ASSUME NEW t \in Thread \cup Id, Alarm(t) \/ Terminate(t) PROVE IInv'
  BY <1>4, AlarmStep, TerminateStep
<1>5. CASE UNCHANGED vars
  BY <1>5 DEF vars, timerVars, flagVars, slotVars, taskVars, IInv, TypeOK, PlaceInv,
     CreatedInv, OrderInv, ToldInv, TeardownInv, AllTold, MappedInv, EndedInv, TearsDown,
     Ended
<1>. QED
  BY <1>1, <1>2, <1>3, <1>4, <1>5, IncrementStep DEF Next

\* IInv holds in every state the program reaches.
THEOREM OsalInvariant == Spec => []IInv
BY Initially, Inductive, PTL DEF Spec

\* Every variable keeps its type; no exit function is called twice.
THEOREM OsalTypeCorrect == Spec => []TypeOK
<1>1. IInv => TypeOK
  BY DEF IInv
<1>. QED
  BY <1>1, OsalInvariant, PTL

\* No task is cancelled, and the process does not end, before every exit
\* function has been called, in the scheduler thread and in main alike.
THEOREM ToldBeforeTeardown == Spec => []ExitsBeforeTeardown
<1>1. IInv => ExitsBeforeTeardown
  BY DEF IInv, TeardownInv, AllTold, ExitsBeforeTeardown
<1>. QED
  BY <1>1, OsalInvariant, PTL

\* main unmaps the driver's buffers when the last task has left its loop, if the
\* scheduler thread is not tearing down at the same time.
THEOREM UnmappedAfterUse == Spec => []UnmapsAfterUse
<1>1. IInv => UnmapsAfterUse
  BY DEF IInv, MappedInv, EndedInv, TearsDown, UnmapsAfterUse
<1>. QED
  BY <1>1, OsalInvariant, PTL
=============================================================================
