------------------------- MODULE ThreadPoolShutdown -------------------------
(***************************************************************************)
(* Every task runs once and on time; the count shutdown() waits for and    *)
(* the handles it joins.                                                   *)
(***************************************************************************)
EXTENDS ThreadPoolTasks, FiniteSetTheorems

USE DEF vars, sequenceVars, queueVars, groupVars, groupData, managerVars, trackerVars

\* A task of a queue of s is a task of s, so a place is told by its kind and index.
LEMMA OnePlaceExactlyOnce ==
    ASSUME TypeOK, OnePlace
    PROVE  ExactlyOnce
<1> SUFFICES ASSUME NEW t \in Tasks
             PROVE  Cardinality(Places(t)) = IF status[t] = "posted" THEN 1 ELSE 0
  BY DEF ExactlyOnce
<1>1. CASE status[t] # "posted"
  <2>1. Places(t) = {}
    BY <1>1, NewIsNowhere DEF Places
  <2> QED BY <1>1, <2>1, FS_EmptySet
<1>2. CASE status[t] = "posted"
  <2> DEFINE s == TaskSeq[t]
  <2>1. s \in Seqs /\ \A r \in Seqs : r # s =>
           /\ \A i \in 1..Len(immediate_queue[r]) : immediate_queue[r][i] # t
           /\ \A i \in 1..Len(delayed_queue[r]) : delayed_queue[r][i].task # t
    BY PoolAssumption DEF OnePlace, QueuedApart, QueuedApartIn
  <2>2. QueuedApartIn(s)
    BY <2>1 DEF OnePlace, QueuedApart
  <2>0. \A x : x \in Places(t) <=>
           \/ \E th \in Threads : task[th] = t /\ x = <<"held", th>>
           \/ \E r \in Seqs : \E i \in 1..Len(immediate_queue[r]) :
                 immediate_queue[r][i] = t /\ x = <<"immediate", r, i>>
           \/ \E r \in Seqs : \E i \in 1..Len(delayed_queue[r]) :
                 delayed_queue[r][i].task = t /\ x = <<"delayed", r, i>>
    BY DEF Places
  <2> HIDE DEF s
  <2>3. ASSUME NEW th \in Threads, task[th] = t
        PROVE  Places(t) = {<<"held", th>>}
    <3>1. \A u \in Threads : task[u] = t => u = th
      BY <2>3 DEF OnePlace, HeldApart
    <3>2. \A r \in Seqs : /\ \A i \in 1..Len(immediate_queue[r]) : immediate_queue[r][i] # t
                          /\ \A i \in 1..Len(delayed_queue[r]) : delayed_queue[r][i].task # t
      BY <2>3 DEF OnePlace, QueuedNotHeld
    <3> QED BY <2>0, <2>3, <3>1, <3>2, Zenon
  <2>4. ASSUME NEW i \in 1..Len(immediate_queue[s]), immediate_queue[s][i] = t
        PROVE  Places(t) = {<<"immediate", s, i>>}
    <3>1. \A th \in Threads : task[th] # t
      BY <2>1, <2>4 DEF OnePlace, QueuedNotHeld
    <3>2. \A j \in 1..Len(immediate_queue[s]) : immediate_queue[s][j] = t => j = i
      BY <2>2, <2>4 DEF QueuedApartIn
    <3>3. \A j \in 1..Len(delayed_queue[s]) : delayed_queue[s][j].task # t
      BY <2>2, <2>4 DEF QueuedApartIn
    <3>4. <<"immediate", s, i>> \in Places(t)
      BY <2>0, <2>1, <2>4, Zenon
    <3>5. ASSUME NEW x \in Places(t)
          PROVE  x = <<"immediate", s, i>>
      <4>1. PICK r \in Seqs : \E j \in 1..Len(immediate_queue[r]) :
               immediate_queue[r][j] = t /\ x = <<"immediate", r, j>>
        BY <2>0, <2>1, <3>1, <3>3, Zenon
      <4>2. r = s
        BY <2>1, <4>1, Zenon
      <4> QED BY <3>2, <4>1, <4>2, Zenon
    <3> QED BY <3>4, <3>5, Zenon
  <2>5. ASSUME NEW i \in 1..Len(delayed_queue[s]), delayed_queue[s][i].task = t
        PROVE  Places(t) = {<<"delayed", s, i>>}
    <3>1. \A th \in Threads : task[th] # t
      BY <2>1, <2>5 DEF OnePlace, QueuedNotHeld
    <3>2. \A j \in 1..Len(immediate_queue[s]) : immediate_queue[s][j] # t
      BY <2>2, <2>5 DEF QueuedApartIn
    <3>3. \A j \in 1..Len(delayed_queue[s]) : delayed_queue[s][j].task = t => j = i
      BY <2>2, <2>5 DEF QueuedApartIn
    <3>4. <<"delayed", s, i>> \in Places(t)
      BY <2>0, <2>1, <2>5, Zenon
    <3>5. ASSUME NEW x \in Places(t)
          PROVE  x = <<"delayed", s, i>>
      <4>1. PICK r \in Seqs : \E j \in 1..Len(delayed_queue[r]) :
               delayed_queue[r][j].task = t /\ x = <<"delayed", r, j>>
        BY <2>0, <2>1, <3>1, <3>2, Zenon
      <4>2. r = s
        BY <2>1, <4>1, Zenon
      <4> QED BY <3>3, <4>1, <4>2, Zenon
    <3> QED BY <3>4, <3>5, Zenon
  <2>6. Somewhere(t)
    BY <1>2 DEF OnePlace, PostedSomewhere
  <2>7. \E l : Places(t) = {l}
    BY <2>3, <2>4, <2>5, <2>6, Zenon DEF Somewhere, s
  <2> QED BY <1>2, <2>7, FS_Singleton
<1> QED BY <1>1, <1>2

-----------------------------------------------------------------------------
(* No task starts before it is due.                                        *)

\* Every accepted task is in one place until it ends, and does not start before
\* it is due.
LEMMA TasksCorrect == Spec => [](OnePlace /\ ExactlyOnce /\ DelayRespected)
<1>1. Spec => []OnePlace
  BY OnePlaceInit, OnePlaceNext, TypeCorrect, PTL DEF Spec
<1>2. Spec => []DueWherever
  BY DueInit, DueNext, <1>1, TypeCorrect, PTL DEF Spec
<1>3. TypeOK /\ OnePlace => ExactlyOnce
  BY OnePlaceExactlyOnce
<1>4. TypeOK /\ DueWherever => DelayRespected
  BY HeldTypes DEF DueWherever, DueRunning, DelayRespected, HoldsTask
<1> QED BY <1>1, <1>2, <1>3, <1>4, TypeCorrect, PTL

-----------------------------------------------------------------------------
(* The steps that change the timer, the handles or the counts.             *)

\* The labels of the steps that deal with the timer, the tracker and the handles.
ControlLabels ==
    {"exit", "after", "add", "notify_timer"} \cup (CloserLabels \ {"home"})

\* Nobody gets to such a label or leaves one, and their data stays as it is.
ControlKept ==
    /\ UNCHANGED <<heap, timer_shutdown, timer_handle, wake_at, shutdown, handles, joining,
                   shutdown_started, num_tasks_blocking_shutdown, status>>
    /\ \A th \in Threads :
          pc[th] \in ControlLabels \/ pc'[th] \in ControlLabels => pc'[th] = pc[th]
    /\ \A c \in Closers : pc'[c] = pc[c]
    /\ TimerWaits' => pc'[Timer] = pc[Timer]

ControlSteps ==
    \/ \E p \in Pushers \ {Timer}, t \in Tasks : pool_post(p, t) \/ runner_post(p, t)
    \/ \E p \in Pushers \ {Timer} : post_delayed_task_push(p) \/ AddStep(p)
    \/ \E w \in Workers :
          \/ get_work_none(w) /\ UNCHANGED <<managerVars, trackerVars, status, due>>
          \/ wrap_skips(w) \/ callback_returns(w) \/ after_run_task(w)
    \/ TimerStep /\ UNCHANGED <<trackerVars, status, due>>
    \/ \E c \in Closers : tracker_shutdown(c) \/ ShutdownStep(c) \/ tracker_spurious_wakeup(c)

\* Every other step keeps them.
LEMMA ControlChange == TypeOK /\ [Next]_vars => ControlKept \/ ControlSteps
<1> SUFFICES ASSUME TypeOK, ~ControlSteps
             PROVE  [Next]_vars => ControlKept
  OBVIOUS
<1>n. SUFFICES ASSUME [Next]_vars
      PROVE  ControlKept
  OBVIOUS
<1>1. pc \in [Threads -> WorkerLabels \cup PusherLabels \cup CloserLabels]
  BY DEF TypeOK, ThreadsTypeOK
<1>2. /\ Threads = Workers \cup Pushers \cup Closers /\ Timer \in Pushers
      /\ (Workers \cup Closers) \cap Pushers = {} /\ Workers \cap Closers = {}
  BY ThreadsAssumption, TimerAssumption DEF Threads
<1> DEFINE Data == UNCHANGED <<heap, timer_shutdown, timer_handle, wake_at, shutdown, handles,
                               joining, shutdown_started, num_tasks_blocking_shutdown, status>>
<1>3. ASSUME UNCHANGED pc, Data
      PROVE  ControlKept
  BY <1>3 DEF ControlKept, TimerWaits
<1>4. ASSUME NEW th \in Workers \cup Pushers, NEW l, Goto(th, l), Data,
             pc[th] \notin ControlLabels, l \notin ControlLabels,
             th = Timer => l \notin {"timer_wait", "timer_wait_timeout"}
      PROVE  ControlKept
  BY <1>1, <1>2, <1>4 DEF ControlKept, Goto, TimerWaits
<1>5. ASSUME NEW th \in Workers \cup Pushers, push_task_source(th) \/ notify_one(th),
             UNCHANGED <<managerVars, trackerVars, status, due>>
      PROVE  ControlKept
  <2>1. CASE push_task_source(th)
    BY <1>4, <1>5, <2>1 DEF push_task_source, ControlLabels, CloserLabels
  <2>2. CASE notify_one(th)
    <3>1. CASE Sleeping = {}
      BY <1>4, <1>5, <2>2, <3>1 DEF notify_one, ControlLabels, CloserLabels, Home
    <3>2. CASE Sleeping # {}
      <4>1. PICK w \in Sleeping : pc' = [pc EXCEPT ![th] = Home(th), ![w] = "get_work"]
        BY <2>2, <3>2 DEF notify_one
      <4>2. w \in Workers /\ pc[w] = "wait" /\ pc[th] = "notify" /\ Home(th) \in {"get_work", "home"}
        BY <2>2, <4>1 DEF notify_one, Sleeping, Home
      <4>3. Data
        BY <1>5, <2>2 DEF notify_one
      <4> QED BY <1>1, <1>2, <4>1, <4>2, <4>3 DEF ControlKept, ControlLabels, CloserLabels, TimerWaits
    <3> QED BY <3>1, <3>2
  <2> QED BY <1>5, <2>1, <2>2
<1>6. ASSUME NEW p \in Pushers \ {Timer}, PosterStep(p)
      PROVE  ControlKept
  <2>1. CASE post_task_push(p)
    BY <1>4, <2>1 DEF post_task_push, ControlLabels, CloserLabels
  <2>2. CASE post_delayed_task_deadline(p)
    BY <1>4, <2>2 DEF post_delayed_task_deadline, ControlLabels, CloserLabels
  <2> QED BY <1>5, <1>6, <2>1, <2>2 DEF PosterStep, PushStep, ControlSteps
<1>7. ASSUME NEW w \in Workers, WorkerStepInPool(w)
      PROVE  ControlKept
  <2>1. w # Timer
    BY <1>2
  <2>2. ASSUME get_work_some(w) \/ get_work_wait(w) \/ did_process_task_release(w),
               UNCHANGED <<managerVars, trackerVars, status, due>>
        PROVE  ControlKept
    BY <1>4, <2>1, <2>2
       DEF get_work_some, get_work_wait, did_process_task_release, ControlLabels, CloserLabels
  <2>3. ASSUME will_run_task(w) \/ did_process_task_check(w) \/ take_task(w),
               UNCHANGED <<managerVars, trackerVars, status, due>>
        PROVE  ControlKept
    <3>1. pc[w] \notin ControlLabels /\ \E l \in {"get_work", "take", "push", "release", "run"} : Goto(w, l)
      BY <2>3 DEF will_run_task, did_process_task_check, take_task, ControlLabels, CloserLabels
    <3>2. Data
      BY <2>3 DEF will_run_task, did_process_task_check, take_task
    <3> QED BY <1>4, <2>1, <3>1, <3>2 DEF ControlLabels, CloserLabels
  <2>4. CASE callback_starts(w)
    BY <1>4, <2>1, <2>4 DEF callback_starts, ControlLabels, CloserLabels
  <2> QED BY <1>5, <1>7, <2>2, <2>3, <2>4, Zenon DEF WorkerStepInPool, WorkerStep, ControlSteps
<1>8. ASSUME TimerStepInPool
      PROVE  ControlKept
  BY <1>2, <1>5, <1>8 DEF TimerStepInPool, PushStep, ControlSteps
<1>9. ASSUME SpuriousWakeup
      PROVE  ControlKept
  BY <1>2, <1>4, <1>9 DEF SpuriousWakeup, spurious_wakeup, timer_spurious_wakeup, TimerWaits,
                          ControlSteps, ControlLabels, CloserLabels
<1>10. ASSUME TickInPool \/ UNCHANGED vars
       PROVE  ControlKept
  BY <1>3, <1>10 DEF TickInPool, Tick
<1>11. ASSUME NEW c \in Closers, tracker_shutdown(c) \/ ShutdownStep(c)
       PROVE  FALSE
  BY <1>11 DEF ControlSteps
<1> QED BY <1>n, <1>6, <1>7, <1>8, <1>9, <1>10, <1>11 DEF Next
-----------------------------------------------------------------------------
(* The timer's sleep.                                                      *)

\* A thread that is about to notify the timer.
Notifying == {"notify_timer", "timer_notify"}

\* No step leaves the timer asleep past the first entry of its heap: whoever adds an
\* earlier one has still to notify it.
LEMMA TimerNotLateNext == TypeOK /\ TimerNotLate /\ [Next]_vars => TimerNotLate'
<1> SUFFICES ASSUME TypeOK, TimerNotLate
             PROVE  [Next]_vars => TimerNotLate'
  OBVIOUS
<1>n. SUFFICES ASSUME [Next]_vars
      PROVE  TimerNotLate'
  OBVIOUS
<1>1. /\ pc \in [Threads -> WorkerLabels \cup PusherLabels \cup CloserLabels]
      /\ heap \in Seq(DelayedEntry) /\ wake_at \in Time
  BY DEF TypeOK, ThreadsTypeOK, ManagerTypeOK
<1>2. /\ Threads = Workers \cup Pushers \cup Closers /\ Timer \in Pushers
      /\ (Workers \cup Closers) \cap Pushers = {} /\ Workers \cap Closers = {}
  BY ThreadsAssumption, TimerAssumption DEF Threads
<1>3. ASSUME UNCHANGED <<heap, timer_shutdown, wake_at>>,
             \A th \in Threads : pc[th] \in Notifying => pc'[th] = pc[th],
             TimerWaits' => pc'[Timer] = pc[Timer]
      PROVE  TimerNotLate'
  BY <1>2, <1>3 DEF TimerNotLate, TimerWaits, Notifying
<1>4. CASE ControlKept
  BY <1>3, <1>4 DEF ControlKept, ControlLabels, CloserLabels, Notifying
<1>5. ASSUME NEW th \in Threads \ {Timer}, NEW l, Goto(th, l), pc[th] \notin Notifying,
             UNCHANGED <<heap, timer_shutdown, wake_at>>
      PROVE  TimerNotLate'
  BY <1>1, <1>2, <1>3, <1>5 DEF Goto, TimerWaits
<1>6. ASSUME ~TimerWaits'
      PROVE  TimerNotLate'
  BY <1>6 DEF TimerNotLate
<1>7. ASSUME NEW p \in Pushers \ {Timer}, NEW t \in Tasks, pool_post(p, t) \/ runner_post(p, t)
      PROVE  TimerNotLate'
  <2>1. UNCHANGED <<heap, timer_shutdown, wake_at>> /\ pc[p] = "home"
    BY <1>7 DEF pool_post, runner_post, MayPost
  <2>2. UNCHANGED pc \/ Goto(p, "accepted")
    BY <1>7 DEF pool_post, runner_post, Accept
  <2> QED BY <1>2, <1>3, <1>5, <2>1, <2>2 DEF Notifying, TimerWaits
<1>8. ASSUME NEW p \in Pushers \ {Timer}, post_delayed_task_push(p)
      PROVE  TimerNotLate'
  BY <1>2, <1>5, <1>8 DEF post_delayed_task_push, Notifying
<1>9. ASSUME NEW p \in Pushers \ {Timer}, AddStep(p)
      PROVE  TimerNotLate'
  <2>1. CASE add_sequence(p)
    <3>1. pc' = [pc EXCEPT ![p] = "notify_timer"] /\ timer_shutdown' = timer_shutdown /\ pc[p] = "add"
      BY <2>1 DEF add_sequence, Goto
    <3>2. p \in Threads /\ pc'[p] = "notify_timer" /\ pc'[Timer] = pc[Timer]
      BY <1>1, <1>2, <3>1
    <3>3. \A c \in Closers : pc'[c] = pc[c]
      BY <1>1, <1>2, <3>1
    <3> QED BY <3>1, <3>2, <3>3 DEF TimerNotLate, TimerWaits
  <2>2. CASE add_sequence_notify(p)
    <3>1. ~TimerWaits'
      BY <1>1, <1>2, <2>2 DEF add_sequence_notify, NotifyTimer, TimerWaits
    <3> QED BY <1>6, <3>1
  <2> QED BY <1>9, <2>1, <2>2 DEF AddStep
<1>10. ASSUME NEW w \in Workers,
              \/ get_work_none(w) /\ UNCHANGED <<managerVars, trackerVars, status, due>>
              \/ wrap_skips(w) \/ callback_returns(w)
       PROVE  TimerNotLate'
  <2>1. /\ UNCHANGED <<heap, timer_shutdown, wake_at>> /\ pc[w] \notin Notifying
        /\ \E l : Goto(w, l)
    BY <1>10 DEF get_work_none, wrap_skips, callback_returns, Notifying
  <2> QED BY <1>2, <1>5, <2>1
<1>11. ASSUME NEW w \in Workers, after_run_task(w)
       PROVE  TimerNotLate'
  <2>1. /\ UNCHANGED <<heap, timer_shutdown, wake_at>> /\ pc'[Timer] = pc[Timer]
        /\ \A th \in Threads : pc[th] \in Notifying => pc'[th] = pc[th]
    BY <1>1, <1>2, <1>11 DEF after_run_task, Notifying, TypeOK, ThreadsTypeOK, ThreadOK, Labels, PusherLabels
  <2> QED BY <1>3, <2>1
<1>12. ASSUME TimerStep
       PROVE  TimerNotLate'
  <2>1. CASE timer_loop_break \/ timer_loop_push \/ timer_timeout
    <3>1. ~TimerWaits'
      BY <1>1, <1>2, <2>1 DEF timer_loop_break, timer_loop_push, timer_timeout, TimerWaits, Goto
    <3> QED BY <1>6, <3>1
  <2>2. CASE timer_loop_wait
    BY <1>1, <1>2, <2>2 DEF timer_loop_wait, TimerNotLate, Goto
  <2>3. CASE timer_loop_wait_timeout
    <3>1. /\ ~timer_shutdown' /\ pc'[Timer] = "timer_wait_timeout"
          /\ wake_at' = heap'[1].ready_time
      BY <1>1, <1>2, <2>3 DEF timer_loop_wait_timeout, Goto
    <3>2. wake_at' \in Int
      BY <1>n, MaxTimeAssumption, TypeNext DEF TypeOK, ManagerTypeOK, Time
    <3> QED BY <3>1, <3>2 DEF TimerNotLate
  <2> QED BY <1>12, <2>1, <2>2, <2>3 DEF TimerStep
<1>13. ASSUME NEW c \in Closers, ManagerShutdownStep(c)
       PROVE  TimerNotLate'
  <2>1. CASE manager_shutdown_signal(c)
    <3>1. pc' = [pc EXCEPT ![c] = "timer_notify"]
      BY <2>1 DEF manager_shutdown_signal, Goto
    <3>2. pc'[c] = "timer_notify" /\ c \in Threads
      BY <1>1, <1>2, <3>1
    <3> QED BY <3>2 DEF TimerNotLate
  <2>2. CASE manager_shutdown_notify(c)
    <3>1. ~TimerWaits'
      BY <1>1, <1>2, <2>2 DEF manager_shutdown_notify, NotifyTimer, TimerWaits
    <3> QED BY <1>6, <3>1
  <2>3. CASE manager_shutdown_take(c) \/ manager_shutdown_join(c)
    <3>1. /\ UNCHANGED <<heap, timer_shutdown, wake_at>> /\ pc[c] \notin Notifying
          /\ \E l : Goto(c, l)
      BY <2>3 DEF manager_shutdown_take, manager_shutdown_join, Notifying
    <3> QED BY <1>2, <1>5, <3>1
  <2> QED BY <1>13, <2>1, <2>2, <2>3 DEF ManagerShutdownStep
<1>14. ASSUME NEW c \in Closers,
              \/ tracker_shutdown(c) \/ tracker_shutdown_loop(c) \/ tracker_spurious_wakeup(c)
              \/ JoinAllStep(c) /\ UNCHANGED managerVars
       PROVE  TimerNotLate'
  <2>1. CASE join_all_notify(c) /\ UNCHANGED managerVars
    <3>1. /\ UNCHANGED <<heap, timer_shutdown, wake_at>> /\ pc'[Timer] = pc[Timer]
          /\ \A th \in Threads : pc[th] \in Notifying => pc'[th] = pc[th]
      BY <1>1, <1>2, <2>1, Zenon DEF join_all_notify, Sleeping, Notifying
    <3> QED BY <1>3, <3>1
  <2>2. CASE ~join_all_notify(c)
    <3>1. /\ UNCHANGED <<heap, timer_shutdown, wake_at>> /\ pc[c] \notin Notifying
          /\ \E l : Goto(c, l)
      BY <1>14, <2>2 DEF tracker_shutdown, tracker_shutdown_loop, tracker_spurious_wakeup,
         JoinAllStep, join_all_signal, join_all_take, join_all_join, Notifying
    <3> QED BY <1>2, <1>5, <3>1
  <2>3. ASSUME join_all_notify(c)
        PROVE  UNCHANGED managerVars
    BY <1>14, <2>3 DEF tracker_shutdown, tracker_shutdown_loop, tracker_spurious_wakeup
  <2> QED BY <2>1, <2>2, <2>3
<1>15. ASSUME NEW c \in Closers, ShutdownStep(c)
       PROVE  TimerNotLate'
  BY <1>13, <1>14, <1>15 DEF ShutdownStep
<1> QED BY <1>n, <1>4, <1>7, <1>8, <1>9, <1>10, <1>11, <1>12, <1>14, <1>15, ControlChange, Zenon DEF ControlSteps

\* The timer starts awake.
LEMMA TimerNotLateInit == Init => TimerNotLate
BY ThreadsAssumption, TimerAssumption DEF Init, GroupInit, Threads, Home, TimerNotLate, TimerWaits

\* Every task the pool accepted runs once, no earlier than it is due, and the timer
\* does not sleep past its deadline (sequence.rs take_task, delayed_task_manager.rs
\* timer_loop).
THEOREM TasksRunOnceAndOnTime == Spec => []OnceAndOnTime
<1>1. Spec => []TimerNotLate
  BY TimerNotLateInit, TimerNotLateNext, TypeCorrect, PTL DEF Spec
<1>2. ExactlyOnce /\ DelayRespected /\ TimerNotLate => OnceAndOnTime
  BY DEF OnceAndOnTime
<1> QED BY <1>1, <1>2, TasksCorrect, PTL

-----------------------------------------------------------------------------
(* The handles of the threads, and who joins them.                         *)

\* The labels of a shutdown() call that has taken the workers' handles.
TookHandles == {"join", "joined", "timer_notify", "take_timer", "join_timer", "closed"}

\* A thread of the pool whose handle is gone from the group is being joined or has
\* ended: the inductive form of QuietAfterShutdown.
HandlesKept ==
    /\ \A w \in Workers \ Attached :
          \/ w \in handles
          \/ \E c \in Closers : pc[c] = "join" /\ w \in joining[c]
          \/ pc[w] = "exit"
    /\ \A c \in Closers : pc[c] \in TookHandles => handles = {}
    /\ timer_handle \/ (\E c \in Closers : pc[c] = "join_timer") \/ pc[Timer] = "exit"
    /\ \A c \in Closers : pc[c] \in {"join_timer", "closed"} => ~timer_handle

\* join_all() and the manager's shutdown() take a handle only to join it.
LEMMA HandlesKeptNext == TypeOK /\ HandlesKept /\ [Next]_vars => HandlesKept'
<1> SUFFICES ASSUME TypeOK, HandlesKept
             PROVE  [Next]_vars => HandlesKept'
  OBVIOUS
<1>n. SUFFICES ASSUME [Next]_vars
      PROVE  HandlesKept'
  OBVIOUS
<1>1. /\ pc \in [Threads -> WorkerLabels \cup PusherLabels \cup CloserLabels]
      /\ joining \in [Closers -> SUBSET Workers] /\ timer_handle \in BOOLEAN
  BY DEF TypeOK, ThreadsTypeOK, ManagerTypeOK, GroupTypeOK
<1>2. /\ Threads = Workers \cup Pushers \cup Closers /\ Timer \in Pushers
      /\ (Workers \cup Closers) \cap Pushers = {} /\ Workers \cap Closers = {}
  BY ThreadsAssumption, TimerAssumption DEF Threads
<1>3. ASSUME UNCHANGED <<handles, joining, timer_handle>>,
             \A th \in Threads : pc[th] = "exit" => pc'[th] = "exit",
             \A c \in Closers : pc'[c] = pc[c] \/ (pc[c] \notin TookHandles /\ pc'[c] \notin TookHandles)
      PROVE  HandlesKept'
  BY <1>2, <1>3, Zenon DEF HandlesKept, TookHandles
<1>4. CASE ControlKept
  BY <1>3, <1>4 DEF ControlKept, ControlLabels
<1>5. ASSUME NEW th \in Workers \cup Pushers, NEW l, Goto(th, l), pc[th] # "exit",
             UNCHANGED <<handles, joining, timer_handle>>
      PROVE  HandlesKept'
  BY <1>1, <1>2, <1>3, <1>5 DEF Goto
<1>6. ASSUME NEW p \in Pushers \ {Timer}, NEW t \in Tasks, pool_post(p, t) \/ runner_post(p, t)
      PROVE  HandlesKept'
  <2>1. UNCHANGED <<handles, joining, timer_handle>> /\ pc[p] = "home"
    BY <1>6 DEF pool_post, runner_post, MayPost
  <2>2. UNCHANGED pc \/ Goto(p, "accepted")
    BY <1>6 DEF pool_post, runner_post, Accept
  <2> QED BY <1>3, <1>5, <2>1, <2>2
<1>7. ASSUME NEW p \in Pushers \ {Timer}, post_delayed_task_push(p) \/ AddStep(p)
      PROVE  HandlesKept'
  <2>1. CASE add_sequence_notify(p)
    <3>1. /\ UNCHANGED <<handles, joining, timer_handle>> /\ \A c \in Closers : pc'[c] = pc[c]
          /\ \A th \in Threads : pc[th] = "exit" => pc'[th] = "exit"
      BY <1>1, <1>2, <2>1, ZenonT(30) DEF add_sequence_notify, NotifyTimer, TimerWaits
    <3> QED BY <1>3, <3>1
  <2>2. CASE post_delayed_task_push(p) \/ add_sequence(p)
    BY <1>5, <2>2 DEF post_delayed_task_push, add_sequence
  <2> QED BY <1>7, <2>1, <2>2 DEF AddStep
<1>8. ASSUME NEW w \in Workers,
             \/ get_work_none(w) /\ UNCHANGED <<managerVars, trackerVars, status, due>>
             \/ wrap_skips(w) \/ callback_returns(w)
      PROVE  HandlesKept'
  <2>1. /\ UNCHANGED <<handles, joining, timer_handle>> /\ pc[w] # "exit" /\ \E l : Goto(w, l)
    BY <1>8, ZenonT(30) DEF get_work_none, wrap_skips, callback_returns
  <2> QED BY <1>5, <2>1
<1>9. ASSUME NEW w \in Workers, after_run_task(w)
      PROVE  HandlesKept'
  <2>1. /\ UNCHANGED <<handles, joining, timer_handle>>
        /\ \A th \in Threads : pc[th] = "exit" => pc'[th] = "exit"
        /\ \A c \in Closers : pc'[c] = pc[c] \/ (pc[c] = "tracker_wait" /\ pc'[c] = "tracker_check")
    BY <1>1, <1>2, <1>9 DEF after_run_task
  <2> QED BY <1>3, <2>1 DEF TookHandles
<1>10. ASSUME TimerStep
       PROVE  HandlesKept'
  <2>1. /\ UNCHANGED <<handles, joining, timer_handle>> /\ pc[Timer] # "exit" /\ \E l : Goto(Timer, l)
    BY <1>10, Zenon DEF TimerStep, timer_loop_break, timer_loop_wait, timer_loop_push,
       timer_loop_wait_timeout, timer_timeout
  <2> QED BY <1>2, <1>5, <2>1
\* The steps of a shutdown() call.
<1>11. ASSUME NEW c \in Closers, NEW l, Goto(c, l), UNCHANGED <<handles, joining, timer_handle>>,
              pc[c] \notin TookHandles, l \notin TookHandles
       PROVE  HandlesKept'
  BY <1>1, <1>2, <1>3, <1>11, TypeNext, Zenon DEF Goto, TypeOK, ThreadsTypeOK, ThreadOK, Labels, CloserLabels
<1>12. ASSUME NEW c \in Closers,
              tracker_shutdown(c) \/ tracker_shutdown_loop(c) \/ tracker_spurious_wakeup(c)
       PROVE  HandlesKept'
  <2>1. /\ UNCHANGED <<handles, joining, timer_handle>> /\ pc[c] \notin TookHandles
        /\ \E l : Goto(c, l) /\ l \notin TookHandles
    BY <1>12 DEF tracker_shutdown, tracker_shutdown_loop, tracker_spurious_wakeup, TookHandles
  <2> QED BY <1>11, <2>1
<1>13. ASSUME NEW c \in Closers, JoinAllStep(c), UNCHANGED managerVars
       PROVE  HandlesKept'
  <2>1. CASE join_all_signal(c)
    BY <1>11, <1>13, <2>1 DEF join_all_signal, TookHandles
  <2>2. CASE join_all_notify(c)
    <3>1. /\ UNCHANGED <<handles, joining, timer_handle>>
          /\ \A th \in Threads : pc[th] = "exit" => pc'[th] = "exit"
          /\ \A d \in Closers : \/ pc'[d] = pc[d]
                                \/ pc[d] = "notify_all" /\ pc'[d] = "take_handles"
      BY <1>1, <1>2, <1>13, <2>2 DEF join_all_notify, Sleeping
    <3> QED BY <1>3, <3>1 DEF TookHandles
  <2>3. CASE join_all_take(c)
    <3>1. /\ handles' = {} /\ joining' = [joining EXCEPT ![c] = handles]
          /\ pc' = [pc EXCEPT ![c] = "join"] /\ pc[c] = "take_handles"
          /\ timer_handle' = timer_handle
      BY <1>13, <2>3 DEF join_all_take, Goto
    <3>2. ASSUME NEW w \in Workers \ Attached
          PROVE  pc'[w] = "exit" \/ \E d \in Closers : pc'[d] = "join" /\ w \in joining'[d]
      <4>1. CASE w \in handles
        BY <1>1, <1>2, <3>1, <4>1
      <4>2. CASE \E d \in Closers : pc[d] = "join" /\ w \in joining[d]
        BY <1>1, <1>2, <3>1, <4>2
      <4>3. CASE pc[w] = "exit"
        BY <1>1, <1>2, <3>1, <4>3
      <4> QED BY <4>1, <4>2, <4>3 DEF HandlesKept
    <3>3. \A d \in Closers : pc'[d] \in {"join_timer", "closed"} => ~timer_handle
      BY <1>1, <1>2, <3>1 DEF HandlesKept
    <3>4. timer_handle \/ (\E d \in Closers : pc'[d] = "join_timer") \/ pc'[Timer] = "exit"
      BY <1>1, <1>2, <3>1 DEF HandlesKept
    <3> QED BY <3>1, <3>2, <3>3, <3>4 DEF HandlesKept
  <2>4. CASE join_all_join(c)
    <3>1. /\ handles' = handles /\ joining' = [joining EXCEPT ![c] = {}]
          /\ pc' = [pc EXCEPT ![c] = "joined"] /\ pc[c] = "join"
          /\ \A w \in joining[c] : pc[w] = "exit"
          /\ timer_handle' = timer_handle
      BY <1>13, <2>4 DEF join_all_join, Goto
    <3>2. ASSUME NEW w \in Workers \ Attached
          PROVE  \/ w \in handles
                 \/ \E d \in Closers : pc'[d] = "join" /\ w \in joining'[d]
                 \/ pc'[w] = "exit"
      <4>1. CASE w \in handles
        BY <4>1
      <4>2. CASE \E d \in Closers \ {c} : pc[d] = "join" /\ w \in joining[d]
        BY <1>1, <1>2, <3>1, <4>2
      <4>3. CASE pc[w] = "exit"
        BY <1>1, <1>2, <3>1, <4>3
      <4> QED BY <3>1, <4>1, <4>2, <4>3, ZenonT(30) DEF HandlesKept
    <3>3. \A d \in Closers : pc'[d] \in {"join_timer", "closed"} => ~timer_handle
      BY <1>1, <1>2, <3>1 DEF HandlesKept
    <3>4. timer_handle \/ (\E d \in Closers : pc'[d] = "join_timer") \/ pc'[Timer] = "exit"
      BY <1>1, <1>2, <3>1 DEF HandlesKept
    <3>5. handles = {}
      BY <3>1 DEF HandlesKept, TookHandles
    <3> QED BY <3>1, <3>2, <3>3, <3>4, <3>5 DEF HandlesKept
  <2> QED BY <1>13, <2>1, <2>2, <2>3, <2>4, Zenon DEF JoinAllStep
<1>14. ASSUME NEW c \in Closers, ManagerShutdownStep(c)
       PROVE  HandlesKept'
  <2>1. /\ UNCHANGED <<handles, joining>> /\ pc[c] \in TookHandles /\ pc[c] # "join"
    BY <1>14, ZenonT(30) DEF ManagerShutdownStep, manager_shutdown_signal, manager_shutdown_notify,
       manager_shutdown_take, manager_shutdown_join, TookHandles
  <2>2. /\ \A d \in Closers \ {c} : pc'[d] = pc[d]
        /\ pc'[c] \in {"timer_notify", "take_timer", "join_timer", "closed"}
        /\ \A th \in Threads : pc[th] = "exit" => pc'[th] = "exit"
    BY <1>1, <1>2, <1>14 DEF ManagerShutdownStep, manager_shutdown_signal, manager_shutdown_notify,
       manager_shutdown_take, manager_shutdown_join, Goto, NotifyTimer, TimerWaits
  <2>3. handles = {}
    BY <2>1 DEF HandlesKept
  <2>4. \A w \in Workers \ Attached :
           (\E d \in Closers : pc'[d] = "join" /\ w \in joining[d]) \/ pc'[w] = "exit"
    BY <1>2, <2>1, <2>2, <2>3, ZenonT(30) DEF HandlesKept
  <2>5. /\ timer_handle' \/ (\E d \in Closers : pc'[d] = "join_timer") \/ pc'[Timer] = "exit"
        /\ \A d \in Closers : pc'[d] \in {"join_timer", "closed"} => ~timer_handle'
    <3>1. CASE manager_shutdown_signal(c) \/ manager_shutdown_notify(c)
      <4>1. /\ timer_handle' = timer_handle /\ pc[c] \in {"joined", "timer_notify"}
            /\ pc'[c] \in {"timer_notify", "take_timer"}
        BY <1>1, <1>2, <3>1 DEF manager_shutdown_signal, manager_shutdown_notify, Goto, NotifyTimer
      <4>2. pc[c] \notin {"join_timer", "closed"} /\ pc'[c] \notin {"join_timer", "closed"}
        BY <4>1, Zenon
      <4>3. \A d \in Closers : pc'[d] \in {"join_timer", "closed"} => ~timer_handle'
        BY <2>2, <4>1, <4>2, ZenonT(30) DEF HandlesKept
      <4>4. timer_handle' \/ (\E d \in Closers : pc'[d] = "join_timer") \/ pc'[Timer] = "exit"
        BY <1>2, <2>2, <4>1, <4>2 DEF HandlesKept
      <4> QED BY <4>3, <4>4
    <3>2. CASE manager_shutdown_take(c)
      <4>1. /\ timer_handle' = FALSE /\ pc[c] = "take_timer"
            /\ pc'[c] = IF timer_handle THEN "join_timer" ELSE "closed"
        BY <1>1, <1>2, <3>2, ZenonT(30) DEF manager_shutdown_take, Goto
      <4> QED BY <1>1, <1>2, <2>2, <4>1, Zenon DEF HandlesKept
    <3>3. CASE manager_shutdown_join(c)
      <4>1. /\ timer_handle' = timer_handle /\ pc[Timer] = "exit" /\ pc[c] = "join_timer"
        BY <3>3 DEF manager_shutdown_join
      <4> QED BY <1>2, <2>2, <4>1 DEF HandlesKept
    <3> QED BY <1>14, <3>1, <3>2, <3>3 DEF ManagerShutdownStep
  <2> QED BY <2>1, <2>3, <2>4, <2>5, Zenon DEF HandlesKept
<1>15. ASSUME NEW c \in Closers, ShutdownStep(c)
       PROVE  HandlesKept'
  BY <1>12, <1>13, <1>14, <1>15 DEF ShutdownStep
<1> QED BY <1>n, <1>4, <1>6, <1>7, <1>8, <1>9, <1>10, <1>12, <1>15, ControlChange, Zenon DEF ControlSteps

\* The pool starts with a handle for each of its threads.
LEMMA HandlesKeptInit == Init => HandlesKept
BY ThreadsAssumption DEF Init, GroupInit, ManagerInit, Threads, Home, HandlesKept, TookHandles

\* Once every shutdown() call that was made has returned, the workers the pool started
\* and its timer have ended (thread_pool.rs shutdown, thread_group.rs join_all).
THEOREM ShutdownIsQuiet == Spec => []QuietAfterShutdown
<1>1. Spec => []HandlesKept
  BY HandlesKeptInit, HandlesKeptNext, TypeCorrect, PTL DEF Spec
<1>2. HandlesKept => QuietAfterShutdown
  BY DEF HandlesKept, QuietAfterShutdown, TookHandles
<1> QED BY <1>1, <1>2, PTL

-----------------------------------------------------------------------------
(* The count of TaskTracker, and that shutdown() waits for it.             *)

\* The BlockShutdown tasks the pool accepted and has not finished, and the workers
\* about to count one out.
Blocking == {t \in BlockingTasks : status[t] = "posted"}
CountingOut == {w \in Workers : pc[w] = "after"}

\* The inductive form of ShutdownWaits.
BlockersCounted ==
    /\ CountExact
    /\ BlockShutdownHonoured
    /\ IsFiniteSet(Blocking)
    /\ \A c \in Closers : pc[c] # "home" => shutdown_started

\* will_post_task and after_run_task keep the count: a step moves one task
\* into Blocking, or from there to a worker that counts it out.
LEMMA BlockersCountedNext ==
    TypeOK /\ OnePlace /\ BlockersCounted /\ [Next]_vars => BlockersCounted'
<1> SUFFICES ASSUME TypeOK, OnePlace, BlockersCounted
             PROVE  [Next]_vars => BlockersCounted'
  OBVIOUS
<1>n. SUFFICES ASSUME [Next]_vars
      PROVE  BlockersCounted'
  OBVIOUS
<1>1. /\ pc \in [Threads -> WorkerLabels \cup PusherLabels \cup CloserLabels]
      /\ status \in [Tasks -> Statuses] /\ BlockingTasks \subseteq Tasks
      /\ shutdown_started \in BOOLEAN
  BY PoolAssumption DEF TypeOK, ThreadsTypeOK, HistoryTypeOK, TrackerTypeOK, BlockingTasks
<1>2. /\ Threads = Workers \cup Pushers \cup Closers /\ Timer \in Pushers
      /\ (Workers \cup Closers) \cap Pushers = {} /\ Workers \cap Closers = {}
  BY ThreadsAssumption, TimerAssumption DEF Threads
<1>3. /\ IsFiniteSet(Blocking) /\ Cardinality(Blocking) \in Nat
      /\ IsFiniteSet(CountingOut) /\ Cardinality(CountingOut) \in Nat
      /\ num_tasks_blocking_shutdown = Cardinality(Blocking) + Cardinality(CountingOut)
  <2>1. IsFiniteSet(CountingOut)
    BY ThreadsAssumption, FS_Subset DEF CountingOut
  <2>2. IsFiniteSet(Blocking)
        /\ num_tasks_blocking_shutdown = Cardinality(Blocking) + Cardinality(CountingOut)
    BY DEF BlockersCounted, CountExact, Blocking, CountingOut
  <2> QED BY <2>1, <2>2, FS_CardinalityType
<1>4. /\ (\E c \in Closers : PastTracker(c)) => Blocking = {}
      /\ \A c \in Closers : pc[c] # "home" => shutdown_started
  BY DEF BlockersCounted, BlockShutdownHonoured, Blocking
<1>5. ASSUME IsFiniteSet(Blocking'),
             num_tasks_blocking_shutdown' = Cardinality(Blocking') + Cardinality(CountingOut'),
             (\E c \in Closers : PastTracker(c)') => Blocking' = {},
             \A c \in Closers : pc'[c] # "home" => shutdown_started'
      PROVE  BlockersCounted'
  BY <1>5, ZenonT(30) DEF BlockersCounted, CountExact, BlockShutdownHonoured, Blocking, CountingOut
\* Steps that leave both sets and the count alone.
<1>6. ASSUME Blocking' = Blocking, CountingOut' = CountingOut, UNCHANGED trackerVars,
             \A c \in Closers : /\ PastTracker(c)' => PastTracker(c)
                                /\ pc'[c] # "home" => pc[c] # "home"
      PROVE  BlockersCounted'
  BY <1>3, <1>4, <1>5, <1>6
<1>7. CASE ControlKept
  <2>1. Blocking' = Blocking /\ UNCHANGED trackerVars
    BY <1>7 DEF ControlKept, Blocking
  <2>2. CountingOut' = CountingOut
    BY <1>2, <1>7 DEF ControlKept, ControlLabels, CountingOut
  <2>3. \A c \in Closers : pc'[c] = pc[c]
    BY <1>7 DEF ControlKept
  <2> QED BY <1>6, <2>1, <2>2, <2>3 DEF PastTracker
<1>8. ASSUME NEW th \in Workers \cup Pushers, NEW l, Goto(th, l), pc[th] # "after", l # "after",
             Blocking' = Blocking, UNCHANGED trackerVars
      PROVE  BlockersCounted'
  <2>1. CountingOut' = CountingOut /\ \A c \in Closers : pc'[c] = pc[c]
    BY <1>1, <1>2, <1>8 DEF Goto, CountingOut
  <2> QED BY <1>6, <1>8, <2>1 DEF PastTracker
<1>9. ASSUME NEW p \in Pushers \ {Timer}, NEW t \in Tasks, pool_post(p, t)
      PROVE  BlockersCounted'
  <2>1. /\ t \in PoolTasks /\ status[t] = "new" /\ pc[p] = "home"
        /\ shutdown_started' = shutdown_started
        /\ num_tasks_blocking_shutdown' =
              IF ~shutdown_started /\ Behavior[t] = "BlockShutdown"
                THEN num_tasks_blocking_shutdown + 1 ELSE num_tasks_blocking_shutdown
    BY <1>9 DEF pool_post, MayPost, will_post_task_count
  <2>2. CountingOut' = CountingOut /\ \A c \in Closers : pc'[c] = pc[c]
    BY <1>1, <1>2, <1>9, <2>1, Zenon DEF pool_post, Accept, Goto, CountingOut
  <2>3. CASE Behavior[t] = "BlockShutdown" /\ ~shutdown_started
    <3>1. status' = [status EXCEPT ![t] = "posted"]
      BY <1>9, <2>3 DEF pool_post, will_post_task, Accept
    <3>2. t \in BlockingTasks /\ t \notin Blocking /\ Blocking' = Blocking \cup {t}
      BY <1>1, <2>1, <2>3, <3>1 DEF Blocking, BlockingTasks
    <3>3. IsFiniteSet(Blocking') /\ Cardinality(Blocking') = Cardinality(Blocking) + 1
      BY <1>3, <3>2, FS_AddElement
    <3>4. \A c \in Closers : pc[c] = "home"
      BY <1>4, <2>3
    <3>5. num_tasks_blocking_shutdown' = Cardinality(Blocking') + Cardinality(CountingOut')
      BY <1>3, <2>1, <2>2, <2>3, <3>3
    <3>6. \A c \in Closers : pc'[c] = "home"
      BY <2>2, <3>4
    <3>7. \A c \in Closers : ~PastTracker(c)'
      BY <3>6 DEF PastTracker
    <3> QED BY <1>5, <3>3, <3>5, <3>6, <3>7, ZenonT(30)
  <2>4. CASE ~(Behavior[t] = "BlockShutdown" /\ ~shutdown_started)
    <3>1. Blocking' = Blocking
      <4>1. CASE Behavior[t] = "BlockShutdown"
        <5>1. status' = [status EXCEPT ![t] = "rejected"]
          BY <1>9, <2>4, <4>1, Zenon DEF pool_post, will_post_task
        <5> QED BY <1>1, <2>1, <5>1 DEF Blocking
      <4>2. CASE Behavior[t] # "BlockShutdown"
        <5>1. t \notin BlockingTasks /\ \A u \in Tasks : u # t => status'[u] = status[u]
          BY <1>1, <1>9, <4>2 DEF BlockingTasks, pool_post, Accept
        <5> QED BY <1>1, <5>1 DEF Blocking
      <4> QED BY <4>1, <4>2
    <3>2. num_tasks_blocking_shutdown' = num_tasks_blocking_shutdown
      BY <2>1, <2>4
    <3> QED BY <1>6, <2>1, <2>2, <3>1, <3>2 DEF PastTracker
  <2> QED BY <2>3, <2>4
<1>10. ASSUME NEW p \in Pushers \ {Timer}, NEW t \in Tasks, runner_post(p, t)
       PROVE  BlockersCounted'
  <2>1. Blocking' = Blocking
    BY <1>1, <1>10 DEF runner_post, Accept, Blocking, BlockingTasks
  <2> QED BY <1>8, <1>10, <2>1, ZenonT(30) DEF runner_post, MayPost, Accept
<1>11. ASSUME NEW p \in Pushers \ {Timer}, post_delayed_task_push(p) \/ AddStep(p)
       PROVE  BlockersCounted'
  <2>1. Blocking' = Blocking /\ UNCHANGED trackerVars
    BY <1>11, ZenonT(30) DEF post_delayed_task_push, AddStep, Blocking
  <2>2. CASE add_sequence_notify(p)
    <3>1. CountingOut' = CountingOut /\ \A c \in Closers : pc'[c] = pc[c]
      BY <1>1, <1>2, <2>2 DEF add_sequence_notify, NotifyTimer, CountingOut
    <3> QED BY <1>6, <2>1, <3>1 DEF PastTracker
  <2>3. CASE post_delayed_task_push(p) \/ add_sequence(p)
    BY <1>8, <2>1, <2>3, ZenonT(30) DEF post_delayed_task_push, add_sequence
  <2> QED BY <1>11, <2>2, <2>3, ZenonT(30) DEF AddStep
<1>12. ASSUME NEW w \in Workers, get_work_none(w), UNCHANGED <<trackerVars, status>>
       PROVE  BlockersCounted'
  <2>1. Blocking' = Blocking
    BY <1>12 DEF Blocking
  <2> QED BY <1>8, <1>12, <2>1 DEF get_work_none
<1>13. ASSUME NEW w \in Workers, wrap_skips(w)
       PROVE  BlockersCounted'
  <2>1. task[w] \in Tasks /\ Behavior[task[w]] = "SkipOnShutdown"
    BY <1>13, HeldTypes, ZenonT(30) DEF wrap_skips, Skips, HoldsTask
  <2>2. Blocking' = Blocking
    BY <1>1, <1>13, <2>1 DEF wrap_skips, Blocking, BlockingTasks
  <2> QED BY <1>8, <1>13, <2>2 DEF wrap_skips
<1>14. ASSUME NEW w \in Workers, callback_returns(w)
       PROVE  BlockersCounted'
  <2>1. PICK t \in Tasks : t = task[w] /\ status[t] = "posted"
    BY <1>2, <1>14, HeldTypes, Zenon DEF callback_returns, HoldsTask, OnePlace, PostedSomewhere
  <2>2. status' = [status EXCEPT ![t] = "done"] /\ pc[w] = "callback" /\ UNCHANGED trackerVars
    BY <1>14, <2>1, Zenon DEF callback_returns
  <2>3. CASE t \in BlockingTasks
    <3>1. Goto(w, "after")
      BY <1>14, <2>1, <2>3, Zenon DEF callback_returns, BlockingTasks
    <3>2. t \in Blocking /\ Blocking' = Blocking \ {t}
      BY <1>1, <2>1, <2>2, <2>3, Zenon DEF Blocking
    <3>3. w \notin CountingOut /\ CountingOut' = CountingOut \cup {w}
      BY <1>1, <1>2, <2>2, <3>1, ZenonT(30) DEF CountingOut, Goto
    <3>4. IsFiniteSet(Blocking') /\ Cardinality(Blocking') = Cardinality(Blocking) - 1
      BY <1>3, <3>2, FS_RemoveElement
    <3>5. Cardinality(CountingOut') = Cardinality(CountingOut) + 1
      BY <1>3, <3>3, FS_AddElement, ZenonT(30)
    <3>6. \A c \in Closers : pc'[c] = pc[c]
      BY <1>1, <1>2, <3>1 DEF Goto
    <3>7. num_tasks_blocking_shutdown' = Cardinality(Blocking') + Cardinality(CountingOut')
      BY <1>3, <2>2, <3>4, <3>5
    <3>8. (\E c \in Closers : PastTracker(c)') => Blocking' = {}
      BY <1>4, <3>2, <3>6 DEF PastTracker
    <3> QED BY <1>4, <1>5, <2>2, <3>4, <3>6, <3>7, <3>8, ZenonT(30)
  <2>4. CASE t \notin BlockingTasks
    <3>1. Goto(w, "release")
      BY <1>14, <2>1, <2>4 DEF callback_returns, BlockingTasks
    <3>2. Blocking' = Blocking
      BY <1>1, <2>1, <2>2, <2>4 DEF Blocking
    <3> QED BY <1>8, <2>2, <3>1, <3>2, ZenonT(30)
  <2> QED BY <2>3, <2>4
<1>15. ASSUME NEW w \in Workers, after_run_task(w)
       PROVE  BlockersCounted'
  <2>1. /\ pc[w] = "after" /\ UNCHANGED <<shutdown_started, status>>
        /\ num_tasks_blocking_shutdown' = num_tasks_blocking_shutdown - 1
    BY <1>15 DEF after_run_task, after_run_task_count
  <2>2. \A c \in Closers : pc'[c] = pc[c] \/ (pc[c] = "tracker_wait" /\ pc'[c] = "tracker_check")
    BY <1>1, <1>2, <1>15, ZenonT(30) DEF after_run_task
  <2>3. \A v \in Workers : v # w => (pc'[v] = "after" <=> pc[v] = "after")
    BY <1>1, <1>2, <1>15 DEF after_run_task
  <2>4. pc'[w] # "after"
    BY <1>1, <1>2, <1>15 DEF after_run_task
  <2>5. w \in CountingOut /\ CountingOut' = CountingOut \ {w}
    BY <2>1, <2>3, <2>4 DEF CountingOut
  <2>6. Cardinality(CountingOut') = Cardinality(CountingOut) - 1
    BY <1>3, <2>5, FS_RemoveElement, ZenonT(30)
  <2>7. Blocking' = Blocking
    BY <2>1 DEF Blocking
  <2>8. \A c \in Closers : PastTracker(c)' => PastTracker(c)
    BY <2>2 DEF PastTracker
  <2>9. num_tasks_blocking_shutdown' = Cardinality(Blocking') + Cardinality(CountingOut')
    BY <1>3, <2>1, <2>6, <2>7
  <2> QED BY <1>3, <1>4, <1>5, <2>1, <2>2, <2>7, <2>8, <2>9, ZenonT(30)
<1>16. ASSUME TimerStep, UNCHANGED <<trackerVars, status>>
       PROVE  BlockersCounted'
  <2>1. pc[Timer] # "after" /\ \E l : l # "after" /\ Goto(Timer, l)
    BY <1>16, Zenon DEF TimerStep, timer_loop_break, timer_loop_wait, timer_loop_push,
       timer_loop_wait_timeout, timer_timeout
  <2>2. Blocking' = Blocking
    BY <1>16 DEF Blocking
  <2> QED BY <1>2, <1>8, <1>16, <2>1, <2>2
\* The steps of a shutdown() call.
<1>17. ASSUME num_tasks_blocking_shutdown = 0
       PROVE  Blocking = {}
  <2>1. Cardinality(Blocking) = 0
    BY <1>3, <1>17
  <2> QED BY <1>3, <2>1, FS_EmptySet
<1>18. ASSUME NEW c \in Closers, NEW l, Goto(c, l), UNCHANGED <<status, num_tasks_blocking_shutdown>>,
              shutdown_started',
              l \in {"tracker_check", "tracker_wait"} \/ num_tasks_blocking_shutdown = 0 \/ PastTracker(c)
       PROVE  BlockersCounted'
  <2>1. Blocking' = Blocking
    BY <1>18 DEF Blocking
  <2>2. CountingOut' = CountingOut
    BY <1>1, <1>2, <1>18 DEF CountingOut, Goto
  <2>3. \A d \in Closers : pc'[d] = IF d = c THEN l ELSE pc[d]
    BY <1>1, <1>2, <1>18 DEF Goto
  <2>4. (\E d \in Closers : PastTracker(d)') => Blocking = {}
    <3>1. CASE num_tasks_blocking_shutdown = 0
      BY <1>17, <3>1
    <3>2. CASE \E d \in Closers : PastTracker(d)
      BY <1>4, <3>2
    <3>3. CASE l \in {"tracker_check", "tracker_wait"} /\ ~\E d \in Closers : PastTracker(d)
      BY <2>3, <3>3 DEF PastTracker
    <3> QED BY <1>18, <3>1, <3>2, <3>3
  <2> QED BY <1>3, <1>5, <1>18, <2>1, <2>2, <2>4
<1>19. ASSUME NEW c \in Closers, tracker_shutdown(c) \/ tracker_shutdown_loop(c) \/ tracker_spurious_wakeup(c)
       PROVE  BlockersCounted'
  <2>1. CASE tracker_shutdown(c)
    BY <1>18, <2>1 DEF tracker_shutdown
  <2>2. CASE tracker_shutdown_loop(c)
    <3>1. shutdown_started
      BY <1>4, <2>2 DEF tracker_shutdown_loop
    <3>2. num_tasks_blocking_shutdown > 0 \/ num_tasks_blocking_shutdown = 0
      BY <1>3
    <3> QED BY <1>18, <2>2, <3>1, <3>2, ZenonT(30) DEF tracker_shutdown_loop
  <2>3. CASE tracker_spurious_wakeup(c)
    <3>1. shutdown_started
      BY <1>4, <2>3 DEF tracker_spurious_wakeup
    <3> QED BY <1>18, <2>3, <3>1 DEF tracker_spurious_wakeup
  <2> QED BY <1>19, <2>1, <2>2, <2>3, ZenonT(30)
<1>20. ASSUME NEW c \in Closers, JoinAllStep(c) \/ ManagerShutdownStep(c), UNCHANGED <<trackerVars, status>>
       PROVE  BlockersCounted'
  <2>1. Blocking' = Blocking
    BY <1>20 DEF Blocking
  <2>2. PastTracker(c)
    BY <1>20, Zenon DEF PastTracker, JoinAllStep, join_all_signal, join_all_notify, join_all_take,
       join_all_join, ManagerShutdownStep, manager_shutdown_signal, manager_shutdown_notify,
       manager_shutdown_take, manager_shutdown_join, CloserLabels
  <2>3. CountingOut' = CountingOut /\ \A d \in Closers : d # c => pc'[d] = pc[d]
    <3>1. CASE join_all_notify(c)
      BY <1>1, <1>2, <3>1, ZenonT(30) DEF join_all_notify, Sleeping, CountingOut
    <3>2. CASE manager_shutdown_notify(c)
      BY <1>1, <1>2, <3>2 DEF manager_shutdown_notify, NotifyTimer, CountingOut
    <3>3. ASSUME NEW l, Goto(c, l)
          PROVE  CountingOut' = CountingOut /\ \A d \in Closers : d # c => pc'[d] = pc[d]
      BY <1>1, <1>2, <3>3 DEF Goto, CountingOut
    <3> QED BY <1>20, <3>1, <3>2, <3>3, Zenon DEF JoinAllStep, join_all_signal, join_all_take, join_all_join,
          ManagerShutdownStep, manager_shutdown_signal, manager_shutdown_take, manager_shutdown_join
  <2>4. pc[c] # "home"
    BY <2>2 DEF PastTracker
  <2> QED BY <1>6, <1>20, <2>1, <2>2, <2>3, <2>4 DEF PastTracker
<1>21. ASSUME NEW c \in Closers, ShutdownStep(c)
       PROVE  BlockersCounted'
  BY <1>19, <1>20, <1>21 DEF ShutdownStep
<1> QED BY <1>n, <1>7, <1>9, <1>10, <1>11, <1>12, <1>13, <1>14, <1>15, <1>16, <1>19, <1>21, ControlChange, Zenon
        DEF ControlSteps

\* The count starts at zero, with no task posted.
LEMMA BlockersCountedInit == Init => BlockersCounted
<1> SUFFICES ASSUME Init PROVE BlockersCounted
  OBVIOUS
<1>1. Blocking = {}
  BY PoolAssumption DEF Init, Blocking, BlockingTasks
<1>2. CountingOut = {}
  BY DEF Init, GroupInit, CountingOut, Threads, Home
<1>3. Cardinality({}) = 0 /\ IsFiniteSet({})
  BY FS_EmptySet
<1>4. num_tasks_blocking_shutdown = 0 /\ \A c \in Closers : pc[c] = "home"
  BY ThreadsAssumption DEF Init, TrackerInit, GroupInit, Threads, Home
<1>5. CountExact
  <2>1. num_tasks_blocking_shutdown = Cardinality(Blocking) + Cardinality(CountingOut)
    BY <1>1, <1>2, <1>3, <1>4
  <2> QED BY <2>1 DEF CountExact, Blocking, CountingOut
<1>6. BlockShutdownHonoured
  BY <1>4 DEF BlockShutdownHonoured, PastTracker
<1> QED BY <1>1, <1>3, <1>4, <1>5, <1>6 DEF BlockersCounted

\* shutdown() waits for exactly the BlockShutdown tasks the pool accepted
\* (task_tracker.rs will_post_task, after_run_task and shutdown).
THEOREM ShutdownWaitsForBlockers == Spec => []ShutdownWaits
<1>1. Spec => []BlockersCounted
  BY BlockersCountedInit, BlockersCountedNext, TasksCorrect, TypeCorrect, PTL DEF Spec
<1>2. BlockersCounted => ShutdownWaits
  BY DEF BlockersCounted, ShutdownWaits
<1> QED BY <1>1, <1>2, PTL
=============================================================================
