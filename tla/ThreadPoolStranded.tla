------------------------- MODULE ThreadPoolStranded -------------------------
(***************************************************************************)
(* Nothing is forgotten: no task is left in a sequence nobody will look at *)
(* again, and no worker sleeps through a source.                           *)
(***************************************************************************)
EXTENDS ThreadPoolOwnership, FiniteSetTheorems

USE DEF vars, sequenceVars, queueVars, groupVars, groupData, managerVars, trackerVars

\* No thread lets go of a source it carries, and the priority queue is the same.
CarriersKept ==
    /\ priority_queue' = priority_queue
    /\ \A th \in Threads : pc[th] \in Carrying => /\ pc'[th] \in Carrying
                                                  /\ source'[th] = source[th]

\* A source changes hands only at these four steps.
LEMMA CarriersChange ==
    TypeOK /\ [Next]_vars
        => \/ CarriersKept
           \/ \E th \in Workers \cup Pushers : push_task_source(th)
           \/ \E w \in Workers : get_work_some(w) \/ will_run_task(w) \/ did_process_task_check(w)
<1> SUFFICES ASSUME TypeOK,
                    \A th \in Workers \cup Pushers : ~push_task_source(th),
                    \A w \in Workers : /\ ~get_work_some(w)
                                       /\ ~will_run_task(w)
                                       /\ ~did_process_task_check(w)
             PROVE  [Next]_vars => CarriersKept
  OBVIOUS
<1>n. SUFFICES ASSUME [Next]_vars
      PROVE  CarriersKept
  OBVIOUS
<1>1. pc \in [Threads -> WorkerLabels \cup PusherLabels \cup CloserLabels]
      /\ source \in [Threads -> Seqs \cup {NoSeq}]
  BY DEF TypeOK, ThreadsTypeOK
<1>2. Threads = Workers \cup Pushers \cup Closers /\ Timer \in Pushers
  BY TimerAssumption DEF Threads
<1>3. ASSUME UNCHANGED <<priority_queue, pc, source>>
      PROVE  CarriersKept
  BY <1>3 DEF CarriersKept
<1>4. ASSUME NEW th \in Threads, NEW l, pc[th] \notin Carrying, pc' = [pc EXCEPT ![th] = l],
             priority_queue' = priority_queue,
             \A u \in Threads : u # th => source'[u] = source[u]
      PROVE  CarriersKept
  BY <1>1, <1>4 DEF CarriersKept
<1>5. ASSUME NEW w \in Workers, NEW l \in Carrying, pc' = [pc EXCEPT ![w] = l],
             UNCHANGED <<priority_queue, source>>
      PROVE  CarriersKept
  BY <1>1, <1>5 DEF CarriersKept
<1>6. ASSUME NEW p \in Pushers \ {Timer}, NEW t \in Tasks, pool_post(p, t)
      PROVE  CarriersKept
  <2>1. CASE will_post_task(Behavior[t])
    BY <1>2, <1>4, <1>6, <2>1 DEF pool_post, MayPost, Accept, Goto, Carrying
  <2>2. CASE ~will_post_task(Behavior[t])
    BY <1>3, <1>6, <2>2 DEF pool_post
  <2> QED BY <2>1, <2>2
<1>7. ASSUME NEW p \in Pushers \ {Timer}, NEW t \in Tasks, runner_post(p, t)
      PROVE  CarriersKept
  BY <1>2, <1>4, <1>7, Zenon DEF runner_post, MayPost, Accept, Goto, Carrying
<1>8. ASSUME NEW p \in Pushers \ {Timer}, post_task_push(p) \/ post_delayed_task_push(p)
      PROVE  CarriersKept
  <2>1. \A u \in Threads : u # p => source'[u] = source[u]
    BY <1>1, <1>2, <1>8 DEF post_task_push, post_delayed_task_push, HandOver
  <2> QED BY <1>2, <1>4, <1>8, <2>1 DEF post_task_push, post_delayed_task_push, Goto, Carrying
<1>9. ASSUME NEW p \in Pushers \ {Timer}, post_delayed_task_deadline(p) \/ add_sequence(p)
      PROVE  CarriersKept
  BY <1>2, <1>4, <1>9 DEF post_delayed_task_deadline, add_sequence, Goto, Carrying
<1>10. ASSUME NEW th \in Workers \cup Pushers, notify_one(th)
       PROVE  CarriersKept
  <2>1. CASE Sleeping = {}
    BY <1>1, <1>2, <1>10, <2>1 DEF notify_one, Goto, CarriersKept, Carrying
  <2>2. CASE Sleeping # {}
    BY <1>1, <1>2, <1>10, <2>2 DEF notify_one, Sleeping, CarriersKept, Carrying
  <2> QED BY <2>1, <2>2
<1>11. ASSUME NEW p \in Pushers \ {Timer}, add_sequence_notify(p)
       PROVE  CarriersKept
  BY <1>1, <1>2, <1>11 DEF add_sequence_notify, NotifyTimer, TimerWaits, CarriersKept, Carrying
<1>12. ASSUME NEW w \in Workers, get_work_none(w) \/ get_work_wait(w) \/ spurious_wakeup(w)
       PROVE  CarriersKept
  BY <1>2, <1>4, <1>12 DEF get_work_none, get_work_wait, spurious_wakeup, Goto, Carrying
<1>13. ASSUME NEW w \in Workers, take_task(w)
       PROVE  CarriersKept
  BY <1>5, <1>13 DEF take_task, Goto, Carrying
<1>14. ASSUME NEW w \in Workers, did_process_task_release(w)
       PROVE  CarriersKept
  BY <1>5, <1>14, ZenonT(30) DEF did_process_task_release, Goto, Carrying
<1>15. ASSUME NEW w \in Workers, wrap_skips(w) \/ callback_starts(w) \/ callback_returns(w)
       PROVE  CarriersKept
  BY <1>5, <1>15 DEF wrap_skips, callback_starts, callback_returns, Goto, Carrying
<1>16. ASSUME NEW w \in Workers, after_run_task(w)
       PROVE  CarriersKept
  BY <1>1, <1>2, <1>16 DEF after_run_task, CarriersKept, Carrying
<1>17. ASSUME TimerStep \/ timer_spurious_wakeup
       PROVE  CarriersKept
  <2>1. CASE timer_loop_break \/ timer_loop_wait \/ timer_loop_wait_timeout
    BY <1>1, <1>2, <1>4, <2>1, Zenon DEF timer_loop_break, timer_loop_wait, timer_loop_wait_timeout,
       Goto, Carrying
  <2>2. CASE timer_loop_push
    BY <1>1, <1>2, <1>4, <2>2, Zenon DEF timer_loop_push, Goto, Carrying
  <2>3. CASE timer_timeout \/ timer_spurious_wakeup
    BY <1>1, <1>2, <1>4, <2>3 DEF timer_timeout, timer_spurious_wakeup, TimerWaits, Goto,
       Carrying
  <2> QED BY <1>17, <2>1, <2>2, <2>3, Zenon DEF TimerStep
<1>18. ASSUME NEW c \in Closers,
              tracker_shutdown(c) \/ tracker_shutdown_loop(c) \/ tracker_spurious_wakeup(c)
       PROVE  CarriersKept
  BY <1>2, <1>4, <1>18 DEF tracker_shutdown, tracker_shutdown_loop, tracker_spurious_wakeup,
                           Goto, Carrying
<1>19. ASSUME NEW c \in Closers, JoinAllStep(c)
       PROVE  CarriersKept
  <2>1. CASE join_all_notify(c)
    BY <1>1, <1>2, <2>1 DEF join_all_notify, Sleeping, CarriersKept, Carrying
  <2> QED BY <1>2, <1>4, <1>19, <2>1
             DEF JoinAllStep, join_all_signal, join_all_take, join_all_join, Goto, Carrying
<1>20. ASSUME NEW c \in Closers, ManagerShutdownStep(c)
       PROVE  CarriersKept
  <2>1. CASE manager_shutdown_notify(c)
    BY <1>1, <1>2, <2>1
       DEF manager_shutdown_notify, NotifyTimer, TimerWaits, CarriersKept, Carrying
  <2> QED BY <1>2, <1>4, <1>20, <2>1
             DEF ManagerShutdownStep, manager_shutdown_signal, manager_shutdown_take,
                 manager_shutdown_join, Goto, Carrying
<1>21. ASSUME NEW p \in Pushers \ {Timer}, PosterStep(p)
       PROVE  CarriersKept
  BY <1>6, <1>7, <1>8, <1>9, <1>10, <1>11, <1>21 DEF PosterStep, PushStep, AddStep
<1>22. ASSUME NEW w \in Workers, WorkerStepInPool(w)
       PROVE  CarriersKept
  BY <1>10, <1>12, <1>13, <1>14, <1>15, <1>16, <1>22 DEF WorkerStepInPool, WorkerStep
<1>23. ASSUME TimerStepInPool \/ SpuriousWakeup \/ TickInPool
       PROVE  CarriersKept
  BY <1>2, <1>3, <1>10, <1>12, <1>17, <1>18, <1>23
     DEF TimerStepInPool, PushStep, SpuriousWakeup, TickInPool
<1> QED BY <1>n, <1>3, <1>18, <1>19, <1>20, <1>21, <1>22, <1>23 DEF Next, ShutdownStep

\* A covered sequence stays covered until a worker's re-check finds nothing ready.
LEMMA CoverKept ==
    ASSUME TypeOK, Ownership, NEW s \in Seqs, Covered(s)
    PROVE  [Next]_vars =>
             \/ Covered(s)'
             \/ \E w \in Workers : /\ did_process_task_check(w) /\ source[w] = s
                                   /\ ~has_ready_tasks(s)
<1>n. SUFFICES ASSUME [Next]_vars
      PROVE  \/ Covered(s)'
             \/ \E w \in Workers : /\ did_process_task_check(w) /\ source[w] = s
                                   /\ ~has_ready_tasks(s)
  OBVIOUS
<1>1. pc \in [Threads -> WorkerLabels \cup PusherLabels \cup CloserLabels]
      /\ source \in [Threads -> Seqs \cup {NoSeq}] /\ priority_queue \in Seq(Seqs)
  BY DEF TypeOK, ThreadsTypeOK, GroupTypeOK
<1>2. Workers \subseteq Threads /\ Pushers \subseteq Threads
  BY DEF Threads
<1>3. CASE CarriersKept
  BY <1>3 DEF CarriersKept, Covered
<1>4. ASSUME NEW th \in Workers \cup Pushers, push_task_source(th)
      PROVE  Covered(s)'
  <2>1. pc[th] = "push" /\ source[th] \in Seqs
    BY <1>2, <1>4 DEF push_task_source, TypeOK, ThreadsTypeOK, ThreadOK, HoldsSource
  <2>2. Len(priority_queue') = Len(priority_queue) + 1 /\ Len(priority_queue) \in Nat
        /\ (\A i \in 1..Len(priority_queue) : priority_queue'[i] = priority_queue[i])
        /\ priority_queue'[Len(priority_queue) + 1] = source[th]
    BY <1>1, <1>4, <2>1, AppendLemma, SeqLemma, SMTT(30) DEF push_task_source
  <2>3. \A u \in Threads : u # th => pc'[u] = pc[u] /\ source'[u] = source[u]
    BY <1>1, <1>4 DEF push_task_source, Goto
  <2> QED BY <2>2, <2>3, SMTT(30) DEF Covered
<1>5. ASSUME NEW w \in Workers, get_work_some(w)
      PROVE  Covered(s)'
  <2>1. PICK i \in 1..Len(priority_queue) :
           /\ source' = [source EXCEPT ![w] = priority_queue[i]]
           /\ priority_queue' = WithoutEntry(priority_queue, i)
    BY <1>5, Zenon DEF get_work_some
  <2>2. pc[w] = "get_work" /\ pc' = [pc EXCEPT ![w] = "claim"]
    BY <1>5 DEF get_work_some, Goto
  <2>3. \A j \in 1..Len(priority_queue) : j # i =>
           \E l \in 1..Len(priority_queue') : priority_queue'[l] = priority_queue[j]
    BY <1>1, <2>1, WithoutEntryLemma
  <2>4. pc'[w] \in Carrying /\ source'[w] = priority_queue[i] /\ pc[w] \notin Carrying
    BY <1>1, <1>2, <2>1, <2>2 DEF Carrying
  <2>5. \A u \in Threads : u # w => pc'[u] = pc[u] /\ source'[u] = source[u]
    BY <1>1, <2>1, <2>2
  <2> QED BY <1>2, <2>3, <2>4, <2>5 DEF Covered
<1>6. ASSUME NEW w \in Workers, will_run_task(w)
      PROVE  Covered(s)'
  <2>1. CASE ~has_worker[source[w]]
    <3>1. CarriersKept
      BY <1>1, <1>2, <1>6, <2>1 DEF will_run_task, Goto, CarriersKept, Carrying
    <3> QED BY <1>3, <3>1 DEF CarriersKept, Covered
  <2>2. CASE has_worker[source[w]]
    <3>1. pc[w] = "claim" /\ source[w] \in Seqs
      BY <1>2, <1>6 DEF will_run_task, TypeOK, ThreadsTypeOK, ThreadOK, HoldsSource
    <3>2. PICK v \in Workers : Owns(v) /\ source[v] = source[w]
      BY <2>2, <3>1 DEF Ownership
    <3>3. v # w /\ pc[v] \in Carrying
      BY <3>1, <3>2 DEF Owns, Carrying
    <3>4. \A u \in Threads : u # w => pc'[u] = pc[u] /\ source'[u] = source[u]
      BY <1>1, <1>6, <2>2 DEF will_run_task, Goto
    <3>5. priority_queue' = priority_queue
      BY <1>6 DEF will_run_task
    <3> QED BY <1>2, <3>2, <3>3, <3>4, <3>5 DEF Covered
  <2> QED BY <2>1, <2>2
<1>7. ASSUME NEW w \in Workers, did_process_task_check(w), ~(source[w] = s /\ ~has_ready_tasks(s))
      PROVE  Covered(s)'
  <2>1. CASE has_ready_tasks(source[w])
    <3>1. CarriersKept
      BY <1>1, <1>2, <1>7, <2>1 DEF did_process_task_check, Goto, CarriersKept, Carrying
    <3> QED BY <1>3, <3>1 DEF CarriersKept, Covered
  <2>2. CASE ~has_ready_tasks(source[w])
    <3>1. source[w] # s
      BY <1>7, <2>2
    <3>2. \A u \in Threads : u # w => pc'[u] = pc[u] /\ source'[u] = source[u]
      BY <1>1, <1>7, <2>2 DEF did_process_task_check, Goto
    <3>3. priority_queue' = priority_queue
      BY <1>7 DEF did_process_task_check
    <3> QED BY <3>1, <3>2, <3>3 DEF Covered
  <2> QED BY <2>1, <2>2
<1> QED BY <1>n, <1>3, <1>4, <1>5, <1>6, <1>7, CarriersChange


\* The timer's entries, and those on their way to it, are the same.
SchedulesKept ==
    /\ heap' = heap
    /\ \A p \in Pushers : pc[p] = "add" => /\ pc'[p] = "add"
                                           /\ source'[p] = source[p]
                                           /\ ready_time'[p] = ready_time[p]

\* The timer's entries change at add_sequence and when timer_loop pops one.
LEMMA SchedulesChange ==
    TypeOK /\ [Next]_vars
        => SchedulesKept \/ (\E p \in Pushers \ {Timer} : add_sequence(p)) \/ timer_loop_push
<1> SUFFICES ASSUME TypeOK, ~timer_loop_push, \A p \in Pushers \ {Timer} : ~add_sequence(p)
             PROVE  [Next]_vars => SchedulesKept
  OBVIOUS
<1>n. SUFFICES ASSUME [Next]_vars
      PROVE  SchedulesKept
  OBVIOUS
<1>1. pc \in [Threads -> WorkerLabels \cup PusherLabels \cup CloserLabels]
      /\ source \in [Threads -> Seqs \cup {NoSeq}] /\ ready_time \in [Pushers -> Time]
  BY DEF TypeOK, ThreadsTypeOK, ManagerTypeOK
<1>2. Threads = Workers \cup Pushers \cup Closers /\ Timer \in Pushers
      /\ (Workers \cup Closers) \cap Pushers = {}
  BY ThreadsAssumption, TimerAssumption DEF Threads
<1>3. ASSUME UNCHANGED <<managerVars, pc, source>>
      PROVE  SchedulesKept
  BY <1>3 DEF SchedulesKept
<1>4. ASSUME NEW th \in Threads, NEW l, pc[th] # "add", Goto(th, l), heap' = heap,
             \A u \in Pushers : u # th => source'[u] = source[u] /\ ready_time'[u] = ready_time[u]
      PROVE  SchedulesKept
  BY <1>1, <1>4, SMTT(30) DEF SchedulesKept, Goto
<1>5. ASSUME NEW p \in Pushers \ {Timer}, NEW t \in Tasks, pool_post(p, t)
      PROVE  SchedulesKept
  <2>1. CASE will_post_task(Behavior[t])
    BY <1>2, <1>4, <1>5, <2>1 DEF pool_post, MayPost, Accept
  <2>2. CASE ~will_post_task(Behavior[t])
    BY <1>3, <1>5, <2>2 DEF pool_post
  <2> QED BY <2>1, <2>2
<1>6. ASSUME NEW p \in Pushers \ {Timer}, NEW t \in Tasks, runner_post(p, t)
      PROVE  SchedulesKept
  BY <1>2, <1>4, <1>6 DEF runner_post, MayPost, Accept
<1>7. ASSUME NEW p \in Pushers \ {Timer}, post_task_push(p) \/ post_delayed_task_push(p)
      PROVE  SchedulesKept
  <2>1. \A u \in Pushers : u # p => source'[u] = source[u]
    BY <1>1, <1>2, <1>7 DEF post_task_push, post_delayed_task_push, HandOver
  <2> QED BY <1>2, <1>4, <1>7, <2>1 DEF post_task_push, post_delayed_task_push
<1>8. ASSUME NEW p \in Pushers \ {Timer}, post_delayed_task_deadline(p)
      PROVE  SchedulesKept
  <2>1. \A u \in Pushers : u # p => ready_time'[u] = ready_time[u]
    BY <1>1, <1>8 DEF post_delayed_task_deadline
  <2> QED BY <1>2, <1>4, <1>8, <2>1 DEF post_delayed_task_deadline
<1>9. ASSUME NEW th \in Workers \cup Pushers, push_task_source(th), UNCHANGED managerVars
      PROVE  SchedulesKept
  BY <1>2, <1>4, <1>9 DEF push_task_source
<1>10. ASSUME NEW th \in Workers \cup Pushers, notify_one(th), UNCHANGED managerVars
       PROVE  SchedulesKept
  <2>1. CASE Sleeping = {}
    BY <1>1, <1>2, <1>10, <2>1 DEF notify_one, Goto, SchedulesKept
  <2>2. CASE Sleeping # {}
    BY <1>1, <1>2, <1>10, <2>2 DEF notify_one, Sleeping, SchedulesKept
  <2> QED BY <2>1, <2>2
<1>11. ASSUME NEW p \in Pushers \ {Timer}, add_sequence_notify(p)
       PROVE  SchedulesKept
  BY <1>1, <1>2, <1>11 DEF add_sequence_notify, NotifyTimer, TimerWaits, SchedulesKept
<1>12. ASSUME NEW w \in Workers, NEW l, Goto(w, l), UNCHANGED managerVars,
              \A u \in Pushers : source'[u] = source[u]
       PROVE  SchedulesKept
  BY <1>1, <1>2, <1>12 DEF SchedulesKept, Goto
<1>13. ASSUME NEW w \in Workers, get_work_none(w) \/ get_work_wait(w) \/ spurious_wakeup(w)
                                 \/ take_task(w) \/ did_process_task_release(w),
              UNCHANGED managerVars
       PROVE  SchedulesKept
  BY <1>12, <1>13 DEF get_work_none, get_work_wait, spurious_wakeup, take_task,
                      did_process_task_release
<1>14. ASSUME NEW w \in Workers, get_work_some(w) \/ will_run_task(w) \/ did_process_task_check(w),
              UNCHANGED managerVars
       PROVE  SchedulesKept
  <2>1. \A u \in Pushers : source'[u] = source[u]
    <3>1. source' = source \/ \E x : source' = [source EXCEPT ![w] = x]
      BY <1>14 DEF get_work_some, will_run_task, did_process_task_check
    <3> QED BY <1>1, <1>2, <3>1
  <2> QED BY <1>12, <1>14, <2>1 DEF get_work_some, will_run_task, did_process_task_check
<1>15. ASSUME NEW w \in Workers, wrap_skips(w) \/ callback_starts(w) \/ callback_returns(w)
       PROVE  SchedulesKept
  BY <1>12, <1>15 DEF wrap_skips, callback_starts, callback_returns
<1>16. ASSUME NEW w \in Workers, after_run_task(w)
       PROVE  SchedulesKept
  BY <1>1, <1>2, <1>16 DEF after_run_task, SchedulesKept
<1>17. ASSUME TimerStep \/ timer_spurious_wakeup
       PROVE  SchedulesKept
  BY <1>2, <1>4, <1>17 DEF TimerStep, timer_loop_break, timer_loop_wait, timer_loop_wait_timeout,
     timer_timeout, timer_spurious_wakeup, TimerWaits
<1>18. ASSUME NEW c \in Closers,
              tracker_shutdown(c) \/ tracker_shutdown_loop(c) \/ tracker_spurious_wakeup(c)
       PROVE  SchedulesKept
  BY <1>2, <1>4, <1>18, ZenonT(30) DEF tracker_shutdown, tracker_shutdown_loop, tracker_spurious_wakeup
<1>19. ASSUME NEW c \in Closers, JoinAllStep(c), UNCHANGED managerVars
       PROVE  SchedulesKept
  <2>1. CASE join_all_notify(c)
    BY <1>1, <1>2, <1>19, <2>1 DEF join_all_notify, Sleeping, SchedulesKept
  <2> QED BY <1>2, <1>4, <1>19, <2>1, ZenonT(30) DEF JoinAllStep, join_all_signal, join_all_take, join_all_join
<1>20. ASSUME NEW c \in Closers, ManagerShutdownStep(c)
       PROVE  SchedulesKept
  <2>1. CASE manager_shutdown_notify(c)
    BY <1>1, <1>2, <2>1 DEF manager_shutdown_notify, NotifyTimer, TimerWaits, SchedulesKept
  <2> QED BY <1>2, <1>4, <1>20, <2>1 DEF ManagerShutdownStep, manager_shutdown_signal,
                                         manager_shutdown_take, manager_shutdown_join
<1>21. ASSUME NEW p \in Pushers \ {Timer}, PosterStep(p)
       PROVE  SchedulesKept
  BY <1>5, <1>6, <1>7, <1>8, <1>9, <1>10, <1>11, <1>21 DEF PosterStep, PushStep, AddStep
<1>22. ASSUME NEW w \in Workers, WorkerStepInPool(w)
       PROVE  SchedulesKept
  BY <1>9, <1>10, <1>13, <1>14, <1>15, <1>16, <1>22 DEF WorkerStepInPool, WorkerStep
<1>23. ASSUME TimerStepInPool \/ SpuriousWakeup \/ TickInPool
       PROVE  SchedulesKept
  BY <1>2, <1>3, <1>9, <1>10, <1>13, <1>17, <1>18, <1>23
     DEF TimerStepInPool, PushStep, SpuriousWakeup, TickInPool
<1> QED BY <1>n, <1>3, <1>18, <1>19, <1>20, <1>21, <1>22, <1>23, Zenon DEF Next, ShutdownStep

\* An entry is there until the timer pops it, due, and carries its sequence on.
LEMMA ScheduleKept ==
    ASSUME TypeOK, NEW s \in Seqs, NEW r \in Time, Scheduled(s, r)
    PROVE  [Next]_vars => Scheduled(s, r)' \/ (r <= now /\ Covered(s)')
<1>n. SUFFICES ASSUME [Next]_vars
      PROVE  Scheduled(s, r)' \/ (r <= now /\ Covered(s)')
  OBVIOUS
<1>1. heap \in Seq(DelayedEntry) /\ Len(heap) \in Nat
  BY SeqLemma DEF TypeOK, ManagerTypeOK
<1>2. pc \in [Threads -> WorkerLabels \cup PusherLabels \cup CloserLabels]
      /\ source \in [Threads -> Seqs \cup {NoSeq}]
  BY DEF TypeOK, ThreadsTypeOK
<1>3. Pushers \subseteq Threads /\ Timer \in Pushers
  BY TimerAssumption DEF Threads
<1>4. CASE SchedulesKept
  BY <1>4 DEF SchedulesKept, Scheduled
<1>5. ASSUME NEW p \in Pushers \ {Timer}, add_sequence(p)
      PROVE  Scheduled(s, r)'
  <2> DEFINE e == [ready_time |-> ready_time[p], sequence |-> source[p]]
  <2>1. PICK i \in 0..Len(heap) : heap' = HeapInsert(heap, i, e)
    BY <1>5, ZenonT(30) DEF add_sequence
  <2>2. e \in DelayedEntry
    BY <1>3, <1>5 DEF add_sequence, TypeOK, ManagerTypeOK, ThreadsTypeOK, ThreadOK, HoldsSource,
                      DelayedEntry
  <2> HIDE DEF e
  <2>3. /\ Len(heap') = Len(heap) + 1
        /\ \A j \in 1..i : heap'[j] = heap[j]
        /\ heap'[i + 1] = e
        /\ \A j \in (i + 1)..Len(heap) : heap'[j + 1] = heap[j]
    BY <1>1, <2>1, <2>2, HeapInsertLemma, SMTT(30) DEF HeapInsert
  <2>4. ASSUME NEW j \in 1..Len(heap)
        PROVE  \E l \in 1..Len(heap') : heap'[l] = heap[j]
    <3>1. CASE j <= i
      <4>1. j \in 1..Len(heap') /\ heap'[j] = heap[j]
        BY <1>1, <2>3, <3>1, SMTT(30)
      <4> QED BY <4>1
    <3>2. CASE j > i
      <4>1. j + 1 \in 1..Len(heap') /\ heap'[j + 1] = heap[j]
        BY <1>1, <2>3, <3>2, SMTT(30)
      <4> QED BY <4>1
    <3> QED BY <1>1, <3>1, <3>2, SMTT(30)
  <2>5. i + 1 \in 1..Len(heap') /\ heap'[i + 1].sequence = source[p]
        /\ heap'[i + 1].ready_time = ready_time[p]
    <3>1. i + 1 \in 1..Len(heap')
      BY <1>1, <2>3, SMTT(30)
    <3>2. e.sequence = source[p] /\ e.ready_time = ready_time[p]
      BY DEF e
    <3> QED BY <2>3, <3>1, <3>2
  <2>6. \A u \in Pushers : u # p => pc'[u] = pc[u] /\ source'[u] = source[u]
                                    /\ ready_time'[u] = ready_time[u]
    BY <1>2, <1>3, <1>5 DEF add_sequence, Goto
  <2>7. CASE \E j \in 1..Len(heap) : heap[j].sequence = s /\ heap[j].ready_time = r
    BY <2>4, <2>7, Zenon DEF Scheduled
  <2>8. CASE \E u \in Pushers : pc[u] = "add" /\ source[u] = s /\ ready_time[u] = r
    <3>1. PICK u \in Pushers : pc[u] = "add" /\ source[u] = s /\ ready_time[u] = r
      BY <2>8, Zenon
    <3>2. CASE u = p
      BY <2>5, <3>1, <3>2, Zenon DEF Scheduled
    <3>3. CASE u # p
      BY <2>6, <3>1, <3>3, Zenon DEF Scheduled
    <3> QED BY <3>2, <3>3, Zenon
  <2> QED BY <2>7, <2>8, ZenonT(30) DEF Scheduled
<1>6. ASSUME timer_loop_push
      PROVE  Scheduled(s, r)' \/ (r <= now /\ Covered(s)')
  <2>1. heap # <<>> /\ 1 \in 0..Len(heap)
    <3>1. heap # <<>>
      BY <1>6, Zenon DEF timer_loop_push
    <3> QED BY ONLY <1>1, <3>1, FirstLemma, SMTT(30)
  <2>2. /\ Len(heap') = Len(heap) - 1
        /\ \A j \in 1..Len(heap') : heap'[j] = heap[j + 1]
    <3>1. heap' = DropFirst(heap, 1)
      BY <1>6, Zenon DEF timer_loop_push
    <3> QED BY ONLY <1>1, <2>1, <3>1, DropFirstLemma, SMTT(30)
  <2>3. \A j \in 2..Len(heap) : j - 1 \in 1..Len(heap') /\ heap'[j - 1] = heap[j]
    BY <1>1, <2>1, <2>2, SMTT(30)
  <2>4. \A u \in Pushers : u # Timer => pc'[u] = pc[u] /\ source'[u] = source[u]
                                        /\ ready_time'[u] = ready_time[u]
    BY <1>2, <1>3, <1>6 DEF timer_loop_push, Goto
  <2>5. pc[Timer] = "home" /\ pc'[Timer] = "push" /\ source'[Timer] = heap[1].sequence
    BY <1>2, <1>3, <1>6 DEF timer_loop_push, Goto
  <2>6. CASE heap[1].sequence = s /\ heap[1].ready_time = r
    <3>1. Covered(s)'
      BY <1>3, <2>5, <2>6 DEF Covered, Carrying
    <3> QED BY <1>6, <2>6, <3>1 DEF timer_loop_push
  <2>7. CASE ~(heap[1].sequence = s /\ heap[1].ready_time = r)
    <3>1. CASE \E j \in 1..Len(heap) : heap[j].sequence = s /\ heap[j].ready_time = r
      <4>1. PICK j \in 2..Len(heap) : heap[j].sequence = s /\ heap[j].ready_time = r
        BY <1>1, <2>7, <3>1, SMTT(30)
      <4> QED BY <2>3, <4>1, Zenon DEF Scheduled
    <3>2. CASE \E p \in Pushers : pc[p] = "add" /\ source[p] = s /\ ready_time[p] = r
      BY <2>4, <2>5, <3>2, ZenonT(30) DEF Scheduled
    <3> QED BY <3>1, <3>2, ZenonT(30) DEF Scheduled
  <2> QED BY <2>6, <2>7, ZenonT(30)
<1> QED BY <1>n, <1>4, <1>5, <1>6, SchedulesChange

\* No step strands a task: a post puts its sequence in the poster's hand, a worker
\* lets go of one only when the re-check finds nothing ready, and a timer entry
\* goes only when the timer carries its sequence to the group.
LEMMA NoStrandedNext ==
    TypeOK /\ Ownership /\ DelayedSorted /\ NoStrandedTask /\ [Next]_vars => NoStrandedTask'
<1> SUFFICES ASSUME TypeOK, Ownership, DelayedSorted, NoStrandedTask, NEW s \in Seqs
             PROVE  [Next]_vars =>
                       /\ immediate_queue'[s] # <<>> => Covered(s)'
                       /\ \A i \in 1..Len(delayed_queue'[s]) :
                             Attended(s, delayed_queue[s][i].ready_time)'
  BY ZenonT(30) DEF NoStrandedTask
<1>n. SUFFICES ASSUME [Next]_vars
      PROVE  /\ immediate_queue'[s] # <<>> => Covered(s)'
             /\ \A i \in 1..Len(delayed_queue'[s]) :
                   Attended(s, delayed_queue[s][i].ready_time)'
  OBVIOUS
<1>1. immediate_queue \in [Seqs -> Seq(Tasks)] /\ delayed_queue \in [Seqs -> Seq(DelayedTask)]
      /\ now \in Int
  BY MaxTimeAssumption, SMTT(30) DEF TypeOK, SequenceTypeOK, Time
<1>2. pc \in [Threads -> WorkerLabels \cup PusherLabels \cup CloserLabels]
      /\ source \in [Threads -> Seqs \cup {NoSeq}]
      /\ Pushers \subseteq Threads /\ Workers \subseteq Threads
  BY DEF TypeOK, ThreadsTypeOK, Threads
<1>3. \A u \in Seqs : delayed_queue[u] \in Seq(DelayedTask) /\ Len(delayed_queue[u]) \in Nat
                      /\ \A i \in 1..Len(delayed_queue[u]) : delayed_queue[u][i] \in DelayedTask
  BY <1>1, SeqLemma
<1>4. \A d \in DelayedTask : d.ready_time \in Time /\ d.ready_time \in Int
  BY MaxTimeAssumption, SMTT(30) DEF DelayedTask, Time
<1>5. now' \in Int /\ now <= now'
  <2>1. now' = now \/ now' = now + 1
    BY <1>n, NowChange
  <2> QED BY <1>1, <2>1, SMTT(30)
\* What was covered is covered still.
<1>6. ASSUME Covered(s), has_ready_tasks(s)
      PROVE  Covered(s)'
  BY <1>n, <1>6, CoverKept
<1>7. immediate_queue[s] # <<>> => Covered(s)'
  BY <1>6 DEF NoStrandedTask, has_ready_tasks
\* What was attended to is attended to still.
<1>8. ASSUME NEW i \in 1..Len(delayed_queue[s]), NEW r, r = delayed_queue[s][i].ready_time
      PROVE  Scheduled(s, r)' \/ (r <= now' /\ Covered(s)')
  <2>1. r \in Time /\ r \in Int
    BY <1>3, <1>4, <1>8
  <2>2. Attended(s, r)
    BY <1>8 DEF NoStrandedTask
  <2>3. CASE Scheduled(s, r)
    <3>1. Scheduled(s, r)' \/ (r <= now /\ Covered(s)')
      BY <1>n, <2>1, <2>3, ScheduleKept
    <3> QED BY <1>1, <1>5, <2>1, <3>1, SMTT(30)
  <2>4. CASE r <= now /\ Covered(s)
    <3>1. 1 \in 1..Len(delayed_queue[s]) /\ 1 <= i
      BY <1>3, SMTT(30)
    <3>2. delayed_queue[s][1].ready_time <= r
      BY <1>8, <3>1 DEF DelayedSorted
    <3>3. delayed_queue[s][1].ready_time <= now
      BY <1>1, <1>3, <1>4, <2>1, <2>4, <3>1, <3>2, SMTT(30)
    <3>4. delayed_queue[s] # <<>>
      BY <1>3, <3>1, EmptyLemma, SMTT(30)
    <3>5. Covered(s)'
      BY <1>6, <2>4, <3>3, <3>4 DEF has_ready_tasks
    <3> QED BY <1>1, <1>5, <2>1, <2>4, <3>5, SMTT(30)
  <2> QED BY <2>2, <2>3, <2>4 DEF Attended
<1>9. CASE UNCHANGED queueVars
  BY <1>7, <1>8, <1>9 DEF Attended
<1>10. ASSUME NEW p \in Pushers \ {Timer}, post_task_push(p)
       PROVE  /\ immediate_queue'[s] # <<>> => Covered(s)'
              /\ \A i \in 1..Len(delayed_queue'[s]) : Attended(s, delayed_queue[s][i].ready_time)'
  <2>1. delayed_queue' = delayed_queue
    BY <1>10, ZenonT(30) DEF post_task_push, push_task
  <2>2. CASE s = TaskSeq[task[p]]
    <3>1. pc'[p] = "push" /\ source'[p] = s
      BY <1>2, <1>10, <2>2 DEF post_task_push, HandOver, Goto
    <3>2. Covered(s)'
      BY <1>2, <3>1 DEF Covered, Carrying
    <3> QED BY <1>8, <2>1, <3>2 DEF Attended
  <2>3. CASE s # TaskSeq[task[p]]
    <3>1. immediate_queue'[s] = immediate_queue[s]
      BY <1>1, <1>10, <2>3, ZenonT(30) DEF post_task_push, push_task
    <3> QED BY <1>7, <1>8, <2>1, <3>1 DEF Attended
  <2> QED BY <2>2, <2>3
<1>11. ASSUME NEW p \in Pushers \ {Timer}, post_delayed_task_push(p)
       PROVE  /\ immediate_queue'[s] # <<>> => Covered(s)'
              /\ \A i \in 1..Len(delayed_queue'[s]) : Attended(s, delayed_queue[s][i].ready_time)'
  <2> DEFINE u == TaskSeq[task[p]]
             e == [ready_time |-> ready_time[p], task |-> task[p]]
  <2>1. immediate_queue' = immediate_queue
    BY <1>11 DEF post_delayed_task_push, push_delayed_task
  <2>2. PICK k \in 0..Len(delayed_queue[u]) :
           delayed_queue' = [delayed_queue EXCEPT ![u] = HeapInsert(delayed_queue[u], k, e)]
    BY <1>11, Zenon DEF post_delayed_task_push, push_delayed_task
  <2>3. CASE s # u
    <3>1. delayed_queue'[s] = delayed_queue[s]
      BY <1>1, <2>2, <2>3, ZenonT(30)
    <3> QED BY <1>7, <1>8, <2>1, <3>1, ZenonT(30) DEF Attended
  <2>4. CASE s = u
    <3>1. task[p] \in Tasks /\ ready_time[p] \in Time
      BY <1>2, <1>11, ZenonT(30) DEF post_delayed_task_push, TypeOK, ThreadsTypeOK, ThreadOK, HoldsTask,
                         ManagerTypeOK
    <3>2. e \in DelayedTask /\ e.ready_time = ready_time[p]
      BY <3>1 DEF DelayedTask
    <3> HIDE DEF e
    <3>3. delayed_queue'[s] = HeapInsert(delayed_queue[s], k, e) /\ k \in 0..Len(delayed_queue[s])
      BY <1>1, <2>2, <2>4, ZenonT(30)
    <3>4. /\ Len(delayed_queue'[s]) = Len(delayed_queue[s]) + 1
          /\ \A j \in 1..k : delayed_queue'[s][j] = delayed_queue[s][j]
          /\ delayed_queue'[s][k + 1] = e
          /\ \A j \in (k + 1)..Len(delayed_queue[s]) :
                delayed_queue'[s][j + 1] = delayed_queue[s][j]
      BY <1>3, <3>2, <3>3, HeapInsertLemma, SMTT(30) DEF HeapInsert
    <3>5. Scheduled(s, ready_time[p])'
      <4>1. pc'[p] = "add" /\ source'[p] = s /\ ready_time' = ready_time
        BY <1>2, <1>11, <2>4 DEF post_delayed_task_push, HandOver, Goto
      <4> QED BY <4>1 DEF Scheduled
    <3>6. ASSUME NEW i \in 1..Len(delayed_queue'[s])
          PROVE  Attended(s, delayed_queue[s][i].ready_time)'
      <4>1. CASE i <= k
        <5>1. i \in 1..k /\ i \in 1..Len(delayed_queue[s])
          BY <1>3, <3>3, <4>1, SMTT(30)
        <5>2. delayed_queue'[s][i] = delayed_queue[s][i]
          BY <3>4, <5>1, ZenonT(30)
        <5> QED BY <1>8, <5>1, <5>2 DEF Attended
      <4>2. CASE i = k + 1
        <5>1. delayed_queue'[s][i].ready_time = ready_time[p] /\ ready_time' = ready_time
          BY <1>11, <3>2, <3>4, <4>2, ZenonT(30) DEF post_delayed_task_push
        <5> QED BY <3>5, <5>1 DEF Attended
      <4>3. CASE i > k + 1
        <5>1. i - 1 \in 1..Len(delayed_queue[s]) /\ delayed_queue'[s][i] = delayed_queue[s][i - 1]
          <6>1. i - 1 \in (k + 1)..Len(delayed_queue[s]) /\ i - 1 \in 1..Len(delayed_queue[s])
                /\ i = (i - 1) + 1
            BY <1>3, <3>3, <3>4, <4>3, SMTT(30)
          <6> QED BY <3>4, <6>1, ZenonT(30)
        <5> QED BY <1>8, <5>1 DEF Attended
      <4>4. i <= k \/ i = k + 1 \/ i > k + 1
        BY <1>3, <3>3, <3>4, SMTT(30)
      <4> QED BY <4>1, <4>2, <4>3, <4>4, ZenonT(30)
    <3> QED BY <1>7, <2>1, <3>6
  <2> QED BY <2>3, <2>4
<1>12. ASSUME NEW w \in Workers, take_task(w)
       PROVE  /\ immediate_queue'[s] # <<>> => Covered(s)'
              /\ \A i \in 1..Len(delayed_queue'[s]) : Attended(s, delayed_queue[s][i].ready_time)'
  <2>1. PICK k \in 0..Len(delayed_queue[source[w]]) :
          /\ delayed_queue' = [delayed_queue EXCEPT ![source[w]] = DropFirst(@, k)]
          /\ \/ UNCHANGED immediate_queue
             \/ immediate_queue' = [immediate_queue EXCEPT ![source[w]] =
                                      Tail(FlushedQueue(source[w], k))]
    BY <1>12, ZenonT(30) DEF take_task
  <2>2. CASE s # source[w]
    <3>1. immediate_queue'[s] = immediate_queue[s] /\ delayed_queue'[s] = delayed_queue[s]
      BY <1>1, <2>1, <2>2
    <3> QED BY <1>7, <1>8, <3>1 DEF Attended
  <2>3. CASE s = source[w]
    <3>1. pc'[w] \in Carrying /\ source'[w] = s
      BY <1>2, <1>12, <2>3 DEF take_task, Goto, Carrying
    <3>2. Covered(s)'
      BY <1>2, <3>1 DEF Covered
    <3>3. delayed_queue'[s] = DropFirst(delayed_queue[s], k) /\ k \in 0..Len(delayed_queue[s])
      BY <1>1, <2>1, <2>3
    <3>4. \A i \in 1..Len(delayed_queue'[s]) :
             i + k \in 1..Len(delayed_queue[s]) /\ delayed_queue'[s][i] = delayed_queue[s][i + k]
      BY <1>3, <3>3, DropFirstLemma, SMTT(30)
    <3> QED BY <1>8, <3>2, <3>4, ZenonT(30) DEF Attended
  <2> QED BY <2>2, <2>3
<1> QED BY <1>n, <1>9, <1>10, <1>11, <1>12, QueuesChange, ZenonT(30)

\* No task is ever left in a sequence that nobody will look at again (sequence.rs
\* push_task and did_process_task, delayed_task_manager.rs add_sequence).
THEOREM NothingStranded == Spec => []NoStrandedTask
<1>1. Init => DelayedSorted /\ NoStrandedTask
  BY SMTT(30) DEF Init, SequenceInit, DelayedSorted, NoStrandedTask
<1>2. Init => Ownership
  BY OwnershipInit
<1>3. TypeOK /\ [Next]_vars => TypeOK'
  BY TypeNext
<1> QED BY <1>1, <1>2, <1>3, TypeInit, OwnershipNext, DelayedSortedNext, NoStrandedNext, PTL
       DEF Spec

-----------------------------------------------------------------------------
(* The wakeups of the workers.                                             *)

\* The workers on their way to the queue, and the threads that pushed a source and
\* have still to notify.
Looking == {w \in Workers : pc[w] = "get_work"}
Pushed == {th \in Threads : pc[th] = "notify"}

\* Nobody falls asleep and no notify is used up.
WakeupsKept ==
    /\ UNCHANGED <<priority_queue, shutdown>>
    /\ Looking \subseteq Looking' /\ Pushed' = Pushed /\ Sleeping' \subseteq Sleeping
    /\ \A c \in Closers : pc[c] = "notify_all" => pc'[c] = "notify_all"

WakeupSteps ==
    \/ \E th \in Workers \cup Pushers : push_task_source(th) \/ notify_one(th)
    \/ \E w \in Workers : get_work_none(w) \/ get_work_some(w) \/ get_work_wait(w)
    \/ \E c \in Closers : join_all_signal(c) \/ join_all_notify(c)

\* Every other step keeps them.
LEMMA WakeupsChange == TypeOK /\ [Next]_vars => WakeupsKept \/ WakeupSteps
<1> SUFFICES ASSUME TypeOK, ~WakeupSteps
             PROVE  [Next]_vars => WakeupsKept
  OBVIOUS
<1>n. SUFFICES ASSUME [Next]_vars
      PROVE  WakeupsKept
  OBVIOUS
<1>1. pc \in [Threads -> WorkerLabels \cup PusherLabels \cup CloserLabels]
  BY DEF TypeOK, ThreadsTypeOK
<1>2. /\ Threads = Workers \cup Pushers \cup Closers /\ Timer \in Pushers
      /\ (Workers \cup Closers) \cap Pushers = {} /\ Workers \cap Closers = {}
  BY ThreadsAssumption, TimerAssumption DEF Threads
<1>3. ASSUME UNCHANGED <<priority_queue, shutdown, pc>>
      PROVE  WakeupsKept
  BY <1>3 DEF WakeupsKept, Looking, Pushed, Sleeping
<1>4. ASSUME NEW th \in Threads, NEW l, Goto(th, l), UNCHANGED <<priority_queue, shutdown>>,
             pc[th] \notin {"get_work", "notify", "notify_all"}, l \notin {"wait", "notify"}
      PROVE  WakeupsKept
  BY <1>1, <1>2, <1>4 DEF WakeupsKept, Looking, Pushed, Sleeping, Goto
<1>5. ASSUME NEW th \in Threads, NEW l, NotifyTimer(th, l), UNCHANGED <<priority_queue, shutdown>>,
             pc[th] \notin {"get_work", "notify", "notify_all"}, l \notin {"wait", "notify"}
      PROVE  WakeupsKept
  <2>1. CASE TimerWaits
    <3>1. pc' = [pc EXCEPT ![th] = l, ![Timer] = "home"]
      BY <1>5, <2>1 DEF NotifyTimer
    <3> QED BY <1>1, <1>2, <1>5, <2>1, <3>1 DEF WakeupsKept, Looking, Pushed, Sleeping, TimerWaits
  <2>2. CASE ~TimerWaits
    BY <1>4, <1>5, <2>2, ZenonT(30) DEF NotifyTimer, Goto
  <2> QED BY <2>1, <2>2
<1>6. ASSUME NEW p \in Pushers \ {Timer}, PosterStep(p)
      PROVE  WakeupsKept
  <2>1. ASSUME NEW t \in Tasks, pool_post(p, t) \/ runner_post(p, t)
        PROVE  WakeupsKept
    <3>1. UNCHANGED <<priority_queue, shutdown>> /\ pc[p] = "home" /\ (UNCHANGED pc \/ Goto(p, "accepted"))
      BY <2>1, Zenon DEF pool_post, runner_post, MayPost, Accept
    <3> QED BY <1>2, <1>3, <1>4, <3>1
  <2>2. CASE post_task_push(p) \/ post_delayed_task_deadline(p) \/ post_delayed_task_push(p)
    BY <1>2, <1>4, <2>2, Zenon DEF post_task_push, post_delayed_task_deadline, post_delayed_task_push
  <2>3. CASE AddStep(p)
    BY <1>2, <1>4, <1>5, <2>3, ZenonT(30) DEF AddStep, add_sequence, add_sequence_notify
  <2> QED BY <1>6, <2>1, <2>2, <2>3 DEF PosterStep, PushStep, WakeupSteps
<1>7. ASSUME NEW w \in Workers, WorkerStepInPool(w)
      PROVE  WakeupsKept
  <2>1. CASE will_run_task(w) \/ take_task(w) \/ did_process_task_release(w) \/ did_process_task_check(w)
    <3>1. /\ UNCHANGED <<priority_queue, shutdown>> /\ pc[w] \notin {"get_work", "notify", "notify_all"}
          /\ \E l : l \notin {"wait", "notify"} /\ Goto(w, l)
      BY <2>1 DEF will_run_task, take_task, did_process_task_release, did_process_task_check
    <3> QED BY <1>2, <1>4, <3>1
  <2>2. CASE wrap_skips(w) \/ callback_starts(w) \/ callback_returns(w)
    <3>1. /\ UNCHANGED <<priority_queue, shutdown>> /\ pc[w] \notin {"get_work", "notify", "notify_all"}
          /\ \E l : l \notin {"wait", "notify"} /\ Goto(w, l)
      BY <2>2, ZenonT(30) DEF wrap_skips, callback_starts, callback_returns
    <3> QED BY <1>2, <1>4, <3>1
  <2>3. CASE after_run_task(w)
    <3>1. /\ UNCHANGED <<priority_queue, shutdown>> /\ pc[w] = "after" /\ pc'[w] = "release"
          /\ \A th \in Threads : th # w => \/ pc'[th] = pc[th]
                                           \/ pc[th] = "tracker_wait" /\ pc'[th] = "tracker_check"
      BY <1>1, <1>2, <2>3 DEF after_run_task
    <3> QED BY <1>2, <3>1 DEF WakeupsKept, Looking, Pushed, Sleeping
  <2> QED BY <1>7, <2>1, <2>2, <2>3 DEF WorkerStepInPool, WorkerStep, WakeupSteps
<1>8. ASSUME TimerStepInPool
      PROVE  WakeupsKept
  <2>1. CASE TimerStep
    BY <1>2, <1>4, <2>1, ZenonT(30) DEF TimerStep, timer_loop_break, timer_loop_wait, timer_loop_push,
       timer_loop_wait_timeout, timer_timeout
  <2> QED BY <1>2, <1>8, <2>1 DEF TimerStepInPool, PushStep, WakeupSteps
<1>9. ASSUME NEW c \in Closers, tracker_shutdown(c) \/ ShutdownStep(c) \/ tracker_spurious_wakeup(c)
      PROVE  WakeupsKept
  <2>1. CASE tracker_shutdown(c) \/ tracker_shutdown_loop(c) \/ tracker_spurious_wakeup(c)
    <3>1. /\ UNCHANGED <<priority_queue, shutdown>> /\ pc[c] \notin {"get_work", "notify", "notify_all"}
          /\ \E l : l \notin {"wait", "notify"} /\ Goto(c, l)
      BY <2>1 DEF tracker_shutdown, tracker_shutdown_loop, tracker_spurious_wakeup
    <3> QED BY <1>2, <1>4, <3>1
  <2>2. CASE join_all_take(c) \/ join_all_join(c)
    BY <1>2, <1>4, <2>2 DEF join_all_take, join_all_join
  <2>3. CASE ManagerShutdownStep(c)
    <3>1. CASE manager_shutdown_notify(c)
      BY <1>2, <1>5, <3>1 DEF manager_shutdown_notify
    <3>2. CASE ~manager_shutdown_notify(c)
      <4>1. /\ UNCHANGED <<priority_queue, shutdown>> /\ pc[c] \notin {"get_work", "notify", "notify_all"}
            /\ \E l : l \notin {"wait", "notify"} /\ Goto(c, l)
        BY <2>3, <3>2
           DEF ManagerShutdownStep, manager_shutdown_signal, manager_shutdown_take, manager_shutdown_join
      <4> QED BY <1>2, <1>4, <4>1
    <3> QED BY <3>1, <3>2
  <2> QED BY <1>9, <2>1, <2>2, <2>3 DEF ShutdownStep, JoinAllStep, WakeupSteps
<1>10. ASSUME SpuriousWakeup
       PROVE  WakeupsKept
  <2>1. CASE \E w \in Workers : spurious_wakeup(w)
    BY <1>2, <1>4, <2>1 DEF spurious_wakeup
  <2>2. CASE timer_spurious_wakeup
    BY <1>2, <1>4, <2>2 DEF timer_spurious_wakeup, TimerWaits
  <2> QED BY <1>9, <1>10, <2>1, <2>2 DEF SpuriousWakeup
<1>11. ASSUME TickInPool \/ UNCHANGED vars
       PROVE  WakeupsKept
  BY <1>3, <1>11 DEF TickInPool
<1> QED BY <1>n, <1>6, <1>7, <1>8, <1>9, <1>10, <1>11 DEF Next

\* Only finitely many notifies are on their way, so they can be counted.
WakeupsCounted == NoLostWakeup /\ IsFiniteSet(Pushed)

\* A source is queued by a thread that has still to notify, and is taken by a worker
\* that looked: the queue never outgrows those two.
LEMMA WakeupsCountedNext == TypeOK /\ WakeupsCounted /\ [Next]_vars => WakeupsCounted'
<1> SUFFICES ASSUME TypeOK, WakeupsCounted
             PROVE  [Next]_vars => WakeupsCounted'
  OBVIOUS
<1>n. SUFFICES ASSUME [Next]_vars
      PROVE  WakeupsCounted'
  OBVIOUS
<1>1. /\ pc \in [Threads -> WorkerLabels \cup PusherLabels \cup CloserLabels]
      /\ priority_queue \in Seq(Seqs) /\ Len(priority_queue) \in Nat
  BY SeqLemma DEF TypeOK, ThreadsTypeOK, GroupTypeOK
<1>2. /\ Threads = Workers \cup Pushers \cup Closers /\ Timer \in Pushers
      /\ (Workers \cup Closers) \cap Pushers = {} /\ Workers \cap Closers = {}
  BY ThreadsAssumption, TimerAssumption DEF Threads
<1>3. /\ IsFiniteSet(Looking) /\ Cardinality(Looking) \in Nat
      /\ IsFiniteSet(Looking') /\ Cardinality(Looking') \in Nat
  <2>1. Looking \subseteq Workers /\ Looking' \subseteq Workers
    BY DEF Looking
  <2> QED BY <2>1, ThreadsAssumption, FS_Subset, FS_CardinalityType
<1>4. IsFiniteSet(Pushed) /\ Cardinality(Pushed) \in Nat
  BY FS_CardinalityType DEF WakeupsCounted
<1> DEFINE Bound == Cardinality(Looking) + Cardinality(Pushed)
<1>5. Sleeping # {} => IF shutdown THEN \E c \in Closers : pc[c] = "notify_all"
                                   ELSE Len(priority_queue) <= Bound
  BY DEF WakeupsCounted, NoLostWakeup, Looking, Pushed
<1>6. ASSUME IsFiniteSet(Pushed'),
             Sleeping' # {} => IF shutdown' THEN \E c \in Closers : pc'[c] = "notify_all"
                               ELSE Len(priority_queue') <= Cardinality(Looking') + Cardinality(Pushed')
      PROVE  WakeupsCounted'
  BY <1>6 DEF WakeupsCounted, NoLostWakeup, Looking, Pushed
<1>7. CASE WakeupsKept
  <2>1. Cardinality(Looking) <= Cardinality(Looking')
    BY <1>3, <1>7, FS_Subset DEF WakeupsKept
  <2>2. Len(priority_queue) <= Bound => Len(priority_queue) <= Cardinality(Looking') + Cardinality(Pushed)
    BY <1>1, <1>3, <1>4, <2>1
  <2>3. /\ UNCHANGED <<priority_queue, shutdown>> /\ Pushed' = Pushed /\ Sleeping' \subseteq Sleeping
        /\ \A c \in Closers : pc[c] = "notify_all" => pc'[c] = "notify_all"
    BY <1>7 DEF WakeupsKept
  <2>4. Sleeping' # {} => Sleeping # {}
    BY <2>3
  <2> HIDE DEF Bound
  <2> QED BY <1>4, <1>5, <1>6, <2>2, <2>3, <2>4
<1>8. ASSUME NEW th \in Workers \cup Pushers, push_task_source(th)
      PROVE  WakeupsCounted'
  <2>1. /\ pc[th] = "push" /\ pc' = [pc EXCEPT ![th] = "notify"] /\ shutdown' = shutdown
        /\ priority_queue' = Append(priority_queue, source[th]) /\ source[th] \in Seqs /\ th \in Threads
    BY <1>2, <1>8, HeldTypes DEF push_task_source, Goto, HoldsSource
  <2>2. Len(priority_queue') = Len(priority_queue) + 1
    BY <1>1, <2>1, AppendLemma
  <2>3. th \notin Pushed /\ Pushed' = Pushed \cup {th}
    BY <1>1, <2>1 DEF Pushed
  <2>4. IsFiniteSet(Pushed') /\ Cardinality(Pushed') = Cardinality(Pushed) + 1
    BY <1>4, <2>3, FS_AddElement
  <2>5. Looking' = Looking /\ Sleeping' = Sleeping
    BY <1>1, <1>2, <2>1 DEF Looking, Sleeping
  <2>6. \A c \in Closers : pc'[c] = pc[c]
    BY <1>1, <1>2, <2>1
  <2>7. Len(priority_queue) <= Bound => Len(priority_queue') <= Cardinality(Looking') + Cardinality(Pushed')
    BY <1>1, <1>3, <1>4, <2>2, <2>4, <2>5
  <2> HIDE DEF Bound
  <2> QED BY <1>5, <1>6, <2>1, <2>4, <2>5, <2>6, <2>7
<1>9. ASSUME NEW th \in Workers \cup Pushers, notify_one(th)
      PROVE  WakeupsCounted'
  <2>1. /\ pc[th] = "notify" /\ UNCHANGED <<priority_queue, shutdown>> /\ th \in Threads
        /\ Home(th) \in {"get_work", "home"}
    BY <1>2, <1>9 DEF notify_one, Home
  <2>2. CASE Sleeping = {}
    <3>1. pc' = [pc EXCEPT ![th] = Home(th)]
      BY <1>9, <2>2 DEF notify_one, Goto
    <3>2. Sleeping' = {} /\ Pushed' = Pushed \ {th}
      BY <1>1, <1>2, <2>1, <2>2, <3>1 DEF Sleeping, Pushed
    <3> QED BY <1>4, <1>6, <3>2, FS_RemoveElement
  <2>3. CASE Sleeping # {}
    <3>1. PICK w \in Sleeping : pc' = [pc EXCEPT ![th] = Home(th), ![w] = "get_work"]
      BY <1>9, <2>3 DEF notify_one
    <3>2. w \in Workers /\ pc[w] = "wait" /\ w # th /\ w \in Threads
      BY <1>2, <2>1, <3>1 DEF Sleeping
    <3>3. th \in Pushed /\ Pushed' = Pushed \ {th}
      BY <1>1, <2>1, <3>1, <3>2 DEF Pushed
    <3>4. IsFiniteSet(Pushed') /\ Cardinality(Pushed') = Cardinality(Pushed) - 1
      BY <1>4, <3>3, FS_RemoveElement
    <3>5. w \notin Looking /\ Looking \cup {w} \subseteq Looking'
      BY <1>1, <1>2, <2>1, <3>1, <3>2 DEF Looking
    <3>6. Cardinality(Looking \cup {w}) = Cardinality(Looking) + 1
      BY <1>3, <3>5, FS_AddElement, ZenonT(30)
    <3>7. Cardinality(Looking \cup {w}) <= Cardinality(Looking')
      BY <1>3, <3>5, FS_Subset
    <3>8. \A c \in Closers : pc'[c] = pc[c]
      BY <1>1, <1>2, <2>1, <3>1, <3>2
    <3>9. Len(priority_queue) <= Bound => Len(priority_queue) <= Cardinality(Looking') + Cardinality(Pushed')
      BY <1>1, <1>3, <1>4, <3>4, <3>6, <3>7
    <3> HIDE DEF Bound
    <3> QED BY <1>5, <1>6, <2>1, <2>3, <3>4, <3>8, <3>9, ZenonT(30)
  <2> QED BY <2>2, <2>3
<1>10. ASSUME NEW w \in Workers, get_work_none(w)
       PROVE  WakeupsCounted'
  <2>1. /\ pc[w] = "get_work" /\ pc' = [pc EXCEPT ![w] = "exit"] /\ shutdown /\ shutdown' = shutdown
    BY <1>10 DEF get_work_none, Goto
  <2>2. Pushed' = Pushed /\ Sleeping' = Sleeping /\ \A c \in Closers : pc'[c] = pc[c]
    BY <1>1, <1>2, <2>1 DEF Pushed, Sleeping
  <2> QED BY <1>4, <1>5, <1>6, <2>1, <2>2
<1>11. ASSUME NEW w \in Workers, get_work_some(w)
       PROVE  WakeupsCounted'
  <2>1. /\ pc[w] = "get_work" /\ pc' = [pc EXCEPT ![w] = "claim"] /\ ~shutdown /\ shutdown' = shutdown
    BY <1>11 DEF get_work_some, Goto
  <2>2. Len(priority_queue') = Len(priority_queue) - 1
    BY <1>1, <1>11, WithoutEntryLemma DEF get_work_some
  <2>3. Pushed' = Pushed /\ Sleeping' = Sleeping
    BY <1>1, <1>2, <2>1 DEF Pushed, Sleeping
  <2>4. w \in Looking /\ Looking' = Looking \ {w}
    BY <1>1, <1>2, <2>1 DEF Looking
  <2>5. Cardinality(Looking') = Cardinality(Looking) - 1
    BY <1>3, <2>4, FS_RemoveElement
  <2>6. Len(priority_queue) <= Bound => Len(priority_queue') <= Cardinality(Looking') + Cardinality(Pushed')
    BY <1>1, <1>3, <1>4, <2>2, <2>3, <2>5
  <2> HIDE DEF Bound
  <2> QED BY <1>4, <1>5, <1>6, <2>1, <2>3, <2>6
<1>12. ASSUME NEW w \in Workers, get_work_wait(w)
       PROVE  WakeupsCounted'
  <2>1. /\ pc[w] = "get_work" /\ pc' = [pc EXCEPT ![w] = "wait"] /\ ~shutdown /\ shutdown' = shutdown
        /\ priority_queue' = <<>>
    BY <1>12 DEF get_work_wait, Goto
  <2>2. Pushed' = Pushed
    BY <1>1, <1>2, <2>1 DEF Pushed
  <2>3. Len(priority_queue') = 0
    BY <2>1
  <2>4. Len(priority_queue') <= Cardinality(Looking') + Cardinality(Pushed')
    BY <1>3, <1>4, <2>2, <2>3
  <2> QED BY <1>4, <1>6, <2>1, <2>2, <2>4
<1>13. ASSUME NEW c \in Closers, join_all_signal(c)
       PROVE  WakeupsCounted'
  <2>1. shutdown' /\ pc[c] = "join_all" /\ pc' = [pc EXCEPT ![c] = "notify_all"]
    BY <1>13 DEF join_all_signal, Goto
  <2>2. pc'[c] = "notify_all" /\ Pushed' = Pushed
    BY <1>1, <1>2, <2>1 DEF Pushed
  <2> QED BY <1>4, <1>6, <2>1, <2>2
<1>14. ASSUME NEW c \in Closers, join_all_notify(c)
       PROVE  WakeupsCounted'
  <2>1. Sleeping' = {} /\ Pushed' = Pushed
    BY <1>1, <1>2, <1>14 DEF join_all_notify, Sleeping, Pushed
  <2> QED BY <1>4, <1>6, <2>1
<1> QED BY <1>n, <1>7, <1>8, <1>9, <1>10, <1>11, <1>12, <1>13, <1>14, WakeupsChange, ZenonT(30) DEF WakeupSteps

\* No worker sleeps through a source that is queued, nor through shutdown()
\* (thread_group.rs push_task_source, get_work and join_all).
THEOREM WakeupsAreNotLost == Spec => []NoLostWakeup
<1>1. Init => WakeupsCounted
  <2>1. Init => Sleeping = {} /\ Pushed = {}
    BY ThreadsAssumption DEF Init, GroupInit, Threads, Home, Sleeping, Pushed
  <2> QED BY <2>1, FS_EmptySet DEF WakeupsCounted, NoLostWakeup
<1>2. Spec => []WakeupsCounted
  BY <1>1, WakeupsCountedNext, TypeCorrect, PTL DEF Spec
<1>3. WakeupsCounted => NoLostWakeup
  BY DEF WakeupsCounted
<1> QED BY <1>2, <1>3, PTL
=============================================================================
