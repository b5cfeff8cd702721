------------------------ MODULE ThreadPoolOwnership -------------------------
(***************************************************************************)
(* The queue operators of Sequence and ThreadGroup, and the type invariant *)
(* of ThreadPool for every number of workers, posters, closers, tasks and  *)
(* sequences.  At most one worker is inside a sequence; the delayed queues *)
(* stay sorted; which steps move a task.                                   *)
(***************************************************************************)
EXTENDS ThreadPool, TLAPS

-----------------------------------------------------------------------------
(* What the operators on queues return.                                    *)

\* A queue is a function on 1..Len.
LEMMA SeqLemma ==
    ASSUME NEW S, NEW q \in Seq(S)
    PROVE  Len(q) \in Nat /\ DOMAIN q = 1..Len(q) /\ \A i \in 1..Len(q) : q[i] \in S
OBVIOUS

\* Only the empty queue has length zero.
LEMMA EmptyLemma ==
    ASSUME NEW S, NEW q \in Seq(S)
    PROVE  q = <<>> <=> Len(q) = 0
OBVIOUS

\* One queue behind another, by position.
LEMMA ConcatLemma ==
    ASSUME NEW S, NEW q \in Seq(S), NEW r \in Seq(S)
    PROVE  /\ q \o r \in Seq(S)
           /\ Len(q \o r) = Len(q) + Len(r)
           /\ \A i \in 1..Len(q) : (q \o r)[i] = q[i]
           /\ \A i \in 1..Len(r) : (q \o r)[Len(q) + i] = r[i]
OBVIOUS

\* A function on 1..n is a sequence of length n.
LEMMA FunctionIsSeq ==
    ASSUME NEW S, NEW n \in Nat, NEW f \in [1..n -> S]
    PROVE  f \in Seq(S) /\ Len(f) = n
OBVIOUS

\* push_back of a task or a source.
LEMMA AppendLemma ==
    ASSUME NEW S, NEW q \in Seq(S), NEW e \in S
    PROVE  /\ Append(q, e) \in Seq(S)
           /\ Len(Append(q, e)) = Len(q) + 1
           /\ \A i \in 1..Len(q) : Append(q, e)[i] = q[i]
           /\ Append(q, e)[Len(q) + 1] = e
OBVIOUS

\* A heap push keeps the entries and adds one.
LEMMA HeapInsertLemma ==
    ASSUME NEW S, NEW q \in Seq(S), NEW e \in S, NEW p \in 0..Len(q)
    PROVE  LET r == HeapInsert(q, p, e)
           IN  /\ r \in Seq(S)
               /\ Len(r) = Len(q) + 1
               /\ \A i \in 1..p : r[i] = q[i]
               /\ r[p + 1] = e
               /\ \A i \in (p + 1)..Len(q) : r[i + 1] = q[i]
<1> DEFINE r == HeapInsert(q, p, e)
<1>1. Len(q) \in Nat /\ \A i \in 1..Len(q) : q[i] \in S
  BY SeqLemma
<1>2. r \in [1..(Len(q) + 1) -> S]
  BY <1>1 DEF HeapInsert
<1>3. r \in Seq(S) /\ Len(r) = Len(q) + 1
  BY <1>1, <1>2, FunctionIsSeq
<1> QED BY <1>1, <1>3 DEF HeapInsert

\* A heap push at a position IsHeapPosition allows keeps the heap sorted.
LEMMA HeapInsertSorted ==
    ASSUME NEW S, NEW q \in Seq(S), NEW e \in S, NEW p \in 0..Len(q),
           \A x \in S : x.ready_time \in Int,
           IsHeapPosition(q, p, e),
           \A i, j \in 1..Len(q) : i <= j => q[i].ready_time <= q[j].ready_time
    PROVE  LET r == HeapInsert(q, p, e)
           IN  \A i, j \in 1..Len(r) : i <= j => r[i].ready_time <= r[j].ready_time
<1> DEFINE r == HeapInsert(q, p, e)
<1>1. Len(q) \in Nat /\ \A i \in 1..Len(q) : q[i] \in S
  BY SeqLemma
<1>2. Len(r) = Len(q) + 1
  BY HeapInsertLemma
<1>3. SUFFICES ASSUME NEW i \in 1..(Len(q) + 1), NEW j \in 1..(Len(q) + 1), i <= j
               PROVE  r[i].ready_time <= r[j].ready_time
  BY <1>2
<1>4. r[i] = (IF i <= p THEN q[i] ELSE IF i = p + 1 THEN e ELSE q[i - 1])
      /\ r[j] = (IF j <= p THEN q[j] ELSE IF j = p + 1 THEN e ELSE q[j - 1])
  BY <1>1 DEF HeapInsert
<1>5. CASE i <= p /\ j = p + 1
  BY <1>1, <1>4, <1>5 DEF IsHeapPosition
<1>6. CASE i <= p /\ j <= p
  BY <1>1, <1>3, <1>4, <1>6
<1>7. CASE i <= p /\ j > p + 1
  BY <1>1, <1>3, <1>4, <1>7
<1>8. CASE i = p + 1 /\ j = p + 1
  BY <1>1, <1>4, <1>8
<1>9. CASE i = p + 1 /\ j > p + 1
  <2>1. r[i] = e /\ r[j] = q[j - 1] /\ j - 1 \in (p + 1)..Len(q)
    BY <1>1, <1>4, <1>9
  <2>2. e.ready_time < q[j - 1].ready_time
    BY <2>1 DEF IsHeapPosition
  <2> QED BY <1>1, <2>1, <2>2
<1>10. CASE i > p + 1
  <2>1. r[i] = q[i - 1] /\ r[j] = q[j - 1] /\ i - 1 \in 1..Len(q) /\ j - 1 \in 1..Len(q)
    BY <1>1, <1>3, <1>4, <1>10
  <2> QED BY <1>3, <2>1
<1> QED BY <1>1, <1>3, <1>5, <1>6, <1>7, <1>8, <1>9, <1>10

\* Popping k entries off the front.
LEMMA DropFirstLemma ==
    ASSUME NEW S, NEW q \in Seq(S), NEW k \in 0..Len(q)
    PROVE  LET r == DropFirst(q, k)
           IN  /\ r \in Seq(S)
               /\ Len(r) = Len(q) - k
               /\ \A i \in 1..Len(r) : i + k \in 1..Len(q) /\ r[i] = q[i + k]
<1> DEFINE r == DropFirst(q, k)
<1>1. Len(q) \in Nat /\ \A i \in 1..Len(q) : q[i] \in S
  BY SeqLemma
<1>2. Len(q) - k \in Nat /\ r \in [1..(Len(q) - k) -> S]
  BY <1>1 DEF DropFirst
<1>3. r \in Seq(S) /\ Len(r) = Len(q) - k
  BY <1>2, FunctionIsSeq
<1> QED BY <1>1, <1>3 DEF DropFirst

\* Popping entry i of the priority queue keeps every other entry.
LEMMA WithoutEntryLemma ==
    ASSUME NEW S, NEW q \in Seq(S), NEW i \in 1..Len(q)
    PROVE  LET r == WithoutEntry(q, i)
           IN  /\ r \in Seq(S)
               /\ Len(r) = Len(q) - 1
               /\ \A j \in 1..Len(q) : j # i => \E l \in 1..Len(r) : r[l] = q[j]
<1> DEFINE r == WithoutEntry(q, i)
<1>1. Len(q) \in Nat /\ \A j \in 1..Len(q) : q[j] \in S
  BY SeqLemma
<1>2. Len(q) - 1 \in Nat /\ r \in [1..(Len(q) - 1) -> S]
  BY <1>1 DEF WithoutEntry
<1>3. r \in Seq(S) /\ Len(r) = Len(q) - 1
  BY <1>2, FunctionIsSeq
<1>4. ASSUME NEW j \in 1..Len(q), j # i
      PROVE  \E l \in 1..Len(r) : r[l] = q[j]
  <2>1. CASE j < i
    BY <1>1, <1>3, <2>1 DEF WithoutEntry
  <2>2. CASE j > i
    <3>1. j - 1 \in 1..(Len(q) - 1) /\ ~(j - 1 < i) /\ (j - 1) + 1 = j
      BY <1>1, <2>2
    <3>2. r[j - 1] = q[j]
      BY <3>1 DEF WithoutEntry
    <3> QED BY <1>3, <3>1, <3>2
  <2> QED BY <1>1, <1>4, <2>1, <2>2
<1> QED BY <1>3, <1>4

\* flush_ready_delayed_tasks puts k tasks behind those already in the queue.
LEMMA FlushedQueueLemma ==
    ASSUME SequenceTypeOK, NEW s \in Seqs, NEW k \in 0..Len(delayed_queue[s])
    PROVE  /\ FlushedQueue(s, k) \in Seq(Tasks)
           /\ Len(FlushedQueue(s, k)) = Len(immediate_queue[s]) + k
<1> DEFINE f == [i \in 1..k |-> delayed_queue[s][i].task]
<1>1. immediate_queue[s] \in Seq(Tasks) /\ delayed_queue[s] \in Seq(DelayedTask)
  BY DEF SequenceTypeOK
<1>2. Len(delayed_queue[s]) \in Nat
      /\ \A i \in 1..Len(delayed_queue[s]) : delayed_queue[s][i] \in DelayedTask
  BY <1>1, SeqLemma
<1>3. k \in Nat /\ f \in [1..k -> Tasks]
  BY <1>2 DEF DelayedTask
<1>4. f \in Seq(Tasks) /\ Len(f) = k
  BY <1>3, FunctionIsSeq
<1> QED BY <1>1, <1>4, ConcatLemma DEF FlushedQueue

\* A queue that is not empty has a first entry.
LEMMA FirstLemma ==
    ASSUME NEW S, NEW q \in Seq(S), q # <<>>
    PROVE  Len(q) \in Nat /\ 1 \in 1..Len(q) /\ q[1] \in S
OBVIOUS

\* Popping the first task of a queue.
LEMMA HeadTailLemma ==
    ASSUME NEW S, NEW q \in Seq(S), q # <<>>
    PROVE  Head(q) \in S /\ Tail(q) \in Seq(S) /\ Len(Tail(q)) = Len(q) - 1
OBVIOUS

\* The flushed queue lists the immediate tasks first and then the k that are due.
LEMMA FlushedQueueEntries ==
    ASSUME SequenceTypeOK, NEW s \in Seqs, NEW k \in 0..Len(delayed_queue[s])
    PROVE  LET n == Len(immediate_queue[s])
           IN  /\ \A i \in 1..n : FlushedQueue(s, k)[i] = immediate_queue[s][i]
               /\ \A i \in 1..k : FlushedQueue(s, k)[n + i] = delayed_queue[s][i].task
<1>1. immediate_queue[s] \in Seq(Tasks) /\ delayed_queue[s] \in Seq(DelayedTask)
  BY DEF SequenceTypeOK
<1>2. Len(delayed_queue[s]) \in Nat /\ Len(immediate_queue[s]) \in Nat
      /\ \A i \in 1..Len(delayed_queue[s]) : delayed_queue[s][i] \in DelayedTask
  BY <1>1, SeqLemma
<1> DEFINE due_tasks == [i \in 1..k |-> delayed_queue[s][i].task]
<1>3. due_tasks \in [1..k -> Tasks]
  BY <1>2, SMTT(30) DEF DelayedTask
<1>4. due_tasks \in Seq(Tasks) /\ Len(due_tasks) = k
  BY <1>2, <1>3, FunctionIsSeq
<1>5. \A i \in 1..k : due_tasks[i] = delayed_queue[s][i].task
  OBVIOUS
<1> HIDE DEF due_tasks
<1>6. FlushedQueue(s, k) = immediate_queue[s] \o due_tasks
  BY DEF FlushedQueue, due_tasks
<1> QED BY <1>1, <1>2, <1>4, <1>5, <1>6, ConcatLemma

\* What is left after the pop, by position.
LEMMA TailEntries ==
    ASSUME NEW S, NEW q \in Seq(S), q # <<>>
    PROVE  Head(q) = q[1] /\ \A i \in 1..Len(Tail(q)) : i + 1 \in 1..Len(q) /\ Tail(q)[i] = q[i + 1]
OBVIOUS

-----------------------------------------------------------------------------
(* The type invariant.                                                     *)

USE DEF vars, sequenceVars, queueVars, groupVars, groupData, managerVars, trackerVars

\* The pool new_impl builds is well typed: every thread at the top of its loop.
LEMMA TypeInit == Init => TypeOK
<1> SUFFICES ASSUME Init PROVE TypeOK
  OBVIOUS
<1>1. SequenceTypeOK
  BY MaxTimeAssumption DEF Init, SequenceInit, SequenceTypeOK, Time
<1>2. GroupTypeOK
  <2>1. shutdown \in BOOLEAN
    BY Zenon DEF Init, GroupInit
  <2> QED BY <2>1, ThreadsAssumption DEF Init, GroupInit, GroupTypeOK
<1>3. ManagerTypeOK
  <2>1. timer_shutdown \in BOOLEAN /\ timer_handle \in BOOLEAN
    BY Zenon DEF Init, ManagerInit
  <2> QED BY <2>1, MaxTimeAssumption DEF Init, ManagerInit, ManagerTypeOK, Time
<1>4. TrackerTypeOK
  <2>1. shutdown_started \in BOOLEAN
    BY Zenon DEF Init, TrackerInit
  <2> QED BY <2>1 DEF Init, TrackerInit, TrackerTypeOK
<1>5. HistoryTypeOK
  BY MaxTimeAssumption DEF Init, HistoryTypeOK, Statuses, Time
<1>6. ThreadsTypeOK
  BY ThreadsAssumption DEF Init, GroupInit, Home, ThreadsTypeOK, ThreadOK, Labels,
     Threads, WorkerLabels, PusherLabels, CloserLabels, HoldsSource, HoldsTask
<1> QED BY <1>1, <1>2, <1>3, <1>4, <1>5, <1>6 DEF TypeOK

\* Each step leaves every thread where its code can be.
LEMMA ThreadsTypeNext == TypeOK /\ [Next]_vars => ThreadsTypeOK'
<1> SUFFICES ASSUME TypeOK
             PROVE  [Next]_vars => ThreadsTypeOK'
  OBVIOUS
<1>n. SUFFICES ASSUME [Next]_vars
      PROVE  ThreadsTypeOK'
  OBVIOUS
<1>0. ThreadsTypeOK
  BY DEF TypeOK
<1> USE <1>0, ThreadsAssumption, TimerAssumption
<1> USE DEF ThreadsTypeOK, ThreadOK, Labels, Threads, HoldsSource, HoldsTask, Goto
<1>1. ASSUME NEW p \in Pushers \ {Timer}, NEW t \in Tasks, pool_post(p, t)
      PROVE  ThreadsTypeOK'
  <2>1. CASE will_post_task(Behavior[t])
    <3>1. pc[p] = "home" /\ pc' = [pc EXCEPT ![p] = "accepted"]
          /\ task' = [task EXCEPT ![p] = t] /\ source' = source
      BY <1>1, <2>1 DEF pool_post, Accept, MayPost
    <3> QED BY <3>1 DEF PusherLabels
  <2>2. CASE ~will_post_task(Behavior[t])
    <3>1. UNCHANGED <<pc, source, task>>
      BY <1>1, <2>2 DEF pool_post
    <3> QED BY <3>1
  <2> QED BY <2>1, <2>2
<1>2. ASSUME NEW p \in Pushers \ {Timer}, NEW t \in Tasks, runner_post(p, t)
      PROVE  ThreadsTypeOK'
  BY <1>2 DEF runner_post, Accept, MayPost, PusherLabels
<1>3. ASSUME NEW p \in Pushers \ {Timer}, post_task_push(p)
      PROVE  ThreadsTypeOK'
  BY <1>3, PoolAssumption DEF post_task_push, HandOver, PusherLabels
<1>4. ASSUME NEW p \in Pushers \ {Timer}, post_delayed_task_deadline(p)
      PROVE  ThreadsTypeOK'
  BY <1>4 DEF post_delayed_task_deadline, PusherLabels
<1>5. ASSUME NEW p \in Pushers \ {Timer}, post_delayed_task_push(p)
      PROVE  ThreadsTypeOK'
  BY <1>5, PoolAssumption DEF post_delayed_task_push, HandOver, PusherLabels
<1>6. ASSUME NEW th \in Workers \cup Pushers, push_task_source(th)
      PROVE  ThreadsTypeOK'
  BY <1>6 DEF push_task_source, WorkerLabels, PusherLabels
<1>7. ASSUME NEW th \in Workers \cup Pushers, notify_one(th)
      PROVE  ThreadsTypeOK'
  <2>1. CASE Sleeping = {}
    BY <1>7, <2>1 DEF notify_one, Home, WorkerLabels, PusherLabels
  <2>2. CASE Sleeping # {}
    <3>1. PICK w \in Sleeping : pc' = [pc EXCEPT ![th] = Home(th), ![w] = "get_work"]
      BY <1>7, <2>2 DEF notify_one
    <3>2. w \in Workers /\ pc[w] = "wait" /\ pc[th] = "notify" /\ w # th
      BY <1>7, <3>1 DEF notify_one, Sleeping
    <3> QED BY <1>7, <3>1, <3>2 DEF notify_one, Home, WorkerLabels, PusherLabels
  <2> QED BY <2>1, <2>2
<1>8. ASSUME NEW p \in Pushers \ {Timer}, add_sequence(p)
      PROVE  ThreadsTypeOK'
  BY <1>8 DEF add_sequence, PusherLabels
<1>9. ASSUME NEW th \in Threads \ {Timer}, NEW l \in Labels(th) \ (HoldsSource \cup HoldsTask),
             pc[th] \notin HoldsTask, NotifyTimer(th, l),
             source' = [source EXCEPT ![th] = NoSeq], task' = task
      PROVE  ThreadsTypeOK'
  BY <1>9 DEF NotifyTimer, TimerWaits, WorkerLabels, PusherLabels, CloserLabels
<1>10. ASSUME NEW p \in Pushers \ {Timer}, add_sequence_notify(p)
       PROVE  ThreadsTypeOK'
  BY <1>9, <1>10, Zenon DEF add_sequence_notify, PusherLabels
<1>11. ASSUME NEW w \in Workers, get_work_none(w)
       PROVE  ThreadsTypeOK'
  BY <1>11 DEF get_work_none, WorkerLabels
<1>12. ASSUME NEW w \in Workers, get_work_some(w)
       PROVE  ThreadsTypeOK'
  <2>1. PICK i \in 1..Len(priority_queue) : source' = [source EXCEPT ![w] = priority_queue[i]]
    BY <1>12, ZenonT(30) DEF get_work_some
  <2>2. priority_queue[i] \in Seqs
    BY <2>1, SeqLemma, ZenonT(30) DEF TypeOK, GroupTypeOK
  <2> QED BY <1>12, <2>1, <2>2 DEF get_work_some, WorkerLabels
<1>13. ASSUME NEW w \in Workers, get_work_wait(w) \/ spurious_wakeup(w)
       PROVE  ThreadsTypeOK'
  BY <1>13 DEF get_work_wait, spurious_wakeup, WorkerLabels
<1>14. ASSUME NEW w \in Workers, will_run_task(w)
       PROVE  ThreadsTypeOK'
  <2>1. CASE has_worker[source[w]]
    BY <1>14, <2>1 DEF will_run_task, WorkerLabels
  <2>2. CASE ~has_worker[source[w]]
    BY <1>14, <2>2 DEF will_run_task, WorkerLabels
  <2> QED BY <2>1, <2>2
<1>15. ASSUME NEW w \in Workers, take_task(w)
       PROVE  ThreadsTypeOK'
  <2>1. source[w] \in Seqs
    BY <1>15 DEF take_task
  <2>2. PICK k \in 0..Len(delayed_queue[source[w]]) :
          IF FlushedQueue(source[w], k) = <<>>
            THEN pc' = [pc EXCEPT ![w] = "release"] /\ UNCHANGED <<immediate_queue, task>>
            ELSE /\ pc' = [pc EXCEPT ![w] = "run"]
                 /\ task' = [task EXCEPT ![w] = Head(FlushedQueue(source[w], k))]
    BY <1>15 DEF take_task
  <2>3. FlushedQueue(source[w], k) \in Seq(Tasks)
    BY <2>1, FlushedQueueLemma DEF TypeOK
  <2>4. pc[w] = "take" /\ source' = source
    BY <1>15 DEF take_task
  <2>5. CASE FlushedQueue(source[w], k) = <<>>
    <3>1. pc' = [pc EXCEPT ![w] = "release"] /\ task' = task
      BY <2>2, <2>5
    <3> QED BY <2>4, <3>1 DEF WorkerLabels
  <2>6. CASE FlushedQueue(source[w], k) # <<>>
    <3>1. Head(FlushedQueue(source[w], k)) \in Tasks
      BY <2>3, <2>6, HeadTailLemma
    <3> QED BY <2>2, <2>4, <2>6, <3>1 DEF WorkerLabels
  <2> QED BY <2>5, <2>6
<1>16. ASSUME NEW w \in Workers, did_process_task_release(w)
       PROVE  ThreadsTypeOK'
  BY <1>16 DEF did_process_task_release, WorkerLabels
<1>17. ASSUME NEW w \in Workers, did_process_task_check(w)
       PROVE  ThreadsTypeOK'
  <2>1. CASE has_ready_tasks(source[w])
    BY <1>17, <2>1 DEF did_process_task_check, WorkerLabels
  <2>2. CASE ~has_ready_tasks(source[w])
    BY <1>17, <2>2, SMTT(30) DEF did_process_task_check, WorkerLabels
  <2> QED BY <2>1, <2>2
<1>18. ASSUME NEW w \in Workers, wrap_skips(w) \/ callback_starts(w)
       PROVE  ThreadsTypeOK'
  BY <1>18 DEF wrap_skips, callback_starts, WorkerLabels
<1>19. ASSUME NEW w \in Workers, callback_returns(w)
       PROVE  ThreadsTypeOK'
  BY <1>19 DEF callback_returns, WorkerLabels
<1>20. ASSUME NEW w \in Workers, after_run_task(w)
       PROVE  ThreadsTypeOK'
  BY <1>20 DEF after_run_task, WorkerLabels, CloserLabels, PusherLabels
<1>21. ASSUME TimerStep \/ timer_spurious_wakeup
       PROVE  ThreadsTypeOK'
  <2>1. CASE timer_loop_push
    <3>1. heap[1] \in DelayedEntry
      BY <2>1, FirstLemma, ZenonT(30) DEF timer_loop_push, TypeOK, ManagerTypeOK
    <3>2. heap[1].sequence \in Seqs
      BY <3>1 DEF DelayedEntry
    <3> QED BY <2>1, <3>2 DEF timer_loop_push, PusherLabels
  <2>2. CASE timer_loop_break \/ timer_loop_wait \/ timer_loop_wait_timeout
    BY <2>2, SMTT(30) DEF timer_loop_break, timer_loop_wait, timer_loop_wait_timeout, PusherLabels
  <2>3. CASE timer_timeout \/ timer_spurious_wakeup
    BY <2>3 DEF timer_timeout, timer_spurious_wakeup, TimerWaits, PusherLabels
  <2> QED BY <1>21, <2>1, <2>2, <2>3 DEF TimerStep
<1>22. ASSUME NEW c \in Closers,
              tracker_shutdown(c) \/ tracker_shutdown_loop(c) \/ tracker_spurious_wakeup(c)
       PROVE  ThreadsTypeOK'
  BY <1>22, SMTT(30)
     DEF tracker_shutdown, tracker_shutdown_loop, tracker_spurious_wakeup, CloserLabels
<1>23. ASSUME NEW c \in Closers, join_all_signal(c) \/ join_all_take(c) \/ join_all_join(c)
       PROVE  ThreadsTypeOK'
  BY <1>23, SMTT(30) DEF join_all_signal, join_all_take, join_all_join, CloserLabels
<1>24. ASSUME NEW c \in Closers, join_all_notify(c)
       PROVE  ThreadsTypeOK'
  BY <1>24, SMTT(30) DEF join_all_notify, Sleeping, WorkerLabels, CloserLabels
<1>25. ASSUME NEW c \in Closers, manager_shutdown_signal(c) \/ manager_shutdown_take(c)
                                 \/ manager_shutdown_join(c)
       PROVE  ThreadsTypeOK'
  BY <1>25, SMTT(30)
     DEF manager_shutdown_signal, manager_shutdown_take, manager_shutdown_join, CloserLabels
<1>26. ASSUME NEW c \in Closers, manager_shutdown_notify(c)
       PROVE  ThreadsTypeOK'
  BY <1>9, <1>26, SMTT(30) DEF manager_shutdown_notify, CloserLabels
<1>27. ASSUME UNCHANGED groupVars
       PROVE  ThreadsTypeOK'
  BY <1>27
<1> HIDE DEF TypeOK, ThreadsTypeOK, ThreadOK, Labels, Threads, HoldsSource, HoldsTask, Goto
<1>28. ASSUME NEW p \in Pushers \ {Timer}, PosterStep(p)
       PROVE  ThreadsTypeOK'
  BY <1>1, <1>2, <1>3, <1>4, <1>5, <1>6, <1>7, <1>8, <1>10, <1>28
     DEF PosterStep, PushStep, AddStep
<1>29. ASSUME NEW w \in Workers, WorkerStepInPool(w)
       PROVE  ThreadsTypeOK'
  BY <1>6, <1>7, <1>11, <1>12, <1>13, <1>14, <1>15, <1>16, <1>17, <1>18, <1>19, <1>20, <1>29
     DEF WorkerStepInPool, WorkerStep
<1>30. ASSUME NEW c \in Closers, ShutdownStep(c)
       PROVE  ThreadsTypeOK'
  BY <1>22, <1>23, <1>24, <1>25, <1>26, <1>30 DEF ShutdownStep, JoinAllStep, ManagerShutdownStep
<1>31. ASSUME TimerStepInPool \/ SpuriousWakeup \/ TickInPool
       PROVE  ThreadsTypeOK'
  BY <1>6, <1>7, <1>13, <1>21, <1>22, <1>27, <1>31
     DEF TimerStepInPool, PushStep, SpuriousWakeup, TickInPool
<1> QED BY <1>n, <1>22, <1>27, <1>28, <1>29, <1>30, <1>31 DEF Next

\* The parts of TypeOK about the data the threads share.
DataTypeOK ==
    SequenceTypeOK /\ GroupTypeOK /\ ManagerTypeOK /\ TrackerTypeOK /\ HistoryTypeOK

\* A component whose variables a step leaves alone keeps its types.
LEMMA TypesKept ==
    TypeOK => /\ UNCHANGED sequenceVars => SequenceTypeOK'
              /\ UNCHANGED groupData => GroupTypeOK'
              /\ UNCHANGED managerVars => ManagerTypeOK'
              /\ UNCHANGED trackerVars => TrackerTypeOK'
              /\ UNCHANGED <<status, due>> => HistoryTypeOK'
<1> SUFFICES ASSUME TypeOK
             PROVE  /\ UNCHANGED sequenceVars => SequenceTypeOK'
                    /\ UNCHANGED groupData => GroupTypeOK'
                    /\ UNCHANGED managerVars => ManagerTypeOK'
                    /\ UNCHANGED trackerVars => TrackerTypeOK'
                    /\ UNCHANGED <<status, due>> => HistoryTypeOK'
  OBVIOUS
<1>1. UNCHANGED sequenceVars => SequenceTypeOK'
  BY DEF TypeOK, SequenceTypeOK
<1>2. UNCHANGED groupData => GroupTypeOK'
  BY DEF TypeOK, GroupTypeOK
<1>3. UNCHANGED managerVars => ManagerTypeOK'
  BY DEF TypeOK, ManagerTypeOK
<1>4. UNCHANGED trackerVars => TrackerTypeOK'
  BY DEF TypeOK, TrackerTypeOK
<1>5. UNCHANGED <<status, due>> => HistoryTypeOK'
  BY DEF TypeOK, HistoryTypeOK
<1> QED BY <1>1, <1>2, <1>3, <1>4, <1>5

\* A step that moves only program counters and locals keeps the data's types.
LEMMA DataKept ==
    TypeOK /\ UNCHANGED <<sequenceVars, groupData, managerVars, trackerVars, status, due>>
        => DataTypeOK'
BY TypesKept DEF DataTypeOK

\* What a thread holds at a label of HoldsSource or HoldsTask.
LEMMA HeldTypes ==
    TypeOK => /\ \A th \in Threads : pc[th] \in HoldsSource => source[th] \in Seqs
              /\ \A th \in Threads : pc[th] \in HoldsTask => task[th] \in Tasks
              /\ Pushers \subseteq Threads /\ Workers \subseteq Threads /\ Timer \in Threads
BY TimerAssumption DEF TypeOK, ThreadsTypeOK, ThreadOK, Threads

\* push_task_source appends a sequence to the priority queue, whoever runs it.
LEMMA PushDataTypes ==
    ASSUME TypeOK, NEW th \in Workers \cup Pushers, push_task_source(th),
           UNCHANGED <<managerVars, trackerVars, status, due>>
    PROVE  DataTypeOK'
<1>1. source[th] \in Seqs
  BY HeldTypes DEF push_task_source, HoldsSource
<1>2. Append(priority_queue, source[th]) \in Seq(Seqs)
  BY <1>1, AppendLemma DEF TypeOK, GroupTypeOK
<1>3. GroupTypeOK'
  BY <1>2 DEF push_task_source, TypeOK, GroupTypeOK
<1> QED BY <1>3, TypesKept DEF DataTypeOK, push_task_source

\* The steps of a poster keep the data's types.
LEMMA PosterDataTypes ==
    ASSUME TypeOK, NEW p \in Pushers \ {Timer}, PosterStep(p)
    PROVE  DataTypeOK'
<1>1. ASSUME NEW t \in Tasks, pool_post(p, t)
      PROVE  DataTypeOK'
  <2>1. TrackerTypeOK'
    BY <1>1, SMTT(30) DEF pool_post, will_post_task_count, TypeOK, TrackerTypeOK
  <2>2. HistoryTypeOK'
    BY <1>1 DEF pool_post, Accept, TypeOK, HistoryTypeOK, Statuses
  <2> QED BY <1>1, <2>1, <2>2, TypesKept DEF DataTypeOK, pool_post
<1>2. ASSUME NEW t \in Tasks, runner_post(p, t)
      PROVE  DataTypeOK'
  <2>1. HistoryTypeOK'
    BY <1>2, Zenon DEF runner_post, Accept, TypeOK, HistoryTypeOK, Statuses
  <2> QED BY <1>2, <2>1, TypesKept DEF DataTypeOK, runner_post
<1>3. ASSUME post_task_push(p)
      PROVE  DataTypeOK'
  <2>1. task[p] \in Tasks /\ TaskSeq[task[p]] \in Seqs
    BY <1>3, HeldTypes, PoolAssumption, Zenon DEF post_task_push, HoldsTask
  <2>2. SequenceTypeOK'
    <3>1. Append(immediate_queue[TaskSeq[task[p]]], task[p]) \in Seq(Tasks)
      BY <2>1, AppendLemma, ZenonT(30) DEF TypeOK, SequenceTypeOK
    <3> QED BY <1>3, <2>1, <3>1, ZenonT(30) DEF post_task_push, push_task, TypeOK, SequenceTypeOK
  <2> QED BY <1>3, <2>2, TypesKept, Zenon DEF DataTypeOK, post_task_push
<1>4. ASSUME post_delayed_task_deadline(p)
      PROVE  DataTypeOK'
  <2>1. task[p] \in Tasks
    BY <1>4, HeldTypes, Zenon DEF post_delayed_task_deadline, HoldsTask
  <2>2. PICK d \in Delays : /\ now + d <= MaxTime
                            /\ ready_time' = [ready_time EXCEPT ![p] = now + d]
                            /\ due' = [due EXCEPT ![task[p]] = now + d]
    BY <1>4, ZenonT(30) DEF post_delayed_task_deadline
  <2>3. now + d \in Time
    <3>1. now \in 0..MaxTime
      BY Zenon DEF TypeOK, SequenceTypeOK, Time
    <3>2. d \in Nat
      BY <2>2, PoolAssumption, ZenonT(30)
    <3> QED BY <2>2, <3>1, <3>2, MaxTimeAssumption DEF Time
  <2>4. ManagerTypeOK' /\ HistoryTypeOK'
    BY <1>4, <2>1, <2>2, <2>3
       DEF post_delayed_task_deadline, TypeOK, ManagerTypeOK, HistoryTypeOK
  <2> QED BY <1>4, <2>4, TypesKept, Zenon DEF DataTypeOK, post_delayed_task_deadline
<1>5. ASSUME post_delayed_task_push(p)
      PROVE  DataTypeOK'
  <2> DEFINE s == TaskSeq[task[p]]
             e == [ready_time |-> ready_time[p], task |-> task[p]]
  <2>1. task[p] \in Tasks /\ s \in Seqs
    BY <1>5, HeldTypes, PoolAssumption, Zenon DEF post_delayed_task_push, HoldsTask
  <2>2. e \in DelayedTask
    BY <2>1 DEF DelayedTask, TypeOK, ManagerTypeOK
  <2>3. PICK i \in 0..Len(delayed_queue[s]) :
           delayed_queue' = [delayed_queue EXCEPT ![s] = HeapInsert(delayed_queue[s], i, e)]
    BY <1>5, Zenon DEF post_delayed_task_push, push_delayed_task
  <2>4. HeapInsert(delayed_queue[s], i, e) \in Seq(DelayedTask)
    BY <2>1, <2>2, HeapInsertLemma, Zenon DEF TypeOK, SequenceTypeOK
  <2>5. SequenceTypeOK'
    BY <1>5, <2>1, <2>3, <2>4, Zenon
       DEF post_delayed_task_push, push_delayed_task, TypeOK, SequenceTypeOK
  <2> QED BY <1>5, <2>5, TypesKept, Zenon DEF DataTypeOK, post_delayed_task_push
<1>6. ASSUME add_sequence(p), UNCHANGED <<trackerVars, status, due>>
      PROVE  DataTypeOK'
  <2> DEFINE e == [ready_time |-> ready_time[p], sequence |-> source[p]]
  <2>1. e \in DelayedEntry
    BY <1>6, HeldTypes, Zenon DEF add_sequence, HoldsSource, TypeOK, ManagerTypeOK, DelayedEntry
  <2>2. PICK i \in 0..Len(heap) : heap' = HeapInsert(heap, i, e)
    BY <1>6, Zenon DEF add_sequence
  <2>3. HeapInsert(heap, i, e) \in Seq(DelayedEntry)
    BY <2>1, HeapInsertLemma, Zenon DEF TypeOK, ManagerTypeOK
  <2>4. ManagerTypeOK'
    BY <1>6, <2>2, <2>3, ZenonT(30) DEF add_sequence, TypeOK, ManagerTypeOK
  <2> QED BY <1>6, <2>4, TypesKept, Zenon DEF DataTypeOK, add_sequence
<1>7. ASSUME add_sequence_notify(p),
             UNCHANGED <<trackerVars, status, due>>
      PROVE  DataTypeOK'
  <2>1. ManagerTypeOK'
    BY <1>7, MaxTimeAssumption, SMTT(30) DEF add_sequence_notify, TypeOK, ManagerTypeOK, Time
  <2> QED BY <1>7, <2>1, TypesKept DEF DataTypeOK, add_sequence_notify
<1>8. CASE PushStep(p)
  <2>1. CASE push_task_source(p)
    BY <1>8, <2>1, PushDataTypes DEF PushStep
  <2>2. CASE notify_one(p)
    BY <1>8, <2>2, DataKept DEF PushStep, notify_one
  <2> QED BY <1>8, <2>1, <2>2 DEF PushStep
<1>9. CASE AddStep(p)
  BY <1>6, <1>7, <1>9 DEF AddStep
<1> QED BY <1>1, <1>2, <1>3, <1>4, <1>5, <1>8, <1>9, Zenon DEF PosterStep

\* The steps of a worker keep the data's types.
LEMMA WorkerDataTypes ==
    ASSUME TypeOK, NEW w \in Workers, WorkerStepInPool(w)
    PROVE  DataTypeOK'
<1>1. ASSUME get_work_some(w),
             UNCHANGED <<managerVars, trackerVars, status, due>>
      PROVE  DataTypeOK'
  <2>1. PICK i \in 1..Len(priority_queue) : priority_queue' = WithoutEntry(priority_queue, i)
    BY <1>1 DEF get_work_some
  <2>2. WithoutEntry(priority_queue, i) \in Seq(Seqs)
    BY WithoutEntryLemma DEF TypeOK, GroupTypeOK
  <2>3. GroupTypeOK'
    BY <1>1, <2>1, <2>2 DEF get_work_some, TypeOK, GroupTypeOK
  <2> QED BY <1>1, <2>3, TypesKept DEF DataTypeOK, get_work_some
<1>2. ASSUME will_run_task(w) \/ did_process_task_release(w),
             UNCHANGED <<managerVars, trackerVars, status, due>>
      PROVE  DataTypeOK'
  <2>1. SequenceTypeOK'
    BY <1>2, Zenon DEF will_run_task, did_process_task_release, TypeOK, SequenceTypeOK
  <2> QED BY <1>2, <2>1, TypesKept DEF DataTypeOK, will_run_task, did_process_task_release
<1>3. ASSUME take_task(w),
             UNCHANGED <<managerVars, trackerVars, status, due>>
      PROVE  DataTypeOK'
  <2> DEFINE s == source[w]
  <2>1. s \in Seqs
    BY <1>3, HeldTypes, ZenonT(30) DEF take_task, HoldsSource
  <2>2. PICK k \in 0..Len(delayed_queue[s]) :
          /\ delayed_queue' = [delayed_queue EXCEPT ![s] = DropFirst(@, k)]
          /\ \/ UNCHANGED immediate_queue
             \/ /\ FlushedQueue(s, k) # <<>>
                /\ immediate_queue' = [immediate_queue EXCEPT ![s] = Tail(FlushedQueue(s, k))]
    BY <1>3, ZenonT(30) DEF take_task
  <2>3. DropFirst(delayed_queue[s], k) \in Seq(DelayedTask)
    BY <2>1, DropFirstLemma DEF TypeOK, SequenceTypeOK
  <2>4. FlushedQueue(s, k) \in Seq(Tasks)
    BY <2>1, FlushedQueueLemma DEF TypeOK
  <2>5. FlushedQueue(s, k) # <<>> => Tail(FlushedQueue(s, k)) \in Seq(Tasks)
    BY <2>4, HeadTailLemma
  <2>6. SequenceTypeOK'
    <3>1. delayed_queue' \in [Seqs -> Seq(DelayedTask)]
      BY <2>1, <2>2, <2>3 DEF TypeOK, SequenceTypeOK
    <3>2. immediate_queue' \in [Seqs -> Seq(Tasks)]
      BY <2>1, <2>2, <2>5, ZenonT(30) DEF TypeOK, SequenceTypeOK
    <3>3. UNCHANGED <<has_worker, now>>
      BY <1>3, ZenonT(30) DEF take_task
    <3> QED BY <3>1, <3>2, <3>3 DEF TypeOK, SequenceTypeOK
  <2> QED BY <1>3, <2>6, TypesKept, ZenonT(30) DEF DataTypeOK, take_task
<1>4. ASSUME wrap_skips(w) \/ callback_returns(w)
      PROVE  DataTypeOK'
  <2>1. HistoryTypeOK'
    BY <1>4, Zenon DEF wrap_skips, callback_returns, TypeOK, HistoryTypeOK, Statuses
  <2> QED BY <1>4, <2>1, TypesKept, Zenon DEF DataTypeOK, wrap_skips, callback_returns
<1>5. ASSUME after_run_task(w)
      PROVE  DataTypeOK'
  <2>1. TrackerTypeOK'
    BY <1>5, SMTT(30) DEF after_run_task, after_run_task_count, TypeOK, TrackerTypeOK
  <2> QED BY <1>5, <2>1, TypesKept DEF DataTypeOK, after_run_task
<1>6. ASSUME notify_one(w) \/ get_work_none(w) \/ get_work_wait(w) \/ did_process_task_check(w),
             UNCHANGED <<managerVars, trackerVars, status, due>>
      PROVE  DataTypeOK'
  BY <1>6, DataKept, Zenon DEF notify_one, get_work_none, get_work_wait, did_process_task_check
<1>7. ASSUME WorkerStep(w), UNCHANGED <<managerVars, trackerVars, status, due>>
      PROVE  DataTypeOK'
  BY <1>1, <1>2, <1>3, <1>6, <1>7, PushDataTypes, Zenon DEF WorkerStep
<1>8. CASE callback_starts(w)
  BY <1>8, DataKept, Zenon DEF callback_starts
<1> QED BY <1>4, <1>5, <1>7, <1>8, Zenon DEF WorkerStepInPool

\* The steps of the timer thread keep the data's types.
LEMMA TimerDataTypes ==
    ASSUME TypeOK, TimerStepInPool
    PROVE  DataTypeOK'
<1>1. ASSUME timer_loop_push, UNCHANGED <<trackerVars, status, due>>
      PROVE  DataTypeOK'
  <2>1. Len(heap) \in Nat /\ 1 \in 0..Len(heap)
    <3>1. heap \in Seq(DelayedEntry)
      BY Zenon DEF TypeOK, ManagerTypeOK
    <3>2. heap # <<>>
      BY <1>1, ZenonT(30) DEF timer_loop_push
    <3> QED BY <3>1, <3>2, FirstLemma, SMTT(30)
  <2>2. DropFirst(heap, 1) \in Seq(DelayedEntry)
    BY <2>1, DropFirstLemma, ZenonT(30) DEF TypeOK, ManagerTypeOK
  <2>3. ManagerTypeOK'
    BY <1>1, <2>2, ZenonT(30) DEF timer_loop_push, TypeOK, ManagerTypeOK
  <2> QED BY <1>1, <2>3, TypesKept, Zenon DEF DataTypeOK, timer_loop_push
<1>2. ASSUME timer_loop_wait_timeout, UNCHANGED <<trackerVars, status, due>>
      PROVE  DataTypeOK'
  <2>1. heap[1] \in DelayedEntry
    BY <1>2, FirstLemma, ZenonT(30) DEF timer_loop_wait_timeout, TypeOK, ManagerTypeOK
  <2>2. ManagerTypeOK'
    BY <1>2, <2>1, ZenonT(30) DEF timer_loop_wait_timeout, TypeOK, ManagerTypeOK, DelayedEntry
  <2> QED BY <1>2, <2>2, TypesKept, Zenon DEF DataTypeOK, timer_loop_wait_timeout
<1>3. CASE PushStep(Timer)
  BY <1>3, PushDataTypes, DataKept, TimerAssumption DEF PushStep, notify_one
<1>4. ASSUME timer_loop_break \/ timer_loop_wait \/ timer_timeout,
             UNCHANGED <<trackerVars, status, due>>
      PROVE  DataTypeOK'
  BY <1>4, DataKept DEF timer_loop_break, timer_loop_wait, timer_timeout
<1> QED BY <1>1, <1>2, <1>3, <1>4, Zenon DEF TimerStepInPool, TimerStep

\* The steps of shutdown, after the tracker's, keep the data's types.
LEMMA ShutdownDataTypes ==
    ASSUME TypeOK, NEW c \in Closers, ShutdownStep(c)
    PROVE  DataTypeOK'
<1>1. ASSUME JoinAllStep(c), UNCHANGED <<managerVars, trackerVars, status, due>>
      PROVE  DataTypeOK'
  <2>1. shutdown' \in BOOLEAN
    <3>1. shutdown' = TRUE \/ shutdown' = shutdown
      BY <1>1 DEF JoinAllStep, join_all_signal, join_all_notify, join_all_take, join_all_join
    <3> QED BY <3>1, ZenonT(30) DEF TypeOK, GroupTypeOK
  <2>2. GroupTypeOK'
    BY <1>1, <2>1 DEF JoinAllStep, join_all_signal, join_all_notify, join_all_take,
                       join_all_join, TypeOK, GroupTypeOK
  <2> QED BY <1>1, <2>2, TypesKept
             DEF DataTypeOK, JoinAllStep, join_all_signal, join_all_notify, join_all_take,
                 join_all_join
<1>2. ASSUME ManagerShutdownStep(c), UNCHANGED <<trackerVars, status, due>>
      PROVE  DataTypeOK'
  <2>1. timer_shutdown' \in BOOLEAN /\ timer_handle' \in BOOLEAN
    <3>1. (timer_shutdown' = TRUE \/ timer_shutdown' = timer_shutdown)
          /\ (timer_handle' = FALSE \/ timer_handle' = timer_handle)
      BY <1>2 DEF ManagerShutdownStep, manager_shutdown_signal, manager_shutdown_notify,
                   manager_shutdown_take, manager_shutdown_join
    <3> QED BY <3>1, ZenonT(30) DEF TypeOK, ManagerTypeOK
  <2>2. ManagerTypeOK'
    BY <1>2, <2>1 DEF ManagerShutdownStep, manager_shutdown_signal, manager_shutdown_notify,
                       manager_shutdown_take, manager_shutdown_join, TypeOK, ManagerTypeOK
  <2> QED BY <1>2, <2>2, TypesKept
             DEF DataTypeOK, ManagerShutdownStep, manager_shutdown_signal, manager_shutdown_notify,
                 manager_shutdown_take, manager_shutdown_join
<1> QED BY <1>1, <1>2, DataKept DEF ShutdownStep, tracker_shutdown_loop

\* Each step keeps the types of the data the threads share.
LEMMA DataTypeNext == TypeOK /\ [Next]_vars => DataTypeOK'
<1> SUFFICES ASSUME TypeOK
             PROVE  [Next]_vars => DataTypeOK'
  OBVIOUS
<1>n. SUFFICES ASSUME [Next]_vars
      PROVE  DataTypeOK'
  OBVIOUS
<1>1. ASSUME NEW c \in Closers, tracker_shutdown(c)
      PROVE  DataTypeOK'
  <2>1. shutdown_started' \in BOOLEAN
    BY <1>1 DEF tracker_shutdown
  <2>2. TrackerTypeOK'
    BY <1>1, <2>1 DEF tracker_shutdown, TypeOK, TrackerTypeOK
  <2> QED BY <1>1, <2>2, TypesKept DEF DataTypeOK, tracker_shutdown
<1>2. ASSUME TickInPool
      PROVE  DataTypeOK'
  <2>1. SequenceTypeOK'
    BY <1>2, MaxTimeAssumption, SMTT(30) DEF TickInPool, Tick, TypeOK, SequenceTypeOK, Time
  <2> QED BY <1>2, <2>1, TypesKept DEF DataTypeOK, TickInPool
<1>3. ASSUME SpuriousWakeup
      PROVE  DataTypeOK'
  BY <1>3, DataKept DEF SpuriousWakeup, spurious_wakeup, timer_spurious_wakeup,
                      tracker_spurious_wakeup
<1> QED BY <1>n, <1>1, <1>2, <1>3, DataKept, PosterDataTypes, WorkerDataTypes, TimerDataTypes,
           ShutdownDataTypes DEF Next

\* No step of a thread breaks a type: the two halves above together.
LEMMA TypeNext == TypeOK /\ [Next]_vars => TypeOK'
BY ThreadsTypeNext, DataTypeNext DEF TypeOK, DataTypeOK

\* Every reachable state is well typed, and every thread is where its code can be.
THEOREM TypeCorrect == Spec => []TypeOK
BY TypeInit, TypeNext, PTL DEF Spec

-----------------------------------------------------------------------------
(* Who owns a sequence, and where a task is.                               *)

\* No worker gains or loses the sequence it owns.
OwnersKept ==
    /\ has_worker' = has_worker
    /\ \A w \in Workers : /\ Owns(w)' <=> Owns(w)
                          /\ Owns(w) => source'[w] = source[w]

\* Owners change only when will_run_task claims and did_process_task releases.
LEMMA OwnersChange ==
    TypeOK /\ [Next]_vars
        => \/ OwnersKept
           \/ \E w \in Workers : will_run_task(w) \/ did_process_task_release(w)
<1> SUFFICES ASSUME TypeOK, \A w \in Workers : ~will_run_task(w) /\ ~did_process_task_release(w)
             PROVE  [Next]_vars => OwnersKept
  OBVIOUS
<1>n. SUFFICES ASSUME [Next]_vars
      PROVE  OwnersKept
  OBVIOUS
<1>1. pc \in [Threads -> WorkerLabels \cup PusherLabels \cup CloserLabels]
      /\ source \in [Threads -> Seqs \cup {NoSeq}]
  BY DEF TypeOK, ThreadsTypeOK
<1>2. Threads = Workers \cup Pushers \cup Closers /\ Timer \in Pushers
      /\ Workers \cap (Pushers \cup Closers) = {}
  BY ThreadsAssumption, TimerAssumption DEF Threads
<1>3. ASSUME UNCHANGED <<has_worker, pc, source>>
      PROVE  OwnersKept
  BY <1>3 DEF OwnersKept, Owns
<1>4. ASSUME NEW th \in Pushers \cup Closers, NEW l, Goto(th, l), has_worker' = has_worker,
             \A w \in Workers : source'[w] = source[w]
      PROVE  OwnersKept
  BY <1>1, <1>2, <1>4 DEF OwnersKept, Owns, Goto
<1>5. ASSUME NEW p \in Pushers \ {Timer}, NEW t \in Tasks, pool_post(p, t)
      PROVE  OwnersKept
  <2>1. CASE will_post_task(Behavior[t])
    BY <1>4, <1>5, <2>1 DEF pool_post, Accept
  <2>2. CASE ~will_post_task(Behavior[t])
    BY <1>3, <1>5, <2>2 DEF pool_post
  <2> QED BY <2>1, <2>2
<1>6. ASSUME NEW p \in Pushers \ {Timer}, NEW t \in Tasks, runner_post(p, t)
      PROVE  OwnersKept
  BY <1>4, <1>6 DEF runner_post, Accept
<1>7. ASSUME NEW p \in Pushers \ {Timer},
             post_task_push(p) \/ post_delayed_task_push(p)
      PROVE  OwnersKept
  <2>1. \A w \in Workers : source'[w] = source[w]
    BY <1>1, <1>2, <1>7 DEF post_task_push, post_delayed_task_push, HandOver
  <2> QED BY <1>4, <1>7, <2>1, ZenonT(30) DEF post_task_push, post_delayed_task_push
<1>8. ASSUME NEW p \in Pushers \ {Timer}, post_delayed_task_deadline(p) \/ add_sequence(p)
      PROVE  OwnersKept
  BY <1>4, <1>8, ZenonT(30) DEF post_delayed_task_deadline, add_sequence
<1>9. ASSUME NEW th \in Workers \cup Pushers, push_task_source(th)
      PROVE  OwnersKept
  BY <1>1, <1>2, <1>9 DEF push_task_source, Goto, OwnersKept, Owns
<1>10. ASSUME NEW th \in Workers \cup Pushers, notify_one(th)
       PROVE  OwnersKept
  <2>1. CASE Sleeping = {}
    BY <1>1, <1>2, <1>10, <2>1 DEF notify_one, Goto, Home, OwnersKept, Owns
  <2>2. CASE Sleeping # {}
    BY <1>1, <1>2, <1>10, <2>2 DEF notify_one, Sleeping, Home, OwnersKept, Owns
  <2> QED BY <2>1, <2>2
<1>11. ASSUME NEW p \in Pushers \ {Timer}, add_sequence_notify(p)
       PROVE  OwnersKept
  BY <1>1, <1>2, <1>11 DEF add_sequence_notify, NotifyTimer, OwnersKept, Owns
<1>12. ASSUME NEW w \in Workers, get_work_none(w) \/ get_work_wait(w) \/ spurious_wakeup(w)
       PROVE  OwnersKept
  BY <1>1, <1>2, <1>12 DEF get_work_none, get_work_wait, spurious_wakeup, Goto, OwnersKept, Owns
<1>13. ASSUME NEW w \in Workers, get_work_some(w)
       PROVE  OwnersKept
  BY <1>1, <1>2, <1>13 DEF get_work_some, Goto, OwnersKept, Owns
<1>14. ASSUME NEW w \in Workers, take_task(w)
       PROVE  OwnersKept
  BY <1>1, <1>2, <1>14 DEF take_task, Goto, OwnersKept, Owns
<1>15. ASSUME NEW w \in Workers, did_process_task_check(w)
       PROVE  OwnersKept
  BY <1>1, <1>2, <1>15 DEF did_process_task_check, Goto, OwnersKept, Owns
<1>16. ASSUME NEW w \in Workers, wrap_skips(w) \/ callback_starts(w) \/ callback_returns(w)
       PROVE  OwnersKept
  BY <1>1, <1>2, <1>16, ZenonT(30) DEF wrap_skips, callback_starts, callback_returns, Goto, OwnersKept, Owns
<1>17. ASSUME NEW w \in Workers, after_run_task(w)
       PROVE  OwnersKept
  BY <1>1, <1>2, <1>17 DEF after_run_task, OwnersKept, Owns
<1>18. ASSUME TimerStep \/ timer_spurious_wakeup
       PROVE  OwnersKept
  BY <1>1, <1>2, <1>4, <1>18, ZenonT(30) DEF TimerStep, timer_loop_break, timer_loop_wait, timer_loop_push,
     timer_loop_wait_timeout, timer_timeout, timer_spurious_wakeup
<1>19. ASSUME NEW c \in Closers,
              tracker_shutdown(c) \/ tracker_shutdown_loop(c) \/ tracker_spurious_wakeup(c)
       PROVE  OwnersKept
  BY <1>4, <1>19 DEF tracker_shutdown, tracker_shutdown_loop, tracker_spurious_wakeup
<1>20. ASSUME NEW c \in Closers, JoinAllStep(c)
       PROVE  OwnersKept
  <2>1. CASE join_all_notify(c)
    BY <1>1, <1>2, <2>1 DEF join_all_notify, Sleeping, OwnersKept, Owns
  <2> QED BY <1>4, <1>20, <2>1 DEF JoinAllStep, join_all_signal, join_all_take, join_all_join
<1>21. ASSUME NEW c \in Closers, ManagerShutdownStep(c)
       PROVE  OwnersKept
  <2>1. CASE manager_shutdown_notify(c)
    BY <1>1, <1>2, <2>1 DEF manager_shutdown_notify, NotifyTimer, OwnersKept, Owns
  <2> QED BY <1>4, <1>21, <2>1 DEF ManagerShutdownStep, manager_shutdown_signal,
                                   manager_shutdown_take, manager_shutdown_join
<1>22. ASSUME NEW p \in Pushers \ {Timer}, PosterStep(p)
       PROVE  OwnersKept
  BY <1>5, <1>6, <1>7, <1>8, <1>9, <1>10, <1>11, <1>22 DEF PosterStep, PushStep, AddStep
<1>23. ASSUME NEW w \in Workers, WorkerStepInPool(w)
       PROVE  OwnersKept
  BY <1>9, <1>10, <1>12, <1>13, <1>14, <1>15, <1>16, <1>17, <1>23 DEF WorkerStepInPool, WorkerStep
<1>24. ASSUME TimerStepInPool \/ SpuriousWakeup \/ TickInPool
       PROVE  OwnersKept
  BY <1>2, <1>3, <1>9, <1>10, <1>12, <1>18, <1>19, <1>24
     DEF TimerStepInPool, PushStep, SpuriousWakeup, TickInPool, Tick
<1> QED BY <1>n, <1>3, <1>19, <1>20, <1>21, <1>22, <1>23, <1>24 DEF Next, ShutdownStep

\* will_run_task and did_process_task keep has_worker and the owners in agreement.
LEMMA OwnershipNext == TypeOK /\ Ownership /\ [Next]_vars => Ownership'
<1> SUFFICES ASSUME TypeOK, Ownership
             PROVE  [Next]_vars => Ownership'
  OBVIOUS
<1>n. SUFFICES ASSUME [Next]_vars
      PROVE  Ownership'
  OBVIOUS
<1>1. pc \in [Threads -> WorkerLabels \cup PusherLabels \cup CloserLabels]
      /\ source \in [Threads -> Seqs \cup {NoSeq}] /\ has_worker \in [Seqs -> BOOLEAN]
  BY DEF TypeOK, ThreadsTypeOK, SequenceTypeOK
<1>2. \A w \in Workers : w \in Threads /\ (pc[w] \in HoldsSource => source[w] \in Seqs)
  BY DEF TypeOK, ThreadsTypeOK, ThreadOK, Threads
<1>3. CASE OwnersKept
  BY <1>3 DEF OwnersKept, Ownership, MutualExclusion
<1>4. ASSUME NEW w \in Workers, will_run_task(w)
      PROVE  Ownership'
  <2>1. pc[w] = "claim" /\ source[w] \in Seqs /\ ~Owns(w)
    BY <1>2, <1>4 DEF will_run_task, HoldsSource, Owns
  <2>2. has_worker' = [has_worker EXCEPT ![source[w]] = TRUE]
    BY <1>4, ZenonT(30) DEF will_run_task
  <2>3. CASE has_worker[source[w]]
    <3>1. OwnersKept
      BY <1>1, <1>2, <1>4, <2>1, <2>2, <2>3 DEF will_run_task, Goto, OwnersKept, Owns
    <3> QED BY <1>3, <3>1
  <2>4. CASE ~has_worker[source[w]]
    <3>1. pc' = [pc EXCEPT ![w] = "take"] /\ source' = source
      BY <1>4, <2>4 DEF will_run_task, Goto
    <3>2. \A v \in Workers : Owns(v)' <=> Owns(v) \/ v = w
      BY <1>1, <1>2, <3>1 DEF Owns
    <3>3. \A v \in Workers : Owns(v) => source[v] # source[w]
      BY <2>4 DEF Ownership
    <3> QED BY <1>1, <1>2, <2>1, <2>2, <3>1, <3>2, <3>3 DEF Ownership, MutualExclusion
  <2> QED BY <2>3, <2>4
<1>5. ASSUME NEW w \in Workers, did_process_task_release(w)
      PROVE  Ownership'
  <2>1. pc[w] = "release" /\ source[w] \in Seqs /\ Owns(w)
    BY <1>2, <1>5, ZenonT(30) DEF did_process_task_release, HoldsSource, Owns
  <2>2. has_worker' = [has_worker EXCEPT ![source[w]] = FALSE]
        /\ pc' = [pc EXCEPT ![w] = "recheck"] /\ source' = source
    BY <1>5 DEF did_process_task_release, Goto
  <2>3. \A v \in Workers : Owns(v)' <=> Owns(v) /\ v # w
    BY <1>1, <1>2, <2>2 DEF Owns
  <2>4. \A v \in Workers : Owns(v) /\ v # w => source[v] # source[w] /\ source[v] \in Seqs
    BY <1>2, <2>1 DEF Ownership, MutualExclusion, Owns, HoldsSource
  <2> QED BY <1>1, <2>1, <2>2, <2>3, <2>4 DEF Ownership, MutualExclusion
<1> QED BY <1>n, <1>3, <1>4, <1>5, OwnersChange

\* A new pool has no owners, and every has_worker is clear.
LEMMA OwnershipInit == Init => Ownership
BY ThreadsAssumption DEF Init, GroupInit, SequenceInit, Home, Threads, Ownership,
                         MutualExclusion, Owns

\* Two workers are never inside the same sequence.
THEOREM SequencesAreExclusive == Spec => []MutualExclusion
<1>1. Spec => []Ownership
  BY OwnershipInit, OwnershipNext, TypeCorrect, PTL DEF Spec
<1>2. Ownership => MutualExclusion
  BY DEF Ownership
<1> QED BY <1>1, <1>2, PTL

-----------------------------------------------------------------------------
(* The queues and the clock.                                               *)

\* The queues of the sequences change at a post and at take_task.
LEMMA QueuesChange ==
    [Next]_vars
        => \/ UNCHANGED queueVars
           \/ \E p \in Pushers \ {Timer} : post_task_push(p) \/ post_delayed_task_push(p)
           \/ \E w \in Workers : take_task(w)
<1> SUFFICES ASSUME \A p \in Pushers \ {Timer} : ~post_task_push(p) /\ ~post_delayed_task_push(p),
                    \A w \in Workers : ~take_task(w)
             PROVE  [Next]_vars => UNCHANGED queueVars
  OBVIOUS
<1>n. SUFFICES ASSUME [Next]_vars
      PROVE  UNCHANGED queueVars
  OBVIOUS
<1>1. ASSUME NEW p \in Pushers, PushStep(p)
      PROVE  UNCHANGED queueVars
  BY <1>1 DEF PushStep, push_task_source, notify_one
<1>2. ASSUME NEW p \in Pushers \ {Timer}, PosterStep(p)
      PROVE  UNCHANGED queueVars
  BY <1>1, <1>2, ZenonT(30) DEF PosterStep, pool_post, runner_post, post_delayed_task_deadline, AddStep,
                    add_sequence, add_sequence_notify
<1>3. ASSUME NEW w \in Workers, WorkerStepInPool(w)
      PROVE  UNCHANGED queueVars
  <2>1. ASSUME push_task_source(w) \/ notify_one(w) \/ get_work_none(w) \/ get_work_some(w)
        PROVE  UNCHANGED queueVars
    BY <2>1 DEF push_task_source, notify_one, get_work_none, get_work_some
  <2>2. ASSUME \/ get_work_wait(w) \/ will_run_task(w)
               \/ did_process_task_release(w) \/ did_process_task_check(w)
        PROVE  UNCHANGED queueVars
    BY <2>2 DEF get_work_wait, will_run_task, did_process_task_release, did_process_task_check
  <2>3. ASSUME wrap_skips(w) \/ callback_starts(w) \/ callback_returns(w) \/ after_run_task(w)
        PROVE  UNCHANGED queueVars
    BY <2>3, ZenonT(30) DEF wrap_skips, callback_starts, callback_returns, after_run_task
  <2> QED BY <1>3, <2>1, <2>2, <2>3, ZenonT(30) DEF WorkerStepInPool, WorkerStep
<1>4. ASSUME TimerStepInPool
      PROVE  UNCHANGED queueVars
  BY <1>1, <1>4, TimerAssumption, ZenonT(30) DEF TimerStepInPool, TimerStep, timer_loop_break, timer_loop_wait,
     timer_loop_push, timer_loop_wait_timeout, timer_timeout
<1>5. ASSUME NEW c \in Closers, tracker_shutdown(c) \/ ShutdownStep(c)
      PROVE  UNCHANGED queueVars
  BY <1>5, ZenonT(30) DEF ShutdownStep, tracker_shutdown, tracker_shutdown_loop, JoinAllStep, join_all_signal,
     join_all_notify, join_all_take, join_all_join, ManagerShutdownStep, manager_shutdown_signal,
     manager_shutdown_notify, manager_shutdown_take, manager_shutdown_join
<1>6. ASSUME SpuriousWakeup \/ TickInPool \/ UNCHANGED vars
      PROVE  UNCHANGED queueVars
  BY <1>6 DEF SpuriousWakeup, spurious_wakeup, timer_spurious_wakeup, tracker_spurious_wakeup,
     TickInPool, Tick
<1> QED BY <1>n, <1>2, <1>3, <1>4, <1>5, <1>6 DEF Next

\* Only the clock moves time, one unit at a step.
LEMMA NowChange == [Next]_vars => now' = now \/ now' = now + 1
<1> SUFFICES ASSUME ~TickInPool
             PROVE  [Next]_vars => now' = now
  BY DEF TickInPool, Tick
<1>n. SUFFICES ASSUME [Next]_vars
      PROVE  now' = now
  OBVIOUS
<1>1. ASSUME NEW p \in Pushers, PushStep(p)
      PROVE  now' = now
  BY <1>1, Zenon DEF PushStep, push_task_source, notify_one
<1>2. ASSUME NEW p \in Pushers \ {Timer}, PosterStep(p)
      PROVE  now' = now
  BY <1>1, <1>2, Zenon DEF PosterStep, pool_post, runner_post, post_task_push, post_delayed_task_deadline,
                    post_delayed_task_push, AddStep, add_sequence, add_sequence_notify
<1>3. ASSUME NEW w \in Workers, WorkerStepInPool(w)
      PROVE  now' = now
  <2>1. ASSUME push_task_source(w) \/ notify_one(w) \/ get_work_none(w) \/ get_work_some(w)
        PROVE  now' = now
    BY <2>1 DEF push_task_source, notify_one, get_work_none, get_work_some
  <2>2. ASSUME \/ get_work_wait(w) \/ will_run_task(w) \/ take_task(w)
               \/ did_process_task_release(w) \/ did_process_task_check(w)
        PROVE  now' = now
    BY <2>2 DEF get_work_wait, will_run_task, take_task, did_process_task_release,
       did_process_task_check
  <2>3. ASSUME wrap_skips(w) \/ callback_starts(w) \/ callback_returns(w) \/ after_run_task(w)
        PROVE  now' = now
    BY <2>3, ZenonT(30) DEF wrap_skips, callback_starts, callback_returns, after_run_task
  <2> QED BY <1>3, <2>1, <2>2, <2>3, ZenonT(30) DEF WorkerStepInPool, WorkerStep
<1>4. ASSUME TimerStepInPool
      PROVE  now' = now
  BY <1>1, <1>4, TimerAssumption, ZenonT(30) DEF TimerStepInPool, TimerStep, timer_loop_break, timer_loop_wait,
     timer_loop_push, timer_loop_wait_timeout, timer_timeout
<1>5. ASSUME NEW c \in Closers, tracker_shutdown(c) \/ ShutdownStep(c)
      PROVE  now' = now
  BY <1>5, ZenonT(30) DEF ShutdownStep, tracker_shutdown, tracker_shutdown_loop, JoinAllStep, join_all_signal,
     join_all_notify, join_all_take, join_all_join, ManagerShutdownStep, manager_shutdown_signal,
     manager_shutdown_notify, manager_shutdown_take, manager_shutdown_join
<1>6. ASSUME SpuriousWakeup \/ UNCHANGED vars
      PROVE  now' = now
  BY <1>6 DEF SpuriousWakeup, spurious_wakeup, timer_spurious_wakeup, tracker_spurious_wakeup
<1> QED BY <1>n, <1>2, <1>3, <1>4, <1>5, <1>6 DEF Next

\* push_delayed_task and flush_ready_delayed_tasks keep the delayed queues sorted.
LEMMA DelayedSortedNext == TypeOK /\ DelayedSorted /\ [Next]_vars => DelayedSorted'
<1> SUFFICES ASSUME TypeOK, DelayedSorted
             PROVE  [Next]_vars => DelayedSorted'
  OBVIOUS
<1>n. SUFFICES ASSUME [Next]_vars
      PROVE  DelayedSorted'
  OBVIOUS
<1>1. delayed_queue \in [Seqs -> Seq(DelayedTask)]
  BY DEF TypeOK, SequenceTypeOK
<1>2. \A d \in DelayedTask : d.ready_time \in Int
  BY MaxTimeAssumption, SMTT(30) DEF DelayedTask, Time
<1>3. CASE UNCHANGED queueVars
  BY <1>3 DEF DelayedSorted
<1>4. ASSUME NEW p \in Pushers \ {Timer}, post_task_push(p)
      PROVE  DelayedSorted'
  BY <1>4, ZenonT(30) DEF post_task_push, push_task, DelayedSorted
<1>5. ASSUME NEW p \in Pushers \ {Timer}, post_delayed_task_push(p)
      PROVE  DelayedSorted'
  <2> DEFINE s == TaskSeq[task[p]]
             e == [ready_time |-> ready_time[p], task |-> task[p]]
  <2>1. task[p] \in Tasks /\ s \in Seqs
    BY <1>5, PoolAssumption, ZenonT(30)
       DEF post_delayed_task_push, TypeOK, ThreadsTypeOK, ThreadOK, Threads, HoldsTask
  <2>2. e \in DelayedTask
    BY <2>1, ZenonT(30) DEF DelayedTask, TypeOK, ManagerTypeOK
  <2>3. PICK i \in 0..Len(delayed_queue[s]) :
           /\ IsHeapPosition(delayed_queue[s], i, e)
           /\ delayed_queue' = [delayed_queue EXCEPT ![s] = HeapInsert(delayed_queue[s], i, e)]
    BY <1>5, Zenon DEF post_delayed_task_push, push_delayed_task
  <2> DEFINE q == delayed_queue[s]
  <2>4. q \in Seq(DelayedTask)
        /\ \A k, j \in 1..Len(q) : k <= j => q[k].ready_time <= q[j].ready_time
    BY <1>1, <2>1, Zenon DEF DelayedSorted
  <2> HIDE DEF q, e
  <2>5. \A k, j \in 1..Len(HeapInsert(q, i, e)) :
           k <= j => HeapInsert(q, i, e)[k].ready_time <= HeapInsert(q, i, e)[j].ready_time
    BY <1>2, <2>2, <2>3, <2>4, HeapInsertSorted, ZenonT(30) DEF q
  <2>6. \A u \in Seqs : delayed_queue'[u] = IF u = s THEN HeapInsert(q, i, e) ELSE delayed_queue[u]
    BY <1>1, <2>1, <2>3, ZenonT(30) DEF q
  <2> QED BY <2>5, <2>6, ZenonT(30) DEF DelayedSorted
<1>6. ASSUME NEW w \in Workers, take_task(w)
      PROVE  DelayedSorted'
  <2> DEFINE s == source[w]
             q == delayed_queue[s]
  <2>1. s \in Seqs
    BY <1>6 DEF take_task, TypeOK, ThreadsTypeOK, ThreadOK, Threads, HoldsSource
  <2>2. PICK k \in 0..Len(q) :
          delayed_queue' = [delayed_queue EXCEPT ![s] = DropFirst(q, k)]
    BY <1>6, Zenon DEF take_task
  <2>3. q \in Seq(DelayedTask) /\ Len(q) \in Nat
    BY <1>1, <2>1, SeqLemma
  <2>4. \A i \in 1..Len(DropFirst(q, k)) :
           i + k \in 1..Len(q) /\ DropFirst(q, k)[i] = q[i + k]
    BY <2>3, DropFirstLemma
  <2>5. Len(DropFirst(q, k)) \in Nat
    BY <2>3, DropFirstLemma, SMTT(30)
  <2>6. \A u \in Seqs : delayed_queue'[u] = IF u = s THEN DropFirst(q, k) ELSE delayed_queue[u]
    BY <1>1, <2>1, <2>2
  <2>7. ASSUME NEW i \in 1..Len(DropFirst(q, k)), NEW j \in 1..Len(DropFirst(q, k)), i <= j
        PROVE  DropFirst(q, k)[i].ready_time <= DropFirst(q, k)[j].ready_time
    <3>1. i + k \in 1..Len(q) /\ j + k \in 1..Len(q) /\ i + k <= j + k
      <4>1. i + k \in 1..Len(q) /\ j + k \in 1..Len(q)
        BY <2>4, Zenon
      <4>2. ASSUME NEW a \in Int, NEW b \in Int, NEW c \in Int, a <= b PROVE a + c <= b + c
        BY ONLY <4>2
      <4>3. i \in Int /\ j \in Int /\ k \in Int
        BY ONLY <2>3, <2>5, k \in 0..Len(q), i \in 1..Len(DropFirst(q, k)),
                j \in 1..Len(DropFirst(q, k))
      <4> QED BY ONLY <2>7, <4>1, <4>2, <4>3, Zenon
    <3>2. q[i + k].ready_time <= q[j + k].ready_time
      BY <2>1, <3>1, ZenonT(30) DEF DelayedSorted
    <3> QED BY <2>4, <3>2, ZenonT(30)
  <2> QED BY <2>6, <2>7, ZenonT(30) DEF DelayedSorted
<1> QED BY <1>n, <1>3, <1>4, <1>5, <1>6, QueuesChange

-----------------------------------------------------------------------------
(* The steps that move a task.                                             *)

\* No task moves, none gets a deadline, and a poster keeps the task in its hand.
TasksKept ==
    /\ UNCHANGED <<task, queueVars, status, due>>
    /\ \A p \in Pushers : pc[p] \in {"accepted", "delay"}
                            => pc'[p] = pc[p] /\ ready_time'[p] = ready_time[p]

\* The steps at which a task moves or gets its deadline.
TaskMoves ==
    \/ \E p \in Pushers \ {Timer}, t \in Tasks : pool_post(p, t) \/ runner_post(p, t)
    \/ \E p \in Pushers \ {Timer} :
          post_task_push(p) \/ post_delayed_task_deadline(p) \/ post_delayed_task_push(p)
    \/ \E w \in Workers :
          \/ take_task(w) /\ UNCHANGED <<managerVars, trackerVars, status, due>>
          \/ wrap_skips(w) \/ callback_returns(w)

\* Every other step of the pool leaves the tasks where they are.
LEMMA TasksChange == TypeOK /\ [Next]_vars => TasksKept \/ TaskMoves
<1> SUFFICES ASSUME TypeOK, ~TaskMoves
             PROVE  [Next]_vars => TasksKept
  OBVIOUS
<1>n. SUFFICES ASSUME [Next]_vars
      PROVE  TasksKept
  OBVIOUS
<1>1. pc \in [Threads -> WorkerLabels \cup PusherLabels \cup CloserLabels]
      /\ ready_time \in [Pushers -> Time]
  BY DEF TypeOK, ThreadsTypeOK, ManagerTypeOK
<1>2. Threads = Workers \cup Pushers \cup Closers /\ Timer \in Pushers
      /\ (Workers \cup Closers) \cap Pushers = {}
  BY ThreadsAssumption, TimerAssumption DEF Threads
<1> DEFINE Data == UNCHANGED <<task, queueVars, status, due>>
<1>3. ASSUME UNCHANGED <<managerVars, pc>>, Data
      PROVE  TasksKept
  BY <1>3 DEF TasksKept
<1>4. ASSUME NEW th \in Threads, NEW l, pc[th] \notin {"accepted", "delay"}, Goto(th, l), Data,
             \A u \in Pushers : u # th => ready_time'[u] = ready_time[u]
      PROVE  TasksKept
  BY <1>1, <1>4 DEF TasksKept, Goto
<1>5. ASSUME NEW th \in Workers \cup Pushers, push_task_source(th),
             UNCHANGED <<managerVars, trackerVars, status, due>>
      PROVE  TasksKept
  BY <1>2, <1>4, <1>5, ZenonT(30) DEF push_task_source
<1>6. ASSUME NEW th \in Workers \cup Pushers, notify_one(th),
             UNCHANGED <<managerVars, trackerVars, status, due>>
      PROVE  TasksKept
  <2>1. CASE Sleeping = {}
    BY <1>2, <1>4, <1>6, <2>1, ZenonT(30) DEF notify_one
  <2>2. CASE Sleeping # {}
    BY <1>1, <1>2, <1>6, <2>2 DEF notify_one, Sleeping, TasksKept
  <2> QED BY <2>1, <2>2
<1>7. ASSUME NEW p \in Pushers \ {Timer}, AddStep(p)
      PROVE  TasksKept
  <2>1. CASE add_sequence(p)
    BY <1>2, <1>4, <1>7, <2>1, ZenonT(30) DEF AddStep, add_sequence
  <2>2. CASE add_sequence_notify(p)
    BY <1>1, <1>2, <1>7, <2>2 DEF AddStep, add_sequence_notify, NotifyTimer, TimerWaits, TasksKept
  <2> QED BY <1>7, <2>1, <2>2, Zenon DEF AddStep
<1>8. ASSUME NEW p \in Pushers \ {Timer}, PosterStep(p)
      PROVE  TasksKept
  BY <1>5, <1>6, <1>7, <1>8, Zenon DEF PosterStep, PushStep, TaskMoves
<1>9. ASSUME NEW w \in Workers, WorkerStepInPool(w)
      PROVE  TasksKept
  <2>1. ASSUME \/ get_work_none(w) \/ get_work_some(w) \/ get_work_wait(w)
               \/ will_run_task(w) \/ did_process_task_release(w) \/ did_process_task_check(w),
               UNCHANGED <<managerVars, trackerVars, status, due>>
        PROVE  TasksKept
    <3>1. \E l : Goto(w, l)
      BY <2>1, ZenonT(30) DEF get_work_none, get_work_some, get_work_wait, will_run_task,
         did_process_task_release, did_process_task_check
    <3>2. Data /\ pc[w] \notin {"accepted", "delay"}
      BY <2>1, ZenonT(30) DEF get_work_none, get_work_some, get_work_wait, will_run_task,
         did_process_task_release, did_process_task_check
    <3> QED BY <1>2, <1>4, <2>1, <3>1, <3>2, ZenonT(30)
  <2>2. CASE callback_starts(w)
    BY <1>2, <1>4, <2>2, ZenonT(30) DEF callback_starts
  <2>3. CASE after_run_task(w)
    BY <1>1, <1>2, <2>3 DEF after_run_task, TasksKept
  <2> QED BY <1>5, <1>6, <1>9, <2>1, <2>2, <2>3, Zenon DEF WorkerStepInPool, WorkerStep, TaskMoves
<1>10. ASSUME TimerStepInPool
       PROVE  TasksKept
  <2>1. ASSUME TimerStep, UNCHANGED <<trackerVars, status, due>>
        PROVE  TasksKept
    BY <1>2, <1>4, <2>1, ZenonT(30) DEF TimerStep, timer_loop_break, timer_loop_wait, timer_loop_push,
       timer_loop_wait_timeout, timer_timeout
  <2> QED BY <1>2, <1>5, <1>6, <1>10, <2>1 DEF TimerStepInPool, PushStep
<1>11. ASSUME NEW c \in Closers, tracker_shutdown(c) \/ ShutdownStep(c)
       PROVE  TasksKept
  <2>1. CASE JoinAllStep(c) /\ UNCHANGED <<managerVars, trackerVars, status, due>>
    <3>1. CASE join_all_notify(c)
      BY <1>1, <1>2, <2>1, <3>1 DEF join_all_notify, Sleeping, TasksKept
    <3> QED BY <1>2, <1>4, <2>1, <3>1, ZenonT(30) DEF JoinAllStep, join_all_signal, join_all_take, join_all_join
  <2>2. CASE ManagerShutdownStep(c) /\ UNCHANGED <<trackerVars, status, due>>
    <3>1. CASE manager_shutdown_notify(c)
      BY <1>1, <1>2, <2>2, <3>1 DEF manager_shutdown_notify, NotifyTimer, TimerWaits, TasksKept
    <3> QED BY <1>2, <1>4, <2>2, <3>1, ZenonT(30) DEF ManagerShutdownStep, manager_shutdown_signal,
                                          manager_shutdown_take, manager_shutdown_join
  <2>3. CASE tracker_shutdown(c) \/ tracker_shutdown_loop(c)
    BY <1>2, <1>4, <2>3, ZenonT(30) DEF tracker_shutdown, tracker_shutdown_loop
  <2> QED BY <1>11, <2>1, <2>2, <2>3 DEF ShutdownStep
<1>12. ASSUME SpuriousWakeup \/ TickInPool \/ UNCHANGED vars
       PROVE  TasksKept
  <2>1. CASE SpuriousWakeup
    BY <1>2, <1>4, <2>1, ZenonT(30) DEF SpuriousWakeup, spurious_wakeup, timer_spurious_wakeup,
       tracker_spurious_wakeup, TimerWaits
  <2> QED BY <1>3, <1>12, <2>1 DEF TickInPool, Tick
<1> QED BY <1>n, <1>8, <1>9, <1>10, <1>11, <1>12 DEF Next
=============================================================================
