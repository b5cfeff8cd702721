----------------------------- MODULE ThreadPool -----------------------------
(***************************************************************************)
(* rust_task/thread_pool: the whole pool.  Threads post tasks, directly    *)
(* (thread_pool.rs) or through sequenced and parallel runners              *)
(* (pooled_sequenced_task_runner.rs, pooled_parallel_task_runner.rs);      *)
(* workers and the timer run; threads call shutdown().                     *)
(*                                                                         *)
(* A task posted with ThreadPool::post_task or to a parallel runner has a  *)
(* Sequence of its own; the tasks of a sequenced runner share one.  Tasks  *)
(* posted through a runner do not meet the tracker.  A callback may post   *)
(* tasks before it returns: the reply of post_task_and_reply, or any other.*)
(***************************************************************************)
EXTENDS DelayedTaskManager, TaskTracker

CONSTANTS
    Posters,        \* application threads that post
    Body,           \* [Workers -> Pushers], the callback's call frame
    TaskSeq,        \* [Tasks -> Seqs]
    PoolTasks,      \* tasks posted with the methods of ThreadPool itself
    Behavior,       \* [Tasks -> Behaviors], TaskTraits::shutdown_behavior
    DelayedTasks,   \* tasks posted with post_delayed_task
    Delays,         \* the delays to try
    Spawns          \* [Tasks -> SUBSET Tasks], what a callback posts

Spawned == UNION {Spawns[t] : t \in Tasks}

ASSUME PoolAssumption ==
    /\ Posters \subseteq Pushers
    /\ Timer \notin Posters
    /\ Body \in [Workers -> Pushers \ (Posters \cup {Timer})]
    /\ \A v, w \in Workers : Body[v] = Body[w] => v = w
    /\ TaskSeq \in [Tasks -> Seqs]
    /\ PoolTasks \subseteq Tasks
    /\ \A t \in PoolTasks, u \in Tasks : TaskSeq[t] = TaskSeq[u] => t = u
    /\ Behavior \in [Tasks -> Behaviors]
    /\ DelayedTasks \subseteq Tasks
    /\ Delays \subseteq Nat
    /\ Spawns \in [Tasks -> SUBSET Tasks]

VARIABLES
    status,     \* [Tasks -> Statuses], what became of each task
    due         \* [Tasks -> Time], the ready_time a delayed task was given

Statuses == {"new", "rejected", "posted", "done", "skipped"}

vars == <<sequenceVars, groupVars, managerVars, trackerVars, status, due>>

Init ==
    /\ SequenceInit /\ GroupInit /\ ManagerInit /\ TrackerInit
    /\ status = [t \in Tasks |-> "new"]
    /\ due = [t \in Tasks |-> 0]

-----------------------------------------------------------------------------
(* Posting *)

\* p may now call one of the post functions with t.
MayPost(p, t) ==
    /\ pc[p] = "home"
    /\ status[t] = "new"
    /\ \/ p \in Posters /\ t \notin Spawned
       \/ \E w \in Workers : p = Body[w] /\ pc[w] = "callback" /\ t \in Spawns[task[w]]

\* p goes on to push t.
Accept(p, t) ==
    /\ status' = [status EXCEPT ![t] = "posted"]
    /\ task' = [task EXCEPT ![p] = t]
    /\ Goto(p, "accepted")

\* ThreadPool::post_task and post_delayed_task ask the tracker first.
pool_post(p, t) ==
    /\ MayPost(p, t)
    /\ t \in PoolTasks
    /\ will_post_task_count(Behavior[t])
    /\ IF will_post_task(Behavior[t])
         THEN Accept(p, t)
         ELSE status' = [status EXCEPT ![t] = "rejected"] /\ UNCHANGED <<task, pc>>
    /\ UNCHANGED <<sequenceVars, groupData, source, managerVars, shutdown_started, due>>

\* post_task and post_delayed_task of the runners never refuse.
runner_post(p, t) ==
    /\ MayPost(p, t)
    /\ t \notin PoolTasks
    /\ Accept(p, t)
    /\ UNCHANGED <<sequenceVars, groupData, source, managerVars, trackerVars, due>>

\* The sequence p holds from here on is the one its task went to.
HandOver(p) ==
    /\ source' = [source EXCEPT ![p] = TaskSeq[task[p]]]
    /\ task' = [task EXCEPT ![p] = NoTask]

post_task_push(p) ==
    /\ pc[p] = "accepted"
    /\ task[p] \notin DelayedTasks
    /\ push_task(TaskSeq[task[p]], task[p])
    /\ HandOver(p)
    /\ Goto(p, "push")
    /\ UNCHANGED <<has_worker, now, groupData, managerVars, trackerVars, status, due>>

\* let ready_time = Instant::now() + delay
post_delayed_task_deadline(p) ==
    /\ pc[p] = "accepted"
    /\ task[p] \in DelayedTasks
    /\ \E d \in Delays :
          /\ now + d <= MaxTime
          /\ ready_time' = [ready_time EXCEPT ![p] = now + d]
          /\ due' = [due EXCEPT ![task[p]] = now + d]
    /\ Goto(p, "delay")
    /\ UNCHANGED <<sequenceVars, groupData, source, task, heap, timer_shutdown,
                   timer_handle, wake_at, trackerVars, status>>

post_delayed_task_push(p) ==
    /\ pc[p] = "delay"
    /\ push_delayed_task(TaskSeq[task[p]], task[p], ready_time[p])
    /\ HandOver(p)
    /\ Goto(p, "add")
    /\ UNCHANGED <<has_worker, now, groupData, managerVars, trackerVars, status, due>>

\* push_task_source and add_sequence as a caller outside worker_loop runs them.
PushStep(p) ==
    /\ push_task_source(p) \/ notify_one(p)
    /\ UNCHANGED <<managerVars, trackerVars, status, due>>

AddStep(p) ==
    /\ add_sequence(p) \/ add_sequence_notify(p)
    /\ UNCHANGED <<trackerVars, status, due>>

PosterStep(p) ==
    \/ \E t \in Tasks : pool_post(p, t) \/ runner_post(p, t)
    \/ post_task_push(p) \/ post_delayed_task_deadline(p) \/ post_delayed_task_push(p)
    \/ PushStep(p) \/ AddStep(p)

-----------------------------------------------------------------------------
(* The closure wrap() builds around a task of the pool, and the callback.  *)

\* The wrapper drops a SkipOnShutdown task once shutdown has started.
Skips(t) ==
    t \in PoolTasks /\ shutdown_started /\ Behavior[t] = "SkipOnShutdown"

wrap_skips(w) ==
    /\ pc[w] = "run"
    /\ Skips(task[w])
    /\ status' = [status EXCEPT ![task[w]] = "skipped"]
    /\ task' = [task EXCEPT ![w] = NoTask]
    /\ Goto(w, "release")
    /\ UNCHANGED <<sequenceVars, groupData, source, managerVars, trackerVars, due>>

callback_starts(w) ==
    /\ pc[w] = "run"
    /\ ~Skips(task[w])
    /\ Goto(w, "callback")
    /\ UNCHANGED <<sequenceVars, groupData, source, task, managerVars, trackerVars, status, due>>

\* Everything the callback posts has been posted when it returns.
callback_returns(w) ==
    /\ pc[w] = "callback"
    /\ pc[Body[w]] = "home"
    /\ \A t \in Spawns[task[w]] : status[t] # "new"
    /\ status' = [status EXCEPT ![task[w]] = "done"]
    /\ task' = [task EXCEPT ![w] = NoTask]
    /\ Goto(w, IF task[w] \in PoolTasks /\ Behavior[task[w]] = "BlockShutdown"
                 THEN "after" ELSE "release")
    /\ UNCHANGED <<sequenceVars, groupData, source, managerVars, trackerVars, due>>

after_run_task(w) ==
    /\ pc[w] = "after"
    /\ after_run_task_count
    /\ pc' = [th \in Threads |->
                IF th = w THEN "release"
                ELSE IF pc[th] = "tracker_wait" /\ after_run_task_notifies
                  THEN "tracker_check" ELSE pc[th]]
    /\ UNCHANGED <<sequenceVars, groupData, source, task, managerVars,
                   shutdown_started, status, due>>

WorkerStepInPool(w) ==
    \/ WorkerStep(w) /\ UNCHANGED <<managerVars, trackerVars, status, due>>
    \/ wrap_skips(w) \/ callback_starts(w) \/ callback_returns(w) \/ after_run_task(w)

TimerStepInPool ==
    \/ TimerStep /\ UNCHANGED <<trackerVars, status, due>>
    \/ PushStep(Timer)

-----------------------------------------------------------------------------
(* shutdown(): the tracker's, then join_all, then the manager's.           *)

tracker_shutdown(c) ==
    /\ pc[c] = "home"
    /\ shutdown_started' = TRUE
    /\ Goto(c, IF num_tasks_blocking_shutdown = 0 THEN "join_all" ELSE "tracker_check")
    /\ UNCHANGED <<sequenceVars, groupData, source, task, managerVars,
                   num_tasks_blocking_shutdown, status, due>>

tracker_shutdown_loop(c) ==
    /\ pc[c] = "tracker_check"
    /\ Goto(c, IF num_tasks_blocking_shutdown > 0 THEN "tracker_wait" ELSE "join_all")
    /\ UNCHANGED <<sequenceVars, groupData, source, task, managerVars, trackerVars, status, due>>

tracker_spurious_wakeup(c) ==
    /\ pc[c] = "tracker_wait"
    /\ Goto(c, "tracker_check")
    /\ UNCHANGED <<sequenceVars, groupData, source, task, managerVars, trackerVars, status, due>>

ShutdownStep(c) ==
    \/ tracker_shutdown_loop(c)
    \/ JoinAllStep(c) /\ UNCHANGED <<managerVars, trackerVars, status, due>>
    \/ ManagerShutdownStep(c) /\ UNCHANGED <<trackerVars, status, due>>

-----------------------------------------------------------------------------
SpuriousWakeup ==
    \/ /\ (\E w \in Workers : spurious_wakeup(w)) \/ timer_spurious_wakeup
       /\ UNCHANGED <<trackerVars, managerVars, status, due>>
    \/ \E c \in Closers : tracker_spurious_wakeup(c)

TickInPool == Tick /\ UNCHANGED <<groupVars, managerVars, trackerVars, status, due>>

Next ==
    \/ \E p \in Pushers \ {Timer} : PosterStep(p)
    \/ \E w \in Workers : WorkerStepInPool(w)
    \/ TimerStepInPool
    \/ \E c \in Closers : tracker_shutdown(c) \/ ShutdownStep(c)
    \/ SpuriousWakeup
    \/ TickInPool

Spec == Init /\ [][Next]_vars

\* Threads that hold the CPU keep running, callbacks return, time passes.
\* Nobody has to post a task or call shutdown, and no wakeup has to be spurious.
Fairness ==
    /\ \A p \in Pushers \ {Timer} :
          WF_vars(pc[p] # "home" /\ PosterStep(p))
    /\ \A w \in Workers :
          /\ WF_vars(WorkerStepInPool(w))
          /\ WF_vars(PosterStep(Body[w]))
    /\ WF_vars(TimerStepInPool)
    /\ \A c \in Closers : WF_vars(ShutdownStep(c))
    /\ WF_vars(TickInPool)

LiveSpec == Spec /\ Fairness

-----------------------------------------------------------------------------
(* Properties *)

WorkerLabels ==
    {"get_work", "wait", "claim", "take", "run", "callback", "after", "release",
     "recheck", "push", "notify", "exit"}

PusherLabels ==
    {"home", "accepted", "delay", "add", "notify_timer", "push", "notify",
     "timer_wait", "timer_wait_timeout", "exit"}

CloserLabels ==
    {"home", "tracker_check", "tracker_wait", "join_all", "notify_all",
     "take_handles", "join", "joined", "timer_notify", "take_timer", "join_timer", "closed"}

\* The labels at which a thread holds a source, a worker runs a task, and a
\* poster has a task in hand.
HoldsSource == {"claim", "take", "run", "callback", "after", "release", "recheck",
                "push", "notify", "add", "notify_timer"}
HoldsTask == {"run", "callback", "accepted", "delay"}

Labels(th) ==
    IF th \in Workers THEN WorkerLabels
    ELSE IF th \in Pushers THEN PusherLabels ELSE CloserLabels

\* A thread is at a label of its own code, and has a source or a task in hand
\* exactly where the code has one.
ThreadOK(th) ==
    /\ pc[th] \in Labels(th)
    /\ source[th] \in Seqs <=> pc[th] \in HoldsSource
    /\ task[th] \in Tasks <=> pc[th] \in HoldsTask

ThreadsTypeOK ==
    /\ pc \in [Threads -> WorkerLabels \cup PusherLabels \cup CloserLabels]
    /\ source \in [Threads -> Seqs \cup {NoSeq}]
    /\ task \in [Threads -> Tasks \cup {NoTask}]
    /\ \A th \in Threads : ThreadOK(th)

GroupTypeOK ==
    /\ priority_queue \in Seq(Seqs)
    /\ shutdown \in BOOLEAN
    /\ handles \subseteq Workers
    /\ joining \in [Closers -> SUBSET Workers]

HistoryTypeOK ==
    /\ status \in [Tasks -> Statuses]
    /\ due \in [Tasks -> Time]

\* Every variable has its type, and every thread is where its code can be.
TypeOK ==
    /\ SequenceTypeOK /\ GroupTypeOK /\ ManagerTypeOK /\ TrackerTypeOK
    /\ ThreadsTypeOK /\ HistoryTypeOK

\* The worker has set has_worker of its source and not cleared it again.
Owns(w) == pc[w] \in {"take", "run", "callback", "after", "release"}

\* At most one worker at a time runs tasks of a sequence, whatever number of
\* entries of it are in the priority queue (sequence.rs, will_run_task and
\* did_process_task; thread_group.rs, the `claimed` test of worker_loop).
MutualExclusion ==
    \A v, w \in Workers : Owns(v) /\ Owns(w) /\ source[v] = source[w] => v = w

\* has_worker says exactly which sequences have an owner: the strengthening that
\* makes MutualExclusion inductive.
Ownership ==
    /\ MutualExclusion
    /\ \A w \in Workers : Owns(w) => has_worker[source[w]]
    /\ \A s \in Seqs : has_worker[s] => \E w \in Workers : Owns(w) /\ source[w] = s

\* The labels at which the source a thread holds is still to be looked at: it is
\* about to be pushed, or its worker has yet to do the re-check.
Carrying == {"push", "claim", "take", "run", "callback", "after", "release", "recheck"}

\* Somebody will look at sequence s again.
Covered(s) ==
    \/ \E i \in 1..Len(priority_queue) : priority_queue[i] = s
    \/ \E th \in Threads : source[th] = s /\ pc[th] \in Carrying

\* A timer entry for (s, r) exists, or the poster is about to add it.
Scheduled(s, r) ==
    \/ \E i \in 1..Len(heap) : heap[i].sequence = s /\ heap[i].ready_time = r
    \/ \E p \in Pushers : pc[p] = "add" /\ source[p] = s /\ ready_time[p] = r

\* A delayed task of s with ready time r will be looked at when it is due.
Attended(s, r) == Scheduled(s, r) \/ (r <= now /\ Covered(s))

\* No task is left in a sequence nobody will look at: not when an entry is
\* dropped because the sequence has an owner, not when the owner clears
\* has_worker before it looks, not when the timer fires while a worker is
\* between two steps (sequence.rs did_process_task, thread_group.rs worker_loop,
\* delayed_task_manager.rs timer_loop).
NoStrandedTask ==
    \A s \in Seqs :
        /\ immediate_queue[s] # <<>> => Covered(s)
        /\ \A i \in 1..Len(delayed_queue[s]) : Attended(s, delayed_queue[s][i].ready_time)

\* The delayed queues are sorted, so that looking at the head is enough.
DelayedSorted ==
    \A s \in Seqs : \A i, j \in 1..Len(delayed_queue[s]) :
        i <= j => delayed_queue[s][i].ready_time <= delayed_queue[s][j].ready_time

\* No lost wakeup: while a worker sleeps, every queued source has a worker on its
\* way to it or a notify still to come; and once the group is shut down a sleeper
\* has the notify_all ahead of it (thread_group.rs push_task_source, get_work and
\* join_all, which sets the flag under the lock for this reason).
NoLostWakeup ==
    Sleeping # {} =>
        IF shutdown
          THEN \E c \in Closers : pc[c] = "notify_all"
          ELSE Len(priority_queue) <= Cardinality({w \in Workers : pc[w] = "get_work"})
                                      + Cardinality({th \in Threads : pc[th] = "notify"})

\* The timer never sleeps past the earliest deadline: when it waits, the heap is
\* empty or a notify is on its way, and a timed wait ends no later than the head
\* is due (delayed_task_manager.rs add_sequence, timer_loop, shutdown).
TimerNotLate ==
    LET Notified == \E th \in Threads : pc[th] \in {"notify_timer", "timer_notify"} IN
    TimerWaits =>
        /\ timer_shutdown => \E c \in Closers : pc[c] = "timer_notify"
        /\ \/ heap = <<>>
           \/ Notified
           \/ pc[Timer] = "timer_wait_timeout" /\ wake_at <= heap[1].ready_time

\* A delayed task starts no earlier than the ready_time it was posted with
\* (sequence.rs flush_ready_delayed_tasks).
DelayRespected ==
    \A w \in Workers : pc[w] \in {"run", "callback"} => due[task[w]] <= now

\* Where the closure of t is.
Places(t) ==
    {<<"held", th>> : th \in {th \in Threads : task[th] = t}}
    \cup (UNION {{<<"immediate", s, i>> : i \in {i \in 1..Len(immediate_queue[s]) :
                                                  immediate_queue[s][i] = t}} : s \in Seqs})
    \cup (UNION {{<<"delayed", s, i>> : i \in {i \in 1..Len(delayed_queue[s]) :
                                                  delayed_queue[s][i].task = t}} : s \in Seqs})

\* A task that was accepted and has not finished is in exactly one place, and any
\* other task in none: nothing is lost and nothing runs twice, whichever of the
\* queues of sequence.rs and the hands of the posters and workers it goes through.
ExactlyOnce ==
    \A t \in Tasks : Cardinality(Places(t)) = IF status[t] = "posted" THEN 1 ELSE 0

\* Each task runs once, no earlier than it is due, and the timer does not keep
\* it (sequence.rs and delayed_task_manager.rs together).
OnceAndOnTime == ExactlyOnce /\ DelayRespected /\ TimerNotLate

\* A call of shutdown() that is past task_tracker.shutdown().
PastTracker(c) == pc[c] \in CloserLabels \ {"home", "tracker_check", "tracker_wait"}

BlockingTasks == {t \in PoolTasks : Behavior[t] = "BlockShutdown"}

\* Once a shutdown() call has stopped waiting, every BlockShutdown task the pool
\* accepted has finished, and no further one will be accepted (task_tracker.rs,
\* "no window where a queued BlockShutdown task goes unaccounted").
BlockShutdownHonoured ==
    (\E c \in Closers : PastTracker(c)) => \A t \in BlockingTasks : status[t] # "posted"

\* The counter is the number of BlockShutdown tasks accepted and not finished,
\* up to the callbacks that have returned and are about to be counted out
\* (task_tracker.rs will_post_task and after_run_task): it never underflows, and a
\* refused post is not counted.
CountExact ==
    num_tasks_blocking_shutdown =
        Cardinality({t \in BlockingTasks : status[t] = "posted"})
        + Cardinality({w \in Workers : pc[w] = "after"})

\* shutdown() waits for exactly the BlockShutdown tasks the pool accepted: the
\* count is of them, and nobody gets past it while one is left.
ShutdownWaits == CountExact /\ BlockShutdownHonoured

\* When every shutdown() call that was made has returned, the pool's own workers
\* and its timer have ended: no callback runs on them any more (thread_pool.rs
\* shutdown, thread_group.rs join_all).
QuietAfterShutdown ==
    (\E c \in Closers : pc[c] = "closed") /\ (\A c \in Closers : pc[c] \in {"home", "closed"})
        => /\ \A w \in Workers \ Attached : pc[w] = "exit"
           /\ pc[Timer] = "exit"

\* Every accepted task ends, unless the group is shut down first: the push, the
\* notify, the worker loop and the timer together get it to a worker
\* (thread_pool.rs post_task and post_delayed_task).
AcceptedTaskEnds ==
    \A t \in Tasks : status[t] = "posted" ~> (status[t] \in {"done", "skipped"} \/ shutdown)

\* A BlockShutdown task the pool accepted is run, shutdown or not, a delayed one
\* included (task_tracker.rs will_post_task and shutdown).
BlockingTaskRuns ==
    \A t \in BlockingTasks : status[t] = "posted" ~> status[t] = "done"

\* What the pool accepted ends, before a shutdown or as part of it.
TasksEnd == AcceptedTaskEnds /\ BlockingTaskRuns

\* shutdown() returns: the tracker's wait, the join of every worker and the join of
\* the timer all end (thread_pool.rs shutdown).
ShutdownReturns ==
    \A c \in Closers : pc[c] # "home" ~> pc[c] = "closed"

\* The promise of rust_task/README.md for every BlockShutdown task, posted through
\* a runner or not: shutdown() blocks until all such tasks finish, so one whose
\* post returned before shutdown() was called does finish.
EveryBlockShutdownTaskRuns ==
    \A t \in Tasks : Behavior[t] = "BlockShutdown" =>
        (/\ status[t] = "posted"
         /\ ~shutdown_started
         /\ \A p \in Posters : pc[p] = "home") ~> status[t] = "done"
=============================================================================
