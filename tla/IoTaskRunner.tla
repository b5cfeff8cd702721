---------------------------- MODULE IoTaskRunner ----------------------------
(***************************************************************************)
(* rust_io/io_task_runner.rs on the pump: tasks and delayed tasks posted   *)
(* from other threads and from callbacks, the drain in do_work, the sizing *)
(* of epoll_wait's timeout, shutdown, and the runner's reference count.    *)
(*                                                                         *)
(* A callback is a model value; Spawns says which tasks it posts to the    *)
(* same runner.  Time is counted in ticks, Res of them to the millisecond  *)
(* that epoll_wait's timeout is given in.                                  *)
(***************************************************************************)
EXTENDS EpollPump, SequencesExt

CONSTANTS
    Tasks,
    DelayedTasks,   \* those posted with post_delayed_task
    Spawns,         \* [Tasks -> SUBSET Tasks]
    NoTask,
    Delays,         \* the delays a delayed task may be posted with, in ticks
    Res,
    IntMax,         \* longest timeout in milliseconds, i32::MAX in the code
    MaxTime,        \* bound on the clock
    Callers,        \* threads that hold the runner and post to it
    Closers,        \* those of them that may call shutdown
    IoThread,
    NoThread

ASSUME IoRunnerAssumption ==
    /\ IsFiniteSet(Tasks) /\ DelayedTasks \subseteq Tasks
    /\ Spawns \in [Tasks -> SUBSET (Tasks \ DelayedTasks)]
    /\ NoTask \notin Tasks
    /\ Delays \subseteq Nat
    /\ Res \in Nat \ {0} /\ IntMax \in Nat \ {0} /\ MaxTime \in Nat
    /\ Closers \subseteq Callers
    /\ IoThread \notin Callers /\ NoThread \notin Callers

VARIABLES
    tasks,          \* the queue of immediate tasks
    delayed_tasks,  \* the heap: tasks by deadline, equal ones in any order
    shutdown,
    thread_handle,  \* is the JoinHandle still in its slot?
    handle_lock,    \* who holds the slot's lock
    refs,           \* who holds an Arc of the runner
    now,
    deadline,       \* [Tasks -> Nat], set when a delayed task is posted
    next_deadline,  \* what do_work returned: Never, or a deadline
    wait_until,     \* when epoll_wait's timeout is over, or Never
    running,        \* the task the IO thread is running
    posted,         \* tasks that a thread or a callback has tried to post
    ended,          \* tasks that have run
    pc,             \* [Callers -> STRING]
    item            \* [Callers -> Tasks or NoTask], what a post call carries

queueVars == <<tasks, delayed_tasks, deadline>>
handleVars == <<shutdown, thread_handle, handle_lock, refs>>
loopVars == <<next_deadline, wait_until, running, ended>>
callerVars == <<pc, item, posted>>
vars == <<pumpVars, queueVars, handleVars, loopVars, callerVars, now>>

Never == -1

Goto(th, label) == pc' = [pc EXCEPT ![th] = label]

\* with_pump_impl: the thread is running and its handle is in the slot.
Init ==
    /\ PumpInit
    /\ tasks = <<>> /\ delayed_tasks = {}
    /\ deadline = [t \in Tasks |-> 0]
    /\ shutdown = FALSE
    /\ thread_handle = TRUE
    /\ handle_lock = NoThread
    /\ refs = Callers \cup {IoThread}
    /\ now = 0
    /\ next_deadline = Never
    /\ wait_until = Never
    /\ running = NoTask
    /\ posted = {} /\ ended = {}
    /\ pc = [th \in Callers |-> "idle"]
    /\ item = [th \in Callers |-> NoTask]

-----------------------------------------------------------------------------
(* post_task and post_delayed_task, from another thread: the check, the    *)
(* deadline, the push and the write to the eventfd are steps of their own. *)

post_check(th) ==
    /\ pc[th] = "idle" /\ th \in refs
    /\ \E t \in Tasks \ posted :
          /\ \A s \in Tasks : t \notin Spawns[s]
          /\ posted' = posted \cup {t}
          /\ IF shutdown
               THEN UNCHANGED <<pc, item>>
               ELSE /\ item' = [item EXCEPT ![th] = t]
                    /\ Goto(th, IF t \in DelayedTasks THEN "deadline" ELSE "push")
    /\ UNCHANGED <<pumpVars, queueVars, handleVars, loopVars, now>>

post_deadline(th) ==
    /\ pc[th] = "deadline"
    /\ \E d \in Delays : deadline' = [deadline EXCEPT ![item[th]] = now + d]
    /\ Goto(th, "push")
    /\ UNCHANGED <<pumpVars, tasks, delayed_tasks, handleVars, loopVars, item, posted, now>>

post_push(th) ==
    /\ pc[th] = "push"
    /\ IF item[th] \in DelayedTasks
         THEN delayed_tasks' = delayed_tasks \cup {item[th]} /\ UNCHANGED tasks
         ELSE tasks' = Append(tasks, item[th]) /\ UNCHANGED delayed_tasks
    /\ item' = [item EXCEPT ![th] = NoTask]
    /\ Goto(th, "schedule_work")
    /\ UNCHANGED <<pumpVars, deadline, handleVars, loopVars, posted, now>>

\* Mutant of post_wake: only an immediate task wakes the loop.
post_wake_immediate(th) ==
    /\ pc[th] = "schedule_work"
    /\ wake' = (wake \/ tasks # <<>>)
    /\ Goto(th, "idle")
    /\ UNCHANGED <<watches, interest, generation_counter, quit, readiness, io_pc, batch, current,
                   queueVars, handleVars, loopVars, item, posted, now>>

post_wake(th) ==
    /\ pc[th] = "schedule_work"
    /\ schedule_work
    /\ Goto(th, "idle")
    /\ UNCHANGED <<watches, interest, generation_counter, quit, readiness, io_pc, batch, current,
                   queueVars, handleVars, loopVars, item, posted, now>>

-----------------------------------------------------------------------------
(* do_work: drain the immediate tasks, then run the delayed tasks that are *)
(* due, then report the next deadline.                                     *)

IsFirst(t) == t \in delayed_tasks /\ \A u \in delayed_tasks : deadline[t] <= deadline[u]

HasDue == \E t \in delayed_tasks : deadline[t] <= now

\* Mutant of PoppedTasks: read the front and leave it there.
PoppedTasks_kept == tasks

PoppedTasks == Tail(tasks)

\* Take the next task off a queue, or go on to the next loop.
do_work_pop ==
    \/ /\ io_pc = "work"
       /\ IF tasks = <<>>
            THEN io_pc' = "delayed" /\ UNCHANGED <<tasks, running>>
            ELSE /\ running' = Head(tasks) /\ tasks' = PoppedTasks
                 /\ io_pc' = "run"
       /\ UNCHANGED delayed_tasks
    \/ /\ io_pc = "delayed"
       /\ IF HasDue
            THEN \E t \in delayed_tasks :
                    /\ IsFirst(t)
                    /\ running' = t /\ delayed_tasks' = delayed_tasks \ {t}
                    /\ io_pc' = "run"
            ELSE io_pc' = "peek" /\ UNCHANGED <<delayed_tasks, running>>
       /\ UNCHANGED tasks

do_work_next ==
    /\ do_work_pop
    /\ UNCHANGED <<watches, interest, generation_counter, wake, quit, readiness, batch, current,
                   deadline, handleVars, next_deadline, wait_until, ended, callerVars, now>>

\* The callback runs and returns; the posts it makes are calls on this thread.
run_callback ==
    /\ io_pc = "run"
    /\ LET mine == Spawns[running] \ posted IN
       /\ posted' = posted \cup mine
       /\ tasks' \in IF shutdown THEN {tasks} ELSE {tasks \o s : s \in SetToSeqs(mine)}
       /\ wake' = (wake \/ (mine # {} /\ ~shutdown))
    /\ ended' = ended \cup {running}
    /\ io_pc' = IF running \in DelayedTasks THEN "delayed" ELSE "work"
    /\ running' = NoTask
    /\ UNCHANGED <<watches, interest, generation_counter, quit, readiness, batch, current,
                   delayed_tasks, deadline, handleVars, next_deadline, wait_until, pc, item, now>>

do_work_peek ==
    /\ io_pc = "peek"
    /\ next_deadline' = IF delayed_tasks = {} THEN Never ELSE Min({deadline[t] : t \in delayed_tasks})
    /\ io_pc' = "quit?"
    /\ UNCHANGED <<watches, interest, generation_counter, wake, quit, readiness, batch, current,
                   queueVars, handleVars, wait_until, running, ended, callerVars, now>>

-----------------------------------------------------------------------------
(* The rest of the pump's loop, with the timeout it gives epoll_wait.      *)

\* Mutant of TimeoutMillis: round up to whole milliseconds.
TimeoutMillis_up(d) == Min({IntMax, (d - now + Res - 1) \div Res + 1})

\* Whole milliseconds until d, rounded down and at most i32::MAX.
TimeoutMillis(d) == IF d <= now THEN 0 ELSE Min({IntMax, (d - now) \div Res})

pump_check_quit ==
    /\ check_quit
    /\ wait_until' = IF quit \/ next_deadline = Never THEN Never
                     ELSE now + Res * TimeoutMillis(next_deadline)
    /\ UNCHANGED <<queueVars, handleVars, next_deadline, running, ended, callerVars, now>>

pump_wait ==
    /\ epoll_wait(wait_until # Never /\ wait_until <= now)
    /\ UNCHANGED <<queueVars, handleVars, loopVars, callerVars, now>>

\* A signal interrupts epoll_wait: back to the head of the loop.
pump_interrupted ==
    /\ io_pc = "wait"
    /\ io_pc' = "work"
    /\ UNCHANGED <<watches, interest, generation_counter, wake, quit, readiness, batch, current,
                   queueVars, handleVars, loopVars, callerVars, now>>

pump_events ==
    /\ drain_wake_fd \/ end_of_batch
    /\ UNCHANGED <<queueVars, handleVars, loopVars, callerVars, now>>

\* run() returns, drive() ends, and with it the thread's own reference.
drive_end ==
    /\ io_pc = "end"
    /\ io_pc' = "done"
    /\ refs' = refs \ {IoThread}
    /\ UNCHANGED <<watches, interest, generation_counter, wake, quit, readiness, batch, current,
                   queueVars, shutdown, thread_handle, handle_lock, loopVars, callerVars, now>>

-----------------------------------------------------------------------------
(* shutdown, and the drop of a reference.                                  *)

shutdown_store(th) ==
    /\ pc[th] = "idle" /\ th \in Closers /\ th \in refs
    /\ shutdown' = TRUE
    /\ Goto(th, "quit")
    /\ UNCHANGED <<pumpVars, queueVars, thread_handle, handle_lock, refs, loopVars, item, posted, now>>

\* The pump's quit(): the flag, then the eventfd.
quit_store(th) ==
    \/ /\ pc[th] = "quit"
       /\ quit' = TRUE
       /\ Goto(th, "quit_wake")
       /\ UNCHANGED <<watches, interest, generation_counter, wake, readiness, io_pc, batch, current,
                      queueVars, handleVars, loopVars, item, posted, now>>
    \/ /\ pc[th] = "quit_wake"
       /\ schedule_work
       /\ Goto(th, "take")
       /\ UNCHANGED <<watches, interest, generation_counter, quit, readiness, io_pc, batch, current,
                      queueVars, handleVars, loopVars, item, posted, now>>

\* Mutant of shutdown_take: the guard does not outlive take().
shutdown_take_unguarded(th) ==
    /\ pc[th] = "take" /\ handle_lock = NoThread
    /\ Goto(th, IF thread_handle THEN "join" ELSE "closed")
    /\ thread_handle' = FALSE
    /\ UNCHANGED <<pumpVars, queueVars, shutdown, handle_lock, refs, loopVars, item, posted, now>>

\* The lock's guard lives to the end of the `if let`, so over the join.
shutdown_take(th) ==
    /\ pc[th] = "take" /\ handle_lock = NoThread
    /\ Goto(th, IF thread_handle THEN "join" ELSE "closed")
    /\ handle_lock' = IF thread_handle THEN th ELSE NoThread
    /\ thread_handle' = FALSE
    /\ UNCHANGED <<pumpVars, queueVars, shutdown, refs, loopVars, item, posted, now>>

shutdown_join(th) ==
    /\ pc[th] = "join" /\ io_pc = "done"
    /\ handle_lock' = NoThread
    /\ Goto(th, "closed")
    /\ UNCHANGED <<pumpVars, queueVars, shutdown, thread_handle, refs, loopVars, item, posted, now>>

\* A thread lets its Arc go.  The IO thread holds one until its loop is over,
\* so the last one to go here finds the loop ended and the slot empty.
release(th) ==
    /\ pc[th] \in {"idle", "closed"} /\ th \in refs
    /\ refs' = refs \ {th}
    /\ UNCHANGED <<pumpVars, queueVars, shutdown, thread_handle, handle_lock, loopVars, callerVars, now>>

Tick ==
    /\ now < MaxTime
    /\ now' = now + 1
    /\ UNCHANGED <<pumpVars, queueVars, handleVars, loopVars, callerVars>>

-----------------------------------------------------------------------------
\* The rest of a post that was begun.
PostGoesOn(th) == post_deadline(th) \/ post_push(th) \/ post_wake(th)
PostStep(th) == post_check(th) \/ PostGoesOn(th)
CloseStep(th) == quit_store(th) \/ shutdown_take(th) \/ shutdown_join(th)
IoStep ==
    \/ do_work_next \/ run_callback \/ do_work_peek
    \/ pump_check_quit \/ pump_wait \/ pump_events \/ drive_end

Next ==
    \/ \E th \in Callers : PostStep(th) \/ shutdown_store(th) \/ CloseStep(th) \/ release(th)
    \/ IoStep
    \/ pump_interrupted
    \/ Tick

Spec == Init /\ [][Next]_vars

\* The scheduler runs every thread that can run, and time passes; nobody has to
\* start a call, and no signal has to arrive.
Fairness ==
    /\ WF_vars(IoStep)
    /\ WF_vars(Tick)
    /\ \A th \in Callers :
          /\ WF_vars(PostGoesOn(th))
          /\ SF_vars(CloseStep(th))

LiveSpec == Spec /\ Fairness

-----------------------------------------------------------------------------
TypeOK ==
    /\ PumpTypeOK
    /\ tasks \in Seq(Tasks \ DelayedTasks) /\ IsInjective(tasks)
    /\ delayed_tasks \subseteq DelayedTasks
    /\ running \in Tasks \cup {NoTask} /\ (running # NoTask <=> io_pc = "run")
    /\ {running} \cap (ToSet(tasks) \cup delayed_tasks \cup ended) = {}
    /\ refs \subseteq Callers \cup {IoThread}
    /\ wait_until = Never \/ wait_until >= 0

\* Something the loop must see before it may sleep to the end of its timeout.
Unseen ==
    \/ tasks # <<>>
    \/ quit
    \/ \E t \in delayed_tasks : wait_until = Never \/ wait_until > Max({now, deadline[t]})

\* While the IO thread sleeps in epoll_wait with work it has not taken account
\* of (a task, a deadline before its timeout, the quit flag), the eventfd is
\* set or a thread is on its way to set it: do_work looks at the queues before
\* the wait and the posters push before they write, never the other way round.
NoMissedWake ==
    io_pc = "wait" /\ Unseen =>
        \/ wake
        \/ \E th \in Callers : pc[th] \in {"schedule_work", "quit_wake"}

\* A delayed task never runs before its deadline, however the timeout was
\* rounded and whatever woke the loop.
NeverEarly == running \in DelayedTasks => deadline[running] <= now

\* The loop is neither late for what it accepted nor early.
OnTime == NoMissedWake /\ NeverEarly

\* Once any call of shutdown() has returned the IO thread is over, also for a
\* caller that found the handle already taken by another.
QuietAfterShutdown == (\E th \in Callers : pc[th] = "closed") => io_pc = "done"

\* A task that a post accepted runs, once it is due if it is a delayed one (and
\* due before the clock's bound), or the runner is shut down.
AcceptedTaskRuns ==
    \A t \in Tasks :
        (t \in ToSet(tasks) \cup delayed_tasks /\ deadline[t] <= MaxTime) ~> (t \in ended \/ shutdown)

\* shutdown() returns, whatever else is posted or waits.
ShutdownReturns == \A th \in Closers : (pc[th] = "quit") ~> (pc[th] = "closed")

=============================================================================
