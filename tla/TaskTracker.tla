----------------------------- MODULE TaskTracker -----------------------------
(***************************************************************************)
(* rust_task/thread_pool/task_tracker.rs: the counter that lets shutdown   *)
(* wait for BlockShutdown tasks.  Each operator is one region under the    *)
(* tracker's lock; ThreadPool says which thread takes it and who waits on  *)
(* shutdown_done.                                                          *)
(***************************************************************************)
EXTENDS Integers

VARIABLES
    shutdown_started,
    num_tasks_blocking_shutdown

trackerVars == <<shutdown_started, num_tasks_blocking_shutdown>>

\* TaskShutdownBehavior
Behaviors == {"ContinueOnShutdown", "SkipOnShutdown", "BlockShutdown"}

TrackerInit ==
    /\ shutdown_started = FALSE
    /\ num_tasks_blocking_shutdown = 0

\* num_tasks_blocking_shutdown is a usize; CountExact of ThreadPool shows that
\* the subtraction in after_run_task never takes it below 0.
TrackerTypeOK ==
    /\ shutdown_started \in BOOLEAN
    /\ num_tasks_blocking_shutdown \in Int

\* What will_post_task returns ...
will_post_task(behavior) ==
    shutdown_started => behavior = "ContinueOnShutdown"

\* Mutant of will_post_task_count: the count comes before the refusal.
will_post_task_count_early(behavior) ==
    num_tasks_blocking_shutdown' =
        IF behavior = "BlockShutdown"
          THEN num_tasks_blocking_shutdown + 1
          ELSE num_tasks_blocking_shutdown

\* ... and what it leaves behind.
will_post_task_count(behavior) ==
    num_tasks_blocking_shutdown' =
        IF ~shutdown_started /\ behavior = "BlockShutdown"
          THEN num_tasks_blocking_shutdown + 1
          ELSE num_tasks_blocking_shutdown

\* The body of after_run_task for a BlockShutdown task.
after_run_task_count ==
    num_tasks_blocking_shutdown' = num_tasks_blocking_shutdown - 1

\* Mutant of after_run_task_notifies: the test comes before the subtraction.
after_run_task_notifies_early == num_tasks_blocking_shutdown = 0

\* after_run_task notifies the threads waiting in shutdown.
after_run_task_notifies == num_tasks_blocking_shutdown = 1
=============================================================================
