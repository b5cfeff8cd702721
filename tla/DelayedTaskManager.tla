------------------------- MODULE DelayedTaskManager -------------------------
(***************************************************************************)
(* rust_task/thread_pool/delayed_task_manager.rs: the heap of sequences    *)
(* with a delayed task, the timer thread that pushes a sequence to the     *)
(* thread group when it is due, and shutdown.  The pool holds the group    *)
(* for as long as the manager lives, so the upgrade of the Weak reference  *)
(* in timer_loop always succeeds.                                          *)
(***************************************************************************)
EXTENDS ThreadGroup

CONSTANT Timer      \* the thread running timer_loop

ASSUME TimerAssumption == Timer \in Pushers

VARIABLES
    heap,           \* Seq([ready_time, sequence]), sorted; ids break ties
    timer_shutdown, \* DelayedManagerInner.shutdown
    timer_handle,   \* is the timer's JoinHandle still there?
    wake_at,        \* when the timer's wait_timeout ends
    ready_time      \* [Pushers -> Time], the ready_time a caller passes

managerVars == <<heap, timer_shutdown, timer_handle, wake_at, ready_time>>

DelayedEntry == [ready_time : Time, sequence : Seqs]

ManagerInit ==
    /\ heap = <<>>
    /\ timer_shutdown = FALSE
    /\ timer_handle = TRUE
    /\ wake_at = 0
    /\ ready_time = [p \in Pushers |-> 0]

ManagerTypeOK ==
    /\ heap \in Seq(DelayedEntry)
    /\ timer_shutdown \in BOOLEAN
    /\ timer_handle \in BOOLEAN
    /\ wake_at \in Time
    /\ ready_time \in [Pushers -> Time]

\* What the manager's steps leave alone when they only move a thread along.
groupData == <<priority_queue, shutdown, handles, joining>>

-----------------------------------------------------------------------------
(* add_sequence: push under the lock, then wake the timer if it waits.     *)

add_sequence(p) ==
    LET e == [ready_time |-> ready_time[p], sequence |-> source[p]] IN
    /\ pc[p] = "add"
    /\ \E i \in 0..Len(heap) : IsHeapPosition(heap, i, e) /\ heap' = HeapInsert(heap, i, e)
    /\ Goto(p, "notify_timer")
    /\ UNCHANGED <<sequenceVars, groupData, source, task,
                   timer_shutdown, timer_handle, wake_at, ready_time>>

TimerWaits == pc[Timer] \in {"timer_wait", "timer_wait_timeout"}

\* condvar.notify_one() by th, which continues at label.
NotifyTimer(th, label) ==
    pc' = IF TimerWaits THEN [pc EXCEPT ![th] = label, ![Timer] = "home"]
                        ELSE [pc EXCEPT ![th] = label]

\* Mutant of add_sequence_notify: notify only when the heap was empty.
add_sequence_notify_first(p) ==
    /\ pc[p] = "notify_timer"
    /\ IF Len(heap) = 1 THEN NotifyTimer(p, "home") ELSE Goto(p, "home")
    /\ source' = [source EXCEPT ![p] = NoSeq]
    /\ ready_time' = [ready_time EXCEPT ![p] = 0]
    /\ UNCHANGED <<sequenceVars, groupData, task, heap, timer_shutdown, timer_handle, wake_at>>

add_sequence_notify(p) ==
    /\ pc[p] = "notify_timer"
    /\ NotifyTimer(p, "home")
    /\ source' = [source EXCEPT ![p] = NoSeq]
    /\ ready_time' = [ready_time EXCEPT ![p] = 0]
    /\ UNCHANGED <<sequenceVars, groupData, task, heap, timer_shutdown, timer_handle, wake_at>>

-----------------------------------------------------------------------------
(* timer_loop: one pass, from taking the lock to releasing it.             *)

timer_loop_break ==
    /\ pc[Timer] = "home"
    /\ timer_shutdown
    /\ Goto(Timer, "exit")
    /\ UNCHANGED <<sequenceVars, groupData, source, task, managerVars>>

timer_loop_wait ==
    /\ pc[Timer] = "home"
    /\ ~timer_shutdown
    /\ heap = <<>>
    /\ Goto(Timer, "timer_wait")
    /\ UNCHANGED <<sequenceVars, groupData, source, task, managerVars>>

timer_loop_push ==
    /\ pc[Timer] = "home"
    /\ ~timer_shutdown
    /\ heap # <<>>
    /\ heap[1].ready_time <= now
    /\ heap' = DropFirst(heap, 1)
    /\ source' = [source EXCEPT ![Timer] = heap[1].sequence]
    /\ Goto(Timer, "push")
    /\ UNCHANGED <<sequenceVars, groupData, task,
                   timer_shutdown, timer_handle, wake_at, ready_time>>

timer_loop_wait_timeout ==
    /\ pc[Timer] = "home"
    /\ ~timer_shutdown
    /\ heap # <<>>
    /\ now < heap[1].ready_time
    /\ wake_at' = heap[1].ready_time
    /\ Goto(Timer, "timer_wait_timeout")
    /\ UNCHANGED <<sequenceVars, groupData, source, task,
                   heap, timer_shutdown, timer_handle, ready_time>>

timer_timeout ==
    /\ pc[Timer] = "timer_wait_timeout"
    /\ wake_at <= now
    /\ Goto(Timer, "home")
    /\ UNCHANGED <<sequenceVars, groupData, source, task, managerVars>>

timer_spurious_wakeup ==
    /\ TimerWaits
    /\ Goto(Timer, "home")
    /\ UNCHANGED <<sequenceVars, groupData, source, task, managerVars>>

TimerStep ==
    \/ timer_loop_break \/ timer_loop_wait \/ timer_loop_push
    \/ timer_loop_wait_timeout \/ timer_timeout

-----------------------------------------------------------------------------
(* shutdown, called when join_all has returned.                            *)

manager_shutdown_signal(c) ==
    /\ pc[c] = "joined"
    /\ timer_shutdown' = TRUE
    /\ Goto(c, "timer_notify")
    /\ UNCHANGED <<sequenceVars, groupData, source, task,
                   heap, timer_handle, wake_at, ready_time>>

manager_shutdown_notify(c) ==
    /\ pc[c] = "timer_notify"
    /\ NotifyTimer(c, "take_timer")
    /\ UNCHANGED <<sequenceVars, groupData, source, task, managerVars>>

\* Mutant of manager_shutdown_take: the handle is dropped, not joined.
manager_shutdown_take_detached(c) ==
    /\ pc[c] = "take_timer"
    /\ timer_handle' = FALSE
    /\ Goto(c, "closed")
    /\ UNCHANGED <<sequenceVars, groupData, source, task,
                   heap, timer_shutdown, wake_at, ready_time>>

manager_shutdown_take(c) ==
    /\ pc[c] = "take_timer"
    /\ timer_handle' = FALSE
    /\ Goto(c, IF timer_handle THEN "join_timer" ELSE "closed")
    /\ UNCHANGED <<sequenceVars, groupData, source, task,
                   heap, timer_shutdown, wake_at, ready_time>>

manager_shutdown_join(c) ==
    /\ pc[c] = "join_timer"
    /\ pc[Timer] = "exit"
    /\ Goto(c, "closed")
    /\ UNCHANGED <<sequenceVars, groupData, source, task, managerVars>>

ManagerShutdownStep(c) ==
    \/ manager_shutdown_signal(c) \/ manager_shutdown_notify(c)
    \/ manager_shutdown_take(c) \/ manager_shutdown_join(c)
=============================================================================
