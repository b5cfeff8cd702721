----------------------------- MODULE ThreadGroup -----------------------------
(***************************************************************************)
(* rust_task/thread_pool/thread_group.rs (with priority_queue.rs): the     *)
(* queue of task sources, the condition variable the workers sleep on, the *)
(* worker loop and join_all.                                               *)
(*                                                                         *)
(* Threads interleave at the granularity of the code: a region under the   *)
(* group's lock, a region under a sequence's lock, a read-modify-write of  *)
(* has_worker and a notify are one step each.                              *)
(***************************************************************************)
EXTENDS Sequence, FiniteSets

CONSTANTS
    Workers,    \* threads running worker_loop
    Attached,   \* those of them that came through run_worker_on_current_thread
    Pushers,    \* other threads that call push_task_source
    Closers,    \* threads that call join_all
    Priority,   \* [Seqs -> Nat], the priority of a sequence's traits
    NoSeq, NoTask

Threads == Workers \cup Pushers \cup Closers

ASSUME ThreadsAssumption ==
    /\ Attached \subseteq Workers
    /\ IsFiniteSet(Workers)
    /\ Workers \cap Pushers = {}
    /\ Workers \cap Closers = {}
    /\ Pushers \cap Closers = {}
    /\ NoSeq \notin Seqs
    /\ NoTask \notin Tasks
    /\ Priority \in [Seqs -> Nat]

VARIABLES
    priority_queue, \* Seq(Seqs), in push order: the ready_time part of the key
    shutdown,       \* the group's shutdown flag
    handles,        \* workers whose JoinHandle is still in the group
    joining,        \* [Closers -> SUBSET Workers], handles taken by a join_all
    pc,             \* [Threads -> STRING], the step a thread is about to take
    source,         \* [Threads -> Seqs or NoSeq], the source it holds
    task            \* [Threads -> Tasks or NoTask], the task it holds

groupVars == <<priority_queue, shutdown, handles, joining, pc, source, task>>

\* Where a thread continues when push_task_source returns.
Home(th) == IF th \in Workers THEN "get_work" ELSE "home"

Goto(th, label) == pc' = [pc EXCEPT ![th] = label]

\* The workers blocked in condvar.wait.
Sleeping == {w \in Workers : pc[w] = "wait"}

GroupInit ==
    /\ priority_queue = <<>>
    /\ shutdown = FALSE
    /\ handles = Workers \ Attached
    /\ joining = [c \in Closers |-> {}]
    /\ pc = [th \in Threads |-> Home(th)]
    /\ source = [th \in Threads |-> NoSeq]
    /\ task = [th \in Threads |-> NoTask]

-----------------------------------------------------------------------------
(* push_task_source: push under the lock, then notify one sleeper, if any. *)

push_task_source(th) ==
    /\ pc[th] = "push"
    /\ priority_queue' = Append(priority_queue, source[th])
    /\ Goto(th, "notify")
    /\ UNCHANGED <<sequenceVars, shutdown, handles, joining, source, task>>

\* Mutant of notify_one: nobody is notified.
notify_one_forgotten(th) ==
    /\ pc[th] = "notify"
    /\ Goto(th, Home(th))
    /\ source' = [source EXCEPT ![th] = NoSeq]
    /\ UNCHANGED <<sequenceVars, priority_queue, shutdown, handles, joining, task>>

notify_one(th) ==
    /\ pc[th] = "notify"
    /\ IF Sleeping = {}
         THEN Goto(th, Home(th))
         ELSE \E w \in Sleeping :
                pc' = [pc EXCEPT ![th] = Home(th), ![w] = "get_work"]
    /\ source' = [source EXCEPT ![th] = NoSeq]
    /\ UNCHANGED <<sequenceVars, priority_queue, shutdown, handles, joining, task>>

-----------------------------------------------------------------------------
(* get_work: one pass of its loop, which holds the lock from the check of  *)
(* the flag to the pop or the wait.                                        *)

\* PriorityQueue::pop takes the highest priority, and the oldest entry of it.
IsTop(i) ==
    /\ i \in 1..Len(priority_queue)
    /\ \A j \in 1..Len(priority_queue) :
          \/ Priority[priority_queue[j]] < Priority[priority_queue[i]]
          \/ Priority[priority_queue[j]] = Priority[priority_queue[i]] /\ i <= j

WithoutEntry(q, i) == [j \in 1..(Len(q) - 1) |-> IF j < i THEN q[j] ELSE q[j + 1]]

get_work_none(w) ==
    /\ pc[w] = "get_work"
    /\ shutdown
    /\ Goto(w, "exit")
    /\ UNCHANGED <<sequenceVars, priority_queue, shutdown, handles, joining, source, task>>

get_work_some(w) ==
    /\ pc[w] = "get_work"
    /\ ~shutdown
    /\ \E i \in 1..Len(priority_queue) :
          /\ IsTop(i)
          /\ source' = [source EXCEPT ![w] = priority_queue[i]]
          /\ priority_queue' = WithoutEntry(priority_queue, i)
    /\ Goto(w, "claim")
    /\ UNCHANGED <<sequenceVars, shutdown, handles, joining, task>>

get_work_wait(w) ==
    /\ pc[w] = "get_work"
    /\ ~shutdown
    /\ priority_queue = <<>>
    /\ Goto(w, "wait")
    /\ UNCHANGED <<sequenceVars, priority_queue, shutdown, handles, joining, source, task>>

\* std::sync::Condvar may wake a waiter that nobody notified.
spurious_wakeup(w) ==
    /\ pc[w] = "wait"
    /\ Goto(w, "get_work")
    /\ UNCHANGED <<sequenceVars, priority_queue, shutdown, handles, joining, source, task>>

-----------------------------------------------------------------------------
(* worker_loop: what a worker does with a source it popped.  The callback  *)
(* runs from "run" to "release"; ThreadPool says what it does in between.   *)

\* Mutant of will_run_task: did_process_task runs after Disallowed as well.
will_run_task_always_processed(w) ==
    /\ pc[w] = "claim"
    /\ has_worker' = [has_worker EXCEPT ![source[w]] = TRUE]
    /\ Goto(w, IF has_worker[source[w]] THEN "release" ELSE "take")
    /\ UNCHANGED <<queueVars, now, priority_queue, shutdown, handles, joining, source, task>>

will_run_task(w) ==
    LET s == source[w] IN
    /\ pc[w] = "claim"
    /\ has_worker' = [has_worker EXCEPT ![s] = TRUE]
    /\ IF has_worker[s]
         THEN /\ Goto(w, "get_work")
              /\ source' = [source EXCEPT ![w] = NoSeq]
         ELSE /\ Goto(w, "take")
              /\ UNCHANGED source
    /\ UNCHANGED <<queueVars, now, priority_queue, shutdown, handles, joining, task>>

\* Mutant of take_task: the callback is called whether there was a task or not.
take_task_unwrapped(w) ==
    LET s == source[w] IN
    /\ pc[w] = "take"
    /\ \E k \in 0..Len(delayed_queue[s]) :
          /\ IsReadyPrefix(delayed_queue[s], k)
          /\ delayed_queue' = [delayed_queue EXCEPT ![s] = DropFirst(@, k)]
          /\ LET q == FlushedQueue(s, k) IN
             /\ task' = [task EXCEPT ![w] = IF q = <<>> THEN NoTask ELSE Head(q)]
             /\ immediate_queue' = [immediate_queue EXCEPT ![s] = IF q = <<>> THEN q ELSE Tail(q)]
    /\ Goto(w, "run")
    /\ UNCHANGED <<has_worker, now, priority_queue, shutdown, handles, joining, source>>

take_task(w) ==
    LET s == source[w] IN
    /\ pc[w] = "take"
    /\ \E k \in 0..Len(delayed_queue[s]) :
          /\ IsReadyPrefix(delayed_queue[s], k)
          /\ delayed_queue' = [delayed_queue EXCEPT ![s] = DropFirst(@, k)]
          /\ LET q == FlushedQueue(s, k) IN
             IF q = <<>>
               THEN /\ Goto(w, "release")
                    /\ UNCHANGED <<immediate_queue, task>>
               ELSE /\ Goto(w, "run")
                    /\ task' = [task EXCEPT ![w] = Head(q)]
                    /\ immediate_queue' = [immediate_queue EXCEPT ![s] = Tail(q)]
    /\ UNCHANGED <<has_worker, now, priority_queue, shutdown, handles, joining, source>>

\* did_process_task gives up ownership first ...
did_process_task_release(w) ==
    /\ pc[w] = "release"
    /\ has_worker' = [has_worker EXCEPT ![source[w]] = FALSE]
    /\ Goto(w, "recheck")
    /\ UNCHANGED <<queueVars, now, priority_queue, shutdown, handles, joining, source, task>>

\* ... and then looks whether the sequence must be queued again.
did_process_task_check(w) ==
    /\ pc[w] = "recheck"
    /\ IF has_ready_tasks(source[w])
         THEN /\ Goto(w, "push")
              /\ UNCHANGED source
         ELSE /\ Goto(w, "get_work")
              /\ source' = [source EXCEPT ![w] = NoSeq]
    /\ UNCHANGED <<sequenceVars, priority_queue, shutdown, handles, joining, task>>

WorkerStep(w) ==
    \/ push_task_source(w) \/ notify_one(w)
    \/ get_work_none(w) \/ get_work_some(w) \/ get_work_wait(w)
    \/ will_run_task(w) \/ take_task(w)
    \/ did_process_task_release(w) \/ did_process_task_check(w)

-----------------------------------------------------------------------------
(* join_all *)

join_all_signal(c) ==
    /\ pc[c] = "join_all"
    /\ shutdown' = TRUE
    /\ Goto(c, "notify_all")
    /\ UNCHANGED <<sequenceVars, priority_queue, handles, joining, source, task>>

\* Mutant of join_all_notify: notify_one for notify_all.
join_all_notify_one(c) ==
    /\ pc[c] = "notify_all"
    /\ IF Sleeping = {}
         THEN Goto(c, "take_handles")
         ELSE \E w \in Sleeping : pc' = [pc EXCEPT ![c] = "take_handles", ![w] = "get_work"]
    /\ UNCHANGED <<sequenceVars, priority_queue, shutdown, handles, joining, source, task>>

join_all_notify(c) ==
    /\ pc[c] = "notify_all"
    /\ pc' = [th \in Threads |-> IF th = c THEN "take_handles"
                                 ELSE IF th \in Sleeping THEN "get_work" ELSE pc[th]]
    /\ UNCHANGED <<sequenceVars, priority_queue, shutdown, handles, joining, source, task>>

join_all_take(c) ==
    /\ pc[c] = "take_handles"
    /\ joining' = [joining EXCEPT ![c] = handles]
    /\ handles' = {}
    /\ Goto(c, "join")
    /\ UNCHANGED <<sequenceVars, priority_queue, shutdown, source, task>>

join_all_join(c) ==
    /\ pc[c] = "join"
    /\ \A w \in joining[c] : pc[w] = "exit"
    /\ joining' = [joining EXCEPT ![c] = {}]
    /\ Goto(c, "joined")
    /\ UNCHANGED <<sequenceVars, priority_queue, shutdown, handles, source, task>>

JoinAllStep(c) ==
    join_all_signal(c) \/ join_all_notify(c) \/ join_all_take(c) \/ join_all_join(c)
=============================================================================
