------------------------------ MODULE Pipeline -----------------------------
(***************************************************************************)
(* rust_async/examples/pipeline_sync.rs: a bounded queue from a Mutex and  *)
(* two Condvars, a Barrier that starts the tasks together and a channel    *)
(* that collects the results.  It composes every primitive of sync.rs but  *)
(* the RwLock; no future is dropped.                                       *)
(***************************************************************************)
EXTENDS SyncPrimitives, FiniteSets

CONSTANTS
    PipeConsumers, Producer, Main,
    Cap,        \* CAP
    Total       \* TOTAL

PipelineAssumption ==
    /\ Cap \in Nat \ {0} /\ Total \in Nat
    /\ Producer \notin PipeConsumers /\ Main \notin PipeConsumers \cup {Producer}

PipeTasks == PipeConsumers \cup {Producer, Main}
Stop == 0   \* the sentinel None; the items are 1..Total

VARIABLES
    p_mutex, queue, \* Shared::queue, the lock and the data
    condvars,       \* [{"not_full", "not_empty"} -> wait set]
    p_barrier, p_chan,
    p_pc, p_runnable,   \* as pc and runnable in AsyncMutex
    item,           \* [PipeConsumers -> value popped]
    next,           \* values pushed so far
    results         \* values main received

pipelineVars ==
    <<p_mutex, queue, condvars, p_barrier, p_chan, p_pc, p_runnable, item, next, results>>

PipelineInit ==
    /\ p_mutex = Mutex
    /\ queue = <<>>
    /\ condvars = [c \in {"not_full", "not_empty"} |-> Condvar]
    /\ p_barrier = Barrier
    /\ p_chan = [channel EXCEPT !.senders = Cardinality(PipeConsumers) + 1]
    /\ p_pc = [t \in PipeTasks |-> IF t = Main THEN "drop" ELSE "new"]
    /\ p_runnable = [t \in PipeTasks |-> TRUE]
    /\ item = [c \in PipeConsumers |-> Stop]
    /\ next = 0
    /\ results = <<>>

PipeGoto(t, label) == p_pc' = [p_pc EXCEPT ![t] = label]
PipeWake(woken) == p_runnable' = [t \in PipeTasks |-> p_runnable[t] \/ t \in woken]
PipeSuspend(t) == p_runnable' = [p_runnable EXCEPT ![t] = FALSE]

\* The condition a task waits for, its condvar, and the one it notifies.
Condition(t) == IF t = Producer THEN Len(queue) < Cap ELSE queue # <<>>
WaitsOn(t) == IF t = Producer THEN "not_full" ELSE "not_empty"
Notifies(t) == IF t = Producer THEN "not_empty" ELSE "not_full"

-----------------------------------------------------------------------------
\* barrier.wait().await
start(t) ==
    /\ t # Main
    /\ \/ /\ p_pc[t] = "new"
          /\ LET r == barrier_join(p_barrier, t, Cardinality(PipeConsumers) + 1) IN
             /\ p_barrier' = r.obj
             /\ IF r.ready THEN PipeGoto(t, "lock") /\ PipeWake(r.wakes)
                ELSE PipeGoto(t, "joined") /\ PipeSuspend(t)
       \/ /\ p_pc[t] = "joined" /\ p_runnable[t]
          /\ LET r == barrier_poll(p_barrier, t, 0) IN
             /\ p_barrier' = r.obj
             /\ IF r.ready THEN PipeGoto(t, "lock") /\ UNCHANGED p_runnable
                ELSE PipeSuspend(t) /\ UNCHANGED p_pc
    /\ UNCHANGED <<p_mutex, queue, condvars, p_chan, item, next, results>>

\* queue.lock().await, and the Relocking state of CondvarWait.
p_lock(t) ==
    /\ p_pc[t] \in {"lock", "relock"} /\ p_runnable[t]
    /\ LET r == lock_poll(p_mutex, t) IN
       /\ p_mutex' = r.obj
       /\ IF r.ready THEN PipeGoto(t, "held") /\ UNCHANGED p_runnable
          ELSE PipeSuspend(t) /\ UNCHANGED p_pc
    /\ UNCHANGED <<queue, condvars, p_barrier, p_chan, item, next, results>>

\* The condition does not hold: park, drop the guard, wait.
p_wait(t) ==
    \/ /\ p_pc[t] = "held" /\ ~Condition(t)
       /\ condvars' = [condvars EXCEPT ![WaitsOn(t)] = park(@, t)]
       /\ PipeSuspend(t)
       /\ PipeGoto(t, "release")
       /\ UNCHANGED <<p_mutex, queue, p_barrier, p_chan, item, next, results>>
    \/ /\ p_pc[t] = "release"
       /\ p_mutex' = guard_drop(p_mutex).obj
       /\ PipeWake(guard_drop(p_mutex).wakes)
       /\ PipeGoto(t, "waiting")
       /\ UNCHANGED <<queue, condvars, p_barrier, p_chan, item, next, results>>
    \/ /\ p_pc[t] = "waiting" /\ p_runnable[t]
       /\ condvars' = [condvars EXCEPT ![WaitsOn(t)] = unpark(@, t)]
       /\ PipeGoto(t, "relock")
       /\ UNCHANGED <<p_mutex, queue, p_barrier, p_chan, p_runnable, item, next, results>>

\* push_back or pop_front under the guard.
push ==
    /\ p_pc[Producer] = "held" /\ Condition(Producer)
    /\ queue' = Append(queue, IF next < Total THEN next + 1 ELSE Stop)
    /\ next' = next + 1
    /\ PipeGoto(Producer, "unlock")
    /\ UNCHANGED <<p_mutex, condvars, p_barrier, p_chan, p_runnable, item, results>>

pop(c) ==
    /\ p_pc[c] = "held" /\ Condition(c)
    /\ item' = [item EXCEPT ![c] = Head(queue)]
    /\ queue' = Tail(queue)
    /\ PipeGoto(c, "unlock")
    /\ UNCHANGED <<p_mutex, condvars, p_barrier, p_chan, p_runnable, next, results>>

p_unlock(t) ==
    /\ p_pc[t] = "unlock"
    /\ p_mutex' = guard_drop(p_mutex).obj
    /\ PipeWake(guard_drop(p_mutex).wakes)
    /\ PipeGoto(t, "notify")
    /\ UNCHANGED <<queue, condvars, p_barrier, p_chan, item, next, results>>

\* Mutant of notify_other: each side notifies the condvar it waits on.
notify_other_own(t) ==
    /\ p_pc[t] = "notify"
    /\ LET r == notify_one(condvars[WaitsOn(t)]) IN
       /\ condvars' = [condvars EXCEPT ![WaitsOn(t)] = r.obj]
       /\ PipeWake(r.wakes)
    /\ PipeGoto(t, IF t # Producer THEN "got"
               ELSE IF next < Total + Cardinality(PipeConsumers) THEN "lock" ELSE "done")
    /\ UNCHANGED <<p_mutex, queue, p_barrier, p_chan, item, next, results>>

\* notify_one for the other side; the producer goes on with its next item.
notify_other(t) ==
    /\ p_pc[t] = "notify"
    /\ LET r == notify_one(condvars[Notifies(t)]) IN
       /\ condvars' = [condvars EXCEPT ![Notifies(t)] = r.obj]
       /\ PipeWake(r.wakes)
    /\ PipeGoto(t, IF t # Producer THEN "got"
               ELSE IF next < Total + Cardinality(PipeConsumers) THEN "lock" ELSE "done")
    /\ UNCHANGED <<p_mutex, queue, p_barrier, p_chan, item, next, results>>

\* Send the result, or stop and drop the sender.
result(c) ==
    /\ p_pc[c] = "got"
    /\ LET r == IF item[c] # Stop THEN send(p_chan, item[c] * item[c]) ELSE sender_drop(p_chan) IN
       p_chan' = r.obj /\ PipeWake(r.wakes)
    /\ PipeGoto(c, IF item[c] # Stop THEN "lock" ELSE "done")
    /\ UNCHANGED <<p_mutex, queue, condvars, p_barrier, item, next, results>>

\* main: drop the spare sender, receive Total results, join the tasks.
main ==
    \/ /\ p_pc[Main] = "drop"
       /\ p_chan' = sender_drop(p_chan).obj
       /\ PipeWake(sender_drop(p_chan).wakes)
       /\ PipeGoto(Main, "recv")
       /\ UNCHANGED results
    \/ /\ p_pc[Main] = "recv" /\ p_runnable[Main] /\ Len(results) < Total
       /\ LET r == recv_poll(p_chan, Main) IN
          /\ p_chan' = r.obj
          /\ IF r.ready
               THEN /\ results' = IF p_chan.items # <<>> THEN Append(results, Head(p_chan.items))
                                  ELSE results
                    /\ PipeGoto(Main, IF p_chan.items # <<>> THEN "recv" ELSE "panic")
                    /\ UNCHANGED p_runnable
               ELSE PipeSuspend(Main) /\ UNCHANGED <<results, p_pc>>
    \/ /\ p_pc[Main] = "recv" /\ Len(results) = Total
       /\ \A t \in PipeTasks \ {Main} : p_pc[t] = "done"
       /\ PipeGoto(Main, "done")
       /\ UNCHANGED <<p_chan, results, p_runnable>>

MainStep == main /\ UNCHANGED <<p_mutex, queue, condvars, p_barrier, item, next>>

PipeStep(t) == start(t) \/ p_lock(t) \/ p_wait(t) \/ p_unlock(t) \/ notify_other(t)

\* What a task does when it is polled.
TaskStep(t) ==
    \/ t # Main /\ PipeStep(t)
    \/ t = Producer /\ push
    \/ t \in PipeConsumers /\ (pop(t) \/ result(t))
    \/ t = Main /\ MainStep

PipelineNext == \E t \in PipeTasks : TaskStep(t)

\* The pool polls every woken task.
PipelineFairness == \A t \in PipeTasks : WF_pipelineVars(TaskStep(t))

PipelineSpec == PipelineInit /\ [][PipelineNext]_pipelineVars /\ PipelineFairness

-----------------------------------------------------------------------------
\* The queue keeps to its capacity: the condition still holds when it is used.
WithinCapacity == Len(queue) <= Cap

\* Every item gives one result: the squares received are of different items.
ResultsOnce == \A i, j \in DOMAIN results : results[i] = results[j] => i = j

\* The example's assertion, with the sum taken item by item: main ends, having
\* received the square of every item.
Completes ==
    <>(p_pc[Main] = "done" /\ {results[i] : i \in DOMAIN results} = {v * v : v \in 1..Total})

=============================================================================
