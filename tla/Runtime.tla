------------------------------ MODULE Runtime ------------------------------
(***************************************************************************)
(* The executor of rust_async: Runtime and spawn (runtime.rs, executor.rs),*)
(* block_on (block_on.rs), the per-task context (local.rs) and the leaf    *)
(* futures of task.rs: yield_now, sleep, timeout, offload and JoinHandle.  *)
(*                                                                         *)
(* A future is a spawned task, polled by a worker of its runtime, or the   *)
(* root of a block_on, named after the thread that blocks.  The task state *)
(* and its wake-up are those of the async_task crate.                      *)
(***************************************************************************)
EXTENDS Naturals, Sequences, FiniteSets, SequencesExt

CONSTANTS
    Tasks, Workers, Main,
    Runtimes, Global,
    Serves,         \* [Workers -> Runtimes], whose runnables a worker runs
    Kinds,          \* kinds of future awaited
    Nesting,        \* may a task call block_on
    MaxAwaits,      \* bound on the awaits of one future
    None

Threads == Workers \cup {Main}
Futures == Tasks \cup Threads

RuntimeAssumption ==
    /\ Global \in Runtimes /\ Serves \in [Workers -> Runtimes] /\ MaxAwaits \in Nat
    /\ Kinds \subseteq {"yield", "sleep", "offload", "timeout", "join"}
    /\ Nesting \in BOOLEAN /\ None \notin Futures \cup Runtimes

VARIABLES
    task,       \* [Tasks -> state of the async_task]
    awoken, token,  \* [Threads -> BOOLEAN], ThreadWaker.awoken and the park token
    rt,         \* [Futures -> runtime a future is tagged with, or None]
    from,       \* [Tasks -> the future that spawned it, and whether by a bare spawn]
    frames,     \* [Threads -> polls on the thread's stack, with the saved context]
    pc,         \* [Threads -> step of the innermost poll or of block_on]
    current,    \* [Threads -> future whose context is installed, or None]
    leaf,       \* [Futures -> the future it awaits]
    wakes,      \* wakers taken and not yet called
    late,       \* futures whose waker is in a timer or a job they no longer await
    awaits      \* [Futures -> awaits so far]

vars == <<task, awoken, token, rt, from, frames, pc, current, leaf, wakes, late, awaits>>

NoLeaf == [kind |-> "none", posted |-> FALSE, ready |-> FALSE, waker |-> None,
           timer |-> "new", timer_waker |-> None, child |-> None]

Init ==
    /\ task = [k \in Tasks |-> "none"]
    /\ awoken = [th \in Threads |-> FALSE] /\ token = [th \in Threads |-> FALSE]
    /\ rt = [f \in Futures |-> None] /\ from = [k \in Tasks |-> [by |-> None, bare |-> FALSE]]
    /\ frames = [th \in Threads |-> <<>>]
    /\ pc = [th \in Threads |-> "idle"]
    /\ current = [th \in Threads |-> None]
    /\ leaf = [f \in Futures |-> NoLeaf]
    /\ wakes = {} /\ late = {}
    /\ awaits = [f \in Futures |-> 0]

TypeOK ==
    /\ task \in [Tasks -> {"none", "idle", "scheduled", "running", "woken", "done", "joined"}]
    /\ rt \in [Futures -> Runtimes \cup {None}]
    /\ \A th \in Threads :
          /\ pc[th] \in {"idle", "body", "check", "timer", "swap", "park", "returned"}
          /\ \A i \in DOMAIN frames[th] : frames[th][i].future \in Futures
          /\ current[th] \in Futures \cup {None}
          /\ pc[th] \in {"idle", "returned"} => frames[th] = <<>>
    /\ late \subseteq Futures

Goto(th, label) == pc' = [pc EXCEPT ![th] = label]
Top(th) == Last(frames[th]).future

-----------------------------------------------------------------------------
(* Per-task context: Tagged::poll.                                         *)

CurrentGuard_set(th, f) ==
    /\ frames' = [frames EXCEPT ![th] = Append(@, [future |-> f, prev |-> current[th]])]
    /\ current' = [current EXCEPT ![th] = f]

\* Mutant of CurrentGuard_drop: the previous context is not restored.
CurrentGuard_drop_none(th) ==
    /\ current' = [current EXCEPT ![th] = None]
    /\ frames' = [frames EXCEPT ![th] = Front(@)]

CurrentGuard_drop(th) ==
    /\ current' = [current EXCEPT ![th] = Last(frames[th]).prev]
    /\ frames' = [frames EXCEPT ![th] = Front(@)]

current_or_global(th) == IF current[th] = None THEN Global ELSE rt[current[th]]

-----------------------------------------------------------------------------
(* Wake-ups.                                                               *)

\* async_task's wake: a task is scheduled once, or again after its running poll.
TaskWoken(k) ==
    task' = [task EXCEPT ![k] = CASE @ = "idle" -> "scheduled" [] @ = "running" -> "woken" [] OTHER -> @]

\* A waker taken out of its slot is called; ThreadWaker sets the flag first and
\* unparks the thread in a second step.
wake(w) ==
    /\ w \in wakes
    /\ IF w.future \in Tasks
       THEN /\ wakes' = wakes \ {w} /\ TaskWoken(w.future) /\ UNCHANGED <<awoken, token>>
       ELSE IF w.step = "store"
       THEN /\ awoken' = [awoken EXCEPT ![w.future] = TRUE]
            /\ wakes' = (wakes \ {w}) \cup {[w EXCEPT !.step = "unpark"]}
            /\ UNCHANGED <<task, token>>
       ELSE /\ token' = [token EXCEPT ![w.future] = TRUE]
            /\ wakes' = wakes \ {w}
            /\ UNCHANGED <<task, awoken>>
    /\ UNCHANGED <<rt, from, frames, pc, current, leaf, late, awaits>>

Waking(source, f) == IF f = None THEN {} ELSE {[source |-> source, future |-> f, step |-> "store"]}

\* The delayed task of sleep, on the reactor.
timer_fires(f) ==
    /\ leaf[f].timer = "scheduled"
    /\ leaf' = [leaf EXCEPT ![f].timer = "fired", ![f].timer_waker = None]
    /\ wakes' = wakes \cup Waking("timer", leaf[f].timer_waker)
    /\ UNCHANGED <<task, awoken, token, rt, from, frames, pc, current, late, awaits>>

\* The offloaded closure, on the blocking pool.
job_ends(f) ==
    /\ leaf[f].kind \in {"offload", "timeout"} /\ leaf[f].posted /\ ~leaf[f].ready
    /\ leaf' = [leaf EXCEPT ![f].ready = TRUE, ![f].waker = None]
    /\ wakes' = wakes \cup Waking("job", leaf[f].waker)
    /\ UNCHANGED <<task, awoken, token, rt, from, frames, pc, current, late, awaits>>

\* A timer or job that nobody awaits any more calls the waker it still has.
late_fires(f) ==
    /\ f \in late
    /\ late' = late \ {f}
    /\ wakes' = wakes \cup Waking("late", f)
    /\ UNCHANGED <<task, awoken, token, rt, from, frames, pc, current, leaf, awaits>>

-----------------------------------------------------------------------------
(* Threads start and end polls.                                            *)

\* A worker runs a runnable that Runtime::new's schedule closure posted.
run(th, k) ==
    /\ th \in Workers /\ pc[th] = "idle"
    /\ task[k] = "scheduled" /\ rt[k] = Serves[th]
    /\ task' = [task EXCEPT ![k] = "running"]
    /\ CurrentGuard_set(th, k)
    /\ Goto(th, "body")
    /\ UNCHANGED <<awoken, token, rt, from, leaf, wakes, late, awaits>>

\* block_on, at the top of the main thread or inside a task.
block_on(th) ==
    /\ \/ th = Main /\ pc[th] = "idle"
       \/ /\ Nesting /\ th \in Workers /\ pc[th] = "body"
          /\ Top(th) \in Tasks /\ leaf[Top(th)] = NoLeaf
    /\ rt[th] = None
    /\ rt' = [rt EXCEPT ![th] = current_or_global(th)]
    /\ CurrentGuard_set(th, th)
    /\ Goto(th, "body")
    /\ UNCHANGED <<task, awoken, token, from, leaf, wakes, late, awaits>>

\* The poll on top returned Pending.
Pending(th) ==
    LET f == Top(th) IN
    /\ CurrentGuard_drop(th)
    /\ IF f \in Tasks
       THEN /\ task' = [task EXCEPT ![f] = IF @ = "woken" THEN "scheduled" ELSE "idle"]
            /\ Goto(th, "idle")
       ELSE Goto(th, "swap") /\ UNCHANGED task

block_on_swap(th) ==
    /\ pc[th] = "swap"
    /\ awoken' = [awoken EXCEPT ![th] = FALSE]
    /\ IF awoken[th]
       THEN Goto(th, "body") /\ CurrentGuard_set(th, th)
       ELSE Goto(th, "park") /\ UNCHANGED <<frames, current>>
    /\ UNCHANGED <<task, token, rt, from, leaf, wakes, late, awaits>>

block_on_park(th) ==
    /\ pc[th] = "park" /\ token[th]
    /\ token' = [token EXCEPT ![th] = FALSE]
    /\ Goto(th, "swap")
    /\ UNCHANGED <<task, awoken, rt, from, frames, current, leaf, wakes, late, awaits>>

\* The future on top completed: block_on returns, or the task's awaiter is woken.
finish(th) ==
    LET f == Top(th)
        awaiting == {g \in Futures : leaf[g].kind = "join" /\ leaf[g].child = f /\ leaf[g].waker = g} IN
    /\ pc[th] = "body" /\ leaf[f] = NoLeaf
    /\ CurrentGuard_drop(th)
    /\ IF f \in Tasks
       THEN /\ task' = [task EXCEPT ![f] = "done"]
            /\ wakes' = wakes \cup UNION {Waking("join", g) : g \in awaiting}
            /\ Goto(th, "idle")
       ELSE /\ Goto(th, IF th = Main THEN "returned" ELSE "body")
            /\ UNCHANGED <<task, wakes>>
    /\ UNCHANGED <<awoken, token, rt, from, leaf, late, awaits>>

-----------------------------------------------------------------------------
(* What a running future does.                                             *)

\* spawn(future), onto the runtime of the running task.
spawn(th, k) ==
    /\ pc[th] = "body" /\ leaf[Top(th)] = NoLeaf /\ task[k] = "none"
    /\ rt' = [rt EXCEPT ![k] = current_or_global(th)]
    /\ from' = [from EXCEPT ![k] = [by |-> Top(th), bare |-> TRUE]]
    /\ task' = [task EXCEPT ![k] = "scheduled"]
    /\ UNCHANGED <<awoken, token, frames, pc, current, leaf, wakes, late, awaits>>

\* Runtime::spawn on a runtime the caller holds.
Runtime_spawn(th, k, r) ==
    /\ pc[th] = "body" /\ leaf[Top(th)] = NoLeaf /\ task[k] = "none"
    /\ rt' = [rt EXCEPT ![k] = r]
    /\ from' = [from EXCEPT ![k] = [by |-> Top(th), bare |-> FALSE]]
    /\ task' = [task EXCEPT ![k] = "scheduled"]
    /\ UNCHANGED <<awoken, token, frames, pc, current, leaf, wakes, late, awaits>>

\* The running future begins to await; a handle is awaited by its owner, once.
await(th, kind, child) ==
    LET f == Top(th) IN
    /\ pc[th] = "body" /\ leaf[f] = NoLeaf /\ awaits[f] < MaxAwaits /\ kind \in Kinds
    /\ IF kind = "join" THEN child \in Tasks /\ from[child].by = f /\ task[child] # "joined"
       ELSE child = None
    /\ leaf' = [leaf EXCEPT ![f] = [NoLeaf EXCEPT !.kind = kind, !.child = child]]
    /\ awaits' = [awaits EXCEPT ![f] = @ + 1]
    /\ UNCHANGED <<task, awoken, token, rt, from, frames, pc, current, wakes, late>>

Awaits(th, kinds) == pc[th] = "body" /\ leaf[Top(th)].kind \in kinds

\* The awaited future is ready; what it leaves in a timer or a job stays there.
Resolved(f) ==
    /\ leaf' = [leaf EXCEPT ![f] = NoLeaf]
    /\ late' = IF leaf[f].timer_waker # None \/ leaf[f].waker # None THEN late \cup {f} ELSE late

\* yield_now wakes its own task and is ready the second time.
YieldNow_poll(th) ==
    LET f == Top(th) IN
    /\ Awaits(th, {"yield"})
    /\ IF leaf[f].posted
       THEN Resolved(f) /\ UNCHANGED <<task, awoken, token, frames, pc, current>>
       ELSE /\ leaf' = [leaf EXCEPT ![f].posted = TRUE]
            /\ CurrentGuard_drop(th)
            /\ IF f \in Tasks
               THEN task' = [task EXCEPT ![f] = "scheduled"] /\ Goto(th, "idle") /\ UNCHANGED <<awoken, token>>
               ELSE /\ awoken' = [awoken EXCEPT ![f] = TRUE] /\ token' = [token EXCEPT ![f] = TRUE]
                    /\ Goto(th, "swap") /\ UNCHANGED task
            /\ UNCHANGED late
    /\ UNCHANGED <<rt, from, wakes, awaits>>

\* Timer::poll: the waker is stored before the delayed task is posted, and
\* replaced by every later poll.
Timer_poll(th) ==
    LET f == Top(th) IN
    IF leaf[f].timer = "fired"
    THEN Resolved(f) /\ Goto(th, "body") /\ UNCHANGED <<task, frames, current>>
    ELSE /\ leaf' = [leaf EXCEPT ![f].timer = "scheduled", ![f].timer_waker = f]
         /\ Pending(th) /\ UNCHANGED late

sleep_poll(th) ==
    /\ Awaits(th, {"sleep"}) /\ Timer_poll(th)
    /\ UNCHANGED <<awoken, token, rt, from, wakes, awaits>>

\* Offload::poll posts the job once, and then looks for its result.
Offload_post(th) ==
    /\ Awaits(th, {"offload", "timeout"})
    /\ leaf' = [leaf EXCEPT ![Top(th)].posted = TRUE]
    /\ Goto(th, "check")
    /\ UNCHANGED <<task, awoken, token, rt, from, frames, current, wakes, late, awaits>>

\* Mutant of Offload_check: a later poll leaves the waker out.
Offload_check_once(th) ==
    LET f == Top(th) IN
    /\ pc[th] = "check" /\ leaf[f].kind = "offload"
    /\ IF leaf[f].ready
       THEN Resolved(f) /\ Goto(th, "body") /\ UNCHANGED <<task, frames, current>>
       ELSE Pending(th) /\ UNCHANGED <<leaf, late>>
    /\ UNCHANGED <<awoken, token, rt, from, wakes, awaits>>

Offload_check(th) ==
    LET f == Top(th) IN
    /\ pc[th] = "check" /\ leaf[f].kind = "offload"
    /\ IF leaf[f].ready
       THEN Resolved(f) /\ Goto(th, "body") /\ UNCHANGED <<task, frames, current>>
       ELSE /\ leaf' = [leaf EXCEPT ![f].waker = f]
            /\ Pending(th) /\ UNCHANGED late
    /\ UNCHANGED <<awoken, token, rt, from, wakes, awaits>>

\* Timeout::poll asks the future first and its timer second.
Timeout_future(th) ==
    LET f == Top(th) IN
    /\ pc[th] = "check" /\ leaf[f].kind = "timeout"
    /\ IF leaf[f].ready
       THEN Resolved(f) /\ Goto(th, "body")
       ELSE /\ leaf' = [leaf EXCEPT ![f].waker = f]
            /\ Goto(th, "timer") /\ UNCHANGED late
    /\ UNCHANGED <<task, awoken, token, rt, from, frames, current, wakes, awaits>>

Timeout_timer(th) ==
    /\ pc[th] = "timer" /\ Timer_poll(th)
    /\ UNCHANGED <<awoken, token, rt, from, wakes, awaits>>

JoinHandle_poll(th) ==
    LET f == Top(th) IN
    /\ Awaits(th, {"join"})
    /\ IF task[leaf[f].child] = "done"
       THEN /\ leaf' = [leaf EXCEPT ![f] = NoLeaf]
            /\ task' = [task EXCEPT ![leaf[f].child] = "joined"]
            /\ UNCHANGED <<frames, pc, current>>
       ELSE /\ leaf' = [leaf EXCEPT ![f].waker = f]
            /\ Pending(th)
    /\ UNCHANGED <<awoken, token, rt, from, wakes, late, awaits>>

Poll(th) ==
    \/ YieldNow_poll(th) \/ sleep_poll(th)
    \/ Offload_post(th) \/ Offload_check(th) \/ Timeout_future(th) \/ Timeout_timer(th)
    \/ JoinHandle_poll(th)

\* What user code does between awaits.
Body(th) ==
    \/ block_on(th) \/ finish(th)
    \/ \E k \in Tasks : spawn(th, k) \/ \E r \in Runtimes : Runtime_spawn(th, k, r)
    \/ \E kind \in Kinds, child \in Tasks \cup {None} : await(th, kind, child)

Step(th) ==
    \/ \E k \in Tasks : run(th, k)
    \/ block_on_swap(th) \/ block_on_park(th) \/ Poll(th) \/ Body(th)

Next ==
    \/ \E th \in Threads : Step(th)
    \/ \E w \in wakes : wake(w)
    \/ \E f \in Futures : timer_fires(f) \/ job_ends(f) \/ late_fires(f)

Spec == Init /\ [][Next]_vars

\* Threads run, a taken waker is called by the thread that took it, timers fire
\* and offloaded closures return, except the ones a timeout waits for.
Fairness ==
    /\ \A th \in Threads : WF_vars(Step(th))
    /\ WF_vars(\E w \in wakes : wake(w))
    /\ \A f \in Futures : WF_vars(timer_fires(f)) /\ WF_vars(leaf[f].kind = "offload" /\ job_ends(f))

LiveSpec == Spec /\ Fairness

-----------------------------------------------------------------------------
LeafReady(f) ==
    CASE leaf[f].kind = "offload" -> leaf[f].ready
      [] leaf[f].kind = "sleep" -> leaf[f].timer = "fired"
      [] leaf[f].kind = "timeout" -> leaf[f].ready \/ leaf[f].timer = "fired"
      [] leaf[f].kind = "join" -> task[leaf[f].child] = "done"
      [] leaf[f].kind = "yield" -> leaf[f].posted
      [] OTHER -> FALSE

Suspended(f) ==
    IF f \in Tasks THEN task[f] = "idle" ELSE pc[f] \in {"swap", "park"} /\ ~awoken[f]

\* "a wake that races the poll is never lost" (block_on.rs:47): a suspended
\* future whose awaited future is ready has a waker about to be called, and a
\* thread that parked with its flag set is about to be unparked.
NoLostWake ==
    /\ \A f \in Futures : Suspended(f) /\ LeafReady(f) =>
          \E w \in wakes : w.future = f /\ w.step = "store"
    /\ \A th \in Threads : pc[th] = "park" /\ awoken[th] =>
          token[th] \/ \E w \in wakes : w.future = th /\ w.step = "unpark"

\* LocalKey::with finds the storage of the context that is installed.
LocalKey_with(th) == current[th]

\* While a future runs on a thread, its task-locals and its runtime are the ones
\* found there, also after a block_on inside it; between polls there are none.
ContextIsOwn ==
    \A th \in Threads :
        LocalKey_with(th) = IF frames[th] = <<>> THEN None ELSE Top(th)

\* "any nested [`crate::spawn`] inherits this same runtime" (runtime.rs:93).
SpawnInherits == \A k \in Tasks : from[k].bare => rt[k] = rt[from[k].by]

\* block_on returns, whatever the closures a timeout waits for do.
BlockOnReturns == rt[Main] # None ~> pc[Main] = "returned"

\* A spawned task completes, also when its handle was dropped.
TaskCompletes == \A k \in Tasks : task[k] # "none" ~> task[k] \in {"done", "joined"}

=============================================================================
