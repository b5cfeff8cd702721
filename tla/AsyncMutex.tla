---------------------------- MODULE AsyncMutex -----------------------------
(***************************************************************************)
(* Tasks that use an async Mutex and a Condvar of rust_async/sync.rs.      *)
(* Producers add an item under the lock and notify; consumers take one     *)
(* with wait_until.  A future may be dropped whenever it is not being      *)
(* polled.  A task is polled when its waker was called (runnable).         *)
(***************************************************************************)
EXTENDS SyncPrimitives, FiniteSets

CONSTANTS
    Producers, Consumers,
    Rounds,     \* how often a producer produces
    Notify,     \* "one" or "all"
    MayCancel   \* may a consumer's future be dropped?

Tasks == Producers \cup Consumers

MutexAssumption ==
    /\ Producers \cap Consumers = {}
    /\ Rounds \in Nat /\ Notify \in {"one", "all"} /\ MayCancel \in BOOLEAN

VARIABLES
    mutex, condvar,
    items,      \* the data behind the mutex
    made,       \* [Producers -> Nat]
    pc,         \* [Tasks -> STRING], the state of the task's future
    runnable    \* [Tasks -> BOOLEAN]

vars == <<mutex, condvar, items, made, pc, runnable>>

\* Futures that are pending between two polls.
Suspended == {"lock", "waiting", "relock"}
\* Where a task has the guard.
Holding == {"held", "wait", "release", "unlock"}

Init ==
    /\ mutex = Mutex
    /\ condvar = Condvar
    /\ items = 0
    /\ made = [p \in Producers |-> 0]
    /\ pc = [t \in Tasks |-> "idle"]
    /\ runnable = [t \in Tasks |-> TRUE]

IsWaiters(w) == w.order \in Seq(Tasks) /\ w.parked \subseteq Tasks

TypeOK ==
    /\ mutex.locked \in BOOLEAN /\ IsWaiters(mutex.waiters)
    /\ IsWaiters(condvar)
    /\ items \in Nat
    /\ made \in [Producers -> 0..Rounds]
    /\ pc \in [Tasks -> {"idle", "notify", "relocking"} \cup Suspended \cup Holding]
    /\ runnable \in [Tasks -> BOOLEAN]

Goto(t, label) == pc' = [pc EXCEPT ![t] = label]

\* Poll::Pending until a waker is called; wakes are of tasks other than t.
Wake(woken) == runnable' = [t \in Tasks |-> runnable[t] \/ t \in woken]
Suspend(t) == runnable' = [runnable EXCEPT ![t] = FALSE]

-----------------------------------------------------------------------------
(* Mutex                                                                   *)

\* lock().await: the first poll follows at once.
lock(t) ==
    /\ pc[t] = "idle"
    /\ t \in Producers => made[t] < Rounds
    /\ Goto(t, "lock")
    /\ runnable' = [runnable EXCEPT ![t] = TRUE]
    /\ UNCHANGED <<mutex, condvar, items, made>>

try_lock(t) ==
    /\ pc[t] = "idle" /\ ~mutex.locked
    /\ t \in Producers => made[t] < Rounds
    /\ mutex' = [mutex EXCEPT !.locked = TRUE]
    /\ Goto(t, "held")
    /\ UNCHANGED <<condvar, items, made, runnable>>

\* A poll of the Lock future, alone or inside CondvarWait.
PollLock(t, pending) ==
    LET r == lock_poll(mutex, t) IN
    /\ mutex' = r.obj
    /\ IF r.ready THEN Goto(t, "held") /\ UNCHANGED runnable
       ELSE Goto(t, pending) /\ Suspend(t)
    /\ UNCHANGED <<condvar, items, made>>

poll_lock(t) == pc[t] = "lock" /\ runnable[t] /\ PollLock(t, "lock")

unlock(t) ==
    /\ pc[t] = "unlock"
    /\ mutex' = guard_drop(mutex).obj
    /\ Wake(guard_drop(mutex).wakes)
    /\ Goto(t, IF t \in Producers THEN "notify" ELSE "idle")
    /\ UNCHANGED <<condvar, items, made>>

-----------------------------------------------------------------------------
(* Condvar                                                                 *)

produce(t) ==
    /\ t \in Producers /\ pc[t] = "held"
    /\ items' = items + 1
    /\ made' = [made EXCEPT ![t] = @ + 1]
    /\ Goto(t, "unlock")
    /\ UNCHANGED <<mutex, condvar, runnable>>

notify(t) ==
    /\ pc[t] = "notify"
    /\ LET r == IF Notify = "one" THEN notify_one(condvar) ELSE notify_all(condvar) IN
       condvar' = r.obj /\ Wake(r.wakes)
    /\ Goto(t, "idle")
    /\ UNCHANGED <<mutex, items, made>>

\* wait_until: check the condition with the guard, wait while it is false.
wait_until(t) ==
    /\ t \in Consumers /\ pc[t] = "held"
    /\ IF items > 0 THEN items' = items - 1 /\ Goto(t, "unlock")
       ELSE Goto(t, "wait") /\ UNCHANGED items
    /\ UNCHANGED <<mutex, condvar, made, runnable>>

\* Mutant of wait_init: the waker is not parked.
wait_init_unparked(t) ==
    /\ pc[t] = "wait"
    /\ Suspend(t)
    /\ Goto(t, "release")
    /\ UNCHANGED <<mutex, condvar, items, made>>

\* CondvarWait::poll in state Init: park the waker ...
wait_init(t) ==
    /\ pc[t] = "wait"
    /\ condvar' = park(condvar, t)
    /\ Suspend(t)
    /\ Goto(t, "release")
    /\ UNCHANGED <<mutex, items, made>>

\* ... then drop the guard and return Pending.
wait_release(t) ==
    /\ pc[t] = "release"
    /\ mutex' = guard_drop(mutex).obj
    /\ Wake(guard_drop(mutex).wakes)
    /\ Goto(t, "waiting")
    /\ UNCHANGED <<condvar, items, made>>

\* State Waiting: leave the wait set, go on to Relocking in the same poll.
wait_notified(t) ==
    /\ pc[t] = "waiting" /\ runnable[t]
    /\ condvar' = unpark(condvar, t)
    /\ Goto(t, "relocking")
    /\ UNCHANGED <<mutex, items, made, runnable>>

\* State Relocking: poll the Lock future, in that poll or a later one.
wait_relock(t) ==
    /\ pc[t] = "relocking" \/ (pc[t] = "relock" /\ runnable[t])
    /\ PollLock(t, "relock")

-----------------------------------------------------------------------------
\* A pending future is dropped: Lock::drop or CondvarWait::drop.
cancel(t) ==
    /\ MayCancel /\ t \in Consumers /\ pc[t] \in Suspended
    /\ IF pc[t] = "waiting" THEN condvar' = unpark(condvar, t) /\ UNCHANGED mutex
       ELSE mutex' = lock_drop(mutex, t) /\ UNCHANGED condvar
    /\ Goto(t, "idle")
    /\ UNCHANGED <<items, made, runnable>>

\* A future is polled though nothing woke it, as by a future that joins several.
spurious(t) ==
    /\ pc[t] \in Suspended /\ ~runnable[t]
    /\ runnable' = [runnable EXCEPT ![t] = TRUE]
    /\ UNCHANGED <<mutex, condvar, items, made, pc>>

Step(t) ==
    \/ poll_lock(t) \/ unlock(t)
    \/ produce(t) \/ notify(t)
    \/ wait_until(t) \/ wait_init(t) \/ wait_release(t) \/ wait_notified(t) \/ wait_relock(t)

Next == \E t \in Tasks : lock(t) \/ try_lock(t) \/ Step(t) \/ cancel(t) \/ spurious(t)

Spec == Init /\ [][Next]_vars

\* The executor polls a woken task; nothing obliges a task to lock again.
LiveSpec == Spec /\ \A t \in Tasks : WF_vars(Step(t))

-----------------------------------------------------------------------------
\* Mutex: at most one guard exists, and locked says whether one does.
MutualExclusion ==
    /\ \A t, u \in Tasks : pc[t] \in Holding /\ pc[u] \in Holding => t = u
    /\ mutex.locked <=> \E t \in Tasks : pc[t] \in Holding

\* When the mutex is free every task that waits for it has been woken, whatever
\* futures were dropped in between: nobody is left behind by a lost wake-up.
NoStrandedLocker ==
    ~mutex.locked => \A t \in Tasks : pc[t] \in {"lock", "relock"} => runnable[t]

\* Every task is idle or waits to be woken.
Quiet == \A t \in Tasks : pc[t] = "idle" \/ (pc[t] \in Suspended /\ ~runnable[t])

\* An item is never left with a consumer asleep and nobody about to move: "a
\* woken-then-dropped future can never strand the others" (sync.rs:14).
NoStrandedConsumer == Quiet /\ items > 0 => \A c \in Consumers : pc[c] # "waiting"

\* A consumer that waits while there is an item stops waiting or the item goes.
ConsumerServed ==
    \A c \in Consumers : (pc[c] = "waiting" /\ items > 0) ~> (pc[c] # "waiting" \/ items = 0)

=============================================================================
