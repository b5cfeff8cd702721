---------------------------- MODULE AsyncRwLock ----------------------------
(***************************************************************************)
(* Tasks that read and write under an async RwLock of rust_async/sync.rs;  *)
(* a pending future may be dropped.  A task is polled when runnable.       *)
(***************************************************************************)
EXTENDS SyncPrimitives, FiniteSets

CONSTANT RwTasks

VARIABLES
    rw,         \* the lock
    rw_pc,      \* [RwTasks -> STRING], the task's future or guard
    rw_runnable \* [RwTasks -> BOOLEAN]

rwVars == <<rw, rw_pc, rw_runnable>>

RwInit ==
    /\ rw = RwLock
    /\ rw_pc = [t \in RwTasks |-> "idle"]
    /\ rw_runnable = [t \in RwTasks |-> TRUE]

RwTypeOK ==
    /\ rw.readers \in Nat
    /\ rw.writer \in BOOLEAN
    /\ rw.read_waiters.parked \subseteq RwTasks
    /\ rw.write_waiters.parked \subseteq RwTasks
    /\ rw_pc \in [RwTasks -> {"idle", "read", "write", "reading", "writing"}]
    /\ rw_runnable \in [RwTasks -> BOOLEAN]

RwGoto(t, label) == rw_pc' = [rw_pc EXCEPT ![t] = label]
RwWake(woken) == rw_runnable' = [t \in RwTasks |-> rw_runnable[t] \/ t \in woken]

\* read() and write() make the future; its first poll follows.
read(t) ==
    /\ rw_pc[t] = "idle"
    /\ RwGoto(t, "read")
    /\ rw_runnable' = [rw_runnable EXCEPT ![t] = TRUE]
    /\ UNCHANGED rw

write(t) ==
    /\ rw_pc[t] = "idle"
    /\ RwGoto(t, "write")
    /\ rw_runnable' = [rw_runnable EXCEPT ![t] = TRUE]
    /\ UNCHANGED rw

\* The outcome r of a poll: a guard, or Pending.
RwPolled(t, r, guard) ==
    /\ rw' = r.obj
    /\ IF r.ready THEN RwGoto(t, guard) /\ UNCHANGED rw_runnable
       ELSE rw_runnable' = [rw_runnable EXCEPT ![t] = FALSE] /\ UNCHANGED rw_pc

poll_read(t) ==
    rw_pc[t] = "read" /\ rw_runnable[t] /\ RwPolled(t, read_poll(rw, t), "reading")

poll_write(t) ==
    rw_pc[t] = "write" /\ rw_runnable[t] /\ RwPolled(t, write_poll(rw, t), "writing")

rw_cancel(t) ==
    /\ rw_pc[t] \in {"read", "write"}
    /\ rw' = IF rw_pc[t] = "read" THEN read_drop(rw, t) ELSE write_drop(rw, t)
    /\ RwGoto(t, "idle")
    /\ UNCHANGED rw_runnable

rw_release(t) ==
    /\ rw_pc[t] \in {"reading", "writing"}
    /\ LET r == IF rw_pc[t] = "reading" THEN read_guard_drop(rw) ELSE write_guard_drop(rw) IN
       rw' = r.obj /\ RwWake(r.wakes)
    /\ RwGoto(t, "idle")

rw_spurious(t) ==
    /\ rw_pc[t] \in {"read", "write"} /\ ~rw_runnable[t]
    /\ rw_runnable' = [rw_runnable EXCEPT ![t] = TRUE]
    /\ UNCHANGED <<rw, rw_pc>>

RwStep(t) == poll_read(t) \/ poll_write(t) \/ rw_release(t)

RwNext == \E t \in RwTasks : read(t) \/ write(t) \/ RwStep(t) \/ rw_cancel(t) \/ rw_spurious(t)

RwSpec == RwInit /\ [][RwNext]_rwVars

-----------------------------------------------------------------------------
\* RwLock: a write guard excludes every other guard, and the counters agree
\* with the guards there are.
ReadersXorWriter ==
    /\ \A t, u \in RwTasks : rw_pc[t] = "writing" /\ rw_pc[u] \in {"reading", "writing"} => t = u
    /\ rw.writer <=> \E t \in RwTasks : rw_pc[t] = "writing"
    /\ rw.readers = Cardinality({t \in RwTasks : rw_pc[t] = "reading"})

\* A task that could have the guard it waits for has been woken, whatever
\* futures were dropped in between.
NoStrandedUser ==
    \A t \in RwTasks :
        /\ rw_pc[t] = "read" /\ ~rw.writer => rw_runnable[t]
        /\ rw_pc[t] = "write" /\ ~rw.writer /\ rw.readers = 0 => rw_runnable[t]

\* A reader gets in: nothing but an active writer keeps it out, and a writer
\* that finishes wakes it ("a reader acquires whenever no writer is active").
\* Writers have no such promise.
ReaderProceeds ==
    \A t \in RwTasks : (rw_pc[t] = "read" /\ [](\A u \in RwTasks : u # t => rw_pc[u] # "write"))
                        ~> (rw_pc[t] # "read")

=============================================================================
