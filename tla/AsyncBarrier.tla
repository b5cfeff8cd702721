---------------------------- MODULE AsyncBarrier ---------------------------
(***************************************************************************)
(* Tasks that wait on a Barrier of rust_async/sync.rs, round after round.  *)
(* BarrierWait has no Drop: a dropped future stays counted and parked.     *)
(***************************************************************************)
EXTENDS SyncPrimitives, FiniteSets

CONSTANTS
    Participants,
    N,              \* Barrier::new(n)
    MaxGeneration   \* bound on the rounds

BarrierAssumption == N \in Nat \ {0} /\ MaxGeneration \in Nat

VARIABLES
    barrier,
    arrived_at, \* [Participants -> Nat], the generation of the task's future
    b_pc,       \* [Participants -> "idle", "new" or "joined"]
    b_runnable, \* [Participants -> BOOLEAN]
    leaders,    \* [0..MaxGeneration -> Nat], results with is_leader, by generation
    dropped     \* how many futures counted in this generation were dropped

barrierVars == <<barrier, arrived_at, b_pc, b_runnable, leaders, dropped>>

BarrierInit ==
    /\ barrier = Barrier
    /\ arrived_at = [t \in Participants |-> 0]
    /\ b_pc = [t \in Participants |-> "idle"]
    /\ b_runnable = [t \in Participants |-> TRUE]
    /\ leaders = [g \in 0..MaxGeneration |-> 0]
    /\ dropped = 0

BarrierTypeOK ==
    /\ barrier.count \in 0..(N - 1)
    /\ barrier.generation \in Nat
    /\ b_pc \in [Participants -> {"idle", "new", "joined"}]
    /\ b_runnable \in [Participants -> BOOLEAN]
    /\ leaders \in [0..MaxGeneration -> Nat]
    /\ dropped \in 0..barrier.count

BarrierGoto(t, label) == b_pc' = [b_pc EXCEPT ![t] = label]

barrier_wait(t) ==
    /\ b_pc[t] = "idle" /\ barrier.generation <= MaxGeneration
    /\ BarrierGoto(t, "new")
    /\ b_runnable' = [b_runnable EXCEPT ![t] = TRUE]
    /\ UNCHANGED <<barrier, arrived_at, leaders, dropped>>

\* The first poll; the bound stops the last round.
poll_join(t) ==
    /\ b_pc[t] = "new" /\ barrier.generation <= MaxGeneration
    /\ LET r == barrier_join(barrier, t, N) IN
       /\ barrier' = r.obj
       /\ arrived_at' = [arrived_at EXCEPT ![t] = barrier.generation]
       /\ IF r.ready
            THEN /\ BarrierGoto(t, "idle")
                 /\ leaders' = [leaders EXCEPT ![barrier.generation] = @ + 1]
                 /\ b_runnable' = [u \in Participants |-> b_runnable[u] \/ u \in r.wakes]
                 /\ dropped' = 0
            ELSE /\ BarrierGoto(t, "joined")
                 /\ b_runnable' = [b_runnable EXCEPT ![t] = FALSE]
                 /\ UNCHANGED <<leaders, dropped>>

\* A later poll.
poll_again(t) ==
    /\ b_pc[t] = "joined" /\ b_runnable[t]
    /\ LET r == barrier_poll(barrier, t, arrived_at[t]) IN
       /\ barrier' = r.obj
       /\ IF r.ready THEN BarrierGoto(t, "idle") /\ UNCHANGED b_runnable
          ELSE b_runnable' = [b_runnable EXCEPT ![t] = FALSE] /\ UNCHANGED b_pc
    /\ UNCHANGED <<arrived_at, leaders, dropped>>

\* A pending future is dropped; the count keeps it.
barrier_cancel(t) ==
    /\ b_pc[t] \in {"new", "joined"}
    /\ dropped' = IF b_pc[t] = "joined" /\ arrived_at[t] = barrier.generation
                    THEN dropped + 1 ELSE dropped
    /\ BarrierGoto(t, "idle")
    /\ UNCHANGED <<barrier, arrived_at, b_runnable, leaders>>

barrier_spurious(t) ==
    /\ b_pc[t] = "joined" /\ ~b_runnable[t]
    /\ b_runnable' = [b_runnable EXCEPT ![t] = TRUE]
    /\ UNCHANGED <<barrier, arrived_at, b_pc, leaders, dropped>>

BarrierNext ==
    \E t \in Participants :
        \/ barrier_wait(t) \/ poll_join(t) \/ poll_again(t)
        \/ barrier_cancel(t) \/ barrier_spurious(t)

BarrierSpec == BarrierInit /\ [][BarrierNext]_barrierVars

-----------------------------------------------------------------------------
Waiting(g) == {t \in Participants : b_pc[t] = "joined" /\ arrived_at[t] = g}

\* A generation ends only when n participants came, the one that completes it
\* included ("releases all participants once `n` of them are waiting",
\* sync.rs:350); the others wait in it still or were dropped there.
TripStep ==
    barrier'.generation # barrier.generation =>
        Cardinality(Waiting(barrier.generation)) + dropped = N - 1

\* "Exactly one participant per generation is the leader" (sync.rs:356).
OneLeader ==
    \A g \in 0..MaxGeneration : leaders[g] = IF g < barrier.generation THEN 1 ELSE 0

\* BarrierWait::poll: a generation ends when n participants came, and every one
\* that is over had one leader, whoever was dropped.
TripsWhenFull == [][TripStep /\ OneLeader']_barrierVars

\* A participant whose generation is over has been woken.
NoStrandedParticipant ==
    \A t \in Participants :
        b_pc[t] = "joined" /\ arrived_at[t] # barrier.generation => b_runnable[t]

=============================================================================
