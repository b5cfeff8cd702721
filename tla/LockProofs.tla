------------------------------ MODULE LockProofs ----------------------------
(***************************************************************************)
(* The Mutex, Condvar, RwLock and Barrier of rust_async/sync.rs exclude    *)
(* and wake as they should, for any number of tasks and any pattern of     *)
(* dropped futures.                                                        *)
(***************************************************************************)
EXTENDS Locks, FiniteSetTheorems, TLAPS

-----------------------------------------------------------------------------
(* Wait sets, as the primitives use them.                                  *)

IsWaitSet(w) == w = [order |-> w.order, parked |-> w.parked]

\* park and unpark touch the waker of one task.
LEMMA ParkUnpark ==
    ASSUME NEW w, NEW t
    PROVE  /\ IsWaitSet(park(w, t)) /\ park(w, t).parked = w.parked \cup {t}
           /\ IsWaitSet(unpark(w, t)) /\ unpark(w, t).parked = w.parked \ {t}
<1>1. PICK o : unpark(w, t) = [order |-> o, parked |-> w.parked \ {t}]
  BY Zenon DEF unpark
<1>2. PICK p : park(w, t) = [order |-> p, parked |-> w.parked \cup {t}]
  BY Zenon DEF park
<1> QED BY <1>1, <1>2 DEF IsWaitSet

\* wake_all leaves nobody parked.
LEMMA WakeAll ==
    ASSUME NEW w, IsWaitSet(w)
    PROVE  IsWaitSet(wake_all(w)) /\ wake_all(w).parked = {}
BY DEF IsWaitSet, wake_all

-----------------------------------------------------------------------------
(* Barrier.                                                                *)

BarrierOf(count, generation, waiters) ==
    [count |-> count, generation |-> generation, waiters |-> waiters]

BarrierShape ==
    /\ barrier = BarrierOf(barrier.count, barrier.generation, barrier.waiters)
    /\ barrier.count \in Nat /\ barrier.count < N /\ barrier.generation \in Nat
    /\ IsWaitSet(barrier.waiters)

GroupShape ==
    /\ arrived_at \in [Participants -> Nat]
    /\ b_pc \in [Participants -> {"idle", "new", "joined"}]
    /\ b_runnable \in [Participants -> BOOLEAN]
    /\ leaders \in [0..MaxGeneration -> Nat]

\* A participant came in this generation or an earlier one, and one that sleeps
\* came in this one and is parked, so that the trip will wake it.
GroupSleepers ==
    \A t \in Participants : b_pc[t] = "joined" =>
        /\ arrived_at[t] <= barrier.generation
        /\ ~b_runnable[t] => arrived_at[t] = barrier.generation /\ t \in barrier.waiters.parked

\* The participants that wait in this generation.
Here == {t \in Participants : b_pc[t] = "joined" /\ arrived_at[t] = barrier.generation}

\* Who was counted waits still or was dropped.
EveryoneCounted ==
    IsFiniteSet(Here) /\ dropped \in Nat /\ barrier.count = Cardinality(Here) + dropped

GroupInv == BarrierShape /\ GroupShape /\ GroupSleepers /\ OneLeader /\ EveryoneCounted

\* The fields of a barrier's record.
LEMMA BarrierFields ==
    ASSUME NEW b, NEW count, NEW generation, NEW w, b = BarrierOf(count, generation, w)
    PROVE  b.count = count /\ b.generation = generation /\ b.waiters = w
BY Zenon DEF BarrierOf

\* The updates of the barrier, field by field.
LEMMA BarrierUpdates ==
    ASSUME BarrierShape, NEW x, NEW y
    PROVE  /\ [barrier EXCEPT !.waiters = y] = BarrierOf(barrier.count, barrier.generation, y)
           /\ [barrier EXCEPT !.count = x, !.waiters = y] = BarrierOf(x, barrier.generation, y)
<1> DEFINE n == barrier.count
           g == barrier.generation
           w == barrier.waiters
           m == [barrier EXCEPT !.count = x]
<1>0. barrier = BarrierOf(n, g, w)
  BY DEF BarrierShape
<1>1. m = BarrierOf(x, g, w) /\ [barrier EXCEPT !.waiters = y] = BarrierOf(n, g, y)
  BY ONLY <1>0, SMT DEF BarrierOf
<1> HIDE DEF m, n, g, w
<1>2. [m EXCEPT !.waiters = y] = BarrierOf(x, g, y)
  BY ONLY <1>1, SMT DEF BarrierOf
<1> QED BY <1>1, <1>2, Zenon DEF m, n, g

\* The first poll of BarrierWait: the last of a group starts a new generation and
\* wakes all, the others are counted and park.
LEMMA BarrierJoin ==
    ASSUME BarrierShape, NEW t
    PROVE  LET j == barrier_join(barrier, t, N) IN
           /\ barrier.count + 1 >= N =>
                 /\ j.ready /\ j.wakes = barrier.waiters.parked
                 /\ j.obj = BarrierOf(0, barrier.generation + 1, wake_all(barrier.waiters))
           /\ ~(barrier.count + 1 >= N) =>
                 /\ ~j.ready
                 /\ j.obj = BarrierOf(barrier.count + 1, barrier.generation, park(barrier.waiters, t))
<1>1. [barrier EXCEPT !.count = @ + 1, !.waiters = park(@, t)] =
        BarrierOf(barrier.count + 1, barrier.generation, park(barrier.waiters, t))
  BY BarrierUpdates, Zenon
<1>2. CASE barrier.count + 1 >= N
  BY ONLY <1>2, Zenon DEF barrier_join, Waking, BarrierOf
<1>3. CASE ~(barrier.count + 1 >= N)
  BY ONLY <1>1, <1>3, Zenon DEF barrier_join, Pending
<1> QED BY <1>2, <1>3

\* A poll of a participant that was counted leaves the counters alone.
LEMMA BarrierPoll ==
    ASSUME BarrierShape, NEW t, NEW g
    PROVE  LET p == barrier_poll(barrier, t, g)
               w == barrier.waiters
           IN
           /\ barrier.generation # g =>
                 p.ready /\ p.obj = BarrierOf(barrier.count, barrier.generation, unpark(w, t))
           /\ barrier.generation = g =>
                 ~p.ready /\ p.obj = BarrierOf(barrier.count, barrier.generation, park(w, t))
<1>1. /\ [barrier EXCEPT !.waiters = unpark(@, t)] =
            BarrierOf(barrier.count, barrier.generation, unpark(barrier.waiters, t))
      /\ [barrier EXCEPT !.waiters = park(@, t)] =
            BarrierOf(barrier.count, barrier.generation, park(barrier.waiters, t))
  BY BarrierUpdates, Zenon
<1>2. CASE barrier.generation # g
  BY ONLY <1>1, <1>2, Zenon DEF barrier_poll, Ready
<1>3. CASE barrier.generation = g
  BY ONLY <1>1, <1>3, Zenon DEF barrier_poll, Pending
<1> QED BY <1>2, <1>3

\* Generation 0, with nobody in it.
LEMMA GroupInvInit == BarrierInit => GroupInv
<1> SUFFICES ASSUME BarrierInit PROVE GroupInv
  OBVIOUS
<1>1. /\ barrier = [count |-> 0, generation |-> 0, waiters |-> [order |-> <<>>, parked |-> {}]]
      /\ arrived_at = [t \in Participants |-> 0] /\ b_pc = [t \in Participants |-> "idle"]
      /\ b_runnable = [t \in Participants |-> TRUE] /\ leaders = [g \in 0..MaxGeneration |-> 0]
      /\ dropped = 0
  BY DEF BarrierInit, Barrier, Waiters
<1>2. N \in Nat \ {0} /\ MaxGeneration \in Nat
  BY LocksAssumption DEF BarrierAssumption
<1>3. BarrierShape
  <2>1. barrier = BarrierOf(0, 0, [order |-> <<>>, parked |-> {}])
    BY <1>1 DEF BarrierOf
  <2>2. barrier.count = 0 /\ barrier.generation = 0
        /\ barrier.waiters = [order |-> <<>>, parked |-> {}]
    BY <2>1, BarrierFields
  <2> QED BY <1>2, <2>1, <2>2 DEF BarrierShape, IsWaitSet
<1>4. GroupShape /\ GroupSleepers /\ OneLeader
  BY <1>1, <1>2 DEF GroupShape, GroupSleepers, OneLeader
<1>5. Here = {}
  BY <1>1 DEF Here
<1> QED BY <1>1, <1>3, <1>4, <1>5, FS_EmptySet DEF GroupInv, EveryoneCounted

\* A step that leaves the barrier alone and counts nobody in keeps the sleepers
\* parked, if it puts nobody to sleep.
LEMMA GroupOthersKeep ==
    ASSUME GroupInv, NEW t \in Participants, barrier' = barrier, arrived_at' = arrived_at,
           leaders' = leaders, NEW l \in {"idle", "new", "joined"},
           b_pc' = [b_pc EXCEPT ![t] = l], l = "joined" => b_pc[t] = "joined",
           b_runnable' = b_runnable \/ b_runnable' = [b_runnable EXCEPT ![t] = TRUE]
    PROVE  BarrierShape' /\ GroupShape' /\ GroupSleepers' /\ OneLeader'
<1> USE DEF GroupInv
<1>1. BarrierShape' /\ OneLeader'
  BY DEF BarrierShape, OneLeader
<1>2. GroupShape'
  BY ZenonT(30) DEF GroupShape
<1>3. GroupSleepers'
  BY DEF GroupSleepers, GroupShape
<1> QED BY <1>1, <1>2, <1>3

\* The first poll of a BarrierWait: counted in, or the last of its group.
LEMMA GroupJoin ==
    ASSUME GroupInv, NEW t \in Participants, poll_join(t)
    PROVE  GroupInv' /\ (barrier'.generation # barrier.generation => barrier.count = N - 1)
<1> USE DEF GroupInv
<1>0. /\ N \in Nat \ {0} /\ MaxGeneration \in Nat
      /\ barrier.count \in Nat /\ barrier.count < N /\ barrier.generation \in Nat
      /\ barrier.generation \in 0..MaxGeneration /\ b_pc[t] = "new"
  BY LocksAssumption DEF BarrierAssumption, BarrierShape, poll_join
<1>1. /\ arrived_at' = [arrived_at EXCEPT ![t] = barrier.generation]
      /\ barrier' = barrier_join(barrier, t, N).obj
  BY DEF poll_join
<1>2. CASE barrier.count + 1 >= N
  <2>1. /\ barrier' = BarrierOf(0, barrier.generation + 1, wake_all(barrier.waiters))
        /\ b_pc' = [b_pc EXCEPT ![t] = "idle"]
        /\ leaders' = [leaders EXCEPT ![barrier.generation] = @ + 1]
        /\ b_runnable' = [u \in Participants |-> b_runnable[u] \/ u \in barrier.waiters.parked]
        /\ dropped' = 0
    BY <1>1, <1>2, BarrierJoin, Zenon DEF poll_join, BarrierGoto
  <2>2. /\ barrier'.count = 0 /\ barrier'.generation = barrier.generation + 1
        /\ barrier'.waiters = wake_all(barrier.waiters) /\ IsWaitSet(barrier'.waiters)
    BY <2>1, BarrierFields, WakeAll DEF BarrierShape
  <2>3. BarrierShape'
    BY <1>0, <2>1, <2>2 DEF BarrierShape
  <2>4. GroupShape'
    BY <1>0, <1>1, <2>1 DEF GroupShape
  <2>5. GroupSleepers'
    <3> SUFFICES ASSUME NEW u \in Participants, b_pc'[u] = "joined"
                 PROVE  arrived_at'[u] <= barrier'.generation /\ b_runnable'[u]
      BY DEF GroupSleepers
    <3>1. u # t /\ b_pc[u] = "joined" /\ arrived_at'[u] = arrived_at[u] /\ arrived_at[u] \in Nat
      BY <1>1, <2>1 DEF GroupShape
    <3>2. arrived_at'[u] <= barrier'.generation
      BY <1>0, <2>2, <3>1 DEF GroupSleepers
    <3>3. b_runnable'[u]
      BY <2>1, <3>1, Zenon DEF GroupSleepers
    <3> QED BY <3>2, <3>3
  <2>6. OneLeader'
    BY <1>0, <2>1, <2>2 DEF OneLeader, GroupShape
  <2>7. Here' = {}
    <3> SUFFICES ASSUME NEW u \in Here' PROVE FALSE
      OBVIOUS
    <3>1. u \in Participants /\ b_pc'[u] = "joined" /\ arrived_at'[u] = barrier.generation + 1
      BY <2>2 DEF Here
    <3>2. u # t
      BY <2>1, <3>1 DEF GroupShape
    <3>3. b_pc[u] = "joined" /\ arrived_at[u] = barrier.generation + 1
      BY <1>1, <2>1, <3>1, <3>2 DEF GroupShape
    <3> QED BY <1>0, <3>1, <3>3 DEF GroupSleepers
  <2>8. EveryoneCounted'
    BY <2>1, <2>2, <2>7, FS_EmptySet DEF EveryoneCounted
  <2> QED BY <1>0, <1>2, <2>2, <2>3, <2>4, <2>5, <2>6, <2>8
<1>3. CASE ~(barrier.count + 1 >= N)
  <2>1. /\ barrier' = BarrierOf(barrier.count + 1, barrier.generation, park(barrier.waiters, t))
        /\ b_pc' = [b_pc EXCEPT ![t] = "joined"]
        /\ leaders' = leaders /\ dropped' = dropped
        /\ b_runnable' = [b_runnable EXCEPT ![t] = FALSE]
    BY <1>1, <1>3, BarrierJoin, Zenon DEF poll_join, BarrierGoto
  <2>2. /\ barrier'.count = barrier.count + 1 /\ barrier'.generation = barrier.generation
        /\ barrier'.waiters = park(barrier.waiters, t) /\ IsWaitSet(barrier'.waiters)
        /\ barrier'.waiters.parked = barrier.waiters.parked \cup {t}
    BY <2>1, BarrierFields, ParkUnpark
  <2>3. BarrierShape'
    BY <1>0, <1>3, <2>1, <2>2 DEF BarrierShape
  <2>4. GroupShape'
    BY <1>0, <1>1, <2>1 DEF GroupShape
  <2>5. GroupSleepers'
    <3> SUFFICES ASSUME NEW u \in Participants, b_pc'[u] = "joined"
                 PROVE  /\ arrived_at'[u] <= barrier'.generation
                        /\ ~b_runnable'[u] => /\ arrived_at'[u] = barrier'.generation
                                              /\ u \in barrier'.waiters.parked
      BY Zenon DEF GroupSleepers
    <3>1. CASE u = t
      BY <1>0, <1>1, <2>2, <3>1 DEF GroupShape
    <3>2. CASE u # t
      <4>1. /\ b_pc[u] = "joined" /\ arrived_at'[u] = arrived_at[u]
            /\ b_runnable'[u] = b_runnable[u]
        BY <1>0, <1>1, <2>1, <3>2 DEF GroupShape
      <4> QED BY <1>0, <2>2, <4>1 DEF GroupSleepers
    <3> QED BY <3>1, <3>2
  <2>6. OneLeader'
    BY <2>1, <2>2 DEF OneLeader
  <2>7. t \notin Here /\ Here' = Here \cup {t}
    BY <1>0, <1>1, <2>1, <2>2 DEF Here, GroupShape
  <2>8. IsFiniteSet(Here') /\ Cardinality(Here') = Cardinality(Here) + 1 /\ Cardinality(Here) \in Nat
    BY <2>7, FS_AddElement, FS_CardinalityType DEF EveryoneCounted
  <2>9. EveryoneCounted'
    BY <2>1, <2>2, <2>8 DEF EveryoneCounted
  <2> QED BY <2>2, <2>3, <2>4, <2>5, <2>6, <2>9
<1> QED BY <1>2, <1>3

\* A later poll: over when the generation is, otherwise parked again.
LEMMA GroupAgain ==
    ASSUME GroupInv, NEW t \in Participants, poll_again(t)
    PROVE  GroupInv' /\ barrier'.generation = barrier.generation
<1> USE DEF GroupInv
<1>1. /\ b_pc[t] = "joined" /\ arrived_at' = arrived_at /\ leaders' = leaders /\ dropped' = dropped
      /\ barrier' = barrier_poll(barrier, t, arrived_at[t]).obj
  BY DEF poll_again
<1>2. PICK w \in {park(barrier.waiters, t), unpark(barrier.waiters, t)} :
        barrier' = BarrierOf(barrier.count, barrier.generation, w)
  BY <1>1, BarrierPoll
<1>3. /\ barrier'.count = barrier.count /\ barrier'.generation = barrier.generation
      /\ IsWaitSet(barrier'.waiters)
      /\ barrier.waiters.parked \ {t} \subseteq barrier'.waiters.parked
  BY <1>2, BarrierFields, ParkUnpark
<1>4. BarrierShape' /\ OneLeader'
  <2>1. barrier' = BarrierOf(barrier'.count, barrier'.generation, barrier'.waiters)
    BY <1>2, BarrierFields
  <2> QED BY <1>1, <1>3, <2>1 DEF BarrierShape, OneLeader
<1>5. CASE barrier.generation # arrived_at[t]
  <2>1. b_pc' = [b_pc EXCEPT ![t] = "idle"] /\ b_runnable' = b_runnable
    BY <1>5, BarrierPoll, Zenon DEF poll_again, BarrierGoto
  <2>2. GroupShape' /\ GroupSleepers'
    BY <1>1, <1>3, <2>1 DEF GroupShape, GroupSleepers
  <2>3. Here' = Here
    BY <1>1, <1>3, <1>5, <2>1 DEF Here, GroupShape
  <2> QED BY <1>1, <1>3, <1>4, <2>2, <2>3 DEF EveryoneCounted
<1>6. CASE barrier.generation = arrived_at[t]
  <2>1. b_pc' = b_pc /\ b_runnable' = [b_runnable EXCEPT ![t] = FALSE]
    BY <1>6, BarrierPoll, Zenon DEF poll_again
  <2>2. t \in barrier'.waiters.parked
    <3>1. barrier' = BarrierOf(barrier.count, barrier.generation, park(barrier.waiters, t))
      BY <1>1, <1>6, BarrierPoll, Zenon
    <3> QED BY <3>1, BarrierFields, ParkUnpark
  <2>3. GroupShape' /\ GroupSleepers'
    BY <1>1, <1>3, <1>6, <2>1, <2>2 DEF GroupShape, GroupSleepers
  <2>4. Here' = Here
    BY <1>1, <1>3, <2>1 DEF Here
  <2> QED BY <1>1, <1>3, <1>4, <2>3, <2>4 DEF EveryoneCounted
<1> QED BY <1>5, <1>6

\* A future is dropped: it stays counted, now among the dropped.
LEMMA GroupCancel ==
    ASSUME GroupInv, NEW t \in Participants, barrier_cancel(t)
    PROVE  GroupInv'
<1>0. b_pc \in [Participants -> {"idle", "new", "joined"}] /\ EveryoneCounted
  BY DEF GroupInv, GroupShape
<1>1. /\ b_pc' = [b_pc EXCEPT ![t] = "idle"]
      /\ UNCHANGED <<barrier, arrived_at, b_runnable, leaders>>
  BY DEF barrier_cancel, BarrierGoto
<1>2. BarrierShape' /\ GroupShape' /\ GroupSleepers' /\ OneLeader'
  BY <1>1, GroupOthersKeep, ZenonT(30)
<1>3. CASE t \in Here
  <2>1. dropped' = dropped + 1 /\ Here' = Here \ {t}
    BY <1>0, <1>1, <1>3 DEF barrier_cancel, Here
  <2>2. IsFiniteSet(Here') /\ Cardinality(Here') = Cardinality(Here) - 1 /\ Cardinality(Here) \in Nat
    BY <1>0, <1>3, <2>1, FS_RemoveElement, FS_CardinalityType DEF EveryoneCounted
  <2> QED BY <1>0, <1>1, <1>2, <2>1, <2>2 DEF EveryoneCounted, GroupInv
<1>4. CASE t \notin Here
  <2>1. dropped' = dropped /\ Here' = Here
    BY <1>0, <1>1, <1>4 DEF barrier_cancel, Here
  <2> QED BY <1>0, <1>1, <1>2, <2>1 DEF EveryoneCounted, GroupInv
<1> QED BY <1>3, <1>4

\* Every poll and every drop keeps the invariant of the barrier, and a generation
\* ends only when all but the one that completes it wait or were dropped.
LEMMA GroupInvNext == GroupInv /\ [BarrierNext]_barrierVars => GroupInv' /\ TripStep
<1> SUFFICES ASSUME GroupInv, [BarrierNext]_barrierVars PROVE GroupInv' /\ TripStep
  OBVIOUS
<1>0. /\ b_pc \in [Participants -> {"idle", "new", "joined"}] /\ EveryoneCounted
      /\ Here = Waiting(barrier.generation)
  BY DEF GroupInv, GroupShape, Here, Waiting
<1>1. CASE UNCHANGED barrierVars
  BY <1>1 DEF barrierVars, GroupInv, BarrierShape, GroupShape, GroupSleepers, OneLeader,
              EveryoneCounted, Here, TripStep
<1>2. ASSUME NEW t \in Participants, barrier_wait(t) \/ barrier_spurious(t)
      PROVE  GroupInv' /\ TripStep
  <2>1. /\ UNCHANGED <<barrier, arrived_at, leaders, dropped>>
        /\ b_runnable' = [b_runnable EXCEPT ![t] = TRUE]
    BY <1>2 DEF barrier_wait, barrier_spurious
  <2>2. PICK l \in {"new", "joined"} :
          b_pc' = [b_pc EXCEPT ![t] = l] /\ (l = "joined" <=> b_pc[t] = "joined")
    BY <1>0, <1>2 DEF barrier_wait, barrier_spurious, BarrierGoto
  <2>3. BarrierShape' /\ GroupShape' /\ GroupSleepers' /\ OneLeader'
    BY <2>1, <2>2, GroupOthersKeep, ZenonT(30)
  <2>4. Here' = Here
    BY <1>0, <2>1, <2>2 DEF Here
  <2> QED BY <1>0, <2>1, <2>3, <2>4 DEF GroupInv, EveryoneCounted, TripStep
<1>3. ASSUME NEW t \in Participants, barrier_cancel(t) PROVE GroupInv' /\ TripStep
  BY <1>3, GroupCancel DEF barrier_cancel, TripStep
<1>4. ASSUME NEW t \in Participants, poll_join(t) PROVE GroupInv' /\ TripStep
  BY <1>0, <1>4, GroupJoin DEF EveryoneCounted, TripStep
<1>5. ASSUME NEW t \in Participants, poll_again(t) PROVE GroupInv' /\ TripStep
  BY <1>5, GroupAgain DEF TripStep
<1> QED BY <1>1, <1>2, <1>3, <1>4, <1>5 DEF BarrierNext

-----------------------------------------------------------------------------
(* RwLock.                                                                 *)

RwOf(readers, writer, reads, writes) ==
    [readers |-> readers, writer |-> writer, read_waiters |-> reads, write_waiters |-> writes]

RwShape ==
    /\ rw = RwOf(rw.readers, rw.writer, rw.read_waiters, rw.write_waiters)
    /\ rw.readers \in Nat /\ rw.writer \in BOOLEAN
    /\ IsWaitSet(rw.read_waiters) /\ IsWaitSet(rw.write_waiters)

RwLabels == {"idle", "read", "write", "reading", "writing"}

RwTasksShape == rw_pc \in [RwTasks -> RwLabels] /\ rw_runnable \in [RwTasks -> BOOLEAN]

Reading == {t \in RwTasks : rw_pc[t] = "reading"}

\* A task that sleeps in a Read or Write future is parked where the guard that
\* keeps it out will look when it is dropped.
RwSleepers ==
    \A t \in RwTasks :
        /\ rw_pc[t] = "read" /\ ~rw_runnable[t] => rw.writer /\ t \in rw.read_waiters.parked
        /\ rw_pc[t] = "write" /\ ~rw_runnable[t] =>
              (rw.writer \/ rw.readers # 0) /\ t \in rw.write_waiters.parked

RwInv ==
    RwShape /\ RwTasksShape /\ RwSleepers /\ ReadersXorWriter /\ IsFiniteSet(Reading)

\* The lock after a step: its counters and the tasks in its two wait sets.
RwBecomes(l, readers, writer, reads, writes) ==
    /\ l = RwOf(readers, writer, l.read_waiters, l.write_waiters)
    /\ IsWaitSet(l.read_waiters) /\ l.read_waiters.parked = reads
    /\ IsWaitSet(l.write_waiters) /\ l.write_waiters.parked = writes

\* The lock as a record of its fields.
LEMMA RwRecord ==
    ASSUME NEW readers, NEW writer, NEW r, NEW w, IsWaitSet(r), IsWaitSet(w)
    PROVE  RwBecomes(RwOf(readers, writer, r, w), readers, writer, r.parked, w.parked)
<1> DEFINE l == RwOf(readers, writer, r, w)
<1>1. l.read_waiters = r /\ l.write_waiters = w
  BY DEF RwOf
<1> HIDE DEF l
<1>2. l = RwOf(readers, writer, r, w)
  BY DEF l
<1>3. RwBecomes(l, readers, writer, r.parked, w.parked)
  BY <1>1, <1>2 DEF RwBecomes
<1> QED BY <1>3 DEF l

\* The fields of the lock after a step.
LEMMA RwAfter ==
    ASSUME NEW readers \in Nat, NEW writer \in BOOLEAN, NEW reads, NEW writes,
           RwBecomes(rw', readers, writer, reads, writes)
    PROVE  /\ rw'.readers = readers /\ rw'.writer = writer
           /\ rw'.read_waiters.parked = reads /\ rw'.write_waiters.parked = writes
           /\ RwShape'
<1> DEFINE l == RwOf(readers, writer, rw'.read_waiters, rw'.write_waiters)
<1>1. rw' = l
  BY DEF RwBecomes
<1>2. l.readers = readers /\ l.writer = writer
  BY Zenon DEF RwOf
<1> HIDE DEF l
<1>3. rw'.readers = readers /\ rw'.writer = writer
  BY ONLY <1>1, <1>2, Zenon
<1> QED BY <1>3, Zenon DEF RwBecomes, RwShape

\* The updates of the lock, field by field.
LEMMA RwUpdates ==
    ASSUME RwShape, NEW x, NEW y
    PROVE  LET n == rw.readers
               wr == rw.writer
               r == rw.read_waiters
               w == rw.write_waiters
           IN
           /\ [rw EXCEPT !.readers = x] = RwOf(x, wr, r, w)
           /\ [rw EXCEPT !.read_waiters = y] = RwOf(n, wr, y, w)
           /\ [rw EXCEPT !.write_waiters = y] = RwOf(n, wr, r, y)
           /\ [rw EXCEPT !.readers = x, !.read_waiters = y] = RwOf(x, wr, y, w)
           /\ [rw EXCEPT !.readers = x, !.write_waiters = y] = RwOf(x, wr, r, y)
<1> DEFINE n == rw.readers
           wr == rw.writer
           r == rw.read_waiters
           w == rw.write_waiters
           m1 == [rw EXCEPT !.readers = x]
<1>0. rw = RwOf(n, wr, r, w)
  BY DEF RwShape
<1>1. /\ m1 = RwOf(x, wr, r, w)
      /\ [rw EXCEPT !.read_waiters = y] = RwOf(n, wr, y, w)
      /\ [rw EXCEPT !.write_waiters = y] = RwOf(n, wr, r, y)
  BY ONLY <1>0, SMT DEF RwOf
<1> HIDE DEF m1, n, wr, r, w
<1>2. /\ [m1 EXCEPT !.read_waiters = y] = RwOf(x, wr, y, w)
      /\ [m1 EXCEPT !.write_waiters = y] = RwOf(x, wr, r, y)
  BY ONLY <1>1, SMT DEF RwOf
<1> QED BY <1>1, <1>2, Zenon DEF m1, n, wr, r, w

\* The same when the writer changes.
LEMMA RwWriterUpdates ==
    ASSUME RwShape, NEW x, NEW y, NEW z
    PROVE  /\ [rw EXCEPT !.writer = x, !.write_waiters = y]
                 = RwOf(rw.readers, x, rw.read_waiters, y)
           /\ [rw EXCEPT !.writer = x, !.write_waiters = y, !.read_waiters = z]
                 = RwOf(rw.readers, x, z, y)
<1> DEFINE n == rw.readers
           r == rw.read_waiters
           w == rw.write_waiters
           m2 == [rw EXCEPT !.writer = x]
           m3 == [m2 EXCEPT !.write_waiters = y]
<1>0. rw = RwOf(n, rw.writer, r, w)
  BY DEF RwShape
<1>1. m2 = RwOf(n, x, r, w)
  BY ONLY <1>0, SMT DEF RwOf
<1> HIDE DEF m2, m3, n, r, w
<1>2. m3 = RwOf(n, x, r, y)
  BY ONLY <1>1, SMT DEF RwOf, m3
<1>3. [m3 EXCEPT !.read_waiters = z] = RwOf(n, x, z, y)
  BY ONLY <1>2, SMT DEF RwOf
<1> QED BY <1>2, <1>3, Zenon DEF m2, m3, n, r

\* Read::poll and Write::poll take the lock or park, each in its own wait set.
LEMMA RwPolls ==
    ASSUME RwShape, NEW t
    PROVE  LET reads == rw.read_waiters.parked
               writes == rw.write_waiters.parked
           IN
           /\ read_poll(rw, t).ready <=> ~rw.writer
           /\ ~rw.writer =>
                 RwBecomes(read_poll(rw, t).obj, rw.readers + 1, FALSE, reads \ {t}, writes)
           /\ rw.writer =>
                 RwBecomes(read_poll(rw, t).obj, rw.readers, TRUE, reads \cup {t}, writes)
           /\ write_poll(rw, t).ready <=> ~rw.writer /\ rw.readers = 0
           /\ ~rw.writer /\ rw.readers = 0 =>
                 RwBecomes(write_poll(rw, t).obj, 0, TRUE, reads, writes \ {t})
           /\ ~(~rw.writer /\ rw.readers = 0) =>
                 RwBecomes(write_poll(rw, t).obj, rw.readers, rw.writer, reads, writes \cup {t})
<1> DEFINE n == rw.readers
           wr == rw.writer
           r == rw.read_waiters
           w == rw.write_waiters
<1>0. rw.writer \in BOOLEAN /\ IsWaitSet(r) /\ IsWaitSet(w)
  BY DEF RwShape
<1>1. /\ IsWaitSet(park(r, t)) /\ park(r, t).parked = r.parked \cup {t}
      /\ IsWaitSet(unpark(r, t)) /\ unpark(r, t).parked = r.parked \ {t}
      /\ IsWaitSet(park(w, t)) /\ park(w, t).parked = w.parked \cup {t}
      /\ IsWaitSet(unpark(w, t)) /\ unpark(w, t).parked = w.parked \ {t}
  BY ParkUnpark
<1>2. ASSUME ~rw.writer
      PROVE  /\ read_poll(rw, t).ready
             /\ RwBecomes(read_poll(rw, t).obj, n + 1, FALSE, r.parked \ {t}, w.parked)
  <2>1. wr = FALSE
    BY ONLY <1>0, <1>2, Zenon
  <2>2. read_poll(rw, t).ready /\ read_poll(rw, t).obj = RwOf(n + 1, wr, unpark(r, t), w)
    BY <1>2, RwUpdates, Zenon DEF read_poll, Ready
  <2>3. RwBecomes(RwOf(n + 1, wr, unpark(r, t), w), n + 1, wr, unpark(r, t).parked, w.parked)
    BY <1>0, <1>1, RwRecord, Zenon
  <2> QED BY ONLY <1>1, <2>1, <2>2, <2>3, Zenon
<1>3. ASSUME rw.writer
      PROVE  /\ ~read_poll(rw, t).ready
             /\ RwBecomes(read_poll(rw, t).obj, n, TRUE, r.parked \cup {t}, w.parked)
  <2>1. wr = TRUE
    BY ONLY <1>0, <1>3, Zenon
  <2>2. ~read_poll(rw, t).ready /\ read_poll(rw, t).obj = RwOf(n, wr, park(r, t), w)
    BY <1>3, RwUpdates, Zenon DEF read_poll, Pending
  <2>3. RwBecomes(RwOf(n, wr, park(r, t), w), n, wr, park(r, t).parked, w.parked)
    BY <1>0, <1>1, RwRecord, Zenon
  <2> QED BY ONLY <1>1, <2>1, <2>2, <2>3, Zenon
<1>4. ASSUME ~rw.writer /\ rw.readers = 0
      PROVE  /\ write_poll(rw, t).ready
             /\ RwBecomes(write_poll(rw, t).obj, 0, TRUE, r.parked, w.parked \ {t})
  <2>1. write_poll(rw, t).ready /\ write_poll(rw, t).obj = RwOf(n, TRUE, r, unpark(w, t))
    <3>1. ASSUME NEW x
          PROVE  [rw EXCEPT !.writer = x, !.write_waiters = unpark(@, t)] = RwOf(n, x, r, unpark(w, t))
      BY RwWriterUpdates, Zenon
    <3>2. [rw EXCEPT !.writer = TRUE, !.write_waiters = unpark(@, t)] = RwOf(n, TRUE, r, unpark(w, t))
      BY ONLY <3>1, Zenon
    <3> QED BY ONLY <1>4, <3>2, Zenon DEF write_poll, Ready
  <2>2. RwBecomes(RwOf(n, TRUE, r, unpark(w, t)), n, TRUE, r.parked, unpark(w, t).parked)
    BY <1>0, <1>1, RwRecord, Zenon
  <2> QED BY ONLY <1>1, <1>4, <2>1, <2>2, Zenon
<1>5. ASSUME ~(~rw.writer /\ rw.readers = 0)
      PROVE  /\ ~write_poll(rw, t).ready
             /\ RwBecomes(write_poll(rw, t).obj, n, wr, r.parked, w.parked \cup {t})
  <2>1. ~write_poll(rw, t).ready /\ write_poll(rw, t).obj = RwOf(n, wr, r, park(w, t))
    BY <1>5, RwUpdates, Zenon DEF write_poll, Pending
  <2>2. RwBecomes(RwOf(n, wr, r, park(w, t)), n, wr, r.parked, park(w, t).parked)
    BY <1>0, <1>1, RwRecord, Zenon
  <2> QED BY ONLY <1>1, <2>1, <2>2, Zenon
<1> QED BY <1>2, <1>3, <1>4, <1>5, Zenon

\* Dropping a future takes one waker out; dropping a guard wakes whom it kept out.
LEMMA RwDrops ==
    ASSUME RwShape, NEW t
    PROVE  LET reads == rw.read_waiters.parked
               writes == rw.write_waiters.parked
           IN
           /\ RwBecomes(read_drop(rw, t), rw.readers, rw.writer, reads \ {t}, writes)
           /\ RwBecomes(write_drop(rw, t), rw.readers, rw.writer, reads, writes \ {t})
           /\ rw.readers = 1 =>
                 /\ RwBecomes(read_guard_drop(rw).obj, 0, rw.writer, reads, {})
                 /\ read_guard_drop(rw).wakes = writes
           /\ rw.readers # 1 =>
                 /\ RwBecomes(read_guard_drop(rw).obj, rw.readers - 1, rw.writer, reads, writes)
                 /\ read_guard_drop(rw).wakes = {}
           /\ RwBecomes(write_guard_drop(rw).obj, rw.readers, FALSE, {}, {})
           /\ write_guard_drop(rw).wakes = writes \cup reads
<1> DEFINE n == rw.readers
           wr == rw.writer
           r == rw.read_waiters
           w == rw.write_waiters
<1>0. IsWaitSet(r) /\ IsWaitSet(w)
  BY DEF RwShape
<1>1. /\ IsWaitSet(unpark(r, t)) /\ unpark(r, t).parked = r.parked \ {t}
      /\ IsWaitSet(unpark(w, t)) /\ unpark(w, t).parked = w.parked \ {t}
      /\ IsWaitSet(wake_all(r)) /\ wake_all(r).parked = {}
      /\ IsWaitSet(wake_all(w)) /\ wake_all(w).parked = {}
  BY <1>0, ParkUnpark, WakeAll
<1>2. RwBecomes(read_drop(rw, t), n, wr, r.parked \ {t}, w.parked)
  <2>1. read_drop(rw, t) = RwOf(n, wr, unpark(r, t), w)
    BY RwUpdates, Zenon DEF read_drop
  <2>2. RwBecomes(RwOf(n, wr, unpark(r, t), w), n, wr, unpark(r, t).parked, w.parked)
    BY <1>0, <1>1, RwRecord, Zenon
  <2> QED BY ONLY <1>1, <2>1, <2>2, Zenon
<1>3. RwBecomes(write_drop(rw, t), n, wr, r.parked, w.parked \ {t})
  <2>1. write_drop(rw, t) = RwOf(n, wr, r, unpark(w, t))
    BY RwUpdates, Zenon DEF write_drop
  <2>2. RwBecomes(RwOf(n, wr, r, unpark(w, t)), n, wr, r.parked, unpark(w, t).parked)
    BY <1>0, <1>1, RwRecord, Zenon
  <2> QED BY ONLY <1>1, <2>1, <2>2, Zenon
<1>4. ASSUME rw.readers = 1
      PROVE  /\ RwBecomes(read_guard_drop(rw).obj, 0, wr, r.parked, {})
             /\ read_guard_drop(rw).wakes = w.parked
  <2>1. /\ read_guard_drop(rw).wakes = w.parked
        /\ read_guard_drop(rw).obj = RwOf(0, wr, r, wake_all(w))
    <3>1. [rw EXCEPT !.readers = 0, !.write_waiters = wake_all(@)] = RwOf(0, wr, r, wake_all(w))
      BY RwUpdates, Zenon
    <3> QED BY ONLY <1>4, <3>1, Zenon DEF read_guard_drop, Waking
  <2>2. RwBecomes(RwOf(0, wr, r, wake_all(w)), 0, wr, r.parked, wake_all(w).parked)
    BY <1>0, <1>1, RwRecord, Zenon
  <2> QED BY ONLY <1>1, <2>1, <2>2, Zenon
<1>5. ASSUME rw.readers # 1
      PROVE  /\ RwBecomes(read_guard_drop(rw).obj, n - 1, wr, r.parked, w.parked)
             /\ read_guard_drop(rw).wakes = {}
  <2>1. /\ read_guard_drop(rw).wakes = {}
        /\ read_guard_drop(rw).obj = RwOf(n - 1, wr, r, w)
    BY <1>5, RwUpdates, Zenon DEF read_guard_drop, Waking
  <2>2. RwBecomes(RwOf(n - 1, wr, r, w), n - 1, wr, r.parked, w.parked)
    BY <1>0, RwRecord, Zenon
  <2> QED BY ONLY <2>1, <2>2, Zenon
<1>6. /\ RwBecomes(write_guard_drop(rw).obj, n, FALSE, {}, {})
      /\ write_guard_drop(rw).wakes = w.parked \cup r.parked
  <2>1. /\ write_guard_drop(rw).wakes = w.parked \cup r.parked
        /\ write_guard_drop(rw).obj = RwOf(n, FALSE, wake_all(r), wake_all(w))
    <3>1. ASSUME NEW x
          PROVE  [rw EXCEPT !.writer = x, !.write_waiters = wake_all(@), !.read_waiters = wake_all(@)]
                   = RwOf(n, x, wake_all(r), wake_all(w))
      BY RwWriterUpdates, ZenonT(30)
    <3>2. [rw EXCEPT !.writer = FALSE, !.write_waiters = wake_all(@), !.read_waiters = wake_all(@)] =
            RwOf(n, FALSE, wake_all(r), wake_all(w))
      BY ONLY <3>1, Zenon
    <3> QED BY ONLY <3>2, Zenon DEF write_guard_drop, Waking
  <2>2. RwBecomes(RwOf(n, FALSE, wake_all(r), wake_all(w)), n, FALSE, wake_all(r).parked,
                  wake_all(w).parked)
    BY <1>1, RwRecord, Zenon
  <2> QED BY ONLY <1>1, <2>1, <2>2, Zenon
<1> QED BY <1>2, <1>3, <1>4, <1>5, <1>6, Zenon

\* The lock starts free, with nobody parked.
LEMMA RwInvInit == RwInit => RwInv
<1> SUFFICES ASSUME RwInit PROVE RwInv
  OBVIOUS
<1>1. /\ rw = [readers |-> 0, writer |-> FALSE, read_waiters |-> [order |-> <<>>, parked |-> {}],
               write_waiters |-> [order |-> <<>>, parked |-> {}]]
      /\ rw_pc = [t \in RwTasks |-> "idle"] /\ rw_runnable = [t \in RwTasks |-> TRUE]
  BY DEF RwInit, RwLock, Waiters
<1>2. Reading = {} /\ IsFiniteSet(Reading) /\ Cardinality(Reading) = 0
  BY <1>1, FS_EmptySet, ZenonT(30) DEF Reading
<1>3. RwShape
  <2>1. rw.readers = 0 /\ rw.writer = FALSE
        /\ rw.read_waiters = [order |-> <<>>, parked |-> {}]
        /\ rw.write_waiters = [order |-> <<>>, parked |-> {}]
    BY <1>1, Zenon
  <2>2. IsWaitSet(rw.read_waiters) /\ IsWaitSet(rw.write_waiters)
    BY <2>1 DEF IsWaitSet
  <2>3. rw = RwOf(rw.readers, rw.writer, rw.read_waiters, rw.write_waiters)
    BY <1>1, <2>1, Zenon DEF RwOf
  <2>4. rw.readers \in Nat
    BY <2>1
  <2> QED BY <2>1, <2>2, <2>3, <2>4, Zenon DEF RwShape
<1>4. RwTasksShape /\ RwSleepers
  BY <1>1 DEF RwTasksShape, RwLabels, RwSleepers
<1>5. ReadersXorWriter
  BY <1>1, <1>2 DEF ReadersXorWriter, Reading
<1> QED BY <1>2, <1>3, <1>4, <1>5 DEF RwInv

\* The tasks that read, when t goes on to l.
LEMMA ReadingMoves ==
    ASSUME RwTasksShape, IsFiniteSet(Reading), NEW t \in RwTasks, NEW l \in RwLabels,
           rw_pc' = [rw_pc EXCEPT ![t] = l]
    PROVE  /\ IsFiniteSet(Reading')
           /\ l = "reading" /\ rw_pc[t] # "reading" => Cardinality(Reading') = Cardinality(Reading) + 1
           /\ l # "reading" /\ rw_pc[t] = "reading" => Cardinality(Reading') = Cardinality(Reading) - 1
           /\ (l = "reading") = (rw_pc[t] = "reading") => Reading' = Reading
<1>1. l = "reading" => Reading' = Reading \cup {t}
  BY DEF Reading, RwTasksShape
<1>2. l # "reading" => Reading' = Reading \ {t}
  BY DEF Reading, RwTasksShape
<1>3. t \in Reading <=> rw_pc[t] = "reading"
  BY DEF Reading
<1>4. /\ IsFiniteSet(Reading \cup {t}) /\ IsFiniteSet(Reading \ {t})
      /\ t \notin Reading => Cardinality(Reading \cup {t}) = Cardinality(Reading) + 1
      /\ t \in Reading => Cardinality(Reading \ {t}) = Cardinality(Reading) - 1
  BY FS_AddElement, FS_RemoveElement
<1> QED BY <1>1, <1>2, <1>3, <1>4, ZenonT(30)

\* A step that leaves the lock alone and neither gives nor takes a guard keeps the
\* invariant, if it puts nobody to sleep.
LEMMA RwOthersKeep ==
    ASSUME RwInv, NEW t \in RwTasks, NEW l \in {"idle", "read", "write"}, rw' = rw,
           rw_pc' = [rw_pc EXCEPT ![t] = l], rw_pc[t] \in {"idle", "read", "write"},
           rw_runnable' = [rw_runnable EXCEPT ![t] = TRUE]
    PROVE  RwInv'
<1> USE DEF RwInv
<1>1. RwTasksShape' /\ l \in RwLabels
  BY DEF RwTasksShape, RwLabels
<1>2. Reading' = Reading
  BY <1>1, ReadingMoves, ZenonT(30)
<1>3. RwShape'
  BY DEF RwShape
<1>4. RwSleepers'
  BY DEF RwSleepers, RwTasksShape, RwLabels
<1>5. ReadersXorWriter'
  BY <1>2 DEF ReadersXorWriter, RwTasksShape, RwLabels, Reading
<1> QED BY <1>1, <1>2, <1>3, <1>4, <1>5

\* A poll that resolves gives a guard: to a reader while nobody writes, to a writer
\* while nobody has a guard.
LEMMA RwGuardGiven ==
    ASSUME RwInv, NEW t \in RwTasks, NEW l \in {"reading", "writing"},
           rw_pc[t] \in {"read", "write"}, ~rw.writer, l = "writing" => rw.readers = 0,
           RwBecomes(rw', IF l = "reading" THEN rw.readers + 1 ELSE 0, l = "writing",
                     rw'.read_waiters.parked, rw'.write_waiters.parked),
           rw.read_waiters.parked \ {t} \subseteq rw'.read_waiters.parked,
           rw.write_waiters.parked \ {t} \subseteq rw'.write_waiters.parked,
           rw_pc' = [rw_pc EXCEPT ![t] = l], rw_runnable' = rw_runnable
    PROVE  RwInv'
<1> USE DEF RwInv
<1>0. rw.readers \in Nat
  BY DEF RwShape
<1>1. RwTasksShape' /\ l \in RwLabels
  BY DEF RwTasksShape, RwLabels
<1>2. /\ rw'.readers = IF l = "reading" THEN rw.readers + 1 ELSE 0
      /\ rw'.writer = (l = "writing")
      /\ RwShape'
  <2>1. (IF l = "reading" THEN rw.readers + 1 ELSE 0) \in Nat /\ (l = "writing") \in BOOLEAN
    BY <1>0
  <2> QED BY <2>1, RwAfter, ZenonT(30)
<1>4. RwSleepers'
  BY <1>0, <1>2 DEF RwSleepers, RwTasksShape, RwLabels
<1>5. IsFiniteSet(Reading') /\ rw'.readers = Cardinality(Reading')
  BY <1>0, <1>1, <1>2, ReadingMoves, ZenonT(30)
  DEF ReadersXorWriter, Reading
<1>6. ASSUME NEW u \in RwTasks, NEW v \in RwTasks, rw_pc'[u] = "writing",
             rw_pc'[v] \in {"reading", "writing"}
      PROVE  u = v
  <2>1. Cardinality(Reading) = rw.readers /\ ~\E x \in RwTasks : rw_pc[x] = "writing"
    BY DEF ReadersXorWriter, Reading
  <2>2. u = t /\ l = "writing"
    BY <1>6, <2>1 DEF RwTasksShape
  <2>3. Reading = {}
    BY <2>1, <2>2, FS_EmptySet
  <2> QED BY <1>6, <2>1, <2>2, <2>3 DEF Reading, RwTasksShape
<1>7. rw'.writer <=> \E u \in RwTasks : rw_pc'[u] = "writing"
  BY <1>2, ZenonT(30) DEF ReadersXorWriter, RwTasksShape
<1>8. ReadersXorWriter'
  BY <1>5, <1>6, <1>7 DEF ReadersXorWriter, Reading
<1> QED BY <1>1, <1>2, <1>4, <1>5, <1>8

\* A poll that stays pending: the lock is taken, and the task is parked.
LEMMA RwParked ==
    ASSUME RwInv, NEW t \in RwTasks, rw_pc[t] \in {"read", "write"},
           rw_pc[t] = "read" => rw.writer /\ t \in rw'.read_waiters.parked,
           rw_pc[t] = "write" => (rw.writer \/ rw.readers # 0) /\ t \in rw'.write_waiters.parked,
           RwBecomes(rw', rw.readers, rw.writer,
                     rw'.read_waiters.parked, rw'.write_waiters.parked),
           rw.read_waiters.parked \subseteq rw'.read_waiters.parked,
           rw.write_waiters.parked \subseteq rw'.write_waiters.parked,
           rw_pc' = rw_pc, rw_runnable' = [rw_runnable EXCEPT ![t] = FALSE]
    PROVE  RwInv'
<1> USE DEF RwInv
<1>1. rw'.readers = rw.readers /\ rw'.writer = rw.writer /\ RwShape'
  BY RwAfter, ZenonT(30) DEF RwShape
<1>2. RwTasksShape' /\ Reading' = Reading
  BY DEF RwTasksShape, Reading
<1>3. RwSleepers'
  BY <1>1 DEF RwSleepers, RwTasksShape
<1>4. ReadersXorWriter'
  BY <1>1 DEF ReadersXorWriter
<1> QED BY <1>1, <1>2, <1>3, <1>4

\* Read::drop and Write::drop.
LEMMA RwCancelled ==
    ASSUME RwInv, NEW t \in RwTasks, rw_cancel(t)
    PROVE  RwInv'
<1> USE DEF RwInv
<1>1. /\ rw_pc' = [rw_pc EXCEPT ![t] = "idle"] /\ rw_runnable' = rw_runnable
      /\ rw_pc[t] \in {"read", "write"}
      /\ rw' = IF rw_pc[t] = "read" THEN read_drop(rw, t) ELSE write_drop(rw, t)
  BY DEF rw_cancel, RwGoto
<1>2. PICK reads, writes :
        /\ RwBecomes(rw', rw.readers, rw.writer, reads, writes)
        /\ rw.read_waiters.parked \ {t} \subseteq reads
        /\ rw.write_waiters.parked \ {t} \subseteq writes
  BY <1>1, RwDrops, ZenonT(30)
<1>3. /\ rw'.readers = rw.readers /\ rw'.writer = rw.writer /\ RwShape'
      /\ rw'.read_waiters.parked = reads /\ rw'.write_waiters.parked = writes
  BY <1>2, RwAfter, Zenon DEF RwShape
<1>4. RwTasksShape'
  BY <1>1 DEF RwTasksShape, RwLabels
<1>5. Reading' = Reading
  BY <1>1, ReadingMoves, ZenonT(30) DEF RwLabels
<1>6. RwSleepers'
  BY <1>1, <1>2, <1>3 DEF RwSleepers, RwTasksShape
<1>7. ReadersXorWriter'
  BY <1>1, <1>3, <1>5 DEF ReadersXorWriter, Reading, RwTasksShape
<1> QED BY <1>3, <1>4, <1>5, <1>6, <1>7

\* RwLockReadGuard::drop and RwLockWriteGuard::drop.
LEMMA RwReleased ==
    ASSUME RwInv, NEW t \in RwTasks, rw_release(t)
    PROVE  RwInv'
<1> USE DEF RwInv
<1> DEFINE reads == rw.read_waiters.parked
           writes == rw.write_waiters.parked
<1>1. rw_pc' = [rw_pc EXCEPT ![t] = "idle"] /\ rw_pc[t] \in {"reading", "writing"}
  BY DEF rw_release, RwGoto
<1>2. rw.readers \in Nat /\ rw.readers = Cardinality(Reading)
  BY DEF ReadersXorWriter, Reading, RwShape
<1>3. /\ IsFiniteSet(Reading') /\ (t \in Reading => Cardinality(Reading') = rw.readers - 1)
      /\ (t \notin Reading => Reading' = Reading)
  BY <1>1, <1>2, ReadingMoves, ZenonT(30) DEF RwLabels, Reading
<1>4. CASE rw_pc[t] = "reading"
  <2>1. /\ rw' = read_guard_drop(rw).obj
        /\ rw_runnable' = [u \in RwTasks |-> rw_runnable[u] \/ u \in read_guard_drop(rw).wakes]
    BY <1>4 DEF rw_release, RwWake
  <2>2. ~rw.writer /\ t \in Reading /\ rw.readers # 0
    <3>1. ~rw.writer /\ t \in Reading
      BY <1>4 DEF ReadersXorWriter, Reading
    <3> QED BY <1>2, <3>1, FS_EmptySet
  <2>3. CASE rw.readers = 1
    <3>1. /\ RwBecomes(rw', 0, FALSE, reads, {})
          /\ rw_runnable' = [u \in RwTasks |-> rw_runnable[u] \/ u \in writes]
      BY <2>1, <2>2, <2>3, RwDrops, ZenonT(30) DEF RwShape
    <3>2. rw'.readers = 0 /\ rw'.writer = FALSE /\ RwShape'
      BY <3>1, RwAfter, ZenonT(30)
    <3>3. RwTasksShape'
      BY <1>1, <3>1 DEF RwTasksShape, RwLabels
    <3>4. RwSleepers'
      BY <1>1, <2>2, <3>1, <3>2, ZenonT(30) DEF RwSleepers, RwTasksShape
    <3>5. ReadersXorWriter'
      BY <1>1, <1>3, <2>2, <2>3, <3>2
      DEF ReadersXorWriter, Reading, RwTasksShape
    <3> QED BY <1>3, <3>2, <3>3, <3>4, <3>5
  <2>4. CASE rw.readers # 1
    <3>1. /\ RwBecomes(rw', rw.readers - 1, FALSE, reads, writes)
          /\ rw_runnable' = [u \in RwTasks |-> rw_runnable[u] \/ u \in {}]
      BY <2>1, <2>2, <2>4, RwDrops, ZenonT(30) DEF RwShape
    <3>2. /\ rw'.readers = rw.readers - 1 /\ rw'.writer = FALSE /\ RwShape'
          /\ rw'.read_waiters.parked = reads /\ rw'.write_waiters.parked = writes
          /\ rw.readers - 1 \in Nat \ {0}
      <4>1. rw.readers - 1 \in Nat \ {0}
        BY <1>2, <2>2, <2>4
      <4> QED BY <3>1, <4>1, RwAfter, ZenonT(30)
    <3>3. RwTasksShape'
      BY <1>1, <3>1 DEF RwTasksShape, RwLabels
    <3>4. RwSleepers'
      BY <1>1, <2>2, <3>1, <3>2 DEF RwSleepers, RwTasksShape
    <3>5. ReadersXorWriter'
      BY <1>1, <1>3, <2>2, <3>2
      DEF ReadersXorWriter, Reading, RwTasksShape
    <3> QED BY <1>3, <3>2, <3>3, <3>4, <3>5
  <2> QED BY <2>3, <2>4
<1>5. CASE rw_pc[t] = "writing"
  <2>1. /\ RwBecomes(rw', rw.readers, FALSE, {}, {})
        /\ rw_runnable' = [u \in RwTasks |-> rw_runnable[u] \/ u \in writes \cup reads]
    BY <1>5, RwDrops, ZenonT(30) DEF rw_release, RwWake
  <2>2. rw'.readers = rw.readers /\ rw'.writer = FALSE /\ RwShape'
    BY <1>2, <2>1, RwAfter, ZenonT(30)
  <2>3. t \notin Reading
    BY <1>5 DEF Reading
  <2>4. RwTasksShape'
    BY <1>1, <2>1 DEF RwTasksShape, RwLabels
  <2>5. RwSleepers'
    BY <1>1, <2>1, <2>2, ZenonT(30) DEF RwSleepers, RwTasksShape
  <2>6. ReadersXorWriter'
    BY <1>1, <1>3, <1>5, <2>2, <2>3
    DEF ReadersXorWriter, Reading, RwTasksShape
  <2> QED BY <1>3, <2>2, <2>4, <2>5, <2>6
<1> QED BY <1>1, <1>4, <1>5

\* Every poll and every drop keeps the lock's invariant.
LEMMA RwInvNext == RwInv /\ [RwNext]_rwVars => RwInv'
<1> SUFFICES ASSUME RwInv, [RwNext]_rwVars PROVE RwInv'
  OBVIOUS
<1>0. RwShape /\ RwTasksShape
  BY DEF RwInv
<1>1. CASE UNCHANGED rwVars
  BY <1>1 DEF rwVars, RwInv, RwShape, RwTasksShape, RwSleepers, ReadersXorWriter, Reading
<1>2. ASSUME NEW t \in RwTasks, read(t) \/ write(t) PROVE RwInv'
  BY <1>2, RwOthersKeep DEF read, write, RwGoto
<1>3. ASSUME NEW t \in RwTasks, rw_spurious(t) PROVE RwInv'
  <2>1. rw_pc' = [rw_pc EXCEPT ![t] = rw_pc[t]]
    BY <1>0, <1>3 DEF rw_spurious, RwTasksShape
  <2> QED BY <1>3, <2>1, RwOthersKeep, ZenonT(30) DEF rw_spurious
<1>4. ASSUME NEW t \in RwTasks, poll_read(t) PROVE RwInv'
  <2>1. rw_pc[t] = "read" /\ rw' = read_poll(rw, t).obj
    BY <1>4 DEF poll_read, RwPolled
  <2>2. CASE ~rw.writer
    <3>1. rw_pc' = [rw_pc EXCEPT ![t] = "reading"] /\ rw_runnable' = rw_runnable
      BY <1>0, <1>4, <2>2, RwPolls, Zenon DEF poll_read, RwPolled, RwGoto
    <3>2. RwBecomes(rw', rw.readers + 1, FALSE, rw.read_waiters.parked \ {t}, rw.write_waiters.parked)
      BY <1>0, <2>1, <2>2, RwPolls, Zenon
    <3>3. /\ RwBecomes(rw', rw.readers + 1, FALSE, rw'.read_waiters.parked, rw'.write_waiters.parked)
          /\ rw.read_waiters.parked \ {t} = rw'.read_waiters.parked
          /\ rw.write_waiters.parked = rw'.write_waiters.parked
      BY <3>2, Zenon DEF RwBecomes
    <3> QED BY <2>1, <2>2, <3>1, <3>3, RwGuardGiven, ZenonT(30)
  <2>3. CASE rw.writer
    <3>1. rw_pc' = rw_pc /\ rw_runnable' = [rw_runnable EXCEPT ![t] = FALSE]
      BY <1>0, <1>4, <2>3, RwPolls, Zenon DEF poll_read, RwPolled
    <3>2. RwBecomes(rw', rw.readers, rw.writer,
                    rw.read_waiters.parked \cup {t}, rw.write_waiters.parked)
      BY <1>0, <2>1, <2>3, RwPolls, ZenonT(30) DEF RwShape
    <3>3. /\ RwBecomes(rw', rw.readers, rw.writer, rw'.read_waiters.parked, rw'.write_waiters.parked)
          /\ rw.read_waiters.parked \cup {t} = rw'.read_waiters.parked
          /\ rw.write_waiters.parked = rw'.write_waiters.parked
      BY <3>2, Zenon DEF RwBecomes
    <3> QED BY <2>1, <2>3, <3>1, <3>3, RwParked, ZenonT(30)
  <2> QED BY <2>2, <2>3
<1>5. ASSUME NEW t \in RwTasks, poll_write(t) PROVE RwInv'
  <2>1. rw_pc[t] = "write" /\ rw' = write_poll(rw, t).obj
    BY <1>5 DEF poll_write, RwPolled
  <2>2. CASE ~rw.writer /\ rw.readers = 0
    <3>1. rw_pc' = [rw_pc EXCEPT ![t] = "writing"] /\ rw_runnable' = rw_runnable
      BY <1>0, <1>5, <2>2, RwPolls, Zenon DEF poll_write, RwPolled, RwGoto
    <3>2. RwBecomes(rw', 0, TRUE, rw.read_waiters.parked, rw.write_waiters.parked \ {t})
      BY <1>0, <2>1, <2>2, RwPolls, Zenon
    <3>3. /\ RwBecomes(rw', 0, TRUE, rw'.read_waiters.parked, rw'.write_waiters.parked)
          /\ rw.read_waiters.parked = rw'.read_waiters.parked
          /\ rw.write_waiters.parked \ {t} = rw'.write_waiters.parked
      BY <3>2, Zenon DEF RwBecomes
    <3> QED BY <2>1, <2>2, <3>1, <3>3, RwGuardGiven, ZenonT(30)
  <2>3. CASE ~(~rw.writer /\ rw.readers = 0)
    <3>1. rw_pc' = rw_pc /\ rw_runnable' = [rw_runnable EXCEPT ![t] = FALSE]
      BY <1>0, <1>5, <2>3, RwPolls, Zenon DEF poll_write, RwPolled
    <3>2. RwBecomes(rw', rw.readers, rw.writer,
                    rw.read_waiters.parked, rw.write_waiters.parked \cup {t})
      BY <1>0, <2>1, <2>3, RwPolls, Zenon
    <3>3. /\ RwBecomes(rw', rw.readers, rw.writer, rw'.read_waiters.parked, rw'.write_waiters.parked)
          /\ rw.read_waiters.parked = rw'.read_waiters.parked
          /\ rw.write_waiters.parked \cup {t} = rw'.write_waiters.parked
      BY <3>2, Zenon DEF RwBecomes
    <3> QED BY <2>1, <2>3, <3>1, <3>3, RwParked, ZenonT(30)
  <2> QED BY <2>2, <2>3
<1> QED
  BY <1>1, <1>2, <1>3, <1>4, <1>5, RwCancelled, RwReleased DEF RwNext, RwStep

-----------------------------------------------------------------------------
(* Mutex and Condvar.                                                      *)

USE DEF vars

\* The fields of the records that the steps update.
MutexShape ==
    /\ mutex = [locked |-> mutex.locked, waiters |-> mutex.waiters]
    /\ mutex.waiters = [order |-> mutex.waiters.order, parked |-> mutex.waiters.parked]
    /\ mutex.locked \in BOOLEAN

Labels == {"idle", "lock", "waiting", "relock", "relocking", "held", "wait", "release", "unlock",
           "notify"}

TasksShape ==
    /\ pc \in [Tasks -> Labels]
    /\ runnable \in [Tasks -> BOOLEAN]

\* A task that sleeps in a Lock future has its waker in the wait set of a mutex
\* that is locked, so the guard's drop will find it.
SleepersParked ==
    \A t \in Tasks : pc[t] \in {"lock", "relock"} /\ ~runnable[t] =>
        mutex.locked /\ t \in mutex.waiters.parked

MutexInv == MutexShape /\ TasksShape /\ MutualExclusion /\ SleepersParked

-----------------------------------------------------------------------------
(* What one locked region does to the mutex.                               *)

\* Lock::poll takes a free mutex and parks on a taken one.
LEMMA LockPoll ==
    ASSUME NEW t, MutexShape
    PROVE  LET m == lock_poll(mutex, t).obj IN
           /\ lock_poll(mutex, t).ready <=> ~mutex.locked
           /\ m = [locked |-> m.locked, waiters |-> m.waiters]
           /\ m.waiters = [order |-> m.waiters.order, parked |-> m.waiters.parked]
           /\ m.locked = TRUE
           /\ ~mutex.locked => m.waiters.parked = mutex.waiters.parked \ {t}
           /\ mutex.locked => m.waiters.parked = mutex.waiters.parked \cup {t}
BY Zenon DEF MutexShape, lock_poll, Ready, Pending, park, unpark

\* MutexGuard::drop frees the mutex and wakes everybody who is parked.
LEMMA GuardDrop ==
    ASSUME MutexShape
    PROVE  LET m == guard_drop(mutex).obj IN
           /\ guard_drop(mutex).wakes = mutex.waiters.parked
           /\ m = [locked |-> m.locked, waiters |-> m.waiters]
           /\ m.waiters = [order |-> m.waiters.order, parked |-> m.waiters.parked]
           /\ m.locked = FALSE
BY Zenon DEF MutexShape, guard_drop, Waking, wake_all

\* Lock::drop takes its own waker out and nothing else.
LEMMA LockDrop ==
    ASSUME NEW t, MutexShape
    PROVE  LET m == lock_drop(mutex, t) IN
           /\ m = [locked |-> m.locked, waiters |-> m.waiters]
           /\ m.waiters = [order |-> m.waiters.order, parked |-> m.waiters.parked]
           /\ m.locked = mutex.locked
           /\ m.waiters.parked = mutex.waiters.parked \ {t}
<1>1. PICK o : unpark(mutex.waiters, t) = [order |-> o, parked |-> mutex.waiters.parked \ {t}]
  BY Zenon DEF unpark
<1> QED BY <1>1 DEF MutexShape, lock_drop

-----------------------------------------------------------------------------
(* The invariant of the mutex.                                             *)

\* The mutex starts free, with nobody parked.
LEMMA MutexInit == Init => MutexInv
BY DEF Init, Mutex, Waiters, MutexInv, MutexShape, TasksShape, Labels, MutualExclusion, SleepersParked,
       Holding

\* A poll of a Lock future, alone or inside CondvarWait.
LEMMA PollLockKeeps ==
    ASSUME MutexInv, NEW t \in Tasks, NEW l \in {"lock", "relock"},
           pc[t] \in {"lock", "relock", "relocking"}, PollLock(t, l)
    PROVE  MutexInv'
<1> USE DEF MutexInv
<1>1. CASE ~mutex.locked
  <2>1. mutex' = lock_poll(mutex, t).obj /\ pc' = [pc EXCEPT ![t] = "held"] /\ runnable' = runnable
    BY <1>1, LockPoll, Zenon DEF PollLock, Goto
  <2>2. MutexShape' /\ mutex'.locked
    BY <2>1, LockPoll, Zenon DEF MutexShape
  <2>3. TasksShape'
    BY <2>1 DEF TasksShape, Labels
  <2>4. MutualExclusion'
    BY <1>1, <2>1, <2>2 DEF MutualExclusion, Holding, TasksShape, Labels
  <2>5. SleepersParked'
    BY <1>1, <2>1 DEF SleepersParked, TasksShape, Labels
  <2> QED BY <2>2, <2>3, <2>4, <2>5
<1>2. CASE mutex.locked
  <2>1. /\ mutex' = lock_poll(mutex, t).obj /\ pc' = [pc EXCEPT ![t] = l]
        /\ runnable' = [runnable EXCEPT ![t] = FALSE]
    BY <1>2, LockPoll, Zenon DEF PollLock, Goto, Suspend
  <2>2. MutexShape' /\ mutex'.locked /\ mutex'.waiters.parked = mutex.waiters.parked \cup {t}
    BY <1>2, <2>1, LockPoll, Zenon DEF MutexShape
  <2>3. TasksShape'
    BY <2>1 DEF TasksShape, Labels
  <2>4. MutualExclusion'
    BY <1>2, <2>1, <2>2 DEF MutualExclusion, Holding, TasksShape, Labels
  <2>5. SleepersParked'
    BY <2>1, <2>2 DEF SleepersParked, TasksShape, Labels
  <2> QED BY <2>2, <2>3, <2>4, <2>5
<1> QED BY <1>1, <1>2

\* A guard is dropped, by a task that goes on to any step without one.
LEMMA GuardDropKeeps ==
    ASSUME MutexInv, NEW t \in Tasks, NEW l \in {"idle", "notify", "waiting"},
           pc[t] \in Holding, mutex' = guard_drop(mutex).obj, Wake(guard_drop(mutex).wakes),
           Goto(t, l)
    PROVE  MutexInv'
<1> USE DEF MutexInv
<1>1. MutexShape' /\ ~mutex'.locked
  BY GuardDrop, Zenon DEF MutexShape
<1>2. pc' = [pc EXCEPT ![t] = l]
      /\ runnable' = [u \in Tasks |-> runnable[u] \/ u \in mutex.waiters.parked]
  BY GuardDrop DEF Goto, Wake
<1>3. TasksShape'
  BY <1>2 DEF TasksShape, Labels
<1>4. MutualExclusion'
  BY <1>1, <1>2 DEF MutualExclusion, TasksShape, Labels, Holding
<1>5. SleepersParked'
  BY <1>2, Zenon DEF SleepersParked, TasksShape, Labels
<1> QED BY <1>1, <1>3, <1>4, <1>5

\* A step that leaves the mutex alone and neither gives nor takes a guard keeps
\* the invariant, if it puts nobody to sleep in a Lock future.
LEMMA OthersKeep ==
    ASSUME MutexInv, mutex' = mutex, TasksShape',
           \A t \in Tasks : /\ pc'[t] \in Holding <=> pc[t] \in Holding
                            /\ pc'[t] \in {"lock", "relock"} /\ ~runnable'[t] =>
                                   pc[t] \in {"lock", "relock"} /\ ~runnable[t]
    PROVE  MutexInv'
BY DEF MutexInv, MutexShape, MutualExclusion, SleepersParked

\* Every poll, drop and unlock keeps the mutex's invariant.
LEMMA MutexNext == MutexInv /\ [Next]_vars => MutexInv'
<1> SUFFICES ASSUME MutexInv, [Next]_vars PROVE MutexInv'
  OBVIOUS
<1>0. TasksShape
  BY DEF MutexInv
<1>1. CASE UNCHANGED vars
  BY <1>1 DEF MutexInv, MutexShape, TasksShape, Labels, MutualExclusion, SleepersParked
<1>2. ASSUME NEW t \in Tasks, lock(t) PROVE MutexInv'
  BY <1>0, <1>2, OthersKeep DEF lock, Goto, TasksShape, Labels, Holding
<1>3. ASSUME NEW t \in Tasks, try_lock(t) PROVE MutexInv'
  <2>1. mutex' = [mutex EXCEPT !.locked = TRUE] /\ pc' = [pc EXCEPT ![t] = "held"]
        /\ runnable' = runnable /\ ~mutex.locked /\ pc[t] = "idle"
    BY <1>3 DEF try_lock, Goto
  <2>2. MutexShape' /\ mutex'.locked
    BY <2>1, Zenon DEF MutexInv, MutexShape
  <2>3. TasksShape' /\ SleepersParked'
    BY <1>0, <2>1 DEF MutexInv, TasksShape, Labels, SleepersParked
  <2>4. MutualExclusion'
    BY <1>0, <2>1, <2>2 DEF MutexInv, MutualExclusion, Holding, TasksShape, Labels
  <2> QED BY <2>2, <2>3, <2>4 DEF MutexInv
<1>4. ASSUME NEW t \in Tasks, poll_lock(t) PROVE MutexInv'
  BY <1>4, PollLockKeeps DEF poll_lock
<1>5. ASSUME NEW t \in Tasks, unlock(t) PROVE MutexInv'
  <2> DEFINE l == IF t \in Producers THEN "notify" ELSE "idle"
  <2>1. l \in {"idle", "notify", "waiting"} /\ pc[t] \in Holding /\ Goto(t, l)
    BY <1>5 DEF unlock, Holding
  <2> QED BY <1>5, <2>1, GuardDropKeeps DEF unlock
<1>6. ASSUME NEW t \in Tasks, produce(t) PROVE MutexInv'
  BY <1>0, <1>6, OthersKeep DEF produce, Goto, TasksShape, Labels, Holding
<1>7. ASSUME NEW t \in Tasks, notify(t) PROVE MutexInv'
  <2>1. PICK woken : runnable' = [u \in Tasks |-> runnable[u] \/ u \in woken]
    BY <1>7 DEF notify, Wake
  <2> QED BY <1>0, <1>7, <2>1, OthersKeep DEF notify, Goto, TasksShape, Labels, Holding
<1>8. ASSUME NEW t \in Tasks, wait_until(t) PROVE MutexInv'
  <2>1. PICK l \in {"unlock", "wait"} : pc' = [pc EXCEPT ![t] = l]
    BY <1>8 DEF wait_until, Goto
  <2> QED BY <1>0, <1>8, <2>1, OthersKeep DEF wait_until, TasksShape, Labels, Holding
<1>9. ASSUME NEW t \in Tasks, wait_init(t) PROVE MutexInv'
  BY <1>0, <1>9, OthersKeep DEF wait_init, Goto, Suspend, TasksShape, Labels, Holding
<1>10. ASSUME NEW t \in Tasks, wait_release(t) PROVE MutexInv'
  <2>1.  pc[t] \in Holding
    BY <1>10 DEF wait_release, Holding
  <2> QED BY <1>10, <2>1, GuardDropKeeps DEF wait_release
<1>11. ASSUME NEW t \in Tasks, wait_notified(t) PROVE MutexInv'
  BY <1>0, <1>11, OthersKeep DEF wait_notified, Goto, TasksShape, Labels, Holding
<1>12. ASSUME NEW t \in Tasks, wait_relock(t) PROVE MutexInv'
  BY <1>12, PollLockKeeps DEF wait_relock
<1>13. ASSUME NEW t \in Tasks, cancel(t) PROVE MutexInv'
  <2>1. pc' = [pc EXCEPT ![t] = "idle"] /\ runnable' = runnable /\ pc[t] \in {"lock", "waiting", "relock"}
    BY <1>13 DEF cancel, Goto, Suspended
  <2>2. CASE pc[t] = "waiting"
    BY <1>0, <1>13, <2>1, <2>2, OthersKeep DEF cancel, TasksShape, Labels, Holding
  <2>3. CASE pc[t] # "waiting"
    <3>1. mutex' = lock_drop(mutex, t)
      BY <1>13, <2>3 DEF cancel
    <3>2. MutexShape' /\ mutex'.locked = mutex.locked
          /\ mutex'.waiters.parked = mutex.waiters.parked \ {t}
      BY <3>1, LockDrop DEF MutexInv, MutexShape
    <3>3. TasksShape' /\ SleepersParked'
      BY <1>0, <2>1, <3>2 DEF MutexInv, TasksShape, Labels, SleepersParked
    <3>4. MutualExclusion'
      BY <1>0, <2>1, <3>2 DEF MutexInv, MutualExclusion, Holding, TasksShape, Labels
    <3> QED BY <3>2, <3>3, <3>4 DEF MutexInv
  <2> QED BY <2>2, <2>3
<1>14. ASSUME NEW t \in Tasks, spurious(t) PROVE MutexInv'
  BY <1>0, <1>14, OthersKeep DEF spurious, TasksShape, Labels
<1> QED
  BY <1>1, <1>2, <1>3, <1>4, <1>5, <1>6, <1>7, <1>8, <1>9, <1>10, <1>11, <1>12, <1>13, <1>14
  DEF Next, Step

-----------------------------------------------------------------------------
\* At most one task has the guard, and locked says whether one has.
THEOREM GuardsExclude == Spec => []MutualExclusion
<1>1. MutexInv => MutualExclusion
  BY DEF MutexInv
<1> QED BY <1>1, MutexInit, MutexNext, PTL DEF Spec

\* No task sleeps in front of a mutex that is free, whatever futures were
\* dropped while they waited or after they were woken.
THEOREM LockersAreWoken == Spec => []NoStrandedLocker
<1>1. MutexInv => NoStrandedLocker
  BY DEF MutexInv, SleepersParked, NoStrandedLocker
<1> QED BY <1>1, MutexInit, MutexNext, PTL DEF Spec

-----------------------------------------------------------------------------
(* Condvar with notify_all: the condition is looked at and the waker       *)
(* parked under one lock, so an item that a sleeping consumer has not seen *)
(* is one whose producer has not notified yet.                             *)

\* A consumer on its way to sleep has seen that there is no item, and holds the
\* lock; once it sleeps beside an item, a producer is about to notify.
WaitersCovered ==
    /\ items \in Nat
    /\ condvar = [order |-> condvar.order, parked |-> condvar.parked]
    /\ \A t \in Tasks :
          /\ pc[t] \in {"wait", "release"} => items = 0
          /\ pc[t] = "notify" => t \in Producers
          /\ pc[t] \in {"release", "waiting"} /\ ~runnable[t] => t \in condvar.parked
          /\ pc[t] = "waiting" /\ ~runnable[t] /\ items > 0 =>
                \E p \in Producers : pc[p] \in {"unlock", "notify"}

\* Nobody waits on the condition variable yet.
LEMMA CoveredInit == Init => WaitersCovered
BY DEF Init, Condvar, Waiters, WaitersCovered

\* A step that leaves the items, the wait set and every waiter as they are, and
\* takes no producer away from its notify.
WaitersKept ==
    /\ items' = items /\ condvar' = condvar
    /\ \A t \in Tasks :
          /\ pc'[t] \in {"wait", "release", "waiting"} =>
                pc'[t] = pc[t] /\ (runnable[t] => runnable'[t])
          /\ pc'[t] = "notify" => t \in Producers
    /\ \A p \in Producers : pc[p] \in {"unlock", "notify"} => pc'[p] \in {"unlock", "notify"}

\* Such a step keeps the waiters covered.
LEMMA StaysCovered == WaitersCovered /\ WaitersKept => WaitersCovered'
BY DEF WaitersCovered, WaitersKept

\* With notify_all every step keeps the waiters covered: the notify of a producer
\* wakes all of them.
LEMMA CoveredNext ==
    ASSUME MutexAssumption, Notify = "all"
    PROVE  MutexInv /\ WaitersCovered /\ [Next]_vars => WaitersCovered'
<1> SUFFICES ASSUME MutexInv, WaitersCovered, [Next]_vars PROVE WaitersCovered'
  OBVIOUS
<1>0. TasksShape /\ MutualExclusion /\ MutexShape /\ Tasks = Producers \cup Consumers
  BY DEF MutexInv, Tasks
<1>1. CASE UNCHANGED vars
  BY <1>1 DEF WaitersCovered
<1>2. ASSUME NEW t \in Tasks, lock(t) \/ try_lock(t) PROVE WaitersCovered'
  <2>1. PICK l \in {"lock", "held"} : pc' = [pc EXCEPT ![t] = l]
    BY <1>2 DEF lock, try_lock, Goto
  <2>2. pc[t] = "idle" /\ items' = items /\ condvar' = condvar
        /\ \A u \in Tasks \ {t} : runnable'[u] = runnable[u]
    BY <1>0, <1>2 DEF lock, try_lock, TasksShape
  <2>3. WaitersKept
    BY <1>0, <2>1, <2>2 DEF WaitersKept, WaitersCovered, TasksShape, Labels
  <2> QED BY <2>3, StaysCovered
<1>3. ASSUME NEW t \in Tasks, poll_lock(t) \/ wait_relock(t) PROVE WaitersCovered'
  <2>1. PICK l \in {"held", "lock", "relock"} : pc' = [pc EXCEPT ![t] = l]
    BY <1>3 DEF poll_lock, wait_relock, PollLock, Goto
  <2>2. pc[t] \in {"lock", "relock", "relocking"} /\ items' = items /\ condvar' = condvar
        /\ \A u \in Tasks \ {t} : runnable'[u] = runnable[u]
    BY <1>0, <1>3 DEF poll_lock, wait_relock, PollLock, Suspend, TasksShape
  <2>3. WaitersKept
    BY <1>0, <2>1, <2>2 DEF WaitersKept, WaitersCovered, TasksShape, Labels
  <2> QED BY <2>3, StaysCovered
<1>4. ASSUME NEW t \in Tasks, unlock(t) PROVE WaitersCovered'
  <2>1. PICK l \in {"idle", "notify"} : pc' = [pc EXCEPT ![t] = l] /\ (l = "notify" <=> t \in Producers)
    BY <1>4, Zenon DEF unlock, Goto
  <2>2. PICK woken : runnable' = [u \in Tasks |-> runnable[u] \/ u \in woken]
    BY <1>4 DEF unlock, Wake
  <2>3. pc[t] = "unlock" /\ items' = items /\ condvar' = condvar
    BY <1>4 DEF unlock
  <2>4. WaitersKept
    BY <1>0, <2>1, <2>2, <2>3 DEF WaitersKept, WaitersCovered, TasksShape, Labels
  <2> QED BY <2>4, StaysCovered
<1>5. ASSUME NEW t \in Tasks, produce(t) PROVE WaitersCovered'
  <2>1. pc' = [pc EXCEPT ![t] = "unlock"] /\ items' = items + 1 /\ condvar' = condvar
        /\ runnable' = runnable /\ t \in Producers /\ pc[t] = "held"
    BY <1>5 DEF produce, Goto
  <2>2. \A u \in Tasks : pc[u] \notin {"wait", "release"}
    BY <1>0, <2>1 DEF MutualExclusion, Holding
  <2>3. pc'[t] = "unlock"
    BY <1>0, <2>1 DEF TasksShape
  <2> QED BY <1>0, <2>1, <2>2, <2>3 DEF WaitersCovered, TasksShape, Labels
<1>6. ASSUME NEW t \in Tasks, notify(t) PROVE WaitersCovered'
  <2>1. /\ condvar' = [condvar EXCEPT !.parked = {}] /\ pc' = [pc EXCEPT ![t] = "idle"]
        /\ runnable' = [u \in Tasks |-> runnable[u] \/ u \in condvar.parked]
        /\ items' = items
    BY <1>6 DEF notify, notify_all, wake_all, Waking, Wake, Goto
  <2>2. condvar' = [order |-> condvar'.order, parked |-> condvar'.parked]
    BY <2>1 DEF WaitersCovered
  <2>3. \A u \in Tasks : pc'[u] \in {"release", "waiting"} => runnable'[u] /\ pc'[u] = pc[u]
    BY <1>0, <2>1, Zenon DEF WaitersCovered, TasksShape, Labels
  <2>4. \A u \in Tasks : (pc'[u] = "wait" => pc[u] = "wait") /\ (pc'[u] = "notify" => pc[u] = "notify")
    BY <1>0, <2>1 DEF TasksShape, Labels
  <2> QED BY <2>1, <2>2, <2>3, <2>4 DEF WaitersCovered
<1>7. ASSUME NEW t \in Tasks, wait_until(t) PROVE WaitersCovered'
  <2>1. t \in Consumers /\ pc[t] = "held" /\ condvar' = condvar /\ runnable' = runnable
    BY <1>7 DEF wait_until
  <2>2. \A u \in Tasks : pc[u] \notin {"wait", "release"}
    BY <1>0, <2>1 DEF MutualExclusion, Holding
  <2>3. CASE items > 0
    <3>1. items' = items - 1 /\ pc' = [pc EXCEPT ![t] = "unlock"]
      BY <1>7, <2>3 DEF wait_until, Goto
    <3>2. items' \in Nat
      BY <2>3, <3>1 DEF WaitersCovered
    <3> QED BY <1>0, <2>1, <2>2, <2>3, <3>1, <3>2 DEF WaitersCovered, TasksShape, Labels
  <2>4. CASE ~(items > 0)
    <3>1. items' = items /\ pc' = [pc EXCEPT ![t] = "wait"] /\ items = 0
      BY <1>7, <2>4 DEF wait_until, Goto, WaitersCovered
    <3> QED BY <1>0, <2>1, <2>2, <3>1 DEF WaitersCovered, TasksShape, Labels
  <2> QED BY <2>3, <2>4
<1>8. ASSUME NEW t \in Tasks, wait_init(t) PROVE WaitersCovered'
  <2>1. /\ pc' = [pc EXCEPT ![t] = "release"] /\ items' = items /\ pc[t] = "wait"
        /\ runnable' = [runnable EXCEPT ![t] = FALSE]
    BY <1>8 DEF wait_init, Goto, Suspend
  <2>2. PICK o : condvar' = [order |-> o, parked |-> condvar.parked \cup {t}]
    BY <1>8, Zenon DEF wait_init, park
  <2> QED BY <1>0, <2>1, <2>2 DEF WaitersCovered, TasksShape, Labels
<1>9. ASSUME NEW t \in Tasks, wait_release(t) PROVE WaitersCovered'
  <2>1. PICK woken : runnable' = [u \in Tasks |-> runnable[u] \/ u \in woken]
    BY <1>9 DEF wait_release, Wake
  <2>2. pc' = [pc EXCEPT ![t] = "waiting"] /\ items' = items /\ pc[t] = "release" /\ condvar' = condvar
    BY <1>9 DEF wait_release, Goto
  <2>3. items = 0
    BY <2>2 DEF WaitersCovered
  <2> QED BY <1>0, <2>1, <2>2, <2>3 DEF WaitersCovered, TasksShape, Labels
<1>10. ASSUME NEW t \in Tasks, wait_notified(t) \/ (cancel(t) /\ pc[t] = "waiting") PROVE WaitersCovered'
  <2>1. PICK l \in {"relocking", "idle"} : pc' = [pc EXCEPT ![t] = l]
    BY <1>10 DEF wait_notified, cancel, Goto
  <2>2. condvar' = unpark(condvar, t) /\ items' = items /\ runnable' = runnable /\ pc[t] = "waiting"
    BY <1>10 DEF wait_notified, cancel
  <2>3. PICK o : condvar' = [order |-> o, parked |-> condvar.parked \ {t}]
    BY <2>2, Zenon DEF unpark
  <2> QED BY <1>0, <2>1, <2>2, <2>3 DEF WaitersCovered, TasksShape, Labels
<1>11. ASSUME NEW t \in Tasks, cancel(t), pc[t] # "waiting" PROVE WaitersCovered'
  <2>1. pc' = [pc EXCEPT ![t] = "idle"] /\ pc[t] \in {"lock", "relock"}
        /\ items' = items /\ condvar' = condvar /\ runnable' = runnable
    BY <1>11 DEF cancel, Goto, Suspended
  <2>2. WaitersKept
    BY <1>0, <2>1 DEF WaitersKept, WaitersCovered, TasksShape, Labels
  <2> QED BY <2>2, StaysCovered
<1>12. ASSUME NEW t \in Tasks, spurious(t) PROVE WaitersCovered'
  <2>1. WaitersKept
    BY <1>0, <1>12 DEF spurious, WaitersKept, WaitersCovered, TasksShape
  <2> QED BY <2>1, StaysCovered
<1> QED
  BY <1>1, <1>2, <1>3, <1>4, <1>5, <1>6, <1>7, <1>8, <1>9, <1>10, <1>11, <1>12 DEF Next, Step

\* With notify_all no consumer is left asleep beside an item when everything
\* has come to rest, whatever futures were dropped, notified ones included.
THEOREM ConsumersAreWoken ==
    ASSUME MutexAssumption, Notify = "all"
    PROVE  Spec => []NoStrandedConsumer
<1>1. MutexInv /\ WaitersCovered => NoStrandedConsumer
  BY DEF WaitersCovered, NoStrandedConsumer, Quiet, Suspended, Tasks
<1> QED BY <1>1, MutexInit, MutexNext, CoveredInit, CoveredNext, PTL DEF Spec

-----------------------------------------------------------------------------
\* RwLock (Read::poll, Write::poll and the drops of futures and guards): a write
\* guard excludes every other guard, and the counters agree with the guards.
THEOREM WritersExclude == RwSpec => []ReadersXorWriter
<1>1. RwInv => ReadersXorWriter
  BY DEF RwInv
<1> QED BY <1>1, RwInvInit, RwInvNext, PTL DEF RwSpec

\* The wake-ups of RwLock and Barrier (wake_all in the guards' drops and in
\* BarrierWait::poll) leave nobody behind whose wait is over, whatever futures were
\* dropped.
THEOREM WaitersAreWoken == RwSpec /\ BarrierSpec => []NobodyStranded
<1>1. RwInv => NoStrandedUser
  BY DEF RwInv, RwSleepers, NoStrandedUser
<1>2. GroupInv => NoStrandedParticipant
  BY DEF GroupInv, GroupSleepers, NoStrandedParticipant
<1>3. NoStrandedUser /\ NoStrandedParticipant => NobodyStranded
  BY DEF NobodyStranded
<1> QED
  BY <1>1, <1>2, <1>3, RwInvInit, RwInvNext, GroupInvInit, GroupInvNext, PTL
  DEF RwSpec, BarrierSpec

\* BarrierWait::poll ends a generation when n participants came, those dropped while
\* they waited included, and every generation that is over had one leader.
THEOREM BarrierTripsWhenFull == BarrierSpec => TripsWhenFull
<1>1. GroupInv /\ [BarrierNext]_barrierVars => [TripStep /\ OneLeader']_barrierVars
  BY GroupInvNext DEF GroupInv
<1> QED BY <1>1, GroupInvInit, GroupInvNext, PTL DEF BarrierSpec, TripsWhenFull

=============================================================================
