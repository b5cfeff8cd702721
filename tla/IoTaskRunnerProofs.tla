------------------------- MODULE IoTaskRunnerProofs -------------------------
(***************************************************************************)
(* Proofs about IoTaskRunner, for any tasks, delays, callers and timer     *)
(* resolution: its types, that shutdown() returns only when the IO thread  *)
(* is over, and that the loop misses no wakeup and runs no delayed task    *)
(* early.                                                                  *)
(***************************************************************************)
EXTENDS IoTaskRunner, TLAPS, FiniteSetTheorems, WellFoundedInduction

Labels == {"idle", "deadline", "push", "schedule_work", "quit", "quit_wake", "take", "join", "closed"}

Types ==
    /\ tasks \in Seq(Tasks \ DelayedTasks)
    /\ delayed_tasks \subseteq DelayedTasks
    /\ running \in Tasks \cup {NoTask}
    /\ io_pc = "run" => running \in Tasks
    /\ deadline \in [Tasks -> Nat]
    /\ now \in Nat
    /\ next_deadline \in Nat \cup {Never}
    /\ wait_until \in Nat \cup {Never}
    /\ pc \in [Callers -> Labels]
    /\ item \in [Callers -> Tasks \cup {NoTask}]
    /\ \A th \in Callers : pc[th] = "deadline" => item[th] \in DelayedTasks
    /\ \A th \in Callers : pc[th] = "push" => item[th] \in Tasks

-----------------------------------------------------------------------------
(* Facts about the library's operators.                                    *)

\* Of two numbers Min is at most either.
LEMMA MinOfTwo ==
    ASSUME NEW a \in Nat, NEW b \in Nat
    PROVE  Min({a, b}) \in Nat /\ Min({a, b}) <= b
<1>1. \E x \in {a, b} : \A y \in {a, b} : x =< y
  <2>1. CASE a <= b
    BY <2>1
  <2>2. CASE ~(a <= b)
    BY <2>2
  <2> QED BY <2>1, <2>2
<1>2. Min({a, b}) \in {a, b} /\ \A y \in {a, b} : Min({a, b}) =< y
  BY <1>1 DEF Min
<1> QED BY <1>2

\* Of two numbers Max is at least either.
LEMMA MaxOfTwo ==
    ASSUME NEW a \in Nat, NEW b \in Nat
    PROVE  Max({a, b}) \in Nat /\ Max({a, b}) >= a /\ Max({a, b}) >= b
<1>1. \E x \in {a, b} : \A y \in {a, b} : x >= y
  <2>1. CASE a <= b
    BY <2>1
  <2>2. CASE ~(a <= b)
    BY <2>2
  <2> QED BY <2>1, <2>2
<1>2. Max({a, b}) \in {a, b} /\ \A y \in {a, b} : Max({a, b}) >= y
  BY <1>1 DEF Max
<1> QED BY <1>2

\* A set of naturals that is not empty has a least element, and Min is it.
LEMMA MinIsLeast ==
    ASSUME NEW S \in SUBSET Nat, S # {}
    PROVE  Min(S) \in S /\ \A y \in S : Min(S) <= y
<1> DEFINE Less == {ss \in Nat \X Nat : ss[1] < ss[2]}
<1>1. IsWellFoundedOn(Less, Nat)
  BY NatLessThanWellFounded DEF OpToRel
<1>2. PICK x \in S : \A y \in S : ~(<<y, x>> \in Less)
  <2> HIDE DEF Less
  <2> QED BY <1>1, WFMin, Zenon
<1>3. ASSUME NEW y \in S
      PROVE  x =< y
  <2>1. x \in Nat /\ y \in Nat /\ ~(<<y, x>> \in Less)
    BY <1>2
  <2>2. <<y, x>> \in Nat \X Nat
    BY <2>1
  <2>3. ~(<<y, x>>[1] < <<y, x>>[2])
    BY <2>1, <2>2, Zenon
  <2> QED BY <2>1, <2>3
<1> QED BY <1>3, Zenon DEF Min

\* Whole milliseconds, rounded down, are no longer than the time they stand for.
LEMMA RoundedDown ==
    ASSUME NEW x \in Nat, NEW r \in Nat \ {0}, NEW m \in Nat, m <= x \div r
    PROVE  r * m <= x
OBVIOUS

\* The timeout is a number of milliseconds, none of it beyond the deadline.
LEMMA TimeoutIsNat ==
    ASSUME NEW d \in Nat, now \in Nat
    PROVE  /\ TimeoutMillis(d) \in Nat
           /\ now + Res * TimeoutMillis(d) <= now \/ now + Res * TimeoutMillis(d) <= d
<1>1. CASE d <= now
  BY <1>1, IoRunnerAssumption DEF TimeoutMillis
<1>2. CASE ~(d <= now)
  <2> DEFINE m == Min({IntMax, (d - now) \div Res})
  <2>1. d - now \in Nat /\ (d - now) \div Res \in Nat
    BY <1>2, IoRunnerAssumption
  <2>2. m \in Nat /\ m <= (d - now) \div Res
    BY <2>1, MinOfTwo, IoRunnerAssumption
  <2>3. TimeoutMillis(d) = m
    BY <1>2 DEF TimeoutMillis
  <2> HIDE DEF m
  <2>4. Res * m <= d - now
    BY <2>1, <2>2, RoundedDown, IoRunnerAssumption
  <2>5. Res * m \in Nat
    BY <2>2, IoRunnerAssumption
  <2> QED BY <2>2, <2>3, <2>4, <2>5
<1> QED BY <1>1, <1>2

\* The tasks that a callback posts are a sequence of tasks, empty if there are none.
LEMMA PostsOfCallback ==
    ASSUME NEW S, IsFiniteSet(S), NEW s \in SetToSeqs(S)
    PROVE  s \in Seq(S) /\ (S = {} => s = <<>>)
<1>1. Cardinality(S) \in Nat
  BY FS_CardinalityType
<1>2. s \in [1..Cardinality(S) -> S]
  BY DEF SetToSeqs
<1>3. s \in Seq(S)
  BY <1>1, <1>2
<1>4. S = {} => s = <<>>
  BY <1>1, <1>2, <1>3, FS_EmptySet
<1> QED BY <1>3, <1>4

-----------------------------------------------------------------------------
(* Types.                                                                  *)

\* The types hold of a new runner.
LEMMA TypesInit == Init => Types
BY IoRunnerAssumption DEF Init, PumpInit, Types, Labels, Never

\* What a callback posts leaves the queue a queue of immediate tasks.
LEMMA CallbackTypes ==
    ASSUME Types, run_callback
    PROVE  tasks' \in Seq(Tasks \ DelayedTasks)
<1> DEFINE mine == Spawns[running] \ posted
<1>1. mine \subseteq Tasks \ DelayedTasks /\ IsFiniteSet(mine)
  <2>1. mine \subseteq Tasks \ DelayedTasks
    BY IoRunnerAssumption DEF Types, run_callback
  <2> QED BY <2>1, FS_Subset, IoRunnerAssumption
<1>2. CASE tasks' = tasks
  BY <1>2 DEF Types
<1>3. CASE tasks' # tasks
  <2>1. PICK s \in SetToSeqs(mine) : tasks' = tasks \o s
    BY <1>3, Zenon DEF run_callback
  <2>2. s \in Seq(mine)
    BY <1>1, <2>1, PostsOfCallback
  <2>3. s \in Seq(Tasks \ DelayedTasks)
    BY <1>1, <2>2
  <2> HIDE DEF mine
  <2> QED BY <2>1, <2>3 DEF Types
<1> QED BY <1>2, <1>3

\* Every step of the runner and its callers keeps the types.
LEMMA TypesNext ==
    ASSUME Types, [Next]_vars
    PROVE  Types'
<1> USE DEF Types, Labels
<1>1. ASSUME NEW th \in Callers, post_check(th)
      PROVE  Types'
  BY <1>1, Zenon DEF post_check, Goto, pumpVars, queueVars, handleVars, loopVars
<1>2. ASSUME NEW th \in Callers, post_deadline(th)
      PROVE  Types'
  BY <1>2, IoRunnerAssumption DEF post_deadline, Goto, pumpVars, handleVars, loopVars
<1>3. ASSUME NEW th \in Callers, post_push(th)
      PROVE  Types'
  <2>1. item[th] \in Tasks
    BY <1>3 DEF post_push
  <2>2. tasks' \in Seq(Tasks \ DelayedTasks) /\ delayed_tasks' \subseteq DelayedTasks
    <3>1. CASE item[th] \in DelayedTasks
      BY <1>3, <3>1 DEF post_push
    <3>2. CASE item[th] \notin DelayedTasks
      <4>1. tasks' = Append(tasks, item[th]) /\ delayed_tasks' = delayed_tasks
        BY <1>3, <3>2 DEF post_push
      <4>2. item[th] \in Tasks \ DelayedTasks
        BY <2>1, <3>2
      <4> QED BY <4>1, <4>2
    <3> QED BY <3>1, <3>2
  <2> QED BY <1>3, <2>2 DEF post_push, Goto, pumpVars, handleVars, loopVars
<1>4. ASSUME NEW th \in Callers, post_wake(th)
      PROVE  Types'
  BY <1>4 DEF post_wake, Goto, queueVars, handleVars, loopVars
<1>5. ASSUME NEW th \in Callers, shutdown_store(th)
      PROVE  Types'
  BY <1>5 DEF shutdown_store, Goto, pumpVars, queueVars, loopVars
<1>6. ASSUME NEW th \in Callers, CloseStep(th)
      PROVE  Types'
  <2>1. CASE quit_store(th)
    BY <2>1, Zenon DEF quit_store, Goto, queueVars, handleVars, loopVars
  <2>2. CASE shutdown_take(th)
    BY <2>2 DEF shutdown_take, Goto, pumpVars, queueVars, loopVars
  <2>3. CASE shutdown_join(th)
    BY <2>3 DEF shutdown_join, Goto, pumpVars, queueVars, loopVars
  <2> QED BY <1>6, <2>1, <2>2, <2>3 DEF CloseStep
<1>7. ASSUME NEW th \in Callers, release(th)
      PROVE  Types'
  BY <1>7 DEF release, pumpVars, queueVars, loopVars, callerVars
<1>8. CASE do_work_next
  <2>1. /\ tasks' \in Seq(Tasks \ DelayedTasks)
        /\ running' \in Tasks \cup {NoTask}
        /\ delayed_tasks' \subseteq DelayedTasks
        /\ io_pc' = "run" => running' \in Tasks
    <3>1. CASE io_pc = "work"
      <4>1. CASE tasks = <<>>
        BY <1>8, <3>1, <4>1 DEF do_work_next, do_work_pop
      <4>2. CASE tasks # <<>>
        <5>1. /\ running' = Head(tasks) /\ tasks' = Tail(tasks)
              /\ delayed_tasks' = delayed_tasks
          BY <1>8, <3>1, <4>2 DEF do_work_next, do_work_pop, PoppedTasks
        <5>2. Head(tasks) \in Tasks /\ Tail(tasks) \in Seq(Tasks \ DelayedTasks)
          BY <4>2
        <5> QED BY <5>1, <5>2
      <4> QED BY <4>1, <4>2
    <3>2. CASE io_pc = "delayed"
      BY <1>8, <3>2, IoRunnerAssumption, Zenon DEF do_work_next, do_work_pop
    <3> QED BY <1>8, <3>1, <3>2 DEF do_work_next, do_work_pop
  <2> QED BY <1>8, <2>1 DEF do_work_next, handleVars, callerVars
<1>9. CASE run_callback
  BY <1>9, CallbackTypes, Zenon DEF run_callback, handleVars
<1>10. CASE do_work_peek
  <2>1. next_deadline' \in Nat \cup {Never}
    <3>1. CASE delayed_tasks = {}
      BY <1>10, <3>1 DEF do_work_peek
    <3>2. CASE delayed_tasks # {}
      <4> DEFINE S == {deadline[t] : t \in delayed_tasks}
      <4>1. S \in SUBSET Nat /\ S # {}
        BY <3>2, IoRunnerAssumption
      <4>2. next_deadline' = Min(S)
        BY <1>10, <3>2 DEF do_work_peek
      <4> HIDE DEF S
      <4> QED BY <4>1, <4>2, MinIsLeast, Zenon
    <3> QED BY <3>1, <3>2
  <2> QED BY <1>10, <2>1 DEF do_work_peek, queueVars, handleVars, callerVars
<1>11. CASE pump_check_quit
  <2>1. wait_until' \in Nat \cup {Never}
    <3>1. CASE wait_until' = Never
      BY <3>1
    <3>2. CASE wait_until' # Never
      <4>1. next_deadline \in Nat /\ wait_until' = now + Res * TimeoutMillis(next_deadline)
        BY <1>11, <3>2 DEF pump_check_quit
      <4>2. TimeoutMillis(next_deadline) \in Nat
        BY <4>1, TimeoutIsNat
      <4> QED BY <4>1, <4>2, IoRunnerAssumption
    <3> QED BY <3>1, <3>2
  <2> QED BY <1>11, <2>1 DEF pump_check_quit, check_quit, queueVars, handleVars, callerVars
<1>12. CASE pump_wait \/ pump_interrupted \/ pump_events \/ drive_end
  BY <1>12 DEF pump_wait, epoll_wait, pump_interrupted, pump_events, drain_wake_fd, end_of_batch,
    drive_end, queueVars, handleVars, loopVars, callerVars
<1>13. CASE Tick
  BY <1>13, IoRunnerAssumption DEF Tick, pumpVars, queueVars, handleVars, loopVars, callerVars
<1>14. CASE UNCHANGED vars
  BY <1>14 DEF vars, pumpVars, queueVars, handleVars, loopVars, callerVars
<1> HIDE DEF Types, Labels
<1>15. CASE \E th \in Callers : PostStep(th) \/ shutdown_store(th) \/ CloseStep(th) \/ release(th)
  BY <1>1, <1>2, <1>3, <1>4, <1>5, <1>6, <1>7, <1>15, Zenon DEF PostStep, PostGoesOn
<1>16. CASE IoStep
  BY <1>8, <1>9, <1>10, <1>11, <1>12, <1>16, Zenon DEF IoStep
<1> QED BY <1>12, <1>13, <1>14, <1>15, <1>16, Zenon DEF Next

-----------------------------------------------------------------------------
(* shutdown(): the handle's slot, its lock and the IO thread.              *)

\* The handle is in its slot, or one caller joins under the lock, or the IO
\* thread is over; who returned was the one that joined or came after it.
Joined ==
    /\ \A th \in Callers : pc[th] = "join" <=> handle_lock = th
    /\ thread_handle => handle_lock = NoThread /\ \A th \in Callers : pc[th] # "closed"
    /\ ~thread_handle /\ handle_lock = NoThread => io_pc = "done"
    /\ QuietAfterShutdown

\* A new runner has its handle in the slot.
LEMMA JoinedInit == Init => Joined
BY IoRunnerAssumption DEF Init, Joined, QuietAfterShutdown

\* shutdown() takes the handle and joins under the lock, so no other caller finds
\* the slot empty before the thread is over.
LEMMA JoinedNext ==
    ASSUME Types, Joined, [Next]_vars
    PROVE  Joined'
<1> USE IoRunnerAssumption DEF Types, Labels, Joined, QuietAfterShutdown
<1>1. ASSUME NEW th \in Callers, PostStep(th)
      PROVE  Joined'
  <2>1. UNCHANGED <<handle_lock, thread_handle, io_pc>>
    BY <1>1 DEF PostStep, PostGoesOn, post_check, post_deadline, post_push, post_wake,
      pumpVars, handleVars
  <2>2. pc[th] # "join" /\ (UNCHANGED pc \/ \E l \in Labels \ {"join", "closed"} : pc' = [pc EXCEPT ![th] = l])
    BY <1>1 DEF PostStep, PostGoesOn, post_check, post_deadline, post_push, post_wake, Goto
  <2> QED BY <2>1, <2>2
<1>2. ASSUME NEW th \in Callers, shutdown_store(th) \/ quit_store(th)
      PROVE  Joined'
  <2>1. UNCHANGED <<handle_lock, thread_handle, io_pc>>
    BY <1>2 DEF shutdown_store, quit_store, pumpVars, handleVars
  <2>2. pc[th] # "join" /\ \E l \in Labels \ {"join", "closed"} : pc' = [pc EXCEPT ![th] = l]
    BY <1>2 DEF shutdown_store, quit_store, Goto
  <2> QED BY <2>1, <2>2
<1>3. ASSUME NEW th \in Callers, shutdown_take(th)
      PROVE  Joined'
  <2>1. CASE thread_handle
    BY <1>3, <2>1 DEF shutdown_take, Goto, pumpVars
  <2>2. CASE ~thread_handle
    BY <1>3, <2>2 DEF shutdown_take, Goto, pumpVars
  <2> QED BY <2>1, <2>2
<1>4. ASSUME NEW th \in Callers, shutdown_join(th)
      PROVE  Joined'
  BY <1>4 DEF shutdown_join, Goto, pumpVars
<1>5. ASSUME NEW th \in Callers, release(th)
      PROVE  Joined'
  BY <1>5 DEF release, pumpVars, callerVars
<1>6. CASE IoStep \/ pump_interrupted
  <2>1. UNCHANGED <<handle_lock, thread_handle, pc>>
    BY <1>6, Zenon DEF IoStep, do_work_next, run_callback, do_work_peek, pump_check_quit, pump_wait,
      pump_interrupted, pump_events, drive_end, handleVars, callerVars
  <2>2. io_pc # "done"
    BY <1>6, ZenonT(30) DEF IoStep, do_work_next, do_work_pop, run_callback, do_work_peek, pump_check_quit,
      check_quit, pump_wait, epoll_wait, pump_interrupted, pump_events, drain_wake_fd,
      end_of_batch, drive_end
  <2> QED BY <2>1, <2>2, Zenon
<1>7. CASE Tick
  BY <1>7 DEF Tick, pumpVars, handleVars, callerVars
<1>8. CASE UNCHANGED vars
  BY <1>8 DEF vars, pumpVars, handleVars, callerVars
<1> HIDE IoRunnerAssumption DEF Types, Labels, Joined, QuietAfterShutdown
<1> QED BY <1>1, <1>2, <1>3, <1>4, <1>5, <1>6, <1>7, <1>8, ZenonT(30) DEF Next, CloseStep

\* When a call of shutdown() has returned, the IO thread is over: the handle's
\* lock is held over the join, so a later caller waits for the one that joins.
THEOREM ShutdownWaitsForTheLoop == Spec => []QuietAfterShutdown
<1>1. Init => Types /\ Joined
  BY TypesInit, JoinedInit
<1>2. Types /\ Joined /\ [Next]_vars => (Types /\ Joined)'
  BY TypesNext, JoinedNext
<1>3. Joined => QuietAfterShutdown
  BY DEF Joined
<1> QED BY <1>1, <1>2, <1>3, PTL DEF Spec

-----------------------------------------------------------------------------
(* The deadline of a delayed task is not written once the heap has it.     *)

Carries(th) == pc[th] \in {"deadline", "push"} /\ item[th] \in DelayedTasks

\* A delayed task is in one call of post_delayed_task, or in the heap, or
\* running; and what runs was due.
Owned ==
    /\ delayed_tasks \subseteq posted
    /\ running \in DelayedTasks => running \in posted
    /\ \A th \in Callers : Carries(th) =>
          item[th] \in posted /\ item[th] \notin delayed_tasks /\ item[th] # running
    /\ \A th, other \in Callers :
          Carries(th) /\ Carries(other) /\ item[th] = item[other] => th = other
    /\ NeverEarly

\* No delayed task is posted yet.
LEMMA OwnedInit == Init => Owned
BY IoRunnerAssumption, Zenon DEF Init, Owned, Carries, NeverEarly

\* A delayed task goes from post_delayed_task to the heap to the loop, one at a
\* time, and the loop takes due ones only.
LEMMA OwnedNext ==
    ASSUME Types, Owned, [Next]_vars
    PROVE  Owned'
<1> USE IoRunnerAssumption DEF Types, Labels, Owned, Carries, NeverEarly
<1>1. ASSUME NEW th \in Callers, post_check(th)
      PROVE  Owned'
  <2>1. PICK t \in Tasks \ posted :
           /\ posted' = posted \cup {t}
           /\ \/ UNCHANGED <<pc, item>>
              \/ /\ item' = [item EXCEPT ![th] = t]
                 /\ \E l \in Labels : pc' = [pc EXCEPT ![th] = l]
    BY <1>1 DEF post_check, Goto
  <2>2. UNCHANGED <<delayed_tasks, running, deadline, now>>
    BY <1>1 DEF post_check, queueVars, loopVars
  <2>3. \A other \in Callers \ {th} : pc'[other] = pc[other] /\ item'[other] = item[other]
    BY <2>1
  <2>4. item'[th] = t \/ (pc'[th] = pc[th] /\ item'[th] = item[th])
    BY <2>1
  <2>5. t \notin delayed_tasks /\ (t \in DelayedTasks => t # running)
    BY <2>1
  <2>6. ASSUME NEW a \in Callers, Carries(a)'
        PROVE  item'[a] \in posted' /\ item'[a] \notin delayed_tasks' /\ item'[a] # running'
    BY <2>1, <2>2, <2>3, <2>4, <2>5, <2>6
  <2>7. ASSUME NEW a \in Callers, NEW b \in Callers, Carries(a)', Carries(b)', item'[a] = item'[b]
        PROVE  a = b
    <3>1. ASSUME NEW c \in Callers \ {th}, Carries(c)'
          PROVE  Carries(c) /\ item'[c] = item[c] /\ item[c] # t
      BY <2>1, <2>3, <3>1
    <3>2. CASE a # th /\ b # th
      BY <2>7, <3>1, <3>2, ZenonT(30)
    <3>3. CASE a = th \/ b = th
      BY <2>4, <2>7, <3>1, <3>3
    <3> QED BY <3>2, <3>3
  <2> QED BY <2>1, <2>2, <2>6, <2>7
<1>2. ASSUME NEW th \in Callers, post_deadline(th)
      PROVE  Owned'
  <2>1. item[th] # running /\ item[th] \in Tasks /\ Carries(th)
    BY <1>2 DEF post_deadline
  <2>2. UNCHANGED <<delayed_tasks, running, posted, item, now>>
    BY <1>2 DEF post_deadline, loopVars
  <2>3. pc' = [pc EXCEPT ![th] = "push"] /\ pc[th] = "deadline"
    BY <1>2 DEF post_deadline, Goto
  <2>4. running \in DelayedTasks => deadline'[running] = deadline[running]
    BY <1>2, <2>1 DEF post_deadline
  <2> QED BY <2>2, <2>3, <2>4
<1>3. ASSUME NEW th \in Callers, post_push(th)
      PROVE  Owned'
  <2>1. UNCHANGED <<deadline, running, posted, now>>
    BY <1>3 DEF post_push, loopVars
  <2>2. /\ pc' = [pc EXCEPT ![th] = "schedule_work"] /\ item' = [item EXCEPT ![th] = NoTask]
        /\ pc[th] = "push"
    BY <1>3 DEF post_push, Goto
  <2>3. \/ delayed_tasks' = delayed_tasks
        \/ delayed_tasks' = delayed_tasks \cup {item[th]} /\ item[th] \in DelayedTasks
    BY <1>3 DEF post_push
  <2> QED BY <2>1, <2>2, <2>3
<1>4. ASSUME NEW th \in Callers, post_wake(th) \/ shutdown_store(th) \/ CloseStep(th) \/ release(th)
      PROVE  Owned'
  <2>1. UNCHANGED <<delayed_tasks, running, deadline, posted, item, now>>
    BY <1>4, ZenonT(30) DEF post_wake, shutdown_store, CloseStep, quit_store, shutdown_take, shutdown_join,
      release, queueVars, loopVars, callerVars
  <2>2. UNCHANGED pc \/ \E l \in Labels \ {"deadline", "push"} : pc' = [pc EXCEPT ![th] = l]
    BY <1>4, ZenonT(30) DEF post_wake, shutdown_store, CloseStep, quit_store, shutdown_take, shutdown_join,
      release, callerVars, Goto
  <2> QED BY <2>1, <2>2
<1>5. CASE do_work_next
  <2>1. UNCHANGED <<deadline, posted, pc, item, now>>
    BY <1>5, ZenonT(30) DEF do_work_next, callerVars
  <2>2. \/ UNCHANGED <<delayed_tasks, running>>
        \/ UNCHANGED delayed_tasks /\ running' \notin DelayedTasks
        \/ /\ running' \in delayed_tasks /\ deadline[running'] <= now
           /\ delayed_tasks' = delayed_tasks \ {running'}
    <3>1. CASE io_pc = "work"
      BY <1>5, <3>1 DEF do_work_next, do_work_pop
    <3>2. CASE io_pc = "delayed"
      BY <1>5, <3>2 DEF do_work_next, do_work_pop, IsFirst, HasDue
    <3> QED BY <1>5, <3>1, <3>2, Zenon DEF do_work_next, do_work_pop
  <2> QED BY <2>1, <2>2
<1>6. CASE run_callback
  BY <1>6 DEF run_callback
<1>7. CASE do_work_peek \/ pump_check_quit \/ pump_wait \/ pump_interrupted \/ pump_events \/ drive_end
  <2>1. UNCHANGED <<delayed_tasks, running, deadline, posted, pc, item, now>>
    BY <1>7, ZenonT(30) DEF do_work_peek, pump_check_quit, pump_wait, pump_interrupted, pump_events, drive_end,
      queueVars, loopVars, callerVars
  <2> QED BY <2>1, Zenon
<1>8. CASE Tick
  BY <1>8 DEF Tick, queueVars, loopVars, callerVars
<1>9. CASE UNCHANGED vars
  BY <1>9 DEF vars, queueVars, loopVars, callerVars
<1> HIDE IoRunnerAssumption DEF Types, Labels, Owned, Carries, NeverEarly
<1> QED
  BY <1>1, <1>2, <1>3, <1>4, <1>5, <1>6, <1>7, <1>8, <1>9, Zenon DEF Next, PostStep, PostGoesOn, IoStep

-----------------------------------------------------------------------------
(* What the loop has looked at, and what came after it looked.             *)

Signalled == wake \/ \E th \in Callers : pc[th] \in {"schedule_work", "quit_wake"}

\* The loop has seen the queue of immediate tasks empty on this turn.
PastTasks ==
    \/ io_pc \in {"delayed", "peek", "quit?", "wait"}
    \/ io_pc = "run" /\ running \in DelayedTasks

\* What the loop has passed is as it saw it, or it will be woken.
Seen ==
    \/ Signalled
    \/ /\ PastTasks => tasks = <<>>
       /\ io_pc = "quit?" => \A t \in delayed_tasks : next_deadline # Never /\ next_deadline <= deadline[t]
       /\ io_pc = "wait" => ~quit
       /\ io_pc = "wait" =>
             \A t \in delayed_tasks :
                 wait_until # Never /\ (wait_until <= now \/ wait_until <= deadline[t])

\* The loop starts with nothing passed.
LEMMA SeenInit == Init => Seen
BY Zenon DEF Init, PumpInit, Seen, PastTasks

\* What the loop passed changes only by a post or quit, which signals, or by the
\* loop itself.
LEMMA SeenNext ==
    ASSUME Types, Owned, Seen, [Next]_vars
    PROVE  Seen'
<1> USE IoRunnerAssumption DEF Types, Labels, Seen, Signalled, PastTasks
<1>1. ASSUME NEW th \in Callers, post_check(th)
      PROVE  Seen'
  <2>1. UNCHANGED <<wake, quit, io_pc, tasks, delayed_tasks, deadline, next_deadline, wait_until, running, now>>
    BY <1>1 DEF post_check, pumpVars, queueVars, loopVars
  <2>2. pc[th] = "idle" /\ \A other \in Callers \ {th} : pc'[other] = pc[other]
    BY <1>1 DEF post_check, Goto
  <2> QED BY <2>1, <2>2, ZenonT(30)
<1>2. ASSUME NEW th \in Callers, post_deadline(th)
      PROVE  Seen'
  <2>1. UNCHANGED <<wake, quit, io_pc, tasks, delayed_tasks, next_deadline, wait_until, running, now>>
    BY <1>2 DEF post_deadline, pumpVars, loopVars
  <2>2. pc[th] = "deadline" /\ \A other \in Callers \ {th} : pc'[other] = pc[other]
    BY <1>2 DEF post_deadline, Goto
  <2>3. \A t \in delayed_tasks : deadline'[t] = deadline[t]
    BY <1>2 DEF post_deadline, Owned, Carries
  <2> QED BY <2>1, <2>2, <2>3
<1>3. ASSUME NEW th \in Callers, post_push(th)
      PROVE  Seen'
  BY <1>3 DEF post_push, Goto
<1>4. ASSUME NEW th \in Callers, post_wake(th)
      PROVE  Seen'
  BY <1>4 DEF post_wake, schedule_work
<1>5. ASSUME NEW th \in Callers, quit_store(th)
      PROVE  Seen'
  BY <1>5 DEF quit_store, schedule_work, Goto
<1>6. ASSUME NEW th \in Callers, shutdown_store(th) \/ shutdown_take(th) \/ shutdown_join(th)
      PROVE  Seen'
  <2>1. UNCHANGED <<wake, quit, io_pc, tasks, delayed_tasks, deadline, next_deadline, wait_until, running, now>>
    BY <1>6 DEF shutdown_store, shutdown_take, shutdown_join, pumpVars, queueVars, loopVars
  <2>2. /\ pc[th] \in {"idle", "take", "join"}
        /\ \A other \in Callers \ {th} : pc'[other] = pc[other]
    BY <1>6 DEF shutdown_store, shutdown_take, shutdown_join, Goto
  <2> QED BY <2>1, <2>2, ZenonT(30)
<1>7. ASSUME NEW th \in Callers, release(th)
      PROVE  Seen'
  BY <1>7, Zenon DEF release, pumpVars, queueVars, loopVars, callerVars
<1>8. CASE do_work_next
  <2>1. UNCHANGED <<wake, pc>>
    BY <1>8, ZenonT(30) DEF do_work_next, callerVars
  <2>2. CASE io_pc = "work"
    BY <1>8, <2>1, <2>2 DEF do_work_next, do_work_pop
  <2>3. CASE io_pc = "delayed"
    BY <1>8, <2>1, <2>3 DEF do_work_next, do_work_pop
  <2> QED BY <1>8, <2>2, <2>3, ZenonT(30) DEF do_work_next, do_work_pop
<1>9. CASE run_callback
  <2>1. UNCHANGED <<quit, pc>> /\ (wake => wake') /\ io_pc = "run"
    BY <1>9, ZenonT(30) DEF run_callback
  <2>2. CASE Signalled
    BY <2>1, <2>2
  <2>3. CASE ~Signalled /\ io_pc' = "delayed"
    <3> DEFINE mine == Spawns[running] \ posted
    <3>1. running \in DelayedTasks /\ tasks = <<>>
      BY <1>9, <2>1, <2>3, Zenon DEF run_callback
    <3>2. CASE mine # {} /\ ~shutdown
      BY <1>9, <3>2, ZenonT(30) DEF run_callback
    <3>3. CASE shutdown
      BY <1>9, <2>3, <3>1, <3>3 DEF run_callback
    <3>4. CASE mine = {} /\ ~shutdown
      <4>1. PICK posts \in SetToSeqs(mine) : tasks' = tasks \o posts
        BY <1>9, <3>4, ZenonT(30) DEF run_callback
      <4> HIDE DEF mine
      <4>2. IsFiniteSet(mine)
        BY <3>4, FS_EmptySet
      <4>3. posts = <<>>
        BY <3>4, <4>1, <4>2, PostsOfCallback
      <4>4. tasks' = <<>>
        BY <3>1, <4>1, <4>3
      <4> QED BY <2>3, <4>4, Zenon
    <3> QED BY <3>2, <3>3, <3>4
  <2>4. CASE io_pc' # "delayed"
    BY <1>9, <2>4, Zenon DEF run_callback
  <2> QED BY <2>2, <2>3, <2>4, Zenon
<1>10. CASE do_work_peek
  <2>1. UNCHANGED <<wake, pc, tasks, delayed_tasks, deadline>> /\ io_pc = "peek" /\ io_pc' = "quit?"
    BY <1>10 DEF do_work_peek, queueVars, callerVars
  <2>2. \A t \in delayed_tasks : next_deadline' # Never /\ next_deadline' <= deadline[t]
    <3> DEFINE S == {deadline[t] : t \in delayed_tasks}
    <3>1. ASSUME NEW t \in delayed_tasks
          PROVE  next_deadline' # Never /\ next_deadline' <= deadline[t]
      <4>1. S \in SUBSET Nat /\ S # {} /\ deadline[t] \in S
        OBVIOUS
      <4>2. next_deadline' = Min(S)
        BY <1>10 DEF do_work_peek
      <4> HIDE DEF S
      <4>3. Min(S) \in Nat /\ Min(S) <= deadline[t]
        BY <4>1, MinIsLeast, ZenonT(30)
      <4> QED BY <4>2, <4>3 DEF Never
    <3> QED BY <3>1
  <2> QED BY <2>1, <2>2, ZenonT(30)
<1>11. CASE pump_check_quit
  <2>1. UNCHANGED <<wake, quit, pc, tasks, delayed_tasks, deadline, now>> /\ io_pc = "quit?"
    BY <1>11, Zenon DEF pump_check_quit, check_quit, queueVars, callerVars
  <2>2. CASE quit
    BY <1>11, <2>1, <2>2, Zenon DEF pump_check_quit, check_quit
  <2>3. CASE ~quit /\ ~Signalled
    <3>1. io_pc' = "wait" /\ tasks = <<>>
      BY <1>11, <2>1, <2>3, ZenonT(30) DEF pump_check_quit, check_quit
    <3>2. ASSUME NEW t \in delayed_tasks
          PROVE  wait_until' # Never /\ (wait_until' <= now \/ wait_until' <= deadline[t])
      <4>1. next_deadline \in Nat /\ next_deadline <= deadline[t] /\ next_deadline # Never
        BY <2>1, <2>3, Zenon
      <4>2. wait_until' = now + Res * TimeoutMillis(next_deadline)
        BY <1>11, <2>3, <4>1, ZenonT(30) DEF pump_check_quit
      <4>3. /\ TimeoutMillis(next_deadline) \in Nat
            /\ wait_until' <= now \/ wait_until' <= next_deadline
        BY <4>1, <4>2, TimeoutIsNat, ZenonT(30)
      <4>4. wait_until' \in Nat
        BY <4>2, <4>3
      <4>5. deadline[t] \in Nat
        OBVIOUS
      <4> QED BY <4>1, <4>3, <4>4, <4>5 DEF Never
    <3> QED BY <2>1, <2>3, <3>1, <3>2, Zenon
  <2>4. CASE Signalled
    BY <2>1, <2>4
  <2> QED BY <2>2, <2>3, <2>4
<1>12. CASE pump_wait \/ pump_interrupted \/ pump_events \/ drive_end
  <2>1. io_pc' \in {"events", "work", "done"}
    BY <1>12 DEF pump_wait, epoll_wait, pump_interrupted, pump_events, drain_wake_fd,
      end_of_batch, drive_end
  <2> QED BY <2>1, ZenonT(30)
<1>13. CASE Tick
  BY <1>13 DEF Tick, pumpVars, queueVars, loopVars, callerVars
<1>14. CASE UNCHANGED vars
  BY <1>14 DEF vars, pumpVars, queueVars, loopVars, callerVars
<1> HIDE IoRunnerAssumption DEF Types, Labels, Seen, Signalled, PastTasks
<1>15. CASE \E th \in Callers : PostStep(th) \/ shutdown_store(th) \/ CloseStep(th) \/ release(th)
  BY <1>1, <1>2, <1>3, <1>4, <1>5, <1>6, <1>7, <1>15, Zenon DEF PostStep, PostGoesOn, CloseStep
<1>16. CASE IoStep
  BY <1>8, <1>9, <1>10, <1>11, <1>12, <1>16, Zenon DEF IoStep
<1> QED BY <1>12, <1>13, <1>14, <1>15, <1>16, Zenon DEF Next

\* A sleep set from what the loop saw ends in time for every delayed task.
LEMMA SeenIsEnough ==
    ASSUME Types, Seen
    PROVE  NoMissedWake
<1> SUFFICES ASSUME io_pc = "wait", Unseen, ~Signalled
             PROVE  FALSE
  BY DEF NoMissedWake, Signalled
<1>1. PICK t \in delayed_tasks : wait_until = Never \/ wait_until > Max({now, deadline[t]})
  BY Zenon DEF Seen, PastTasks, Unseen
<1>2. deadline[t] \in Nat /\ now \in Nat /\ wait_until # Never /\ wait_until \in Nat
  BY IoRunnerAssumption DEF Types, Seen
<1>3. wait_until <= now \/ wait_until <= deadline[t]
  BY DEF Seen
<1>4. Max({now, deadline[t]}) \in Nat /\ Max({now, deadline[t]}) >= now /\ Max({now, deadline[t]}) >= deadline[t]
  BY <1>2, MaxOfTwo
<1> QED BY <1>1, <1>2, <1>3, <1>4

\* The loop never sleeps past work it has not seen without a wakeup on its way,
\* and never runs a delayed task before its deadline, for any clock resolution.
THEOREM RunnerIsOnTime == Spec => []OnTime
<1>1. Init => Types /\ Owned /\ Seen
  BY TypesInit, OwnedInit, SeenInit
<1>2. Types /\ Owned /\ Seen /\ [Next]_vars => (Types /\ Owned /\ Seen)'
  BY TypesNext, OwnedNext, SeenNext
<1>3. Types /\ Owned /\ Seen => OnTime
  BY SeenIsEnough DEF Owned, OnTime
<1> QED BY <1>1, <1>2, <1>3, PTL DEF Spec

=============================================================================
