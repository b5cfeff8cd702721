------------------------ MODULE ThreadPoolSequenced -------------------------
(***************************************************************************)
(* The pool implements SequencedTaskRunner, step by step: a push is a      *)
(* Post, a take_task that finds a task a Start, the end of a callback a    *)
(* Finish, the clock an Advance; every other step stutters.                *)
(***************************************************************************)
EXTENDS ThreadPoolRefinement, ThreadPoolTasks, FiniteSetTheorems

USE DEF vars, sequenceVars, queueVars, groupVars, groupData, managerVars, trackerVars

\* What the mapping needs of a state.
Mapped == TypeOK /\ OnePlace /\ Ownership /\ DelayedSorted

\* A sequence runs the one task of it that a worker holds.
RunningIsHeld ==
    /\ runningBar \in [Seqs -> Tasks \cup {NoTask}]
    /\ \A s \in Seqs, t \in Tasks :
          runningBar[s] = t <=> TaskSeq[t] = s /\ \E w \in Workers : task[w] = t

\* The CHOOSE of runningBar has one candidate at most, because a sequence has one
\* owner.
LEMMA RunningBarIsHeld == Mapped => RunningIsHeld
<1> SUFFICES ASSUME Mapped
             PROVE  RunningIsHeld
  OBVIOUS
<1>1. ASSUME NEW w \in Workers, NEW s \in Seqs
      PROVE  /\ Runs(w, s) <=> task[w] \in Tasks /\ TaskSeq[task[w]] = s
             /\ Runs(w, s) => Owns(w) /\ source[w] = s
  <2>1. /\ w \in Threads /\ pc[w] \in WorkerLabels
        /\ task[w] \in Tasks <=> pc[w] \in HoldsTask
        /\ task[w] \in Tasks => TaskSeq[task[w]] = source[w]
    BY DEF Mapped, TypeOK, ThreadsTypeOK, ThreadOK, Labels, Threads, OnePlace, RunsOwnSequence
  <2>2. pc[w] \in HoldsTask <=> pc[w] \in {"run", "callback"}
    BY <2>1 DEF WorkerLabels, HoldsTask
  <2> QED BY <2>1, <2>2 DEF Runs, Owns
<1>2. ASSUME NEW s \in Seqs, NEW w \in Workers, Runs(w, s)
      PROVE  runningBar[s] = task[w]
  <2>1. \A v \in Workers : Runs(v, s) => v = w
    BY <1>1, <1>2 DEF Mapped, Ownership, MutualExclusion
  <2>2. (CHOOSE v \in Workers : Runs(v, s)) = w
    BY <1>2, <2>1
  <2> QED BY <1>2, <2>2, Zenon DEF runningBar
<1>3. ASSUME NEW s \in Seqs, ~\E w \in Workers : Runs(w, s)
      PROVE  runningBar[s] = NoTask
  BY <1>3 DEF runningBar
<1>4. NoTask \notin Tasks
  BY ThreadsAssumption
<1>5. \A s \in Seqs : runningBar[s] \in Tasks \cup {NoTask}
  BY <1>1, <1>2, <1>3, Zenon
<1>6. runningBar \in [Seqs -> Tasks \cup {NoTask}]
  BY <1>5 DEF runningBar
<1>7. ASSUME NEW s \in Seqs, NEW t \in Tasks
      PROVE  runningBar[s] = t <=> TaskSeq[t] = s /\ \E w \in Workers : task[w] = t
  BY <1>1, <1>2, <1>3, <1>4, <1>7
<1> QED BY <1>6, <1>7 DEF RunningIsHeld

\* The abstract state without the clock does not change when no queue, no worker's
\* hand and no task's end does.
LEMMA BarKept ==
    ASSUME RunningIsHeld, RunningIsHeld', UNCHANGED queueVars,
           \A w \in Workers : task'[w] = task[w],
           \A t \in Tasks : status'[t] \in {"done", "skipped"} <=> status[t] \in {"done", "skipped"}
    PROVE  UNCHANGED <<immediate_queue, timedBar, runningBar, finishedBar>>
<1>1. finishedBar' = finishedBar
  BY DEF finishedBar
<1>2. timedBar' = timedBar
  BY DEF timedBar
<1>3. \A s \in Seqs : runningBar'[s] = runningBar[s]
  BY DEF RunningIsHeld
<1>4. runningBar' = runningBar
  BY <1>3 DEF RunningIsHeld
<1> QED BY <1>1, <1>2, <1>4
\* push_task is a Post.
LEMMA PushIsPost ==
    ASSUME Mapped, RunningIsHeld, RunningIsHeld', NEW p \in Pushers \ {Timer}, post_task_push(p)
    PROVE  Abs!AbsNext
<1>1. /\ task \in [Threads -> Tasks \cup {NoTask}] /\ p \in Threads /\ task[p] \in Tasks
      /\ immediate_queue \in [Seqs -> Seq(Tasks)] /\ TaskSeq \in [Tasks -> Seqs]
      /\ NoTask \notin Tasks
  BY PoolAssumption, ThreadsAssumption, HeldTypes
     DEF Mapped, TypeOK, ThreadsTypeOK, SequenceTypeOK, post_task_push, HoldsTask
<1>2. PICK t \in Tasks : t = task[p]
  BY <1>1
<1>3. PICK s \in Seqs : s = TaskSeq[t]
  BY <1>1
<1>4. /\ immediate_queue' = [immediate_queue EXCEPT ![s] = Append(@, t)]
      /\ UNCHANGED <<delayed_queue, status, now>> /\ task' = [task EXCEPT ![p] = NoTask]
  BY <1>2, <1>3 DEF post_task_push, push_task, HandOver
<1>5. \A w \in Workers : task'[w] = task[w] /\ task[w] # t
  BY <1>1, <1>2, <1>4, ThreadsAssumption DEF Mapped, OnePlace, HeldApart, Threads
<1>6. ~Abs!Known(t)
  <2>1. t \notin finishedBar
    BY <1>1, <1>2 DEF finishedBar, Mapped, OnePlace, PostedSomewhere
  <2>2. \A r \in Seqs : runningBar[r] # t
    BY <1>5 DEF RunningIsHeld
  <2>3. \A r \in Seqs : \A i \in 1..Len(immediate_queue[r]) : immediate_queue[r][i] # t
    BY <1>1, <1>2 DEF Mapped, OnePlace, QueuedNotHeld
  <2>4. \A r \in Seqs : \A d \in timedBar[r] : d.task # t
    BY <1>1, <1>2 DEF Mapped, OnePlace, QueuedNotHeld, timedBar
  <2> QED BY <2>1, <2>2, <2>3, <2>4 DEF Abs!Known
<1>7. timedBar' = timedBar /\ finishedBar' = finishedBar
  BY <1>4 DEF timedBar, finishedBar
<1>8. runningBar' = runningBar
  <2>1. \A r \in Seqs : runningBar'[r] = runningBar[r]
    BY <1>5 DEF RunningIsHeld
  <2> QED BY <2>1 DEF RunningIsHeld
<1>9. Abs!Post(s, t)
  BY <1>4, <1>6, <1>7, <1>8 DEF Abs!Post
<1> QED BY <1>9 DEF Abs!AbsNext

\* push_delayed_task is a PostDelayed: its entry is somewhere in the heap.
LEMMA PushDelayedIsPost ==
    ASSUME Mapped, RunningIsHeld, RunningIsHeld', NEW p \in Pushers \ {Timer}, post_delayed_task_push(p)
    PROVE  Abs!AbsNext
<1>1. /\ task \in [Threads -> Tasks \cup {NoTask}] /\ p \in Threads /\ task[p] \in Tasks
      /\ delayed_queue \in [Seqs -> Seq(DelayedTask)] /\ TaskSeq \in [Tasks -> Seqs]
      /\ NoTask \notin Tasks /\ ready_time[p] \in Time
  BY PoolAssumption, ThreadsAssumption, HeldTypes
     DEF Mapped, TypeOK, ThreadsTypeOK, SequenceTypeOK, ManagerTypeOK, post_delayed_task_push, HoldsTask
<1>2. PICK t \in Tasks : t = task[p]
  BY <1>1
<1>3. PICK s \in Seqs : s = TaskSeq[t]
  BY <1>1
<1>4. PICK e \in DelayedTask : e = [ready_time |-> ready_time[p], task |-> t]
  BY <1>1, Zenon DEF DelayedTask
<1>5. PICK q \in Seq(DelayedTask) : q = delayed_queue[s]
  BY <1>1
<1>6. PICK k : k \in 0..Len(q) /\ delayed_queue' = [delayed_queue EXCEPT ![s] = HeapInsert(q, k, e)]
  BY <1>2, <1>3, <1>4, <1>5, Zenon DEF post_delayed_task_push, push_delayed_task
<1>7. UNCHANGED <<immediate_queue, status, now>> /\ task' = [task EXCEPT ![p] = NoTask]
  BY Zenon DEF post_delayed_task_push, push_delayed_task, HandOver
<1>8. \A w \in Workers : task'[w] = task[w] /\ task[w] # t
  BY <1>1, <1>2, <1>7, ThreadsAssumption DEF Mapped, OnePlace, HeldApart, Threads
<1>9. ~Abs!Known(t)
  <2>1. t \notin finishedBar
    BY <1>1, <1>2 DEF finishedBar, Mapped, OnePlace, PostedSomewhere
  <2>2. \A r \in Seqs : runningBar[r] # t
    BY <1>8 DEF RunningIsHeld
  <2>3. \A r \in Seqs : \A i \in 1..Len(immediate_queue[r]) : immediate_queue[r][i] # t
    BY <1>1, <1>2 DEF Mapped, OnePlace, QueuedNotHeld
  <2>4. \A r \in Seqs : \A d \in timedBar[r] : d.task # t
    BY <1>1, <1>2 DEF Mapped, OnePlace, QueuedNotHeld, timedBar
  <2> QED BY <2>1, <2>2, <2>3, <2>4 DEF Abs!Known
<1>10. runningBar' = runningBar /\ finishedBar' = finishedBar
  <2>1. \A r \in Seqs : runningBar'[r] = runningBar[r]
    BY <1>8 DEF RunningIsHeld
  <2> QED BY <1>7, <2>1 DEF RunningIsHeld, finishedBar
<1>11. timedBar' = [timedBar EXCEPT ![s] = @ \cup {e}]
  <2>1. \A x : x \in timedBar'[s] <=> x \in timedBar[s] \cup {e}
    <3>1. PICK h : h = delayed_queue'[s]
      OBVIOUS
    <3>2. h = HeapInsert(q, k, e)
      BY <1>1, <1>6, <3>1
    <3>3. \A x : (\E i \in 1..Len(h) : x = h[i]) <=> (\E i \in 1..Len(q) : x = q[i]) \/ x = e
      <4>1. Len(q) \in Nat
        BY <1>5, SeqLemma
      <4>2. /\ h \in Seq(DelayedTask)
            /\ Len(h) = Len(q) + 1
            /\ \A i \in 1..k : h[i] = q[i]
            /\ h[k + 1] = e
            /\ \A i \in (k + 1)..Len(q) : h[i + 1] = q[i]
        BY <1>4, <1>5, <1>6, <3>2, <4>1, HeapInsertLemma, SMTT(30) DEF HeapInsert
      <4>3. ASSUME NEW i \in 1..Len(h)
            PROVE  (\E j \in 1..Len(q) : h[i] = q[j]) \/ h[i] = e
        <5>1. CASE i <= k
          BY <1>6, <4>1, <4>2, <5>1
        <5>2. CASE i = k + 1
          BY <4>2, <5>2
        <5>3. CASE i > k + 1
          <6>1. i - 1 \in (k + 1)..Len(q) /\ i - 1 \in 1..Len(q) /\ i = (i - 1) + 1
            BY <1>6, <4>1, <4>2, <5>3
          <6>2. h[i] = q[i - 1]
            BY <4>2, <6>1
          <6> QED BY <6>1, <6>2
        <5> QED BY <1>6, <4>1, <4>2, <5>1, <5>2, <5>3
      <4>4. ASSUME NEW j \in 1..Len(q)
            PROVE  \E i \in 1..Len(h) : q[j] = h[i]
        <5>1. CASE j <= k
          BY <1>6, <4>1, <4>2, <5>1
        <5>2. CASE j > k
          <6>1. PICK i \in 1..Len(h) : i = j + 1
            BY <1>6, <4>1, <4>2
          <6>2. h[i] = q[j]
            BY <1>6, <4>1, <4>2, <5>2, <6>1
          <6> QED BY <6>2
        <5> QED BY <1>6, <4>1, <5>1, <5>2
      <4>5. \E i \in 1..Len(h) : e = h[i]
        <5>1. PICK i \in 1..Len(h) : i = k + 1
          BY <1>6, <4>1, <4>2
        <5> QED BY <4>2, <5>1
      <4>6. ASSUME NEW x, NEW i \in 1..Len(h), x = h[i]
            PROVE  (\E j \in 1..Len(q) : x = q[j]) \/ x = e
        BY <4>3, <4>6
      <4>7. ASSUME NEW x, NEW j \in 1..Len(q), x = q[j]
            PROVE  \E i \in 1..Len(h) : x = h[i]
        BY <4>4, <4>7
      <4> QED BY <4>5, <4>6, <4>7, Zenon
    <3>4. \A x : x \in timedBar'[s] <=> \E i \in 1..Len(h) : x = h[i]
      BY <3>1 DEF timedBar
    <3>5. \A x : x \in timedBar[s] <=> \E i \in 1..Len(q) : x = q[i]
      BY <1>5 DEF timedBar
    <3> QED BY <3>3, <3>4, <3>5, Zenon
  <2>2. \A r \in Seqs : r # s => delayed_queue'[r] = delayed_queue[r]
    BY <1>1, <1>6
  <2>3. timedBar'[s] = timedBar[s] \cup {e}
    BY <2>1, ZenonT(30)
  <2>4. \A r \in Seqs : r # s => timedBar'[r] = timedBar[r]
    BY <2>2 DEF timedBar
  <2>5. /\ DOMAIN timedBar = Seqs /\ DOMAIN timedBar' = Seqs
        /\ timedBar = [r \in Seqs |-> timedBar[r]] /\ timedBar' = [r \in Seqs |-> timedBar'[r]]
    BY DEF timedBar
  <2> QED BY <2>3, <2>4, <2>5
<1>12. ready_time[p] \in 0..MaxTime /\ Abs!PostDelayed(s, t, ready_time[p])
  BY <1>1, <1>4, <1>7, <1>9, <1>10, <1>11 DEF Abs!PostDelayed, Time
<1> QED BY <1>12 DEF Abs!AbsNext

\* The task leaves the worker, and its sequence is free again.
LEMMA EndIsFinish ==
    ASSUME Mapped, RunningIsHeld, RunningIsHeld', NEW w \in Workers, pc[w] \in {"run", "callback"},
           NEW final \in {"done", "skipped"},
           status' = [status EXCEPT ![task[w]] = final],
           task' = [task EXCEPT ![w] = NoTask],
           UNCHANGED <<queueVars, now>>
    PROVE  Abs!AbsNext
<1>1. /\ task \in [Threads -> Tasks \cup {NoTask}] /\ w \in Threads /\ task[w] \in Tasks
      /\ TaskSeq \in [Tasks -> Seqs] /\ status \in [Tasks -> Statuses] /\ NoTask \notin Tasks
      /\ Workers \subseteq Threads
  BY PoolAssumption, ThreadsAssumption, HeldTypes, Zenon
     DEF Mapped, TypeOK, ThreadsTypeOK, HistoryTypeOK, HoldsTask
<1>2. PICK t \in Tasks : t = task[w]
  BY <1>1
<1>3. PICK s \in Seqs : s = TaskSeq[t]
  BY <1>1
<1>4. runningBar[s] = t
  BY <1>2, <1>3 DEF RunningIsHeld
<1>5. finishedBar' = finishedBar \cup {t}
  BY <1>1, <1>2 DEF finishedBar
<1>6. timedBar' = timedBar
  BY DEF timedBar
<1>7. \A v \in Workers : v # w => task'[v] = task[v] /\ task[v] # t
  BY <1>1, <1>2 DEF Mapped, OnePlace, HeldApart
<1>8. task'[w] = NoTask
  BY <1>1
<1>9. ASSUME NEW r \in Seqs
      PROVE  runningBar'[r] = IF r = s THEN NoTask ELSE runningBar[r]
  <2>1. ASSUME NEW u \in Tasks, runningBar'[r] = u
        PROVE  r # s /\ runningBar[r] = u
    <3>1. TaskSeq[u] = r /\ \E v \in Workers : task'[v] = u
      BY <2>1 DEF RunningIsHeld
    <3>2. PICK v \in Workers : task'[v] = u
      BY <3>1
    <3>3. v # w /\ task[v] = u /\ u # t
      BY <1>1, <1>7, <1>8, <3>2
    <3>4. runningBar[r] = u
      BY <3>1, <3>3 DEF RunningIsHeld
    <3> QED BY <1>4, <3>3, <3>4
  <2>2. ASSUME NEW u \in Tasks, runningBar[r] = u, r # s
        PROVE  runningBar'[r] = u
    <3>1. TaskSeq[u] = r /\ \E v \in Workers : task[v] = u
      BY <2>2 DEF RunningIsHeld
    <3>2. u # t
      BY <1>3, <2>2, <3>1
    <3>3. \E v \in Workers : task'[v] = u
      BY <1>2, <1>7, <3>1, <3>2
    <3> QED BY <3>1, <3>3 DEF RunningIsHeld
  <2>3. runningBar[r] \in Tasks \cup {NoTask} /\ runningBar'[r] \in Tasks \cup {NoTask}
    BY DEF RunningIsHeld
  <2> QED BY <2>1, <2>2, <2>3
<1>10. runningBar' = [runningBar EXCEPT ![s] = NoTask]
  BY <1>9 DEF RunningIsHeld
<1>11. Abs!Finish(s)
  BY <1>1, <1>4, <1>5, <1>6, <1>10 DEF Abs!Finish
<1> QED BY <1>11 DEF Abs!AbsNext

\* A heap of delayed tasks pops in the order of its ready times and holds no task twice.
HeapInOrder(q) ==
    /\ \A i, j \in 1..Len(q) : i <= j => q[i].ready_time <= q[j].ready_time
    /\ \A i, j \in 1..Len(q) : q[i].task = q[j].task => i = j

FirstEntries(q, k) == {q[i] : i \in 1..k}

DueEntries(q) == {d \in FirstEntries(q, Len(q)) : d.ready_time <= now}

\* The k first entries of a sorted heap are those that are due, and list them.
LEMMA ReadyPrefixIsDue ==
    ASSUME NEW q \in Seq(DelayedTask), NEW k, k \in 0..Len(q), IsReadyPrefix(q, k), now \in Time,
           HeapInOrder(q)
    PROVE  /\ DueEntries(q) = FirstEntries(q, k)
           /\ Cardinality(DueEntries(q)) = k
           /\ \A i \in 1..Len(q) : q[i] \in DueEntries(q) => i <= k
<1> SUFFICES ASSUME NEW D, D = DueEntries(q)
             PROVE  /\ D = FirstEntries(q, k)
                    /\ Cardinality(D) = k
                    /\ \A i \in 1..Len(q) : q[i] \in D => i <= k
  BY ZenonT(30)
<1> USE DEF HeapInOrder, FirstEntries, DueEntries
<1>1. /\ Len(q) \in Nat /\ k \in Nat /\ now \in Int
      /\ \A i \in 1..Len(q) : q[i] \in DelayedTask
  BY SeqLemma, MaxTimeAssumption DEF Time
<1>2. \A i \in 1..Len(q) : q[i].ready_time \in Int
  BY <1>1, MaxTimeAssumption DEF DelayedTask, Time
<1>3. ASSUME NEW i \in 1..Len(q), q[i].ready_time <= now
      PROVE  i <= k
  <2> SUFFICES ASSUME i > k
               PROVE  FALSE
    BY <1>1
  <2>1. PICK j \in 1..Len(q) : j = k + 1
    BY <1>1
  <2>2. now < q[j].ready_time
    BY <1>1, <2>1 DEF IsReadyPrefix
  <2>3. q[j].ready_time <= q[i].ready_time
    BY <1>1, <2>1
  <2> QED BY <1>1, <1>2, <1>3, <2>2, <2>3
<1>4. \A i \in 1..k : i \in 1..Len(q) /\ q[i].ready_time <= now
  BY <1>1 DEF IsReadyPrefix
<1>5. D = {q[i] : i \in 1..k}
  BY <1>1, <1>3, <1>4
<1>6. \A i \in 1..Len(q) : q[i] \in D => i <= k
  BY <1>3
<1>7. Cardinality(D) = k
  <2>1. PICK f : f = [i \in 1..k |-> q[i]]
    BY Zenon
  <2>2. f \in Bijection(1..k, D)
    <3>1. f \in [1..k -> D] /\ \A i \in 1..k : f[i] = q[i]
      BY <1>5, <2>1
    <3>2. \A i, j \in 1..k : f[i] = f[j] => i = j
      BY <1>4, <3>1
    <3>3. \A d \in D : \E i \in 1..k : f[i] = d
      BY <1>5, <3>1
    <3> QED BY <3>1, <3>2, <3>3 DEF Bijection, Injection, Surjection, IsInjective
  <2>3. ExistsBijection(1..k, D)
    BY <2>2 DEF ExistsBijection
  <2> QED BY <1>1, <2>3, FS_CountingElements
<1> QED BY <1>5, <1>6, <1>7, Zenon
\* flush_ready_delayed_tasks takes the due entries out of the set of the delayed ones.
LEMMA TakeTimed ==
    ASSUME Mapped, NEW w, NEW s \in Seqs, NEW k, NEW q, TakesFrom(w, s, k, q),
           NEW D, D = DueEntries(delayed_queue[s])
    PROVE  /\ timedBar' = [timedBar EXCEPT ![s] = @ \ D]
           /\ k \in Nat /\ Cardinality(D) = k /\ D = FirstEntries(delayed_queue[s], k)
           /\ \A i, j \in 1..k :
                 i < j => delayed_queue[s][i].ready_time <= delayed_queue[s][j].ready_time
<1>1. delayed_queue \in [Seqs -> Seq(DelayedTask)] /\ now \in Time
  BY DEF Mapped, TypeOK, SequenceTypeOK
<1>2. PICK dq \in Seq(DelayedTask) : dq = delayed_queue[s]
  BY <1>1
<1>3. PICK dr : dr = delayed_queue'[s]
  OBVIOUS
<1>4. /\ k \in 0..Len(dq) /\ IsReadyPrefix(dq, k) /\ Len(dr) = Len(dq) - k
      /\ \A i \in 1..Len(dr) : i + k \in (k + 1)..Len(dq) /\ dr[i] = dq[i + k]
      /\ delayed_queue' = [delayed_queue EXCEPT ![s] = DropFirst(delayed_queue[s], k)]
  BY <1>2, <1>3 DEF TakesFrom
<1>5. HeapInOrder(dq)
  BY <1>2 DEF Mapped, DelayedSorted, OnePlace, QueuedApart, QueuedApartIn, HeapInOrder
<1>6. timedBar[s] = {dq[i] : i \in 1..Len(dq)}
  BY <1>2, Zenon DEF timedBar
<1>7. D = DueEntries(dq)
  BY <1>2
<1>8. D = FirstEntries(dq, k) /\ Cardinality(D) = k /\ \A i \in 1..Len(dq) : dq[i] \in D => i <= k
  BY <1>1, <1>4, <1>5, <1>7, ReadyPrefixIsDue, Zenon
<1>9. Len(dq) \in Nat /\ k \in Nat
  BY <1>2, <1>4, SeqLemma
<1>10. \A x : x \in timedBar'[s] <=> \E i \in 1..Len(dr) : x = dr[i]
  BY <1>3 DEF timedBar
<1>11. ASSUME NEW i \in 1..Len(dr)
       PROVE  dr[i] \in timedBar[s] \ D
  <2>1. PICK j \in 1..Len(dq) : j = i + k /\ j > k
    BY <1>4, <1>9
  <2>2. dr[i] = dq[j]
    BY <1>4, <2>1
  <2> QED BY <1>6, <1>8, <1>9, <2>1, <2>2
<1>12. ASSUME NEW j \in 1..Len(dq), dq[j] \notin D
       PROVE  \E i \in 1..Len(dr) : dq[j] = dr[i]
  <2>1. j > k
    BY <1>8, <1>9, <1>12 DEF FirstEntries
  <2>2. PICK i \in 1..Len(dr) : i = j - k
    BY <1>4, <1>9, <2>1
  <2>3. dr[i] = dq[j]
    BY <1>4, <1>9, <2>2
  <2> QED BY <2>3
<1>13. \A x : x \in timedBar[s] <=> \E j \in 1..Len(dq) : x = dq[j]
  BY <1>6
<1>14. timedBar'[s] = timedBar[s] \ D
  <2>1. ASSUME NEW x, x \in timedBar'[s]
        PROVE  x \in timedBar[s] \ D
    BY <1>10, <1>11, <2>1
  <2>2. ASSUME NEW x, x \in timedBar[s] \ D
        PROVE  x \in timedBar'[s]
    BY <1>10, <1>12, <1>13, <2>2
  <2> QED BY <2>1, <2>2
<1>15. \A r \in Seqs : r # s => timedBar'[r] = timedBar[r]
  <2>1. \A r \in Seqs : r # s => delayed_queue'[r] = delayed_queue[r]
    BY <1>1, <1>4, Zenon
  <2> QED BY <2>1 DEF timedBar
<1>16. /\ DOMAIN timedBar = Seqs /\ DOMAIN timedBar' = Seqs
       /\ timedBar = [r \in Seqs |-> timedBar[r]] /\ timedBar' = [r \in Seqs |-> timedBar'[r]]
  BY Zenon DEF timedBar
<1>17. timedBar' = [timedBar EXCEPT ![s] = @ \ D]
  BY <1>14, <1>15, <1>16
<1>18. \A i, j \in 1..k : i < j => dq[i].ready_time <= dq[j].ready_time
  BY <1>4, <1>5, <1>9 DEF HeapInOrder
<1>19. D = FirstEntries(delayed_queue[s], k)
  BY <1>2, <1>8
<1>20. \A i, j \in 1..k :
          i < j => delayed_queue[s][i].ready_time <= delayed_queue[s][j].ready_time
  BY <1>2, <1>18
<1> QED BY <1>8, <1>9, <1>17, <1>19, <1>20, Zenon

\* A take_task that finds a task is a Start; one that finds none changes nothing.
LEMMA TakeIsStart ==
    ASSUME Mapped, Mapped', RunningIsHeld, RunningIsHeld', NEW w \in Workers, take_task(w), UNCHANGED status
    PROVE  Abs!AbsNext \/ UNCHANGED <<immediate_queue, timedBar, runningBar, finishedBar, now>>
<1> SUFFICES ASSUME NEW s, s = source[w]
             PROVE  Abs!AbsNext \/ UNCHANGED <<immediate_queue, timedBar, runningBar, finishedBar, now>>
  OBVIOUS
<1>1. /\ s \in Seqs /\ w \in Threads /\ task[w] \notin Tasks /\ source' = source
      /\ now' = now /\ pc[w] = "take" /\ task \in [Threads -> Tasks \cup {NoTask}]
      /\ Workers \subseteq Threads
  BY TakeFacts, HeldTypes, Zenon DEF Mapped, TypeOK, ThreadsTypeOK, take_task
<1>2. PICK k, q : TakesFrom(w, s, k, q) /\ PopsFrom(w, s, q)
  BY TakeFacts, Zenon DEF Mapped
<1>3. PICK D : D = DueEntries(delayed_queue[s])
  OBVIOUS
<1>4. /\ timedBar' = [timedBar EXCEPT ![s] = @ \ D]
      /\ k \in Nat /\ Cardinality(D) = k /\ D = FirstEntries(delayed_queue[s], k)
      /\ \A i, j \in 1..k :
            i < j => delayed_queue[s][i].ready_time <= delayed_queue[s][j].ready_time
  BY <1>1, <1>2, <1>3, TakeTimed, ZenonT(30)
<1>5. finishedBar' = finishedBar
  BY DEF finishedBar
<1>6. CASE q = <<>>
  <2>1. k = 0
    <3>1. Len(q) = Len(immediate_queue[s]) + k /\ Len(immediate_queue[s]) \in Nat
      BY <1>1, <1>2, EntryTypes, ZenonT(30) DEF TakesFrom, Mapped
    <3> QED BY <1>4, <1>6, <3>1
  <2>2. D = {}
    BY <1>4, <2>1 DEF FirstEntries
  <2>3. timedBar' = timedBar
    BY <1>4, <2>2, Zenon DEF timedBar
  <2>4. UNCHANGED <<immediate_queue, task>>
    BY <1>2, <1>6 DEF PopsFrom
  <2>5. \A r \in Seqs : runningBar'[r] = runningBar[r]
    BY <2>4 DEF RunningIsHeld
  <2>6. runningBar' = runningBar
    BY <2>5 DEF RunningIsHeld
  <2> QED BY <1>1, <1>5, <2>3, <2>4, <2>6, Zenon
<1>7. CASE q # <<>>
  <2>1. /\ task' = [task EXCEPT ![w] = q[1]]
        /\ immediate_queue' = [immediate_queue EXCEPT ![s] = Tail(q)]
    BY <1>2, <1>7 DEF PopsFrom
  <2>2. q \in Seq(Tasks) /\ q = FlushedQueue(s, k)
    BY <1>2, Zenon DEF TakesFrom
  <2>3. q[1] \in Tasks /\ Head(q) = q[1]
    BY <1>7, <2>2, FirstLemma, TailEntries, Zenon
  <2>4. TaskSeq[q[1]] = s
    <3>1. task'[w] = q[1]
      BY <1>1, <2>1
    <3>2. task'[w] \in Tasks => TaskSeq[task'[w]] = source'[w]
      BY Zenon DEF Mapped, OnePlace, RunsOwnSequence
    <3> QED BY <1>1, <2>3, <3>1, <3>2, Zenon
  <2>5. \A v \in Workers : v # w => task'[v] = task[v]
    BY <1>1, <2>1, Zenon
  <2>6. runningBar[s] = NoTask
    <3>1. ASSUME NEW t \in Tasks, runningBar[s] = t
          PROVE  FALSE
      <4>0. runningBar[s] = t => \E v \in Workers : task[v] = t
        BY <1>1 DEF RunningIsHeld
      <4>1. PICK v \in Workers : task[v] = t
        BY <3>1, <4>0
      <4>1a. TaskSeq[t] = source[v]
        BY <3>1, <4>1 DEF Mapped, OnePlace, RunsOwnSequence
      <4>2. TaskSeq[t] = s /\ source[v] = s
        BY <1>1, <3>1, <4>1a DEF RunningIsHeld
      <4>3. pc[v] \in HoldsTask /\ pc[v] \in WorkerLabels
        BY <1>1, <3>1, <4>1, Zenon DEF Mapped, TypeOK, ThreadsTypeOK, ThreadOK, Labels
      <4>4. Owns(v) /\ Owns(w)
        BY <1>1, <4>3 DEF Owns, HoldsTask, WorkerLabels
      <4>5. v = w
        BY <4>2, <4>4 DEF Mapped, Ownership, MutualExclusion
      <4> QED BY <1>1, <4>1, <4>5, ZenonT(30)
    <3> QED BY <1>1, <3>1, Zenon DEF RunningIsHeld
  <2>7. ASSUME NEW r \in Seqs
        PROVE  runningBar'[r] = IF r = s THEN q[1] ELSE runningBar[r]
    <3>1. CASE r = s
      <4>1. task'[w] = q[1]
        BY <1>1, <2>1
      <4> QED BY <2>3, <2>4, <3>1, <4>1 DEF RunningIsHeld
    <3>2. CASE r # s
      <4>1. \A u \in Tasks : TaskSeq[u] = r =>
               ((\E v \in Workers : task'[v] = u) <=> (\E v \in Workers : task[v] = u))
        BY <1>1, <2>1, <2>4, <2>5, <3>2
      <4>2. \A u \in Tasks : runningBar'[r] = u <=> runningBar[r] = u
        BY <4>1 DEF RunningIsHeld
      <4> QED BY <3>2, <4>2 DEF RunningIsHeld
    <3> QED BY <3>1, <3>2
  <2>8. runningBar' = [runningBar EXCEPT ![s] = Head(q)]
    BY <2>3, <2>7 DEF RunningIsHeld
  <2>9. PICK order : order = [i \in 1..k |-> delayed_queue[s][i]]
    BY Zenon
  <2>10. order \in [1..Cardinality(D) -> D]
    BY <1>4, <2>9, ZenonT(30) DEF FirstEntries
  <2>11. Abs!Lists(order, D)
    BY <1>4, <2>9 DEF Abs!Lists, FirstEntries
  <2>12. immediate_queue[s] \o [i \in 1..Cardinality(D) |-> order[i].task] = q
    <3>1. [i \in 1..Cardinality(D) |-> order[i].task] = [i \in 1..k |-> delayed_queue[s][i].task]
      BY <1>4, <2>9
    <3> QED BY <2>2, <3>1, ZenonT(30) DEF FlushedQueue
  <2>13. Abs!Start(s)
    <3>1. D = {d \in timedBar[s] : d.ready_time <= now}
      BY <1>1, <1>3 DEF timedBar, DueEntries, FirstEntries
    <3>2. /\ runningBar[s] = NoTask
          /\ Abs!Lists(order, D) /\ q # <<>>
          /\ runningBar' = [runningBar EXCEPT ![s] = Head(q)]
          /\ immediate_queue' = [immediate_queue EXCEPT ![s] = Tail(q)]
          /\ timedBar' = [timedBar EXCEPT ![s] = @ \ D]
          /\ UNCHANGED <<finishedBar, now>>
      BY <1>1, <1>4, <1>5, <1>7, <2>1, <2>6, <2>8, <2>11, ZenonT(30)
    <3>3. Abs!Cardinality(D) = Cardinality(D)
      BY Zenon DEF Cardinality, Abs!Cardinality
    <3>4. /\ order \in [1..Abs!Cardinality(D) -> D]
          /\ immediate_queue[s] \o [i \in 1..Abs!Cardinality(D) |-> order[i].task] = q
      BY <2>10, <2>12, <3>3, Zenon
    <3> QED BY <3>1, <3>2, <3>4, ZenonT(30) DEF Abs!Start
  <2> QED BY <1>1, <2>13 DEF Abs!AbsNext
<1> QED BY <1>6, <1>7

\* Every step of the pool is a step of the abstract runner or leaves it alone.
LEMMA StepIsMapped ==
    ASSUME Mapped, Mapped', RunningIsHeld, RunningIsHeld', [Next]_vars
    PROVE  Abs!AbsNext \/ UNCHANGED <<immediate_queue, timedBar, runningBar, finishedBar, now>>
<1>1. /\ task \in [Threads -> Tasks \cup {NoTask}] /\ status \in [Tasks -> Statuses]
      /\ Workers \subseteq Threads /\ Pushers \subseteq Threads /\ Workers \cap Pushers = {}
  BY ThreadsAssumption, HeldTypes DEF Mapped, TypeOK, ThreadsTypeOK, HistoryTypeOK
<1>2. CASE TasksKept
  <2>1. UNCHANGED <<immediate_queue, timedBar, runningBar, finishedBar>>
    BY <1>2, BarKept DEF TasksKept
  <2>2. now' = now \/ now' = now + 1
    BY NowChange
  <2> QED BY <2>1, <2>2 DEF Abs!AbsNext, Abs!Advance
<1>3. ASSUME NEW p \in Pushers \ {Timer}, NEW t \in Tasks, pool_post(p, t) \/ runner_post(p, t)
      PROVE  UNCHANGED <<immediate_queue, timedBar, runningBar, finishedBar, now>>
  <2>1. /\ UNCHANGED <<queueVars, now>> /\ status[t] = "new"
        /\ \/ status' = [status EXCEPT ![t] = "posted"] /\ task' = [task EXCEPT ![p] = t]
           \/ status' = [status EXCEPT ![t] = "rejected"] /\ task' = task
    BY <1>3, Zenon DEF pool_post, runner_post, MayPost, Accept
  <2>2. \A w \in Workers : task'[w] = task[w]
    BY <1>1, <2>1
  <2>3. \A u \in Tasks : status'[u] \in {"done", "skipped"} <=> status[u] \in {"done", "skipped"}
    BY <1>1, <2>1
  <2> QED BY <2>1, <2>2, <2>3, BarKept
<1>4. ASSUME NEW p \in Pushers \ {Timer}, post_delayed_task_deadline(p)
      PROVE  UNCHANGED <<immediate_queue, timedBar, runningBar, finishedBar, now>>
  <2>1. UNCHANGED <<queueVars, now, task, status>>
    BY <1>4 DEF post_delayed_task_deadline
  <2> QED BY <2>1, BarKept, ZenonT(30)
<1>5. ASSUME NEW w \in Workers, wrap_skips(w) \/ callback_returns(w)
      PROVE  Abs!AbsNext
  <2>1. /\ pc[w] \in {"run", "callback"} /\ task' = [task EXCEPT ![w] = NoTask]
        /\ UNCHANGED <<queueVars, now>>
        /\ \E final \in {"done", "skipped"} : status' = [status EXCEPT ![task[w]] = final]
    BY <1>5, Zenon DEF wrap_skips, callback_returns
  <2> QED BY <2>1, EndIsFinish, Zenon
<1>6. ASSUME NEW w \in Workers, take_task(w), UNCHANGED status
      PROVE  Abs!AbsNext \/ UNCHANGED <<immediate_queue, timedBar, runningBar, finishedBar, now>>
  BY <1>6, TakeIsStart
<1>7. ASSUME NEW p \in Pushers \ {Timer}, post_task_push(p) \/ post_delayed_task_push(p)
      PROVE  Abs!AbsNext
  BY <1>7, PushIsPost, PushDelayedIsPost
<1>8. TasksKept \/ TaskMoves
  BY TasksChange DEF Mapped
<1> QED BY <1>2, <1>3, <1>4, <1>5, <1>6, <1>7, <1>8, Zenon DEF TaskMoves

\* No task has been posted yet, in the pool and in the abstract runner.
LEMMA InitIsMapped == Init => Abs!AbsInit
<1> SUFFICES ASSUME Init
             PROVE  Abs!AbsInit
  OBVIOUS
<1>1. /\ immediate_queue = [s \in Seqs |-> <<>>] /\ delayed_queue = [s \in Seqs |-> <<>>] /\ now = 0
      /\ status = [t \in Tasks |-> "new"] /\ pc = [th \in Threads |-> Home(th)]
  BY DEF Init, SequenceInit, GroupInit
<1>2. timedBar = [s \in Seqs |-> {}]
  BY <1>1 DEF timedBar
<1>3. runningBar = [s \in Seqs |-> NoTask]
  <2>1. \A w \in Workers, s \in Seqs : ~Runs(w, s)
    BY <1>1, Zenon DEF Runs, Home, Threads
  <2> QED BY <2>1 DEF runningBar
<1>4. finishedBar = {}
  BY <1>1 DEF finishedBar
<1> QED BY <1>1, <1>2, <1>3, <1>4 DEF Abs!AbsInit

\* Tasks of a sequence run one at a time and in order: every behaviour of the pool
\* is one of SequencedTaskRunner, under the refinement mapping (thread_pool.rs,
\* create_sequenced_task_runner).
THEOREM SequencedRefinement == Spec => ImplementsSequencedTaskRunner
<1>1. Spec => []Mapped
  <2>1. Init => DelayedSorted
    BY DEF Init, SequenceInit, DelayedSorted
  <2>2. Init /\ [][Next]_vars /\ []TypeOK => []DelayedSorted
    BY <2>1, DelayedSortedNext, PTL
  <2>3. Init /\ [][Next]_vars /\ []TypeOK => []Ownership
    BY OwnershipInit, OwnershipNext, PTL, Zenon
  <2>4. Init /\ [][Next]_vars /\ []TypeOK => []OnePlace
    BY OnePlaceInit, OnePlaceNext, PTL
  <2> QED BY <2>2, <2>3, <2>4, TypeCorrect, PTL, Zenon DEF Spec, Mapped
<1>2. Mapped /\ Mapped' /\ RunningIsHeld /\ RunningIsHeld' /\ [Next]_vars => [Abs!AbsNext]_(Abs!absVars)
  BY StepIsMapped DEF Abs!absVars
<1> QED BY <1>1, <1>2, RunningBarIsHeld, InitIsMapped, PTL
    DEF Spec, ImplementsSequencedTaskRunner, Abs!AbsSpec
=============================================================================
