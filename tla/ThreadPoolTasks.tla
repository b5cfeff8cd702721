-------------------------- MODULE ThreadPoolTasks ---------------------------
(***************************************************************************)
(* Where each task is: in one place from the post to its end, and with the *)
(* deadline it was posted with.                                            *)
(***************************************************************************)
EXTENDS ThreadPoolOwnership

USE DEF vars, sequenceVars, queueVars, groupVars, groupData, managerVars, trackerVars

-----------------------------------------------------------------------------
(* One place for every task: the inductive form of ExactlyOnce.            *)

\* Two threads hold different tasks.
HeldApart ==
    \A th, u \in Threads : task[th] \in Tasks /\ task[th] = task[u] => th = u

\* The entries of a sequence's two queues are different tasks, and tasks of it.
QueuedApartIn(s) ==
    /\ \A i \in 1..Len(immediate_queue[s]) :
          /\ TaskSeq[immediate_queue[s][i]] = s
          /\ \A j \in 1..Len(immediate_queue[s]) :
                immediate_queue[s][i] = immediate_queue[s][j] => i = j
          /\ \A j \in 1..Len(delayed_queue[s]) :
                immediate_queue[s][i] # delayed_queue[s][j].task
    /\ \A i \in 1..Len(delayed_queue[s]) :
          /\ TaskSeq[delayed_queue[s][i].task] = s
          /\ \A j \in 1..Len(delayed_queue[s]) :
                delayed_queue[s][i].task = delayed_queue[s][j].task => i = j

QueuedApart == \A s \in Seqs : QueuedApartIn(s)

\* A task in a queue is in nobody's hand.
QueuedNotHeld ==
    \A s \in Seqs, th \in Threads :
        /\ \A i \in 1..Len(immediate_queue[s]) : immediate_queue[s][i] # task[th]
        /\ \A i \in 1..Len(delayed_queue[s]) : delayed_queue[s][i].task # task[th]

\* t is in some hand or in a queue of its sequence.
Somewhere(t) ==
    \/ \E th \in Threads : task[th] = t
    \/ \E i \in 1..Len(immediate_queue[TaskSeq[t]]) : immediate_queue[TaskSeq[t]][i] = t
    \/ \E i \in 1..Len(delayed_queue[TaskSeq[t]]) : delayed_queue[TaskSeq[t]][i].task = t

\* The tasks in hands and queues are those accepted and not finished.
PostedSomewhere ==
    /\ \A t \in Tasks : status[t] = "posted" => Somewhere(t)
    /\ \A th \in Threads : task[th] \in Tasks => status[task[th]] = "posted"
    /\ \A s \in Seqs :
          /\ \A i \in 1..Len(immediate_queue[s]) : status[immediate_queue[s][i]] = "posted"
          /\ \A i \in 1..Len(delayed_queue[s]) : status[delayed_queue[s][i].task] = "posted"

\* A worker runs a task of the sequence it owns.
RunsOwnSequence ==
    \A w \in Workers : task[w] \in Tasks => TaskSeq[task[w]] = source[w]

OnePlace ==
    HeldApart /\ QueuedApart /\ QueuedNotHeld /\ PostedSomewhere /\ RunsOwnSequence

\* What is in the queues, by type.
LEMMA EntryTypes ==
    TypeOK => \A s \in Seqs :
        /\ Len(immediate_queue[s]) \in Nat /\ Len(delayed_queue[s]) \in Nat
        /\ \A i \in 1..Len(immediate_queue[s]) : immediate_queue[s][i] \in Tasks
        /\ \A i \in 1..Len(delayed_queue[s]) :
              delayed_queue[s][i].task \in Tasks /\ delayed_queue[s][i].ready_time \in Time
<1> SUFFICES ASSUME TypeOK, NEW s \in Seqs
             PROVE  /\ Len(immediate_queue[s]) \in Nat /\ Len(delayed_queue[s]) \in Nat
                    /\ \A i \in 1..Len(immediate_queue[s]) : immediate_queue[s][i] \in Tasks
                    /\ \A i \in 1..Len(delayed_queue[s]) :
                          /\ delayed_queue[s][i].task \in Tasks
                          /\ delayed_queue[s][i].ready_time \in Time
  BY Zenon
<1>1. immediate_queue[s] \in Seq(Tasks) /\ delayed_queue[s] \in Seq(DelayedTask)
  BY DEF TypeOK, SequenceTypeOK
<1>2. \A i \in 1..Len(delayed_queue[s]) : delayed_queue[s][i] \in DelayedTask
  BY <1>1, SeqLemma
<1>3. \A i \in 1..Len(immediate_queue[s]) : immediate_queue[s][i] \in Tasks
  BY <1>1, SeqLemma
<1> QED BY <1>1, <1>2, <1>3, SeqLemma DEF DelayedTask

\* A task nobody has posted yet is in no hand and in no queue.
LEMMA NewIsNowhere ==
    ASSUME TypeOK, OnePlace, NEW t \in Tasks, status[t] # "posted"
    PROVE  /\ \A th \in Threads : task[th] # t
           /\ \A s \in Seqs :
                 /\ \A i \in 1..Len(immediate_queue[s]) : immediate_queue[s][i] # t
                 /\ \A i \in 1..Len(delayed_queue[s]) : delayed_queue[s][i].task # t
BY ZenonT(30) DEF OnePlace, PostedSomewhere

\* Queues that keep their entries stay apart.
LEMMA ApartKept ==
    ASSUME NEW s \in Seqs, QueuedApartIn(s),
           immediate_queue'[s] = immediate_queue[s], Len(delayed_queue'[s]) = Len(delayed_queue[s]),
           \A i \in 1..Len(delayed_queue[s]) : delayed_queue'[s][i] = delayed_queue[s][i]
    PROVE  QueuedApartIn(s)'
<1>1. ASSUME NEW i \in 1..Len(immediate_queue'[s])
      PROVE  /\ TaskSeq[immediate_queue'[s][i]] = s
             /\ \A j \in 1..Len(immediate_queue'[s]) :
                   immediate_queue'[s][i] = immediate_queue'[s][j] => i = j
             /\ \A j \in 1..Len(delayed_queue'[s]) :
                   immediate_queue'[s][i] # delayed_queue'[s][j].task
  <2>1. /\ TaskSeq[immediate_queue[s][i]] = s
        /\ \A j \in 1..Len(immediate_queue[s]) : immediate_queue[s][i] = immediate_queue[s][j] => i = j
        /\ \A j \in 1..Len(delayed_queue[s]) : immediate_queue[s][i] # delayed_queue[s][j].task
    BY <1>1, Zenon DEF QueuedApartIn
  <2> QED BY <1>1, <2>1, ZenonT(30)
<1>2. ASSUME NEW i \in 1..Len(delayed_queue'[s])
      PROVE  /\ TaskSeq[delayed_queue'[s][i].task] = s
             /\ \A j \in 1..Len(delayed_queue'[s]) :
                   delayed_queue'[s][i].task = delayed_queue'[s][j].task => i = j
  BY <1>2, ZenonT(30) DEF QueuedApartIn
<1> QED BY <1>1, <1>2, Zenon DEF QueuedApartIn

\* A post that is accepted puts the task in the poster's hand.
LEMMA AcceptPlaces ==
    ASSUME TypeOK, OnePlace, NEW p \in Pushers, NEW t \in Tasks, status[t] = "new",
           pc[p] = "home", Accept(p, t), UNCHANGED <<queueVars, source>>
    PROVE  OnePlace'
<1>1. /\ task \in [Threads -> Tasks \cup {NoTask}] /\ status \in [Tasks -> Statuses]
      /\ p \in Threads /\ p \notin Workers /\ task[p] \notin Tasks
  BY ThreadsAssumption DEF TypeOK, ThreadsTypeOK, ThreadOK, HistoryTypeOK, Threads, HoldsTask
<1>2. task' = [task EXCEPT ![p] = t] /\ status' = [status EXCEPT ![t] = "posted"]
  BY DEF Accept
<1>3. HeldApart'
  <2>1. \A th \in Threads : task[th] # t
    BY NewIsNowhere, Zenon
  <2>2. \A th \in Threads : task'[th] = IF th = p THEN t ELSE task[th]
    BY <1>1, <1>2, Zenon
  <2>3. HeldApart
    BY Zenon DEF OnePlace
  <2> QED BY <2>1, <2>2, <2>3, Zenon DEF HeldApart
<1>4. QueuedApart'
  BY ApartKept, Zenon DEF QueuedApart, OnePlace
<1>5. QueuedNotHeld'
  <2>1. \A th \in Threads : task'[th] = IF th = p THEN t ELSE task[th]
    BY <1>1, <1>2, Zenon
  <2>2. QueuedNotHeld
    BY Zenon DEF OnePlace
  <2>3. \A s \in Seqs : /\ \A i \in 1..Len(immediate_queue[s]) : immediate_queue[s][i] # t
                        /\ \A i \in 1..Len(delayed_queue[s]) : delayed_queue[s][i].task # t
    BY NewIsNowhere, Zenon
  <2>4. UNCHANGED <<immediate_queue, delayed_queue>>
    OBVIOUS
  <2>5. ASSUME NEW s \in Seqs, NEW th \in Threads
        PROVE  /\ \A i \in 1..Len(immediate_queue'[s]) : immediate_queue'[s][i] # task'[th]
               /\ \A i \in 1..Len(delayed_queue'[s]) : delayed_queue'[s][i].task # task'[th]
    <3>1. CASE th = p
      BY <2>1, <2>3, <2>4, <3>1, ZenonT(30)
    <3>2. CASE th # p
      <4>1. task'[th] = task[th]
        BY <2>1, <3>2, Zenon
      <4> QED BY <2>2, <2>4, <4>1, ZenonT(30) DEF QueuedNotHeld
    <3> QED BY <3>1, <3>2, Zenon
  <2> QED BY <2>5, Zenon DEF QueuedNotHeld
<1>6. RunsOwnSequence'
  BY <1>1, <1>2, ZenonT(30) DEF RunsOwnSequence, OnePlace, Threads
<1>7. ASSUME NEW u \in Tasks, status'[u] = "posted"
      PROVE  Somewhere(u)'
  <2>1. CASE u = t
    BY <1>1, <1>2, <2>1 DEF Somewhere
  <2>2. CASE u # t
    <3>1. Somewhere(u)
      BY <1>1, <1>2, <1>7, <2>2, ZenonT(30) DEF OnePlace, PostedSomewhere
    <3> QED BY <1>1, <1>2, <3>1 DEF Somewhere
  <2> QED BY <2>1, <2>2
<1>8. PostedSomewhere'
  BY <1>1, <1>2, <1>7, EntryTypes, ZenonT(30) DEF PostedSomewhere, OnePlace
<1> QED BY <1>3, <1>4, <1>5, <1>6, <1>8 DEF OnePlace

\* push_task moves the task from the poster's hand to the end of its queue.
LEMMA PushPlaces ==
    ASSUME TypeOK, OnePlace, NEW p \in Pushers, post_task_push(p)
    PROVE  OnePlace'
<1> SUFFICES ASSUME NEW t, NEW s, NEW n, t = task[p], s = TaskSeq[t], n = Len(immediate_queue[s])
             PROVE  OnePlace'
  BY Zenon
<1>1. /\ task \in [Threads -> Tasks \cup {NoTask}] /\ status \in [Tasks -> Statuses]
      /\ p \in Threads /\ p \notin Workers /\ t \in Tasks /\ s \in Seqs /\ NoTask \notin Tasks
      /\ immediate_queue \in [Seqs -> Seq(Tasks)] /\ n \in Nat
  BY ThreadsAssumption, PoolAssumption, HeldTypes, EntryTypes, Zenon
     DEF post_task_push, TypeOK, ThreadsTypeOK, HistoryTypeOK, SequenceTypeOK, HoldsTask
<1>2. /\ task' = [task EXCEPT ![p] = NoTask] /\ delayed_queue' = delayed_queue
      /\ source' = [source EXCEPT ![p] = s] /\ status' = status
      /\ immediate_queue' = [immediate_queue EXCEPT ![s] = Append(@, t)]
  BY Zenon DEF post_task_push, HandOver, push_task
<1>3. /\ \A r \in Seqs : r # s => immediate_queue'[r] = immediate_queue[r]
      /\ Len(immediate_queue'[s]) = n + 1 /\ immediate_queue'[s][n + 1] = t
      /\ \A i \in 1..n : immediate_queue'[s][i] = immediate_queue[s][i]
  BY <1>1, <1>2, AppendLemma
<1>4. ASSUME NEW r \in Seqs
      PROVE  /\ \A i \in 1..Len(immediate_queue[r]) :
                   /\ i \in 1..Len(immediate_queue'[r])
                   /\ immediate_queue'[r][i] = immediate_queue[r][i]
             /\ \A i \in 1..Len(immediate_queue'[r]) :
                   \/ r = s /\ i = n + 1
                   \/ i \in 1..Len(immediate_queue[r])
  BY <1>1, <1>3
<1>5. status[t] = "posted"
  BY <1>1 DEF OnePlace, PostedSomewhere
<1>6. \A r \in Seqs : /\ \A i \in 1..Len(immediate_queue[r]) : immediate_queue[r][i] # t
                      /\ \A i \in 1..Len(delayed_queue[r]) : delayed_queue[r][i].task # t
  BY <1>1 DEF OnePlace, QueuedNotHeld
<1>7. HeldApart'
  BY <1>1, <1>2 DEF HeldApart, OnePlace
<1>8. ASSUME NEW r \in Seqs
      PROVE  QueuedApartIn(r)'
  <2>1. QueuedApartIn(r)
    BY DEF QueuedApart, OnePlace
  <2>2. ASSUME NEW i \in 1..Len(immediate_queue'[r])
        PROVE  /\ TaskSeq[immediate_queue'[r][i]] = r
               /\ \A j \in 1..Len(immediate_queue'[r]) :
                     immediate_queue'[r][i] = immediate_queue'[r][j] => i = j
               /\ \A j \in 1..Len(delayed_queue[r]) :
                     immediate_queue'[r][i] # delayed_queue[r][j].task
    <3>1. CASE r = s /\ i = n + 1
      <4>1. immediate_queue'[r][i] = t /\ TaskSeq[t] = r
        BY <1>3, <3>1, Zenon
      <4>2. ASSUME NEW j \in 1..Len(immediate_queue'[r]), j # i
            PROVE  immediate_queue'[r][i] # immediate_queue'[r][j]
        <5>1. j \in 1..Len(immediate_queue[r])
          BY <1>4, <3>1, <4>2, Zenon
        <5> QED BY <1>4, <1>6, <4>1, <5>1, Zenon
      <4>3. \A j \in 1..Len(delayed_queue[r]) : immediate_queue'[r][i] # delayed_queue[r][j].task
        BY <1>6, <4>1, Zenon
      <4> QED BY <4>1, <4>2, <4>3, ZenonT(30)
    <3>2. CASE i \in 1..Len(immediate_queue[r])
      <4>1. immediate_queue'[r][i] = immediate_queue[r][i]
        BY <1>4, <3>2
      <4>2. ASSUME NEW j \in 1..Len(immediate_queue'[r]),
                   immediate_queue'[r][i] = immediate_queue'[r][j]
            PROVE  i = j
        <5>1. immediate_queue[r][i] # t
          BY <1>6, <3>2
        <5>2. ~(r = s /\ j = n + 1)
          BY <1>3, <4>1, <4>2, <5>1, Zenon
        <5>3. j \in 1..Len(immediate_queue[r]) /\ immediate_queue'[r][j] = immediate_queue[r][j]
          BY <1>4, <5>2, ZenonT(30)
        <5> QED BY <2>1, <3>2, <4>1, <4>2, <5>3, ZenonT(30) DEF QueuedApartIn
      <4>3. /\ TaskSeq[immediate_queue'[r][i]] = r
            /\ \A j \in 1..Len(delayed_queue[r]) :
                  immediate_queue'[r][i] # delayed_queue[r][j].task
        BY ONLY <2>1, <3>2, <4>1 DEF QueuedApartIn
      <4> QED BY <4>2, <4>3
    <3> QED BY <1>4, <3>1, <3>2, ZenonT(30)
  <2>3. delayed_queue'[r] = delayed_queue[r]
    BY <1>2
  <2>4. \A i \in 1..Len(delayed_queue[r]) :
           /\ TaskSeq[delayed_queue[r][i].task] = r
           /\ \A j \in 1..Len(delayed_queue[r]) :
                 delayed_queue[r][i].task = delayed_queue[r][j].task => i = j
    BY <2>1, Zenon DEF QueuedApartIn
  <2> QED BY ONLY <2>2, <2>3, <2>4 DEF QueuedApartIn
<1>9. QueuedNotHeld'
  <2>1. ASSUME NEW r \in Seqs, NEW i \in 1..Len(immediate_queue'[r]), NEW th \in Threads
        PROVE  immediate_queue'[r][i] # task'[th]
    <3>1. CASE r = s /\ i = n + 1
      BY <1>1, <1>2, <1>3, <3>1 DEF OnePlace, HeldApart
    <3>2. CASE i \in 1..Len(immediate_queue[r])
      <4>1. immediate_queue[r][i] \in Tasks /\ immediate_queue[r][i] # task[th]
        BY <3>2, EntryTypes, ZenonT(30) DEF OnePlace, QueuedNotHeld
      <4> QED BY <1>1, <1>2, <1>4, <3>2, <4>1
    <3> QED BY <1>4, <3>1, <3>2, ZenonT(30)
  <2>2. ASSUME NEW r \in Seqs, NEW i \in 1..Len(delayed_queue[r]), NEW th \in Threads
        PROVE  delayed_queue[r][i].task # task'[th]
    <3>1. delayed_queue[r][i].task \in Tasks /\ delayed_queue[r][i].task # task[th]
      BY EntryTypes, Zenon DEF OnePlace, QueuedNotHeld
    <3> QED BY <1>1, <1>2, <3>1
  <2> QED BY <1>2, <2>1, <2>2, ZenonT(30) DEF QueuedNotHeld
<1>10. PostedSomewhere'
  <2>1. ASSUME NEW u \in Tasks, status'[u] = "posted"
        PROVE  Somewhere(u)'
    <3>1. CASE u = t
      <4>1. n + 1 \in 1..Len(immediate_queue'[s])
        BY <1>1, <1>3
      <4> QED BY <1>3, <3>1, <4>1, Zenon DEF Somewhere
    <3>2. CASE u # t
      <4>1. Somewhere(u) /\ TaskSeq[u] \in Seqs
        BY <1>2, <2>1, PoolAssumption, ZenonT(30) DEF OnePlace, PostedSomewhere
      <4>2. \A th \in Threads : task[th] = u => task'[th] = u
        BY <1>1, <1>2, <3>2
      <4> QED BY <1>2, <1>4, <4>1, <4>2, ZenonT(30) DEF Somewhere
    <3> QED BY <3>1, <3>2, ZenonT(30)
  <2>2. ASSUME NEW r \in Seqs, NEW i \in 1..Len(immediate_queue'[r])
        PROVE  status[immediate_queue'[r][i]] = "posted"
    <3>1. CASE r = s /\ i = n + 1
      BY <1>3, <1>5, <3>1, Zenon
    <3>2. CASE i \in 1..Len(immediate_queue[r])
      <4>1. status[immediate_queue[r][i]] = "posted"
        BY <3>2, Zenon DEF OnePlace, PostedSomewhere
      <4> QED BY <1>4, <3>2, <4>1, Zenon
    <3> QED BY <1>4, <3>1, <3>2, Zenon
  <2>3. \A th \in Threads : task'[th] \in Tasks => status[task'[th]] = "posted"
    BY <1>1, <1>2 DEF OnePlace, PostedSomewhere
  <2>4. \A r \in Seqs : \A i \in 1..Len(delayed_queue[r]) : status[delayed_queue[r][i].task] = "posted"
    BY Zenon DEF OnePlace, PostedSomewhere
  <2> QED BY <1>2, <2>1, <2>2, <2>3, <2>4, ZenonT(30) DEF PostedSomewhere
<1>11. RunsOwnSequence'
  BY <1>1, <1>2 DEF RunsOwnSequence, OnePlace, Threads
<1> QED BY <1>7, <1>8, <1>9, <1>10, <1>11 DEF OnePlace, QueuedApart

\* push_delayed_task moves it into the delayed queue.
LEMMA PushDelayedPlaces ==
    ASSUME TypeOK, OnePlace, NEW p \in Pushers, post_delayed_task_push(p)
    PROVE  OnePlace'
<1> SUFFICES ASSUME NEW t, NEW s, NEW n, t = task[p], s = TaskSeq[t], n = Len(delayed_queue[s])
             PROVE  OnePlace'
  BY Zenon
<1> DEFINE e == [ready_time |-> ready_time[p], task |-> t]
<1>1. /\ task \in [Threads -> Tasks \cup {NoTask}] /\ status \in [Tasks -> Statuses]
      /\ p \in Threads /\ p \notin Workers /\ t \in Tasks /\ s \in Seqs /\ NoTask \notin Tasks
      /\ delayed_queue \in [Seqs -> Seq(DelayedTask)] /\ n \in Nat
      /\ ready_time[p] \in Time
  BY ThreadsAssumption, PoolAssumption, HeldTypes, EntryTypes, Zenon
     DEF post_delayed_task_push, TypeOK, ThreadsTypeOK, HistoryTypeOK, SequenceTypeOK,
         ManagerTypeOK, HoldsTask
<1>2. /\ task' = [task EXCEPT ![p] = NoTask] /\ immediate_queue' = immediate_queue
      /\ source' = [source EXCEPT ![p] = s] /\ status' = status
  BY Zenon DEF post_delayed_task_push, HandOver, push_delayed_task
<1>3. e \in DelayedTask /\ e.task = t
  BY <1>1 DEF DelayedTask
<1>4. PICK k \in 0..n : delayed_queue' = [delayed_queue EXCEPT ![s] = HeapInsert(delayed_queue[s], k, e)]
  BY ZenonT(30) DEF post_delayed_task_push, push_delayed_task
<1> HIDE DEF e
<1>5. /\ Len(delayed_queue'[s]) = n + 1 /\ delayed_queue'[s][k + 1] = e
      /\ \A i \in 1..k : delayed_queue'[s][i] = delayed_queue[s][i]
      /\ \A i \in (k + 1)..n : delayed_queue'[s][i + 1] = delayed_queue[s][i]
      /\ \A r \in Seqs : r # s => delayed_queue'[r] = delayed_queue[r]
  BY <1>1, <1>3, <1>4, HeapInsertLemma
<1> DEFINE New(r, i) == IF r # s \/ i <= k THEN i ELSE i + 1
           Old(r, i) == IF r # s \/ i <= k THEN i ELSE i - 1
<1>6. ASSUME NEW r \in Seqs
      PROVE  /\ \A i \in 1..Len(delayed_queue[r]) :
                   /\ New(r, i) \in 1..Len(delayed_queue'[r])
                   /\ delayed_queue'[r][New(r, i)] = delayed_queue[r][i]
             /\ \A i \in 1..Len(delayed_queue'[r]) :
                   \/ r = s /\ i = k + 1
                   \/ /\ ~(r = s /\ i = k + 1)
                      /\ Old(r, i) \in 1..Len(delayed_queue[r])
                      /\ delayed_queue'[r][i] = delayed_queue[r][Old(r, i)]
  <2>1. CASE r # s
    BY <1>5, <2>1
  <2>2. CASE r = s
    <3>1. ASSUME NEW i \in 1..n
          PROVE  New(s, i) \in 1..(n + 1) /\ delayed_queue'[s][New(s, i)] = delayed_queue[s][i]
      <4>1. CASE i <= k
        BY <1>1, <1>5, <4>1
      <4>2. CASE i > k
        <5>1. i \in (k + 1)..n
          BY <1>1, <4>2
        <5>2. New(s, i) = i + 1 /\ i + 1 \in 1..(n + 1)
          BY <1>1, <4>2
        <5> QED BY <1>5, <5>1, <5>2, Zenon
      <4> QED BY <1>1, <4>1, <4>2
    <3>2. ASSUME NEW i \in 1..(n + 1), i # k + 1
          PROVE  Old(s, i) \in 1..n /\ delayed_queue'[s][i] = delayed_queue[s][Old(s, i)]
      <4>1. CASE i <= k
        BY <1>1, <1>5, <4>1
      <4>2. CASE i > k
        <5>1. i - 1 \in (k + 1)..n /\ (i - 1) + 1 = i
          BY <1>1, <3>2, <4>2
        <5>2. Old(s, i) = i - 1 /\ i - 1 \in 1..n
          BY <1>1, <3>2, <4>2
        <5> QED BY <1>5, <5>1, <5>2, ZenonT(30)
      <4> QED BY <1>1, <4>1, <4>2
    <3> QED BY <1>5, <2>2, <3>1, <3>2, ZenonT(30)
  <2> QED BY <2>1, <2>2, Zenon
<1>7. \A r \in Seqs : \A i, j \in 1..Len(delayed_queue'[r]) :
         ~(r = s /\ i = k + 1) /\ ~(r = s /\ j = k + 1) /\ Old(r, i) = Old(r, j) => i = j
  <2> SUFFICES ASSUME NEW r \in Seqs, NEW i \in 1..Len(delayed_queue'[r]),
                      NEW j \in 1..Len(delayed_queue'[r]),
                      ~(r = s /\ i = k + 1), ~(r = s /\ j = k + 1), Old(r, i) = Old(r, j)
               PROVE  i = j
    OBVIOUS
  <2>1. i \in Int /\ j \in Int /\ k \in Int
    BY <1>1
  <2> QED BY <2>1
<1> HIDE DEF New, Old
<1>8. status[t] = "posted"
  BY <1>1 DEF OnePlace, PostedSomewhere
<1>9. \A r \in Seqs : /\ \A i \in 1..Len(immediate_queue[r]) : immediate_queue[r][i] # t
                      /\ \A i \in 1..Len(delayed_queue[r]) : delayed_queue[r][i].task # t
  BY <1>1 DEF OnePlace, QueuedNotHeld
<1>10. HeldApart'
  BY <1>1, <1>2 DEF HeldApart, OnePlace
<1>11. ASSUME NEW r \in Seqs
       PROVE  QueuedApartIn(r)'
  <2>1. QueuedApartIn(r)
    BY Zenon DEF QueuedApart, OnePlace
  <2>2. ASSUME NEW i \in 1..Len(delayed_queue'[r])
        PROVE  /\ TaskSeq[delayed_queue'[r][i].task] = r
               /\ \A j \in 1..Len(delayed_queue'[r]) :
                     delayed_queue'[r][i].task = delayed_queue'[r][j].task => i = j
               /\ \A j \in 1..Len(immediate_queue[r]) :
                     delayed_queue'[r][i].task # immediate_queue[r][j]
    <3>1. CASE r = s /\ i = k + 1
      <4>1. delayed_queue'[r][i].task = t /\ TaskSeq[t] = r
        BY <1>3, <1>5, <3>1, Zenon
      <4>2. ASSUME NEW j \in 1..Len(delayed_queue'[r]), j # i
            PROVE  delayed_queue'[r][i].task # delayed_queue'[r][j].task
        <5>1. /\ Old(r, j) \in 1..Len(delayed_queue[r])
              /\ delayed_queue'[r][j] = delayed_queue[r][Old(r, j)]
          BY <1>6, <3>1, <4>2, ZenonT(30)
        <5> QED BY <1>9, <4>1, <5>1, Zenon
      <4>3. \A j \in 1..Len(immediate_queue[r]) : delayed_queue'[r][i].task # immediate_queue[r][j]
        BY <1>9, <4>1, ZenonT(30)
      <4> QED BY <4>1, <4>2, <4>3, Zenon
    <3>2. CASE ~(r = s /\ i = k + 1)
      <4>1. Old(r, i) \in 1..Len(delayed_queue[r])
            /\ delayed_queue'[r][i] = delayed_queue[r][Old(r, i)]
        BY <1>6, <3>2
      <4>2. ASSUME NEW j \in 1..Len(delayed_queue'[r]),
                   delayed_queue'[r][i].task = delayed_queue'[r][j].task
            PROVE  i = j
        <5>1. ~(r = s /\ j = k + 1)
          <6>1. delayed_queue'[r][i].task # t
            BY <1>9, <4>1
          <6> QED BY <1>3, <1>5, <4>2, <6>1, ZenonT(30)
        <5>2. Old(r, j) \in 1..Len(delayed_queue[r])
              /\ delayed_queue'[r][j] = delayed_queue[r][Old(r, j)]
          BY <1>6, <5>1
        <5>3. Old(r, i) = Old(r, j)
          BY <2>1, <4>1, <4>2, <5>2 DEF QueuedApartIn
        <5> QED BY <1>7, <3>2, <5>1, <5>3
      <4>3. /\ TaskSeq[delayed_queue'[r][i].task] = r
            /\ \A j \in 1..Len(immediate_queue[r]) :
                  delayed_queue'[r][i].task # immediate_queue[r][j]
        <5>1. /\ TaskSeq[delayed_queue[r][Old(r, i)].task] = r
              /\ \A j \in 1..Len(immediate_queue[r]) :
                    immediate_queue[r][j] # delayed_queue[r][Old(r, i)].task
          BY <2>1, <4>1, ZenonT(30) DEF QueuedApartIn
        <5> QED BY <4>1, <5>1, ZenonT(30)
      <4> QED BY <4>2, <4>3, ZenonT(30)
    <3> QED BY <3>1, <3>2, Zenon
  <2>3. \A i \in 1..Len(immediate_queue[r]) :
           /\ TaskSeq[immediate_queue[r][i]] = r
           /\ \A j \in 1..Len(immediate_queue[r]) :
                 immediate_queue[r][i] = immediate_queue[r][j] => i = j
    BY <2>1, Zenon DEF QueuedApartIn
  <2> QED BY <1>2, <2>2, <2>3, ZenonT(30) DEF QueuedApartIn
<1>12. QueuedNotHeld'
  <2>1. ASSUME NEW r \in Seqs, NEW i \in 1..Len(delayed_queue'[r]), NEW th \in Threads
        PROVE  delayed_queue'[r][i].task # task'[th]
    <3>1. CASE r = s /\ i = k + 1
      BY <1>1, <1>2, <1>3, <1>5, <3>1 DEF OnePlace, HeldApart
    <3>2. CASE ~(r = s /\ i = k + 1)
      <4>1. Old(r, i) \in 1..Len(delayed_queue[r])
            /\ delayed_queue'[r][i] = delayed_queue[r][Old(r, i)]
        BY <1>6, <3>2, ZenonT(30)
      <4>2. delayed_queue'[r][i].task \in Tasks /\ delayed_queue'[r][i].task # task[th]
        BY <4>1, EntryTypes DEF OnePlace, QueuedNotHeld
      <4> QED BY <1>1, <1>2, <4>2
    <3> QED BY <3>1, <3>2
  <2> QED BY <1>1, <1>2, <2>1, EntryTypes DEF OnePlace, QueuedNotHeld
<1>13. PostedSomewhere'
  <2>1. ASSUME NEW u \in Tasks, status'[u] = "posted"
        PROVE  Somewhere(u)'
    <3>1. CASE u = t
      <4>1. k + 1 \in 1..Len(delayed_queue'[s])
        BY <1>1, <1>5
      <4> QED BY <1>3, <1>5, <3>1, <4>1, ZenonT(30) DEF Somewhere
    <3>2. CASE u # t
      <4>1. Somewhere(u) /\ TaskSeq[u] \in Seqs
        BY <1>2, <2>1, PoolAssumption, Zenon DEF OnePlace, PostedSomewhere
      <4>2. ASSUME NEW i \in 1..Len(delayed_queue[TaskSeq[u]]), delayed_queue[TaskSeq[u]][i].task = u
            PROVE  \E j \in 1..Len(delayed_queue'[TaskSeq[u]]) : delayed_queue'[TaskSeq[u]][j].task = u
        <5>1. /\ New(TaskSeq[u], i) \in 1..Len(delayed_queue'[TaskSeq[u]])
              /\ delayed_queue'[TaskSeq[u]][New(TaskSeq[u], i)] = delayed_queue[TaskSeq[u]][i]
          BY <1>6, <4>1, Zenon
        <5> QED BY <4>2, <5>1, Zenon
      <4>3. \A th \in Threads : task[th] = u => task'[th] = u
        BY <1>1, <1>2, <3>2
      <4> QED BY <1>2, <4>1, <4>2, <4>3, Zenon DEF Somewhere
    <3> QED BY <3>1, <3>2, Zenon
  <2>2. ASSUME NEW r \in Seqs, NEW i \in 1..Len(delayed_queue'[r])
        PROVE  status[delayed_queue'[r][i].task] = "posted"
    <3>1. CASE r = s /\ i = k + 1
      BY <1>3, <1>5, <1>8, <3>1, ZenonT(30)
    <3>2. CASE ~(r = s /\ i = k + 1)
      <4>1. Old(r, i) \in 1..Len(delayed_queue[r])
            /\ delayed_queue'[r][i] = delayed_queue[r][Old(r, i)]
        BY <1>6, <3>2
      <4> QED BY <4>1 DEF OnePlace, PostedSomewhere
    <3> QED BY <3>1, <3>2, ZenonT(30)
  <2> QED BY <1>1, <1>2, <2>1, <2>2 DEF OnePlace, PostedSomewhere
<1>14. RunsOwnSequence'
  BY <1>1, <1>2 DEF RunsOwnSequence, OnePlace, Threads
<1> QED BY <1>10, <1>11, <1>12, <1>13, <1>14, Zenon DEF OnePlace, QueuedApart

-----------------------------------------------------------------------------
(* What a worker takes.                                                    *)

\* What take_task does, by position: w flushes k tasks of the delayed queue of s
\* behind the immediate ones, and pops the first of the result, q.
TakesFrom(w, s, k, q) ==
    /\ k \in 0..Len(delayed_queue[s])
    /\ IsReadyPrefix(delayed_queue[s], k)
    /\ q = FlushedQueue(s, k) /\ q \in Seq(Tasks)
    /\ Len(q) = Len(immediate_queue[s]) + k
    /\ \A i \in 1..Len(immediate_queue[s]) : q[i] = immediate_queue[s][i]
    /\ \A i \in 1..k : q[Len(immediate_queue[s]) + i] = delayed_queue[s][i].task
    /\ delayed_queue' = [delayed_queue EXCEPT ![s] = DropFirst(delayed_queue[s], k)]
    /\ Len(delayed_queue'[s]) = Len(delayed_queue[s]) - k
    /\ \A i \in 1..Len(delayed_queue'[s]) :
          /\ i + k \in (k + 1)..Len(delayed_queue[s])
          /\ delayed_queue'[s][i] = delayed_queue[s][i + k]

\* There was nothing to pop, or the worker has the first task.
PopsFrom(w, s, q) ==
    \/ q = <<>> /\ UNCHANGED <<immediate_queue, task>> /\ Goto(w, "release")
    \/ /\ q # <<>> /\ task' = [task EXCEPT ![w] = q[1]] /\ Goto(w, "run")
       /\ immediate_queue' = [immediate_queue EXCEPT ![s] = Tail(q)]
       /\ Len(immediate_queue'[s]) = Len(q) - 1
       /\ \A i \in 1..Len(immediate_queue'[s]) :
             i + 1 \in 1..Len(q) /\ immediate_queue'[s][i] = q[i + 1]

\* take_task is TakesFrom, then PopsFrom, for the ready prefix the code flushes.
LEMMA TakeFacts ==
    ASSUME TypeOK, NEW w \in Workers, take_task(w), NEW s, s = source[w]
    PROVE  /\ s \in Seqs /\ w \in Threads /\ task[w] \notin Tasks /\ source' = source
           /\ \E k, q : TakesFrom(w, s, k, q) /\ PopsFrom(w, s, q)
<1>1. /\ s \in Seqs /\ w \in Threads /\ task[w] \notin Tasks /\ source' = source
      /\ immediate_queue \in [Seqs -> Seq(Tasks)] /\ delayed_queue \in [Seqs -> Seq(DelayedTask)]
      /\ SequenceTypeOK /\ Len(delayed_queue[s]) \in Nat
  BY HeldTypes, EntryTypes, Zenon
     DEF take_task, TypeOK, ThreadsTypeOK, ThreadOK, SequenceTypeOK, HoldsTask, HoldsSource
<1>2. PICK k \in 0..Len(delayed_queue[s]) :
        /\ IsReadyPrefix(delayed_queue[s], k)
        /\ delayed_queue' = [delayed_queue EXCEPT ![s] = DropFirst(delayed_queue[s], k)]
        /\ IF FlushedQueue(s, k) = <<>>
             THEN Goto(w, "release") /\ UNCHANGED <<immediate_queue, task>>
             ELSE /\ Goto(w, "run")
                  /\ task' = [task EXCEPT ![w] = Head(FlushedQueue(s, k))]
                  /\ immediate_queue' = [immediate_queue EXCEPT ![s] = Tail(FlushedQueue(s, k))]
  BY Zenon DEF take_task
<1>3. PICK q : q = FlushedQueue(s, k)
  OBVIOUS
<1>4. q \in Seq(Tasks) /\ Len(q) = Len(immediate_queue[s]) + k
  BY <1>1, <1>3, FlushedQueueLemma
<1>5. /\ \A i \in 1..Len(immediate_queue[s]) : q[i] = immediate_queue[s][i]
      /\ \A i \in 1..k : q[Len(immediate_queue[s]) + i] = delayed_queue[s][i].task
  BY <1>1, <1>3, FlushedQueueEntries, ZenonT(30)
<1>6. delayed_queue'[s] = DropFirst(delayed_queue[s], k)
  BY <1>1, <1>2
<1>7. /\ Len(delayed_queue'[s]) = Len(delayed_queue[s]) - k
      /\ \A i \in 1..Len(delayed_queue'[s]) :
            i + k \in 1..Len(delayed_queue[s]) /\ delayed_queue'[s][i] = delayed_queue[s][i + k]
  <2>1. PICK d \in Seq(DelayedTask) : d = delayed_queue[s]
    BY <1>1
  <2>2. k \in 0..Len(d) /\ delayed_queue'[s] = DropFirst(d, k)
    BY <1>1, <1>6, <2>1
  <2>3. /\ Len(DropFirst(d, k)) = Len(d) - k
        /\ \A i \in 1..Len(DropFirst(d, k)) : i + k \in 1..Len(d) /\ DropFirst(d, k)[i] = d[i + k]
    BY <2>2, DropFirstLemma
  <2> QED BY <2>1, <2>2, <2>3, Zenon
<1>8. \A i \in 1..Len(delayed_queue'[s]) : i + k \in (k + 1)..Len(delayed_queue[s])
  BY <1>1, <1>7
<1>9. PopsFrom(w, s, q)
  <2>1. CASE q = <<>>
    BY <1>2, <1>3, <2>1 DEF PopsFrom
  <2>2. CASE q # <<>>
    <3>1. task' = [task EXCEPT ![w] = Head(q)] /\ Goto(w, "run")
          /\ immediate_queue' = [immediate_queue EXCEPT ![s] = Tail(q)]
      BY <1>2, <1>3, <2>2
    <3>2. immediate_queue'[s] = Tail(q)
      BY <1>1, <3>1
    <3>3. Head(q) = q[1] /\ Len(Tail(q)) = Len(q) - 1
          /\ \A i \in 1..Len(Tail(q)) : i + 1 \in 1..Len(q) /\ Tail(q)[i] = q[i + 1]
      BY <1>4, <2>2, HeadTailLemma, TailEntries
    <3> QED BY <2>2, <3>1, <3>2, <3>3, Zenon DEF PopsFrom
  <2> QED BY <2>1, <2>2
<1>10. TakesFrom(w, s, k, q)
  BY <1>2, <1>3, <1>4, <1>5, <1>7, <1>8, Zenon DEF TakesFrom
<1> QED BY <1>1, <1>9, <1>10

\* take_task moves due tasks to the immediate queue and the first task of it to
\* the worker.
LEMMA TakePlaces ==
    ASSUME TypeOK, OnePlace, NEW w \in Workers, take_task(w), UNCHANGED status
    PROVE  OnePlace'
<1> SUFFICES ASSUME NEW s, NEW n, NEW m, s = source[w], n = Len(immediate_queue[s]),
                    m = Len(delayed_queue[s])
             PROVE  OnePlace'
  BY Zenon
<1>1. /\ task \in [Threads -> Tasks \cup {NoTask}] /\ status \in [Tasks -> Statuses]
      /\ immediate_queue \in [Seqs -> Seq(Tasks)] /\ delayed_queue \in [Seqs -> Seq(DelayedTask)]
  BY DEF TypeOK, ThreadsTypeOK, HistoryTypeOK, SequenceTypeOK
<1>2. s \in Seqs /\ w \in Threads /\ task[w] \notin Tasks /\ source' = source
  BY TakeFacts
<1>3. PICK k, q : TakesFrom(w, s, k, q) /\ PopsFrom(w, s, q)
  BY TakeFacts
<1>4. n \in Nat /\ m \in Nat /\ k \in 0..m /\ Len(q) = n + k /\ q \in Seq(Tasks)
  BY <1>2, <1>3, EntryTypes DEF TakesFrom
\* The entries of the two queues are different tasks of s, in nobody's hand.
<1>5. QueuedApartIn(s)
  BY <1>2 DEF OnePlace, QueuedApart
<1>5a. /\ \A i \in 1..n : TaskSeq[immediate_queue[s][i]] = s
       /\ \A i, j \in 1..n : immediate_queue[s][i] = immediate_queue[s][j] => i = j
  BY <1>5 DEF QueuedApartIn
<1>5b. \A i \in 1..n, j \in 1..m : immediate_queue[s][i] # delayed_queue[s][j].task
  BY <1>5 DEF QueuedApartIn
<1>5c. /\ \A i \in 1..m : TaskSeq[delayed_queue[s][i].task] = s
       /\ \A i, j \in 1..m : delayed_queue[s][i].task = delayed_queue[s][j].task => i = j
  BY <1>5 DEF QueuedApartIn
<1>5d. /\ \A i \in 1..n : immediate_queue[s][i] \in Tasks
       /\ \A i \in 1..m : delayed_queue[s][i].task \in Tasks
  BY <1>2, EntryTypes
<1>5e. /\ \A i \in 1..n : status[immediate_queue[s][i]] = "posted"
       /\ \A i \in 1..m : status[delayed_queue[s][i].task] = "posted"
  BY <1>2, Zenon DEF OnePlace, PostedSomewhere
<1>5f. \A th \in Threads : /\ \A i \in 1..n : task[th] # immediate_queue[s][i]
                           /\ \A i \in 1..m : task[th] # delayed_queue[s][i].task
  BY <1>2, Zenon DEF OnePlace, QueuedNotHeld
\* So are the entries of the flushed queue, and what stays of the delayed queue.
<1>6. /\ \A i, j \in 1..(n + k) : q[i] = q[j] => i = j
      /\ \A i \in 1..(n + k), j \in (k + 1)..m : q[i] # delayed_queue[s][j].task
  <2>1. \A i \in 1..n : q[i] = immediate_queue[s][i]
    BY <1>3, Zenon DEF TakesFrom
  <2>2. ASSUME NEW i \in 1..(n + k), i \notin 1..n
        PROVE  \E a \in 1..m : a \in 1..k /\ i = n + a /\ q[i] = delayed_queue[s][a].task
    <3>1. i - n \in 1..k /\ i - n \in 1..m /\ n + (i - n) = i
      BY <1>4, <2>2
    <3>2. q[n + (i - n)] = delayed_queue[s][i - n].task
      BY <1>3, <3>1, Zenon DEF TakesFrom
    <3> QED BY <3>1, <3>2
  <2>3. ASSUME NEW i \in 1..n, NEW j \in 1..m
        PROVE  q[i] # delayed_queue[s][j].task
    BY <1>5b, <2>1, ZenonT(30)
  <2>4. ASSUME NEW i \in 1..(n + k), NEW j \in 1..(n + k), q[i] = q[j]
        PROVE  i = j
    <3>1. CASE i \in 1..n /\ j \in 1..n
      BY <1>5a, <2>1, <2>4, <3>1, Zenon
    <3>2. CASE i \in 1..n /\ j \notin 1..n
      BY <2>2, <2>3, <2>4, <3>2
    <3>3. CASE i \notin 1..n /\ j \in 1..n
      BY <2>2, <2>3, <2>4, <3>3
    <3>4. CASE i \notin 1..n /\ j \notin 1..n
      <4>1. PICK a \in 1..m : i = n + a /\ q[i] = delayed_queue[s][a].task
        BY <2>2, <3>4
      <4>2. PICK b \in 1..m : j = n + b /\ q[j] = delayed_queue[s][b].task
        BY <2>2, <3>4
      <4>3. a = b
        BY <1>5c, <2>4, <4>1, <4>2, Zenon
      <4> QED BY <4>1, <4>2, <4>3
    <3> QED BY <3>1, <3>2, <3>3, <3>4
  <2>5. ASSUME NEW i \in 1..(n + k), NEW j \in (k + 1)..m
        PROVE  q[i] # delayed_queue[s][j].task
    <3>1. j \in 1..m /\ j \notin 1..k
      BY <1>4
    <3>2. CASE i \in 1..n
      BY <2>3, <3>1, <3>2
    <3>3. CASE i \notin 1..n
      <4>1. PICK a \in 1..m : a \in 1..k /\ q[i] = delayed_queue[s][a].task
        BY <2>2, <3>3, Zenon
      <4> QED BY <1>5c, <3>1, <4>1, Zenon
    <3> QED BY <3>2, <3>3
  <2> QED BY <2>4, <2>5
<1>7. ASSUME NEW i \in 1..(n + k)
      PROVE  /\ q[i] \in Tasks /\ TaskSeq[q[i]] = s /\ status[q[i]] = "posted"
             /\ \A th \in Threads : task[th] # q[i]
  <2>1. CASE i \in 1..n
    <3>1. q[i] = immediate_queue[s][i]
      BY <1>3, <2>1, Zenon DEF TakesFrom
    <3>2. q[i] \in Tasks /\ TaskSeq[q[i]] = s /\ status[q[i]] = "posted"
      BY <1>5a, <1>5d, <1>5e, <2>1, <3>1, ZenonT(30)
    <3>3. \A th \in Threads : task[th] # q[i]
      BY <1>5f, <2>1, <3>1, Zenon
    <3> QED BY <3>2, <3>3, Zenon
  <2>2. CASE i \notin 1..n
    <3>1. PICK a \in 1..m : a \in 1..k /\ i = n + a
      <4>1. i - n \in 1..k /\ i - n \in 1..m /\ i = n + (i - n)
        BY <1>4, <2>2
      <4> QED BY <4>1, Zenon
    <3>2. q[i] = delayed_queue[s][a].task
      BY <1>3, <3>1, Zenon DEF TakesFrom
    <3>3. q[i] \in Tasks /\ TaskSeq[q[i]] = s /\ status[q[i]] = "posted"
      BY <1>5c, <1>5d, <1>5e, <3>2, ZenonT(30)
    <3>4. \A th \in Threads : task[th] # q[i]
      BY <1>5f, <3>2, Zenon
    <3> QED BY <3>3, <3>4, Zenon
  <2> QED BY <2>1, <2>2
\* What stays of the delayed queue of s, and the other queues.
<1>8. \A r \in Seqs : r # s => delayed_queue'[r] = delayed_queue[r]
  BY <1>1, <1>2, <1>3 DEF TakesFrom
<1>9. \A i \in 1..Len(delayed_queue'[s]) : \E a \in (k + 1)..m :
         a \in 1..m /\ a = i + k /\ delayed_queue'[s][i] = delayed_queue[s][a]
  <2>1. \A i \in 1..Len(delayed_queue'[s]) :
           i + k \in (k + 1)..m /\ delayed_queue'[s][i] = delayed_queue[s][i + k]
    BY <1>3 DEF TakesFrom
  <2>2. \A j \in (k + 1)..m : j \in 1..m
    BY <1>4
  <2> QED BY <2>1, <2>2
<1>10. CASE q = <<>>
  <2>1. /\ k = 0 /\ n = 0 /\ immediate_queue' = immediate_queue /\ task' = task
    BY <1>3, <1>4, <1>10, EmptyLemma DEF PopsFrom
  <2>2. Len(delayed_queue'[s]) = m
        /\ \A i \in 1..m : delayed_queue'[s][i] = delayed_queue[s][i]
    BY <1>3, <1>4, <1>9, <2>1, SMTT(30) DEF TakesFrom
  <2>3. \A r \in Seqs : Len(delayed_queue'[r]) = Len(delayed_queue[r])
           /\ \A i \in 1..Len(delayed_queue[r]) : delayed_queue'[r][i] = delayed_queue[r][i]
    BY <1>8, <2>2
  <2>4. \A r \in Seqs : QueuedApartIn(r)'
    BY <2>1, <2>3, ApartKept, ZenonT(30) DEF OnePlace, QueuedApart
  <2>5. \A t \in Tasks : Somewhere(t) => Somewhere(t)'
    BY <2>1, <2>3, PoolAssumption DEF Somewhere
  <2>6. PostedSomewhere'
    BY <2>1, <2>3, <2>5 DEF OnePlace, PostedSomewhere
  <2> QED BY <1>2, <2>1, <2>3, <2>4, <2>6
          DEF OnePlace, QueuedApart, HeldApart, QueuedNotHeld, RunsOwnSequence
<1>11. CASE q # <<>>
  <2>1. /\ task' = [task EXCEPT ![w] = q[1]] /\ 1 \in 1..(n + k)
        /\ immediate_queue' = [immediate_queue EXCEPT ![s] = Tail(q)]
        /\ Len(immediate_queue'[s]) = n + k - 1
        /\ \A i \in 1..Len(immediate_queue'[s]) : \E a \in 1..(n + k) :
              a = i + 1 /\ immediate_queue'[s][i] = q[a]
    BY <1>3, <1>4, <1>11, FirstLemma DEF PopsFrom
  <2>2. \A r \in Seqs : r # s => immediate_queue'[r] = immediate_queue[r]
    BY <1>1, <2>1
  <2>3. \A i \in 1..Len(immediate_queue'[s]) : i + 1 # 1
    BY <1>4, <2>1
  <2>4. HeldApart'
    <3>1. \A th \in Threads : task[th] # q[1]
      BY <1>7, <2>1
    <3>2. HeldApart
      BY DEF OnePlace
    <3> QED BY <1>1, <1>2, <2>1, <3>1, <3>2 DEF HeldApart
  <2>5. ASSUME NEW r \in Seqs
        PROVE  QueuedApartIn(r)'
    <3>1. CASE r # s
      BY <1>8, <2>2, <3>1, ApartKept, ZenonT(30) DEF OnePlace, QueuedApart
    <3>2. CASE r = s
      <4>1. ASSUME NEW i \in 1..Len(immediate_queue'[s])
            PROVE  /\ TaskSeq[immediate_queue'[s][i]] = s
                   /\ \A j \in 1..Len(immediate_queue'[s]) :
                         immediate_queue'[s][i] = immediate_queue'[s][j] => i = j
                   /\ \A j \in 1..Len(delayed_queue'[s]) :
                         immediate_queue'[s][i] # delayed_queue'[s][j].task
        <5>1. PICK a \in 1..(n + k) : a = i + 1 /\ immediate_queue'[s][i] = q[a]
          BY <2>1, Zenon
        <5>2. TaskSeq[immediate_queue'[s][i]] = s
          BY <1>7, <5>1
        <5>3. ASSUME NEW j \in 1..Len(immediate_queue'[s]),
                     immediate_queue'[s][i] = immediate_queue'[s][j]
              PROVE  i = j
          <6>1. PICK b \in 1..(n + k) : b = j + 1 /\ immediate_queue'[s][j] = q[b]
            BY <2>1, Zenon
          <6>2. a = b
            BY <1>6, <5>1, <5>3, <6>1, ZenonT(30)
          <6> QED BY <5>1, <6>1, <6>2
        <5>4. ASSUME NEW j \in 1..Len(delayed_queue'[s])
              PROVE  immediate_queue'[s][i] # delayed_queue'[s][j].task
          <6>1. PICK b \in (k + 1)..m : delayed_queue'[s][j] = delayed_queue[s][b]
            BY <1>9
          <6>2. q[a] # delayed_queue[s][b].task
            BY <1>6, ZenonT(30)
          <6> QED BY <5>1, <6>1, <6>2, ZenonT(30)
        <5> QED BY <5>2, <5>3, <5>4, ZenonT(30)
      <4>2. ASSUME NEW i \in 1..Len(delayed_queue'[s])
            PROVE  /\ TaskSeq[delayed_queue'[s][i].task] = s
                   /\ \A j \in 1..Len(delayed_queue'[s]) :
                         delayed_queue'[s][i].task = delayed_queue'[s][j].task => i = j
        <5>1. TaskSeq[delayed_queue'[s][i].task] = s
          <6>1. PICK a \in 1..m : delayed_queue'[s][i] = delayed_queue[s][a]
            BY <1>9, Zenon
          <6> QED BY <1>5c, <6>1, Zenon
        <5>2. ASSUME NEW j \in 1..Len(delayed_queue'[s]),
                     delayed_queue'[s][i].task = delayed_queue'[s][j].task
              PROVE  i = j
          <6>1. PICK a \in 1..m : a = i + k /\ delayed_queue'[s][i] = delayed_queue[s][a]
            BY <1>9
          <6>2. PICK b \in 1..m : b = j + k /\ delayed_queue'[s][j] = delayed_queue[s][b]
            BY <1>9
          <6>3. a = b
            BY <1>5c, <5>2, <6>1, <6>2, ZenonT(30)
          <6>4. i + k = j + k
            BY <6>1, <6>2, <6>3, Zenon
          <6> QED BY <1>4, <6>4
        <5> QED BY <5>1, <5>2, Zenon
      <4> QED BY <3>2, <4>1, <4>2 DEF QueuedApartIn
    <3> QED BY <3>1, <3>2
  <2>6. QueuedNotHeld'
    <3>1. ASSUME NEW r \in Seqs, NEW i \in 1..Len(immediate_queue'[r]), NEW th \in Threads
          PROVE  immediate_queue'[r][i] # task'[th]
      <4>1. CASE r = s
        <5>1. PICK a \in 1..(n + k) : a = i + 1 /\ immediate_queue'[s][i] = q[a]
          BY <2>1, <4>1, Zenon
        <5>1a. a # 1
          BY <2>3, <4>1, <5>1, ZenonT(30)
        <5>2. q[a] # q[1] /\ q[a] # task[th]
          BY <1>6, <1>7, <2>1, <5>1, <5>1a
        <5> QED BY <1>1, <1>2, <2>1, <4>1, <5>1, <5>2
      <4>2. CASE r # s
        <5>1. immediate_queue'[r][i] # task[th] /\ TaskSeq[immediate_queue'[r][i]] = r
          <6>1. QueuedNotHeld /\ QueuedApartIn(r)
            BY DEF OnePlace, QueuedApart
          <6>2. immediate_queue'[r] = immediate_queue[r] /\ i \in 1..Len(immediate_queue[r])
            BY <2>2, <3>1, <4>2
          <6>3. TaskSeq[immediate_queue[r][i]] = r
            BY <6>1, <6>2 DEF QueuedApartIn
          <6> QED BY <6>1, <6>2, <6>3, Zenon DEF QueuedNotHeld
        <5>2. TaskSeq[q[1]] = s
          BY <1>7, <2>1, Zenon
        <5> QED BY <1>1, <1>2, <2>1, <4>2, <5>1, <5>2
      <4> QED BY <4>1, <4>2
    <3>2. ASSUME NEW r \in Seqs, NEW i \in 1..Len(delayed_queue'[r]), NEW th \in Threads
          PROVE  delayed_queue'[r][i].task # task'[th]
      <4>1. CASE r = s
        <5>1. delayed_queue'[s][i].task # q[1]
          <6>1. PICK a \in (k + 1)..m : delayed_queue'[s][i] = delayed_queue[s][a]
            BY <1>9, <4>1, Zenon
          <6> QED BY <1>6, <2>1, <6>1
        <5>2. delayed_queue'[s][i].task # task[th]
          <6>1. PICK a \in 1..m : delayed_queue'[s][i] = delayed_queue[s][a]
            BY <1>9, <4>1, Zenon
          <6> QED BY <1>5f, <6>1, Zenon
        <5> QED BY <1>1, <1>2, <2>1, <4>1, <5>1, <5>2
      <4>2. CASE r # s
        <5>1. delayed_queue'[r][i].task # task[th] /\ TaskSeq[delayed_queue'[r][i].task] = r
          <6>1. QueuedNotHeld /\ QueuedApartIn(r)
            BY DEF OnePlace, QueuedApart
          <6>2. delayed_queue'[r] = delayed_queue[r] /\ i \in 1..Len(delayed_queue[r])
            BY <1>8, <3>2, <4>2
          <6>3. TaskSeq[delayed_queue[r][i].task] = r
            BY <6>1, <6>2 DEF QueuedApartIn
          <6> QED BY <6>1, <6>2, <6>3, Zenon DEF QueuedNotHeld
        <5>2. TaskSeq[q[1]] = s
          BY <1>7, <2>1
        <5> QED BY <1>1, <1>2, <2>1, <4>2, <5>1, <5>2, Zenon
      <4> QED BY <4>1, <4>2
    <3> QED BY <3>1, <3>2 DEF QueuedNotHeld
  <2>7. PostedSomewhere'
    <3>1. ASSUME NEW t \in Tasks, status'[t] = "posted"
          PROVE  Somewhere(t)'
      <4>1. Somewhere(t) /\ TaskSeq[t] \in Seqs
        BY <3>1, PoolAssumption, Zenon DEF OnePlace, PostedSomewhere
      <4>2. CASE TaskSeq[t] # s \/ \E th \in Threads : task[th] = t
        <5>1. \A th \in Threads : task[th] = t => task'[th] = t
          BY <1>1, <1>2, <2>1, Zenon
        <5> QED BY <1>8, <2>2, <4>1, <4>2, <5>1, Zenon DEF Somewhere
      <4>3. ASSUME NEW i \in 1..(n + k), q[i] = t, TaskSeq[t] = s
            PROVE  Somewhere(t)'
        <5>1. CASE i = 1
          BY <1>1, <1>2, <2>1, <4>3, <5>1, Zenon DEF Somewhere
        <5>2. CASE i # 1
          <6>1. i - 1 \in 1..Len(immediate_queue'[s]) /\ (i - 1) + 1 = i
            BY <1>4, <2>1, <5>2
          <6>2. immediate_queue'[s][i - 1] = t
            BY <2>1, <4>3, <6>1
          <6> QED BY <4>3, <6>1, <6>2, ZenonT(30) DEF Somewhere
        <5> QED BY <5>1, <5>2
      <4>4. ASSUME NEW i \in 1..n, immediate_queue[s][i] = t, TaskSeq[t] = s
            PROVE  Somewhere(t)'
        <5>1. i \in 1..(n + k) /\ q[i] = t
          BY <1>3, <1>4, <4>4 DEF TakesFrom
        <5> QED BY <4>3, <4>4, <5>1
      <4>5. ASSUME NEW i \in 1..m, delayed_queue[s][i].task = t, TaskSeq[t] = s
            PROVE  Somewhere(t)'
        <5>1. CASE i \in 1..k
          <6>1. n + i \in 1..(n + k)
            BY <1>4, <5>1
          <6>2. q[n + i] = t
            BY <1>3, <4>5, <5>1, ZenonT(30) DEF TakesFrom
          <6> QED BY <4>3, <4>5, <6>1, <6>2
        <5>2. CASE i \notin 1..k
          <6>1. Len(delayed_queue'[s]) = m - k
            BY <1>3 DEF TakesFrom
          <6>2. i - k \in 1..Len(delayed_queue'[s]) /\ (i - k) + k = i
            BY <1>4, <5>2, <6>1
          <6>3. delayed_queue'[s][i - k] = delayed_queue[s][i]
            BY <1>9, <6>2
          <6> QED BY <4>5, <6>2, <6>3 DEF Somewhere
        <5> QED BY <5>1, <5>2
      <4> QED BY <4>1, <4>2, <4>4, <4>5, Zenon DEF Somewhere
    <3>2. ASSUME NEW r \in Seqs, NEW i \in 1..Len(immediate_queue'[r])
          PROVE  status[immediate_queue'[r][i]] = "posted"
      <4>1. CASE r = s
        <5>1. PICK a \in 1..(n + k) : immediate_queue'[s][i] = q[a]
          BY <2>1, <4>1, Zenon
        <5> QED BY <1>7, <4>1, <5>1
      <4>2. CASE r # s
        BY <2>2, <3>2, <4>2 DEF OnePlace, PostedSomewhere
      <4> QED BY <4>1, <4>2
    <3>3. ASSUME NEW r \in Seqs, NEW i \in 1..Len(delayed_queue'[r])
          PROVE  status[delayed_queue'[r][i].task] = "posted"
      <4>1. CASE r = s
        <5>1. PICK a \in 1..m : delayed_queue'[s][i] = delayed_queue[s][a]
          BY <1>9, <4>1, Zenon
        <5> QED BY <1>2, <4>1, <5>1 DEF OnePlace, PostedSomewhere
      <4>2. CASE r # s
        BY <1>8, <3>3, <4>2 DEF OnePlace, PostedSomewhere
      <4> QED BY <4>1, <4>2
    <3>4. \A th \in Threads : task'[th] \in Tasks => status[task'[th]] = "posted"
      BY <1>1, <1>2, <1>7, <2>1 DEF OnePlace, PostedSomewhere
    <3> QED BY <3>1, <3>2, <3>3, <3>4 DEF PostedSomewhere
  <2>8. RunsOwnSequence'
    BY <1>1, <1>2, <1>7, <2>1 DEF OnePlace, RunsOwnSequence
  <2> QED BY <2>4, <2>5, <2>6, <2>7, <2>8 DEF OnePlace, QueuedApart
<1> QED BY <1>10, <1>11

\* A task that ends leaves the worker's hand.
LEMMA EndPlaces ==
    ASSUME TypeOK, OnePlace, NEW w \in Workers, pc[w] \in {"run", "callback"},
           NEW final \in {"done", "skipped"},
           status' = [status EXCEPT ![task[w]] = final],
           task' = [task EXCEPT ![w] = NoTask],
           UNCHANGED <<queueVars, source>>
    PROVE  OnePlace'
<1>1. /\ task \in [Threads -> Tasks \cup {NoTask}] /\ status \in [Tasks -> Statuses]
      /\ w \in Threads /\ task[w] \in Tasks /\ NoTask \notin Tasks
  BY ThreadsAssumption, HeldTypes DEF TypeOK, ThreadsTypeOK, HistoryTypeOK, HoldsTask
<1>2. HeldApart'
  BY <1>1 DEF OnePlace, HeldApart
<1>3. QueuedApart'
  BY ApartKept, Zenon DEF OnePlace, QueuedApart
<1>4. QueuedNotHeld'
  BY <1>1, EntryTypes DEF OnePlace, QueuedNotHeld
<1>5. ASSUME NEW t \in Tasks, status'[t] = "posted"
      PROVE  Somewhere(t)'
  <2>1. t # task[w] /\ Somewhere(t)
    BY <1>1, <1>5 DEF OnePlace, PostedSomewhere
  <2> QED BY <1>1, <2>1 DEF Somewhere
<1>6. \A t \in Tasks : t # task[w] => status'[t] = status[t]
  BY <1>1
<1>7. \A th \in Threads : task'[th] \in Tasks => status'[task'[th]] = "posted"
  BY <1>1, <1>6 DEF OnePlace, PostedSomewhere, HeldApart
<1>8. \A s \in Seqs :
         /\ \A i \in 1..Len(immediate_queue[s]) : status'[immediate_queue[s][i]] = "posted"
         /\ \A i \in 1..Len(delayed_queue[s]) : status'[delayed_queue[s][i].task] = "posted"
  BY <1>1, <1>6, EntryTypes DEF OnePlace, PostedSomewhere, QueuedNotHeld
<1>9. PostedSomewhere'
  BY <1>5, <1>7, <1>8, ZenonT(30) DEF PostedSomewhere
<1>10. RunsOwnSequence'
  BY <1>1 DEF OnePlace, RunsOwnSequence
<1> QED BY <1>2, <1>3, <1>4, <1>9, <1>10 DEF OnePlace

\* Every step keeps each task in one place: a step that moves a task takes it from
\* where it was.
LEMMA OnePlaceNext == TypeOK /\ OnePlace /\ [Next]_vars => OnePlace'
<1> SUFFICES ASSUME TypeOK, OnePlace
             PROVE  [Next]_vars => OnePlace'
  OBVIOUS
<1>n. SUFFICES ASSUME [Next]_vars
      PROVE  OnePlace'
  OBVIOUS
<1>1. ASSUME UNCHANGED <<task, queueVars, status>>,
             \A w \in Workers : task[w] \in Tasks => source'[w] = source[w]
      PROVE  OnePlace'
  <2>1. QueuedApart'
    BY <1>1, ApartKept, Zenon DEF OnePlace, QueuedApart
  <2>2. PostedSomewhere'
    BY <1>1, ZenonT(30) DEF OnePlace, PostedSomewhere, Somewhere
  <2>3. HeldApart' /\ QueuedNotHeld'
    BY <1>1, Zenon DEF OnePlace, HeldApart, QueuedNotHeld
  <2> QED BY <1>1, <2>1, <2>2, <2>3 DEF OnePlace, RunsOwnSequence
<1>2. CASE TasksKept
  <2>1. ASSUME NEW w \in Workers, task[w] \in Tasks
        PROVE  source'[w] = source[w]
    <3>1. Owns(w) /\ pc[w] \notin {"claim", "release"} /\ source \in [Threads -> Seqs \cup {NoSeq}]
          /\ w \in Threads
      BY <2>1, ThreadsAssumption
         DEF TypeOK, ThreadsTypeOK, ThreadOK, Owns, HoldsTask, Labels, WorkerLabels, Threads
    <3> QED BY <1>n, <3>1, OwnersChange DEF OwnersKept, will_run_task, did_process_task_release
  <2> QED BY <1>1, <1>2, <2>1 DEF TasksKept
<1>3. ASSUME NEW p \in Pushers \ {Timer}, NEW t \in Tasks, pool_post(p, t) \/ runner_post(p, t)
      PROVE  OnePlace'
  <2>1. status[t] = "new" /\ pc[p] = "home" /\ UNCHANGED <<queueVars, source>>
    BY <1>3 DEF pool_post, runner_post, MayPost
  <2>2. CASE Accept(p, t)
    BY <2>1, <2>2, AcceptPlaces, Zenon
  <2>3. CASE status' = [status EXCEPT ![t] = "rejected"] /\ UNCHANGED task
    <3>1. \A u \in Tasks : status'[u] = "posted" <=> status[u] = "posted"
      BY <2>1, <2>3 DEF TypeOK, HistoryTypeOK
    <3>2. PostedSomewhere'
      BY <2>1, <2>3, <3>1, EntryTypes, ZenonT(30) DEF OnePlace, PostedSomewhere, Somewhere
    <3>3. QueuedApart'
      BY <2>1, ApartKept, Zenon DEF OnePlace, QueuedApart
    <3> QED BY <2>1, <2>3, <3>2, <3>3, ZenonT(30)
            DEF OnePlace, HeldApart, QueuedNotHeld, RunsOwnSequence
  <2> QED BY <1>3, <2>2, <2>3 DEF pool_post, runner_post
<1>4. ASSUME NEW p \in Pushers, post_delayed_task_deadline(p)
      PROVE  OnePlace'
  BY <1>1, <1>4, ZenonT(30) DEF post_delayed_task_deadline
<1>5. ASSUME NEW w \in Workers, wrap_skips(w) \/ callback_returns(w)
      PROVE  OnePlace'
  BY <1>5, EndPlaces DEF wrap_skips, callback_returns
<1> QED BY <1>n, <1>2, <1>3, <1>4, <1>5, PushPlaces, PushDelayedPlaces, TakePlaces, TasksChange, Zenon
        DEF TaskMoves

\* No task is anywhere before it is posted.
LEMMA OnePlaceInit == Init => OnePlace
<1> SUFFICES ASSUME Init PROVE OnePlace
  OBVIOUS
<1>1. /\ \A s \in Seqs : immediate_queue[s] = <<>> /\ delayed_queue[s] = <<>>
      /\ \A th \in Threads : task[th] = NoTask
      /\ \A t \in Tasks : status[t] = "new"
      /\ Workers \subseteq Threads /\ NoTask \notin Tasks
  BY ThreadsAssumption DEF Init, SequenceInit, GroupInit, Threads
<1>2. Len(<<>>) = 0
  OBVIOUS
<1> QED BY <1>1, <1>2 DEF OnePlace, HeldApart, QueuedApart, QueuedApartIn, QueuedNotHeld,
                          PostedSomewhere, RunsOwnSequence

-----------------------------------------------------------------------------
(* The deadline a task was given goes with it wherever it is.              *)

\* A task nobody has posted yet has no deadline.
DueNew == \A t \in Tasks : status[t] = "new" => due[t] = 0

\* A posted task in a pusher's hand has no deadline until post_delayed_task gives
\* it the one the pusher carries.
DueInHand ==
    \A p \in Pushers : /\ pc[p] = "accepted" => due[task[p]] = 0
                       /\ pc[p] = "delay" => due[task[p]] = ready_time[p]

\* The immediate queue of s holds due tasks, its delayed queue the tasks' deadlines.
DueQueuedIn(s) ==
    /\ \A i \in 1..Len(immediate_queue[s]) : due[immediate_queue[s][i]] <= now
    /\ \A i \in 1..Len(delayed_queue[s]) :
          delayed_queue[s][i].ready_time = due[delayed_queue[s][i].task]

DueQueued == \A s \in Seqs : DueQueuedIn(s)

\* A worker holds a due task.
DueRunning == \A w \in Workers : task[w] \in Tasks => due[task[w]] <= now

\* The deadline of a task, wherever the task is: the inductive form of
\* DelayRespected.
DueWherever == DueNew /\ DueInHand /\ DueQueued /\ DueRunning

\* No task has a deadline before it is posted.
LEMMA DueInit == Init => DueWherever
<1> SUFFICES ASSUME Init PROVE DueWherever
  OBVIOUS
<1>1. /\ \A s \in Seqs : immediate_queue[s] = <<>> /\ delayed_queue[s] = <<>>
      /\ \A th \in Threads : task[th] = NoTask
      /\ \A p \in Pushers : pc[p] = "home"
      /\ \A t \in Tasks : due[t] = 0
      /\ Workers \subseteq Threads /\ NoTask \notin Tasks
  BY ThreadsAssumption DEF Init, SequenceInit, GroupInit, Threads, Home
<1>2. Len(<<>>) = 0
  OBVIOUS
<1> QED BY <1>1, <1>2 DEF DueWherever, DueNew, DueInHand, DueQueued, DueQueuedIn, DueRunning

\* Every step keeps the deadlines with the tasks; take_task flushes and pops due
\* ones only.
LEMMA DueNext == TypeOK /\ OnePlace /\ DueWherever /\ [Next]_vars => DueWherever'
<1> SUFFICES ASSUME TypeOK, OnePlace, DueWherever
             PROVE  [Next]_vars => DueWherever'
  OBVIOUS
<1>n. SUFFICES ASSUME [Next]_vars
      PROVE  DueWherever'
  OBVIOUS
<1>0. DueNew /\ DueInHand /\ DueQueued /\ DueRunning
  BY DEF DueWherever
<1>1. TypeOK' /\ OnePlace'
  BY <1>n, TypeNext, OnePlaceNext
<1>2. /\ now \in Nat /\ now' \in Nat /\ now <= now'
      /\ \A t \in Tasks : due[t] \in Nat
  <2>1. Time \subseteq Nat /\ now \in Time /\ due \in [Tasks -> Time]
    BY MaxTimeAssumption DEF Time, TypeOK, SequenceTypeOK, HistoryTypeOK
  <2>2. now' = now \/ now' = now + 1
    BY <1>n, NowChange
  <2>3. now \in Nat /\ \A t \in Tasks : due[t] \in Nat
    BY <2>1, Zenon
  <2> QED BY <2>2, <2>3
<1>3. /\ task \in [Threads -> Tasks \cup {NoTask}]
      /\ pc \in [Threads -> WorkerLabels \cup PusherLabels \cup CloserLabels]
      /\ status \in [Tasks -> Statuses] /\ due \in [Tasks -> Time]
      /\ ready_time \in [Pushers -> Time] /\ Pushers \subseteq Threads /\ Workers \subseteq Threads
      /\ Workers \cap Pushers = {} /\ NoTask \notin Tasks
  BY ThreadsAssumption DEF TypeOK, ThreadsTypeOK, HistoryTypeOK, ManagerTypeOK, Threads
<1>4. \A p \in Pushers : pc[p] \in {"accepted", "delay"} <=> task[p] \in Tasks
  BY <1>3, Zenon DEF TypeOK, ThreadsTypeOK, ThreadOK, HoldsTask, Labels, PusherLabels
<1>5. \A p \in Pushers : pc'[p] \in {"accepted", "delay"} <=> task'[p] \in Tasks
  BY <1>1, <1>3, ZenonT(30) DEF TypeOK, ThreadsTypeOK, ThreadOK, HoldsTask, Labels, PusherLabels
<1>6. CASE TasksKept
  <2>1. ASSUME NEW p \in Pushers, pc'[p] \in {"accepted", "delay"}
        PROVE  pc[p] = pc'[p] /\ ready_time'[p] = ready_time[p] /\ task'[p] = task[p]
    <3>1. task'[p] = task[p] /\ task[p] \in Tasks
      BY <1>5, <1>6, <2>1, ZenonT(30) DEF TasksKept
    <3> QED BY <1>4, <1>6, <3>1, Zenon DEF TasksKept
  <2>2. UNCHANGED <<task, queueVars, status, due>>
    BY <1>6, ZenonT(30) DEF TasksKept
  <2>3. DueInHand'
    BY <1>0, <2>1, <2>2 DEF DueInHand
  <2>4. ASSUME NEW s \in Seqs
        PROVE  DueQueuedIn(s)'
    <3>1. DueQueuedIn(s) /\ \A i \in 1..Len(immediate_queue[s]) : due[immediate_queue[s][i]] \in Nat
      BY <1>0, <1>2, EntryTypes, Zenon DEF DueQueued
    <3> QED BY <1>2, <2>2, <3>1 DEF DueQueuedIn
  <2>5. DueRunning'
    BY <1>0, <1>2, <2>2 DEF DueRunning
  <2> QED BY <1>0, <2>2, <2>3, <2>4, <2>5, ZenonT(30) DEF DueWherever, DueNew, DueQueued
<1>7. ASSUME NEW p \in Pushers \ {Timer}, NEW t \in Tasks, pool_post(p, t) \/ runner_post(p, t)
      PROVE  DueWherever'
  <2>1. status[t] = "new" /\ UNCHANGED <<queueVars, now, due, ready_time>>
    BY <1>7, ZenonT(30) DEF pool_post, runner_post, MayPost
  <2>2. DueQueued'
    BY <1>0, <2>1 DEF DueQueued, DueQueuedIn
  <2>3. CASE Accept(p, t)
    <3>1. /\ task' = [task EXCEPT ![p] = t] /\ pc' = [pc EXCEPT ![p] = "accepted"]
          /\ status' = [status EXCEPT ![t] = "posted"]
      BY <2>3 DEF Accept, Goto
    <3>2. DueNew' /\ DueRunning'
      BY <1>0, <1>3, <2>1, <3>1 DEF DueNew, DueRunning
    <3>3. DueInHand'
      BY <1>0, <1>3, <2>1, <3>1 DEF DueNew, DueInHand
    <3> QED BY <2>2, <3>2, <3>3 DEF DueWherever
  <2>4. CASE status' = [status EXCEPT ![t] = "rejected"] /\ UNCHANGED <<task, pc>>
    BY <1>0, <1>3, <2>1, <2>2, <2>4 DEF DueWherever, DueNew, DueInHand, DueRunning
  <2> QED BY <1>7, <2>3, <2>4, Zenon DEF pool_post, runner_post
<1>8. ASSUME NEW p \in Pushers, post_task_push(p)
      PROVE  DueWherever'
  <2>1. PICK t \in Tasks, s \in Seqs : t = task[p] /\ s = TaskSeq[t] /\ due[t] = 0
    BY <1>0, <1>4, <1>8, PoolAssumption, Zenon DEF post_task_push, DueInHand
  <2>2. /\ immediate_queue' = [immediate_queue EXCEPT ![s] = Append(@, t)]
        /\ task' = [task EXCEPT ![p] = NoTask] /\ Goto(p, "push")
        /\ UNCHANGED <<delayed_queue, now, due, status, ready_time>>
    BY <1>8, <2>1, ZenonT(30) DEF post_task_push, push_task, HandOver
  <2>3. ASSUME NEW r \in Seqs, NEW i \in 1..Len(immediate_queue'[r])
        PROVE  due[immediate_queue'[r][i]] <= now
    <3>1. immediate_queue \in [Seqs -> Seq(Tasks)]
      BY DEF TypeOK, SequenceTypeOK
    <3>2. CASE r # s
      BY <1>0, <2>2, <2>3, <3>1, <3>2, ZenonT(30) DEF DueQueued, DueQueuedIn
    <3>3. CASE r = s
      <4>1. immediate_queue'[s] = Append(immediate_queue[s], t)
        BY <2>2, <3>1
      <4>2. \/ i \in 1..Len(immediate_queue[s]) /\ immediate_queue'[s][i] = immediate_queue[s][i]
            \/ immediate_queue'[s][i] = t
        BY <2>3, <3>1, <3>3, <4>1, AppendLemma, SeqLemma
      <4>3. \A j \in 1..Len(immediate_queue[s]) : due[immediate_queue[s][j]] <= now
        BY <1>0, Zenon DEF DueQueued, DueQueuedIn
      <4>4. due[t] <= now
        BY <1>2, <2>1
      <4> QED BY <3>3, <4>2, <4>3, <4>4, Zenon
    <3> QED BY <3>2, <3>3
  <2>4. DueQueued'
    <3> SUFFICES ASSUME NEW r \in Seqs PROVE DueQueuedIn(r)'
      BY Zenon DEF DueQueued
    <3>1. DueQueuedIn(r)
      BY <1>0, Zenon DEF DueQueued
    <3>2. delayed_queue' = delayed_queue /\ due' = due /\ now' = now
      BY <2>2, Zenon
    <3> QED BY <2>3, <3>1, <3>2, Zenon DEF DueQueuedIn
  <2>5. DueInHand' /\ DueRunning'
    BY <1>0, <1>3, <2>2, Zenon DEF DueInHand, DueRunning, Goto
  <2> QED BY <1>0, <2>2, <2>4, <2>5, Zenon DEF DueWherever, DueNew
<1>9. ASSUME NEW p \in Pushers, post_delayed_task_deadline(p)
      PROVE  DueWherever'
  <2>1. PICK t \in Tasks, r \in Nat : /\ t = task[p] /\ status[t] = "posted"
                          /\ due' = [due EXCEPT ![t] = r]
                          /\ ready_time' = [ready_time EXCEPT ![p] = r]
    <3>1. task[p] \in Tasks /\ status[task[p]] = "posted"
      BY <1>3, <1>4, <1>9, ZenonT(30) DEF post_delayed_task_deadline, OnePlace, PostedSomewhere
    <3>2. PICK d \in Delays : /\ due' = [due EXCEPT ![task[p]] = now + d]
                              /\ ready_time' = [ready_time EXCEPT ![p] = now + d]
      BY <1>9, Zenon DEF post_delayed_task_deadline
    <3>3. now + d \in Nat
      <4>1. now \in Nat /\ d \in Nat
        BY <1>2, PoolAssumption
      <4> QED BY ONLY <4>1
    <3> QED BY <3>1, <3>2, <3>3, Zenon
  <2>2. UNCHANGED <<queueVars, now, task, status>> /\ Goto(p, "delay")
    BY <1>9, ZenonT(30) DEF post_delayed_task_deadline
  <2>3. \A u \in Tasks : u # t => due'[u] = due[u]
    BY <1>3, <2>1
  <2>4. \A q \in Pushers : /\ pc'[q] = "accepted" => due'[task[q]] = 0
                           /\ pc'[q] = "delay" => due'[task[q]] = ready_time'[q]
    <3>1. \A q \in Pushers : q # p /\ pc[q] \in {"accepted", "delay"} => task[q] \in Tasks /\ task[q] # t
      BY <1>3, <1>4, <2>1 DEF OnePlace, HeldApart
    <3> QED BY <1>0, <1>3, <2>1, <2>2, <2>3, <3>1 DEF Goto, DueInHand
  <2>5. \A s \in Seqs : /\ \A i \in 1..Len(immediate_queue[s]) : immediate_queue[s][i] # t
                        /\ \A i \in 1..Len(delayed_queue[s]) : delayed_queue[s][i].task # t
    BY <1>3, <2>1 DEF OnePlace, QueuedNotHeld
  <2>6. ASSUME NEW s \in Seqs
        PROVE  DueQueuedIn(s)'
    <3>1. /\ DueQueuedIn(s)
          /\ \A i \in 1..Len(immediate_queue[s]) : due'[immediate_queue[s][i]] = due[immediate_queue[s][i]]
          /\ \A i \in 1..Len(delayed_queue[s]) : due'[delayed_queue[s][i].task] = due[delayed_queue[s][i].task]
      BY <1>0, <2>3, <2>5, EntryTypes DEF DueQueued
    <3> QED BY <2>2, <3>1 DEF DueQueuedIn
  <2>7. DueRunning'
    BY <1>0, <1>3, <2>1, <2>2, <2>3 DEF OnePlace, HeldApart, DueRunning
  <2>8. DueNew'
    BY <1>0, <2>1, <2>2, <2>3 DEF DueNew
  <2> QED BY <2>2, <2>4, <2>6, <2>7, <2>8, Zenon DEF DueWherever, DueQueued, DueInHand
<1>10. ASSUME NEW p \in Pushers, post_delayed_task_push(p)
       PROVE  DueWherever'
  <2>1. PICK t \in Tasks, s \in Seqs : /\ t = task[p] /\ s = TaskSeq[t]
                                       /\ due[t] = ready_time[p] /\ ready_time[p] \in Time
    BY <1>0, <1>3, <1>4, <1>10, PoolAssumption DEF post_delayed_task_push, DueInHand
  <2>2. /\ task' = [task EXCEPT ![p] = NoTask] /\ Goto(p, "add")
        /\ UNCHANGED <<immediate_queue, now, due, status, ready_time>>
    BY <1>10, ZenonT(30) DEF post_delayed_task_push, push_delayed_task, HandOver
  <2> DEFINE e == [ready_time |-> ready_time[p], task |-> t]
  <2>3. e \in DelayedTask /\ e.ready_time = due[e.task]
    BY <2>1, ZenonT(30) DEF DelayedTask
  <2>4. PICK k \in 0..Len(delayed_queue[s]) :
          delayed_queue' = [delayed_queue EXCEPT ![s] = HeapInsert(delayed_queue[s], k, e)]
    BY <1>10, <2>1, Zenon DEF post_delayed_task_push, push_delayed_task
  <2> HIDE DEF e
  <2>5. delayed_queue \in [Seqs -> Seq(DelayedTask)] /\ Len(delayed_queue[s]) \in Nat
    BY EntryTypes, ZenonT(30) DEF TypeOK, SequenceTypeOK
  <2>6. ASSUME NEW r \in Seqs, NEW i \in 1..Len(delayed_queue'[r])
        PROVE  delayed_queue'[r][i].ready_time = due[delayed_queue'[r][i].task]
    <3>1. CASE r # s
      BY <1>0, <2>4, <2>5, <2>6, <3>1 DEF DueQueued, DueQueuedIn
    <3>2. CASE r = s
      <4> DEFINE q == HeapInsert(delayed_queue[s], k, e)
      <4>1. delayed_queue'[s] = q
        BY <2>4, <2>5
      <4>2. /\ Len(q) = Len(delayed_queue[s]) + 1 /\ q[k + 1] = e
            /\ \A j \in 1..k : q[j] = delayed_queue[s][j]
            /\ \A j \in (k + 1)..Len(delayed_queue[s]) : q[j + 1] = delayed_queue[s][j]
        <5>1. delayed_queue[s] \in Seq(DelayedTask) /\ e \in DelayedTask
          BY <2>3, <2>5, Zenon
        <5> QED BY ONLY k \in 0..Len(delayed_queue[s]), <2>5, <5>1, HeapInsertLemma
      <4> HIDE DEF q
      <4>3. i = k + 1 \/ i \in 1..k \/ i - 1 \in (k + 1)..Len(delayed_queue[s])
        BY <2>5, <2>6, <3>2, <4>1, <4>2
      <4>4. q[i] = e \/ \E j \in 1..Len(delayed_queue[s]) : q[i] = delayed_queue[s][j]
        <5>1. ASSUME i - 1 \in (k + 1)..Len(delayed_queue[s])
              PROVE  i - 1 \in 1..Len(delayed_queue[s]) /\ q[i] = delayed_queue[s][i - 1]
          <6>1. (i - 1) + 1 = i /\ i - 1 \in 1..Len(delayed_queue[s])
            BY <2>5, <5>1
          <6> QED BY <4>2, <5>1, <6>1
        <5>2. ASSUME i \in 1..k
              PROVE  i \in 1..Len(delayed_queue[s]) /\ q[i] = delayed_queue[s][i]
          BY <2>5, <4>2, <5>2
        <5> QED BY <4>2, <4>3, <5>1, <5>2
      <4> QED BY <1>0, <2>3, <3>2, <4>1, <4>4 DEF DueQueued, DueQueuedIn
    <3> QED BY <3>1, <3>2, ZenonT(30)
  <2>7. DueQueued'
    BY <1>0, <2>2, <2>6 DEF DueQueued, DueQueuedIn
  <2>8. DueInHand' /\ DueRunning'
    BY <1>0, <1>3, <2>2 DEF DueInHand, DueRunning, Goto
  <2> QED BY <1>0, <2>2, <2>7, <2>8, ZenonT(30) DEF DueWherever, DueNew
<1>11. ASSUME NEW w \in Workers, take_task(w), UNCHANGED <<managerVars, status, due>>
       PROVE  DueWherever'
  <2>1. PICK s : s = source[w]
    OBVIOUS
  <2>2. s \in Seqs /\ w \in Threads /\ w \notin Pushers
    BY <1>3, <1>11, <2>1, TakeFacts
  <2>3. PICK k, q : TakesFrom(w, s, k, q) /\ PopsFrom(w, s, q)
    BY <1>11, <2>1, TakeFacts, Zenon
  <2>4. UNCHANGED <<now, status, due, ready_time>> /\ DueQueuedIn(s)
    BY <1>0, <1>11, <2>2, Zenon DEF take_task, DueQueued
  <2>5. /\ immediate_queue \in [Seqs -> Seq(Tasks)] /\ delayed_queue \in [Seqs -> Seq(DelayedTask)]
        /\ Len(immediate_queue[s]) \in Nat /\ Len(delayed_queue[s]) \in Nat
    BY <2>2, EntryTypes, Zenon DEF TypeOK, SequenceTypeOK
  <2>6. \A r \in Seqs : r # s => /\ delayed_queue'[r] = delayed_queue[r]
                                 /\ immediate_queue'[r] = immediate_queue[r]
    BY <2>2, <2>3, <2>5, ZenonT(30) DEF TakesFrom, PopsFrom
  <2>7. k \in 0..Len(delayed_queue[s]) /\ Len(q) = Len(immediate_queue[s]) + k
    BY <2>3, ZenonT(30) DEF TakesFrom
  <2>8. ASSUME NEW i \in 1..Len(q)
        PROVE  due[q[i]] <= now
    <3>1. CASE i \in 1..Len(immediate_queue[s])
      <4>1. q[i] = immediate_queue[s][i]
        BY <2>3, <3>1, Zenon DEF TakesFrom
      <4> QED BY <2>4, <3>1, <4>1, Zenon DEF DueQueuedIn
    <3>2. CASE i \notin 1..Len(immediate_queue[s])
      <4>1. PICK j \in 1..k : i = Len(immediate_queue[s]) + j
        <5>1. i - Len(immediate_queue[s]) \in 1..k
          BY <2>5, <2>7, <2>8, <3>2
        <5> QED BY <2>5, <5>1
      <4>2. q[i] = delayed_queue[s][j].task /\ j \in 1..Len(delayed_queue[s])
        <5>1. j \in 1..Len(delayed_queue[s])
          BY <2>5, <2>7
        <5> QED BY <2>3, <4>1, <5>1, Zenon DEF TakesFrom
      <4>3. delayed_queue[s][j].ready_time <= now
        BY <2>3, Zenon DEF TakesFrom, IsReadyPrefix
      <4> QED BY <2>4, <4>2, <4>3, Zenon DEF DueQueuedIn
    <3> QED BY <3>1, <3>2
  <2>9. ASSUME NEW r \in Seqs
        PROVE  DueQueuedIn(r)'
    <3>1. CASE r # s
      <4>1. DueQueuedIn(r)
        BY <1>0, Zenon DEF DueQueued
      <4>2. /\ delayed_queue'[r] = delayed_queue[r] /\ immediate_queue'[r] = immediate_queue[r]
            /\ due' = due /\ now' = now
        BY <2>4, <2>6, <3>1, Zenon
      <4> QED BY <4>1, <4>2, Zenon DEF DueQueuedIn
    <3>2. CASE r = s
      <4>1. ASSUME NEW i \in 1..Len(immediate_queue'[s])
            PROVE  due[immediate_queue'[s][i]] <= now
        <5>1. CASE UNCHANGED immediate_queue
          BY <2>4, <4>1, <5>1, Zenon DEF DueQueuedIn
        <5>2. CASE i + 1 \in 1..Len(q) /\ immediate_queue'[s][i] = q[i + 1]
          BY <2>8, <5>2, ZenonT(30)
        <5> QED BY <2>3, <4>1, <5>1, <5>2, Zenon DEF PopsFrom
      <4>2. ASSUME NEW i \in 1..Len(delayed_queue'[s])
            PROVE  delayed_queue'[s][i].ready_time = due[delayed_queue'[s][i].task]
        <5>1. i + k \in (k + 1)..Len(delayed_queue[s])
              /\ delayed_queue'[s][i] = delayed_queue[s][i + k]
          BY <2>3, <4>2, Zenon DEF TakesFrom
        <5>2. i + k \in 1..Len(delayed_queue[s])
          BY <2>5, <2>7, <5>1
        <5> QED BY <2>4, <5>1, <5>2, Zenon DEF DueQueuedIn
      <4> QED BY <2>4, <3>2, <4>1, <4>2, Zenon DEF DueQueuedIn
    <3> QED BY <3>1, <3>2
  <2>10. DueRunning'
    <3>1. CASE UNCHANGED task
      BY <1>0, <2>4, <3>1, Zenon DEF DueRunning
    <3>2. CASE task' = [task EXCEPT ![w] = q[1]] /\ q # <<>>
      <4>1. 1 \in 1..Len(q)
        BY <2>3, <3>2, FirstLemma DEF TakesFrom
      <4>2. due[q[1]] <= now
        BY <2>8, <4>1
      <4> QED BY <1>0, <1>3, <2>4, <3>2, <4>2, ZenonT(30) DEF DueRunning
    <3> QED BY <2>3, <3>1, <3>2, Zenon DEF PopsFrom
  <2>11. \A p \in Pushers : task'[p] = task[p] /\ pc'[p] = pc[p]
    BY <1>3, <2>2, <2>3, Zenon DEF PopsFrom, Goto
  <2>12. DueNew' /\ DueInHand'
    BY <1>0, <2>4, <2>11, ZenonT(30) DEF DueNew, DueInHand
  <2> QED BY <2>9, <2>10, <2>12 DEF DueWherever, DueQueued
<1>12. ASSUME NEW w \in Workers, wrap_skips(w) \/ callback_returns(w)
       PROVE  DueWherever'
  <2>1. /\ UNCHANGED <<queueVars, now, due, ready_time>> /\ task' = [task EXCEPT ![w] = NoTask]
        /\ \E f \in {"done", "skipped"} : status' = [status EXCEPT ![task[w]] = f]
        /\ \E l : Goto(w, l)
    BY <1>12, Zenon DEF wrap_skips, callback_returns
  <2>2. \A t \in Tasks : status'[t] = "new" => status[t] = "new"
    BY <1>3, <2>1
  <2>3. \A p \in Pushers : pc'[p] = pc[p] /\ task'[p] = task[p]
    BY <1>3, <2>1, Zenon DEF Goto
  <2>4. DueRunning' /\ DueQueued'
    BY <1>0, <1>3, <2>1, Zenon DEF DueRunning, DueQueued, DueQueuedIn
  <2>5. DueNew'
    BY <1>0, <2>1, <2>2, ZenonT(30) DEF DueNew
  <2>6. DueInHand'
    <3>1. due' = due /\ ready_time' = ready_time
      BY <2>1, Zenon
    <3> QED BY <1>0, <2>3, <3>1 DEF DueInHand
  <2> QED BY <2>4, <2>5, <2>6, Zenon DEF DueWherever
<1> QED BY <1>n, <1>6, <1>7, <1>8, <1>9, <1>10, <1>11, <1>12, TasksChange DEF TaskMoves
=============================================================================
