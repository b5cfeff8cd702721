------------------------------ MODULE Sequence ------------------------------
(***************************************************************************)
(* rust_task/thread_pool/sequence.rs: the queues and the ownership flag of *)
(* every Sequence of a pool.  The module has state and the methods of      *)
(* Sequence that touch it; the threads that call them are in ThreadGroup   *)
(* and DelayedTaskManager.                                                 *)
(*                                                                         *)
(* A method body between lock() and unlock() is one step.  The min-heap    *)
(* delayed_queue is its sorted contents: sequence_num is handed out under  *)
(* the lock that guards the push, so among equal ready times it orders     *)
(* entries by insertion, and an entry goes behind those already there.     *)
(***************************************************************************)
EXTENDS Integers, Sequences

CONSTANTS
    Seqs,       \* the Sequence objects
    Tasks,      \* the closures; each is posted at most once
    MaxTime     \* bound of the clock

ASSUME MaxTimeAssumption == MaxTime \in Nat

VARIABLES
    immediate_queue,    \* [Seqs -> Seq(Tasks)]
    delayed_queue,      \* [Seqs -> Seq([ready_time, task])], sorted
    has_worker,         \* [Seqs -> BOOLEAN], the atomic ownership flag
    now                 \* what Instant::now() returns

queueVars == <<immediate_queue, delayed_queue>>
sequenceVars == <<immediate_queue, delayed_queue, has_worker, now>>

Time == 0..MaxTime
DelayedTask == [ready_time : Time, task : Tasks]

SequenceInit ==
    /\ immediate_queue = [s \in Seqs |-> <<>>]
    /\ delayed_queue = [s \in Seqs |-> <<>>]
    /\ has_worker = [s \in Seqs |-> FALSE]
    /\ now = 0

SequenceTypeOK ==
    /\ immediate_queue \in [Seqs -> Seq(Tasks)]
    /\ delayed_queue \in [Seqs -> Seq(DelayedTask)]
    /\ has_worker \in [Seqs -> BOOLEAN]
    /\ now \in Time

-----------------------------------------------------------------------------
\* e may stand right behind the first p entries of the sorted sequence q.
IsHeapPosition(q, p, e) ==
    /\ p \in 0..Len(q)
    /\ \A i \in 1..p : q[i].ready_time <= e.ready_time
    /\ \A i \in (p + 1)..Len(q) : e.ready_time < q[i].ready_time

\* q with e put behind its first p entries.
HeapInsert(q, p, e) ==
    [i \in 1..(Len(q) + 1) |-> IF i <= p THEN q[i]
                               ELSE IF i = p + 1 THEN e ELSE q[i - 1]]

\* q without its first k entries.
DropFirst(q, k) == [i \in 1..(Len(q) - k) |-> q[i + k]]

\* flush_ready_delayed_tasks pops entries until the head is not due: k of them.
IsReadyPrefix(q, k) ==
    /\ k \in 0..Len(q)
    /\ \A i \in 1..k : q[i].ready_time <= now
    /\ k < Len(q) => now < q[k + 1].ready_time

\* Mutant of push_task: push_front for push_back.
push_task_front(s, t) ==
    /\ immediate_queue' = [immediate_queue EXCEPT ![s] = <<t>> \o @]
    /\ UNCHANGED delayed_queue

push_task(s, t) ==
    /\ immediate_queue' = [immediate_queue EXCEPT ![s] = Append(@, t)]
    /\ UNCHANGED delayed_queue

push_delayed_task(s, t, ready) ==
    LET q == delayed_queue[s]
        e == [ready_time |-> ready, task |-> t]
    IN  /\ \E p \in 0..Len(q) :
              /\ IsHeapPosition(q, p, e)
              /\ delayed_queue' = [delayed_queue EXCEPT ![s] = HeapInsert(q, p, e)]
        /\ UNCHANGED immediate_queue

\* Mutant of FlushedQueue: the popped tasks go to the front.
FlushedQueue_front(s, k) ==
    [i \in 1..k |-> delayed_queue[s][i].task] \o immediate_queue[s]

\* immediate_queue after flush_ready_delayed_tasks moved k delayed tasks to it.
FlushedQueue(s, k) ==
    immediate_queue[s] \o [i \in 1..k |-> delayed_queue[s][i].task]

\* Mutant of has_ready_tasks: the delayed queue is forgotten.
has_ready_tasks_immediate(s) == immediate_queue[s] # <<>>

has_ready_tasks(s) ==
    \/ immediate_queue[s] # <<>>
    \/ delayed_queue[s] # <<>> /\ delayed_queue[s][1].ready_time <= now

\* The clock moves on between any two steps of the threads.
Tick ==
    /\ now < MaxTime
    /\ now' = now + 1
    /\ UNCHANGED <<immediate_queue, delayed_queue, has_worker>>
=============================================================================
