------------------------ MODULE SequencedTaskRunner ------------------------
(***************************************************************************)
(* What sequenced_task_runner.rs and thread_pool.rs promise of a sequence: *)
(* its tasks run one at a time, in the order they were posted, a delayed   *)
(* task joining the order behind the others when it is due.  There are no  *)
(* workers, no priority queue, no ownership flag and no timer here.        *)
(***************************************************************************)
EXTENDS Integers, Sequences, FiniteSets

CONSTANTS Seqs, Tasks, NoTask, MaxTime

VARIABLES
    pending,    \* [Seqs -> Seq(Tasks)], tasks in the order they will run
    timed,      \* [Seqs -> SUBSET [ready_time, task]], not yet in the order
    running,    \* [Seqs -> Tasks or NoTask]
    finished,   \* SUBSET Tasks
    clock

absVars == <<pending, timed, running, finished, clock>>

AbsInit ==
    /\ pending = [s \in Seqs |-> <<>>]
    /\ timed = [s \in Seqs |-> {}]
    /\ running = [s \in Seqs |-> NoTask]
    /\ finished = {}
    /\ clock = 0

Known(t) ==
    \/ t \in finished
    \/ \E s \in Seqs :
          \/ running[s] = t
          \/ \E i \in 1..Len(pending[s]) : pending[s][i] = t
          \/ \E d \in timed[s] : d.task = t

Post(s, t) ==
    /\ ~Known(t)
    /\ pending' = [pending EXCEPT ![s] = Append(@, t)]
    /\ UNCHANGED <<timed, running, finished, clock>>

PostDelayed(s, t, r) ==
    /\ ~Known(t)
    /\ timed' = [timed EXCEPT ![s] = @ \cup {[ready_time |-> r, task |-> t]}]
    /\ UNCHANGED <<pending, running, finished, clock>>

\* order lists the set D by ready time.
Lists(order, D) ==
    /\ \A d \in D : \E i \in DOMAIN order : order[i] = d
    /\ \A i, j \in DOMAIN order : i < j => order[i].ready_time <= order[j].ready_time

Start(s) ==
    LET D == {d \in timed[s] : d.ready_time <= clock} IN
    /\ running[s] = NoTask
    /\ \E order \in [1..Cardinality(D) -> D] :
          LET q == pending[s] \o [i \in 1..Cardinality(D) |-> order[i].task] IN
          /\ Lists(order, D)
          /\ q # <<>>
          /\ running' = [running EXCEPT ![s] = Head(q)]
          /\ pending' = [pending EXCEPT ![s] = Tail(q)]
    /\ timed' = [timed EXCEPT ![s] = @ \ D]
    /\ UNCHANGED <<finished, clock>>

Finish(s) ==
    /\ running[s] # NoTask
    /\ finished' = finished \cup {running[s]}
    /\ running' = [running EXCEPT ![s] = NoTask]
    /\ UNCHANGED <<pending, timed, clock>>

Advance ==
    /\ clock' = clock + 1
    /\ UNCHANGED <<pending, timed, running, finished>>

AbsNext ==
    \/ \E s \in Seqs, t \in Tasks :
          Post(s, t) \/ \E r \in 0..MaxTime : PostDelayed(s, t, r)
    \/ \E s \in Seqs : Start(s) \/ Finish(s)
    \/ Advance

AbsSpec == AbsInit /\ [][AbsNext]_absVars
=============================================================================
