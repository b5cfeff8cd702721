-------------------------- MODULE SyncPrimitives ---------------------------
(***************************************************************************)
(* rust_async/sync.rs: the wait set, and what one locked region of each    *)
(* primitive does to it.  A primitive is a record; a step returns the new  *)
(* record (obj), whether the future resolves (ready) and the tasks whose   *)
(* wakers it calls (wakes).                                                *)
(*                                                                         *)
(* A task has at most one future of a primitive, so the task stands for    *)
(* the future's wait id: order holds the tasks that have an id, in the     *)
(* order of the ids, and parked those with a waker in the map.             *)
(***************************************************************************)
EXTENDS Naturals, Sequences

Waiters == [order |-> <<>>, parked |-> {}]

HasId(w, t) == \E i \in DOMAIN w.order : w.order[i] = t

park(w, t) ==
    [order |-> IF HasId(w, t) THEN w.order ELSE Append(w.order, t), parked |-> w.parked \cup {t}]

\* unpark after id.take(), or from the future's Drop: the id is gone too.
unpark(w, t) == [order |-> SelectSeq(w.order, LAMBDA u : u # t), parked |-> w.parked \ {t}]

\* What wake_all and wake_one leave; the woken are w.parked and FirstParked.
wake_all(w) == [w EXCEPT !.parked = {}]

FirstParked(w) ==
    LET longest == SelectSeq(w.order, LAMBDA t : t \in w.parked) IN
    IF longest = <<>> THEN {} ELSE {Head(longest)}

wake_one(w) == [w EXCEPT !.parked = @ \ FirstParked(w)]

Ready(o) == [obj |-> o, ready |-> TRUE, wakes |-> {}]
Pending(o) == [obj |-> o, ready |-> FALSE, wakes |-> {}]
Waking(o, woken) == [obj |-> o, ready |-> TRUE, wakes |-> woken]

-----------------------------------------------------------------------------
(* Mutex                                                                   *)

Mutex == [locked |-> FALSE, waiters |-> Waiters]

\* Lock::poll
lock_poll(m, t) ==
    IF ~m.locked THEN Ready([locked |-> TRUE, waiters |-> unpark(m.waiters, t)])
    ELSE Pending([m EXCEPT !.waiters = park(@, t)])

\* Mutant of lock_drop: a dropped future unlocks.
lock_drop_unlock(m, t) == [locked |-> FALSE, waiters |-> unpark(m.waiters, t)]

\* Lock::drop
lock_drop(m, t) == [m EXCEPT !.waiters = unpark(@, t)]

\* Mutant of guard_drop: hand over to one waiter.
guard_drop_one(m) ==
    Waking([locked |-> FALSE, waiters |-> wake_one(m.waiters)], FirstParked(m.waiters))

\* MutexGuard::drop
guard_drop(m) == Waking([locked |-> FALSE, waiters |-> wake_all(m.waiters)], m.waiters.parked)

-----------------------------------------------------------------------------
(* RwLock                                                                  *)

RwLock == [readers |-> 0, writer |-> FALSE, read_waiters |-> Waiters, write_waiters |-> Waiters]

\* Read::poll
read_poll(l, t) ==
    IF ~l.writer
    THEN Ready([l EXCEPT !.readers = @ + 1, !.read_waiters = unpark(@, t)])
    ELSE Pending([l EXCEPT !.read_waiters = park(@, t)])

\* Mutant of write_poll: only other writers keep a writer out.
write_poll_shared(l, t) ==
    IF ~l.writer
    THEN Ready([l EXCEPT !.writer = TRUE, !.write_waiters = unpark(@, t)])
    ELSE Pending([l EXCEPT !.write_waiters = park(@, t)])

\* Write::poll
write_poll(l, t) ==
    IF ~l.writer /\ l.readers = 0
    THEN Ready([l EXCEPT !.writer = TRUE, !.write_waiters = unpark(@, t)])
    ELSE Pending([l EXCEPT !.write_waiters = park(@, t)])

\* Read::drop and Write::drop
read_drop(l, t) == [l EXCEPT !.read_waiters = unpark(@, t)]

write_drop(l, t) == [l EXCEPT !.write_waiters = unpark(@, t)]

\* RwLockReadGuard::drop: the last reader wakes the writers.
read_guard_drop(l) ==
    IF l.readers = 1
    THEN Waking([l EXCEPT !.readers = 0, !.write_waiters = wake_all(@)], l.write_waiters.parked)
    ELSE Waking([l EXCEPT !.readers = @ - 1], {})

\* Mutant of write_guard_drop: prefer the writers.
write_guard_drop_writers(l) ==
    IF l.write_waiters.parked # {}
    THEN Waking([l EXCEPT !.writer = FALSE, !.write_waiters = wake_all(@)], l.write_waiters.parked)
    ELSE Waking([l EXCEPT !.writer = FALSE, !.read_waiters = wake_all(@)], l.read_waiters.parked)

\* RwLockWriteGuard::drop: readers and writers contend again.
write_guard_drop(l) ==
    Waking([l EXCEPT !.writer = FALSE, !.write_waiters = wake_all(@), !.read_waiters = wake_all(@)],
           l.write_waiters.parked \cup l.read_waiters.parked)

-----------------------------------------------------------------------------
(* Barrier                                                                 *)

Barrier == [count |-> 0, generation |-> 0, waiters |-> Waiters]

\* Mutant of barrier_join: one too few.
barrier_join_early(b, t, n) ==
    IF b.count + 2 >= n
    THEN Waking([count |-> 0, generation |-> b.generation + 1, waiters |-> wake_all(b.waiters)],
                b.waiters.parked)
    ELSE Pending([b EXCEPT !.count = @ + 1, !.waiters = park(@, t)])

\* BarrierWait::poll before the future was counted: join, and trip if it
\* completes the group of n.
barrier_join(b, t, n) ==
    IF b.count + 1 >= n
    THEN Waking([count |-> 0, generation |-> b.generation + 1, waiters |-> wake_all(b.waiters)],
                b.waiters.parked)
    ELSE Pending([b EXCEPT !.count = @ + 1, !.waiters = park(@, t)])

\* BarrierWait::poll of a future counted in generation joined.
barrier_poll(b, t, joined) ==
    IF b.generation # joined THEN Ready([b EXCEPT !.waiters = unpark(@, t)])
    ELSE Pending([b EXCEPT !.waiters = park(@, t)])

-----------------------------------------------------------------------------
(* channel                                                                 *)

channel == [items |-> <<>>, recv_waiters |-> Waiters, senders |-> 1, receivers |-> 1]

\* Sender::send with receivers left; without, the value comes back.
send(c, v) ==
    Waking([c EXCEPT !.items = Append(@, v), !.recv_waiters = wake_all(@)], c.recv_waiters.parked)

\* Mutant of sender_clone: the clone is not counted.
sender_clone_uncounted(c) == c

\* Sender::clone, Receiver::clone and Receiver::drop
sender_clone(c) == [c EXCEPT !.senders = @ + 1]

receiver_clone(c) == [c EXCEPT !.receivers = @ + 1]

receiver_drop(c) == [c EXCEPT !.receivers = @ - 1]

\* Sender::drop: the last one wakes the receivers.
sender_drop(c) ==
    IF c.senders = 1
    THEN Waking([c EXCEPT !.senders = 0, !.recv_waiters = wake_all(@)], c.recv_waiters.parked)
    ELSE Waking([c EXCEPT !.senders = @ - 1], {})

\* Mutant of recv_poll: the value stays in the queue.
recv_poll_peek(c, t) ==
    IF c.items # <<>> \/ c.senders = 0 THEN Ready([c EXCEPT !.recv_waiters = unpark(@, t)])
    ELSE Pending([c EXCEPT !.recv_waiters = park(@, t)])

\* Recv::poll: a value, the end of the channel, or wait.
recv_poll(c, t) ==
    IF c.items # <<>> THEN Ready([c EXCEPT !.items = Tail(@), !.recv_waiters = unpark(@, t)])
    ELSE IF c.senders = 0 THEN Ready([c EXCEPT !.recv_waiters = unpark(@, t)])
    ELSE Pending([c EXCEPT !.recv_waiters = park(@, t)])

\* Recv::drop
recv_drop(c, t) == [c EXCEPT !.recv_waiters = unpark(@, t)]

-----------------------------------------------------------------------------
(* Condvar: a wait set of its own.                                         *)

Condvar == Waiters

notify_one(cv) == Waking(wake_one(cv), FirstParked(cv))

notify_all(cv) == Waking(wake_all(cv), cv.parked)

=============================================================================
