---------------------------- MODULE SocketPosix ----------------------------
(***************************************************************************)
(* rust_net/socket_posix.rs on the pump: the four slots for pending        *)
(* operations, the one-shot watch behind them, timeouts with generations,  *)
(* cancel, close and drop.                                                 *)
(*                                                                         *)
(* Everything runs on the IO thread.  User code runs there too, as posted  *)
(* tasks and as callbacks (io_pc = "user"); it may start and cancel any    *)
(* operations before it returns to the loop.  An operation is a model      *)
(* value with the result its callback was called with.                     *)
(***************************************************************************)
EXTENDS EpollPump

CONSTANTS
    Ops,
    NoOp,
    Timed,      \* operations started with the _with_timeout form
    Notify,     \* reads that are a read_if_ready
    NoFd,       \* INVALID_FD
    Events,     \* the flags the peers and the network may raise
    FullDuplex, \* may user code keep a read and a write pending on a socket?
    CrossSocket \* may a callback of one socket use the others?

Sockets == Watchers

ASSUME SocketAssumption ==
    /\ Timed \subseteq Ops /\ Notify \subseteq Ops
    /\ NoOp \notin Ops /\ NoFd \notin Fds /\ WakeFd \notin Fds
    /\ Events \subseteq Flags
    /\ FullDuplex \in BOOLEAN /\ CrossSocket \in BOOLEAN

VARIABLES
    fd,         \* [Sockets -> Fds or NoFd]
    controller, \* [Sockets -> [Direction -> controller]], read_ and write_watcher
    pending,    \* [Sockets -> [Slots -> Ops or NoOp]]
    gen,        \* [Sockets -> [Slots -> Nat]], accept's stays 0
    timers,     \* delayed tasks posted by schedule_timeout
    outcome,    \* [Ops -> Outcome]
    role,       \* [Sockets -> Role], what the kernel's socket is good for
    dead,       \* sockets whose last reference is gone
    scope       \* the sockets the user code that is running may use

socketVars == <<fd, controller, pending, gen, timers, outcome, role, dead, scope>>
vars == <<pumpVars, socketVars>>

Slots == {"connect", "read", "write", "accept"}
SlotDirection(slot) == IF slot \in {"read", "accept"} THEN "Read" ELSE "Write"

Role == {"none", "connected", "listening"}

Final == {"Ok", "Err", "WouldBlock", "TimedOut", "Dropped"}
Outcome == Final \cup {"new", "pending"}

Init ==
    /\ PumpInit
    /\ fd = [s \in Sockets |-> NoFd]
    /\ controller = [s \in Sockets |-> [d \in Direction |-> NoController]]
    /\ pending = [s \in Sockets |-> [slot \in Slots |-> NoOp]]
    /\ gen = [s \in Sockets |-> [slot \in Slots |-> 0]]
    /\ timers = {}
    /\ outcome = [o \in Ops |-> "new"]
    /\ role = [s \in Sockets |-> "none"]
    /\ dead = {}
    /\ scope = {}

TypeOK ==
    /\ PumpTypeOK
    /\ fd \in [Sockets -> Fds \cup {NoFd}]
    /\ pending \in [Sockets -> [Slots -> Ops \cup {NoOp}]]
    /\ outcome \in [Ops -> Outcome]
    /\ role \in [Sockets -> Role]
    /\ \A s \in Sockets, slot \in Slots :
          pending[s][slot] # NoOp => outcome[pending[s][slot]] = "pending"

-----------------------------------------------------------------------------
(* Pieces of the operations.                                               *)

FreeFds == Fds \ {fd[s] : s \in Sockets}
FreshSockets == {s \in Sockets \ dead : fd[s] = NoFd /\ gen[s] = [slot \in Slots |-> 0]}

\* Mutant of Arm: a controller that was attached once is taken to be watching.
Arm_once(s, f, d) ==
    IF controller[s][d] # NoController
      THEN UNCHANGED <<interest, watches, generation_counter, controller>>
      ELSE /\ interest' = EpollCtl(interest, f, {d})
           /\ watches' = InsertWatch(watches, f, NewEntry(s, FALSE, {d}))
           /\ generation_counter' = generation_counter + 1
           /\ controller' = [controller EXCEPT ![s][d] = [fd |-> f, generation |-> generation_counter]]

\* Cancel the controller's old watch, register the new one-shot one, attach.
Arm(s, f, d) ==
    LET c == controller[s][d] IN
    /\ interest' = EpollCtl(UnregisterInterest(watches, interest, c), f, {d})
    /\ watches' = InsertWatch(UnregisterWatch(watches, c), f, NewEntry(s, FALSE, {d}))
    /\ generation_counter' = generation_counter + 1
    /\ controller' = [controller EXCEPT ![s][d] = [fd |-> f, generation |-> generation_counter]]

arm_read(s) == Arm(s, fd[s], "Read")

arm_write(s, f) == Arm(s, f, "Write")

\* stop_watching_file_descriptor on the controllers of directions D.
StopWatching(s, D) ==
    LET W(d) == IsCurrentWatch(watches, controller[s][d]) IN
    /\ watches' = [f \in Fds |-> IF \E d \in D : W(d) /\ controller[s][d].fd = f
                                 THEN NoEntry ELSE watches[f]]
    /\ interest' = [f \in Fds |-> IF \E d \in D : W(d) /\ controller[s][d].fd = f
                                  THEN {} ELSE interest[f]]
    /\ controller' = [controller EXCEPT ![s] = [d \in Direction |-> IF d \in D THEN NoController ELSE @[d]]]

\* What a non-blocking call in direction d returns for readiness R.
SysResult(R, d) ==
    CASE "Error" \in R -> {"Ok", "Err"}
      [] d \in R       -> {"Ok"}
      [] OTHER         -> {"WouldBlock"}

\* A transfer may use up the readiness, or leave some.
SysConsume(f, d) == readiness' \in {readiness, [readiness EXCEPT ![f] = @ \ {d}]}

\* A new operation takes its slot; a callback still there is dropped uncalled.
Park(s, slot, o) ==
    /\ pending' = [pending EXCEPT ![s][slot] = o]
    /\ outcome' = [p \in Ops |-> CASE p = o -> "pending"
                                   [] p = pending[s][slot] -> "Dropped"
                                   [] OTHER -> outcome[p]]

Deliver(o, r) == outcome' = [outcome EXCEPT ![o] = r]

DropAll(s) ==
    /\ pending' = [pending EXCEPT ![s] = [slot \in Slots |-> NoOp]]
    /\ outcome' = [p \in Ops |-> IF \E slot \in Slots : pending[s][slot] = p
                                 THEN "Dropped" ELSE outcome[p]]

Bump(s, slot) == gen' = [gen EXCEPT ![s][slot] = @ + 1]

\* Mutant of schedule_timeout: the generation before the operation's own.
schedule_timeout_early(s, slot, o) ==
    timers' = timers \cup {[sock |-> s, slot |-> slot, gen |-> gen[s][slot], op |-> o]}

\* my_gen, read before the operation bumps it.
schedule_timeout(s, slot, o) ==
    timers' = timers \cup {[sock |-> s, slot |-> slot, gen |-> gen[s][slot] + 1, op |-> o]}

-----------------------------------------------------------------------------
(* Operations, called by user code.                                        *)

\* The user keeps to one operation at a time, or to one read and one write.
CanStart(s, slot, o) ==
    /\ io_pc = "user" /\ s \in scope /\ fd[s] # NoFd
    /\ role[s] = (CASE slot = "connect" -> "none" [] slot = "accept" -> "listening" [] OTHER -> "connected")
    /\ outcome[o] = "new"
    /\ \A p \in Slots : pending[s][p] # NoOp => FullDuplex /\ {slot, p} = {"read", "write"}

UnchangedByStart == UNCHANGED <<wake, quit, io_pc, batch, current, dead>>
NotArmed == UNCHANGED <<watches, interest, generation_counter, controller, pending>>

Connected(s, r) == role' = IF r = "Ok" THEN [role EXCEPT ![s] = "connected"] ELSE role

\* On the descriptor f: connected or refused at once, or EINPROGRESS.
connect_fd(s, f, o) ==
    /\ Bump(s, "connect")
    /\ \/ \E r \in {"Ok", "Err"} : Deliver(o, r) /\ NotArmed /\ Connected(s, r)
       \/ Park(s, "connect", o) /\ arm_write(s, f) /\ UNCHANGED role
    /\ UNCHANGED <<readiness, scope>> /\ UnchangedByStart

connect(s, o) == CanStart(s, "connect", o) /\ connect_fd(s, fd[s], o) /\ UNCHANGED fd

read_if_ready(s, o) ==
    /\ CanStart(s, "read", o) /\ o \in Notify
    /\ Bump(s, "read")
    /\ Park(s, "read", o) /\ arm_read(s)
    /\ UNCHANGED <<readiness, fd, role, scope>> /\ UnchangedByStart

read(s, o) ==
    /\ CanStart(s, "read", o) /\ o \notin Notify
    /\ Bump(s, "read")
    /\ \E r \in SysResult(readiness[fd[s]], "Read") :
          IF r = "WouldBlock"
            THEN Park(s, "read", o) /\ arm_read(s) /\ UNCHANGED readiness
            ELSE Deliver(o, r) /\ NotArmed /\ SysConsume(fd[s], "Read")
    /\ UNCHANGED <<fd, role, scope>> /\ UnchangedByStart

write(s, o) ==
    /\ CanStart(s, "write", o)
    /\ Bump(s, "write")
    /\ \E r \in SysResult(readiness[fd[s]], "Write") :
          IF r = "WouldBlock"
            THEN Park(s, "write", o) /\ arm_write(s, fd[s]) /\ UNCHANGED readiness
            ELSE Deliver(o, r) /\ NotArmed /\ SysConsume(fd[s], "Write")
    /\ UNCHANGED <<fd, role, scope>> /\ UnchangedByStart

connect_with_timeout(s, o) == connect(s, o) /\ schedule_timeout(s, "connect", o)
read_if_ready_with_timeout(s, o) == read_if_ready(s, o) /\ schedule_timeout(s, "read", o)
read_with_timeout(s, o) == read(s, o) /\ schedule_timeout(s, "read", o)
write_with_timeout(s, o) == write(s, o) /\ schedule_timeout(s, "write", o)

\* What do_accept may return: a connection that is waiting comes as a socket of
\* its own.
do_accept(s) ==
    UNION {CASE r = "Ok" /\ FreeFds # {} /\ FreshSockets # {} ->
                  [result : {"Ok"}, peer : FreshSockets, fd : FreeFds]
             [] r = "WouldBlock" -> {[result |-> r, peer |-> s, fd |-> fd[s]]}
             [] OTHER -> {[result |-> "Err", peer |-> s, fd |-> fd[s]]}
           : r \in SysResult(readiness[fd[s]], "Read")}

\* The connection is taken from the listener and wrapped in a socket.
Accepted(s, new) ==
    /\ IF new.result = "Ok" THEN SysConsume(fd[s], "Read") ELSE UNCHANGED readiness
    /\ fd' = [fd EXCEPT ![new.peer] = new.fd]
    /\ Connected(new.peer, new.result)

accept(s, o) ==
    /\ CanStart(s, "accept", o) /\ o \notin Timed
    /\ \E new \in do_accept(s) :
          /\ Accepted(s, new)
          /\ IF new.result = "WouldBlock"
               THEN Park(s, "accept", o) /\ arm_read(s)
               ELSE Deliver(o, new.result) /\ NotArmed
          /\ scope' = scope \cup {new.peer}
    /\ UNCHANGED <<wake, quit, io_pc, batch, current, gen, timers, dead>>

open(s) ==
    /\ io_pc = "user" /\ s \in scope /\ fd[s] = NoFd
    /\ \E f \in FreeFds : fd' = [fd EXCEPT ![s] = f]
    /\ UNCHANGED <<pumpVars, controller, pending, gen, timers, outcome, role, dead, scope>>

\* Wrap a descriptor that is connected already.
from_fd(s) ==
    /\ io_pc = "user" /\ s \in FreshSockets
    /\ \E f \in FreeFds : fd' = [fd EXCEPT ![s] = f]
    /\ role' = [role EXCEPT ![s] = "connected"]
    /\ scope' = scope \cup {s}
    /\ UNCHANGED <<pumpVars, controller, pending, gen, timers, outcome, dead>>

\* bind, then listen.
listen(s) ==
    /\ io_pc = "user" /\ s \in scope /\ fd[s] # NoFd /\ role[s] = "none"
    /\ pending[s]["connect"] = NoOp
    /\ role' = [role EXCEPT ![s] = "listening"]
    /\ UNCHANGED <<pumpVars, fd, controller, pending, gen, timers, outcome, dead, scope>>

\* Mutant of Cancel: stop the watch and leave the callback in its slot.
Cancel_watch(s, slot) ==
    /\ io_pc = "user" /\ s \in scope
    /\ pending[s][slot] # NoOp
    /\ UNCHANGED pending
    /\ outcome' = [outcome EXCEPT ![pending[s][slot]] = "Dropped"]
    /\ StopWatching(s, {SlotDirection(slot)})
    /\ UNCHANGED <<generation_counter, wake, quit, readiness, io_pc, batch, current,
                   fd, gen, timers, role, dead, scope>>

Cancel(s, slot) ==
    /\ io_pc = "user" /\ s \in scope
    /\ pending[s][slot] # NoOp
    /\ pending' = [pending EXCEPT ![s][slot] = NoOp]
    /\ outcome' = [outcome EXCEPT ![pending[s][slot]] = "Dropped"]
    /\ StopWatching(s, {SlotDirection(slot)})
    /\ UNCHANGED <<generation_counter, wake, quit, readiness, io_pc, batch, current,
                   fd, gen, timers, role, dead, scope>>

cancel_accept(s) == Cancel(s, "accept")
cancel_read(s) == Cancel(s, "read")
cancel_write(s) == Cancel(s, "write")

\* The kernel forgets what it had for a descriptor when it is closed.
Closed(s) ==
    /\ fd[s] # NoFd
    /\ fd' = [fd EXCEPT ![s] = NoFd]
    /\ role' = [role EXCEPT ![s] = "none"]
    /\ readiness' = [readiness EXCEPT ![fd[s]] = {}]
    /\ DropAll(s)
    /\ UNCHANGED <<generation_counter, wake, quit, io_pc, batch, current, gen, timers>>

\* Mutant of close: the write side keeps its watch.
close_read(s) ==
    /\ io_pc = "user" /\ s \in scope
    /\ Closed(s)
    /\ StopWatching(s, {"Read"})
    /\ UNCHANGED <<dead, scope>>

close(s) ==
    /\ io_pc = "user" /\ s \in scope
    /\ Closed(s)
    /\ StopWatching(s, Direction)
    /\ UNCHANGED <<dead, scope>>

\* Drop for SocketPosix, then for its controllers.  A callback in progress
\* holds a reference.
drop(s) ==
    /\ io_pc = "user" /\ s \in scope /\ current.watcher # s
    /\ Closed(s)
    /\ StopWatching(s, Direction)
    /\ dead' = dead \cup {s}
    /\ scope' = scope \ {s}

-----------------------------------------------------------------------------
(* The loop: posted tasks, timeouts that are due, callbacks of the pump.   *)

EnterUser(s) == io_pc' = "user" /\ scope' = IF CrossSocket THEN Sockets \ dead ELSE {s}

user_task ==
    /\ io_pc = "work"
    /\ io_pc' = "user"
    /\ \E s \in Sockets \ dead : scope' = IF CrossSocket THEN Sockets \ dead ELSE {s}
    /\ UNCHANGED <<watches, interest, generation_counter, wake, quit, readiness, batch, current,
                   fd, controller, pending, gen, timers, outcome, role, dead>>

user_returns ==
    /\ io_pc = "user"
    /\ scope' = {}
    /\ IF current = NoCalls
         THEN io_pc' = "work" /\ UNCHANGED current
         ELSE CallbackReturns
    /\ UNCHANGED <<watches, interest, generation_counter, wake, quit, readiness, batch,
                   fd, controller, pending, gen, timers, outcome, role, dead>>

\* Mutant of IsCurrent: any operation in the slot will do.
IsCurrent_any(t) == TRUE

\* The generation says whether the timeout is for the operation in the slot.
IsCurrent(t) == gen[t.sock][t.slot] = t.gen

\* fire_connect_timeout, fire_read_timeout, fire_write_timeout.
fire_timeout(slot) ==
    /\ io_pc = "work"
    /\ \E t \in timers :
          /\ t.slot = slot
          /\ timers' = timers \ {t}
          /\ IF t.sock \notin dead /\ IsCurrent(t) /\ pending[t.sock][slot] # NoOp
               THEN /\ pending' = [pending EXCEPT ![t.sock][slot] = NoOp]
                    /\ StopWatching(t.sock, {SlotDirection(slot)})
                    /\ Deliver(pending[t.sock][slot], "TimedOut")
                    /\ EnterUser(t.sock)
               ELSE UNCHANGED <<watches, interest, controller, pending, outcome, io_pc, scope>>
    /\ UNCHANGED <<generation_counter, wake, quit, readiness, batch, current, fd, gen, role, dead>>

fire_connect_timeout == fire_timeout("connect")
fire_read_timeout == fire_timeout("read")
fire_write_timeout == fire_timeout("write")

\* The queues are empty; nobody asks the loop to quit here.
do_work_done ==
    /\ io_pc = "work"
    /\ io_pc' = "wait"
    /\ UNCHANGED <<watches, interest, generation_counter, wake, quit, readiness, batch, current, socketVars>>

\* Other threads post and timers become due at any time.
loop_step ==
    /\ epoll_wait(TRUE) \/ take_event(Sockets \ dead) \/ end_of_batch
    /\ UNCHANGED socketVars

UnchangedByCallback == UNCHANGED <<watches, interest, generation_counter, wake, quit, batch,
                                   controller, gen, timers, dead>>

on_file_can_read ==
    /\ Calling("Read")
    /\ LET s == current.watcher
           a == pending[s]["accept"]
           o == pending[s]["read"] IN
       CASE a # NoOp ->
              /\ pending' = [pending EXCEPT ![s]["accept"] = NoOp]
              /\ \E new \in do_accept(s) :
                    /\ Accepted(s, new)
                    /\ Deliver(a, new.result)
                    /\ scope' = IF CrossSocket THEN Sockets \ dead ELSE {s, new.peer}
              /\ io_pc' = "user" /\ UNCHANGED current
         [] a = NoOp /\ o # NoOp ->
              /\ pending' = [pending EXCEPT ![s]["read"] = NoOp]
              /\ IF o \in Notify
                   THEN Deliver(o, "Ok") /\ UNCHANGED readiness
                   ELSE /\ \E r \in SysResult(readiness[current.fd], "Read") : Deliver(o, r)
                        /\ SysConsume(current.fd, "Read")
              /\ EnterUser(s) /\ UNCHANGED <<fd, role, current>>
         [] OTHER -> CallbackReturns /\ UNCHANGED <<pending, outcome, readiness, fd, role, scope>>
    /\ UnchangedByCallback

on_file_can_write ==
    /\ Calling("Write")
    /\ LET s == current.watcher
           c == pending[s]["connect"]
           o == pending[s]["write"] IN
       CASE c # NoOp ->  \* check_connect_error
              /\ pending' = [pending EXCEPT ![s]["connect"] = NoOp]
              /\ LET r == IF "Error" \in readiness[current.fd] THEN "Err" ELSE "Ok" IN
                 Deliver(c, r) /\ Connected(s, r)
              /\ EnterUser(s) /\ UNCHANGED <<readiness, current>>
         [] c = NoOp /\ o # NoOp ->
              /\ pending' = [pending EXCEPT ![s]["write"] = NoOp]
              /\ \E r \in SysResult(readiness[current.fd], "Write") : Deliver(o, r)
              /\ SysConsume(current.fd, "Write")
              /\ EnterUser(s) /\ UNCHANGED <<role, current>>
         [] OTHER -> CallbackReturns /\ UNCHANGED <<pending, outcome, readiness, role, scope>>
    /\ UNCHANGED fd /\ UnchangedByCallback

\* The peer or the network makes a descriptor ready.  It may do so at any time;
\* the steps named are the ones after which a descriptor is looked at.
EnvReady ==
    /\ io_pc \in {"user", "wait", "callback"}
    /\ \E s \in Sockets, f \in Events :
          /\ fd[s] # NoFd /\ f \notin readiness[fd[s]]
          /\ readiness' = [readiness EXCEPT ![fd[s]] = @ \cup {f}]
    /\ UNCHANGED <<watches, interest, generation_counter, wake, quit, io_pc, batch, current, socketVars>>

LoopStep ==
    \/ fire_connect_timeout \/ fire_read_timeout \/ fire_write_timeout
    \/ loop_step \/ on_file_can_read \/ on_file_can_write

-----------------------------------------------------------------------------
(* Properties.                                                             *)

\* The pump will call s for direction d: it has the watch, or the call is due.
WillCall(s, d) ==
    \/ /\ watches[fd[s]] # NoEntry
       /\ watches[fd[s]].watcher = s /\ d \in watches[fd[s]].mode
       /\ interest[fd[s]] = watches[fd[s]].mode
    \/ /\ current.watcher = s /\ current.fd = fd[s]
       /\ \E i \in DOMAIN current.calls : current.calls[i] = d /\ (io_pc = "user" => i > 1)

\* An operation in a slot has a watch that will bring it to its callback: the
\* callbacks take the slot before they call, a new operation arms after it
\* fills the slot, cancel and timeout empty the slot when they stop the watch.
PendingIsWatched ==
    \A s \in Sockets, slot \in Slots : pending[s][slot] # NoOp => WillCall(s, SlotDirection(slot))

\* A watch belongs to the socket that owns the descriptor now: close and drop
\* leave no entry behind that would report the descriptor's next owner.
WatchOwned == \A f \in Fds : watches[f] # NoEntry => fd[watches[f].watcher] = f

\* A pending operation that was given a timeout still has it: the generation
\* captured before the call is the one the call gives the operation.
TimeoutArmed ==
    \A s \in Sockets, slot \in Slots :
        pending[s][slot] \in Timed =>
            [sock |-> s, slot |-> slot, gen |-> gen[s][slot], op |-> pending[s][slot]] \in timers

\* Watches and timers follow what they were made for: none is left for another
\* owner, and none is taken from an operation that still needs it.
NothingStale == WatchOwned /\ TimeoutArmed

\* A callback is called once, and one that was cancelled, replaced or closed
\* over is never called.
CalledOnce == \A o \in Ops : outcome[o] \in Final => outcome'[o] = outcome[o]

\* A timeout ends the operation it was scheduled for, never a later one in the
\* same slot.
TimeoutHitsItsOwn ==
    \A o \in Ops : outcome[o] # "TimedOut" /\ outcome'[o] = "TimedOut" =>
        \E t \in timers \ timers' : t.op = o

\* An operation ends once, and by nothing that was meant for another.
EndsOnce == [][CalledOnce /\ TimeoutHitsItsOwn]_vars

\* An operation with a timeout ends.
TimedOpEnds == \A o \in Timed : (outcome[o] = "pending") ~> (outcome[o] \in Final)

=============================================================================
