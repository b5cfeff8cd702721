------------------------------ MODULE Reactor ------------------------------
(***************************************************************************)
(* rust_async/reactor.rs on the pump, with the operations of net.rs and    *)
(* os/unix/net.rs above it: an operation tries its system call and, when   *)
(* it would block, waits on the Source of its descriptor; the Source keeps *)
(* one waker and one latched readiness per direction, and arms a one-shot  *)
(* watch by posting a task to the IO thread.                               *)
(*                                                                         *)
(* Each Source has a task that reads and a task that writes.  Dropping the *)
(* I/O object closes the descriptor and then lets the Source go; another   *)
(* object may get the number in between.                                   *)
(***************************************************************************)
EXTENDS EpollPump, SequencesExt

CONSTANTS
    SourceFd,       \* [Sources -> Fds], the number each descriptor gets
    MayDrop,        \* sources whose I/O object is dropped, pending futures first
    ThreadPerCore   \* do the tasks run on the IO thread?

Sources == Watchers

ReactorAssumption ==
    /\ SourceFd \in [Sources -> Fds] /\ WakeFd \notin Fds
    /\ MayDrop \subseteq Sources
    /\ ThreadPerCore \in BOOLEAN

VARIABLES
    object,     \* [Sources -> "unborn", "open", "closed" or "gone"]
    wakers,     \* [Sources -> SUBSET Direction], slots that hold a waker
    ready,      \* [Sources -> SUBSET Direction], read_ready and write_ready
    armed,      \* [Sources -> SUBSET Direction], {} for None
    controller, \* [Sources -> controller]
    arms,       \* the arm tasks in the IO runner's queue, [source, mode]
    task        \* [Sources -> [Direction -> STRING]], where each task is

sourceVars == <<object, wakers, ready, armed, controller, arms, task>>
vars == <<pumpVars, sourceVars>>

Init ==
    /\ PumpInit
    /\ object = [s \in Sources |-> "unborn"]
    /\ wakers = [s \in Sources |-> {}]
    /\ ready = [s \in Sources |-> {}]
    /\ armed = [s \in Sources |-> {}]
    /\ controller = [s \in Sources |-> NoController]
    /\ arms = <<>>
    /\ task = [s \in Sources |-> [d \in Direction |-> "idle"]]

TypeOK ==
    /\ PumpTypeOK
    /\ object \in [Sources -> {"unborn", "open", "closed", "gone"}]
    /\ wakers \in [Sources -> SUBSET Direction]
    /\ ready \in [Sources -> SUBSET Direction]
    /\ armed \in [Sources -> SUBSET Direction]
    /\ controller \in [Sources -> [fd : Fds \cup {WakeFd}, generation : Nat]]
    /\ arms \in Seq([source : Sources, mode : WatchMode])
    /\ task \in [Sources -> [Direction -> {"idle", "try", "poll", "parked", "woken"}]]

-----------------------------------------------------------------------------
(* Who can still use a Source, and what happens when nobody can.           *)

\* Queued arm tasks and the callback in progress hold references.
Held(s, queue, cur) == (\E i \in DOMAIN queue : queue[i].source = s) \/ cur.watcher = s

\* The last reference of s goes: its controller unregisters what it has.
Release(s, W, I) ==
    /\ watches' = UnregisterWatch(W, controller[s])
    /\ interest' = UnregisterInterest(W, I, controller[s])

\* Steps of the IO thread, and of tasks when they share it.
OnIoThread == ThreadPerCore => \A s \in Sources : object[s] # "closed"
TaskMayRun == ThreadPerCore => io_pc = "work"

-----------------------------------------------------------------------------
(* Source: update_arm, poll_readable, poll_writable.                       *)

\* Mutant of update_arm: ask only for what is new.
update_arm_new(s, w, a) ==
    IF w = a \/ w = {} THEN arms' = arms
    ELSE arms' = Append(arms, [source |-> s, mode |-> IF w \ a = {} THEN w ELSE w \ a])

\* The directions with a waker differ from what is armed: post an arm task.
\* post_task happens under the state lock, so the posts keep this order.
update_arm(s, w, a) ==
    IF w = a \/ w = {} THEN arms' = arms ELSE arms' = Append(arms, [source |-> s, mode |-> w])

\* The system call of an operation.
try(s, d) ==
    /\ TaskMayRun /\ object[s] = "open" /\ task[s][d] \in {"idle", "try"}
    /\ \/ /\ readiness[SourceFd[s]] \cap {d, "Error"} # {}
          /\ task' = [task EXCEPT ![s][d] = "idle"]
          /\ readiness' = [readiness EXCEPT ![SourceFd[s]] = @ \ {d}]
       \/ /\ readiness[SourceFd[s]] \cap {d, "Error"} = {}
          /\ task' = [task EXCEPT ![s][d] = "poll"]
          /\ UNCHANGED readiness
    /\ UNCHANGED <<watches, interest, generation_counter, wake, quit, io_pc, batch, current,
                   object, wakers, ready, armed, controller, arms>>

\* poll_readable and poll_writable, for a task that was woken or polls anyway.
PollSource(s, d) ==
    /\ TaskMayRun /\ object[s] = "open" /\ task[s][d] \in {"poll", "woken"}
    /\ IF d \in ready[s]
         THEN /\ ready' = [ready EXCEPT ![s] = @ \ {d}]
              /\ task' = [task EXCEPT ![s][d] = "try"]
              /\ UNCHANGED <<wakers, armed, arms>>
         ELSE /\ wakers' = [wakers EXCEPT ![s] = @ \cup {d}]
              /\ armed' = [armed EXCEPT ![s] = wakers[s] \cup {d}]
              /\ update_arm(s, wakers[s] \cup {d}, armed[s])
              /\ task' = [task EXCEPT ![s][d] = "parked"]
              /\ UNCHANGED ready
    /\ UNCHANGED <<pumpVars, object, controller>>

poll_readable(s) == PollSource(s, "Read")

poll_writable(s) == PollSource(s, "Write")

\* The future that waits is dropped: nothing takes its waker back.
drop_future(s, d) ==
    /\ TaskMayRun /\ s \in MayDrop /\ object[s] = "open" /\ task[s][d] # "idle"
    /\ task' = [task EXCEPT ![s][d] = "idle"]
    /\ UNCHANGED <<pumpVars, object, wakers, ready, armed, controller, arms>>

-----------------------------------------------------------------------------
(* The I/O object.                                                         *)

create(s) ==
    /\ TaskMayRun /\ object[s] = "unborn"
    /\ \A t \in Sources : object[t] = "open" => SourceFd[t] # SourceFd[s]
    /\ object' = [object EXCEPT ![s] = "open"]
    /\ UNCHANGED <<pumpVars, wakers, ready, armed, controller, arms, task>>

\* The fields of Inner are dropped in order: io, which closes the descriptor,
close_fd(s) ==
    /\ TaskMayRun /\ s \in MayDrop /\ object[s] = "open"
    /\ \A d \in Direction : task[s][d] = "idle"
    /\ object' = [object EXCEPT ![s] = "closed"]
    /\ interest' = [interest EXCEPT ![SourceFd[s]] = {}]
    /\ readiness' = [readiness EXCEPT ![SourceFd[s]] = {}]
    /\ UNCHANGED <<watches, generation_counter, wake, quit, io_pc, batch, current,
                   wakers, ready, armed, controller, arms, task>>

\* ... then source.
drop_source(s) ==
    /\ object[s] = "closed"
    /\ object' = [object EXCEPT ![s] = "gone"]
    /\ IF Held(s, arms, current) THEN UNCHANGED <<watches, interest>> ELSE Release(s, watches, interest)
    /\ UNCHANGED <<generation_counter, wake, quit, readiness, io_pc, batch, current,
                   wakers, ready, armed, controller, arms, task>>

-----------------------------------------------------------------------------
(* The IO thread: arm tasks, the loop, the callbacks.                      *)

\* fetch_add on the counter: a generation is only compared for equality, so
\* the least one no entry and no controller has stands for the next value.
FreshGeneration ==
    Min((0..(2 * Cardinality(Sources)))
        \ ({watches[f].generation : f \in {g \in Fds : watches[g] # NoEntry}}
             \cup {controller[s].generation : s \in Sources}))

\* The number is that of an open descriptor: epoll_ctl succeeds.
FdIsOpen(f) == \E s \in Sources : SourceFd[s] = f /\ object[s] = "open"

\* The arm task: watch_file_descriptor cancels the controller's old watch and
\* makes the epoll_ctl call ...
arm(s) ==
    /\ OnIoThread /\ io_pc = "work" /\ arms # <<>> /\ Head(arms).source = s
    /\ watches' = UnregisterWatch(watches, controller[s])
    /\ LET I == UnregisterInterest(watches, interest, controller[s]) IN
       IF FdIsOpen(SourceFd[s])
         THEN interest' = EpollCtl(I, SourceFd[s], Head(arms).mode) /\ io_pc' = "insert"
         ELSE interest' = I /\ io_pc' = "armed"
    /\ generation_counter' = FreshGeneration
    /\ controller' = [controller EXCEPT ![s] = NoController]
    /\ UNCHANGED <<wake, quit, readiness, batch, current, object, wakers, ready, armed, arms, task>>

\* ... and then inserts the entry under the lock of the table.
arm_insert(s) ==
    /\ io_pc = "insert" /\ Head(arms).source = s
    /\ watches' = InsertWatch(watches, SourceFd[s], NewEntry(s, FALSE, Head(arms).mode))
    /\ controller' = [controller EXCEPT ![s] = [fd |-> SourceFd[s], generation |-> generation_counter]]
    /\ io_pc' = "armed"
    /\ UNCHANGED <<interest, generation_counter, wake, quit, readiness, batch, current,
                   object, wakers, ready, armed, arms, task>>

\* The task ends and drops its reference.
arm_ends(s) ==
    /\ io_pc = "armed" /\ Head(arms).source = s
    /\ arms' = Tail(arms)
    /\ io_pc' = "work"
    /\ IF object[s] = "gone" /\ ~Held(s, Tail(arms), current)
         THEN Release(s, watches, interest) ELSE UNCHANGED <<watches, interest>>
    /\ UNCHANGED <<generation_counter, wake, quit, readiness, batch, current,
                   object, wakers, ready, armed, controller, task>>

do_work_done ==
    /\ OnIoThread /\ io_pc = "work" /\ arms = <<>>
    /\ io_pc' = "wait"
    /\ UNCHANGED <<watches, interest, generation_counter, wake, quit, readiness, batch, current, sourceVars>>

\* A Weak<Source> upgrades while the object or another holder is there.
Alive == {s \in Sources : object[s] \in {"open", "closed"} \/ Held(s, arms, current)}

loop_step ==
    /\ epoll_wait(arms # <<>> \/ ThreadPerCore) \/ take_event(Alive) \/ end_of_batch
    /\ UNCHANGED sourceVars

\* The one-shot watch is gone; re-arm for the direction that still waits.
AfterCallback(s, w) == armed' = [armed EXCEPT ![s] = w] /\ update_arm(s, w, {})

\* on_file_can_read and on_file_can_write: latch, take the waker, re-arm, wake.
OnFileCan(d) ==
    /\ Calling(d)
    /\ LET s == current.watcher
           w == wakers[s] \ {d} IN
       /\ ready' = [ready EXCEPT ![s] = @ \cup {d}]
       /\ wakers' = [wakers EXCEPT ![s] = w]
       /\ AfterCallback(s, w)
       /\ task' = IF d \in wakers[s] /\ task[s][d] = "parked"
                  THEN [task EXCEPT ![s][d] = "woken"] ELSE task
       /\ CallbackReturns
       /\ IF object[s] = "gone" /\ ~Held(s, arms', current')
            THEN Release(s, watches, interest) ELSE UNCHANGED <<watches, interest>>
    /\ UNCHANGED <<generation_counter, wake, quit, readiness, batch, object, controller>>

on_file_can_read == OnFileCan("Read")

on_file_can_write == OnFileCan("Write")

EnvReady ==
    /\ \E s \in Sources, f \in Flags :
          /\ object[s] = "open" /\ f \notin readiness[SourceFd[s]]
          /\ readiness' = [readiness EXCEPT ![SourceFd[s]] = @ \cup {f}]
    /\ UNCHANGED <<watches, interest, generation_counter, wake, quit, io_pc, batch, current, sourceVars>>

IoStep ==
    \/ \E s \in Sources : arm(s) \/ arm_insert(s) \/ arm_ends(s)
    \/ do_work_done \/ loop_step \/ on_file_can_read \/ on_file_can_write

TaskStep(s, d) ==
    \/ try(s, d)
    \/ d = "Read" /\ poll_readable(s)
    \/ d = "Write" /\ poll_writable(s)

Next ==
    \/ IoStep
    \/ \E s \in Sources :
          \/ \E d \in Direction : TaskStep(s, d) \/ drop_future(s, d)
          \/ create(s) \/ close_fd(s) \/ drop_source(s)
    \/ EnvReady

Spec == Init /\ [][Next]_vars

\* The IO thread runs, and a task that is not waiting is polled.
LiveSpec ==
    /\ Spec
    /\ WF_vars(IoStep)
    /\ \A s \in Sources, d \in Direction : SF_vars(TaskStep(s, d) /\ task[s][d] # "idle")

-----------------------------------------------------------------------------
\* What the pump will do for s once the arm tasks queued now have run.
LastArm(s) == SelectLastInSeq(arms, LAMBDA a : a.source = s)

WillCall(s, d) ==
    \/ LastArm(s) # 0 /\ d \in arms[LastArm(s)].mode
    \/ /\ LastArm(s) = 0
       /\ watches[SourceFd[s]] # NoEntry
       /\ watches[SourceFd[s]].watcher = s /\ d \in watches[SourceFd[s]].mode
    \/ current.watcher = s

\* A direction with a waker is in the last arm task posted for the Source, or
\* in the watch, or its callback (which re-arms) is on the way: no interleaving
\* of polls, arm tasks and callbacks leaves a waker that nothing will wake.
NoStrandedWaker ==
    \A s \in Sources, d \in Direction : object[s] = "open" =>
        /\ task[s][d] = "parked" => d \in wakers[s]
        /\ d \in wakers[s] => WillCall(s, d)

\* A watch of a live object is known to epoll: the controller of an earlier
\* object with the same descriptor number cannot cancel it.
WatchIsInEpoll ==
    \A f \in Fds : watches[f] # NoEntry /\ object[watches[f].watcher] = "open" =>
        interest[f] = watches[f].mode \/ (io_pc = "insert" /\ SourceFd[Head(arms).source] = f)

\* A task that waits for a descriptor that is ready, and stays so, goes on.
ReadyTaskProceeds ==
    \A s \in Sources, d \in Direction :
        (task[s][d] = "parked" /\ d \in readiness[SourceFd[s]] /\ object[s] = "open")
            ~> (task[s][d] # "parked" \/ object[s] # "open")

=============================================================================
