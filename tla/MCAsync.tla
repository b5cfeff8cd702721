------------------------------ MODULE MCAsync ------------------------------
(***************************************************************************)
(* The runtime, the reactor, the I/O types and the streams of rust_async.  *)
(* The models share no state, so a behaviour is of one of them, the value  *)
(* of component, and the others stay as they begin.                        *)
(***************************************************************************)
EXTENDS Naturals, Sequences, TLC

CONSTANTS
    k1, k2, k3, w1, w2, r1, r2, Main, None,     \* tasks, workers, runtimes
    s1, s2, f1, WakeFd, NoEntry             \* sources and their descriptor

VARIABLES
    component,
    task, awoken, token, rt, from, frames, pc, current, leaf, wakes, late, awaits,
    watches, interest, generation_counter, wake, quit, readiness, io_pc, batch,
    io_current, object, wakers, ready, armed, controller, arms, io_task,
    n_pc, via, wire, shut, n_latch, buf, n_got, addrs, tried, backlog, open,
    queue, connected, waiting, d_latch, sent, d_arrived, d_got,
    content, pos, f_leftover, f_busy, jobs, f_op, f_ops, cursor, last,
    s_arrived, taken, s_leftover, s_busy, buffered, written, s_op, s_ops, s_got, accepted,
    flushed,
    pipeline, consumer,
    now, fired, waker, scheduled, due, waking, t_task, consumed

runtimeVars == <<task, awoken, token, rt, from, frames, pc, current, leaf, wakes, late,
                 awaits>>
reactorVars == <<watches, interest, generation_counter, wake, quit, readiness, io_pc, batch,
                 io_current, object, wakers, ready, armed, controller,
                 arms, io_task>>
netVars == <<n_pc, via, wire, shut, n_latch, buf, n_got, addrs, tried, backlog, open>>
datagramVars == <<queue, connected, waiting, d_latch, sent, d_arrived, d_got>>
fileVars == <<content, pos, f_leftover, f_busy, jobs, f_op, f_ops, cursor, last>>
stdVars == <<s_arrived, taken, s_leftover, s_busy, buffered, written, s_op, s_ops, s_got,
             accepted, flushed>>
streamVars == <<pipeline, consumer>>
intervalVars == <<now, fired, waker, scheduled, due, waking, t_task, consumed>>

-----------------------------------------------------------------------------
\* Two runtimes with a worker each; a task may call block_on.
Contexts ==
    INSTANCE Runtime WITH
        Tasks <- {k1, k2}, Workers <- {w1, w2}, Runtimes <- {r1, r2}, Global <- r1,
        Serves <- (w1 :> r1) @@ (w2 :> r2), Kinds <- {"yield"}, Nesting <- TRUE, MaxAwaits <- 1

\* block_on alone, with three awaits one after the other.
BlockOn ==
    INSTANCE Runtime WITH
        Tasks <- {}, Workers <- {w1}, Runtimes <- {r1}, Global <- r1, Serves <- w1 :> r1,
        Kinds <- {"yield", "sleep", "offload", "timeout"}, Nesting <- FALSE, MaxAwaits <- 3

\* A task that is spawned, and every kind of await.
Spawned ==
    INSTANCE Runtime WITH
        Tasks <- {k3}, Workers <- {w1}, Runtimes <- {r1}, Global <- r1, Serves <- w1 :> r1,
        Kinds <- {"yield", "sleep", "offload", "timeout", "join"}, Nesting <- FALSE,
        MaxAwaits <- 1

\* One I/O object used by a pool's tasks: polls and drops race with the IO thread.
PoolSource ==
    INSTANCE Reactor WITH
        Fds <- {f1}, Watchers <- {s1}, MaxEvents <- 2, SourceFd <- s1 :> f1, MayDrop <- {s1},
        ThreadPerCore <- FALSE, current <- io_current, task <- io_task

\* Thread-per-core: the tasks run on the IO thread, and when the first object was
\* dropped the second gets its descriptor number.
LaneSource ==
    INSTANCE Reactor WITH
        Fds <- {f1}, Watchers <- {s1, s2}, MaxEvents <- 2,
        SourceFd <- (s1 :> f1) @@ (s2 :> f1), MayDrop <- {s1}, ThreadPerCore <- TRUE,
        current <- io_current, task <- io_task

\* An echo of three items through buffers of two: TCP with every kind of address
\* list, and a Unix stream.
Tcp ==
    INSTANCE AsyncNet WITH
        Family <- "tcp", Message <- <<1, 2, 3>>, Cap <- 2, BufLen <- 2, WriteMin <- 0,
        AddrLists <- {<<>>, <<"ok">>, <<"refused", "unreachable">>,
                      <<"unreachable", "refused", "ok">>, <<"ok", "refused">>},
        pc <- n_pc, latch <- n_latch, got <- n_got

Unix ==
    INSTANCE AsyncNet WITH
        Family <- "unix", Message <- <<1, 2, 3>>, Cap <- 2, BufLen <- 2, WriteMin <- 1,
        AddrLists <- {<<"ok">>}, pc <- n_pc, latch <- n_latch, got <- n_got

\* Two senders of two datagrams each, a queue of two.
Udp ==
    INSTANCE Datagram WITH
        Family <- "udp", Senders <- {s1, s2}, Receiver <- r1, Count <- 2, QueueLen <- 2,
        latch <- d_latch, arrived <- d_arrived, got <- d_got

UnixDatagram ==
    INSTANCE Datagram WITH
        Family <- "unix", Senders <- {s1, s2}, Receiver <- r1, Count <- 2, QueueLen <- 2,
        latch <- d_latch, arrived <- d_arrived, got <- d_got

\* Cursor operations that run to their end, beside another task's positional ones.
FileCursor ==
    INSTANCE AsyncFile WITH
        Tasks <- {1, 2}, StartContent <- <<1, 2, 3>>, Data <- {<<4, 5>>},
        BufLens <- {2}, MaxLen <- 2, Cancellable <- {"write_at"}, MaxOps <- 3,
        Kinds <- {"read", "write", "seek_start", "seek_current", "seek_end", "write_at", "set_len"},
        leftover <- f_leftover, busy <- f_busy, op <- f_op, ops <- f_ops

\* Reads whose futures may be dropped, beside positional reads and an append.
FileReads ==
    INSTANCE AsyncFile WITH
        Tasks <- {1, 2}, StartContent <- <<1, 2, 3>>, Data <- {<<4, 5>>, <<6>>},
        BufLens <- {0, 1, 2}, MaxLen <- 1, Cancellable <- {"read"}, MaxOps <- 3,
        Kinds <- {"read", "read_at", "append"},
        leftover <- f_leftover, busy <- f_busy, op <- f_op, ops <- f_ops

\* Reads may be dropped, writes and flushes run to their end.
Std ==
    INSTANCE StdStreams WITH
        Input <- <<1, 2, 3>>, Slices <- {<<4, 5>>, <<6, 7>>}, BufLens <- {0, 1, 2},
        Cancellable <- {"read"}, MaxOps <- 4, arrived <- s_arrived, leftover <- s_leftover,
        busy <- s_busy, op <- s_op, ops <- s_ops, got <- s_got

\* Every pipeline of up to two combinators over short sources.
Stream == INSTANCE Streams WITH Items <- {1, 2}, MaxLen <- 3, MaxTake <- 2

\* A consumer that is slow, and polled for other reasons.
Ticks == INSTANCE Interval WITH Period <- 2, MaxTime <- 8, MayBusy <- TRUE, task <- t_task

ASSUME Contexts!RuntimeAssumption /\ BlockOn!RuntimeAssumption /\ Spawned!RuntimeAssumption
ASSUME PoolSource!ReactorAssumption /\ LaneSource!ReactorAssumption
ASSUME Tcp!NetAssumption /\ Unix!NetAssumption
ASSUME Udp!DatagramAssumption /\ UnixDatagram!DatagramAssumption
ASSUME FileCursor!FileAssumption /\ FileReads!FileAssumption /\ Std!StreamsAssumption
ASSUME Stream!StreamAssumption /\ Ticks!IntervalAssumption

-----------------------------------------------------------------------------
vars == <<component, runtimeVars, reactorVars, netVars, datagramVars, fileVars, stdVars,
          streamVars, intervalVars>>

Init ==
    /\ component \in {"Contexts", "BlockOn", "Spawned", "PoolSource", "LaneSource", "Tcp", "Unix",
                      "Udp", "UnixDatagram", "FileCursor", "FileReads", "Std", "Stream", "Ticks"}
    /\ CASE component = "BlockOn" -> BlockOn!Init
         [] component = "Spawned" -> Spawned!Init
         [] OTHER -> Contexts!Init
    /\ IF component = "LaneSource" THEN LaneSource!Init ELSE PoolSource!Init
    /\ IF component = "Tcp" THEN Tcp!Init ELSE Unix!Init
    /\ Udp!Init /\ FileReads!Init /\ Std!Init /\ Ticks!Init
    /\ Stream!Init /\ (component # "Stream" => consumer = Stream!Consumer("next", Stream!once(1)))

OnlyRuntime == UNCHANGED <<component, reactorVars, netVars, datagramVars, fileVars, stdVars,
                           streamVars, intervalVars>>
OnlyReactor == UNCHANGED <<component, runtimeVars, netVars, datagramVars, fileVars, stdVars,
                           streamVars, intervalVars>>
OnlyNet == UNCHANGED <<component, runtimeVars, reactorVars, datagramVars, fileVars, stdVars,
                       streamVars, intervalVars>>
OnlyDatagram == UNCHANGED <<component, runtimeVars, reactorVars, netVars, fileVars, stdVars,
                            streamVars, intervalVars>>
OnlyFile == UNCHANGED <<component, runtimeVars, reactorVars, netVars, datagramVars, stdVars,
                        streamVars, intervalVars>>
OnlyStd == UNCHANGED <<component, runtimeVars, reactorVars, netVars, datagramVars, fileVars,
                       streamVars, intervalVars>>
OnlyStream == UNCHANGED <<component, runtimeVars, reactorVars, netVars, datagramVars, fileVars,
                          stdVars, intervalVars>>
OnlyTicks == UNCHANGED <<component, runtimeVars, reactorVars, netVars, datagramVars, fileVars,
                         stdVars, streamVars>>

Next ==
    \/ component = "Contexts" /\ Contexts!Next /\ OnlyRuntime
    \/ component = "BlockOn" /\ BlockOn!Next /\ OnlyRuntime
    \/ component = "Spawned" /\ Spawned!Next /\ OnlyRuntime
    \/ component = "PoolSource" /\ PoolSource!Next /\ OnlyReactor
    \/ component = "LaneSource" /\ LaneSource!Next /\ OnlyReactor
    \/ component = "Tcp" /\ Tcp!Next /\ OnlyNet
    \/ component = "Unix" /\ Unix!Next /\ OnlyNet
    \/ component = "Udp" /\ Udp!Next /\ OnlyDatagram
    \/ component = "UnixDatagram" /\ UnixDatagram!Next /\ OnlyDatagram
    \/ component = "FileCursor" /\ FileCursor!Next /\ OnlyFile
    \/ component = "FileReads" /\ FileReads!Next /\ OnlyFile
    \/ component = "Std" /\ Std!Next /\ OnlyStd
    \/ component = "Stream" /\ Stream!poll /\ OnlyStream
    \/ component = "Ticks" /\ Ticks!Next /\ OnlyTicks

Spec == Init /\ [][Next]_vars

\* The tasks of Contexts are alike, and no other component has them.
AsyncSymmetry == Permutations({k1, k2})

-----------------------------------------------------------------------------
\* The state of every component has its type.
TypeOK ==
    /\ CASE component = "BlockOn" -> BlockOn!TypeOK
         [] component = "Spawned" -> Spawned!TypeOK
         [] OTHER -> Contexts!TypeOK
    /\ IF component = "LaneSource" THEN LaneSource!TypeOK ELSE PoolSource!TypeOK
    /\ IF component = "FileCursor" THEN FileCursor!TypeOK ELSE FileReads!TypeOK
    /\ Std!TypeOK /\ Stream!TypeOK /\ Ticks!TypeOK

\* Task-locals and runtime found on a thread are those of the future it runs, and
\* a task spawned without naming a runtime is on its spawner's.
ContextIsOwn == component = "Contexts" => Contexts!ContextIsOwn /\ Contexts!SpawnInherits

\* No wake is lost: of a suspended future, of the thread block_on parks, or of a
\* task that waits for a descriptor, whose waker is where the event will find it
\* and whose watch is known to epoll.
NoLostWake ==
    /\ CASE component = "BlockOn" -> BlockOn!NoLostWake
         [] component = "Spawned" -> Spawned!NoLostWake
         [] OTHER -> Contexts!NoLostWake
    /\ IF component = "LaneSource"
       THEN LaneSource!NoStrandedWaker /\ LaneSource!WatchIsInEpoll
       ELSE PoolSource!NoStrandedWaker /\ PoolSource!WatchIsInEpoll

\* What goes through sockets, files and standard streams is neither lost, repeated
\* nor reordered, through short reads and writes and dropped reads; the end is
\* seen after everything; connect takes the first address that answers.
BytesInOrder ==
    /\ Tcp!StreamInOrder /\ Tcp!EofMeansAll /\ Tcp!ConnectTriesInOrder
    /\ Udp!ReceivedOnce
    /\ FileReads!CursorFaithful /\ FileReads!NoByteLost
    /\ Std!InputInOrder /\ Std!OutputIsWritten /\ Std!FlushMeansOut

\* stream.rs: a pending source loses, repeats and reorders no item, take(n) takes
\* no more than n, and an interval has one tick under way, wakes its consumer and
\* keeps its ticks a period apart.
StreamsFaithful ==
    /\ Stream!NothingLost /\ Stream!TakeLeavesTheRest
    /\ Ticks!OneTick /\ Ticks!NoLostTick /\ Ticks!TicksApart

=============================================================================
