---------------------------- MODULE MCAsyncLive ----------------------------
(***************************************************************************)
(* What must eventually happen in rust_async: block_on returns, tasks end, *)
(* a task that waits for a descriptor goes on, and what was written comes  *)
(* back.  As in MCAsync, a behaviour is of the one component that the      *)
(* variable component names.                                               *)
(***************************************************************************)
EXTENDS Integers, Sequences, FiniteSets, TLC

CONSTANTS k1, w1, r1, Main, None, s1, s2, f1, WakeFd, NoEntry

VARIABLES
    component,
    task, awoken, token, rt, from, frames, pc, current, leaf, wakes, late, awaits,
    watches, interest, generation_counter, wake, quit, readiness, io_pc, batch,
    io_current, object, wakers, ready, armed, controller, arms, io_task,
    n_pc, via, wire, shut, n_latch, buf, n_got, addrs, tried, backlog, open,
    queue, connected, waiting, d_latch, sent, d_arrived, d_got

runtimeVars == <<task, awoken, token, rt, from, frames, pc, current, leaf, wakes, late, awaits>>
reactorVars == <<watches, interest, generation_counter, wake, quit, readiness, io_pc, batch,
                 io_current, object, wakers, ready, armed, controller, arms, io_task>>
netVars == <<n_pc, via, wire, shut, n_latch, buf, n_got, addrs, tried, backlog, open>>
datagramVars == <<queue, connected, waiting, d_latch, sent, d_arrived, d_got>>
vars == <<component, runtimeVars, reactorVars, netVars, datagramVars>>

\* Every kind of await that needs a timer, another thread or another task.
Tasks ==
    INSTANCE Runtime WITH
        Tasks <- {k1}, Workers <- {w1}, Runtimes <- {r1}, Global <- r1, Serves <- w1 :> r1,
        Kinds <- {"sleep", "offload", "timeout", "join"}, Nesting <- FALSE, MaxAwaits <- 1

\* One I/O object that is not dropped.
Source ==
    INSTANCE Reactor WITH
        Fds <- {f1}, Watchers <- {s1}, MaxEvents <- 2, SourceFd <- s1 :> f1, MayDrop <- {},
        ThreadPerCore <- FALSE, current <- io_current, task <- io_task

\* An echo of three items through buffers of two.
Echo ==
    INSTANCE AsyncNet WITH
        Family <- "unix", Message <- <<1, 2, 3>>, Cap <- 2, BufLen <- 2, WriteMin <- 1,
        AddrLists <- {<<"ok">>}, pc <- n_pc, latch <- n_latch, got <- n_got

\* Two senders of two datagrams each, a queue of two.
Datagrams ==
    INSTANCE Datagram WITH
        Family <- "unix", Senders <- {s1, s2}, Receiver <- r1, Count <- 2, QueueLen <- 2,
        latch <- d_latch, arrived <- d_arrived, got <- d_got

-----------------------------------------------------------------------------
Init ==
    /\ component \in {"Tasks", "Source", "Echo", "Datagrams"}
    /\ Tasks!Init /\ Source!Init /\ Echo!Init /\ Datagrams!Init

Next ==
    \/ component = "Tasks" /\ Tasks!Next /\ UNCHANGED <<component, reactorVars, netVars, datagramVars>>
    \/ component = "Source" /\ Source!Next /\ UNCHANGED <<component, runtimeVars, netVars, datagramVars>>
    \/ component = "Echo" /\ Echo!Next /\ UNCHANGED <<component, runtimeVars, reactorVars, datagramVars>>
    \/ component = "Datagrams" /\ Datagrams!Next /\ UNCHANGED <<component, runtimeVars, reactorVars, netVars>>

\* Each component's own fairness, while the behaviour is of that component.
Fairness ==
    /\ \A th \in {Main, w1} : WF_runtimeVars(component = "Tasks" /\ Tasks!Step(th))
    /\ WF_runtimeVars(component = "Tasks" /\ \E w \in wakes : Tasks!wake(w))
    /\ \A f \in {Main, w1, k1} :
          /\ WF_runtimeVars(component = "Tasks" /\ Tasks!timer_fires(f))
          /\ WF_runtimeVars(component = "Tasks" /\ leaf[f].kind = "offload" /\ Tasks!job_ends(f))
    /\ WF_reactorVars(component = "Source" /\ Source!IoStep)
    /\ \A d \in {"Read", "Write"} :
          SF_reactorVars(component = "Source" /\ Source!TaskStep(s1, d) /\ io_task[s1][d] # "idle")
    /\ WF_netVars(component = "Echo" /\ Echo!Connecting)
    /\ WF_netVars(component = "Echo" /\ Echo!Accepting)
    /\ \A t \in Echo!Tasks :
          /\ WF_netVars(component = "Echo" /\ (Echo!Tcp(t) \/ Echo!Unix(t)))
          /\ WF_netVars(component = "Echo" /\ Echo!reactor(t))
    /\ \A s \in {s1, s2} : WF_datagramVars(component = "Datagrams" /\ Datagrams!SendStep(s))
    /\ WF_datagramVars(component = "Datagrams" /\ Datagrams!RecvStep)
    /\ \A s \in {s1, s2, r1} : WF_datagramVars(component = "Datagrams" /\ Datagrams!Ready(s))

Spec == Init /\ [][Next]_vars /\ Fairness

-----------------------------------------------------------------------------
\* block_on returns, whatever the closures a timeout waits for do; a spawned task
\* completes, also when its handle was dropped; and a task that waits for a
\* descriptor that is ready, and stays so, goes on.
FuturesComplete == Tasks!BlockOnReturns /\ Tasks!TaskCompletes /\ Source!ReadyTaskProceeds

\* Sockets: the whole message comes back, however small the buffers, and every
\* Unix datagram sent is received.
TransfersComplete ==
    /\ Echo!EchoCompletes
    /\ component = "Datagrams" => Datagrams!AllArrive

=============================================================================
