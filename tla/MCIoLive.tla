------------------------------ MODULE MCIoLive ------------------------------
(***************************************************************************)
(* What must eventually happen in rust_io, rust_net and the timer and      *)
(* monitor of rust_task.  As in MCIo, a behaviour is of the one component  *)
(* that the variable component names; the runner and the sockets have the  *)
(* pump's variables in common.                                             *)
(***************************************************************************)
EXTENDS IoTaskRunner, TLC

CONSTANTS t1, t2, c1, s1, f1, o1, NoOp, NoFd

VARIABLES
    component,
    fd, controller, pending, gen, timers, outcome, role, dead, scope,
    at, active, buf, slot, connected, queued, produced, wire, arrived, taken, broken,
    plaintext, record,
    content, op, f_posted, f_running, replies, issued, called, io, model,
    timer_active, started, starting, timer_pending, firing, receiver,
    m_now, m_slot, job, m_shutdown, flag, dog, hung, reported, dropper, metrics

runnerOwn == <<queueVars, handleVars, loopVars, callerVars, now>>
socketOwn == <<fd, controller, pending, gen, timers, outcome, role, dead, scope>>
socketVars == <<pumpVars, socketOwn>>
tlsVars == <<at, active, buf, slot, connected, queued, produced, wire, arrived, taken, broken,
             plaintext, record>>
proxyVars == <<content, op, f_posted, f_running, replies, issued, called, io, model>>
timerVars == <<timer_active, started, starting, timer_pending, firing, receiver>>
monitorVars == <<m_now, m_slot, job, m_shutdown, flag, dog, hung, reported, dropper, metrics>>

\* The callback of t1 posts t2 to the runner it is on.
ReplyFromFirst == (t1 :> {t2}) @@ (t2 :> {})

\* One socket and one operation: with a timeout, and as a read_if_ready without
\* one and with one.
TimedSocket ==
    INSTANCE TcpSocket WITH
        Ops <- {o1}, Timed <- {o1}, Notify <- {}, Events <- Flags,
        FullDuplex <- FALSE, CrossSocket <- FALSE

NotifySocket ==
    INSTANCE TcpSocket WITH
        Ops <- {o1}, Timed <- {}, Notify <- {o1}, Events <- Flags,
        FullDuplex <- FALSE, CrossSocket <- FALSE

TimedNotifySocket ==
    INSTANCE TcpSocket WITH
        Ops <- {o1}, Timed <- {o1}, Notify <- {o1}, Events <- Flags,
        FullDuplex <- FALSE, CrossSocket <- FALSE

Tls ==
    INSTANCE TlsClientSocket WITH
        Ops <- 1..5,
        OpKind <- <<"handshake", "read", "read", "write", "disconnect">>,
        Incoming <- <<"hs", "hs", "update", "app", "update", "app", "close">>,
        RecordLen <- 2, Chunk <- 3, Deframe <- 2, Overlap <- FALSE

Proxy ==
    INSTANCE FileProxy WITH
        Kinds <- {"read", "append", "write_all"}, Data <- {<<1, 2>>, <<3>>},
        Sequenced <- TRUE, MayShutDown <- TRUE, MaxOps <- 2,
        posted <- f_posted, running <- f_running

Timer ==
    INSTANCE RepeatingTimer WITH
        Users <- {"u1", "u2"}, MaxStarts <- 2, active <- timer_active, pending <- timer_pending

\* A watchdog that is only woken by its timeout or by drop.
Monitor ==
    INSTANCE TaskMonitor WITH
        Workers <- {"worker"}, Threshold <- 1, Interval <- 1, SpuriousWakeups <- FALSE,
        PromptWatchdog <- TRUE, MaxTime <- 3, now <- m_now, slot <- m_slot,
        shutdown <- m_shutdown

-----------------------------------------------------------------------------
IoInit ==
    /\ component \in {"Runner", "TimedSocket", "NotifySocket", "TimedNotifySocket", "Tls", "Proxy",
                      "Timer", "Monitor"}
    /\ Init /\ TimedSocket!Init /\ Tls!Init /\ Proxy!Init /\ Timer!Init /\ Monitor!Init

OnlyRunner == UNCHANGED <<component, socketOwn, tlsVars, proxyVars, timerVars, monitorVars>>
OnlySocket == UNCHANGED <<component, runnerOwn, tlsVars, proxyVars, timerVars, monitorVars>>
OnlyTls == UNCHANGED <<component, vars, socketOwn, proxyVars, timerVars, monitorVars>>
OnlyProxy == UNCHANGED <<component, vars, socketOwn, tlsVars, timerVars, monitorVars>>
OnlyTimer == UNCHANGED <<component, vars, socketOwn, tlsVars, proxyVars, monitorVars>>
OnlyMonitor == UNCHANGED <<component, vars, socketOwn, tlsVars, proxyVars, timerVars>>

IoNext ==
    \/ component = "Runner" /\ Next /\ OnlyRunner
    \/ component = "TimedSocket" /\ TimedSocket!Next /\ OnlySocket
    \/ component = "NotifySocket" /\ NotifySocket!Next /\ OnlySocket
    \/ component = "TimedNotifySocket" /\ TimedNotifySocket!Next /\ OnlySocket
    \/ component = "Tls" /\ Tls!Next /\ OnlyTls
    \/ component = "Proxy" /\ Proxy!Next /\ OnlyProxy
    \/ component = "Timer" /\ Timer!Next /\ OnlyTimer
    \/ component = "Monitor" /\ Monitor!Next /\ OnlyMonitor

ioVars == <<component, vars, socketOwn, tlsVars, proxyVars, timerVars, monitorVars>>

\* Each component's own fairness, while the behaviour is of that component.
TimedSockets == {"TimedSocket", "TimedNotifySocket"}

IoFairness ==
    /\ WF_vars(component = "Runner" /\ IoStep)
    /\ WF_vars(component = "Runner" /\ Tick)
    /\ WF_vars(component = "Runner" /\ PostGoesOn(c1))
    /\ SF_vars(component = "Runner" /\ CloseStep(c1))
    /\ WF_socketVars(\/ component = "TimedSocket" /\ TimedSocket!LoopGoesOn
                     \/ component = "TimedNotifySocket" /\ TimedNotifySocket!LoopGoesOn)
    /\ WF_socketVars(component \in TimedSockets /\ TimedSocket!user_returns)
    /\ WF_socketVars(component \in TimedSockets /\ TimedSocket!do_work_done)
    /\ SF_socketVars(component \in TimedSockets /\ TimedSocket!fire_connect_timeout)
    /\ SF_socketVars(component \in TimedSockets /\ TimedSocket!fire_read_timeout)
    /\ SF_socketVars(component \in TimedSockets /\ TimedSocket!fire_write_timeout)
    /\ \A o \in 1..5 : WF_tlsVars(component = "Tls" /\ Tls!Pump(o))
    /\ WF_tlsVars(component = "Tls" /\ Tls!transport_writable)
    /\ WF_tlsVars(component = "Tls" /\ Tls!transport_readable)
    /\ WF_proxyVars(component = "Proxy" /\ Proxy!take)
    /\ WF_proxyVars(component = "Proxy" /\ Proxy!callback)
    /\ \A i \in 1..2 :
          /\ WF_proxyVars(component = "Proxy" /\ Proxy!truncate(i))
          /\ WF_proxyVars(component = "Proxy" /\ Proxy!finish(i))
    /\ WF_timerVars(component = "Timer" /\ Timer!Runner)
    /\ \A g \in 1..2 : SF_timerVars(component = "Timer" /\ Timer!bind_once(g))
    /\ WF_timerVars(component = "Timer" /\ Timer!method_returns)
    /\ \A u \in {"u1", "u2"} : WF_timerVars(component = "Timer" /\ Timer!start_schedule(u))
    /\ WF_monitorVars(component = "Monitor" /\ Monitor!Tick)
    /\ WF_monitorVars(component = "Monitor" /\ Monitor!Watchdog)
    /\ WF_monitorVars(component = "Monitor" /\ Monitor!drop_notify)
    /\ WF_monitorVars(component = "Monitor" /\ Monitor!drop_join)

IoLiveSpec == IoInit /\ [][IoNext]_ioVars /\ IoFairness

-----------------------------------------------------------------------------
\* Every operation that was started ends: a socket's that has a timeout, each TLS
\* and file operation (until the IO runner is shut down), shutdown() of the runner
\* and the drop of the monitor.
OperationsEnd ==
    /\ component \in TimedSockets => TimedSocket!TimedOpEnds
    /\ Tls!OperationEnds
    /\ Proxy!CallbackComes
    /\ ShutdownReturns
    /\ Monitor!DropReturns

\* What was scheduled comes: a task the runner accepted, the next tick of a timer
\* that was not stopped, the report of a task that hangs.
ScheduledComes == AcceptedTaskRuns /\ Timer!TimerTicks /\ Monitor!HangReported

=============================================================================
