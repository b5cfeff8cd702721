-------------------------------- MODULE MCIo -------------------------------
(***************************************************************************)
(* The IO thread's runner and what is built on it and on the task runners: *)
(* TLS, the file proxy, the repeating timer and the task monitor.  They    *)
(* share no state, so a behaviour is of one of them, the value of          *)
(* component, and the others stay as they begin.                           *)
(***************************************************************************)
EXTENDS IoTaskRunner, TLC

CONSTANTS t1, t2, t3, c1, c2, NoOp

VARIABLES
    component,
    at, active, buf, slot, connected, queued, produced, wire, arrived, taken, broken,
    plaintext, record,
    content, op, f_posted, f_running, replies, issued, called, io, model,
    timer_active, started, starting, timer_pending, firing, receiver,
    m_now, m_slot, job, m_shutdown, flag, dog, hung, reported, dropper, metrics

tlsVars == <<at, active, buf, slot, connected, queued, produced, wire, arrived, taken, broken,
             plaintext, record>>
proxyVars == <<content, op, f_posted, f_running, replies, issued, called, io, model>>
timerVars == <<timer_active, started, starting, timer_pending, firing, receiver>>
monitorVars == <<m_now, m_slot, job, m_shutdown, flag, dog, hung, reported, dropper, metrics>>

\* No callback posts.
NoSpawns == [t \in Tasks |-> {}]

\* A handshake, reads, writes and a disconnect, one after the other, with key
\* updates to answer and chunks that split and span records.
Tls ==
    INSTANCE TlsClientSocket WITH
        Ops <- 1..6,
        OpKind <- <<"handshake", "read", "read", "write", "write", "disconnect">>,
        Incoming <- <<"hs", "hs", "update", "app", "update", "app", "close">>,
        RecordLen <- 2, Chunk <- 3, Deframe <- 2, Overlap <- FALSE

\* Every operation, on the sequenced runner of FileProxy::new.
Proxy ==
    INSTANCE FileProxy WITH
        Kinds <- {"read", "read_all", "write", "write_all", "append"},
        Data <- {<<1, 2>>, <<3>>}, Sequenced <- TRUE, MayShutDown <- TRUE, MaxOps <- 3,
        posted <- f_posted, running <- f_running

\* Appends through a parallel runner given to with_runner.
SharedProxy ==
    INSTANCE FileProxy WITH
        Kinds <- {"append"},
        Data <- {<<1, 2>>, <<3>>}, Sequenced <- FALSE, MayShutDown <- FALSE, MaxOps <- 3,
        posted <- f_posted, running <- f_running

\* Two threads and the callback start and stop the timer.
Timer ==
    INSTANCE RepeatingTimer WITH
        Users <- {c1, c2}, MaxStarts <- 3, active <- timer_active, pending <- timer_pending

\* The watchdog may wake for no reason, and be slow.
Monitor ==
    INSTANCE TaskMonitor WITH
        Workers <- {"worker"}, Threshold <- 2, Interval <- 1, SpuriousWakeups <- TRUE,
        PromptWatchdog <- FALSE, MaxTime <- 4, now <- m_now, slot <- m_slot,
        shutdown <- m_shutdown

ASSUME Tls!TlsAssumption /\ Proxy!ProxyAssumption /\ SharedProxy!ProxyAssumption
ASSUME Timer!TimerAssumption /\ Monitor!MonitorAssumption

-----------------------------------------------------------------------------
IoInit ==
    /\ component \in {"Runner", "Tls", "Proxy", "SharedProxy", "Timer", "Monitor"}
    /\ Init /\ Tls!Init /\ Proxy!Init /\ Timer!Init /\ Monitor!Init

OnlyRunner == UNCHANGED <<component, tlsVars, proxyVars, timerVars, monitorVars>>
OnlyTls == UNCHANGED <<component, vars, proxyVars, timerVars, monitorVars>>
OnlyProxy == UNCHANGED <<component, vars, tlsVars, timerVars, monitorVars>>
OnlyTimer == UNCHANGED <<component, vars, tlsVars, proxyVars, monitorVars>>
OnlyMonitor == UNCHANGED <<component, vars, tlsVars, proxyVars, timerVars>>

IoNext ==
    \/ component = "Runner" /\ Next /\ OnlyRunner
    \/ component = "Tls" /\ Tls!Next /\ OnlyTls
    \/ component = "Proxy" /\ Proxy!Next /\ OnlyProxy
    \/ component = "SharedProxy" /\ SharedProxy!Next /\ OnlyProxy
    \/ component = "Timer" /\ Timer!Next /\ OnlyTimer
    \/ component = "Monitor" /\ Monitor!Next /\ OnlyMonitor

ioVars == <<component, vars, tlsVars, proxyVars, timerVars, monitorVars>>

IoSpec == IoInit /\ [][IoNext]_ioVars

IoSymmetry == Permutations({c1, c2}) \cup Permutations({t2, t3})

-----------------------------------------------------------------------------
\* The state of every component has its type.
IoTypeOK == TypeOK /\ Tls!TypeOK /\ Proxy!TypeOK /\ Timer!TypeOK /\ Monitor!TypeOK

\* TLS: records leave whole and in the order rustls made them, a write that
\* succeeded has its record on the wire, and the incoming stream keeps its framing.
TlsFaithful == Tls!WireInOrder /\ Tls!WrittenIsSent /\ Tls!StreamNeverBroken

\* FileProxy: an operation has the result it has when run after the earlier ones,
\* callbacks come in the order of the calls, and of appends on a parallel runner
\* none is lost.
FileOpsInOrder ==
    /\ component = "Proxy" => Proxy!Serialised /\ Proxy!CallbacksInOrder
    /\ component = "SharedProxy" => SharedProxy!NoAppendLost

\* RepeatingTimer: the active inner has one chain of firings, no inner has two.
OneChain == Timer!OneChain

\* TaskMonitor: a worker reported hung has run one task for the threshold, nothing
\* is reported once drop has returned, and waiting and execution do not overlap.
ReportsAreTrue ==
    [][Monitor!NoFalseHang /\ Monitor!QuietAfterDrop /\ Monitor!MetricsApart']_ioVars

=============================================================================
