\* Two threads post an immediate and two delayed tasks, and both may call
\* shutdown(); and each of the other components.
SPECIFICATION IoSpec
CONSTANTS
    t1 = t1  t2 = t2  t3 = t3  c1 = c1  c2 = c2
    Fds = {}
    WakeFd = wake_fd
    Watchers = {}
    NoEntry = NoEntry
    MaxEvents = 2
    Tasks = {t1, t2, t3}
    DelayedTasks = {t2, t3}
    Spawns <- NoSpawns
    NoTask = NoTask
    Delays = {2, 4}
    Res = 2
    IntMax = 1
    MaxTime = 3
    Callers = {c1, c2}
    Closers = {c1, c2}
    IoThread = io
    NoThread = NoThread
    NoOp = NoOp
SYMMETRY IoSymmetry
INVARIANTS
    IoTypeOK
    OnTime QuietAfterShutdown
    TlsFaithful
    FileOpsInOrder
    OneChain
PROPERTY ReportsAreTrue
\* A runner that was shut down stops, and so do the others.
CHECK_DEADLOCK FALSE
