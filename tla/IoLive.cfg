\* A runner with one posting thread, one socket with one operation of every kind,
\* and the other components, under fairness.
SPECIFICATION IoLiveSpec
CONSTANTS
    t1 = t1  t2 = t2  c1 = c1  s1 = s1  f1 = f1  o1 = o1
    Fds = {f1}
    WakeFd = wake_fd
    Watchers = {s1}
    NoEntry = NoEntry
    MaxEvents = 2
    Tasks = {t1, t2}
    DelayedTasks = {t1}
    Spawns <- ReplyFromFirst
    NoTask = NoTask
    Delays = {0, 2}
    Res = 2
    IntMax = 1
    MaxTime = 2
    Callers = {c1}
    Closers = {c1}
    IoThread = io
    NoThread = NoThread
    NoOp = NoOp
    NoFd = NoFd
PROPERTIES
    OperationsEnd
    ScheduledComes
\* The clocks stop at their bound, and what was shut down stops.
CHECK_DEADLOCK FALSE
