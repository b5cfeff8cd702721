\* One socket with a read and a write pending together.
SPECIFICATION Spec
CONSTANTS
    s1 = s1  s2 = s2  f1 = f1  f2 = f2  o1 = o1  o2 = o2
    Fds = {f1, f2}
    WakeFd = wake_fd
    Watchers = {s1, s2}
    NoEntry = NoEntry
    MaxEvents = 2
    Ops = {o1, o2}
    NoOp = NoOp
    Timed = {o1}
    Notify = {}
    NoFd = NoFd
    Events = {"Read", "Write"}
    FullDuplex = TRUE
    CrossSocket = FALSE
INVARIANT PendingIsWatched
