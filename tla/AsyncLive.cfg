\* Tasks and block_on, the reactor's Source, and Unix sockets, under fairness.
SPECIFICATION Spec
CONSTANTS
    k1 = k1  w1 = w1  r1 = r1  s1 = s1  s2 = s2  f1 = f1
    Main = main
    None = None
    WakeFd = wake_fd
    NoEntry = NoEntry
PROPERTIES
    FuturesComplete
    TransfersComplete
\* Tasks end and connections close.
CHECK_DEADLOCK FALSE
