\* A BlockShutdown task posted through a runner.
SPECIFICATION LiveSpec
CONSTANTS
    w1 = w1  w2 = w2  b1 = b1  b2 = b2
    t1 = t1  t2 = t2  t3 = t3  s1 = s1  s2 = s2  s3 = s3
    NoSeq = NoSeq
    NoTask = NoTask
    Seqs = {s1}
    Tasks = {t1, t2}
    MaxTime = 0
    Workers = {w1, w2}
    Attached = {}
    Timer = timer
    Posters = {p1}
    Pushers = {timer, p1, b1, b2}
    Closers = {c1}
    Body <- MCBody
    TaskSeq <- OneSequence
    Priority <- EqualPriority
    PoolTasks = {}
    Behavior <- AllBlock
    DelayedTasks = {}
    Delays = {0}
    Spawns <- NoSpawns
PROPERTIES
    EveryBlockShutdownTaskRuns
\* The pool stops when shutdown() has returned.
CHECK_DEADLOCK FALSE
