\* The same under fairness, one shutdown() call, and a task a callback posts.
SPECIFICATION LiveSpec
CONSTANTS
    w1 = w1  w2 = w2  b1 = b1  b2 = b2
    t1 = t1  t2 = t2  t3 = t3  s1 = s1  s2 = s2  s3 = s3
    NoSeq = NoSeq
    NoTask = NoTask
    Seqs = {s1, s3}
    Tasks = {t1, t3}
    MaxTime = 1
    Workers = {w1, w2}
    Attached = {}
    Timer = timer
    Posters = {p1}
    Pushers = {timer, p1, b1, b2}
    Closers = {c1}
    Body <- MCBody
    TaskSeq <- OwnSequences
    Priority <- EqualPriority
    PoolTasks = {t1, t3}
    Behavior <- BlockContinue
    DelayedTasks = {t1}
    Delays = {0, 1}
    Spawns <- ReplyFromFirst
PROPERTIES
    TasksEnd
    ShutdownReturns
\* The pool stops when shutdown() has returned.
CHECK_DEADLOCK FALSE
