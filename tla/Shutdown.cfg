\* Tasks of every shutdown behavior; two threads call shutdown().
SPECIFICATION Spec
CONSTANTS
    w1 = w1  w2 = w2  b1 = b1  b2 = b2
    t1 = t1  t2 = t2  t3 = t3  s1 = s1  s2 = s2  s3 = s3
    NoSeq = NoSeq
    NoTask = NoTask
    Seqs = {s1, s2, s3}
    Tasks = {t1, t2, t3}
    MaxTime = 0
    Workers = {w1, w2}
    Attached = {}
    Timer = timer
    Posters = {p1}
    Pushers = {timer, p1, b1, b2}
    Closers = {c1, c2}
    Body <- MCBody
    TaskSeq <- OwnSequences
    Priority <- SecondFirst
    PoolTasks = {t1, t2, t3}
    Behavior <- BlockSkip
    DelayedTasks = {}
    Delays = {0}
    Spawns <- NoSpawns
INVARIANTS
    ShutdownWaits
    QuietAfterShutdown
    NoLostWakeup
\* The pool stops when shutdown() has returned.
CHECK_DEADLOCK FALSE
