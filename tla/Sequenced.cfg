\* Two threads post to one sequenced runner; the first task posts a reply to it.
SPECIFICATION Spec
CONSTANTS
    w1 = w1  w2 = w2  b1 = b1  b2 = b2
    t1 = t1  t2 = t2  t3 = t3  s1 = s1  s2 = s2  s3 = s3
    NoSeq = NoSeq
    NoTask = NoTask
    Seqs = {s1}
    Tasks = {t1, t2, t3}
    MaxTime = 0
    Workers = {w1, w2}
    Attached = {w2}
    Timer = timer
    Posters = {p1, p2}
    Pushers = {timer, p1, p2, b1, b2}
    Closers = {c1}
    Body <- MCBody
    TaskSeq <- OneSequence
    Priority <- EqualPriority
    PoolTasks = {}
    Behavior <- AllContinue
    DelayedTasks = {}
    Delays = {0}
    Spawns <- ReplyFromFirst
INVARIANTS
    TypeOK
    MutualExclusion
PROPERTIES
    ImplementsSequencedTaskRunner
\* The pool stops when shutdown() has returned.
CHECK_DEADLOCK FALSE
