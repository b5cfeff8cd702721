\* Two delayed tasks and an immediate one on the same sequence.
SPECIFICATION Spec
CONSTANTS
    w1 = w1  w2 = w2  b1 = b1  b2 = b2
    t1 = t1  t2 = t2  t3 = t3  s1 = s1  s2 = s2  s3 = s3
    NoSeq = NoSeq
    NoTask = NoTask
    Seqs = {s1}
    Tasks = {t1, t2, t3}
    MaxTime = 1
    Workers = {w1, w2}
    Attached = {}
    Timer = timer
    Posters = {p1}
    Pushers = {timer, p1, b1, b2}
    Closers = {}
    Body <- MCBody
    TaskSeq <- OneSequence
    Priority <- EqualPriority
    PoolTasks = {}
    Behavior <- AllContinue
    DelayedTasks = {t1, t2}
    Delays = {0, 1}
    Spawns <- NoSpawns
INVARIANTS
    NoStrandedTask
    OnceAndOnTime
PROPERTIES
    ImplementsSequencedTaskRunner
SYMMETRY WorkerSymmetry
\* The pool stops when every task has been posted and run.
CHECK_DEADLOCK FALSE
