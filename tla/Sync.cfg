\* Every primitive of sync.rs with its users; the mutex with notify_all.
SPECIFICATION SyncSpec
CONSTANTS
    Producers = {t1, t2}
    Consumers = {t3, t4}
    Rounds = 1
    Notify = "all"
    MayCancel = TRUE
    RwTasks = {t1, t2, t3}
    \* Groups of two of three tasks.
    Participants = {t1, t2, t3}
    N = 2
    MaxGeneration = 3
    SenderTasks = {t1, t2}
    ReceiverTasks = {t3, t4}
    FirstSender = t1
    FirstReceiver = t3
    MaxItems = 3
    \* A queue of one, two consumers, two items.
    PipeConsumers = {t3, t4}
    Producer = t1
    Main = t2
    Cap = 1
    Total = 2
INVARIANTS
    SyncTypeOK
    MutualExclusion
    NoStrandedLocker
    NoStrandedConsumer
    ReadersXorWriter
    NobodyStranded
    PassedOnce
PROPERTIES
    
    WaitersProceed
\* Consumers may all wait once the producers are done, rounds are bounded, the
\* example ends.
CHECK_DEADLOCK FALSE
