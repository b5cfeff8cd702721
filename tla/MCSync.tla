------------------------------- MODULE MCSync ------------------------------
(***************************************************************************)
(* The primitives of sync.rs and the example for TLC.  They share no       *)
(* state, so a behaviour is of one of them, the value of component, and    *)
(* the others stay as they begin.                                          *)
(* The mutex is there twice: with notify_all and futures that are dropped, *)
(* and with notify_one.                                                    *)
(***************************************************************************)
EXTENDS Locks, Channels

VARIABLE component

\* notify_one, and every future is awaited to its end.
NotifyOne == INSTANCE AsyncMutex WITH Notify <- "one", MayCancel <- FALSE

ASSUME NotifyOne!MutexAssumption

syncVars == <<component, vars, rwVars, barrierVars, channelVars, pipelineVars>>

SyncInit ==
    /\ component \in {"Mutex", "NotifyOne", "RwLock", "Barrier", "Channel", "Pipeline"}
    /\ Init /\ RwInit /\ BarrierInit /\ ChannelInit /\ PipelineInit

OnlyMutex == UNCHANGED <<component, rwVars, barrierVars, channelVars, pipelineVars>>
OnlyRwLock == UNCHANGED <<component, vars, barrierVars, channelVars, pipelineVars>>
OnlyBarrier == UNCHANGED <<component, vars, rwVars, channelVars, pipelineVars>>
OnlyChannel == UNCHANGED <<component, vars, rwVars, barrierVars, pipelineVars>>
OnlyPipeline == UNCHANGED <<component, vars, rwVars, barrierVars, channelVars>>

SyncNext ==
    \/ component = "Mutex" /\ Next /\ OnlyMutex
    \/ component = "NotifyOne" /\ NotifyOne!Next /\ OnlyMutex
    \/ component = "RwLock" /\ RwNext /\ OnlyRwLock
    \/ component = "Barrier" /\ BarrierNext /\ OnlyBarrier
    \/ component = "Channel" /\ ChannelNext /\ OnlyChannel
    \/ component = "Pipeline" /\ PipelineNext /\ OnlyPipeline

\* The executor polls every task that was woken, and a task drops its guards.
SyncFairness ==
    /\ \A t \in Tasks : WF_vars(component = "NotifyOne" /\ NotifyOne!Step(t))
    /\ \A t \in RwTasks : WF_rwVars(component = "RwLock" /\ RwStep(t))
    /\ \A t \in PipeTasks : WF_pipelineVars(component = "Pipeline" /\ TaskStep(t))

SyncSpec == SyncInit /\ [][SyncNext]_syncVars /\ SyncFairness

-----------------------------------------------------------------------------
\* The state of every primitive has its type.
SyncTypeOK == TypeOK /\ RwTypeOK /\ BarrierTypeOK /\ ChannelTypeOK

\* Who waits proceeds: a consumer beside an item, a reader past the tasks that hold
\* the lock, and the example to its end, with the square of every item.
WaitersProceed ==
    /\ component = "NotifyOne" => NotifyOne!ConsumerServed
    /\ ReaderProceeds
    /\ component = "Pipeline" => Completes

=============================================================================
