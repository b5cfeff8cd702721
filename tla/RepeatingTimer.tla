--------------------------- MODULE RepeatingTimer ---------------------------
(***************************************************************************)
(* RepeatingTimer of rust_task/timer.rs and the bind functions of bind.rs  *)
(* it is built on.  Every start makes a TimerInner, numbered in order; the *)
(* timer's active slot owns it and the delayed tasks hold weak references. *)
(* The callback is bound to a weak reference to a receiver, whose owner    *)
(* may drop it at any time.  The runner is sequenced: one firing at a time.*)
(***************************************************************************)
EXTENDS Naturals, FiniteSets

CONSTANTS
    Users,      \* threads that use the timer
    MaxStarts   \* bound on calls of start

TimerAssumption == MaxStarts \in Nat

Inners == 1..MaxStarts

VARIABLES
    active,     \* the TimerInner in the slot, or 0
    started,    \* TimerInners made
    starting,   \* [Users -> inner whose start has not returned, or 0]
    pending,    \* [Inners -> delayed tasks posted and not yet run]
    firing,     \* the delayed task that runs
    receiver    \* "owned" or "dropped" by its owner

vars == <<active, started, starting, pending, firing, receiver>>

Idle == [inner |-> 0, step |-> "none"]

Init ==
    /\ active = 0 /\ started = 0
    /\ starting = [u \in Users |-> 0]
    /\ pending = [g \in Inners |-> 0]
    /\ firing = Idle
    /\ receiver = "owned"

TypeOK ==
    /\ active \in 0..started /\ started \in 0..MaxStarts
    /\ starting \in [Users -> 0..started]
    /\ pending \in [Inners -> 0..1]
    /\ firing.inner \in 0..started
    /\ firing.step \in {"none", "upgraded", "scheduled", "callback", "method"}
    /\ receiver \in {"owned", "dropped"}

\* A TimerInner lives while the slot, a running start or a firing owns it.
Alive(g) ==
    \/ active = g
    \/ \E u \in Users : starting[u] = g
    \/ firing.inner = g /\ firing.step \in {"upgraded", "scheduled"}

ReceiverAlive == receiver = "owned" \/ firing.step = "method"

-----------------------------------------------------------------------------
\* start replaces the active inner; its own reference lasts until it returns.
start(u) ==
    /\ starting[u] = 0 /\ started < MaxStarts
    /\ started' = started + 1 /\ active' = started + 1
    /\ starting' = [starting EXCEPT ![u] = started + 1]
    /\ UNCHANGED <<pending, firing, receiver>>

\* schedule_next posts a task if the inner is alive, as it is here.
start_schedule(u) ==
    /\ starting[u] # 0
    /\ pending' = [pending EXCEPT ![starting[u]] = @ + 1]
    /\ starting' = [starting EXCEPT ![u] = 0]
    /\ UNCHANGED <<active, started, firing, receiver>>

\* stop, or the timer is dropped.
stop(u) ==
    /\ starting[u] = 0 /\ active # 0
    /\ active' = 0
    /\ UNCHANGED <<started, starting, pending, firing, receiver>>

\* The callback calls stop or start on its own timer.
stop_inside ==
    /\ firing.step = "method" /\ active # 0
    /\ active' = 0
    /\ UNCHANGED <<started, starting, pending, firing, receiver>>

start_inside ==
    /\ firing.step = "method" /\ started < MaxStarts
    /\ started' = started + 1 /\ active' = started + 1
    /\ pending' = [pending EXCEPT ![started + 1] = @ + 1]
    /\ UNCHANGED <<starting, firing, receiver>>

\* bind_once: a delayed task runs, and is a no-op if its inner is gone.
bind_once(g) ==
    /\ firing = Idle /\ pending[g] > 0
    /\ pending' = [pending EXCEPT ![g] = @ - 1]
    /\ firing' = IF Alive(g) THEN [inner |-> g, step |-> "upgraded"] ELSE Idle
    /\ UNCHANGED <<active, started, starting, receiver>>

\* Mutant of schedule_next: the next task is posted by the first one only.
schedule_next_once ==
    /\ firing.step = "upgraded"
    /\ pending' = pending
    /\ firing' = [firing EXCEPT !.step = "scheduled"]
    /\ UNCHANGED <<active, started, starting, receiver>>

\* The next firing is scheduled before the callback is called.
schedule_next ==
    /\ firing.step = "upgraded"
    /\ pending' = [pending EXCEPT ![firing.inner] = @ + 1]
    /\ firing' = [firing EXCEPT !.step = "scheduled"]
    /\ UNCHANGED <<active, started, starting, receiver>>

drop_inner ==
    /\ firing.step = "scheduled"
    /\ firing' = [firing EXCEPT !.step = "callback"]
    /\ UNCHANGED <<active, started, starting, pending, receiver>>

\* bind_repeating: the receiver is held for the call, if it lives.
bind_repeating ==
    /\ firing.step = "callback"
    /\ firing' = IF ReceiverAlive THEN [firing EXCEPT !.step = "method"] ELSE Idle
    /\ UNCHANGED <<active, started, starting, pending, receiver>>

method_returns ==
    /\ firing.step = "method"
    /\ firing' = Idle
    /\ UNCHANGED <<active, started, starting, pending, receiver>>

drop_receiver ==
    /\ receiver = "owned" /\ receiver' = "dropped"
    /\ UNCHANGED <<active, started, starting, pending, firing>>

Runner ==
    \/ \E g \in Inners : bind_once(g)
    \/ schedule_next \/ drop_inner \/ bind_repeating
    \/ stop_inside \/ start_inside \/ method_returns

Next ==
    \/ \E u \in Users : start(u) \/ start_schedule(u) \/ stop(u)
    \/ Runner \/ drop_receiver

Spec == Init /\ [][Next]_vars

\* The sequenced runner runs due tasks one after the other, in the order they
\* fall due, so none waits for ever; a started start returns.
LiveSpec ==
    /\ Spec
    /\ WF_vars(Runner) /\ \A g \in Inners : SF_vars(bind_once(g))
    /\ WF_vars(method_returns)
    /\ \A u \in Users : WF_vars(start_schedule(u))

-----------------------------------------------------------------------------
\* Restarts and stops from several threads leave one chain of firings: the
\* active inner has one task that keeps it going, and no inner ever has two.
OneChain ==
    \A g \in 1..started :
        LET heads == pending[g] + Cardinality({u \in Users : starting[u] = g})
                     + (IF firing = [inner |-> g, step |-> "upgraded"] THEN 1 ELSE 0)
        IN  heads <= 1 /\ (active = g => heads = 1)

\* The active inner fires again and again until it is replaced or stopped.
TimerTicks == \A g \in Inners : active = g ~> active # g \/ firing = [inner |-> g, step |-> "callback"]

=============================================================================
