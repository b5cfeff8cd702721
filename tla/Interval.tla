------------------------------ MODULE Interval ------------------------------
(***************************************************************************)
(* interval of rust_async/stream.rs: a stream whose ticks are delayed      *)
(* tasks of the reactor.  One task consumes it, and may be polled for      *)
(* other reasons or stay away from the stream between two ticks.           *)
(***************************************************************************)
EXTENDS Naturals, FiniteSets

CONSTANTS
    Period, MaxTime,    \* MaxTime bounds the clock
    MayBusy             \* may the consumer stay away after a tick

IntervalAssumption == Period \in Nat \ {0} /\ MaxTime \in Nat /\ MayBusy \in BOOLEAN

VARIABLES
    now,
    fired, waker, scheduled,    \* TickState and Interval.scheduled
    due,        \* due times of the delayed tasks that have not run
    waking,     \* has the reactor taken a waker and not yet called it
    task,       \* the consumer: "busy", "ready" to be polled, or "parked"
    consumed    \* when it got its last tick

vars == <<now, fired, waker, scheduled, due, waking, task, consumed>>

Init ==
    /\ now = 0
    /\ fired = FALSE /\ waker = FALSE /\ scheduled = FALSE
    /\ due = {} /\ waking = FALSE
    /\ task = "ready"
    /\ consumed = 0

TypeOK ==
    /\ now \in 0..MaxTime /\ consumed \in 0..MaxTime
    /\ {fired, waker, scheduled, waking} \subseteq BOOLEAN
    /\ due \subseteq 0..(MaxTime + Period)
    /\ task \in {"busy", "ready", "parked"}

Tick ==
    /\ now < MaxTime /\ \A d \in due : now < d
    /\ now' = now + 1
    /\ UNCHANGED <<fired, waker, scheduled, due, waking, task, consumed>>

\* The delayed tasks after a poll that found no tick.
Schedule == IF scheduled THEN due ELSE due \cup {now + Period}

\* A tick is consumed, or the waker stored and a tick scheduled if none is.
poll_next ==
    /\ task = "ready"
    /\ IF fired
       THEN /\ fired' = FALSE /\ scheduled' = FALSE /\ consumed' = now
            /\ task' \in {"ready", "busy"} /\ (task' = "busy" => MayBusy)
            /\ UNCHANGED <<waker, due>>
       ELSE /\ waker' = TRUE /\ task' = "parked" /\ scheduled' = TRUE
            /\ due' = Schedule
            /\ UNCHANGED <<fired, consumed>>
    /\ UNCHANGED <<now, waking>>

\* The delayed task on the reactor takes the waker, and calls it afterwards.
tick_fires ==
    /\ \E d \in due : d <= now /\ due' = due \ {d}
    /\ fired' = TRUE /\ waker' = FALSE
    /\ waking' = (waker \/ waking)
    /\ UNCHANGED <<now, scheduled, task, consumed>>

tick_wakes ==
    /\ waking /\ waking' = FALSE
    /\ task' = IF task = "parked" THEN "ready" ELSE task
    /\ UNCHANGED <<now, fired, waker, scheduled, due, consumed>>

\* The consumer returns to the stream, or is polled for another reason.
other_wake ==
    /\ task \in {"busy", "parked"} /\ task' = "ready"
    /\ UNCHANGED <<now, fired, waker, scheduled, due, waking, consumed>>

Next == Tick \/ poll_next \/ tick_fires \/ tick_wakes \/ other_wake

Spec == Init /\ [][Next]_vars

-----------------------------------------------------------------------------
\* However often the stream is polled, there is one tick under way at most, and
\* the stream knows it: no tick is doubled or forgotten.
OneTick == Cardinality(due) + (IF fired THEN 1 ELSE 0) = IF scheduled THEN 1 ELSE 0

\* A consumer that is parked has its waker where the tick will find it, or the
\* tick is about to wake it.
NoLostTick == task = "parked" => waking \/ (waker /\ due # {})

\* Two ticks are a period apart or more, also when the first was consumed late:
\* the stream drifts and never bunches.
TicksApart ==
    /\ \A d \in due : d >= consumed + Period
    /\ fired => now >= consumed + Period

=============================================================================
