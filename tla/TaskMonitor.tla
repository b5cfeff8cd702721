---------------------------- MODULE TaskMonitor ----------------------------
(***************************************************************************)
(* TaskMonitor of rust_task/task_monitor.rs: workers publish the start of  *)
(* the task they run in a slot, a watchdog thread wakes every interval and *)
(* reports the workers whose task has run past the threshold, and dropping *)
(* the monitor stops the watchdog.  wrap_task measures a task's wait in    *)
(* the queue and its run.                                                  *)
(***************************************************************************)
EXTENDS Integers, FiniteSets

CONSTANTS
    Workers,
    Threshold, Interval,
    SpuriousWakeups,    \* may Condvar::wait_timeout return early and unnotified
    PromptWatchdog,     \* does the watchdog's own work take less than a tick
    MaxTime             \* bound on the clock

MonitorAssumption ==
    /\ Threshold \in Nat /\ Interval \in Nat \ {0} /\ MaxTime \in Nat
    /\ SpuriousWakeups \in BOOLEAN /\ PromptWatchdog \in BOOLEAN

VARIABLES
    now,        \* time since the monitor's reference instant
    slot,       \* [Workers -> published start, 0 when idle]
    job,        \* [Workers -> the task a worker has: its step and its times]
    shutdown, flag,     \* the atomic, and the Boolean under the condvar's mutex
    dog,        \* the watchdog: its step and what it has read
    hung,       \* workers collected and not yet reported
    reported,   \* workers reported while running their present task
    dropper,    \* the thread that drops the monitor
    metrics     \* the last TaskMetrics delivered, with the task's true times

vars == <<now, slot, job, shutdown, flag, dog, hung, reported, dropper, metrics>>

NoJob == [step |-> "idle", posted |-> 0, queue_time |-> 0, began |-> 0]

Init ==
    /\ now = 0
    /\ slot = [w \in Workers |-> 0]
    /\ job = [w \in Workers |-> NoJob]
    /\ shutdown = FALSE /\ flag = FALSE
    /\ dog = [step |-> "wait", until |-> Interval, now |-> 0]
    /\ hung = {} /\ reported = {}
    /\ dropper = "none"
    /\ metrics = [queue_time |-> 0, execution_time |-> 0, posted |-> 0, ended |-> 0]

TypeOK ==
    /\ now \in 0..MaxTime
    /\ slot \in [Workers -> 0..MaxTime + 1]
    /\ \A w \in Workers : job[w].step \in {"idle", "queued", "started", "running", "measured"}
    /\ \A w \in Workers : job[w].queue_time \in 0..MaxTime
    /\ dog.step \in {"wait", "woken", "scan", "report", "exit"}
    /\ hung \subseteq Workers /\ reported \subseteq Workers
    /\ dropper \in {"none", "stored", "notified", "joined"}

\* The clock runs; a watchdog that waits is not woken late.
Tick ==
    /\ now < MaxTime /\ now' = now + 1
    /\ dog.step = "wait" => now < dog.until
    /\ PromptWatchdog => dog.step \in {"wait", "exit"}
    /\ UNCHANGED <<slot, job, shutdown, flag, dog, hung, reported, dropper, metrics>>

-----------------------------------------------------------------------------
(* A worker and the tasks it runs.                                         *)

\* wrap_task, when the task is posted.
wrap_task(w) ==
    /\ job[w].step = "idle"
    /\ job' = [job EXCEPT ![w] = [NoJob EXCEPT !.step = "queued", !.posted = now]]
    /\ UNCHANGED <<now, slot, shutdown, flag, dog, hung, reported, dropper, metrics>>

\* Zero means idle, so a start is published as at least one.
task_started(w) ==
    /\ job[w].step = "queued"
    /\ slot' = [slot EXCEPT ![w] = IF now = 0 THEN 1 ELSE now]
    /\ job' = [job EXCEPT ![w].step = "started"]
    /\ UNCHANGED <<now, shutdown, flag, dog, hung, reported, dropper, metrics>>

\* The wrapper reads the clock and calls the task.
wrapped_begin(w) ==
    /\ job[w].step = "started"
    /\ job' = [job EXCEPT ![w].step = "running", ![w].queue_time = now - job[w].posted, ![w].began = now]
    /\ UNCHANGED <<now, slot, shutdown, flag, dog, hung, reported, dropper, metrics>>

\* The task returns and on_metrics is called.
wrapped_end(w) ==
    /\ job[w].step = "running"
    /\ metrics' = [queue_time |-> job[w].queue_time, execution_time |-> now - job[w].began,
                   posted |-> job[w].posted, ended |-> now]
    /\ job' = [job EXCEPT ![w].step = "measured"]
    /\ UNCHANGED <<now, slot, shutdown, flag, dog, hung, reported, dropper>>

\* Mutant of task_finished: the slot keeps the start of the last task.
task_finished_kept(w) ==
    /\ job[w].step = "measured"
    /\ job' = [job EXCEPT ![w] = NoJob]
    /\ reported' = reported \ {w}
    /\ UNCHANGED <<now, slot, shutdown, flag, dog, hung, dropper, metrics>>

task_finished(w) ==
    /\ job[w].step = "measured"
    /\ slot' = [slot EXCEPT ![w] = 0]
    /\ job' = [job EXCEPT ![w] = NoJob]
    /\ reported' = reported \ {w}
    /\ UNCHANGED <<now, shutdown, flag, dog, hung, dropper, metrics>>

-----------------------------------------------------------------------------
(* The watchdog.                                                           *)

\* wait_timeout returns, by its timeout, a notification, or neither.
watchdog_timeout ==
    /\ dog.step = "wait" /\ now >= dog.until
    /\ dog' = [dog EXCEPT !.step = IF shutdown THEN "exit" ELSE "woken"]
    /\ UNCHANGED <<now, slot, job, shutdown, flag, hung, reported, dropper, metrics>>

watchdog_spurious ==
    /\ SpuriousWakeups /\ dog.step = "wait"
    /\ dog' = [dog EXCEPT !.step = "exit"]
    /\ UNCHANGED <<now, slot, job, shutdown, flag, hung, reported, dropper, metrics>>

\* The clock is read before the slots are.
watchdog_clock ==
    /\ dog.step = "woken"
    /\ dog' = [dog EXCEPT !.step = "scan", !.now = now]
    /\ UNCHANGED <<now, slot, job, shutdown, flag, hung, reported, dropper, metrics>>

\* A slot that started after the clock was read counts as just started.
Elapsed(w) == IF slot[w] > dog.now THEN 0 ELSE dog.now - slot[w]

watchdog_scan ==
    /\ dog.step = "scan"
    /\ hung' = {w \in Workers : slot[w] # 0 /\ Elapsed(w) >= Threshold}
    /\ dog' = [dog EXCEPT !.step = "report"]
    /\ UNCHANGED <<now, slot, job, shutdown, flag, reported, dropper, metrics>>

\* on_hang, without the lock; then the loop waits again.
watchdog_report ==
    /\ dog.step = "report"
    /\ IF hung = {}
       THEN dog' = [dog EXCEPT !.step = "wait", !.until = now + Interval] /\ UNCHANGED <<hung, reported>>
       ELSE \E w \in hung : hung' = hung \ {w} /\ reported' = reported \cup {w} /\ UNCHANGED dog
    /\ UNCHANGED <<now, slot, job, shutdown, flag, dropper, metrics>>

-----------------------------------------------------------------------------
(* The monitor is dropped.                                                 *)

drop_store ==
    /\ dropper = "none" /\ dropper' = "stored"
    /\ shutdown' = TRUE
    /\ UNCHANGED <<now, slot, job, flag, dog, hung, reported, metrics>>

\* Under the mutex; a watchdog that is not waiting misses the notification.
drop_notify ==
    /\ dropper = "stored" /\ dropper' = "notified"
    /\ flag' = TRUE
    /\ dog' = IF dog.step = "wait" THEN [dog EXCEPT !.step = "exit"] ELSE dog
    /\ UNCHANGED <<now, slot, job, shutdown, hung, reported, metrics>>

drop_join ==
    /\ dropper = "notified" /\ dog.step = "exit" /\ dropper' = "joined"
    /\ UNCHANGED <<now, slot, job, shutdown, flag, dog, hung, reported, metrics>>

Worker(w) == wrap_task(w) \/ task_started(w) \/ wrapped_begin(w) \/ wrapped_end(w) \/ task_finished(w)

Watchdog == watchdog_timeout \/ watchdog_clock \/ watchdog_scan \/ watchdog_report

Next ==
    \/ Tick \/ Watchdog \/ watchdog_spurious
    \/ \E w \in Workers : Worker(w)
    \/ drop_store \/ drop_notify \/ drop_join

Spec == Init /\ [][Next]_vars

\* The clock advances, and the watchdog and the dropping thread are scheduled; a
\* task may run for ever, but a worker that began to start one does start it.
LiveSpec ==
    /\ Spec /\ WF_vars(Tick) /\ WF_vars(Watchdog)
    /\ WF_vars(drop_notify) /\ WF_vars(drop_join)

-----------------------------------------------------------------------------
\* A worker that a scan finds hung is running a task, one it began a threshold
\* ago or earlier.
NoFalseHang ==
    \A w \in hung' \ hung :
        job[w].step \notin {"idle", "queued"} /\ now >= slot[w] + Threshold

\* The waiting time and the run that on_metrics is given do not overlap.
MetricsApart == metrics.queue_time + metrics.execution_time <= metrics.ended - metrics.posted

\* Nothing is reported once the monitor has been dropped.
QuietAfterDrop == dropper = "joined" => reported' \subseteq reported

\* "Reported when a worker has been running the same task longer than the
\* configured hang threshold" (task_monitor.rs:18): a task that never ends is
\* reported, unless the monitor is dropped or the clock's bound is reached.
HangReported ==
    \A w \in Workers :
        job[w].step = "started" /\ now + Threshold + 2 * Interval <= MaxTime
            ~> w \in reported \/ job[w].step \in {"idle", "measured"} \/ dropper # "none"

\* drop returns, also when the watchdog misses the notification.
DropReturns == dropper = "stored" /\ now + 2 * Interval <= MaxTime ~> dropper = "joined"

=============================================================================
