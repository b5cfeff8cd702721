------------------------ MODULE ThreadPoolRefinement ------------------------
(***************************************************************************)
(* The pool implements SequencedTaskRunner.  A sequence runs the task its  *)
(* owner holds; a task is in the order once it is in immediate_queue.      *)
(***************************************************************************)
EXTENDS ThreadPool

Runs(w, s) == source[w] = s /\ pc[w] \in {"run", "callback"}

runningBar ==
    [s \in Seqs |-> IF \E w \in Workers : Runs(w, s)
                      THEN task[CHOOSE w \in Workers : Runs(w, s)]
                      ELSE NoTask]

timedBar ==
    [s \in Seqs |-> {delayed_queue[s][i] : i \in 1..Len(delayed_queue[s])}]

finishedBar == {t \in Tasks : status[t] \in {"done", "skipped"}}

Abs == INSTANCE SequencedTaskRunner
         WITH pending <- immediate_queue, timed <- timedBar, running <- runningBar,
              finished <- finishedBar, clock <- now

\* The tasks of a sequence run one at a time and in the order of their posting
\* (thread_pool.rs, create_sequenced_task_runner: "execute in FIFO order").
ImplementsSequencedTaskRunner == Abs!AbsSpec
=============================================================================
