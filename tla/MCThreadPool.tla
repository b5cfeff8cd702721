---------------------------- MODULE MCThreadPool ----------------------------
(***************************************************************************)
(* Instances of ThreadPool for TLC: which tasks there are, the sequence    *)
(* and the traits of each, and what the callbacks post.                    *)
(***************************************************************************)
EXTENDS ThreadPoolRefinement, TLC

CONSTANTS w1, w2, b1, b2, t1, t2, t3, s1, s2, s3

MCBody == w1 :> b1 @@ w2 :> b2

\* One sequenced runner.
OneSequence == [t \in Tasks |-> s1]

\* A sequence of its own for each task.
OwnSequences == [t \in Tasks |-> CASE t = t1 -> s1 [] t = t2 -> s2 [] t = t3 -> s3]

EqualPriority == [s \in Seqs |-> 1]
SecondFirst == [s \in Seqs |-> IF s = s2 THEN 2 ELSE 1]

NoSpawns == [t \in Tasks |-> {}]

\* The callback of t1 posts t3: a reply to the sequence it is on, or elsewhere.
ReplyFromFirst == [t \in Tasks |-> IF t = t1 THEN {t3} ELSE {}]

AllContinue == [t \in Tasks |-> "ContinueOnShutdown"]
AllBlock == [t \in Tasks |-> "BlockShutdown"]
BlockContinue == [t \in Tasks |-> IF t = t1 THEN "BlockShutdown" ELSE "ContinueOnShutdown"]
BlockSkip == [t \in Tasks |-> IF t = t3 THEN "SkipOnShutdown" ELSE "BlockShutdown"]

\* The two workers are interchangeable, each with its own call frame.
WorkerSymmetry == {w1 :> w2 @@ w2 :> w1 @@ b1 :> b2 @@ b2 :> b1}
=============================================================================
