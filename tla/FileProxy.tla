----------------------------- MODULE FileProxy -----------------------------
(***************************************************************************)
(* FileProxy of rust_io/file_proxy.rs: the IO thread posts blocking file   *)
(* operations to a task runner, and each result comes back to the IO       *)
(* thread as a posted callback, from which further operations may be       *)
(* started.  new() uses a sequenced runner; with_runner any other.         *)
(***************************************************************************)
EXTENDS Naturals, Sequences, SequencesExt, FiniteSets

CONSTANTS
    Kinds, Data,
    Sequenced,      \* is the runner sequenced
    MayShutDown,    \* may the IO task runner be shut down
    MaxOps          \* bound on the operations

ProxyAssumption ==
    /\ Kinds \subseteq {"read", "read_all", "write", "write_all", "append"}
    /\ Sequenced \in BOOLEAN /\ MayShutDown \in BOOLEAN /\ MaxOps \in Nat

\* A file is its bytes, if it exists; an error is no sequence of bytes.
Missing == [exists |-> FALSE, bytes |-> <<>>]
File(bytes) == [exists |-> TRUE, bytes |-> bytes]
Err == <<256>>
Ops == 1..MaxOps

VARIABLES
    content,    \* the file
    op,         \* [Ops -> operation]
    posted,     \* operations the runner has not taken, in order
    running,    \* operations workers are on
    replies,    \* callbacks in the IO task runner's queue
    issued,     \* operations started
    called,     \* callbacks run, in order
    io,         \* is the IO task runner up
    model       \* the file as if every operation were done when it is started

vars == <<content, op, posted, running, replies, issued, called, io, model>>

NewOp == [kind |-> "none", at |-> 0, data |-> <<>>, step |-> "none", result |-> <<>>, want |-> <<>>]

Init ==
    /\ content = Missing /\ model = Missing
    /\ op = [i \in Ops |-> NewOp]
    /\ posted = <<>> /\ running = {} /\ replies = <<>>
    /\ issued = 0 /\ called = <<>>
    /\ io = "up"

TypeOK ==
    /\ running \subseteq Ops /\ issued \in 0..MaxOps
    /\ Range(posted) \subseteq Ops \ running /\ Range(replies) \subseteq Ops \ running
    /\ \A i \in Ops : op[i].kind \in Kinds \cup {"none"}

-----------------------------------------------------------------------------
(* The blocking helpers: the file they leave and the result they return.   *)

Overwrite(old, at, data) ==
    LET end == IF at + Len(data) > Len(old) THEN at + Len(data) ELSE Len(old) IN
    [i \in 1..end |-> IF i \in (at + 1)..(at + Len(data)) THEN data[i - at]
                      ELSE IF i <= Len(old) THEN old[i] ELSE 0]

ReadOf(c, bytes) == [file |-> c, result |-> IF c.exists THEN bytes ELSE Err]

blocking_pread(c, at, n) ==
    ReadOf(c, SubSeq(c.bytes, at + 1, IF at + n < Len(c.bytes) THEN at + n ELSE Len(c.bytes)))

fs_read(c) == ReadOf(c, c.bytes)

blocking_pwrite(c, at, data) == [file |-> File(Overwrite(c.bytes, at, data)), result |-> <<Len(data)>>]

fs_write(c, data) == [file |-> File(data), result |-> <<>>]

blocking_append(c, data) == [file |-> File(c.bytes \o data), result |-> <<Len(data)>>]

Do(c, o) ==
    CASE o.kind = "read" -> blocking_pread(c, o.at, 2)
      [] o.kind = "read_all" -> fs_read(c)
      [] o.kind = "write" -> blocking_pwrite(c, o.at, o.data)
      [] o.kind = "write_all" -> fs_write(c, o.data)
      [] o.kind = "append" -> blocking_append(c, o.data)

-----------------------------------------------------------------------------
(* Operations are called on the IO thread.                                 *)

Start(kind, at, data) ==
    LET o == [NewOp EXCEPT !.kind = kind, !.at = at, !.data = data, !.step = "posted"]
        done == Do(model, o) IN
    /\ kind \in Kinds /\ io = "up" /\ issued < MaxOps
    /\ issued' = issued + 1
    /\ op' = [op EXCEPT ![issued + 1] = [o EXCEPT !.want = done.result]]
    /\ model' = done.file
    /\ posted' = Append(posted, issued + 1)
    /\ UNCHANGED <<content, running, replies, called, io>>

read == \E at \in 0..1 : Start("read", at, <<>>)

read_all == Start("read_all", 0, <<>>)

write == \E at \in 0..1, d \in Data : Start("write", at, d)

write_all == \E d \in Data : Start("write_all", 0, d)

append == \E d \in Data : Start("append", 0, d)

-----------------------------------------------------------------------------
(* The runner and the IO thread.                                           *)

\* A worker takes the next task; a sequenced runner has one at a time.
take ==
    /\ posted # <<>> /\ (Sequenced => running = {})
    /\ running' = running \cup {Head(posted)}
    /\ posted' = Tail(posted)
    /\ UNCHANGED <<content, op, replies, issued, called, io, model>>

\* Mutant of truncate: the file is opened when the operation is posted.
truncate_early(i) ==
    /\ op[i].kind = "write_all" /\ op[i].step = "posted"
    /\ content' = File(<<>>)
    /\ op' = [op EXCEPT ![i].step = "truncated"]
    /\ UNCHANGED <<posted, running, replies, issued, called, io, model>>

\* std::fs::write truncates the file in one system call and writes in another.
truncate(i) ==
    /\ i \in running /\ op[i].kind = "write_all" /\ op[i].step = "posted"
    /\ content' = File(<<>>)
    /\ op' = [op EXCEPT ![i].step = "truncated"]
    /\ UNCHANGED <<posted, running, replies, issued, called, io, model>>

\* The operation is done, and its reply posted to the IO runner it came from.
finish(i) ==
    LET done == Do(content, op[i]) IN
    /\ i \in running
    /\ op[i].step = IF op[i].kind = "write_all" THEN "truncated" ELSE "posted"
    /\ content' = done.file
    /\ op' = [op EXCEPT ![i].result = done.result, ![i].step = "done"]
    /\ running' = running \ {i}
    /\ replies' = IF io = "up" THEN Append(replies, i) ELSE replies
    /\ UNCHANGED <<posted, issued, called, io, model>>

callback ==
    /\ io = "up" /\ replies # <<>>
    /\ called' = Append(called, Head(replies))
    /\ replies' = Tail(replies)
    /\ UNCHANGED <<content, op, posted, running, issued, io, model>>

\* The IO task runner stops; replies queued or still to come are dropped.
shutdown ==
    /\ MayShutDown /\ io = "up"
    /\ io' = "down" /\ replies' = <<>>
    /\ UNCHANGED <<content, op, posted, running, issued, called, model>>

Next ==
    \/ read \/ read_all \/ write \/ write_all \/ append
    \/ take \/ (\E i \in Ops : truncate(i) \/ finish(i))
    \/ callback \/ shutdown

Spec == Init /\ [][Next]_vars

\* The pool's workers and the IO thread run.
LiveSpec ==
    /\ Spec /\ WF_vars(take) /\ WF_vars(callback)
    /\ \A i \in Ops : WF_vars(truncate(i)) /\ WF_vars(finish(i))

-----------------------------------------------------------------------------
\* "multiple operations posted to the same `FileProxy` are serialised"
\* (file_proxy.rs:38): each operation sees the effect of those started before
\* it and of no other, so its callback gets the result it would have got then.
Serialised == \A i \in 1..issued : op[i].step = "done" => op[i].result = op[i].want

\* Callbacks run in the order in which the operations were started.
CallbacksInOrder == \A k \in DOMAIN called : called[k] = k

\* Appends that have finished are all in the file, also on a parallel runner.
NoAppendLost ==
    LET done == {i \in 1..issued : op[i].step = "done"}
        bytes == FoldLeft(LAMBDA n, i : n + (IF i \in done THEN Len(op[i].data) ELSE 0), 0, [i \in Ops |-> i])
    IN  bytes = Len(content.bytes)

\* Every operation's callback is run, unless the IO task runner shuts down.
CallbackComes == \A i \in Ops : issued >= i ~> i \in Range(called) \/ io = "down"

=============================================================================
