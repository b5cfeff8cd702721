----------------------------- MODULE StdStreams -----------------------------
(***************************************************************************)
(* Stdin, Stdout and Stderr of rust_async/io.rs: every read, write and     *)
(* flush is a closure offloaded to the blocking pool, and the handle keeps *)
(* its job from one poll to the next, also when the future that started it *)
(* is dropped.  One task uses the handles, one operation at a time.        *)
(***************************************************************************)
EXTENDS Integers, Sequences, SequencesExt, FiniteSetsExt

CONSTANTS
    Input,          \* the bytes that arrive on standard input
    Slices,         \* the slices written
    BufLens,        \* lengths of the slices read into
    Cancellable,    \* kinds of operation whose future may be dropped
    MaxOps          \* bound on the operations

StreamsAssumption ==
    /\ Cancellable \subseteq {"read", "write", "flush"}
    /\ BufLens \subseteq Nat /\ MaxOps \in Nat

VARIABLES
    arrived,    \* how much of Input has arrived
    taken,      \* how much of it the process has read
    leftover,
    busy,       \* [{"read", "write", "flush"} -> job]
    buffered, written,  \* the process's output buffer, and what left it
    op,         \* the operation in flight
    ops,
    got,        \* all bytes returned by reads
    accepted,   \* all slices whose write returned a count, cut at the count
    flushed     \* accepted when the last flush that returned began

vars == <<arrived, taken, leftover, busy, buffered, written, op, ops, got, accepted, flushed>>

NoOp == [kind |-> "none", data |-> <<>>, before |-> <<>>]
NoJob == [state |-> "none", data |-> <<>>]

Init ==
    /\ arrived = 0 /\ taken = 0 /\ leftover = <<>>
    /\ busy = [k \in {"read", "write", "flush"} |-> NoJob]
    /\ buffered = <<>> /\ written = <<>>
    /\ op = NoOp /\ ops = 0
    /\ got = <<>> /\ accepted = <<>> /\ flushed = <<>>

TypeOK ==
    /\ taken \in 0..arrived /\ arrived \in 0..Len(Input)
    /\ \A k \in DOMAIN busy : busy[k].state \in {"none", "posted", "done"}
    /\ op.kind \in {"none", "read", "write", "flush"}
    /\ ops \in 0..MaxOps

Io == <<arrived, taken, buffered, written>>
Results == <<got, accepted, flushed>>

\* A line of input arrives.
Arrive ==
    /\ arrived < Len(Input) /\ arrived' = arrived + 1
    /\ UNCHANGED <<taken, leftover, busy, buffered, written, op, ops, Results>>

start ==
    /\ op = NoOp /\ ops < MaxOps
    /\ ops' = ops + 1
    /\ \/ \E n \in BufLens : op' = [kind |-> "read", data |-> [i \in 1..n |-> 0], before |-> <<>>]
       \/ \E s \in Slices : op' = [kind |-> "write", data |-> s, before |-> <<>>]
       \/ op' = [kind |-> "flush", data |-> <<>>, before |-> accepted]
    /\ UNCHANGED <<Io, leftover, busy, Results>>

\* The future is dropped.
cancel ==
    /\ op.kind \in Cancellable
    /\ op' = NoOp
    /\ UNCHANGED <<Io, leftover, busy, ops, Results>>

\* A poll that finds no job offloads one with what this poll was given; a read
\* asks for one byte at least.
Offload(kind) ==
    /\ op.kind = kind /\ busy[kind].state = "none"
    /\ busy' = [busy EXCEPT ![kind] =
                   [state |-> "posted", data |-> IF kind = "read" /\ op.data = <<>> THEN <<0>> ELSE op.data]]
    /\ UNCHANGED <<Io, leftover, op, ops, Results>>

Finished(kind) == op.kind = kind /\ busy[kind].state = "done"

Done(kind) == busy' = [busy EXCEPT ![kind] = NoJob] /\ op' = NoOp

-----------------------------------------------------------------------------
(* Standard input.                                                         *)

\* The blocking read waits for input and takes at most what it asked for; it
\* takes none at the end of the input.
read_job ==
    LET n == Min({Len(busy["read"].data), arrived - taken}) IN
    /\ busy["read"].state = "posted"
    /\ n > 0 \/ taken = Len(Input)
    /\ busy' = [busy EXCEPT !["read"] = [state |-> "done", data |-> SubSeq(Input, taken + 1, taken + n)]]
    /\ taken' = taken + n
    /\ UNCHANGED <<arrived, leftover, buffered, written, op, ops, Results>>

\* Bytes go to the slice, and what does not fit stays in the handle.
Serve(bytes) ==
    LET n == Min({Len(op.data), Len(bytes)}) IN
    /\ got' = got \o SubSeq(bytes, 1, n)
    /\ leftover' = SubSeq(bytes, n + 1, Len(bytes))
    /\ op' = NoOp

stdin_poll_read ==
    /\ op.kind = "read"
    /\ \/ /\ leftover # <<>>
          /\ Serve(leftover)
          /\ UNCHANGED busy
       \/ /\ leftover = <<>> /\ busy["read"].state = "done"
          /\ Serve(busy["read"].data)
          /\ busy' = [busy EXCEPT !["read"] = NoJob]
    /\ UNCHANGED <<Io, ops, accepted, flushed>>

stdin_offload == leftover = <<>> /\ Offload("read")

-----------------------------------------------------------------------------
(* Standard output and standard error.                                     *)

\* write_all on the buffered stream: some of it may leave at once.
write_job ==
    /\ busy["write"].state = "posted"
    /\ \/ buffered' = buffered \o busy["write"].data /\ UNCHANGED written
       \/ written' = written \o buffered \o busy["write"].data /\ buffered' = <<>>
    /\ busy' = [busy EXCEPT !["write"].state = "done"]
    /\ UNCHANGED <<arrived, taken, leftover, op, ops, Results>>

flush_job ==
    /\ busy["flush"].state = "posted"
    /\ written' = written \o buffered /\ buffered' = <<>>
    /\ busy' = [busy EXCEPT !["flush"].state = "done"]
    /\ UNCHANGED <<arrived, taken, leftover, op, ops, Results>>

\* The job's count is the result, whatever slice this poll was given.
writer_poll_write ==
    /\ Finished("write") /\ Done("write")
    /\ accepted' = accepted \o SubSeq(op.data, 1, Min({Len(op.data), Len(busy["write"].data)}))
    /\ UNCHANGED <<Io, leftover, ops, got, flushed>>

writer_offload_write == Offload("write")

writer_poll_flush ==
    /\ Finished("flush") /\ Done("flush")
    /\ flushed' = op.before
    /\ UNCHANGED <<Io, leftover, ops, got, accepted>>

writer_offload_flush == Offload("flush")

Next ==
    \/ Arrive \/ start \/ cancel
    \/ stdin_offload \/ read_job \/ stdin_poll_read
    \/ writer_offload_write \/ write_job \/ writer_poll_write
    \/ writer_offload_flush \/ flush_job \/ writer_poll_flush

Spec == Init /\ [][Next]_vars

-----------------------------------------------------------------------------
\* Reads return the input's bytes in order, each once, also when a read's
\* future is dropped while its job blocks in read(2).
InputInOrder == IsPrefix(got, Input)

\* "a `poll_write` accepting `buf` always reports the whole slice written once
\* the offloaded job completes" (io.rs:118): what writes reported is what has
\* gone to the stream, in order.
OutputIsWritten == IsPrefix(accepted, written \o buffered)

\* What a flush found written has left the process when the flush returns.
FlushMeansOut == IsPrefix(flushed, written)

=============================================================================
