----------------------------- MODULE AsyncFile -----------------------------
(***************************************************************************)
(* File of rust_async/fs.rs.  Every operation is a blocking job on the     *)
(* filesystem pool, whose workers take jobs in any order; the operation's  *)
(* future waits for the job's one-shot result.  poll_read, poll_write and  *)
(* poll_seek keep their job in the File, so that a job outlives a future   *)
(* that is dropped.                                                        *)
(*                                                                         *)
(* Tasks with a shared reference may have positional operations in flight  *)
(* together; the cursor operations borrow the File exclusively.            *)
(***************************************************************************)
EXTENDS Integers, Sequences, FiniteSets, FiniteSetsExt

CONSTANTS
    Tasks,
    StartContent,   \* the file's bytes when it is opened
    Data,           \* the slices written
    BufLens,        \* lengths of the slices read into
    MaxLen,         \* bound on offsets given
    Cancellable,    \* kinds of operation whose future may be dropped
    Kinds,          \* kinds of operation the tasks use
    MaxOps          \* bound on the operations

CursorKinds == {"read", "write", "seek_start", "seek_current", "seek_end"}
SharedKinds == {"read_at", "write_at", "append", "set_len"}
Bytes == 0..255
Jobs == 1..MaxOps
Unknown == -1

FileAssumption ==
    /\ Kinds \subseteq CursorKinds \cup SharedKinds /\ Cancellable \subseteq Kinds
    /\ MaxLen \in Nat /\ MaxOps \in Nat /\ BufLens \subseteq Nat
    /\ StartContent \in Seq(Bytes) /\ Data \subseteq Seq(Bytes)

VARIABLES
    content,    \* the file's bytes
    pos, leftover,
    busy,       \* [{"read", "write", "seek"} -> job or 0]
    jobs,       \* [Jobs -> record], the jobs posted so far
    op,         \* [Tasks -> operation in flight, or NoOp]
    ops,        \* operations started
    cursor,     \* where a cursor operation ought to work, or Unknown
    last        \* what the last operation returned, against what it ought to

vars == <<content, pos, leftover, busy, jobs, op, ops, cursor, last>>

NoOp == [kind |-> "none", at |-> 0, data |-> <<>>, job |-> 0]
NoJob == [kind |-> "none", at |-> 0, data |-> <<>>, state |-> "none", result |-> <<>>, seen |-> <<>>]

Init ==
    /\ content = StartContent
    /\ pos = 0 /\ leftover = <<>>
    /\ busy = [k \in {"read", "write", "seek"} |-> 0]
    /\ jobs = [j \in Jobs |-> NoJob]
    /\ op = [t \in Tasks |-> NoOp]
    /\ ops = 0
    /\ cursor = 0
    /\ last = [kind |-> "none", got |-> <<>>, want |-> <<>>]

TypeOK ==
    /\ content \in Seq(Bytes) /\ leftover \in Seq(Bytes)
    /\ pos \in Nat
    /\ busy \in [{"read", "write", "seek"} -> Jobs \cup {0}]
    /\ \A t \in Tasks : op[t].kind \in Kinds \cup {"none"}
    /\ cursor \in Nat \cup {Unknown}

\* pwrite and pread: a write past the end leaves a hole of zeros.
Pwrite(c, at, data) ==
    [i \in 1..(IF at + Len(data) > Len(c) THEN at + Len(data) ELSE Len(c)) |->
        IF i \in (at + 1)..(at + Len(data)) THEN data[i - at]
        ELSE IF i <= Len(c) THEN c[i] ELSE 0]

Pread(c, at, n) == SubSeq(c, at + 1, IF at + n < Len(c) THEN at + n ELSE Len(c))

-----------------------------------------------------------------------------
(* Operations start.                                                       *)

\* The borrow checker's rule for &self and &mut self.
MayStart(t, kind) ==
    /\ kind \in Kinds /\ op[t] = NoOp /\ ops < MaxOps
    /\ \A u \in Tasks : op[u] = NoOp \/ {kind, op[u].kind} \subseteq SharedKinds

Begin(t, kind, at, data, job) ==
    /\ op' = [op EXCEPT ![t] = [kind |-> kind, at |-> at, data |-> data, job |-> job]]
    /\ ops' = ops + 1

\* fs_blocking posts the job; its number is the operation's.
fs_blocking(j, kind, at, data) ==
    jobs' = [jobs EXCEPT ![j] = [kind |-> kind, at |-> at, data |-> data, state |-> "posted",
                                 result |-> <<>>, seen |-> <<>>]]

Shared(t, kind, at, data) ==
    /\ MayStart(t, kind)
    /\ Begin(t, kind, at, data, ops + 1)
    /\ fs_blocking(ops + 1, kind, at, data)
    /\ UNCHANGED <<content, pos, leftover, busy, cursor, last>>

read_at(t) == \E at \in 0..MaxLen, n \in BufLens : Shared(t, "read_at", at, [i \in 1..n |-> 0])

write_at(t) == \E at \in 0..MaxLen, d \in Data : Shared(t, "write_at", at, d)

append(t) == \E d \in Data : Shared(t, "append", 0, d)

set_len(t) == \E n \in 0..MaxLen : Shared(t, "set_len", n, <<>>)

\* read(&mut self, buf), write and seek: the first poll is a step of its own.
cursor_op(t) ==
    /\ \/ \E n \in BufLens : MayStart(t, "read") /\ Begin(t, "read", 0, [i \in 1..n |-> 0], 0)
       \/ \E d \in Data : MayStart(t, "write") /\ Begin(t, "write", 0, d, 0)
       \/ \E at \in 0..MaxLen : MayStart(t, "seek_start") /\ Begin(t, "seek_start", at, <<>>, 0)
       \/ \E d \in {-1, 1} : MayStart(t, "seek_current") /\ Begin(t, "seek_current", d, <<>>, 0)
       \/ \E d \in {-1, 0} : MayStart(t, "seek_end") /\ Begin(t, "seek_end", d, <<>>, 0)
    /\ UNCHANGED <<content, pos, leftover, busy, jobs, cursor, last>>

-----------------------------------------------------------------------------
(* The pool runs a job; append finds the length first and writes later.    *)

Finish(j, result) ==
    jobs' = [jobs EXCEPT ![j].state = "done", ![j].result = result, ![j].seen = content]

run_job(j) ==
    /\ jobs[j].state = "posted"
    /\ CASE jobs[j].kind \in {"read", "read_at"} ->
              /\ Finish(j, Pread(content, jobs[j].at, Len(jobs[j].data)))
              /\ UNCHANGED content
         [] jobs[j].kind \in {"write", "write_at"} ->
              /\ content' = Pwrite(content, jobs[j].at, jobs[j].data)
              /\ Finish(j, jobs[j].data)
         [] jobs[j].kind = "set_len" ->
              /\ content' = [i \in 1..jobs[j].at |-> IF i <= Len(content) THEN content[i] ELSE 0]
              /\ Finish(j, <<>>)
         [] jobs[j].kind = "seek_end" ->
              /\ Finish(j, IF Len(content) + jobs[j].at < 0 THEN <<>> ELSE <<Len(content) + jobs[j].at>>)
              /\ UNCHANGED content
         [] jobs[j].kind = "append" ->
              /\ jobs' = [jobs EXCEPT ![j].at = Len(content), ![j].state = "found end"]
              /\ UNCHANGED content
    /\ UNCHANGED <<pos, leftover, busy, op, ops, cursor, last>>

append_write(j) ==
    /\ jobs[j].state = "found end"
    /\ content' = Pwrite(content, jobs[j].at, jobs[j].data)
    /\ Finish(j, jobs[j].data)
    /\ UNCHANGED <<pos, leftover, busy, op, ops, cursor, last>>

-----------------------------------------------------------------------------
(* Operations end.                                                         *)

Return(t, got, want) ==
    /\ op' = [op EXCEPT ![t] = NoOp]
    /\ last' = [kind |-> op[t].kind, got |-> got, want |-> want]

\* Advance the expected cursor by n.
Advance(n) == cursor' = IF cursor = Unknown THEN Unknown ELSE cursor + n

shared_done(t) ==
    /\ op[t].kind \in SharedKinds /\ jobs[op[t].job].state = "done"
    /\ Return(t, jobs[op[t].job].result, jobs[op[t].job].result)
    /\ UNCHANGED <<content, pos, leftover, busy, jobs, ops, cursor>>

\* poll_read and poll_write with no job: post one at the current position; a
\* read asks for one byte at least.
Post(t, kind) ==
    /\ op[t].kind = kind /\ busy[kind] = 0
    /\ kind = "read" => leftover = <<>>
    /\ op[t].job = 0
    /\ busy' = [busy EXCEPT ![kind] = ops]
    /\ fs_blocking(ops, kind, pos, IF kind = "read" /\ op[t].data = <<>> THEN <<0>> ELSE op[t].data)
    /\ op' = [op EXCEPT ![t].job = ops]
    /\ UNCHANGED <<content, pos, leftover, ops, cursor, last>>

read_post(t) == Post(t, "read")

write_post(t) == Post(t, "write")

\* What a read returns out of bytes, wanting those that the job saw at the
\* cursor, and none only at the end of the file or into an empty slice.
ReadReturns(t, bytes, seen) ==
    LET n == Min({Len(op[t].data), Len(bytes)}) IN
    /\ leftover' = SubSeq(bytes, n + 1, Len(bytes))
    /\ Advance(n)
    /\ Return(t, SubSeq(bytes, 1, n),
              IF cursor = Unknown THEN SubSeq(bytes, 1, n)
              ELSE Pread(seen, cursor, IF n = 0 /\ op[t].data # <<>> THEN 1 ELSE n))

\* Mutant of read_done: the job is not taken out of the File.
read_done_kept(t) ==
    LET j == busy["read"] IN
    /\ op[t].kind = "read" /\ leftover = <<>> /\ j # 0 /\ jobs[j].state = "done"
    /\ pos' = pos + Len(jobs[j].result)
    /\ ReadReturns(t, jobs[j].result, jobs[j].seen)
    /\ UNCHANGED <<content, busy, jobs, ops>>

\* The job is done: its bytes go to the leftover and from there to the slice.
read_done(t) ==
    LET j == busy["read"] IN
    /\ op[t].kind = "read" /\ leftover = <<>> /\ j # 0 /\ jobs[j].state = "done"
    /\ busy' = [busy EXCEPT !["read"] = 0]
    /\ pos' = pos + Len(jobs[j].result)
    /\ ReadReturns(t, jobs[j].result, jobs[j].seen)
    /\ UNCHANGED <<content, jobs, ops>>

read_leftover(t) ==
    /\ op[t].kind = "read" /\ leftover # <<>>
    /\ ReadReturns(t, leftover, content)
    /\ UNCHANGED <<content, pos, busy, jobs, ops>>

\* The count is that of the job; what it wrote ought to be the slice given, at
\* the cursor.
write_done(t) ==
    LET j == busy["write"] IN
    /\ op[t].kind = "write" /\ j # 0 /\ jobs[j].state = "done"
    /\ busy' = [busy EXCEPT !["write"] = 0]
    /\ pos' = pos + Len(jobs[j].data)
    /\ Advance(Len(jobs[j].data))
    /\ Return(t, <<jobs[j].at>> \o jobs[j].data,
              IF cursor = Unknown THEN <<jobs[j].at>> \o jobs[j].data ELSE <<cursor>> \o op[t].data)
    /\ UNCHANGED <<content, leftover, jobs, ops>>

\* poll_seek sets the position and forgets the leftover, not the read's job.
SeekTo(t, new_pos, want) ==
    /\ pos' = new_pos /\ leftover' = <<>>
    /\ cursor' = want
    /\ Return(t, <<new_pos>>, <<want>>)

SeekFails(t) == Return(t, <<>>, <<>>) /\ UNCHANGED <<pos, leftover, cursor>>

\* Mutant of seek: a negative position is not refused.
seek_negative(t) ==
    /\ busy["seek"] = 0
    /\ op[t].kind = "seek_current"
    /\ SeekTo(t, pos + op[t].at, pos + op[t].at)
    /\ UNCHANGED <<content, busy, jobs, ops>>

seek(t) ==
    /\ busy["seek"] = 0
    /\ \/ op[t].kind = "seek_start" /\ SeekTo(t, op[t].at, op[t].at)
       \/ /\ op[t].kind = "seek_current"
          /\ IF pos + op[t].at < 0 THEN SeekFails(t)
             ELSE SeekTo(t, pos + op[t].at, IF cursor = Unknown THEN pos + op[t].at ELSE cursor + op[t].at)
    /\ UNCHANGED <<content, busy, jobs, ops>>

seek_end_post(t) ==
    /\ op[t].kind = "seek_end" /\ busy["seek"] = 0
    /\ busy' = [busy EXCEPT !["seek"] = ops]
    /\ fs_blocking(ops, "seek_end", op[t].at, <<>>)
    /\ UNCHANGED <<content, pos, leftover, op, ops, cursor, last>>

\* Any seek first waits for the job an earlier one left, and returns its result.
seek_end_done(t) ==
    LET j == busy["seek"] IN
    /\ op[t].kind \in {"seek_start", "seek_current", "seek_end"} /\ j # 0 /\ jobs[j].state = "done"
    /\ busy' = [busy EXCEPT !["seek"] = 0]
    /\ IF jobs[j].result = <<>> THEN SeekFails(t) ELSE SeekTo(t, jobs[j].result[1], jobs[j].result[1])
    /\ UNCHANGED <<content, jobs, ops>>

\* The future is dropped; its job is not.  A dropped read has consumed nothing.
cancel(t) ==
    /\ op[t].kind \in Cancellable
    /\ op' = [op EXCEPT ![t] = NoOp]
    /\ cursor' = IF op[t].kind \in CursorKinds \ {"read"} THEN Unknown ELSE cursor
    /\ UNCHANGED <<content, pos, leftover, busy, jobs, ops, last>>

Next ==
    \/ \E t \in Tasks :
          \/ read_at(t) \/ write_at(t) \/ append(t) \/ set_len(t) \/ cursor_op(t)
          \/ shared_done(t) \/ read_post(t) \/ read_done(t) \/ read_leftover(t)
          \/ write_post(t) \/ write_done(t)
          \/ seek(t) \/ seek_end_post(t) \/ seek_end_done(t) \/ cancel(t)
    \/ \E j \in Jobs : run_job(j) \/ append_write(j)

Spec == Init /\ [][Next]_vars

-----------------------------------------------------------------------------
\* "An async handle to an open file with a read/write cursor" (fs.rs:275): what
\* a cursor operation returns is what a synchronous file with the same cursor
\* returns, whatever positional operations and jobs ran in between.
CursorFaithful == last.got = last.want

\* The File's position is ahead of its cursor by the bytes read and not yet
\* returned: a read that is dropped loses no bytes and repeats none.
NoByteLost == cursor # Unknown => pos = cursor + Len(leftover)

=============================================================================
