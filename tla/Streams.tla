------------------------------ MODULE Streams ------------------------------
(***************************************************************************)
(* The stream constructors and combinators of rust_async/stream.rs as pure *)
(* operators: a stream is a record, and polling it gives an outcome and    *)
(* the stream that remains.  A consumer polls a pipeline until it ends,    *)
(* and suspends whenever the source is pending.                            *)
(***************************************************************************)
EXTENDS Naturals, Sequences, SequencesExt

CONSTANTS
    Items,      \* numbers
    MaxLen,     \* bound on what a source yields
    MaxTake     \* bound on the argument of take

StreamAssumption == Items \subseteq Nat /\ MaxLen \in Nat /\ MaxTake \in Nat

\* A source yields the elements of a sequence and is pending at each Pend.
Pend == 99

Source(items) == [kind |-> "source", items |-> items]
from_iter(items) == [kind |-> "source", items |-> items]
once(value) == [kind |-> "once", items |-> <<value>>]
empty == [kind |-> "empty", items |-> <<>>]
repeat(value) == [kind |-> "repeat", value |-> value]
map(s) == [kind |-> "map", inner |-> s]
filter(s) == [kind |-> "filter", inner |-> s]
take(s, n) == [kind |-> "take", inner |-> s, remaining |-> n]

\* The closures given to map, filter and fold.
MapFn(x) == 2 * x + 1
Predicate(x) == x % 3 # 1
FoldFn(acc, x) == (10 * acc) + x

Ready(x, rest) == [out |-> "item", item |-> x, rest |-> rest]
End(rest) == [out |-> "end", item |-> 0, rest |-> rest]
Pending(rest) == [out |-> "pending", item |-> 0, rest |-> rest]

-----------------------------------------------------------------------------
(* poll_next of each stream.                                               *)
RECURSIVE poll_next(_), Filter_poll(_)

FromIter_poll(s) ==
    IF s.items = <<>> THEN End(s)
    ELSE LET rest == [s EXCEPT !.items = Tail(@)] IN
         IF Head(s.items) = Pend THEN Pending(rest) ELSE Ready(Head(s.items), rest)

Once_poll(s) == IF s.items = <<>> THEN End(s) ELSE Ready(Head(s.items), [s EXCEPT !.items = <<>>])

Empty_poll(s) == End(s)

Repeat_poll(s) == Ready(s.value, s)

Map_poll(s) ==
    LET r == poll_next(s.inner) IN
    [r EXCEPT !.item = IF r.out = "item" THEN MapFn(r.item) ELSE 0, !.rest = [s EXCEPT !.inner = r.rest]]

Filter_poll(s) ==
    LET r == poll_next(s.inner)
        rest == [s EXCEPT !.inner = r.rest] IN
    IF r.out = "item" /\ ~Predicate(r.item) THEN Filter_poll(rest) ELSE [r EXCEPT !.rest = rest]

\* Mutant of Take_poll: the source is polled before the count is looked at.
Take_poll_late(s) ==
    LET r == poll_next(s.inner)
        rest == [s EXCEPT !.inner = r.rest] IN
    IF s.remaining = 0 THEN End(rest)
    ELSE [r EXCEPT !.rest = [rest EXCEPT !.remaining = IF r.out = "item" THEN @ - 1 ELSE @]]

Take_poll(s) ==
    IF s.remaining = 0 THEN End(s)
    ELSE LET r == poll_next(s.inner) IN
         [r EXCEPT !.rest = [s EXCEPT !.inner = r.rest, !.remaining = IF r.out = "item" THEN @ - 1 ELSE @]]

poll_next(s) ==
    CASE s.kind = "source" -> FromIter_poll(s)
      [] s.kind = "once" -> Once_poll(s)
      [] s.kind = "empty" -> Empty_poll(s)
      [] s.kind = "repeat" -> Repeat_poll(s)
      [] s.kind = "map" -> Map_poll(s)
      [] s.kind = "filter" -> Filter_poll(s)
      [] s.kind = "take" -> Take_poll(s)

-----------------------------------------------------------------------------
(* Consumers: next, fold, for_each and collect.                            *)

Consumer(kind, s) == [kind |-> kind, stream |-> s, acc |-> 0, seen |-> <<>>, done |-> FALSE]

Next_poll(c) ==
    LET r == poll_next(c.stream) IN
    [c EXCEPT !.stream = r.rest, !.done = r.out = "end",
              !.seen = IF r.out = "item" THEN Append(@, r.item) ELSE @]

RECURSIVE Fold_poll(_), ForEach_poll(_), Collect_poll(_)

Fold_poll(c) ==
    LET r == poll_next(c.stream)
        rest == [c EXCEPT !.stream = r.rest] IN
    CASE r.out = "item" -> Fold_poll([rest EXCEPT !.acc = FoldFn(@, r.item), !.seen = Append(@, r.item)])
      [] r.out = "end" -> [rest EXCEPT !.done = TRUE]
      [] r.out = "pending" -> rest

ForEach_poll(c) ==
    LET r == poll_next(c.stream)
        rest == [c EXCEPT !.stream = r.rest] IN
    CASE r.out = "item" -> ForEach_poll([rest EXCEPT !.seen = Append(@, r.item)])
      [] r.out = "end" -> [rest EXCEPT !.done = TRUE]
      [] r.out = "pending" -> rest

Collect_poll(c) ==
    LET r == poll_next(c.stream)
        rest == [c EXCEPT !.stream = r.rest] IN
    CASE r.out = "item" -> Collect_poll([rest EXCEPT !.seen = Append(@, r.item)])
      [] r.out = "end" -> [rest EXCEPT !.done = TRUE]
      [] r.out = "pending" -> rest

-----------------------------------------------------------------------------
(* What a stream stands for: its first n items.                            *)

\* More than any pipeline below yields.
Enough == MaxLen + MaxTake + 1

RECURSIVE FirstItems(_, _)
FirstItems(s, n) ==
    CASE s.kind = "repeat" -> [i \in 1..n |-> s.value]
      [] s.kind \in {"source", "once", "empty"} ->
            LET all == SelectSeq(s.items, LAMBDA x : x # Pend) IN SubSeq(all, 1, IF n < Len(all) THEN n ELSE Len(all))
      [] s.kind = "map" -> LET in == FirstItems(s.inner, n) IN [i \in DOMAIN in |-> MapFn(in[i])]
      [] s.kind = "filter" ->
            LET all == SelectSeq(FirstItems(s.inner, Enough), Predicate) IN SubSeq(all, 1, IF n < Len(all) THEN n ELSE Len(all))
      [] s.kind = "take" -> FirstItems(s.inner, IF n < s.remaining THEN n ELSE s.remaining)

\* Pipelines of up to two combinators; what repeats for ever is cut by take.
Sources ==
    {Source(items) : items \in UNION {[1..n -> Items \cup {Pend}] : n \in 0..MaxLen}}
        \cup {from_iter(items) : items \in [1..MaxLen -> Items]}
        \cup {once(x) : x \in Items} \cup {empty}
        \cup {take(repeat(x), n) : x \in Items, n \in 0..MaxTake}

Combined(S) == {map(s) : s \in S} \cup {filter(s) : s \in S} \cup {take(s, n) : s \in S, n \in 0..MaxTake}

Pipelines == Sources \cup Combined(Sources) \cup Combined(Combined(Sources))

VARIABLES
    pipeline,   \* the stream the consumer was given
    consumer    \* the consumer's state

vars == <<pipeline, consumer>>

Init ==
    /\ pipeline \in Pipelines
    /\ \E kind \in {"next", "fold", "for_each", "collect"} : consumer = Consumer(kind, pipeline)

TypeOK ==
    /\ consumer.acc \in Nat
    /\ consumer.seen \in Seq(Nat \ {Pend})
    /\ consumer.done \in BOOLEAN

poll ==
    /\ ~consumer.done
    /\ consumer' = CASE consumer.kind = "next" -> Next_poll(consumer)
                     [] consumer.kind = "fold" -> Fold_poll(consumer)
                     [] consumer.kind = "for_each" -> ForEach_poll(consumer)
                     [] consumer.kind = "collect" -> Collect_poll(consumer)
    /\ UNCHANGED pipeline

Spec == Init /\ [][poll]_vars

-----------------------------------------------------------------------------
\* At every suspension, what the consumer has seen and what the rest of the
\* pipeline stands for make up what the whole stood for, and at the end nothing
\* is left: no item is lost, repeated or reordered by a pending source.
NothingLost ==
    /\ consumer.seen \o FirstItems(consumer.stream, Enough) = FirstItems(pipeline, Enough)
    /\ consumer.done => consumer.seen = FirstItems(pipeline, Enough)
    /\ consumer.kind = "fold" => consumer.acc = FoldLeft(FoldFn, 0, consumer.seen)

\* take(n) over a source takes n items out of it and no more, so that the
\* source can go on being used.
TakeLeavesTheRest ==
    pipeline.kind = "take" /\ pipeline.inner.kind = "source" /\ consumer.done =>
        FirstItems(consumer.stream.inner, Enough)
            = SubSeq(FirstItems(pipeline.inner, Enough), Len(consumer.seen) + 1, Len(FirstItems(pipeline.inner, Enough)))

=============================================================================
