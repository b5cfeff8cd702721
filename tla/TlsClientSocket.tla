-------------------------- MODULE TlsClientSocket --------------------------
(***************************************************************************)
(* rust_net/tls_client_socket.rs: the pumps that carry rustls's bytes over *)
(* a transport StreamSocket, whose read and write complete at once or wait *)
(* in its one slot per direction.                                          *)
(*                                                                         *)
(* A TLS record is RecordLen bytes on the wire.  rustls is external: it    *)
(* queues records to send, takes bytes in order, and knows when a record   *)
(* is complete.  active is the operation whose code the IO thread is in;   *)
(* user code runs when there is none.                                      *)
(***************************************************************************)
EXTENDS Integers, FiniteSets, SequencesExt

CONSTANTS
    Ops,
    OpKind,     \* [Ops -> {"handshake", "read", "write", "disconnect"}]
    NoOp,
    Incoming,   \* records the server sends: "hs", "app", "update" or "close"
    RecordLen,
    Chunk,      \* most bytes one transport read returns
    Deframe,    \* most bytes one read_tls takes
    Overlap     \* may a read and a write be in progress together?

TlsAssumption ==
    /\ OpKind \in [Ops -> {"handshake", "read", "write", "disconnect"}]
    /\ RecordLen \in Nat \ {0} /\ Chunk \in Nat \ {0} /\ Deframe \in Nat \ {0}

VARIABLES
    at,         \* [Ops -> STRING], where an operation is, or how it ended
    active,
    buf,        \* [Ops -> Seq(Byte)], what its write_all still has to write
    slot,       \* [{"read", "write"} -> Ops or NoOp], the transport's slots
    connected,  \* the transport is open
    queued,     \* records rustls wants to write
    produced,   \* all records rustls has queued so far
    wire,       \* bytes the transport has taken
    arrived,    \* bytes of Incoming that the transport has delivered
    taken,      \* bytes of Incoming that rustls has taken
    broken,     \* rustls met a byte that does not continue the record stream
    plaintext,  \* records decrypted and not yet read
    record      \* [Ops -> the record a write or disconnect queued, 0 if none]

vars == <<at, active, buf, slot, connected, queued, produced, wire, arrived, taken, broken,
          plaintext, record>>

Done == {"Ok", "Err", "Dropped"}
BytesOf(records) == [i \in 1..(Len(records) * RecordLen) |->
                        <<records[(i - 1) \div RecordLen + 1], (i - 1) % RecordLen>>]
Complete(n) == SubSeq(Incoming, 1, n \div RecordLen)
HandshakeRecords == Cardinality({i \in DOMAIN Incoming : Incoming[i] = "hs"})

\* rustls: the handshake ends with the server's last handshake record, which
\* the client answers; the client's first record is there from the start.
is_handshaking == Cardinality({i \in DOMAIN Complete(taken) : Incoming[i] = "hs"}) < HandshakeRecords

Init ==
    /\ at = [o \in Ops |-> "new"]
    /\ active = NoOp
    /\ buf = [o \in Ops |-> <<>>]
    /\ slot = [d \in {"read", "write"} |-> NoOp]
    /\ connected = TRUE
    /\ queued = <<1>> /\ produced = 1
    /\ wire = <<>> /\ arrived = 0 /\ taken = 0 /\ broken = FALSE
    /\ plaintext = 0
    /\ record = [o \in Ops |-> 0]

TypeOK ==
    /\ at \in [Ops -> Done \cup {"new", "pull", "feed", "feeding", "flush", "write", "writing"}]
    /\ active \in Ops \cup {NoOp}
    /\ active # NoOp => at[active] \in {"pull", "feed", "flush", "write"}
    /\ taken <= arrived /\ arrived <= RecordLen * Len(Incoming)
    /\ \A o \in Ops : at[o] = "writing" => buf[o] # <<>>

-----------------------------------------------------------------------------
(* flush_pending and write_all.                                            *)

Goto(o, l) == at' = [at EXCEPT ![o] = l]
Ends(l) == l \in Done

\* Where an operation goes when its flush is done.
AfterFlush(o) ==
    CASE OpKind[o] = "handshake" -> IF is_handshaking THEN "feed" ELSE "Ok"
      [] OpKind[o] = "read" -> "pull"
      [] OTHER -> "Ok"

\* The operation goes on at l, or its callback is called.
Continue(o, l) == Goto(o, l) /\ active' = IF Ends(l) THEN NoOp ELSE o

\* disconnect's continuation closes the transport; its slots go uncalled.
Close(o) ==
    /\ connected' = FALSE
    /\ at' = [p \in Ops |-> CASE p = o -> "Ok" [] slot["read"] = p \/ slot["write"] = p -> "Dropped"
                              [] OTHER -> at[p]]
    /\ slot' = [d \in {"read", "write"} |-> NoOp]
    /\ active' = NoOp

\* A failed write ends the operation; disconnect ignores it and closes.
FlushFails(o, slots) ==
    IF OpKind[o] = "disconnect" THEN Close(o)
    ELSE Continue(o, "Err") /\ slot' = slots /\ UNCHANGED connected

flush_pending(o) ==
    /\ active = o /\ at[o] = "flush"
    /\ IF queued # <<>>
         THEN /\ buf' = [buf EXCEPT ![o] = BytesOf(queued)]
              /\ queued' = <<>>
              /\ Continue(o, "write") /\ UNCHANGED <<slot, connected>>
         ELSE /\ IF OpKind[o] = "disconnect" THEN Close(o)
                 ELSE Continue(o, AfterFlush(o)) /\ UNCHANGED <<slot, connected>>
              /\ UNCHANGED <<buf, queued>>
    /\ UNCHANGED <<produced, wire, arrived, taken, broken, plaintext, record>>

\* Mutant of Unwritten: after a short write start over.
Unwritten_all(b, n) == b

Unwritten(b, n) == SubSeq(b, n + 1, Len(b))

IsWhole(b, n) == n >= Len(b)

\* The transport took n bytes: write the rest, or flush again.
Wrote(o, n) ==
    /\ wire' = wire \o SubSeq(buf[o], 1, n)
    /\ buf' = [buf EXCEPT ![o] = Unwritten(@, n)]
    /\ Continue(o, IF IsWhole(buf[o], n) THEN "flush" ELSE "write")

\* transport.write: some bytes at once, an error, or the slot (and whatever
\* callback was in it is dropped).
write_all(o) ==
    /\ active = o /\ at[o] = "write"
    /\ \/ /\ connected
          /\ \E n \in 1..Len(buf[o]) : Wrote(o, n)
          /\ UNCHANGED <<slot, connected>>
       \/ FlushFails(o, slot) /\ UNCHANGED <<wire, buf>>
       \/ /\ connected
          /\ at' = [p \in Ops |-> CASE p = o -> "writing" [] p = slot["write"] -> "Dropped" [] OTHER -> at[p]]
          /\ slot' = [slot EXCEPT !["write"] = o]
          /\ active' = NoOp
          /\ UNCHANGED <<wire, buf, connected>>
    /\ UNCHANGED <<queued, produced, arrived, taken, broken, plaintext, record>>

transport_writable ==
    /\ active = NoOp /\ slot["write"] # NoOp
    /\ LET o == slot["write"]
           slots == [slot EXCEPT !["write"] = NoOp] IN
       \/ (\E n \in 1..Len(buf[o]) : Wrote(o, n)) /\ slot' = slots /\ UNCHANGED connected
       \/ FlushFails(o, slots) /\ UNCHANGED <<wire, buf>>
    /\ UNCHANGED <<queued, produced, arrived, taken, broken, plaintext, record>>

-----------------------------------------------------------------------------
(* feed_one.                                                               *)

\* How many of a chunk's n bytes rustls gets: read_tls takes what its buffer
\* has room for, and the loop calls it until the chunk is drained.
TakenOf(n) ==
    LET Drained[k \in 0..Chunk] ==
            LET step == Min({k, Deframe}) IN IF k = 0 THEN 0 ELSE step + Drained[k - step] IN
    Drained[n]

\* A chunk of n bytes reaches rustls, which decrypts the records it completes
\* and queues an answer to the last handshake record and to a key update.
Feed(o, n) ==
    LET t == taken + TakenOf(n)
        done == SubSeq(Incoming, taken \div RecordLen + 1, t \div RecordLen)
        answers == Len(SelectSeq(done, LAMBDA r : r = "update"))
                      + IF is_handshaking /\ t \div RecordLen >= HandshakeRecords THEN 1 ELSE 0 IN
    /\ arrived' = arrived + n
    /\ IF taken # arrived
         THEN broken' = TRUE /\ Continue(o, "Err") /\ UNCHANGED <<taken, plaintext, queued, produced>>
         ELSE /\ taken' = t
              /\ plaintext' = plaintext + Len(SelectSeq(done, LAMBDA r : r = "app"))
              /\ queued' = queued \o [i \in 1..answers |-> produced + i]
              /\ produced' = produced + answers
              /\ UNCHANGED broken
              /\ Continue(o, "flush")

\* What a transport read may give: a chunk, the end of the stream, an error.
Fed(o) ==
    \/ \E n \in 1..Chunk : arrived + n <= RecordLen * Len(Incoming) /\ Feed(o, n)
    \/ /\ Continue(o, "Err")
       /\ UNCHANGED <<arrived, taken, broken, plaintext, queued, produced>>

feed_one(o) ==
    /\ active = o /\ at[o] = "feed"
    /\ \/ connected /\ Fed(o) /\ UNCHANGED slot
       \/ /\ connected
          /\ slot' = [slot EXCEPT !["read"] = o]
          /\ at' = [p \in Ops |-> CASE p = o -> "feeding" [] p = slot["read"] -> "Dropped" [] OTHER -> at[p]]
          /\ active' = NoOp
          /\ UNCHANGED <<arrived, taken, broken, plaintext, queued, produced>>
       \/ /\ ~connected
          /\ Continue(o, "Err")
          /\ UNCHANGED <<arrived, taken, broken, plaintext, queued, produced, slot>>
    /\ UNCHANGED <<buf, connected, wire, record>>

transport_readable ==
    /\ active = NoOp /\ slot["read"] # NoOp
    /\ slot' = [slot EXCEPT !["read"] = NoOp]
    /\ Fed(slot["read"])
    /\ UNCHANGED <<buf, connected, wire, record>>

-----------------------------------------------------------------------------
(* The operations.                                                         *)

InProgress == {o \in Ops : at[o] \notin Done \cup {"new"}}

\* User code waits for the handshake, then keeps to one operation at a time,
\* or to one read and one write; an error is the end of the stream.
MayStart(o) ==
    /\ active = NoOp /\ connected /\ at[o] = "new"
    /\ \A p \in Ops : at[p] # "Err"
    /\ IF OpKind[o] = "handshake" THEN InProgress = {}
       ELSE /\ \E h \in Ops : OpKind[h] = "handshake" /\ at[h] = "Ok"
            /\ \A p \in InProgress : Overlap /\ OpKind[p] # OpKind[o]

Queue(o) ==
    /\ queued' = Append(queued, produced + 1)
    /\ produced' = produced + 1
    /\ record' = [record EXCEPT ![o] = produced + 1]

handshake(o) ==
    /\ OpKind[o] = "handshake" /\ MayStart(o)
    /\ Continue(o, "flush")
    /\ UNCHANGED <<buf, slot, connected, queued, produced, wire, arrived, taken, broken, plaintext, record>>

read(o) ==
    /\ OpKind[o] = "read" /\ MayStart(o)
    /\ Continue(o, "pull")
    /\ UNCHANGED <<buf, slot, connected, queued, produced, wire, arrived, taken, broken, plaintext, record>>

\* Plaintext that is there, a clean end of the stream, or more ciphertext.
read_pull(o) ==
    /\ active = o /\ at[o] = "pull"
    /\ Continue(o, IF plaintext > 0 \/ Contains(Complete(taken), "close") THEN "Ok" ELSE "feed")
    /\ plaintext' = IF plaintext > 0 THEN plaintext - 1 ELSE 0
    /\ UNCHANGED <<buf, slot, connected, queued, produced, wire, arrived, taken, broken, record>>

\* rustls takes the plaintext, which is then flushed, or refuses it.
write(o) ==
    /\ OpKind[o] = "write" /\ MayStart(o)
    /\ \/ Queue(o) /\ Continue(o, "flush")
       \/ Continue(o, "Err") /\ UNCHANGED <<queued, produced, record>>
    /\ UNCHANGED <<buf, slot, connected, wire, arrived, taken, broken, plaintext>>

disconnect(o) ==
    /\ OpKind[o] = "disconnect" /\ MayStart(o)
    /\ Queue(o)
    /\ Continue(o, "flush")
    /\ UNCHANGED <<buf, slot, connected, wire, arrived, taken, broken, plaintext>>

Pump(o) == flush_pending(o) \/ write_all(o) \/ feed_one(o) \/ read_pull(o)

Next ==
    \/ \E o \in Ops : handshake(o) \/ read(o) \/ write(o) \/ disconnect(o) \/ Pump(o)
    \/ transport_writable \/ transport_readable

Spec == Init /\ [][Next]_vars

\* The IO thread runs; the transport reports readiness, data, end or error.
LiveSpec ==
    /\ Spec
    /\ \A o \in Ops : WF_vars(Pump(o))
    /\ WF_vars(transport_writable) /\ WF_vars(transport_readable)

-----------------------------------------------------------------------------
\* The transport carries whole records in the order rustls made them: no flush
\* puts its bytes between the halves of another's record.
WireInOrder == IsPrefix(wire, BytesOf([i \in 1..produced |-> i]))

\* A write that succeeded has its whole record on the wire.
WrittenIsSent ==
    \A o \in Ops : OpKind[o] = "write" /\ at[o] = "Ok" => Len(wire) >= RecordLen * record[o]

\* Every byte the transport delivers reaches rustls, so that the record stream
\* never loses its framing, however the chunks fall.
StreamNeverBroken == ~broken

\* An operation that was started calls its callback, unless a disconnect() cuts
\* it off.
OperationEnds == \A o \in Ops : (o \in InProgress) ~> (at[o] \in Done)

=============================================================================
