------------------------------ MODULE Datagram -----------------------------
(***************************************************************************)
(* UdpSocket of rust_async/net.rs and UnixDatagram of os/unix/net.rs: the  *)
(* sockets of Senders send Count datagrams each to one receiving socket,   *)
(* addressed (send_to, recv_from) or connected (send, recv).  The Source   *)
(* is reduced as in AsyncNet.                                              *)
(***************************************************************************)
EXTENDS Naturals, Sequences, FiniteSets

CONSTANTS
    Family,     \* "udp" or "unix"
    Senders, Receiver,
    Count,      \* datagrams each sender sends
    QueueLen    \* datagrams the receive queue holds

Sockets == Senders \cup {Receiver}

DatagramAssumption ==
    /\ Family \in {"udp", "unix"} /\ Receiver \notin Senders
    /\ Count \in Nat /\ QueueLen \in Nat \ {0}

VARIABLES
    queue,      \* the receiver's queue, a sequence of [from, id]
    connected,  \* senders that have set their default peer
    waiting,    \* sockets whose task waits for the Source
    latch,      \* sockets whose Source is ready
    sent,       \* [Senders -> datagrams sent]
    arrived,    \* what reached the receiver's queue, in order
    got         \* what the calls of the receiver returned

vars == <<queue, connected, waiting, latch, sent, arrived, got>>

Init ==
    /\ queue = <<>>
    /\ connected = {}
    /\ waiting = {}
    /\ latch = {}
    /\ sent = [s \in Senders |-> 0]
    /\ arrived = <<>>
    /\ got = <<>>

\* UdpSocket::bind and UnixDatagram::from_std: a non-blocking socket whose call
\* would block when there is nothing to take, or no room on a Unix socket.
WouldBlock(s) == IF s = Receiver THEN queue = <<>> ELSE Family = "unix" /\ Len(queue) = QueueLen

\* The other arm of every loop: wait until the Source is ready.
Wait(s) ==
    /\ waiting' = waiting \cup {s}
    /\ UNCHANGED <<queue, connected, latch, sent, arrived, got>>

\* The network: a Unix socket queues the datagram; UDP also loses or repeats
\* one, and loses what has no room.
Copies == IF Family = "udp" THEN 0..2 ELSE {1}

Arrives(d, copies) ==
    LET n == IF Len(queue) + copies <= QueueLen THEN copies ELSE 0 IN
    /\ queue' = queue \o [i \in 1..n |-> d]
    /\ arrived' = arrived \o [i \in 1..n |-> d]

\* One datagram, whole, or WouldBlock.
Send(s) ==
    /\ s \notin waiting /\ sent[s] < Count
    /\ IF WouldBlock(s) THEN Wait(s)
       ELSE /\ sent' = [sent EXCEPT ![s] = @ + 1]
            /\ \E n \in Copies : Arrives([from |-> s, id |-> sent[s] + 1], n)
            /\ UNCHANGED <<connected, waiting, latch, got>>

\* A receive returns one datagram, or waits.
Recv ==
    /\ Receiver \notin waiting
    /\ IF WouldBlock(Receiver) THEN Wait(Receiver)
       ELSE /\ got' = Append(got, Head(queue))
            /\ queue' = Tail(queue)
            /\ UNCHANGED <<connected, waiting, latch, sent, arrived>>

Connect(s) ==
    /\ s \notin connected \cup waiting
    /\ connected' = connected \cup {s}
    /\ UNCHANGED <<queue, waiting, latch, sent, arrived, got>>

send_to(s) == Family = "udp" /\ s \notin connected /\ Send(s)

send(s) == Family = "udp" /\ s \in connected /\ Send(s)

connect(s) == Family = "udp" /\ Connect(s)

recv_from == Family = "udp" /\ Recv

unix_send_to(s) == Family = "unix" /\ s \notin connected /\ Send(s)

unix_send(s) == Family = "unix" /\ s \in connected /\ Send(s)

unix_connect(s) == Family = "unix" /\ Connect(s)

unix_recv_from == Family = "unix" /\ Recv

\* recv is recv_from without the address.
recv == Family = "udp" /\ Recv

unix_recv == Family = "unix" /\ Recv

\* The Source of a socket that waits becomes ready, and its await resolves.
reactor(s) ==
    /\ s \in waiting \ latch /\ ~WouldBlock(s)
    /\ latch' = latch \cup {s}
    /\ UNCHANGED <<queue, connected, waiting, sent, arrived, got>>

ready(s) ==
    /\ s \in latch
    /\ latch' = latch \ {s}
    /\ waiting' = waiting \ {s}
    /\ UNCHANGED <<queue, connected, sent, arrived, got>>

SendStep(s) == send_to(s) \/ send(s) \/ unix_send_to(s) \/ unix_send(s)
RecvStep == recv_from \/ recv \/ unix_recv_from \/ unix_recv
Ready(s) == reactor(s) \/ ready(s)

Next ==
    \/ \E s \in Senders : SendStep(s) \/ connect(s) \/ unix_connect(s)
    \/ RecvStep
    \/ \E s \in Sockets : Ready(s)

\* The executor polls woken tasks and the reactor finds what is ready.
Spec ==
    /\ Init /\ [][Next]_vars
    /\ \A s \in Senders : WF_vars(SendStep(s))
    /\ WF_vars(RecvStep)
    /\ \A s \in Sockets : WF_vars(Ready(s))

-----------------------------------------------------------------------------
\* What reaches the socket is returned once and in the order it arrived, however
\* the calls, the waits and the two APIs interleave and whatever the network
\* loses or repeats.
ReceivedOnce == got \o queue = arrived

\* A Unix datagram socket loses nothing: a sender waits for room.
AllArrive == Family = "unix" => <>(Len(got) = Count * Cardinality(Senders))

=============================================================================
