------------------------------ MODULE AsyncNet -----------------------------
(***************************************************************************)
(* The stream sockets of rust_async/net.rs and os/unix/net.rs, whose       *)
(* operations are the same loop: make the system call; when it would       *)
(* block, wait for the Source; try again.  A client connects, and then one *)
(* clone of its stream writes a message and half-closes while another      *)
(* reads to the end; the server accepts and echoes.                        *)
(*                                                                         *)
(* The Source is reduced to a latched readiness per end and direction that *)
(* is set when a task waits and the kernel is ready, which is what Reactor *)
(* shows of it.                                                            *)
(***************************************************************************)
EXTENDS Integers, Sequences, FiniteSets

CONSTANTS
    Family,         \* "tcp" or "unix"
    Message,        \* what the client sends, a sequence
    Cap,            \* capacity of each direction of the connection
    BufLen,         \* length of the buffers passed to read
    AddrLists,      \* what an address may resolve to: sequences over AddrKinds
    WriteMin        \* least count a write reports, 1 for a socket

AddrKinds == {"ok", "refused", "unreachable"}
Ends == {"client", "server"}
Peer(e) == IF e = "client" THEN "server" ELSE "client"
Tasks == {"writer", "reader", "server"}
EndOf(t) == IF t = "server" THEN "server" ELSE "client"

NetAssumption ==
    /\ Family \in {"tcp", "unix"} /\ Cap \in Nat \ {0} /\ BufLen \in Nat \ {0}
    /\ WriteMin \in {0, 1}
    /\ \A a \in AddrLists : \A i \in DOMAIN a : a[i] \in AddrKinds

VARIABLES
    pc,         \* [Tasks -> STRING]
    via,        \* [Tasks -> "inherent", "trait" or "owned"], the API of the operation
    wire,       \* [Ends -> sequence], on its way to each end
    shut,       \* [Ends -> BOOLEAN], is the write half shut down?
    latch,      \* SUBSET (Ends \X {"Read", "Write"}), Sources found ready
    buf,        \* [Tasks -> sequence], what a write_all has still to write
    got,        \* [Ends -> sequence], read so far
    addrs,      \* addresses still to be tried
    tried,      \* outcomes of connect_one so far
    backlog,    \* connections the listener has not accepted
    open        \* client sockets that are open

vars == <<pc, via, wire, shut, latch, buf, got, addrs, tried, backlog, open>>

Init ==
    /\ pc = [t \in Tasks |-> CASE t = "writer" -> "resolve" [] t = "reader" -> "off" [] t = "server" -> "accept"]
    /\ via = [t \in Tasks |-> "inherent"]
    /\ wire = [e \in Ends |-> <<>>]
    /\ shut = [e \in Ends |-> FALSE]
    /\ latch = {}
    /\ buf = [t \in Tasks |-> <<>>]
    /\ got = [e \in Ends |-> <<>>]
    /\ addrs \in AddrLists
    /\ tried = <<>>
    /\ backlog = 0
    /\ open = 0

Goto(t, label) == pc' = [pc EXCEPT ![t] = label]
streamVars == <<wire, shut, buf, got>>
connectVars == <<addrs, tried, backlog, open>>

\* What epoll reports for an end; the listener's descriptor is a third one.
KernelReady(t, d) ==
    CASE d = "Accept" -> backlog > 0
      [] d = "Read"   -> wire[EndOf(t)] # <<>> \/ shut[Peer(EndOf(t))]
      [] d = "Write"  -> Len(wire[Peer(EndOf(t))]) < Cap

\* The label of a task that waits for its Source in direction d, and of the
\* system call it makes again.
Waits(t) == CASE pc[t] = "wait_read" -> "Read" [] pc[t] = "wait_write" -> "Write"
              [] pc[t] = "wait_accept" -> "Accept" [] OTHER -> "none"
Again(t) == CASE pc[t] = "wait_read" -> "read" [] pc[t] = "wait_write" -> "write"
              [] pc[t] = "wait_accept" -> "accept"

reactor(t) ==
    /\ Waits(t) # "none" /\ KernelReady(t, Waits(t))
    /\ latch' = latch \cup {<<t, Waits(t)>>}
    /\ <<t, Waits(t)>> \notin latch
    /\ UNCHANGED <<pc, via, streamVars, connectVars>>

\* Readable and Writable resolve once the Source is ready.
Await(t) ==
    /\ <<t, Waits(t)>> \in latch
    /\ latch' = latch \ {<<t, Waits(t)>>}
    /\ Goto(t, Again(t))
    /\ UNCHANGED <<via, streamVars, connectVars>>

await_ready(t) == Family = "tcp" /\ Await(t)

unix_await_ready(t) == Family = "unix" /\ Await(t)

-----------------------------------------------------------------------------
(* Connecting.                                                             *)

\* connect_one failed with an error: its socket is closed, the next address.
Failed(kind) ==
    /\ tried' = Append(tried, kind)
    /\ addrs' = Tail(addrs)
    /\ open' = 0
    /\ Goto("writer", "resolve")

\* Connected: the peer's listener has it, and both clones start.
Connected ==
    /\ backlog' = backlog + 1
    /\ pc' = [pc EXCEPT !["writer"] = "write", !["reader"] = "read"]
    /\ buf' = [buf EXCEPT !["writer"] = Message]

\* start_connect: the socket is non-blocking, so connect is in progress, or
\* fails at once and the stream that owns the descriptor closes it.
start_connect ==
    /\ Family = "tcp" /\ pc["writer"] = "resolve" /\ addrs # <<>>
    /\ IF Head(addrs) = "unreachable" THEN Failed("unreachable")
       ELSE open' = 1 /\ Goto("writer", "connecting") /\ UNCHANGED <<addrs, tried>>
    /\ UNCHANGED <<via, latch, streamVars, backlog>>

\* connect_one once the socket is writable: take_socket_error.
connect_one ==
    /\ pc["writer"] = "connecting"
    /\ IF Head(addrs) = "refused"
         THEN Failed("refused") /\ UNCHANGED <<backlog, buf>>
         ELSE Connected /\ tried' = Append(tried, "ok") /\ UNCHANGED <<addrs, open>>
    /\ UNCHANGED <<via, latch, wire, shut, got>>

\* connect has no address left: the last error, or InvalidInput.
connect_fails ==
    /\ Family = "tcp" /\ pc["writer"] = "resolve" /\ addrs = <<>>
    /\ tried' = IF tried = <<>> THEN <<"invalid">> ELSE tried
    /\ Goto("writer", "failed")
    /\ UNCHANGED <<via, latch, streamVars, addrs, backlog, open>>

\* UnixStream::connect makes a blocking connect on the blocking pool.
unix_connect ==
    /\ Family = "unix" /\ pc["writer"] = "resolve"
    /\ \/ Connected /\ tried' = <<"ok">> /\ open' = 1
       \/ Goto("writer", "failed") /\ tried' = <<"refused">> /\ UNCHANGED <<backlog, buf, open>>
    /\ UNCHANGED <<via, latch, wire, shut, got, addrs>>

\* accept, or Incoming::poll_next: Async::new on what the listener returns.
Accept ==
    /\ pc["server"] = "accept"
    /\ IF backlog > 0
         THEN Goto("server", "read") /\ backlog' = backlog - 1
         ELSE Goto("server", "wait_accept") /\ UNCHANGED backlog
    /\ UNCHANGED <<via, latch, streamVars, addrs, tried, open>>

accept == Family = "tcp" /\ via["server"] = "inherent" /\ Accept

incoming == Family = "tcp" /\ via["server"] # "inherent" /\ Accept

unix_accept == Family = "unix" /\ via["server"] = "inherent" /\ Accept

unix_incoming == Family = "unix" /\ via["server"] # "inherent" /\ Accept

-----------------------------------------------------------------------------
(* Reading and writing.                                                    *)

\* The call site picks the inherent method or a trait's.
choose_api(t) ==
    /\ pc[t] \in {"read", "write", "accept"}
    /\ via[t] = "inherent" /\ \E v \in {"trait", "owned"} : via' = [via EXCEPT ![t] = v]
    /\ UNCHANGED <<pc, latch, streamVars, connectVars>>

\* read returns 0: the peer has shut down and everything was read.
AtEof(e) == wire[e] = <<>> /\ shut[Peer(e)]

\* One read: some bytes, 0 at the end of the stream, or WouldBlock.
Read(t) ==
    LET e == EndOf(t) IN
    /\ pc[t] = "read"
    /\ \/ \E n \in 1..BufLen :
             /\ n <= Len(wire[e])
             /\ got' = [got EXCEPT ![e] = @ \o SubSeq(wire[e], 1, n)]
             /\ wire' = [wire EXCEPT ![e] = SubSeq(@, n + 1, Len(@))]
             /\ IF t = "server"
                  THEN buf' = [buf EXCEPT ![t] = SubSeq(wire[e], 1, n)] /\ Goto(t, "write")
                  ELSE UNCHANGED <<buf, pc>>
       \/ /\ AtEof(e)
          /\ Goto(t, IF t = "server" THEN "close" ELSE "done")
          /\ UNCHANGED <<got, wire, buf>>
       \/ /\ wire[e] = <<>> /\ ~AtEof(e)
          /\ Goto(t, "wait_read")
          /\ UNCHANGED <<got, wire, buf>>
    /\ UNCHANGED <<via, shut, latch, connectVars>>

read(t) == Family = "tcp" /\ via[t] = "inherent" /\ Read(t)

poll_read(t) == Family = "tcp" /\ via[t] = "trait" /\ Read(t)

owned_read(t) == Family = "tcp" /\ via[t] = "owned" /\ Read(t)

unix_read(t) == Family = "unix" /\ via[t] = "inherent" /\ Read(t)

unix_poll_read(t) == Family = "unix" /\ via[t] = "trait" /\ Read(t)

unix_owned_read(t) == Family = "unix" /\ via[t] = "owned" /\ Read(t)

\* write_all: buf = &buf[n..]
Rest(b, n) == SubSeq(b, n + 1, Len(b))

\* One write inside write_all: a prefix, WriteZero for 0, or WouldBlock.
Write(t) ==
    LET e == Peer(EndOf(t)) IN
    /\ pc[t] = "write" /\ buf[t] # <<>>
    /\ \/ \E n \in WriteMin..Len(buf[t]) :
             /\ Len(wire[e]) + n <= Cap /\ Len(wire[e]) < Cap
             /\ wire' = [wire EXCEPT ![e] = @ \o SubSeq(buf[t], 1, n)]
             /\ buf' = [buf EXCEPT ![t] = Rest(@, n)]
             /\ IF n = 0 THEN Goto(t, "close") ELSE UNCHANGED pc
       \/ /\ Len(wire[e]) = Cap
          /\ Goto(t, "wait_write")
          /\ UNCHANGED <<wire, buf>>
    /\ UNCHANGED <<via, shut, latch, got, connectVars>>

\* write_all has written everything: the server reads on, the client closes.
WriteAllDone(t) ==
    /\ pc[t] = "write" /\ buf[t] = <<>>
    /\ Goto(t, IF t = "server" THEN "read" ELSE "close")
    /\ UNCHANGED <<via, latch, streamVars, connectVars>>

write(t) == Family = "tcp" /\ via[t] = "inherent" /\ Write(t)

write_all_done(t) == Family = "tcp" /\ WriteAllDone(t)

poll_write(t) == Family = "tcp" /\ via[t] = "trait" /\ Write(t)

owned_write(t) == Family = "tcp" /\ via[t] = "owned" /\ Write(t)

unix_write(t) == Family = "unix" /\ via[t] = "inherent" /\ Write(t)

unix_write_all_done(t) == Family = "unix" /\ WriteAllDone(t)

unix_poll_write(t) == Family = "unix" /\ via[t] = "trait" /\ Write(t)

unix_owned_write(t) == Family = "unix" /\ via[t] = "owned" /\ Write(t)

\* Mutant of Close: flush only.
Close_flush(t) ==
    /\ pc[t] = "close"
    /\ Goto(t, "done")
    /\ UNCHANGED <<via, latch, streamVars, connectVars>>

\* poll_close and shutdown(Write): a half-close; the server drops its stream.
Close(t) ==
    /\ pc[t] = "close"
    /\ shut' = [shut EXCEPT ![EndOf(t)] = TRUE]
    /\ Goto(t, "done")
    /\ UNCHANGED <<via, latch, wire, buf, got, connectVars>>

poll_close(t) == Family = "tcp" /\ Close(t)

unix_poll_close(t) == Family = "unix" /\ Close(t)

-----------------------------------------------------------------------------
Tcp(t) ==
    \/ await_ready(t) \/ read(t) \/ poll_read(t) \/ owned_read(t)
    \/ write(t) \/ write_all_done(t) \/ poll_write(t) \/ owned_write(t) \/ poll_close(t)

Unix(t) ==
    \/ unix_await_ready(t) \/ unix_read(t) \/ unix_poll_read(t) \/ unix_owned_read(t)
    \/ unix_write(t) \/ unix_write_all_done(t) \/ unix_poll_write(t) \/ unix_owned_write(t)
    \/ unix_poll_close(t)

Connecting == start_connect \/ connect_one \/ connect_fails \/ unix_connect

Accepting == accept \/ incoming \/ unix_accept \/ unix_incoming

Next ==
    \/ Connecting \/ Accepting
    \/ \E t \in Tasks : Tcp(t) \/ Unix(t) \/ reactor(t) \/ choose_api(t)

Spec == Init /\ [][Next]_vars

\* The executor polls woken tasks and the reactor finds what is ready.
LiveSpec ==
    /\ Spec
    /\ WF_vars(Connecting) /\ WF_vars(Accepting)
    /\ \A t \in Tasks : WF_vars(Tcp(t) \/ Unix(t)) /\ WF_vars(reactor(t))

-----------------------------------------------------------------------------
IsPrefixOf(a, b) == Len(a) <= Len(b) /\ a = SubSeq(b, 1, Len(a))

\* What either end has read is a prefix of what the other wrote, through short
\* reads and writes, WouldBlock and the half-close.
StreamInOrder ==
    /\ IsPrefixOf(got["server"] \o wire["server"], Message)
    /\ IsPrefixOf(got["client"] \o wire["client"], got["server"])

\* The end of the stream is seen only after everything written was read.
EofMeansAll ==
    pc["reader"] = "done" => got["client"] \o buf["server"] = got["server"] /\ pc["server"] = "done"

\* connect returns the first address that answers, or the error of the last.
ConnectTriesInOrder ==
    /\ \A i \in DOMAIN tried : tried[i] = "ok" => i = Len(tried) /\ open = 1
    /\ pc["writer"] = "failed" => tried # <<>> /\ open = 0

\* "One clone can read while another writes" (net.rs:58): however small the
\* buffers, once connected the whole message comes back.
EchoCompletes ==
    (pc["writer"] = "write") ~> (pc["reader"] = "done" /\ got["client"] = Message)

=============================================================================
