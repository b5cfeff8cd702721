------------------------------ MODULE TcpSocket ------------------------------
(***************************************************************************)
(* rust_net/tcp_socket.rs, tcp_client_socket.rs and tcp_server_socket.rs:  *)
(* what the TCP layers do with a SocketPosix.  Most of it is delegation;   *)
(* connect and listen are sequences of calls that may fail half way.       *)
(***************************************************************************)
EXTENDS SocketPosix

\* TcpClientSocket::connect: open, the options, connect.  socket(2) may fail,
\* which the callback hears of at once; a failed option is ignored.
client_connect(s, o) ==
    /\ io_pc = "user" /\ s \in scope /\ fd[s] = NoFd /\ outcome[o] = "new"
    /\ \/ /\ Deliver(o, "Err")
          /\ UNCHANGED <<pumpVars, fd, controller, pending, gen, role, dead, scope>>
       \/ \E f \in FreeFds : fd' = [fd EXCEPT ![s] = f] /\ connect_fd(s, f, o)

client_connect_with_timeout(s, o) ==
    /\ client_connect(s, o)
    /\ IF fd' = fd THEN UNCHANGED timers ELSE schedule_timeout(s, "connect", o)

\* TcpServerSocket::listen: a failure after open leaves the descriptor open.
server_listen(s) ==
    /\ io_pc = "user" /\ s \in scope /\ fd[s] = NoFd
    /\ \E f \in FreeFds : fd' = [fd EXCEPT ![s] = f]
    /\ \E r \in {"none", "listening"} : role' = [role EXCEPT ![s] = r]
    /\ UNCHANGED <<pumpVars, controller, pending, gen, timers, outcome, dead, scope>>

\* TcpServerSocket::accept; the options of the new socket are best effort.
server_accept(s, o) == accept(s, o)

\* StreamSocket for TcpClientSocket: the transport a TLS socket sees.
stream_socket(s, o) == o \notin Timed /\ UNCHANGED timers /\ (read(s, o) \/ write(s, o))

\* TcpClientSocket's own operations; those on a connected socket delegate.
client_operation(s, o) ==
    \/ stream_socket(s, o)
    \/ o \notin Timed /\ UNCHANGED timers /\ (read_if_ready(s, o) \/ client_connect(s, o))
    \/ /\ o \in Timed
       /\ \/ read_with_timeout(s, o) \/ read_if_ready_with_timeout(s, o)
          \/ write_with_timeout(s, o) \/ client_connect_with_timeout(s, o)

\* TcpSocket: the operations of the SocketPosix under it.
tcp_operation(s, o) ==
    \/ o \notin Timed /\ connect(s, o) /\ UNCHANGED timers
    \/ o \in Timed /\ connect_with_timeout(s, o)
    \/ client_operation(s, o)
    \/ server_accept(s, o)

tcp_cancel(s) == cancel_accept(s) \/ cancel_read(s) \/ cancel_write(s)

disconnect(s) == close(s)

\* The ways to a descriptor: open, from_connected_fd, and the server's listen.
tcp_open(s) == open(s) \/ from_fd(s) \/ listen(s) \/ server_listen(s)

Next ==
    \/ user_task \/ user_returns \/ do_work_done
    \/ \E s \in Sockets :
          \/ \E o \in Ops : tcp_operation(s, o)
          \/ tcp_open(s) \/ tcp_cancel(s) \/ disconnect(s) \/ drop(s)
    \/ LoopStep
    \/ EnvReady

Spec == Init /\ [][Next]_vars

LoopGoesOn == loop_step \/ on_file_can_read \/ on_file_can_write

\* The IO thread runs, user code returns, and a timer that is due runs before
\* the loop waits again.
Fairness ==
    /\ WF_vars(LoopGoesOn)
    /\ WF_vars(user_returns) /\ WF_vars(do_work_done)
    /\ SF_vars(fire_connect_timeout) /\ SF_vars(fire_read_timeout) /\ SF_vars(fire_write_timeout)

LiveSpec == Spec /\ Fairness

=============================================================================
