---------------------------- MODULE AsyncChannel ---------------------------
(***************************************************************************)
(* Tasks that use an unbounded channel of rust_async/sync.rs.  Handles are *)
(* cloned and dropped, and a pending Recv may be dropped.  A handle that   *)
(* is gone comes back only as the clone of another.                        *)
(***************************************************************************)
EXTENDS SyncPrimitives, FiniteSets

CONSTANTS
    SenderTasks, ReceiverTasks, \* the tasks that may own a handle of either half
    FirstSender, FirstReceiver, \* the owners of what channel() returns
    MaxItems                    \* bound on the values sent

ChannelTasks == SenderTasks \cup ReceiverTasks

ChannelAssumption ==
    /\ SenderTasks \cap ReceiverTasks = {}
    /\ FirstSender \in SenderTasks /\ FirstReceiver \in ReceiverTasks
    /\ MaxItems \in Nat

VARIABLES
    chan,
    owners,     \* the tasks that own a handle
    c_pc,       \* [ReceiverTasks -> "idle", "recv" or "closed"]
    c_runnable, \* [ReceiverTasks -> BOOLEAN]
    sent,       \* the values accepted, in order; a value is its number
    received    \* the values handed to receivers, in order

channelVars == <<chan, owners, c_pc, c_runnable, sent, received>>

ChannelInit ==
    /\ chan = channel
    /\ owners = {FirstSender, FirstReceiver}
    /\ c_pc = [t \in ReceiverTasks |-> "idle"]
    /\ c_runnable = [t \in ReceiverTasks |-> TRUE]
    /\ sent = <<>>
    /\ received = <<>>

ChannelTypeOK ==
    /\ chan.senders = Cardinality(owners \cap SenderTasks)
    /\ chan.receivers = Cardinality(owners \cap ReceiverTasks)
    /\ chan.recv_waiters.parked \subseteq ReceiverTasks
    /\ c_pc \in [ReceiverTasks -> {"idle", "recv", "closed"}]
    /\ c_runnable \in [ReceiverTasks -> BOOLEAN]

ChannelWake(woken) == c_runnable' = [t \in ReceiverTasks |-> c_runnable[t] \/ t \in woken]

send_value(t) ==
    /\ t \in owners \cap SenderTasks
    /\ Len(sent) < MaxItems
    /\ chan.receivers # 0
    /\ chan' = send(chan, Len(sent) + 1).obj
    /\ ChannelWake(send(chan, Len(sent) + 1).wakes)
    /\ sent' = Append(sent, Len(sent) + 1)
    /\ UNCHANGED <<owners, c_pc, received>>

clone(t, u) ==
    /\ t \in owners /\ u \notin owners
    /\ \/ {t, u} \subseteq SenderTasks /\ chan' = sender_clone(chan)
       \/ {t, u} \subseteq ReceiverTasks /\ chan' = receiver_clone(chan)
    /\ owners' = owners \cup {u}
    /\ UNCHANGED <<c_pc, c_runnable, sent, received>>

drop_sender(t) ==
    /\ t \in owners \cap SenderTasks
    /\ chan' = sender_drop(chan).obj
    /\ ChannelWake(sender_drop(chan).wakes)
    /\ owners' = owners \ {t}
    /\ UNCHANGED <<c_pc, sent, received>>

\* A Recv borrows its Receiver, so it is gone first.
drop_receiver(t) ==
    /\ t \in owners \cap ReceiverTasks /\ c_pc[t] # "recv"
    /\ chan' = receiver_drop(chan)
    /\ owners' = owners \ {t}
    /\ UNCHANGED <<c_pc, c_runnable, sent, received>>

recv(t) ==
    /\ t \in owners \cap ReceiverTasks /\ c_pc[t] # "recv"
    /\ c_pc' = [c_pc EXCEPT ![t] = "recv"]
    /\ c_runnable' = [c_runnable EXCEPT ![t] = TRUE]
    /\ UNCHANGED <<chan, owners, sent, received>>

poll_recv(t) ==
    /\ c_pc[t] = "recv" /\ c_runnable[t]
    /\ LET r == recv_poll(chan, t) IN
       /\ chan' = r.obj
       /\ IF ~r.ready
            THEN c_runnable' = [c_runnable EXCEPT ![t] = FALSE] /\ UNCHANGED <<c_pc, received>>
            ELSE /\ UNCHANGED c_runnable
                 /\ IF chan.items # <<>>
                      THEN /\ received' = Append(received, Head(chan.items))
                           /\ c_pc' = [c_pc EXCEPT ![t] = "idle"]
                      ELSE c_pc' = [c_pc EXCEPT ![t] = "closed"] /\ UNCHANGED received
    /\ UNCHANGED <<owners, sent>>

recv_cancel(t) ==
    /\ c_pc[t] = "recv"
    /\ chan' = recv_drop(chan, t)
    /\ c_pc' = [c_pc EXCEPT ![t] = "idle"]
    /\ UNCHANGED <<owners, c_runnable, sent, received>>

ChannelNext ==
    \/ \E t \in SenderTasks : send_value(t) \/ drop_sender(t)
    \/ \E t, u \in ChannelTasks : clone(t, u)
    \/ \E t \in ReceiverTasks : drop_receiver(t) \/ recv(t) \/ poll_recv(t) \/ recv_cancel(t)

ChannelSpec == ChannelInit /\ [][ChannelNext]_channelVars

-----------------------------------------------------------------------------
\* Every value accepted is in the channel or was handed out, once, and in the
\* order it was sent, however many receivers compete and futures are dropped.
Delivered == received \o chan.items = sent

\* A receiver with something to see, a value or the end, has been woken.
NoStrandedReceiver ==
    chan.items # <<>> \/ chan.senders = 0 =>
        \A t \in ReceiverTasks : c_pc[t] = "recv" => c_runnable[t]

\* RecvError comes once the channel is empty and every sender is gone, and
\* from then on nothing can be sent.
ClosedIsFinal ==
    (\E t \in ReceiverTasks : c_pc[t] = "closed") => chan.items = <<>> /\ chan.senders = 0

=============================================================================
