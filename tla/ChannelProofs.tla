---------------------------- MODULE ChannelProofs ---------------------------
(***************************************************************************)
(* A channel of rust_async/sync.rs passes values on as it should, for any  *)
(* number of tasks and any pattern of dropped futures; and the example     *)
(* built from it loses and doubles nothing.                                *)
(***************************************************************************)
EXTENDS Channels, FiniteSetTheorems, TLAPS

-----------------------------------------------------------------------------
(* Wait sets, as the primitives use them.                                  *)

IsWaitSet(w) == w = [order |-> w.order, parked |-> w.parked]

\* park and unpark touch the waker of one task.
LEMMA ParkUnpark ==
    ASSUME NEW w, NEW t
    PROVE  /\ IsWaitSet(park(w, t)) /\ park(w, t).parked = w.parked \cup {t}
           /\ IsWaitSet(unpark(w, t)) /\ unpark(w, t).parked = w.parked \ {t}
<1>1. PICK o : unpark(w, t) = [order |-> o, parked |-> w.parked \ {t}]
  BY Zenon DEF unpark
<1>2. PICK p : park(w, t) = [order |-> p, parked |-> w.parked \cup {t}]
  BY Zenon DEF park
<1> QED BY <1>1, <1>2 DEF IsWaitSet

\* wake_all leaves nobody parked.
LEMMA WakeAll ==
    ASSUME NEW w, IsWaitSet(w)
    PROVE  IsWaitSet(wake_all(w)) /\ wake_all(w).parked = {}
BY DEF IsWaitSet, wake_all

-----------------------------------------------------------------------------
(* Channels.                                                               *)

ChannelOf(items, w, senders, receivers) ==
    [items |-> items, recv_waiters |-> w, senders |-> senders, receivers |-> receivers]

IsChannel(c) ==
    /\ c = ChannelOf(c.items, c.recv_waiters, c.senders, c.receivers)
    /\ IsWaitSet(c.recv_waiters)

\* The fields of a channel's record.
LEMMA ChannelFields ==
    ASSUME NEW c, NEW items, NEW w, NEW senders, NEW receivers, IsWaitSet(w),
           c = ChannelOf(items, w, senders, receivers)
    PROVE  /\ c.items = items /\ c.recv_waiters = w /\ c.senders = senders
           /\ c.receivers = receivers /\ IsChannel(c)
<1>1. c.items = items /\ c.recv_waiters = w /\ c.senders = senders /\ c.receivers = receivers
  BY Zenon DEF ChannelOf
<1> QED BY <1>1, Zenon DEF IsChannel

\* The updates of a channel, field by field.
LEMMA ChannelUpdates ==
    ASSUME NEW c, IsChannel(c), NEW x, NEW y
    PROVE  LET i == c.items
               w == c.recv_waiters
               s == c.senders
               r == c.receivers
           IN
           /\ [c EXCEPT !.recv_waiters = x] = ChannelOf(i, x, s, r)
           /\ [c EXCEPT !.senders = x] = ChannelOf(i, w, x, r)
           /\ [c EXCEPT !.receivers = x] = ChannelOf(i, w, s, x)
           /\ [c EXCEPT !.items = x, !.recv_waiters = y] = ChannelOf(x, y, s, r)
<1> DEFINE i == c.items
           w == c.recv_waiters
           s == c.senders
           r == c.receivers
           m == [c EXCEPT !.items = x]
<1>0. c = ChannelOf(i, w, s, r)
  BY DEF IsChannel
<1>1. /\ m = ChannelOf(x, w, s, r)
      /\ [c EXCEPT !.senders = x] = ChannelOf(i, w, x, r)
      /\ [c EXCEPT !.recv_waiters = x] = ChannelOf(i, x, s, r)
      /\ [c EXCEPT !.receivers = x] = ChannelOf(i, w, s, x)
  BY ONLY <1>0, SMT DEF ChannelOf
<1> HIDE DEF m, i, w, s, r
<1>2. [m EXCEPT !.recv_waiters = y] = ChannelOf(x, y, s, r)
  BY ONLY <1>1, SMT DEF ChannelOf
<1> QED BY <1>1, <1>2, Zenon DEF m, i, w, s, r

\* The update of sender_drop for the last sender.
LEMMA LastSenderUpdate ==
    ASSUME NEW c, IsChannel(c), NEW x, NEW y
    PROVE  [c EXCEPT !.senders = x, !.recv_waiters = y] = ChannelOf(c.items, y, x, c.receivers)
<1> DEFINE m == [c EXCEPT !.senders = x]
<1>1. m = ChannelOf(c.items, c.recv_waiters, x, c.receivers)
  BY ChannelUpdates, Zenon
<1> HIDE DEF m
<1>2. [m EXCEPT !.recv_waiters = y] = ChannelOf(c.items, y, x, c.receivers)
  BY ONLY <1>1, SMT DEF ChannelOf
<1> QED BY <1>2, Zenon DEF m

\* Sender::send queues the value and wakes the receivers.
LEMMA SendStep ==
    ASSUME NEW c, IsChannel(c), NEW v
    PROVE  LET s == send(c, v) IN
           /\ IsChannel(s.obj) /\ s.wakes = c.recv_waiters.parked
           /\ s.obj.items = Append(c.items, v) /\ s.obj.senders = c.senders
<1> DEFINE w == wake_all(c.recv_waiters)
<1>1. [c EXCEPT !.items = Append(@, v), !.recv_waiters = wake_all(@)] =
        ChannelOf(Append(c.items, v), w, c.senders, c.receivers)
  BY ChannelUpdates, Zenon
<1>2. /\ send(c, v).wakes = c.recv_waiters.parked
      /\ send(c, v).obj = ChannelOf(Append(c.items, v), w, c.senders, c.receivers)
  BY ONLY <1>1, Zenon DEF send, Waking
<1>3. IsWaitSet(w)
  BY WakeAll DEF IsChannel
<1> DEFINE i == Append(c.items, v)
<1> HIDE DEF w, i
<1>4. send(c, v).obj = ChannelOf(i, w, c.senders, c.receivers)
  BY <1>2 DEF i
<1>5. IsChannel(send(c, v).obj) /\ send(c, v).obj.items = i /\ send(c, v).obj.senders = c.senders
  BY ONLY <1>3, <1>4, ChannelFields
<1> QED BY <1>2, <1>5 DEF i

\* Sender::drop: the last one wakes the receivers.
LEMMA SenderDropStep ==
    ASSUME NEW c, IsChannel(c)
    PROVE  LET d == sender_drop(c) IN
           /\ IsChannel(d.obj) /\ d.obj.items = c.items
           /\ c.senders = 1 => d.obj.senders = 0 /\ d.wakes = c.recv_waiters.parked
           /\ c.senders # 1 => /\ d.obj.senders = c.senders - 1 /\ d.wakes = {}
                               /\ d.obj.recv_waiters = c.recv_waiters
<1>0. IsChannel(c)
  OBVIOUS
<1>1. CASE c.senders = 1
  <2> DEFINE w == wake_all(c.recv_waiters)
  <2>1. [c EXCEPT !.senders = 0, !.recv_waiters = wake_all(@)] =
          ChannelOf(c.items, w, 0, c.receivers)
    BY ONLY <1>0, LastSenderUpdate, Zenon
  <2>2. /\ sender_drop(c).wakes = c.recv_waiters.parked
        /\ sender_drop(c).obj = ChannelOf(c.items, w, 0, c.receivers)
    BY ONLY <1>1, <2>1, Zenon DEF sender_drop, Waking
  <2>3. IsWaitSet(w)
    BY WakeAll DEF IsChannel
  <2> HIDE DEF w
  <2> QED BY ONLY <1>1, <2>2, <2>3, ChannelFields
<1>2. CASE c.senders # 1
  <2>1. [c EXCEPT !.senders = @ - 1] =
          ChannelOf(c.items, c.recv_waiters, c.senders - 1, c.receivers)
    BY ChannelUpdates, Zenon
  <2>2. /\ sender_drop(c).wakes = {}
        /\ sender_drop(c).obj = ChannelOf(c.items, c.recv_waiters, c.senders - 1, c.receivers)
    BY ONLY <1>2, <2>1, Zenon DEF sender_drop, Waking
  <2>3. IsWaitSet(c.recv_waiters)
    BY DEF IsChannel
  <2> QED BY ONLY <1>2, <2>2, <2>3, ChannelFields
<1> QED BY <1>1, <1>2

\* Recv::poll takes the first value, sees the end, or parks.
LEMMA RecvStep ==
    ASSUME NEW c, IsChannel(c), NEW t
    PROVE  LET r == recv_poll(c, t) IN
           /\ IsChannel(r.obj) /\ r.obj.senders = c.senders
           /\ r.ready <=> c.items # <<>> \/ c.senders = 0
           /\ c.recv_waiters.parked \ {t} \subseteq r.obj.recv_waiters.parked
           /\ ~r.ready => t \in r.obj.recv_waiters.parked
           /\ c.items # <<>> => r.obj.items = Tail(c.items)
           /\ c.items = <<>> => r.obj.items = c.items
<1> DEFINE u == unpark(c.recv_waiters, t)
           p == park(c.recv_waiters, t)
<1>0. /\ IsWaitSet(p) /\ p.parked = c.recv_waiters.parked \cup {t}
      /\ IsWaitSet(u) /\ u.parked = c.recv_waiters.parked \ {t}
  BY ParkUnpark
<1>1. CASE c.items # <<>>
  <2>1. [c EXCEPT !.items = Tail(@), !.recv_waiters = unpark(@, t)] =
          ChannelOf(Tail(c.items), u, c.senders, c.receivers)
    BY ChannelUpdates, Zenon
  <2>2. /\ recv_poll(c, t).ready
        /\ recv_poll(c, t).obj = ChannelOf(Tail(c.items), u, c.senders, c.receivers)
    BY ONLY <1>1, <2>1, Zenon DEF recv_poll, Ready
  <2> HIDE DEF u, p
  <2> QED BY ONLY <1>0, <1>1, <2>2, ChannelFields
<1>2. CASE c.items = <<>> /\ c.senders = 0
  <2>1. [c EXCEPT !.recv_waiters = unpark(@, t)] = ChannelOf(c.items, u, c.senders, c.receivers)
    BY ChannelUpdates, Zenon
  <2>2. /\ recv_poll(c, t).ready
        /\ recv_poll(c, t).obj = ChannelOf(c.items, u, c.senders, c.receivers)
    BY ONLY <1>2, <2>1, Zenon DEF recv_poll, Ready
  <2> HIDE DEF u, p
  <2> QED BY ONLY <1>0, <1>2, <2>2, ChannelFields
<1>3. CASE c.items = <<>> /\ c.senders # 0
  <2>1. [c EXCEPT !.recv_waiters = park(@, t)] = ChannelOf(c.items, p, c.senders, c.receivers)
    BY ChannelUpdates, Zenon
  <2>2. /\ ~recv_poll(c, t).ready
        /\ recv_poll(c, t).obj = ChannelOf(c.items, p, c.senders, c.receivers)
    BY ONLY <1>3, <2>1, Zenon DEF recv_poll, Pending
  <2> HIDE DEF u, p
  <2> QED BY ONLY <1>0, <1>3, <2>2, ChannelFields
<1> QED BY <1>1, <1>2, <1>3

\* Moving the first value of one sequence to the end of another.
LEMMA HandedOn ==
    ASSUME NEW r \in Seq(Nat), NEW i \in Seq(Nat)
    PROVE  /\ i # <<>> => Append(r, Head(i)) \o Tail(i) = r \o i
           /\ \A v \in Nat : r \o Append(i, v) = Append(r \o i, v)
<1>1. ASSUME i # <<>> PROVE Append(r, Head(i)) \o Tail(i) = r \o i
  <2> DEFINE a == Append(r, Head(i)) \o Tail(i)
             b == r \o i
  <2>1. /\ Head(i) \in Nat /\ Tail(i) \in Seq(Nat) /\ Len(Tail(i)) = Len(i) - 1
        /\ Len(i) \in Nat \ {0} /\ Len(r) \in Nat /\ Head(i) = i[1]
        /\ \A k \in 1..Len(i) - 1 : Tail(i)[k] = i[k + 1]
    BY <1>1
  <2>2. /\ Append(r, Head(i)) \in Seq(Nat) /\ Len(Append(r, Head(i))) = Len(r) + 1
        /\ \A k \in 1..Len(r) : Append(r, Head(i))[k] = r[k]
        /\ Append(r, Head(i))[Len(r) + 1] = Head(i)
    BY <2>1
  <2>3. a \in Seq(Nat) /\ b \in Seq(Nat) /\ Len(a) = Len(r) + Len(i) /\ Len(b) = Len(r) + Len(i)
    BY <2>1, <2>2
  <2>4. ASSUME NEW k \in 1..Len(r) + Len(i) PROVE a[k] = b[k]
    <3>1. CASE k <= Len(r)
      BY <2>1, <2>2, <3>1
    <3>2. CASE k = Len(r) + 1
      BY <2>1, <2>2, <3>2
    <3>3. CASE k > Len(r) + 1
      <4>1. a[k] = Tail(i)[k - (Len(r) + 1)] /\ b[k] = i[k - Len(r)]
        BY <2>1, <2>2, <3>3
      <4>2. k - (Len(r) + 1) \in 1..Len(i) - 1 /\ (k - (Len(r) + 1)) + 1 = k - Len(r)
        BY <2>1, <3>3
      <4> QED BY <2>1, <4>1, <4>2
    <3> QED BY <2>1, <3>1, <3>2, <3>3
  <2> HIDE DEF a, b
  <2>5. a = b
    <3>1. DOMAIN a = 1..Len(a) /\ DOMAIN b = 1..Len(b) /\ Len(a) = Len(b)
      BY ONLY <2>3
    <3>2. a = [k \in DOMAIN a |-> a[k]] /\ b = [k \in DOMAIN b |-> b[k]]
      BY ONLY <2>3
    <3>3. \A k \in DOMAIN a : a[k] = b[k]
      BY ONLY <2>3, <2>4, <3>1
    <3> QED BY ONLY <3>1, <3>2, <3>3, ZenonT(30)
  <2> QED BY <2>5, ZenonT(30) DEF a, b
<1>2. ASSUME NEW v \in Nat PROVE r \o Append(i, v) = Append(r \o i, v)
  OBVIOUS
<1> QED BY <1>1, <1>2, ZenonT(30)

ChannelShape ==
    /\ IsChannel(chan) /\ chan.items \in Seq(Nat)
    /\ sent \in Seq(Nat) /\ received \in Seq(Nat)
    /\ c_pc \in [ReceiverTasks -> {"idle", "recv", "closed"}]
    /\ c_runnable \in [ReceiverTasks -> BOOLEAN]

\* senders counts the handles there are.
SendersCounted ==
    /\ IsFiniteSet(owners \cap SenderTasks)
    /\ chan.senders = Cardinality(owners \cap SenderTasks)

\* A receiver that sleeps is parked at an empty channel that has a sender.
ReceiversParked ==
    \A t \in ReceiverTasks : c_pc[t] = "recv" /\ ~c_runnable[t] =>
        t \in chan.recv_waiters.parked /\ chan.items = <<>> /\ chan.senders # 0

ChannelInv ==
    /\ ChannelShape /\ SendersCounted /\ ReceiversParked
    /\ Delivered /\ ClosedIsFinal

\* The two handles channel() returns, and nothing sent.
LEMMA ChannelInvInit == ChannelInit => ChannelInv
<1> SUFFICES ASSUME ChannelInit PROVE ChannelInv
  OBVIOUS
<1>1. /\ chan = [items |-> <<>>, recv_waiters |-> [order |-> <<>>, parked |-> {}],
                 senders |-> 1, receivers |-> 1]
      /\ owners = {FirstSender, FirstReceiver} /\ c_pc = [t \in ReceiverTasks |-> "idle"]
      /\ c_runnable = [t \in ReceiverTasks |-> TRUE] /\ sent = <<>> /\ received = <<>>
  BY DEF ChannelInit, channel, Waiters
<1>2. owners \cap SenderTasks = {FirstSender}
  BY <1>1, ChannelsAssumption DEF ChannelAssumption
<1>3. IsFiniteSet({FirstSender}) /\ Cardinality({FirstSender}) = 1
  BY FS_Singleton, ZenonT(30)
<1>4. chan.items = <<>> /\ chan.senders = 1 /\ IsChannel(chan)
  <2>1. IsWaitSet([order |-> <<>>, parked |-> {}])
    BY DEF IsWaitSet
  <2>2. chan = ChannelOf(<<>>, [order |-> <<>>, parked |-> {}], 1, 1)
    BY <1>1 DEF ChannelOf
  <2> QED BY ONLY <2>1, <2>2, ChannelFields
<1>5. ChannelShape
  BY <1>1, <1>4 DEF ChannelShape
<1>6. SendersCounted
  BY <1>2, <1>3, <1>4, ZenonT(30) DEF SendersCounted
<1>7. Delivered
  BY <1>1, <1>4 DEF Delivered
<1> QED BY <1>1, <1>5, <1>6, <1>7 DEF ChannelInv, ReceiversParked, ClosedIsFinal

\* While a task has a sender, there is one and no receiver has seen the end.
LEMMA SenderThere ==
    ASSUME ChannelInv, NEW t \in owners \cap SenderTasks
    PROVE  chan.senders \in Nat \ {0} /\ \A u \in ReceiverTasks : c_pc[u] # "closed"
<1>1. chan.senders \in Nat /\ chan.senders # 0
  BY FS_CardinalityType, FS_EmptySet DEF ChannelInv, SendersCounted
<1> QED BY <1>1 DEF ChannelInv, ClosedIsFinal

\* Sender::send.
LEMMA SendKeeps ==
    ASSUME ChannelInv, NEW t \in SenderTasks, send_value(t)
    PROVE  ChannelInv'
<1> DEFINE v == Len(sent) + 1
<1>0. ChannelShape /\ IsChannel(chan)
  BY DEF ChannelInv, ChannelShape
<1>1. /\ t \in owners \cap SenderTasks /\ owners' = owners /\ c_pc' = c_pc /\ received' = received
      /\ sent' = Append(sent, v) /\ chan' = send(chan, v).obj
      /\ c_runnable' = [u \in ReceiverTasks |-> c_runnable[u] \/ u \in send(chan, v).wakes]
  BY DEF send_value, ChannelWake
<1>2. v \in Nat
  BY <1>0 DEF ChannelShape
<1> HIDE DEF v
<1>3. /\ IsChannel(chan') /\ chan'.items = Append(chan.items, v) /\ chan'.senders = chan.senders
      /\ c_runnable' = [u \in ReceiverTasks |-> c_runnable[u] \/ u \in chan.recv_waiters.parked]
  <2>1. /\ send(chan, v).wakes = chan.recv_waiters.parked /\ IsChannel(send(chan, v).obj)
        /\ send(chan, v).obj.items = Append(chan.items, v)
        /\ send(chan, v).obj.senders = chan.senders
    BY ONLY <1>0, SendStep
  <2> QED BY ONLY <1>1, <2>1, Zenon
<1>4. \A u \in ReceiverTasks : c_pc[u] # "closed"
  BY <1>1, SenderThere
<1>5. ChannelShape'
  BY <1>0, <1>1, <1>2, <1>3 DEF ChannelShape
<1>6. SendersCounted'
  BY <1>1, <1>3 DEF SendersCounted, ChannelInv
<1>7. ReceiversParked'
  BY <1>1, <1>3, Zenon DEF ReceiversParked, ChannelInv
<1>8. Delivered'
  <2>1. received \in Seq(Nat) /\ chan.items \in Seq(Nat) /\ received \o chan.items = sent
    BY DEF ChannelInv, ChannelShape, Delivered
  <2>2. received \o Append(chan.items, v) = Append(sent, v)
    BY ONLY <1>2, <2>1, HandedOn, ZenonT(30)
  <2> QED BY ONLY <1>1, <1>3, <2>2, Zenon DEF Delivered
<1>9. ClosedIsFinal'
  BY <1>1, <1>4 DEF ClosedIsFinal
<1> QED BY <1>5, <1>6, <1>7, <1>8, <1>9 DEF ChannelInv

\* Sender::clone and Receiver::clone.
LEMMA CloneKeeps ==
    ASSUME ChannelInv, NEW t \in ChannelTasks, NEW u \in ChannelTasks, clone(t, u)
    PROVE  ChannelInv'
<1>0. ChannelShape /\ IsChannel(chan) /\ SenderTasks \cap ReceiverTasks = {}
  BY ChannelsAssumption DEF ChannelInv, ChannelShape, ChannelAssumption
<1>1. /\ t \in owners /\ u \notin owners /\ owners' = owners \cup {u}
      /\ c_pc' = c_pc /\ c_runnable' = c_runnable /\ sent' = sent /\ received' = received
  BY DEF clone
<1>2. CASE {t, u} \subseteq SenderTasks /\ chan' = sender_clone(chan)
  <2>1. /\ chan' = ChannelOf(chan.items, chan.recv_waiters, chan.senders + 1, chan.receivers)
        /\ IsWaitSet(chan.recv_waiters)
    BY <1>0, <1>2, ChannelUpdates, Zenon DEF sender_clone, IsChannel
  <2>2. /\ IsChannel(chan') /\ chan'.items = chan.items /\ chan'.senders = chan.senders + 1
        /\ chan'.recv_waiters = chan.recv_waiters
    BY ONLY <2>1, ChannelFields
  <2>3. chan.senders \in Nat \ {0} /\ \A x \in ReceiverTasks : c_pc[x] # "closed"
    BY <1>1, <1>2, SenderThere
  <2>4. /\ owners' \cap SenderTasks = (owners \cap SenderTasks) \cup {u}
        /\ u \notin owners \cap SenderTasks
    BY <1>1, <1>2
  <2>5. SendersCounted'
    BY <2>2, <2>4, FS_AddElement, ZenonT(30) DEF SendersCounted, ChannelInv
  <2>6. ChannelShape' /\ Delivered' /\ ClosedIsFinal'
    BY <1>0, <1>1, <2>2, <2>3 DEF ChannelShape, Delivered, ClosedIsFinal, ChannelInv
  <2>7. ReceiversParked'
    BY <1>1, <2>2, <2>3 DEF ReceiversParked, ChannelInv
  <2> QED BY <2>5, <2>6, <2>7 DEF ChannelInv
<1>3. CASE {t, u} \subseteq ReceiverTasks /\ chan' = receiver_clone(chan)
  <2>1. /\ chan' = ChannelOf(chan.items, chan.recv_waiters, chan.senders, chan.receivers + 1)
        /\ IsWaitSet(chan.recv_waiters)
    BY <1>0, <1>3, ChannelUpdates, Zenon DEF receiver_clone, IsChannel
  <2>2. /\ IsChannel(chan') /\ chan'.items = chan.items /\ chan'.senders = chan.senders
        /\ chan'.recv_waiters = chan.recv_waiters
    BY ONLY <2>1, ChannelFields
  <2>3. owners' \cap SenderTasks = owners \cap SenderTasks
    BY <1>0, <1>1, <1>3
  <2> QED BY <1>0, <1>1, <2>2, <2>3, ZenonT(30) DEF ChannelInv, ChannelShape, SendersCounted, ReceiversParked,
                                         Delivered, ClosedIsFinal
<1> QED BY <1>2, <1>3 DEF clone

\* Sender::drop: the last one wakes the receivers.
LEMMA SenderDropKeeps ==
    ASSUME ChannelInv, NEW t \in SenderTasks, drop_sender(t)
    PROVE  ChannelInv'
<1>0. ChannelShape /\ IsChannel(chan)
  BY DEF ChannelInv, ChannelShape
<1>1. /\ t \in owners \cap SenderTasks /\ owners' = owners \ {t} /\ c_pc' = c_pc
      /\ received' = received /\ sent' = sent /\ chan' = sender_drop(chan).obj
      /\ c_runnable' = [u \in ReceiverTasks |-> c_runnable[u] \/ u \in sender_drop(chan).wakes]
  BY DEF drop_sender, ChannelWake
<1>2. chan.senders \in Nat \ {0} /\ \A u \in ReceiverTasks : c_pc[u] # "closed"
  BY <1>1, SenderThere
<1>3. /\ IsChannel(chan') /\ chan'.items = chan.items /\ chan'.senders = chan.senders - 1
      /\ chan.senders = 1 => sender_drop(chan).wakes = chan.recv_waiters.parked
      /\ chan.senders # 1 => chan'.recv_waiters = chan.recv_waiters /\ sender_drop(chan).wakes = {}
  <2>1. LET d == sender_drop(chan) IN
        /\ IsChannel(d.obj) /\ d.obj.items = chan.items
        /\ chan.senders = 1 => d.obj.senders = 0 /\ d.wakes = chan.recv_waiters.parked
        /\ chan.senders # 1 => /\ d.obj.senders = chan.senders - 1 /\ d.wakes = {}
                               /\ d.obj.recv_waiters = chan.recv_waiters
    BY ONLY <1>0, SenderDropStep
  <2> QED BY ONLY <1>1, <1>2, <2>1
<1>4. owners' \cap SenderTasks = (owners \cap SenderTasks) \ {t}
  BY <1>1
<1>5. SendersCounted'
  BY <1>1, <1>3, <1>4, FS_RemoveElement, ZenonT(30) DEF SendersCounted, ChannelInv
<1>6. ChannelShape' /\ Delivered' /\ ClosedIsFinal'
  BY <1>0, <1>1, <1>2, <1>3 DEF ChannelShape, Delivered, ClosedIsFinal, ChannelInv
<1>7. ReceiversParked'
  <2>1. CASE chan.senders = 1
    <3>1. /\ c_pc' = c_pc
          /\ c_runnable' = [u \in ReceiverTasks |-> c_runnable[u] \/ u \in chan.recv_waiters.parked]
      BY <1>1, <1>3, <2>1
    <3>2. \A u \in ReceiverTasks : c_pc[u] = "recv" /\ ~c_runnable[u] =>
                                   u \in chan.recv_waiters.parked
      BY Zenon DEF ReceiversParked, ChannelInv
    <3>3. ASSUME NEW u \in ReceiverTasks, c_pc'[u] = "recv", ~c_runnable'[u] PROVE FALSE
      <4>1. c_pc[u] = "recv" /\ ~(c_runnable[u] \/ u \in chan.recv_waiters.parked)
        BY ONLY <3>1, <3>3, Zenon
      <4> QED BY ONLY <3>2, <4>1, u \in ReceiverTasks, Zenon
    <3> QED BY ONLY <3>3, Zenon DEF ReceiversParked
  <2>2. CASE chan.senders # 1
    <3>1. /\ chan'.recv_waiters = chan.recv_waiters /\ chan'.items = chan.items /\ chan'.senders # 0
          /\ c_pc' = c_pc /\ sender_drop(chan).wakes = {}
          /\ c_runnable' = [u \in ReceiverTasks |-> c_runnable[u] \/ u \in sender_drop(chan).wakes]
      BY ONLY <1>1, <1>2, <1>3, <2>2
    <3>2. \A u \in ReceiverTasks : c_runnable[u] => c_runnable'[u]
      BY ONLY <3>1, Zenon
    <3> QED BY <3>1, <3>2, Zenon DEF ReceiversParked, ChannelInv
  <2> QED BY <2>1, <2>2
<1> QED BY <1>5, <1>6, <1>7 DEF ChannelInv

\* Receiver::drop, a new Recv, and Recv::drop.
LEMMA ReceiverKeeps ==
    ASSUME ChannelInv, NEW t \in ReceiverTasks,
           drop_receiver(t) \/ recv(t) \/ recv_cancel(t)
    PROVE  ChannelInv'
<1>0. /\ ChannelShape /\ IsChannel(chan) /\ SenderTasks \cap ReceiverTasks = {}
      /\ IsWaitSet(chan.recv_waiters)
  BY ChannelsAssumption DEF ChannelInv, ChannelShape, ChannelAssumption, IsChannel
<1>1. CASE drop_receiver(t)
  <2>1. /\ owners' = owners \ {t} /\ c_pc' = c_pc /\ c_runnable' = c_runnable
        /\ sent' = sent /\ received' = received
        /\ chan' = ChannelOf(chan.items, chan.recv_waiters, chan.senders, chan.receivers - 1)
        /\ IsWaitSet(chan.recv_waiters)
    <3>0. IsChannel(chan)
      BY <1>0
    <3>1. receiver_drop(chan) =
            ChannelOf(chan.items, chan.recv_waiters, chan.senders, chan.receivers - 1)
      <4>1. ASSUME NEW x PROVE [chan EXCEPT !.receivers = x] =
                                 ChannelOf(chan.items, chan.recv_waiters, chan.senders, x)
        BY ONLY <3>0, ChannelUpdates, ZenonT(30)
      <4> QED BY ONLY <4>1, Zenon DEF receiver_drop
    <3> QED BY <1>0, <1>1, <3>1, Zenon DEF drop_receiver
  <2>2. /\ IsChannel(chan') /\ chan'.items = chan.items /\ chan'.senders = chan.senders
        /\ chan'.recv_waiters = chan.recv_waiters
    BY ONLY <2>1, ChannelFields
  <2>3. owners' \cap SenderTasks = owners \cap SenderTasks
    BY <1>0, <2>1
  <2> QED BY <1>0, <2>1, <2>2, <2>3, ZenonT(30) DEF ChannelInv, ChannelShape, SendersCounted, ReceiversParked,
                                         Delivered, ClosedIsFinal
<1>2. CASE recv(t)
  <2>1. /\ c_pc' = [c_pc EXCEPT ![t] = "recv"] /\ c_runnable' = [c_runnable EXCEPT ![t] = TRUE]
        /\ chan' = chan /\ owners' = owners /\ sent' = sent /\ received' = received
    BY <1>2 DEF recv
  <2> QED BY <1>0, <2>1, ZenonT(30) DEF ChannelInv, ChannelShape, SendersCounted, ReceiversParked,
                             Delivered, ClosedIsFinal
<1>3. CASE recv_cancel(t)
  <2>1. /\ c_pc' = [c_pc EXCEPT ![t] = "idle"] /\ c_runnable' = c_runnable
        /\ chan' = ChannelOf(chan.items, unpark(chan.recv_waiters, t), chan.senders, chan.receivers)
        /\ owners' = owners /\ sent' = sent /\ received' = received
    BY <1>0, <1>3, ChannelUpdates, Zenon DEF recv_cancel, recv_drop
  <2>2. /\ IsChannel(chan') /\ chan'.items = chan.items /\ chan'.senders = chan.senders
        /\ chan'.recv_waiters.parked = chan.recv_waiters.parked \ {t}
    <3>1. /\ IsWaitSet(unpark(chan.recv_waiters, t))
          /\ unpark(chan.recv_waiters, t).parked = chan.recv_waiters.parked \ {t}
      BY ParkUnpark, Zenon
    <3> QED BY ONLY <2>1, <3>1, ChannelFields
  <2> QED BY <1>0, <2>1, <2>2, ZenonT(30) DEF ChannelInv, ChannelShape, SendersCounted, ReceiversParked,
                                   Delivered, ClosedIsFinal
<1> QED BY <1>1, <1>2, <1>3

\* Recv::poll: the first value, the end, or a wait.
LEMMA PollRecvKeeps ==
    ASSUME ChannelInv, NEW t \in ReceiverTasks, poll_recv(t)
    PROVE  ChannelInv'
<1>0. ChannelShape /\ IsChannel(chan)
  BY DEF ChannelInv, ChannelShape
<1>1. /\ owners' = owners /\ sent' = sent /\ c_pc[t] = "recv" /\ c_runnable[t]
      /\ chan' = recv_poll(chan, t).obj
  BY DEF poll_recv
<1>2. /\ IsChannel(chan') /\ chan'.senders = chan.senders
      /\ chan.recv_waiters.parked \ {t} \subseteq chan'.recv_waiters.parked
      /\ recv_poll(chan, t).ready <=> chan.items # <<>> \/ chan.senders = 0
      /\ ~recv_poll(chan, t).ready => t \in chan'.recv_waiters.parked
      /\ chan.items # <<>> => chan'.items = Tail(chan.items)
      /\ chan.items = <<>> => chan'.items = chan.items
  BY ONLY <1>0, <1>1, RecvStep, Zenon
<1>3. SendersCounted'
  BY <1>1, <1>2 DEF SendersCounted, ChannelInv
<1>4. CASE chan.items # <<>>
  <2>1. /\ c_runnable' = c_runnable /\ received' = Append(received, Head(chan.items))
        /\ c_pc' = [c_pc EXCEPT ![t] = "idle"]
    BY <1>2, <1>4, Zenon DEF poll_recv
  <2>2. chan'.items = Tail(chan.items)
    BY <1>2, <1>4
  <2>3. ChannelShape'
    <3>1. received' \in Seq(Nat) /\ chan'.items \in Seq(Nat)
      BY <1>0, <1>4, <2>1, <2>2 DEF ChannelShape
    <3>2. c_pc' \in [ReceiverTasks -> {"idle", "recv", "closed"}]
      BY <1>0, <2>1 DEF ChannelShape
    <3> QED BY <1>0, <1>1, <1>2, <2>1, <3>1, <3>2, Zenon DEF ChannelShape
  <2>4. Delivered'
    <3>1. received \in Seq(Nat) /\ chan.items \in Seq(Nat) /\ received \o chan.items = sent
      BY DEF ChannelInv, ChannelShape, Delivered
    <3>2. Append(received, Head(chan.items)) \o Tail(chan.items) = sent
      BY ONLY <1>4, <3>1, HandedOn, ZenonT(30)
    <3> QED BY ONLY <1>1, <2>1, <2>2, <3>2, Zenon DEF Delivered
  <2>5. ReceiversParked' /\ ClosedIsFinal'
    BY <1>0, <1>4, <2>1 DEF ReceiversParked, ClosedIsFinal, ChannelInv, ChannelShape
  <2> QED BY <1>3, <2>3, <2>4, <2>5 DEF ChannelInv
<1>5. CASE chan.items = <<>> /\ chan.senders = 0
  <2>1. /\ c_runnable' = c_runnable /\ received' = received
        /\ c_pc' = [c_pc EXCEPT ![t] = "closed"]
    BY <1>2, <1>5, Zenon DEF poll_recv
  <2>2. chan'.items = chan.items
    BY <1>2, <1>5
  <2> QED BY <1>0, <1>1, <1>2, <1>3, <1>5, <2>1, <2>2
          DEF ChannelInv, ChannelShape, ReceiversParked, Delivered, ClosedIsFinal
<1>6. CASE chan.items = <<>> /\ chan.senders # 0
  <2>1. /\ c_runnable' = [c_runnable EXCEPT ![t] = FALSE] /\ received' = received /\ c_pc' = c_pc
    BY <1>2, <1>6, Zenon DEF poll_recv
  <2>2. chan'.items = chan.items /\ t \in chan'.recv_waiters.parked
    BY <1>2, <1>6
  <2> QED BY <1>0, <1>1, <1>2, <1>3, <1>6, <2>1, <2>2
          DEF ChannelInv, ChannelShape, ReceiversParked, Delivered, ClosedIsFinal
<1> QED BY <1>4, <1>5, <1>6

\* Every use of a channel keeps its invariant.
LEMMA ChannelInvNext == ChannelInv /\ [ChannelNext]_channelVars => ChannelInv'
<1> SUFFICES ASSUME ChannelInv, [ChannelNext]_channelVars PROVE ChannelInv'
  OBVIOUS
<1>1. CASE UNCHANGED channelVars
  BY <1>1, ZenonT(30) DEF channelVars, ChannelInv, ChannelShape, SendersCounted, ReceiversParked,
              Delivered, ClosedIsFinal
<1> QED
  BY <1>1, SendKeeps, CloneKeeps, SenderDropKeeps, ReceiverKeeps, PollRecvKeeps DEF ChannelNext

-----------------------------------------------------------------------------
(* The example: an item is in the queue, in a consumer's hand or among the *)
(* results, sent or received.                                              *)

PipeLabels == {"new", "joined", "lock", "relock", "held", "release", "waiting", "unlock", "notify",
               "got", "done", "drop", "recv", "panic"}

PipeShape ==
    /\ queue \in Seq(Nat) /\ next \in Nat /\ Len(queue) <= next /\ Len(queue) <= Cap
    /\ item \in [PipeConsumers -> Nat]
    /\ p_pc \in [PipeTasks -> PipeLabels]
    /\ IsChannel(p_chan) /\ p_chan.items \in Seq(Nat) /\ results \in Seq(Nat)

HandLabels == {"unlock", "notify", "got"}

\* The consumers that have an item, and no longer the queue.
InHand == {c \in PipeConsumers : p_pc[c] \in HandLabels /\ item[c] # 0}

\* Items taken from the queue so far, sentinels included.
Popped == next - Len(queue)

\* The results on their way and received, in the order they were sent.
Out == results \o p_chan.items

\* The queue holds the items that follow the ones popped, in order, or sentinels.
QueueInOrder == \A i \in 1..Len(queue) : queue[i] = 0 \/ queue[i] = Popped + i

HandsDiffer ==
    \A c, d \in InHand : item[c] <= Popped /\ (item[c] = item[d] => c = d)

\* A result is the square of an item popped and in nobody's hand any more.
SquaresOf(out) ==
    \A k \in 1..Len(out) : \E v \in 1..Popped : out[k] = v * v /\ \A c \in InHand : item[c] # v

Different(out) == \A k, m \in 1..Len(out) : out[k] = out[m] => k = m

PipeInv == PipeShape /\ QueueInOrder /\ HandsDiffer /\ SquaresOf(Out) /\ Different(Out)

LEMMA SquareInjective ==
    ASSUME NEW a \in Nat, NEW b \in Nat, a * a = b * b
    PROVE  a = b
<1>1. ASSUME NEW x \in Nat, NEW y \in Nat, x < y PROVE x * x < y * y
  <2>1. PICK d \in Nat \ {0} : y = x + d
    <3>1. y - x \in Nat \ {0} /\ y = x + (y - x)
      BY <1>1
    <3> QED BY <3>1
  <2>2. y * y = x * x + 2 * (x * d) + d * d
    BY <2>1
  <2>3. x * d \in Nat /\ d * d \in Nat /\ d * d > 0 /\ x * x \in Nat
    BY <2>1
  <2> QED BY <2>2, <2>3
<1>2. ~(a < b) /\ ~(b < a)
  BY <1>1
<1> QED BY <1>2

\* Nothing is in the queue or in a hand, and there is no result.
LEMMA PipeInvInit == PipelineInit => PipeInv
<1> SUFFICES ASSUME PipelineInit PROVE PipeInv
  OBVIOUS
<1>1. /\ queue = <<>> /\ next = 0 /\ results = <<>> /\ item = [c \in PipeConsumers |-> 0]
      /\ p_pc = [t \in PipeTasks |-> IF t = Main THEN "drop" ELSE "new"]
      /\ p_chan = [channel EXCEPT !.senders = Cardinality(PipeConsumers) + 1]
  BY DEF PipelineInit, Stop
<1>2. p_chan.items = <<>> /\ IsChannel(p_chan)
  <2>1. IsWaitSet([order |-> <<>>, parked |-> {}])
    BY DEF IsWaitSet
  <2>2. channel = ChannelOf(<<>>, [order |-> <<>>, parked |-> {}], 1, 1)
    BY DEF channel, Waiters, ChannelOf
  <2>3. /\ IsChannel(channel) /\ channel.items = <<>>
        /\ channel.recv_waiters = [order |-> <<>>, parked |-> {}] /\ channel.receivers = 1
    BY ONLY <2>1, <2>2, ChannelFields
  <2>4. p_chan = ChannelOf(<<>>, [order |-> <<>>, parked |-> {}], Cardinality(PipeConsumers) + 1, 1)
    <3>1. ASSUME NEW x
          PROVE  [channel EXCEPT !.senders = x] =
                    ChannelOf(channel.items, channel.recv_waiters, x, channel.receivers)
      BY ONLY <2>3, ChannelUpdates, ZenonT(30)
    <3> QED BY ONLY <1>1, <2>3, <3>1, Zenon
  <2> QED BY ONLY <2>1, <2>4, ChannelFields
<1>3. Cap \in Nat
  BY ChannelsAssumption DEF PipelineAssumption
<1>4. PipeShape
  <2>1. p_pc \in [PipeTasks -> PipeLabels]
    BY <1>1 DEF PipeLabels
  <2>2. queue \in Seq(Nat) /\ Len(queue) = 0 /\ results \in Seq(Nat) /\ p_chan.items \in Seq(Nat)
    <3>1. <<>> \in Seq(Nat) /\ Len(<<>>) = 0
      OBVIOUS
    <3> QED BY ONLY <1>1, <1>2, <3>1, Zenon
  <2>3. item \in [PipeConsumers -> Nat]
    BY <1>1
  <2> QED BY <1>1, <1>2, <1>3, <2>1, <2>2, <2>3 DEF PipeShape
<1>5. InHand = {} /\ Out = <<>> /\ Len(queue) = 0
  BY <1>1, <1>2 DEF InHand, Out
<1> QED BY <1>4, <1>5 DEF PipeInv, QueueInOrder, HandsDiffer, SquaresOf, Different

\* A step of t that moves no item.
LEMMA PipeMoves ==
    ASSUME PipeInv, NEW t \in PipeTasks, NEW l \in PipeLabels, p_pc' = [p_pc EXCEPT ![t] = l],
           t \in PipeConsumers => (l \in HandLabels <=> p_pc[t] \in HandLabels),
           UNCHANGED <<queue, item, next>>, IsChannel(p_chan'), p_chan'.items \in Seq(Nat),
           results' \in Seq(Nat), Out' = Out
    PROVE  PipeInv'
<1>1. PipeShape'
  BY DEF PipeInv, PipeShape
<1>2. InHand' = InHand
  BY DEF PipeInv, PipeShape, InHand
<1>3. Popped' = Popped
  BY DEF Popped
<1>4. QueueInOrder' /\ HandsDiffer'
  BY <1>2, <1>3 DEF PipeInv, QueueInOrder, HandsDiffer
<1>5. SquaresOf(Out)' /\ Different(Out)'
  BY <1>2, <1>3 DEF PipeInv, SquaresOf, Different
<1> QED BY <1>1, <1>4, <1>5 DEF PipeInv

\* The steps of the barrier, the lock and the condition variables move no item.
LEMMA PipeWaits ==
    ASSUME PipeInv, NEW t \in PipeTasks,
           start(t) \/ p_lock(t) \/ p_wait(t) \/ p_unlock(t)
    PROVE  PipeInv'
<1>0. p_pc \in [PipeTasks -> PipeLabels]
  BY DEF PipeInv, PipeShape
<1>1. UNCHANGED <<p_chan, queue, item, next, results>>
  BY DEF start, p_lock, p_wait, p_unlock
<1>2. /\ Out' = Out /\ IsChannel(p_chan') /\ p_chan'.items \in Seq(Nat) /\ results' \in Seq(Nat)
  BY <1>1 DEF Out, PipeInv, PipeShape
<1>3. CASE p_unlock(t)
  <2>1. p_pc[t] = "unlock" /\ p_pc' = [p_pc EXCEPT ![t] = "notify"]
    BY <1>3 DEF p_unlock, PipeGoto
  <2> QED BY <1>1, <1>2, <2>1, PipeMoves, ZenonT(30) DEF PipeLabels, HandLabels
<1>4. CASE start(t) \/ p_lock(t) \/ p_wait(t)
  <2>1. /\ p_pc[t] \in {"new", "joined", "lock", "relock", "held", "release", "waiting"}
        /\ \/ p_pc' = p_pc
           \/ \E l \in {"joined", "lock", "relock", "held", "release", "waiting"} :
                 p_pc' = [p_pc EXCEPT ![t] = l]
    <3>1. CASE start(t)
      BY <3>1, Zenon DEF start, PipeGoto
    <3>2. CASE p_lock(t)
      BY <3>2, Zenon DEF p_lock, PipeGoto
    <3>3. CASE p_wait(t)
      BY <3>3, Zenon DEF p_wait, PipeGoto
    <3> QED BY <1>4, <3>1, <3>2, <3>3
  <2>2. PICK l \in {"new", "joined", "lock", "relock", "held", "release", "waiting"} :
          p_pc' = [p_pc EXCEPT ![t] = l]
    <3>1. p_pc = [p_pc EXCEPT ![t] = p_pc[t]]
      BY <1>0
    <3> QED BY <2>1, <3>1
  <2> QED BY <1>1, <1>2, <2>1, <2>2, PipeMoves, ZenonT(30) DEF PipeLabels, HandLabels
<1> QED BY <1>3, <1>4

\* notify_one: the consumer keeps its item in hand.
LEMMA PipeNotifies ==
    ASSUME PipeInv, NEW t \in PipeTasks, notify_other(t)
    PROVE  PipeInv'
<1>1. UNCHANGED <<p_chan, queue, item, next, results>> /\ p_pc[t] = "notify"
  BY DEF notify_other
<1>2. /\ Out' = Out /\ IsChannel(p_chan') /\ p_chan'.items \in Seq(Nat) /\ results' \in Seq(Nat)
  BY <1>1 DEF Out, PipeInv, PipeShape
<1>3. PICK l \in {"got", "lock", "done"} :
        p_pc' = [p_pc EXCEPT ![t] = l] /\ (t # Producer => l = "got")
  BY Zenon DEF notify_other, PipeGoto
<1>4. t \in PipeConsumers => t # Producer
  BY ChannelsAssumption DEF PipelineAssumption
<1> QED BY <1>1, <1>2, <1>3, <1>4, PipeMoves, ZenonT(30) DEF PipeLabels, HandLabels

\* push_back, by the only producer: its item follows the ones before.
LEMMA PipePush ==
    ASSUME PipeInv, push
    PROVE  PipeInv'
<1>0. PipeShape /\ Cap \in Nat /\ Producer \notin PipeConsumers /\ Producer \in PipeTasks
  BY ChannelsAssumption DEF PipeInv, PipelineAssumption, PipeTasks
<1>1. /\ UNCHANGED <<p_chan, item, results>> /\ next' = next + 1
      /\ p_pc' = [p_pc EXCEPT ![Producer] = "unlock"] /\ Len(queue) < Cap
  BY DEF push, PipeGoto, Condition
<1>2. PICK v \in {0, next + 1} : queue' = Append(queue, v)
  BY DEF push, Stop
<1>3. /\ queue' \in Seq(Nat) /\ Len(queue') = Len(queue) + 1
      /\ \A i \in 1..Len(queue) : queue'[i] = queue[i]
      /\ queue'[Len(queue) + 1] = v
  BY <1>0, <1>2 DEF PipeShape
<1>4. PipeShape'
  BY <1>0, <1>1, <1>3 DEF PipeShape, PipeLabels
<1>5. Popped' = Popped
  BY <1>0, <1>1, <1>3 DEF Popped, PipeShape
<1>6. InHand' = InHand /\ Out' = Out
  BY <1>0, <1>1 DEF InHand, Out, PipeShape
<1>7. QueueInOrder'
  <2> SUFFICES ASSUME NEW i \in 1..Len(queue') PROVE queue'[i] = 0 \/ queue'[i] = Popped + i
    BY <1>5 DEF QueueInOrder
  <2>1. CASE i \in 1..Len(queue)
    BY <1>3, <2>1 DEF PipeInv, QueueInOrder
  <2>2. CASE i = Len(queue) + 1
    BY <1>0, <1>3, <2>2 DEF Popped, PipeShape
  <2> QED BY <1>0, <1>3, <2>1, <2>2 DEF PipeShape
<1>8. HandsDiffer' /\ SquaresOf(Out)' /\ Different(Out)'
  BY <1>1, <1>5, <1>6 DEF PipeInv, HandsDiffer, SquaresOf, Different
<1> QED BY <1>4, <1>7, <1>8 DEF PipeInv

\* pop_front: what is taken is new, so it is in no other hand and among no results.
LEMMA PipePop ==
    ASSUME PipeInv, NEW c \in PipeConsumers, pop(c)
    PROVE  PipeInv'
<1>0. PipeShape /\ c # Producer /\ c \in PipeTasks /\ Popped \in Nat
  BY ChannelsAssumption DEF PipeInv, PipelineAssumption, PipeTasks, PipeShape, Popped
<1>1. /\ UNCHANGED <<p_chan, results, next>> /\ p_pc[c] = "held"
      /\ p_pc' = [p_pc EXCEPT ![c] = "unlock"] /\ queue # <<>>
      /\ item' = [item EXCEPT ![c] = Head(queue)] /\ queue' = Tail(queue)
  BY <1>0 DEF pop, PipeGoto, Condition
<1>2. /\ queue' \in Seq(Nat) /\ Len(queue') = Len(queue) - 1 /\ Len(queue) \in Nat \ {0}
      /\ \A i \in 1..Len(queue') : queue'[i] = queue[i + 1]
      /\ Head(queue) = queue[1] /\ Head(queue) \in Nat
  BY <1>0, <1>1 DEF PipeShape
<1>3. PipeShape'
  <2>1. p_pc' \in [PipeTasks -> PipeLabels]
    BY <1>0, <1>1 DEF PipeShape, PipeLabels
  <2>2. item' \in [PipeConsumers -> Nat]
    BY <1>0, <1>1, <1>2 DEF PipeShape
  <2>3. Len(queue') <= next' /\ Len(queue') <= Cap
    BY <1>0, <1>1, <1>2, ChannelsAssumption DEF PipeShape, PipelineAssumption
  <2> QED BY <1>0, <1>1, <1>2, <2>1, <2>2, <2>3 DEF PipeShape
<1>4. Popped' = Popped + 1
  BY <1>0, <1>1, <1>2 DEF Popped, PipeShape
<1>5. Head(queue) = 0 \/ Head(queue) = Popped + 1
  BY <1>2 DEF PipeInv, QueueInOrder
<1>6. QueueInOrder'
  <2> SUFFICES ASSUME NEW i \in 1..Len(queue') PROVE queue'[i] = 0 \/ queue'[i] = Popped' + i
    BY DEF QueueInOrder
  <2>1. i + 1 \in 1..Len(queue)
    BY <1>2
  <2>2. queue[i + 1] = 0 \/ queue[i + 1] = Popped + (i + 1)
    BY <2>1 DEF PipeInv, QueueInOrder
  <2> QED BY <1>0, <1>2, <1>4, <2>2
<1>7. \A d \in InHand' : \/ d \in InHand /\ d # c /\ item'[d] = item[d]
                         \/ d = c /\ item'[d] = Popped + 1
  BY <1>0, <1>1, <1>5 DEF InHand, PipeShape, HandLabels
<1>8. \A d \in InHand : item[d] <= Popped /\ item[d] \in Nat
  BY <1>0 DEF PipeInv, HandsDiffer, PipeShape, InHand
<1>9. HandsDiffer'
  BY <1>0, <1>4, <1>7, <1>8 DEF PipeInv, HandsDiffer
<1>10. Out' = Out
  BY <1>1 DEF Out
<1>11. SquaresOf(Out)'
  <2> SUFFICES ASSUME NEW k \in 1..Len(Out)
               PROVE  \E v \in 1..Popped' : Out[k] = v * v /\ \A d \in InHand' : item'[d] # v
    BY <1>10 DEF SquaresOf
  <2>1. PICK v \in 1..Popped : Out[k] = v * v /\ \A d \in InHand : item[d] # v
    BY DEF PipeInv, SquaresOf
  <2>2. v \in 1..Popped' /\ v # Popped + 1
    BY <1>0, <1>4, <2>1
  <2>3. \A d \in InHand' : item'[d] # v
    BY <1>7, <2>1, <2>2
  <2> QED BY <2>1, <2>2, <2>3
<1> QED BY <1>3, <1>6, <1>9, <1>10, <1>11 DEF PipeInv, Different

\* A consumer sends the square of its item, or drops its sender at a sentinel.
LEMMA PipeResult ==
    ASSUME PipeInv, NEW c \in PipeConsumers, result(c)
    PROVE  PipeInv'
<1>0. PipeShape /\ c \in PipeTasks /\ Popped \in Nat /\ IsChannel(p_chan)
  BY DEF PipeInv, PipeTasks, PipeShape, Popped
<1>1. UNCHANGED <<queue, item, next, results>> /\ p_pc[c] = "got" /\ item[c] \in Nat
  BY <1>0 DEF result, PipeShape
<1>2. Popped' = Popped
  BY <1>1 DEF Popped
<1>3. CASE item[c] = 0
  <2>1. p_chan' = sender_drop(p_chan).obj /\ p_pc' = [p_pc EXCEPT ![c] = "done"]
    BY <1>3 DEF result, PipeGoto, Stop
  <2>2. IsChannel(p_chan') /\ p_chan'.items = p_chan.items
    BY ONLY <1>0, <2>1, SenderDropStep
  <2>3. PipeShape'
    <3>1. p_pc' \in [PipeTasks -> PipeLabels]
      BY <1>0, <2>1 DEF PipeShape, PipeLabels
    <3> QED BY <1>0, <1>1, <2>2, <3>1 DEF PipeShape
  <2>4. InHand' = InHand
    BY <1>0, <1>1, <1>3, <2>1 DEF InHand, PipeShape
  <2>5. Out' = Out
    BY <1>1, <2>2 DEF Out
  <2> QED BY <1>1, <1>2, <2>3, <2>4, <2>5 DEF PipeInv, QueueInOrder, HandsDiffer, SquaresOf, Different
<1>4. CASE item[c] # 0
  <2> DEFINE v == item[c]
  <2>1. p_chan' = send(p_chan, v * v).obj /\ p_pc' = [p_pc EXCEPT ![c] = "lock"]
    BY <1>4 DEF result, PipeGoto, Stop
  <2>2. IsChannel(p_chan') /\ p_chan'.items = Append(p_chan.items, v * v) /\ v * v \in Nat
    <3>1. ASSUME NEW x PROVE IsChannel(send(p_chan, x).obj) /\
                             send(p_chan, x).obj.items = Append(p_chan.items, x)
      BY ONLY <1>0, SendStep
    <3>2. v * v \in Nat
      BY <1>1
    <3> QED BY ONLY <2>1, <3>1, <3>2, Zenon
  <2>3. PipeShape'
    <3>1. p_pc' \in [PipeTasks -> PipeLabels]
      BY <1>0, <2>1 DEF PipeShape, PipeLabels
    <3>2. p_chan'.items \in Seq(Nat)
      BY <1>0, <2>2 DEF PipeShape
    <3> QED BY <1>0, <1>1, <2>2, <3>1, <3>2 DEF PipeShape
  <2>4. InHand' = InHand \ {c} /\ c \in InHand
    BY <1>0, <1>1, <1>4, <2>1 DEF InHand, PipeShape, HandLabels
  <2>5. Out' = Append(Out, v * v) /\ Out \in Seq(Nat)
    <3>1. results \in Seq(Nat) /\ p_chan.items \in Seq(Nat)
      BY <1>0 DEF PipeShape
    <3>2. ASSUME NEW x \in Nat
          PROVE  results \o Append(p_chan.items, x) = Append(results \o p_chan.items, x)
      BY ONLY <3>1, HandedOn, ZenonT(30)
    <3>3. results \o Append(p_chan.items, v * v) = Append(results \o p_chan.items, v * v)
      BY ONLY <2>2, <3>2, Zenon
    <3>4. results \o p_chan.items \in Seq(Nat)
      BY ONLY <3>1
    <3> QED BY ONLY <1>1, <2>2, <3>3, <3>4, Zenon DEF Out
  <2>6. v \in 1..Popped /\ \A d \in InHand' : item[d] # v
    BY <1>0, <1>1, <1>4, <2>4 DEF PipeInv, HandsDiffer
  <2>7. QueueInOrder' /\ HandsDiffer'
    BY <1>1, <1>2, <2>4 DEF PipeInv, QueueInOrder, HandsDiffer
  <2>8. \A k \in 1..Len(Out) :
          \E u \in 1..Popped : u # v /\ Out[k] = u * u /\ \A d \in InHand' : item[d] # u
    BY <2>4 DEF PipeInv, SquaresOf
  <2> HIDE DEF v
  <2>9. /\ Len(Out') = Len(Out) + 1 /\ Out'[Len(Out) + 1] = v * v
        /\ \A k \in 1..Len(Out) : Out'[k] = Out[k]
    BY <2>2, <2>5
  <2>10. SquaresOf(Out)'
    <3> SUFFICES ASSUME NEW k \in 1..Len(Out')
                 PROVE  \E u \in 1..Popped : Out'[k] = u * u /\ \A d \in InHand' : item[d] # u
      BY <1>1, <1>2 DEF SquaresOf
    <3>1. CASE k \in 1..Len(Out)
      BY <2>8, <2>9, <3>1
    <3>2. CASE k = Len(Out) + 1
      BY <2>6, <2>9, <3>2
    <3> QED BY <2>5, <2>9, <3>1, <3>2
  <2>11. \A k \in 1..Len(Out) : Out[k] # v * v
    <3> SUFFICES ASSUME NEW k \in 1..Len(Out), Out[k] = v * v PROVE FALSE
      OBVIOUS
    <3>1. PICK u \in 1..Popped : u # v /\ Out[k] = u * u
      BY <2>8
    <3>2. u \in Nat /\ v \in Nat /\ u * u = v * v
      BY <1>0, <2>6, <3>1
    <3>3. u = v
      BY ONLY <3>2, SquareInjective, Zenon
    <3> QED BY <3>1, <3>3
  <2>12. Different(Out)'
    <3> SUFFICES ASSUME NEW k \in 1..Len(Out'), NEW m \in 1..Len(Out'), Out'[k] = Out'[m]
                 PROVE  k = m
      BY DEF Different
    <3> QED BY <2>5, <2>9, <2>11 DEF PipeInv, Different
  <2> QED BY <2>3, <2>7, <2>10, <2>12 DEF PipeInv
<1> QED BY <1>3, <1>4

\* main drops its sender, receives the results and joins.
LEMMA PipeMain ==
    ASSUME PipeInv, MainStep
    PROVE  PipeInv'
<1>0. /\ PipeShape /\ IsChannel(p_chan) /\ Main \notin PipeConsumers /\ Main \in PipeTasks
      /\ p_pc \in [PipeTasks -> PipeLabels]
  BY ChannelsAssumption DEF PipeInv, PipelineAssumption, PipeTasks, PipeShape
<1>1. UNCHANGED <<queue, item, next>> /\ main
  BY DEF MainStep
<1>2. CASE p_pc[Main] = "drop" /\ results' = results /\ p_chan' = sender_drop(p_chan).obj
           /\ PipeGoto(Main, "recv")
  <2>1. IsChannel(p_chan') /\ p_chan'.items = p_chan.items
    BY ONLY <1>0, <1>2, SenderDropStep
  <2> QED BY <1>0, <1>1, <1>2, <2>1, PipeMoves, ZenonT(30) DEF Out, PipeShape, PipeLabels, PipeGoto
<1>3. CASE /\ p_chan' = recv_poll(p_chan, Main).obj
           /\ IF recv_poll(p_chan, Main).ready
                THEN /\ results' = IF p_chan.items # <<>> THEN Append(results, Head(p_chan.items))
                                   ELSE results
                     /\ PipeGoto(Main, IF p_chan.items # <<>> THEN "recv" ELSE "panic")
                ELSE UNCHANGED <<results, p_pc>>
  <2>1. /\ IsChannel(p_chan')
        /\ recv_poll(p_chan, Main).ready <=> p_chan.items # <<>> \/ p_chan.senders = 0
        /\ p_chan.items # <<>> => p_chan'.items = Tail(p_chan.items)
        /\ p_chan.items = <<>> => p_chan'.items = p_chan.items
    <3>1. IsChannel(p_chan) /\ p_chan' = recv_poll(p_chan, Main).obj
      BY <1>0, <1>3
    <3> QED BY ONLY <3>1, RecvStep, Zenon
  <2>2. PICK l \in PipeLabels : p_pc' = [p_pc EXCEPT ![Main] = l]
    BY <1>0, <1>3 DEF PipeLabels, PipeGoto
  <2>3. CASE p_chan.items # <<>>
    <3>1. results' = Append(results, Head(p_chan.items)) /\ p_chan'.items = Tail(p_chan.items)
      BY <1>3, <2>1, <2>3
    <3>2. p_chan'.items \in Seq(Nat) /\ results' \in Seq(Nat) /\ Out' = Out
      <4>1. results \in Seq(Nat) /\ p_chan.items \in Seq(Nat)
        BY <1>0 DEF PipeShape
      <4>2. Append(results, Head(p_chan.items)) \o Tail(p_chan.items) = results \o p_chan.items
        BY ONLY <2>3, <4>1, HandedOn, ZenonT(30)
      <4>3. Tail(p_chan.items) \in Seq(Nat) /\ Append(results, Head(p_chan.items)) \in Seq(Nat)
        BY ONLY <2>3, <4>1
      <4> QED BY ONLY <3>1, <4>2, <4>3, Zenon DEF Out
    <3> QED BY <1>0, <1>1, <2>1, <2>2, <3>2, PipeMoves, ZenonT(30)
  <2>4. CASE p_chan.items = <<>>
    <3>1. p_chan'.items \in Seq(Nat) /\ results' \in Seq(Nat) /\ Out' = Out
      BY <1>0, <1>3, <2>1, <2>4, ZenonT(30) DEF Out, PipeShape
    <3> QED BY <1>0, <1>1, <2>1, <2>2, <3>1, PipeMoves, ZenonT(30)
  <2> QED BY <2>3, <2>4
<1>4. CASE UNCHANGED <<p_chan, results>> /\ PipeGoto(Main, "done")
  BY <1>0, <1>1, <1>4, PipeMoves, ZenonT(30) DEF Out, PipeShape, PipeLabels, PipeGoto
<1> QED BY <1>1, <1>2, <1>3, <1>4, Zenon DEF main

\* Every step of the example keeps its invariant.
LEMMA PipeInvNext == PipeInv /\ [PipelineNext]_pipelineVars => PipeInv'
<1> SUFFICES ASSUME PipeInv, [PipelineNext]_pipelineVars PROVE PipeInv'
  OBVIOUS
<1>1. CASE UNCHANGED pipelineVars
  BY <1>1, ZenonT(30) DEF pipelineVars, PipeInv, PipeShape, QueueInOrder, HandsDiffer, SquaresOf, Different,
              Popped, Out, InHand
<1>2. ASSUME NEW t \in PipeTasks, TaskStep(t) PROVE PipeInv'
  BY <1>2, PipeWaits, PipeNotifies, PipePush, PipePop, PipeResult, PipeMain
  DEF TaskStep, PipeStep
<1> QED BY <1>1, <1>2 DEF PipelineNext

-----------------------------------------------------------------------------
\* A channel hands every value on once and in order, leaves no receiver asleep beside
\* one and reports its end only when none is left or can come (Sender::send,
\* Sender::drop, Recv::poll and the wake_all in them); in pipeline_sync.rs no item
\* gives two results, and the queue keeps to its capacity.
THEOREM ValuesArePassedOnce == ChannelSpec /\ PipelineSpec => []PassedOnce
<1>1. ChannelInv => Delivered /\ ClosedIsFinal /\ NoStrandedReceiver
  BY DEF ChannelInv, ReceiversParked, NoStrandedReceiver
<1>2. PipeInv => WithinCapacity /\ ResultsOnce
  <2> SUFFICES ASSUME PipeInv PROVE WithinCapacity /\ ResultsOnce
    OBVIOUS
  <2>1. /\ results \in Seq(Nat) /\ p_chan.items \in Seq(Nat) /\ Len(queue) <= Cap
        /\ \A k, m \in 1..Len(Out) : Out[k] = Out[m] => k = m
    BY DEF PipeInv, PipeShape, Different
  <2>2. \A k \in 1..Len(results) : k \in 1..Len(Out) /\ Out[k] = results[k]
    BY <2>1 DEF Out
  <2>3. DOMAIN results = 1..Len(results)
    BY <2>1
  <2>4. ResultsOnce
    BY ONLY <2>1, <2>2, <2>3, Zenon DEF ResultsOnce
  <2> QED BY <2>1, <2>4 DEF WithinCapacity
<1>3. Delivered /\ ClosedIsFinal /\ NoStrandedReceiver /\ WithinCapacity /\ ResultsOnce => PassedOnce
  BY DEF PassedOnce
<1> QED
  BY <1>1, <1>2, <1>3, ChannelInvInit, ChannelInvNext, PipeInvInit, PipeInvNext, PTL
  DEF ChannelSpec, PipelineSpec

=============================================================================
