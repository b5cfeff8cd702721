----------------------------- MODULE EpollPump -----------------------------
(***************************************************************************)
(* rust_io/epoll_pump.rs and the FdWatchController of message_pump.rs: the *)
(* table of watches, the epoll set behind it, the eventfd that interrupts  *)
(* epoll_wait, and the part of the loop that takes events to watchers.     *)
(* What do_work does, and what a watcher's callback does, is up to the     *)
(* modules that extend this one.                                           *)
(*                                                                         *)
(* A WatchMode is the set of directions it asks for.                       *)
(***************************************************************************)
EXTENDS Integers, Sequences, FiniteSets, FiniteSetsExt

CONSTANTS
    Fds,        \* descriptor numbers
    WakeFd,     \* the eventfd
    Watchers,   \* the objects that implement FdWatcher
    NoEntry,    \* no watch on a descriptor
    MaxEvents   \* length of the event array, 64 in the code

VARIABLES
    watches,            \* [Fds -> WatchEntry or NoEntry]
    interest,           \* [Fds -> SUBSET Direction], what epoll has for it
    generation_counter,
    wake,               \* is the eventfd's counter positive?
    quit,
    readiness,          \* [Fds -> SUBSET Flags], of the file behind each fd
    io_pc,              \* where the IO thread is
    batch,              \* events of the last epoll_wait still to be handled
    current             \* the event whose callbacks are being called

pumpVars == <<watches, interest, generation_counter, wake, quit, readiness,
              io_pc, batch, current>>

Direction == {"Read", "Write"}
WatchMode == (SUBSET Direction) \ {{}}
Flags == Direction \cup {"Error"}
WatchEntry == [watcher : Watchers, persistent : BOOLEAN, mode : WatchMode, generation : Nat]

NoCalls == [fd |-> WakeFd, watcher |-> NoEntry, calls |-> <<>>]

PumpInit ==
    /\ watches = [fd \in Fds |-> NoEntry]
    /\ interest = [fd \in Fds |-> {}]
    /\ generation_counter = 0
    /\ wake = FALSE
    /\ quit = FALSE
    /\ readiness = [fd \in Fds |-> {}]
    /\ io_pc = "work"
    /\ batch = {}
    /\ current = NoCalls

PumpTypeOK ==
    /\ watches \in [Fds -> WatchEntry \cup {NoEntry}]
    /\ interest \in [Fds -> SUBSET Direction]
    /\ generation_counter \in Nat
    /\ wake \in BOOLEAN
    /\ quit \in BOOLEAN
    /\ readiness \in [Fds -> SUBSET Flags]
    /\ batch \subseteq [fd : Fds \cup {WakeFd}, flags : SUBSET Flags]

-----------------------------------------------------------------------------
(* register_fd and unregister_fd.  W and I are the tables they work on, so *)
(* that a caller can compose several calls into one step.                  *)

NewEntry(w, persistent, mode) ==
    [watcher |-> w, persistent |-> persistent, mode |-> mode, generation |-> generation_counter]

\* epoll_ctl: ADD, or MOD when the descriptor is already there.
EpollCtl(I, fd, mode) == [I EXCEPT ![fd] = mode]

\* watches.insert: one entry per descriptor, so an older one is replaced.
InsertWatch(W, fd, entry) == [W EXCEPT ![fd] = entry]

\* The lookup of unregister_fd; a controller is a record [fd, generation].
IsCurrentWatch(W, c) == c.fd \in Fds /\ W[c.fd] # NoEntry /\ W[c.fd].generation = c.generation

UnregisterWatch(W, c) == IF IsCurrentWatch(W, c) THEN [W EXCEPT ![c.fd] = NoEntry] ELSE W
UnregisterInterest(W, I, c) == IF IsCurrentWatch(W, c) THEN [I EXCEPT ![c.fd] = {}] ELSE I

NoController == [fd |-> WakeFd, generation |-> 0]

-----------------------------------------------------------------------------
(* The loop of run().                                                      *)

schedule_work == wake' = TRUE

check_quit ==
    /\ io_pc = "quit?"
    /\ io_pc' = IF quit THEN "end" ELSE "wait"
    /\ UNCHANGED <<watches, interest, generation_counter, wake, quit, readiness, batch, current>>

Reported(fd) ==
    IF interest[fd] = {} THEN {} ELSE readiness[fd] \cap (interest[fd] \cup {"Error"})

ReadyEvents ==
    {[fd |-> fd, flags |-> Reported(fd)] : fd \in {f \in Fds : Reported(f) # {}}}
        \cup IF wake THEN {[fd |-> WakeFd, flags |-> {"Read"}]} ELSE {}

\* epoll_wait returns what is ready, or nothing once the timeout is over.
epoll_wait(timed_out) ==
    /\ io_pc = "wait"
    /\ ReadyEvents # {} \/ timed_out
    /\ \E B \in kSubset(Min({MaxEvents, Cardinality(ReadyEvents)}), ReadyEvents) : batch' = B
    /\ io_pc' = "events"
    /\ UNCHANGED <<watches, interest, generation_counter, wake, quit, readiness, current>>

drain_wake_fd ==
    /\ io_pc = "events"
    /\ \E ev \in batch : ev.fd = WakeFd /\ batch' = batch \ {ev}
    /\ wake' = FALSE
    /\ UNCHANGED <<watches, interest, generation_counter, quit, readiness, io_pc, current>>

\* An error or a hang-up counts as readiness in every watched direction.
Can(d, ev) ==
    /\ d \in ev.flags \/ "Error" \in ev.flags
    /\ d \in watches[ev.fd].mode

\* The table after an event on fd: a one-shot watch is removed.
Consumed(fd) == IF watches[fd].persistent THEN watches ELSE [watches EXCEPT ![fd] = NoEntry]

\* The locked region for one event: find the watcher, remove a one-shot watch.
\* alive is the set of watchers whose Weak can be upgraded.
take_event(alive) ==
    /\ io_pc = "events"
    /\ \E ev \in batch :
          /\ ev.fd # WakeFd
          /\ batch' = batch \ {ev}
          /\ IF watches[ev.fd] = NoEntry
               THEN UNCHANGED <<watches, interest, io_pc, current>>
               ELSE LET e == watches[ev.fd]
                        calls == SelectSeq(<<"Read", "Write">>, LAMBDA d : Can(d, ev)) IN
                    /\ watches' = Consumed(ev.fd)
                    /\ interest' = IF e.persistent THEN interest ELSE [interest EXCEPT ![ev.fd] = {}]
                    /\ IF e.watcher \in alive /\ calls # <<>>
                         THEN /\ current' = [fd |-> ev.fd, watcher |-> e.watcher, calls |-> calls]
                              /\ io_pc' = "callback"
                         ELSE UNCHANGED <<io_pc, current>>
    /\ UNCHANGED <<generation_counter, wake, quit, readiness>>

end_of_batch ==
    /\ io_pc = "events"
    /\ batch = {}
    /\ io_pc' = "work"
    /\ UNCHANGED <<watches, interest, generation_counter, wake, quit, readiness, batch, current>>

\* The watcher's callback for direction d is being called.
Calling(d) == io_pc = "callback" /\ Head(current.calls) = d

\* It returned: the other direction of the same event, or the next event.
CallbackReturns ==
    /\ current' = IF Len(current.calls) = 1 THEN NoCalls
                  ELSE [current EXCEPT !.calls = Tail(@)]
    /\ io_pc' = IF Len(current.calls) = 1 THEN "events" ELSE "callback"

=============================================================================
