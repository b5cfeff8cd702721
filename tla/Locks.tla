-------------------------------- MODULE Locks ------------------------------
(***************************************************************************)
(* The Mutex with its Condvar, the RwLock and the Barrier of               *)
(* rust_async/sync.rs, each with the tasks that use it.  They share no     *)
(* variable; what is said here is about several of them.                   *)
(***************************************************************************)
EXTENDS AsyncMutex, AsyncRwLock, AsyncBarrier

ASSUME LocksAssumption == MutexAssumption /\ BarrierAssumption

\* Nobody whose wait is over is left asleep: a task that could have the RwLock's
\* guard, or a participant whose generation tripped.
NobodyStranded == NoStrandedUser /\ NoStrandedParticipant

=============================================================================
