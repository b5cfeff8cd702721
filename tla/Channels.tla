------------------------------- MODULE Channels ----------------------------
(***************************************************************************)
(* The channel of rust_async/sync.rs with the tasks that use it, and the   *)
(* example pipeline_sync.rs.  They share no variable; what is said here is *)
(* about both.                                                             *)
(***************************************************************************)
EXTENDS AsyncChannel, Pipeline

ASSUME ChannelsAssumption == ChannelAssumption /\ PipelineAssumption

\* Values are passed on once, in order and to receivers that are awake: a channel's,
\* whose end is reported only when none is left or can come, and the example's
\* through its bounded queue.
PassedOnce ==
    /\ Delivered /\ ClosedIsFinal /\ NoStrandedReceiver
    /\ WithinCapacity /\ ResultsOnce

=============================================================================
