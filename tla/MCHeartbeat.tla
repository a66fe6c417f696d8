---------------------------- MODULE MCHeartbeat ----------------------------
(* A small instance of Heartbeat. *)
EXTENDS Heartbeat
\* Back by more than a short cycle takes, and forward by more than Patience - 1
\* of the shorter intervals.
JumpsMC == {-3, 5}
============================================================================
