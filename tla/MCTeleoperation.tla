-------------------------- MODULE MCTeleoperation --------------------------
(* One episode to record in at most two takes; two sessions, squeezes and   *)
(* Handles; two Nodes on an inbox of two; three threads that close.         *)
EXTENDS Teleoperation
=============================================================================
