-------------------------- MODULE MCPiperTeleop ---------------------------
(* One arm, two squeezes, sessions and Handles.                             *)
EXTENDS PiperTeleop
=============================================================================
