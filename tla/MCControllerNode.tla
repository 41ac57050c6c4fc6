-------------------------- MODULE MCControllerNode --------------------------
(* Instance of ControllerNode for TLC: two Handles for the first session,  *)
(* one for the second, which another Hub epoch minted.                     *)
EXTENDS ControllerNode, TLC

CONSTANTS h1, h2, h3, r1, r2

MCAuthorities ==
    {[handle_id |-> h1, hub_epoch |-> 1, controller_session |-> 1, robot |-> r1,
      fencing_token |-> 1],
     [handle_id |-> h2, hub_epoch |-> 1, controller_session |-> 1, robot |-> r2,
      fencing_token |-> 1],
     [handle_id |-> h3, hub_epoch |-> 2, controller_session |-> 2, robot |-> r1,
      fencing_token |-> 2]}
=============================================================================
