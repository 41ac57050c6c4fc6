---------------------------- MODULE MCRobotNode -----------------------------
(* Instance of RobotNode for TLC.                                          *)
EXTENDS RobotNode

CONSTANTS h1, h2, h3, c1, c2

\* A Handle that is replaced by a newer one in the same session, and the Handle
\* of the session after a failed reconnection, in another Hub epoch.
MCAuthorities ==
    {[handle_id |-> h1, hub_epoch |-> 1, robot_session |-> 1,
      controller |-> c1, fencing_token |-> 1],
     [handle_id |-> h2, hub_epoch |-> 1, robot_session |-> 1,
      controller |-> c2, fencing_token |-> 2],
     [handle_id |-> h3, hub_epoch |-> 2, robot_session |-> 3,
      controller |-> c1, fencing_token |-> 3]}
=============================================================================
