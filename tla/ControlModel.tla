---------------------------- MODULE ControlModel ----------------------------
(***************************************************************************)
(* The pure part of the Control Hub: the Handle lifecycle, the states a    *)
(* Node reports, and the rule that correlates the desired state of a       *)
(* Handle with what its two endpoints report.  Nothing here has state; the *)
(* components of the system are built from these definitions.              *)
(*                                                                         *)
(* Timestamps, reasons, endpoints, schemas and actors are carried by the   *)
(* program's values but no decision below reads them.                      *)
(***************************************************************************)
EXTENDS Naturals

\* The desired states of a Handle.
HandleState == {"ASSIGNED", "TAKING_OVER", "ACTIVE", "HANDING_OVER",
                "RELEASED", "REVOKING", "REVOKED", "EXPIRED", "FAULT"}

Terminal == {"RELEASED", "REVOKED", "EXPIRED", "FAULT"}

RobotControlState == {"HOLD", "CONTROLLING", "SAFETY"}

ControllerControlState == {"IDLE", "TAKING_OVER", "STREAMING",
                           "HANDING_OVER", "FAULT"}

RuntimeState == {"STARTING", "ONLINE", "DEGRADED", "FAULT", "STOPPED"}

\* The states that a requested transition may lead to; a terminal state has
\* none.
Allowed == [s \in HandleState |->
    CASE s = "ASSIGNED"     -> {"TAKING_OVER", "REVOKING", "EXPIRED", "FAULT"}
      [] s = "TAKING_OVER"  -> {"ACTIVE", "REVOKING", "EXPIRED", "FAULT"}
      [] s = "ACTIVE"       -> {"HANDING_OVER", "REVOKING", "EXPIRED", "FAULT"}
      [] s = "HANDING_OVER" -> {"RELEASED", "REVOKING", "EXPIRED", "FAULT"}
      [] s = "REVOKING"     -> {"REVOKED", "EXPIRED", "FAULT"}
      [] OTHER              -> {}]

\* Mutant: a used sequence number is accepted again.
TransitionAppliesAgain(state, sequence, target, newSequence) ==
    /\ newSequence >= sequence
    /\ target \in Allowed[state]

\* A transition takes effect only with a sequence number never used for the
\* Handle and along an allowed edge.  A lower sequence number is stale; an
\* equal one is either the same transition again, which returns the record as
\* it is, or a conflicting one, which is refused: both leave the record alone,
\* so the correlation that tells them apart is not kept.
TransitionApplies(state, sequence, target, newSequence) ==
    /\ newSequence > sequence
    /\ target \in Allowed[state]

-----------------------------------------------------------------------------
(* Correlation of desired and observed state.  A report is a record with   *)
(* fields control, runtime, engaged and handle (the Handle it names).      *)

\* The mismatches between the state of Handle h and the reports robot and
\* controller of its two Nodes, either of which may be none.
MismatchCodes(h, state, robot, controller, none) ==
    LET r           == robot # none
        c           == controller # none
        controlling == r /\ robot.control = "CONTROLLING"
        streaming   == c /\ controller.control = "STREAMING"
        active      == state = "ACTIVE"
        held(code, condition) == IF condition THEN {code} ELSE {}
    IN  held("desired_active_robot_hold",
             active /\ r /\ robot.control = "HOLD" /\ robot.engaged)
        \cup held("controller_streaming_robot_not_accepting",
             streaming /\ ~controlling /\ r /\ robot.engaged)
        \cup held("controller_offline_robot_controlling",
             controlling /\ c /\ controller.runtime # "ONLINE")
        \cup held("orphan_observed_control",
             ~active /\ (controlling \/ streaming))
        \cup held("terminal_handle_accepted", state \in Terminal /\ controlling)
        \cup held("robot_safety_with_active_desire",
             active /\ r /\ robot.control = "SAFETY")
        \cup held("robot_handle_mismatch", r /\ robot.handle # h)
        \cup held("controller_handle_mismatch", c /\ controller.handle # h)

\* Mismatches that may be reports still on their way after activation.
PropagationMismatches == {"desired_active_robot_hold",
                          "controller_streaming_robot_not_accepting"}

-----------------------------------------------------------------------------
(* Lifecycle reachability, used by properties only.                        *)

\* s can be followed by t in a Handle's history: an allowed edge, or the forced
\* expiry of a live Handle of an earlier Hub epoch.
LawfulEdge(s, t) ==
    \/ t \in Allowed[s]
    \/ s \notin Terminal /\ t = "EXPIRED"
=============================================================================
