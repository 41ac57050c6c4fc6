--------------------------- MODULE PolicyGripper ---------------------------
(***************************************************************************)
(* PolicyGripperGate of examples/isaac_teleop_to_jaka/infer.py and its use   *)
(* in infer_loop: the gate turns the policy's gripper values into commands,  *)
(* remembers where it believes the gripper is, and retries at intervals what *)
(* failed; the operator toggles the gripper by hand.                         *)
(***************************************************************************)
EXTENDS Naturals

VARIABLES
    gate,      \* [position, pending, recent]: recent is the retry interval
    gripper,   \* where the gripper is
    wanted,    \* what the policy last asked for, if that was clear
    doubtful   \* a command failed and the gate may be wrong about the gripper

vars == <<gate, gripper, wanted, doubtful>>

\* Closed, somewhere between, open.
Positions == 0 .. 2
Closed == 0
Open == 2
Unknown == 3

TypeOK ==
    /\ gate \in [position : Positions \cup {Unknown}, pending : Positions \cup {Unknown},
                 recent : BOOLEAN]
    /\ gripper \in Positions
    /\ wanted \in {Closed, Open, Unknown}
    /\ doubtful \in BOOLEAN

Init ==
    /\ gate = [position |-> Unknown, pending |-> Unknown, recent |-> FALSE]
    /\ gripper \in Positions
    /\ wanted = Unknown /\ doubtful = FALSE

\* The first use takes the observed position for granted.
Believed == IF gate.position = Unknown THEN gripper ELSE gate.position

\* next_command asks for nothing that is believed to be so or was just tried.
Withheld(target) == target = Believed \/ (gate.pending = target /\ gate.recent)

Withhold(target) ==
    /\ Withheld(target)
    /\ gate' = [gate EXCEPT !.position = Believed,
                            !.pending = IF target = Believed THEN Unknown ELSE @]
    /\ wanted' = target
    /\ UNCHANGED <<gripper, doubtful>>

Applied(position) == [gate EXCEPT !.position = position, !.pending = Unknown]

Apply(target) ==
    /\ ~Withheld(target)
    /\ gripper' = target /\ gate' = [Applied(target) EXCEPT !.recent = TRUE]
    /\ wanted' = target /\ doubtful' = FALSE

\* Mutant: the position is taken for reached when the command is made.
RejectedAsReached(target) == [position |-> target, pending |-> target, recent |-> TRUE]

\* mark_failed: the position stays what it was, the command is pending.
Rejected(target) == [position |-> Believed, pending |-> target, recent |-> TRUE]

\* A command that raised may have moved the gripper all the same.
Reject(target) ==
    /\ ~Withheld(target)
    /\ gate' = Rejected(target)
    /\ gripper' \in {gripper, target}
    /\ wanted' = target /\ doubtful' = (doubtful \/ gripper' # gripper)

\* toggle_manual: the gate turns over its belief before the command is sent.
Toggle ==
    LET turned == Open - Believed IN
    /\ \/ /\ gripper' = turned /\ gate' = [Applied(turned) EXCEPT !.recent = FALSE]
          /\ doubtful' = FALSE
       \/ /\ gripper' \in {gripper, turned}
          /\ gate' = [position |-> turned, pending |-> turned, recent |-> TRUE]
          /\ doubtful' = TRUE
    /\ wanted' = Unknown

RetryInterval ==
    /\ gate.recent /\ gate' = [gate EXCEPT !.recent = FALSE]
    /\ UNCHANGED <<gripper, wanted, doubtful>>

Next ==
    \/ \E target \in {Closed, Open} : Withhold(target) \/ Apply(target) \/ Reject(target)
    \/ Toggle \/ RetryInterval

Spec == Init /\ [][Next]_vars

----------------------------------------------------------------------------
\* The policy is authoritative: what it asks for is so, or is tried again,
\* unless a failed command left the gate in doubt about the gripper.
PolicyAuthoritative ==
    wanted # Unknown => gripper = wanted \/ gate.pending = wanted \/ doubtful
=============================================================================
