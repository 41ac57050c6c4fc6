------------------------------- MODULE MCHub --------------------------------
(* Instance of Hub for TLC.                                                *)
EXTENDS Hub, TLC

Say(k, r, e, H) ==
    {[control |-> k, runtime |-> r, engaged |-> e, handle |-> h] : h \in H}

\* Holding or controlling under a Handle or none, in SAFETY, or faulty.
MCRobotReports ==
    Say("HOLD", "ONLINE", FALSE, HandleIds \cup {NoHandle})
      \cup Say("CONTROLLING", "ONLINE", TRUE, HandleIds)
      \cup Say("SAFETY", "ONLINE", FALSE, {NoHandle})
      \cup Say("HOLD", "FAULT", FALSE, {NoHandle})

MCControllerReports ==
    Say("IDLE", "ONLINE", FALSE, HandleIds \cup {NoHandle})
      \cup Say("STREAMING", "ONLINE", TRUE, HandleIds)

\* For two Handles: only what assignment looks at.
MCFewRobotReports ==
    Say("HOLD", "ONLINE", FALSE, {NoHandle}) \cup Say("CONTROLLING", "ONLINE", TRUE, HandleIds)

MCFewControllerReports == Say("IDLE", "ONLINE", FALSE, {NoHandle})

Symmetry == Permutations(HandleIds)
=============================================================================
