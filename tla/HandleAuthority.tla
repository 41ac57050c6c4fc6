-------------------------- MODULE HandleAuthority ---------------------------
(***************************************************************************)
(* What the Hub promises about authority, and nothing about how: a Robot   *)
(* and a Controller take part in at most one grant at a time, a Handle id  *)
(* is granted at most once, and every grant of a Robot carries a token one *)
(* above the previous one.  Any number of grants may end together (a Hub   *)
(* restart ends them all).                                                 *)
(***************************************************************************)
EXTENDS Naturals

CONSTANTS Robots, Controllers, HandleIds

VARIABLES
    grants,   \* the grants in force, records of the set Grant
    used,     \* the Handle ids granted so far
    token     \* per Robot, the token of its latest grant, 0 before the first

vars == <<grants, used, token>>

Grant == [handle : HandleIds, robot : Robots, controller : Controllers,
          token : Nat]

Init ==
    /\ grants = {}
    /\ used = {}
    /\ token = [r \in Robots |-> 0]

Give(r, c, h) ==
    /\ h \notin used
    /\ \A g \in grants : g.robot # r /\ g.controller # c
    /\ token' = [token EXCEPT ![r] = @ + 1]
    /\ grants' = grants \cup
         {[handle |-> h, robot |-> r, controller |-> c, token |-> token[r] + 1]}
    /\ used' = used \cup {h}

End(S) ==
    /\ grants' = grants \ S
    /\ UNCHANGED <<used, token>>

Next ==
    \/ \E r \in Robots, c \in Controllers, h \in HandleIds : Give(r, c, h)
    \/ \E S \in SUBSET grants : End(S)

Spec == Init /\ [][Next]_vars
=============================================================================
