-------------------------------- MODULE Hub ---------------------------------
(***************************************************************************)
(* The Hub process (Hub): the registry of Node sessions, the Handles it    *)
(* grants, renews, revokes and expires, and how it answers the messages    *)
(* and reports of the Nodes.  Messages, operator calls and the service     *)
(* tick run under one lock, so each is one action.                         *)
(*                                                                         *)
(* The Nodes and the network are the environment: messages of a Node's     *)
(* current session about a Handle of that session come in any order,       *)
(* repeated or never (repetitions the code drops by sequence number are    *)
(* among them), and any command may fail to be delivered.  Commands are    *)
(* modelled by what the Hub remembers of them: which grants are delivered  *)
(* and unacknowledged, and which are still to be delivered.                *)
(*                                                                         *)
(* The database rows of the Handles and the process's copies always agree, *)
(* so there is one record of each; HandleStore is about the database, its  *)
(* transactions and its fencing tokens.  Time is what is left of a Handle. *)
(* Schemas, endpoints, actors and audit are left out; so is the automatic  *)
(* route (off by default), which only calls Assign.                        *)
(***************************************************************************)
EXTENDS ControlModel, Integers, FiniteSets

CONSTANTS
    Robots, Controllers,   \* node ids
    HandleIds,             \* Handle identifiers
    NoHandle,              \* a report that names no Handle
    NoReport,              \* nothing reported yet
    NoRow,                 \* the Handle id has not been used
    Ttl,                   \* validity of a fresh or renewed Handle
    RobotReports, ControllerReports   \* what the Nodes may report

\* Bounds of the explored instance; a later epoch explores fewer sessions.
CONSTANTS MaxSession, MaxEpoch, MaxStarts

Nodes == Robots \cup Controllers

Report == [control : RobotControlState \cup ControllerControlState,
           runtime : RuntimeState, engaged : BOOLEAN,
           handle : HandleIds \cup {NoHandle}]

\* A registry entry; session 0 is a Node that has not registered.
Entry == [session : Nat, online : BOOLEAN, report : Report \cup {NoReport}]

Row == [epoch : Nat, robot : Robots, controller : Controllers,
        robot_session : Nat, controller_session : Nat,
        state : HandleState, left : 0..Ttl,
        robot_ready : BOOLEAN, controller_streaming : BOOLEAN,
        granting : SUBSET Nodes,   \* grants delivered, not acknowledged
        pending : SUBSET Nodes]    \* grants to be delivered again

ASSUME ConstantsAssumption ==
    /\ Robots \cap Controllers = {}
    /\ NoRow \notin Row /\ NoReport \notin Report /\ NoHandle \notin HandleIds
    /\ Ttl \in Nat \ {0} /\ {MaxSession, MaxEpoch, MaxStarts} \subseteq Nat
    /\ RobotReports \subseteq Report /\ ControllerReports \subseteq Report

VARIABLES
    running,    \* the Hub process serves its Nodes
    epoch,      \* epochs begun so far
    nodes,      \* the registry
    seen,       \* sessions registered so far, per Node
    handles     \* all Handles ever minted

vars == <<running, epoch, nodes, seen, handles>>

-----------------------------------------------------------------------------
Unknown == [session |-> 0, online |-> FALSE, report |-> NoReport]

\* The Handles this process knows, and those of them that still bind.
Known == {h \in HandleIds : handles[h] # NoRow /\ handles[h].epoch = epoch /\ running}

Live == {h \in Known : handles[h].state \notin Terminal}

Parties(h) == {handles[h].robot, handles[h].controller}

\* Mutant: only the Robot's session counts.
NamesRobotSession(h, n, s) ==
    <<handles[h].robot, handles[h].robot_session>> = <<n, s>>

NamesSession(h, n, s) ==
    \/ <<handles[h].robot, handles[h].robot_session>> = <<n, s>>
    \/ <<handles[h].controller, handles[h].controller_session>> = <<n, s>>

\* n, in its current session, speaks of Handle h of that session, whose grant
\* has reached it.
Names(n, h) ==
    /\ h \in Known /\ nodes[n].session # 0
    /\ NamesSession(h, n, nodes[n].session)
    /\ n \notin handles[h].pending

Speaks(n, h) == h \in Live /\ Names(n, h)

\* A transition the lifecycle does not allow is refused.
MayBecome(h, target) == target \in Allowed[handles[h].state]

\* How long an ended Handle would have been valid is not read again.
WithState(row, target) ==
    [row EXCEPT !.state = target, !.left = IF target \in Terminal THEN 0 ELSE @]

\* Automatic revocation of some live Handles: those not REVOKING already.
Revoked(S) ==
    [h \in HandleIds |->
       IF h \in S /\ h \in Live THEN WithState(handles[h], "REVOKING") ELSE handles[h]]

Heard(n) == [nodes EXCEPT ![n].online = TRUE]

\* Mutant: one acknowledgement is enough.
ActivatedByEither(row) ==
    IF row.state = "TAKING_OVER" /\ (row.robot_ready \/ row.controller_streaming)
    THEN WithState(row, "ACTIVE") ELSE row

\* A Handle whose two acknowledgements are in becomes ACTIVE.
Activated(row) ==
    IF row.state = "TAKING_OVER" /\ row.robot_ready /\ row.controller_streaming
    THEN WithState(row, "ACTIVE") ELSE row

-----------------------------------------------------------------------------
(* The process.                                                            *)

Init ==
    /\ running = FALSE /\ epoch = 0
    /\ nodes = [n \in Nodes |-> Unknown]
    /\ seen = [n \in Nodes |-> {}]
    /\ handles = [h \in HandleIds |-> NoRow]

\* A new epoch: nothing is known of the Nodes, every earlier Handle is void.
Start ==
    /\ ~running /\ epoch < MaxEpoch
    /\ running' = TRUE /\ epoch' = epoch + 1
    /\ nodes' = [n \in Nodes |-> Unknown]
    /\ seen' = [n \in Nodes |-> {}]
    /\ handles' = [h \in HandleIds |->
         IF handles[h] # NoRow /\ handles[h].state \notin Terminal
         THEN WithState(handles[h], "EXPIRED") ELSE handles[h]]

\* stop, or the end of the process at any moment.
Stop ==
    /\ running
    /\ running' = FALSE
    /\ nodes' = [n \in Nodes |-> Unknown]
    /\ seen' = [n \in Nodes |-> {}]
    /\ UNCHANGED <<epoch, handles>>

-----------------------------------------------------------------------------
(* Messages of the Nodes.                                                  *)

\* A Node registers a session.  Handles of the session it replaces are revoked;
\* a session that was replaced before is refused.
Register(n, s) ==
    LET old == nodes[n].session
    IN  /\ running
        /\ old \notin {0, s} => s \notin seen[n]
        /\ handles' = IF old \in {0, s} THEN handles
                      ELSE Revoked({h \in Live : NamesSession(h, n, old)})
        /\ nodes' = [nodes EXCEPT ![n] =
                       [session |-> s, online |-> TRUE, report |-> NoReport]]
        /\ seen' = [seen EXCEPT ![n] = @ \cup {s}]
        /\ UNCHANGED <<running, epoch>>

\* A heartbeat, controller_released, or the acknowledgement of a command other
\* than a grant.
Heartbeat(n) ==
    /\ running /\ nodes[n].session # 0
    /\ nodes' = Heard(n)
    /\ UNCHANGED <<running, epoch, seen, handles>>

\* What was reported before the grant was accepted says nothing about it.
GrantAck(n, h) ==
    /\ Names(n, h) /\ n \in handles[h].granting
    /\ handles' = [handles EXCEPT ![h].granting = @ \ {n}]
    /\ nodes' = [Heard(n) EXCEPT ![n].report = NoReport]
    /\ UNCHANGED <<running, epoch, seen>>

\* Mutant: SAFETY is only displayed.
AfterFault(n, report) ==
    [h \in HandleIds |->
       IF h \in Live /\ n \in Parties(h) /\ report.runtime = "FAULT"
       THEN WithState(handles[h], "FAULT")
       ELSE handles[h]]

\* What a report of a Fault or of SAFETY does to the Handle of its Node.
AfterReport(n, report) ==
    [h \in HandleIds |->
       IF h \notin Live \/ n \notin Parties(h) THEN handles[h]
       ELSE IF report.runtime = "FAULT" THEN WithState(handles[h], "FAULT")
       ELSE IF report.control = "SAFETY" THEN WithState(handles[h], "REVOKING")
       ELSE handles[h]]

\* A status report; one that names a Handle names one of its own session.
Status(n, report) ==
    /\ running /\ nodes[n].session # 0
    /\ report.handle # NoHandle => Names(n, report.handle)
    /\ nodes' = [Heard(n) EXCEPT ![n].report = report]
    /\ handles' = AfterReport(n, report)
    /\ UNCHANGED <<running, epoch, seen>>

\* The Controller asks for take-over; the Robot is told.
TakeOverRequested(h) ==
    /\ Speaks(handles[h].controller, h)
    /\ handles[h].state \in {"ASSIGNED", "TAKING_OVER"}
    /\ handles' = [handles EXCEPT ![h].state = "TAKING_OVER"]
    /\ UNCHANGED <<running, epoch, nodes, seen>>

\* The Robot has opened its receiver; the Controller is told.
RobotReady(h) ==
    LET row == [handles[h] EXCEPT !.robot_ready = TRUE,
                  !.state = IF @ = "ASSIGNED" THEN "TAKING_OVER" ELSE @]
    IN  /\ Speaks(handles[h].robot, h)
        /\ handles' = [handles EXCEPT ![h] = Activated(row)]
        /\ nodes' = Heard(handles[h].robot)
        /\ UNCHANGED <<running, epoch, seen>>

ControllerStreaming(h) ==
    LET row == [handles[h] EXCEPT !.controller_streaming = TRUE]
    IN  /\ Speaks(handles[h].controller, h)
        /\ handles' = [handles EXCEPT ![h] = Activated(row)]
        /\ nodes' = Heard(handles[h].controller)
        /\ UNCHANGED <<running, epoch, seen>>

\* The Controller has stopped publishing and gives the Handle back; the Robot
\* is told.  Before activation the request is refused.
HandOverRequested(h) ==
    /\ Speaks(handles[h].controller, h)
    /\ handles[h].state \in {"ACTIVE", "HANDING_OVER", "REVOKING"}
    /\ handles' = [handles EXCEPT ![h].state = IF @ = "ACTIVE" THEN "HANDING_OVER" ELSE @]
    /\ UNCHANGED <<running, epoch, nodes, seen>>

\* The Robot holds: whichever end was asked for has come.
RobotHolding(h) ==
    /\ Speaks(handles[h].robot, h)
    /\ handles' = [handles EXCEPT ![h] =
         CASE @.state = "HANDING_OVER" -> WithState(@, "RELEASED")
           [] @.state = "REVOKING" -> WithState(@, "REVOKED")
           [] OTHER -> @]
    /\ nodes' = Heard(handles[h].robot)
    /\ UNCHANGED <<running, epoch, seen>>

\* A fault message that carries no report ends the Handle it names.  Neither
\* Node of this repository sends one.
Fault(n, h) ==
    /\ Speaks(n, h)
    /\ handles' = [handles EXCEPT ![h] = WithState(@, "FAULT")]
    /\ UNCHANGED <<running, epoch, nodes, seen>>

-----------------------------------------------------------------------------
(* Operator calls.                                                         *)

\* Mutant: only a Handle that has been taken over binds its Nodes.
FreeUnlessActive(n) ==
    \A h \in Live : handles[h].state = "ACTIVE" => n \notin Parties(h)

Free(n) == \A h \in Live : n \notin Parties(h)

\* DEGRADED stands for a degraded Robot that reports an error.
Schedulable(r) ==
    /\ nodes[r].session # 0 /\ nodes[r].online /\ Free(r)
    /\ nodes[r].report # NoReport =>
         /\ nodes[r].report.control # "SAFETY"
         /\ nodes[r].report.runtime \notin {"FAULT", "DEGRADED"}

ControllerAvailable(c) ==
    /\ nodes[c].session # 0 /\ nodes[c].online /\ Free(c)
    /\ nodes[c].report # NoReport => nodes[c].report.runtime \notin {"FAULT", "STOPPED"}

\* Mint a Handle and grant it to both Nodes, as far as they can be reached.
Assign(r, c, h, delivered) ==
    /\ running /\ handles[h] = NoRow
    /\ Schedulable(r) /\ ControllerAvailable(c)
    /\ handles' = [handles EXCEPT ![h] =
         [epoch |-> epoch, robot |-> r, controller |-> c,
          robot_session |-> nodes[r].session, controller_session |-> nodes[c].session,
          state |-> "ASSIGNED", left |-> Ttl,
          robot_ready |-> FALSE, controller_streaming |-> FALSE,
          granting |-> {r, c} \cap delivered, pending |-> {r, c} \ delivered]]
    /\ nodes' = [n \in Nodes |-> IF n \in {r, c} THEN [nodes[n] EXCEPT !.report = NoReport]
                                 ELSE nodes[n]]
    /\ UNCHANGED <<running, epoch, seen>>

\* Mutant: whatever still binds is renewed.
RenewableWhileLive(h) == h \in Live

Renewable(h) ==
    /\ h \in Live /\ handles[h].state # "REVOKING"
    /\ nodes[handles[h].robot].online /\ nodes[handles[h].controller].online
    /\ nodes[handles[h].robot].session = handles[h].robot_session
    /\ nodes[handles[h].controller].session = handles[h].controller_session

\* Mutant: a renewal is counted from the old expiry.
RenewFromExpiry(h) ==
    /\ Renewable(h) /\ handles[h].left > 0
    /\ handles' = [handles EXCEPT ![h].left = @ + Ttl]
    /\ UNCHANGED <<running, epoch, nodes, seen>>

Renew(h) ==
    /\ Renewable(h) /\ handles[h].left > 0
    /\ handles' = [handles EXCEPT ![h].left = Ttl]
    /\ UNCHANGED <<running, epoch, nodes, seen>>

\* The Controller is told to take over.
RequestTakeOver(h) ==
    /\ h \in Live /\ handles[h].state = "ASSIGNED"
    /\ handles' = [handles EXCEPT ![h].state = "TAKING_OVER"]
    /\ UNCHANGED <<running, epoch, nodes, seen>>

\* The Controller is told to hand over.
RequestHandOver(h) ==
    /\ h \in Live /\ handles[h].state \in {"ASSIGNED", "TAKING_OVER", "ACTIVE"}
    /\ handles' = [handles EXCEPT ![h].state =
                     IF @ = "ACTIVE" THEN "HANDING_OVER" ELSE "REVOKING"]
    /\ UNCHANGED <<running, epoch, nodes, seen>>

\* Both Nodes are told that the Handle is revoked.
Revoke(h) ==
    /\ h \in Live /\ MayBecome(h, "REVOKING")
    /\ handles' = [handles EXCEPT ![h].state = "REVOKING"]
    /\ UNCHANGED <<running, epoch, nodes, seen>>

-----------------------------------------------------------------------------
(* The service tick.                                                       *)

\* Mutant: only a silent Robot ends its Handle.
SilentRobot(h, overdue) == handles[h].robot \in overdue

\* A party of the Handle fell silent.
Silent(h, overdue) == Parties(h) \cap overdue # {}

\* A Handle after the first half of the tick: revoked if a party fell silent,
\* expired if its time is over, else renewed if that is due; grants that are
\* still to be delivered are sent again, whatever the state.
Served(h, overdue, due, delivered) ==
    LET state == IF Silent(h, overdue) THEN "REVOKING" ELSE handles[h].state
        renewed == h \in due /\ ~Silent(h, overdue) /\ Renewable(h)
    IN  IF handles[h].left = 0 THEN WithState(handles[h], "EXPIRED")
        ELSE [handles[h] EXCEPT
                !.state = state,
                !.left = IF renewed THEN Ttl ELSE @,
                !.granting = @ \cup (handles[h].pending \cap delivered),
                !.pending = @ \ delivered]

\* The mismatches the registry shows for a Handle; a Node that is offline
\* reports nothing.
Mismatches(h, row, registry) ==
    LET latest(n) == IF registry[n].online THEN registry[n].report ELSE NoReport
    IN  MismatchCodes(h, row.state, latest(row.robot), latest(row.controller), NoReport)

\* A mismatch revokes the Handle, unless it is about to end anyway, its grant
\* is not acknowledged, or it was activated a moment ago (recent).
Corrected(h, row, registry, recent) ==
    LET codes == Mismatches(h, row, registry)
    IN  IF /\ row.state \in {"ASSIGNED", "TAKING_OVER", "ACTIVE"}
           /\ row.state # "ACTIVE" => row.granting = {}
           /\ codes # {}
           /\ ~(row.state = "ACTIVE" /\ h \in recent /\ codes \subseteq PropagationMismatches)
        THEN WithState(row, "REVOKING") ELSE row

\* overdue are the Nodes silent for three heartbeat intervals, due the Handles
\* last renewed long enough ago, delivered the Nodes a message reaches.
ServiceTick(overdue, due, recent, delivered) ==
    LET registry == [n \in Nodes |-> IF n \in overdue THEN [nodes[n] EXCEPT !.online = FALSE]
                                     ELSE nodes[n]]
    IN  /\ running
        /\ overdue \subseteq {n \in Nodes : nodes[n].online}
        /\ nodes' = registry
        /\ handles' = [h \in HandleIds |->
             IF h \in Live
             THEN Corrected(h, Served(h, overdue, due, delivered), registry, recent)
             ELSE handles[h]]
        /\ UNCHANGED <<running, epoch, seen>>

\* Time passes for every Handle that binds.
Tick ==
    /\ \E h \in HandleIds : handles[h] # NoRow /\ handles[h].state \notin Terminal
                            /\ handles[h].left > 0
    /\ handles' = [h \in HandleIds |->
         IF handles[h] # NoRow /\ handles[h].state \notin Terminal /\ handles[h].left > 0
         THEN [handles[h] EXCEPT !.left = @ - 1] ELSE handles[h]]
    /\ UNCHANGED <<running, epoch, nodes, seen>>

-----------------------------------------------------------------------------
\* Silence, messages, renewals and moments only matter to these.
Online == {n \in Nodes : nodes[n].online}
Waiting == UNION {handles[h].pending : h \in Live}
Active == {h \in Live : handles[h].state = "ACTIVE"}

Service ==
    \E overdue \in SUBSET Online, delivered \in SUBSET Waiting,
       due \in SUBSET {h \in Live : Renewable(h)}, recent \in SUBSET Active :
      ServiceTick(overdue, due, recent, delivered)

MessageStep ==
    \/ \E n \in Nodes :
         \/ \E s \in 1..MaxSession : epoch + s <= MaxStarts /\ Register(n, s)
         \/ Heartbeat(n)
         \/ \E h \in HandleIds : GrantAck(n, h) \/ Fault(n, h)
    \/ \E r \in Robots, report \in RobotReports : Status(r, report)
    \/ \E c \in Controllers, report \in ControllerReports : Status(c, report)
    \/ \E h \in Live :
         \/ TakeOverRequested(h) \/ RobotReady(h) \/ ControllerStreaming(h)
         \/ HandOverRequested(h) \/ RobotHolding(h)

OperatorStep ==
    \/ \E r \in Robots, c \in Controllers, h \in HandleIds, delivered \in SUBSET Nodes :
         Assign(r, c, h, delivered)
    \/ \E h \in Live : Renew(h) \/ RequestTakeOver(h) \/ RequestHandOver(h) \/ Revoke(h)

Next == Start \/ Stop \/ MessageStep \/ OperatorStep \/ Service \/ Tick

Spec == Init /\ [][Next]_vars

\* The service loop ticks at least every 100 ms while the process runs, and
\* time passes; nothing is assumed of the Nodes, the network or the operator.
FairSpec == Spec /\ WF_vars(Service) /\ WF_vars(Tick)

-----------------------------------------------------------------------------
TypeOK ==
    /\ running \in BOOLEAN /\ epoch \in Nat
    /\ nodes \in [Nodes -> Entry]
    /\ seen \in [Nodes -> SUBSET Nat]
    /\ handles \in [HandleIds -> Row \cup {NoRow}]

\* A Handle that may still lead to motion binds two Nodes that are online, in
\* the very sessions it was granted to.
BoundNodesPresent ==
    \A h \in Live : handles[h].state # "REVOKING" =>
        /\ nodes[handles[h].robot].online /\ nodes[handles[h].controller].online
        /\ NamesSession(h, handles[h].robot, nodes[handles[h].robot].session)
        /\ NamesSession(h, handles[h].controller, nodes[handles[h].controller].session)

\* A Handle is ACTIVE only when the Robot has been ready and the Controller
\* streaming under it, and no Handle binds a Robot that last reported SAFETY
\* or a Node that last reported a fault, except one that is being revoked.
ActiveIsEarned ==
    \A h \in Live :
        /\ handles[h].state \in {"ACTIVE", "HANDING_OVER"} =>
             handles[h].robot_ready /\ handles[h].controller_streaming
        /\ handles[h].state # "REVOKING" =>
             \A n \in Parties(h) : nodes[n].report # NoReport =>
               nodes[n].report.control # "SAFETY" /\ nodes[n].report.runtime # "FAULT"

\* Two live Handles share no Node.
Exclusive ==
    \A g, h \in Live : g # h => Parties(g) \cap Parties(h) = {}

\* A revocation ends, whatever the Nodes answer or fail to answer and however
\* often the operator asks for a renewal, as long as the Hub runs: REVOKING is
\* the one state in which a Handle is not renewed.
RevocationEnds ==
    \A h \in HandleIds :
      (handles[h] # NoRow /\ handles[h].state = "REVOKING")
        ~> (~running \/ (handles[h] # NoRow /\ handles[h].state \in Terminal))

\* A Robot is not assigned again while its last report says that it controls
\* under a Handle that has expired since it was active.
ReassignedOnceConfirmed ==
    [][\A h, g \in HandleIds :
         /\ handles[h] = NoRow /\ handles'[h] # NoRow
         /\ g \in Known /\ handles[g].state = "EXPIRED"
         /\ handles[g].robot_ready /\ handles[g].controller_streaming
         /\ nodes[handles'[h].robot].report # NoReport
         => LET report == nodes[handles'[h].robot].report
            IN  <<report.handle, report.control>> # <<g, "CONTROLLING">>]_vars
=============================================================================
