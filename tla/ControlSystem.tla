---------------------------- MODULE ControlSystem ----------------------------
(***************************************************************************)
(* Hub, one Robot Node and its Controller Nodes over channels that delay    *)
(* and lose messages.  Hub, RobotNode and ControllerNode say what each does *)
(* in any environment; here each is the environment of the others, so a     *)
(* step keeps only what another process can tell: what becomes of a Handle, *)
(* which messages leave, what opens and closes the action input.            *)
(*                                                                         *)
(* A channel is a queue per direction.  A Node whose answer cannot be sent  *)
(* gives up its session, as it may after any step (Lost); acknowledgements, *)
(* heartbeats and reports change nothing here, and the Hub may at any time  *)
(* take a Node for silent, mismatched, in SAFETY or faulty.  Clocks agree;  *)
(* a validity is what is left of it, in a message under way too.  Frames    *)
(* are the matter of RobotNode and ControllerNode.                          *)
(***************************************************************************)
EXTENDS ControlModel, Sequences, FiniteSets

CONSTANTS
    Robot, Controllers,   \* node ids
    HandleIds,
    NoHandle, NoRow,
    Ttl,                  \* validity of a fresh or renewed Handle
    MaxRequests, MaxLosses, MaxQueue   \* bounds of the explored instance

Nodes == {Robot} \cup Controllers

Row == [controller : Controllers, sessions : [Nodes -> Nat], state : HandleState,
        left : 0..Ttl, robot_ready : BOOLEAN, controller_streaming : BOOLEAN,
        pending : SUBSET Nodes]

ASSUME ConstantsAssumption ==
    /\ Robot \notin Controllers /\ NoHandle \notin HandleIds /\ NoRow \notin Row
    /\ {Ttl, MaxQueue} \subseteq Nat \ {0} /\ {MaxRequests, MaxLosses} \subseteq Nat

VARIABLES
    registry,   \* the session the Hub knows of each Node
    rows,       \* the Handles of the Hub
    arm,        \* the Robot Node
    source,     \* the Controller Nodes
    commands,   \* from the Hub to the session of each Node
    messages,   \* from each Node to the Hub
    asked,      \* take-over requests made so far
    losses,     \* messages and sessions lost so far
    missed      \* <<node, Handle>>: a message about it was lost

vars == <<registry, rows, arm, source, commands, messages, asked, losses, missed>>

Commands == {"grant", "renewal", "take_over", "robot_ready", "hand_over", "revoke", "force_hold"}
Words == {"take_over_requested", "robot_ready", "controller_streaming", "hand_over_requested",
          "robot_holding", "register"}

TypeOK ==
    /\ registry \in [Nodes -> 1 .. MaxLosses + 1]
    /\ rows \in [HandleIds -> Row \cup {NoRow}]
    /\ arm \in [session : 1 .. MaxLosses + 1, input : BOOLEAN, left : 0 .. Ttl,
                handle : HandleIds \cup {NoHandle}, ended : SUBSET HandleIds]
    /\ source \in [Controllers ->
         [session : 1 .. MaxLosses + 1, control : ControllerControlState, left : 0 .. Ttl,
          request : 0 .. MaxRequests, handle : HandleIds \cup {NoHandle},
          ended : SUBSET HandleIds]]
    /\ \A n \in Nodes :
         /\ \A i \in DOMAIN commands[n] : commands[n][i] \in
              [kind : Commands, handle : HandleIds, left : 0 .. Ttl, request : 0 .. MaxRequests]
         /\ \A i \in DOMAIN messages[n] : messages[n][i] \in
              [kind : Words, handle : HandleIds \cup {NoHandle}, request : 0 .. MaxRequests,
               session : 1 .. MaxLosses + 1]
    /\ asked \in 0 .. MaxRequests /\ losses \in 0 .. MaxLosses
    /\ missed \subseteq Nodes \X HandleIds

-----------------------------------------------------------------------------
Session(n) == IF n = Robot THEN arm.session ELSE source[n].session

Command(kind, h, left, request) ==
    [kind |-> kind, handle |-> h, left |-> left, request |-> request]

Live == {h \in HandleIds : rows[h] # NoRow /\ rows[h].state \notin Terminal}

Parties(h) == {Robot, rows[h].controller}

Nothing == [n \in Nodes |-> <<>>]
Only(n, told) == [Nothing EXCEPT ![n] = told]

\* What the Hub sends reaches the queue of the session it knows; the session a
\* Node has opened since hears nothing of it, and a full queue takes nothing.
Reaches(n, told) ==
    registry[n] = Session(n) /\ Len(commands[n]) + Len(told[n]) <= MaxQueue

Tell(told) ==
    /\ commands' = [n \in Nodes |->
         IF Reaches(n, told) THEN commands[n] \o told[n] ELSE commands[n]]
    /\ missed' = missed \cup {p \in Nodes \X HandleIds :
         /\ ~Reaches(p[1], told)
         /\ \E i \in DOMAIN told[p[1]] : told[p[1]][i].handle = p[2]}

\* The Hub changes its mind about Handles and tells its Nodes.
Decide(changed, told) ==
    /\ rows' = changed
    /\ Tell(told)
    /\ UNCHANGED <<arm, source, losses>>

WithState(row, state) ==
    IF state \in Terminal
    THEN [row EXCEPT !.state = state, !.robot_ready = FALSE,
                     !.controller_streaming = FALSE, !.pending = {}]
    ELSE [row EXCEPT !.state = state]

Becomes(h, state) == [rows EXCEPT ![h] = WithState(@, state)]

-----------------------------------------------------------------------------
Init ==
    /\ registry = [n \in Nodes |-> 1]
    /\ rows = [h \in HandleIds |-> NoRow]
    /\ arm = [session |-> 1, input |-> FALSE, left |-> 0,
              handle |-> NoHandle, ended |-> {}]
    /\ source = [c \in Controllers |->
         [session |-> 1, control |-> "IDLE", left |-> 0, request |-> 0,
          handle |-> NoHandle, ended |-> {}]]
    /\ commands = Nothing /\ messages = Nothing
    /\ asked = 0 /\ losses = 0 /\ missed = {}

-----------------------------------------------------------------------------
(* The Hub: operator calls and the service tick.                           *)

Idle(n) == \A h \in Live : n \notin Parties(h)

\* A grant that cannot be delivered is sent again by the tick.
Assign(c, h, delivered) ==
    /\ rows[h] = NoRow /\ Idle(Robot) /\ Idle(c)
    /\ delivered \subseteq {Robot, c}
    /\ losses' = losses + Cardinality({Robot, c} \ delivered) /\ losses' <= MaxLosses
    /\ rows' = [rows EXCEPT ![h] =
         [controller |-> c, sessions |-> registry, state |-> "ASSIGNED", left |-> Ttl,
          robot_ready |-> FALSE, controller_streaming |-> FALSE,
          pending |-> {Robot, c} \ delivered]]
    /\ Tell([n \in Nodes |-> IF n \in delivered THEN <<Command("grant", h, Ttl, 0)>> ELSE <<>>])
    /\ UNCHANGED <<registry, arm, source, messages, asked>>

\* Mutant: a grant that is sent again promises the full validity.
GrantAgainAfresh(h, n) ==
    /\ h \in Live /\ n \in rows[h].pending
    /\ Decide([rows EXCEPT ![h].pending = @ \ {n}], Only(n, <<Command("grant", h, Ttl, 0)>>))
    /\ UNCHANGED <<registry, messages, asked>>

\* Whatever has become of the Handle meanwhile.
GrantAgain(h, n) ==
    /\ h \in Live /\ n \in rows[h].pending
    /\ Decide([rows EXCEPT ![h].pending = @ \ {n}],
              Only(n, <<Command("grant", h, rows[h].left, 0)>>))
    /\ UNCHANGED <<registry, messages, asked>>

Renew(h) ==
    /\ h \in Live /\ rows[h].state # "REVOKING"
    /\ rows[h].left \in 1 .. Ttl - 1
    /\ \A n \in Parties(h) : registry[n] = rows[h].sessions[n]
    /\ Decide([rows EXCEPT ![h].left = Ttl],
              [n \in Nodes |-> IF n \in Parties(h) THEN <<Command("renewal", h, Ttl, 0)>>
                               ELSE <<>>])
    /\ UNCHANGED <<registry, messages, asked>>

Expire(h) ==
    /\ h \in Live /\ rows[h].left = 0
    /\ Decide(Becomes(h, "EXPIRED"), Nothing)
    /\ UNCHANGED <<registry, messages, asked>>

\* The Controller numbers its request when it obeys; the number is set apart here.
RequestTakeOver(h) ==
    /\ h \in Live /\ rows[h].state \in {"ASSIGNED", "TAKING_OVER"}
    /\ asked < MaxRequests /\ asked' = asked + 1
    /\ Decide(Becomes(h, "TAKING_OVER"),
              Only(rows[h].controller, <<Command("take_over", h, rows[h].left, asked')>>))
    /\ UNCHANGED <<registry, messages>>

\* What a request to hand over makes of a Handle.
AskedToEnd == [s \in HandleState |->
    CASE s \in {"ASSIGNED", "TAKING_OVER"} -> "REVOKING"
      [] s = "ACTIVE" -> "HANDING_OVER"
      [] OTHER -> s]

\* Mutant: the Robot is told without waiting for the Controller.
RequestHandOverOfBoth(h) ==
    /\ h \in Live
    /\ Decide(Becomes(h, AskedToEnd[rows[h].state]),
              [n \in Nodes |-> IF n \in Parties(h)
                               THEN <<Command("hand_over", h, rows[h].left, 0)>> ELSE <<>>])
    /\ UNCHANGED <<registry, messages, asked>>

RequestHandOver(h) ==
    /\ h \in Live
    /\ Decide(Becomes(h, AskedToEnd[rows[h].state]),
              Only(rows[h].controller, <<Command("hand_over", h, rows[h].left, 0)>>))
    /\ UNCHANGED <<registry, messages, asked>>

\* Mutant: only the Robot is told.
RevocationOfRobot(h, automatic) == Only(Robot, <<Command("revoke", h, rows[h].left, 0)>>)

\* What a revocation tells its Nodes; one of the Hub's own accord (automatic)
\* also forces the Robot to hold.
RevocationOf(h, automatic) ==
    LET revoke == Command("revoke", h, rows[h].left, 0)
        hold == Command("force_hold", h, rows[h].left, 0)
    IN  [Nothing EXCEPT ![rows[h].controller] = <<revoke>>,
                        ![Robot] = IF automatic THEN <<revoke, hold>> ELSE <<revoke>>]

\* The operator may say so again.
Revoke(h, automatic) ==
    /\ h \in Live
    /\ automatic => rows[h].state # "REVOKING"
    /\ Decide(Becomes(h, "REVOKING"), RevocationOf(h, automatic))
    /\ UNCHANGED <<registry, messages, asked>>

\* A Node reports a fault: the Handle ends, and nobody is told.
Fault(h) ==
    /\ h \in Live
    /\ Decide(Becomes(h, "FAULT"), Nothing)
    /\ UNCHANGED <<registry, messages, asked>>

-----------------------------------------------------------------------------
(* The Hub: messages of the Nodes.                                         *)

\* The message comes from the present session and names a Handle of it that
\* has not ended.
Heeded(n, m) ==
    /\ m.session = registry[n]
    /\ m.handle \in Live /\ n \in Parties(m.handle)
    /\ rows[m.handle].sessions[n] = m.session

\* A Handle of the session that is replaced is revoked.
Register(n, s) ==
    LET lost == {h \in Live : n \in Parties(h) /\ rows[h].sessions[n] # s
                              /\ rows[h].state # "REVOKING"}
    IN  /\ registry' = [registry EXCEPT ![n] = s]
        /\ Decide([h \in HandleIds |-> IF h \in lost THEN WithState(rows[h], "REVOKING")
                                       ELSE rows[h]],
                  IF lost = {} THEN Nothing
                  ELSE RevocationOf(CHOOSE h \in lost : TRUE, TRUE))

Activated(row) ==
    IF row.state = "TAKING_OVER" /\ row.robot_ready /\ row.controller_streaming
    THEN [row EXCEPT !.state = "ACTIVE"] ELSE row

TakeOverRequested(m) ==
    /\ rows[m.handle].state \in {"ASSIGNED", "TAKING_OVER"}
    /\ Decide(Becomes(m.handle, "TAKING_OVER"),
              Only(Robot, <<Command("take_over", m.handle, rows[m.handle].left, m.request)>>))

RobotReady(m) ==
    LET row == [rows[m.handle] EXCEPT !.robot_ready = TRUE,
                  !.state = IF @ = "ASSIGNED" THEN "TAKING_OVER" ELSE @]
    IN  Decide([rows EXCEPT ![m.handle] = Activated(row)],
               Only(row.controller, <<Command("robot_ready", m.handle, row.left, m.request)>>))

ControllerStreaming(m) ==
    Decide([rows EXCEPT ![m.handle] = Activated([@ EXCEPT !.controller_streaming = TRUE])],
           Nothing)

\* Mutant: the Handle is released as soon as the Controller gives it back.
ReleasedAtOnce(m) ==
    /\ rows[m.handle].state \in {"ACTIVE", "HANDING_OVER", "REVOKING"}
    /\ Decide(Becomes(m.handle, "RELEASED"),
              Only(Robot, <<Command("hand_over", m.handle, rows[m.handle].left, 0)>>))

\* Refused before activation, although the Controller has let go already.
HandOverRequested(m) ==
    /\ rows[m.handle].state \in {"ACTIVE", "HANDING_OVER", "REVOKING"}
    /\ Decide(Becomes(m.handle, AskedToEnd[rows[m.handle].state]),
              Only(Robot, <<Command("hand_over", m.handle, rows[m.handle].left, 0)>>))

RobotHolding(m) ==
    Decide(CASE rows[m.handle].state = "HANDING_OVER" -> Becomes(m.handle, "RELEASED")
             [] rows[m.handle].state = "REVOKING" -> Becomes(m.handle, "REVOKED")
             [] OTHER -> rows, Nothing)

Handled(m) ==
    \/ m.kind = "take_over_requested" /\ TakeOverRequested(m)
    \/ m.kind = "robot_ready" /\ RobotReady(m)
    \/ m.kind = "controller_streaming" /\ ControllerStreaming(m)
    \/ m.kind = "hand_over_requested" /\ HandOverRequested(m)
    \/ m.kind = "robot_holding" /\ RobotHolding(m)

Refused(n, m) ==
    \/ ~Heeded(n, m)
    \/ /\ m.kind = "take_over_requested"
       /\ rows[m.handle].state \notin {"ASSIGNED", "TAKING_OVER"}
    \/ /\ m.kind = "hand_over_requested"
       /\ rows[m.handle].state \in {"ASSIGNED", "TAKING_OVER"}

HubReceives(n) ==
    /\ messages[n] # <<>>
    /\ messages' = [messages EXCEPT ![n] = Tail(@)]
    /\ UNCHANGED asked
    /\ LET m == Head(messages[n])
       IN  \/ m.kind = "register" /\ Register(n, m.session)
           \/ /\ m.kind # "register" /\ UNCHANGED registry
              /\ \/ Heeded(n, m) /\ Handled(m)
                 \/ Refused(n, m) /\ UNCHANGED <<rows, commands, missed, arm, source, losses>>

-----------------------------------------------------------------------------
(* Nodes.                                                                  *)

Word(n, kind, h, request) ==
    [kind |-> kind, handle |-> h, request |-> request, session |-> Session(n)]

\* A queue that is full holds the sender up; a send that fails is Lost.
Says(n, said) ==
    /\ Len(messages[n]) + Len(said) <= MaxQueue
    /\ messages' = [messages EXCEPT ![n] = @ \o said]

Quietly(n) == Says(n, <<>>)

\* HOLD that closes the input and keeps the Handle, or gives it up for good.
Parked == [arm EXCEPT !.input = FALSE]
Given == [Parked EXCEPT !.handle = NoHandle, !.left = 0,
                        !.ended = @ \cup ({arm.handle} \ {NoHandle})]

RobotExpired == arm.left = 0

\* What the Robot does with a command.  In SAFETY it refuses a grant, and its
\* receiver may fail to open.
RobotObeys(k) ==
    CASE k.kind = "grant" /\ arm.handle = NoHandle /\ k.handle \notin arm.ended ->
           arm' \in {arm, [arm EXCEPT !.handle = k.handle, !.left = k.left]} /\ Quietly(Robot)
      [] k.kind = "renewal" /\ arm.handle # NoHandle /\ RobotExpired ->
           arm' = Given /\ Quietly(Robot)
      [] k.kind = "renewal" /\ arm.handle = k.handle /\ ~RobotExpired /\ k.left > arm.left ->
           arm' = [arm EXCEPT !.left = k.left] /\ Quietly(Robot)
      [] k.kind = "take_over" /\ arm.handle = k.handle /\ ~RobotExpired ->
           \/ /\ arm' = [arm EXCEPT !.input = TRUE]
              /\ Says(Robot, <<Word(Robot, "robot_ready", k.handle, k.request)>>)
           \/ arm' = Parked /\ Quietly(Robot)
      [] k.kind \in {"hand_over", "revoke"} /\ arm.handle = k.handle ->
           arm' = Given /\ Says(Robot, <<Word(Robot, "robot_holding", k.handle, 0)>>)
      [] k.kind = "force_hold" /\ arm.handle = k.handle ->
           arm' = Parked /\ Quietly(Robot)
      [] OTHER -> UNCHANGED <<arm, messages>>

RobotReceives ==
    /\ commands[Robot] # <<>>
    /\ commands' = [commands EXCEPT ![Robot] = Tail(@)]
    /\ RobotObeys(Head(commands[Robot]))
    /\ UNCHANGED <<registry, rows, source, asked, losses, missed>>

RobotAlone(new) ==
    arm' = new /\ UNCHANGED <<registry, rows, source, commands, messages, asked, losses, missed>>

\* Noticed by the management loop or a control cycle.
RobotExpires == arm.handle # NoHandle /\ RobotExpired /\ RobotAlone(Given)

\* Stale, rejected or missing input, a failing processor or driver, or an
\* operator who forces the Robot to hold.
InputFails == arm.input /\ RobotAlone(Parked)

EnterSafety == arm.handle # NoHandle /\ RobotAlone(Given)

\* A session ends with its Handle and what was sent to it; a new one registers.
Renews(n, session) ==
    /\ losses < MaxLosses /\ losses' = losses + 1
    /\ commands' = [commands EXCEPT ![n] = <<>>]
    /\ messages' = [messages EXCEPT ![n] =
         Append(@, [kind |-> "register", handle |-> NoHandle, request |-> 0,
                    session |-> session + 1])]
    /\ UNCHANGED <<registry, rows, asked, missed>>

RobotLost ==
    /\ Renews(Robot, arm.session)
    /\ arm' = [Given EXCEPT !.session = @ + 1]
    /\ UNCHANGED source

-----------------------------------------------------------------------------
SourceBecomes(c, new) == source' = [source EXCEPT ![c] = new]

Silenced(c) ==
    [source[c] EXCEPT !.control = "IDLE", !.handle = NoHandle, !.left = 0, !.request = 0,
                      !.ended = @ \cup ({source[c].handle} \ {NoHandle})]

SourceExpired(c) == source[c].left = 0

\* A command counts for exactly the Handle that is cached, expiry included.
Matches(c, k) == source[c].handle = k.handle /\ source[c].left = k.left

Asking(c, request) == [source[c] EXCEPT !.control = "TAKING_OVER", !.request = request]

\* What a Controller does with a command.
ControllerObeys(c, k) ==
    CASE k.kind = "grant" /\ k.handle \notin source[c].ended /\ source[c].handle = NoHandle ->
           /\ SourceBecomes(c, [source[c] EXCEPT !.handle = k.handle, !.left = k.left,
                                                 !.control = "IDLE"])
           /\ Quietly(c)
      [] k.kind = "renewal" /\ source[c].handle = k.handle /\ k.left > source[c].left ->
           SourceBecomes(c, [source[c] EXCEPT !.left = k.left]) /\ Quietly(c)
      [] k.kind = "take_over" /\ Matches(c, k) ->
           /\ SourceBecomes(c, Asking(c, k.request))
           /\ Says(c, <<Word(c, "take_over_requested", k.handle, k.request)>>)
      [] k.kind = "robot_ready" /\ Matches(c, k) /\ source[c].request = k.request
           /\ source[c].control = "TAKING_OVER" ->
           IF SourceExpired(c) THEN SourceBecomes(c, Silenced(c)) /\ Quietly(c)
           ELSE /\ SourceBecomes(c, [source[c] EXCEPT !.control = "STREAMING", !.request = 0])
                /\ Says(c, <<Word(c, "controller_streaming", k.handle, 0)>>)
      [] k.kind = "hand_over" /\ Matches(c, k) ->
           /\ SourceBecomes(c, Silenced(c))
           /\ Says(c, <<Word(c, "hand_over_requested", k.handle, 0)>>)
      [] k.kind = "revoke" /\ Matches(c, k) ->
           SourceBecomes(c, Silenced(c)) /\ Quietly(c)
      [] OTHER -> UNCHANGED <<source, messages>>

\* Of two that have expired it is not known whether they are the same renewal.
ControllerReceives(c) ==
    /\ commands[c] # <<>>
    /\ commands' = [commands EXCEPT ![c] = Tail(@)]
    /\ LET k == Head(commands[c])
       IN  \/ ControllerObeys(c, k)
           \/ k.left = 0 /\ UNCHANGED <<source, messages>>
    /\ UNCHANGED <<registry, rows, arm, asked, losses, missed>>

\* take_over and hand_over called in the Controller's process.
TakeOverCall(c) ==
    /\ source[c].handle # NoHandle /\ source[c].control # "STREAMING"
    /\ asked < MaxRequests /\ asked' = asked + 1
    /\ SourceBecomes(c, Asking(c, asked'))
    /\ Says(c, <<Word(c, "take_over_requested", source[c].handle, asked')>>)
    /\ UNCHANGED <<registry, rows, arm, commands, losses, missed>>

HandOverCall(c) ==
    /\ source[c].handle # NoHandle
    /\ SourceBecomes(c, Silenced(c))
    /\ Says(c, <<Word(c, "hand_over_requested", source[c].handle, 0)>>)
    /\ UNCHANGED <<registry, rows, arm, commands, asked, losses, missed>>

\* Noticed by publish, or by the management loop while a stream runs.
ControllerExpires(c) ==
    /\ source[c].handle # NoHandle /\ SourceExpired(c)
    /\ SourceBecomes(c, Silenced(c))
    /\ UNCHANGED <<registry, rows, arm, commands, messages, asked, losses, missed>>

ControllerLost(c) ==
    /\ Renews(c, source[c].session)
    /\ SourceBecomes(c, [Silenced(c) EXCEPT !.session = @ + 1])
    /\ UNCHANGED arm

-----------------------------------------------------------------------------
(* The network and time.                                                   *)

\* A registration is not lost: the Node would only be silent until the next one.
Lose(n) ==
    /\ losses < MaxLosses /\ losses' = losses + 1
    /\ \/ /\ commands[n] # <<>>
          /\ commands' = [commands EXCEPT ![n] = Tail(@)]
          /\ missed' = missed \cup {<<n, Head(commands[n]).handle>>}
          /\ UNCHANGED messages
       \/ /\ messages[n] # <<>> /\ Head(messages[n]).kind # "register"
          /\ messages' = [messages EXCEPT ![n] = Tail(@)]
          /\ missed' = missed \cup {<<n, Head(messages[n]).handle>>}
          /\ UNCHANGED commands
    /\ UNCHANGED <<registry, rows, arm, source, asked>>

Less(x) == IF x.left > 0 THEN [x EXCEPT !.left = @ - 1] ELSE x

Tick ==
    /\ rows' = [h \in HandleIds |-> IF rows[h] = NoRow THEN NoRow ELSE Less(rows[h])]
    /\ arm' = Less(arm)
    /\ source' = [c \in Controllers |-> Less(source[c])]
    /\ commands' = [n \in Nodes |-> [i \in DOMAIN commands[n] |-> Less(commands[n][i])]]
    /\ UNCHANGED <<registry, messages, asked, losses, missed>>

-----------------------------------------------------------------------------
Operator ==
    \/ \E c \in Controllers, h \in HandleIds, delivered \in SUBSET Nodes :
         Assign(c, h, delivered)
    \/ \E h \in Live :
         \/ Renew(h) \/ RequestTakeOver(h) \/ RequestHandOver(h) \/ Fault(h)
         \/ \E automatic \in BOOLEAN : Revoke(h, automatic)

Service == \E h \in Live : Expire(h) \/ (\E n \in Nodes : GrantAgain(h, n))

Local ==
    \/ RobotExpires \/ InputFails \/ EnterSafety \/ RobotLost
    \/ \E c \in Controllers :
         TakeOverCall(c) \/ HandOverCall(c) \/ ControllerExpires(c) \/ ControllerLost(c)

Deliver ==
    \/ \E n \in Nodes : HubReceives(n)
    \/ RobotReceives
    \/ \E c \in Controllers : ControllerReceives(c)

Next == Operator \/ Service \/ Local \/ Deliver \/ (\E n \in Nodes : Lose(n)) \/ Tick

Spec == Init /\ [][Next]_vars

-----------------------------------------------------------------------------
\* Input that may move the Robot is open only under a Handle the Hub has let be
\* taken over and has not ended, except by a fault, of which nobody is told.
InputUnderLiveHandle ==
    arm.input /\ ~RobotExpired =>
        rows[arm.handle].state \notin {"ASSIGNED", "RELEASED", "REVOKED", "EXPIRED"}

\* No Node believes a Handle to be valid longer than the Hub last said, ended
\* or not: time alone closes the input under a Handle whose end nobody is told.
NeverOutlives ==
    /\ arm.handle # NoHandle => arm.left <= rows[arm.handle].left
    /\ \A c \in Controllers : source[c].handle # NoHandle =>
         source[c].left <= rows[source[c].handle].left

\* A Handle is RELEASED only when neither Node has it.
ReleasedMeansSilent ==
    \A h \in HandleIds, c \in Controllers :
        rows[h] # NoRow /\ rows[h].state = "RELEASED" => source[c].handle # h /\ arm.handle # h

\* A Controller streams on under a REVOKED Handle only if it missed a message
\* about it, or the revoke is still on its way: a lost renewal is enough, as the
\* revoke then names another expiry than the one it has cached.
RevokedMeansTold ==
    \A c \in Controllers :
        LET h == source[c].handle
            streams == source[c].control = "STREAMING" /\ ~SourceExpired(c)
        IN  streams /\ rows[h].state = "REVOKED" =>
              \/ <<c, h>> \in missed
              \/ \E i \in DOMAIN commands[c] :
                   commands[c][i].kind = "revoke" /\ commands[c][i].handle = h

\* The Robot may be moved only under a Handle that the Hub has let be taken over
\* and has not ended, and for no longer than the Hub has granted or renewed it.
InputUnderLease == InputUnderLiveHandle /\ NeverOutlives

\* The end of a Handle that the Hub has confirmed has reached both its Nodes.
EndReachesBoth == ReleasedMeansSilent /\ RevokedMeansTold
=============================================================================
