---------------------------- MODULE ZmqSessions ----------------------------
(***************************************************************************)
(* Management sessions over ZeroMQ (zmq_runtime.py, discovery.py, with the  *)
(* registration and heartbeats of the Nodes and of the Hub).  One Node, by   *)
(* its node_id: every time it loses management it opens a new session on a   *)
(* new DEALER, and an older process of the same Node may still hold its own. *)
(* The ROUTER knows the sessions by their identity and sends each message   *)
(* to one of them: every kind but "registered" the way the answer to a         *)
(* heartbeat goes, which stands for them.  The Hub is stopped and started, at *)
(* the same endpoint or another; a Node finds it by its seed or a beacon.    *)
(***************************************************************************)
EXTENDS Naturals, Sequences, FiniteSets

CONSTANTS
    MaxSessions,    \* bound: sessions the Node opens
    MaxStarts,      \* bound: a process of the Node starts with one of the first sessions
    MaxEpochs,      \* bound: starts of the Hub
    MaxDrops,       \* bound: times the latest session's connection is lost, the Hub being up
    missed_acks     \* unanswered heartbeats that end a session, three in the code

VARIABLES
    hub_seed,   \* of the Node, "none" or "home"
    router,     \* ZmqHubChannel and the Hub's registration
    dealer,     \* per session: ZmqNodeChannel
    member,     \* per session: what the Node's process believes
    outbound,   \* per session: messages to the Hub, sent or waiting for a connection
    inbound,    \* per session: messages from the Hub
    process,    \* the Node's latest process: [session, channel]
    drops       \* connections lost so far

vars == <<hub_seed, router, dealer, member, outbound, inbound, process, drops>>

Sessions == 1 .. MaxSessions
Epochs == 1 .. MaxEpochs
Unknown == 0                          \* None: no session, no epoch
Endpoints == {"home", "moved"}

NewRouter(epoch, endpoint) ==
    [up |-> TRUE, epoch |-> epoch, endpoint |-> endpoint,
     identities |-> {}, active |-> Unknown, pending |-> Unknown,
     current |-> Unknown, seen |-> {}]
NewDealer(endpoint, epoch) ==
    [open |-> TRUE, endpoint |-> endpoint, peer |-> Unknown, event |-> FALSE,
     hub_epoch |-> epoch, registered |-> FALSE]
ClosedDealer == [NewDealer("home", Unknown) EXCEPT !.open = FALSE]
NewMember == [hub_epoch |-> Unknown, registering |-> TRUE, beat |-> FALSE, missed |-> 0]

TypeOK ==
    /\ hub_seed \in {"none", "home"}
    /\ router \in [up : BOOLEAN, epoch : 0 .. MaxEpochs, endpoint : Endpoints,
                   identities : SUBSET Sessions, active : 0 .. MaxSessions,
                   pending : 0 .. MaxSessions, current : 0 .. MaxSessions,
                   seen : SUBSET Sessions]
    /\ dealer \in [Sessions -> [open : BOOLEAN, endpoint : Endpoints, peer : 0 .. MaxEpochs,
                                event : BOOLEAN, hub_epoch : 0 .. MaxEpochs,
                                registered : BOOLEAN]]
    /\ member \in [Sessions -> [hub_epoch : 0 .. MaxEpochs, registering : BOOLEAN,
                                beat : BOOLEAN, missed : 0 .. missed_acks]]
    /\ \A s \in Sessions :
         /\ \A i \in DOMAIN outbound[s] : outbound[s][i] \in {"register", "heartbeat"}
         /\ \A i \in DOMAIN inbound[s] :
              inbound[s][i] \in [kind : {"registered", "heartbeat_ack"},
                                 epoch : Epochs]
    /\ process \in [session : 0 .. MaxSessions, channel : {"none", "open", "lost", "dead"}]
    /\ drops \in 0 .. MaxDrops

Init ==
    /\ hub_seed \in {"none", "home"}
    /\ router = [NewRouter(0, "home") EXCEPT !.up = FALSE]
    /\ dealer = [s \in Sessions |-> ClosedDealer]
    /\ member = [s \in Sessions |-> NewMember]
    /\ outbound = [s \in Sessions |-> <<>>]
    /\ inbound = [s \in Sessions |-> <<>>]
    /\ process = [session |-> 0, channel |-> "none"]
    /\ drops = 0

Linked(s) == router.up /\ dealer[s].open /\ dealer[s].peer = router.epoch
Live == process.session

----------------------------------------------------------------------------
(* The Hub's process and the connections.                                  *)

HubStarts ==
    /\ ~router.up /\ router.epoch < MaxEpochs
    /\ \E endpoint \in Endpoints :
         /\ router.epoch = 0 => endpoint = "home"
         /\ router' = NewRouter(router.epoch + 1, endpoint)
    /\ UNCHANGED <<hub_seed, dealer, member, outbound, inbound, process, drops>>

\* The peer is gone: the monitor reports it, and what was sent and not read is
\* lost.  What has arrived stays to be read.
Drop(S) ==
    /\ dealer' = [s \in Sessions |->
                    IF s \in S THEN [dealer[s] EXCEPT !.peer = Unknown, !.event = TRUE]
                               ELSE dealer[s]]
    /\ outbound' = [s \in Sessions |-> IF s \in S THEN <<>> ELSE outbound[s]]

HubStops ==
    /\ router.up /\ router.epoch < MaxEpochs
    /\ router' = [NewRouter(router.epoch, "home") EXCEPT !.up = FALSE]
    /\ Drop({s \in Sessions : Linked(s)})
    /\ UNCHANGED <<hub_seed, member, inbound, process, drops>>

ConnectionLost(s) ==
    /\ s = Live /\ Linked(s) /\ drops < MaxDrops
    /\ Drop({s})
    /\ drops' = drops + 1
    /\ UNCHANGED <<hub_seed, router, member, inbound, process>>

\* ZeroMQ connects, and connects again, by itself.
Connects(s) ==
    /\ dealer[s].open /\ dealer[s].peer = Unknown
    /\ router.up /\ dealer[s].endpoint = router.endpoint
    /\ dealer' = [dealer EXCEPT ![s].peer = router.epoch]
    /\ UNCHANGED <<hub_seed, router, member, outbound, inbound, process, drops>>

----------------------------------------------------------------------------
(* ZmqHubChannel and what the Hub does with a message.                      *)

\* send(): the session a message of this kind goes to.
Route(r, kind) == IF kind = "registered" /\ r.pending # Unknown THEN r.pending ELSE r.active

\* send() succeeds when that session's identity is known and connected; after a
\* "registered" the session is the active one.  gone: sessions whose connection
\* was lost since the message was received.
Send(r, kind, gone) ==
    LET to == Route(r, kind)
        sent == to \in r.identities \ gone /\ Linked(to)
        message == [kind |-> kind, epoch |-> r.epoch]
    IN /\ inbound' = IF sent THEN [inbound EXCEPT ![to] = Append(@, message)] ELSE inbound
       /\ router' = IF sent /\ kind = "registered"
                    THEN [r EXCEPT !.active = to, !.pending = Unknown]
                    ELSE r

\* Mutant: the session that sent last is the active one.
LastSenderActive(s, kind) ==
    [router EXCEPT !.identities = @ \cup {s}, !.active = s,
                   !.pending = IF kind = "register" THEN s ELSE @]

\* receive() notes the identity and, of a registration, its session.
Noted(s, kind) ==
    [router EXCEPT !.identities = @ \cup {s},
                   !.pending = IF kind = "register" THEN s ELSE @]

\* register(): a session the Hub has known and replaced does not come back.
\* _dispatch: anything else is only for the current session.  The sender may be
\* gone before the answer is sent.
HubReceives(s) ==
    /\ Linked(s) /\ outbound[s] # <<>>
    /\ LET kind == Head(outbound[s])
           noted == Noted(s, kind)
           stale == s \in router.seen /\ router.current # s
           Handled(gone) ==
             \/ /\ kind = "register" /\ ~stale
                /\ Send([noted EXCEPT !.current = s, !.seen = @ \cup {s}], "registered", gone)
             \/ /\ kind = "heartbeat" /\ router.current = s
                /\ Send(noted, "heartbeat_ack", gone)
             \/ /\ IF kind = "register" THEN stale ELSE router.current # s
                /\ router' = noted
                /\ UNCHANGED inbound
       IN \/ /\ Handled({})
             /\ outbound' = [outbound EXCEPT ![s] = Tail(@)]
             /\ UNCHANGED <<dealer, drops>>
          \/ /\ s = Live /\ drops < MaxDrops
             /\ Handled({s})
             /\ Drop({s})
             /\ drops' = drops + 1
    /\ UNCHANGED <<hub_seed, member, process>>

----------------------------------------------------------------------------
(* Discovery.                                                              *)

\* _resolve_endpoint: the seed, if it is preferred and answers; else a beacon
\* heard within a second, or the seed without knowing its epoch, or nothing.
Beacon == IF router.up THEN {[endpoint |-> router.endpoint, epoch |-> router.epoch]} ELSE {}
Seed == IF hub_seed = "home" THEN {[endpoint |-> "home", epoch |-> Unknown]} ELSE {}
SeedReady == hub_seed = "home" /\ router.up /\ router.endpoint = "home"
Resolve(prefer_seed) ==
    IF prefer_seed /\ SeedReady THEN Seed ELSE Beacon \cup Seed
\* Without a seed the beacon may not be heard: the resolver raises.
MayFindNothing == hub_seed = "none"

----------------------------------------------------------------------------
(* The Node.                                                               *)

\* A process starts, the first or one next to an older one that still runs.
NodeStarts ==
    /\ Live < MaxStarts /\ process.channel \in {"none", "open", "dead"}
    /\ \A s \in 1 .. Live - 1 : ~dealer[s].open
    /\ \E found \in Resolve(TRUE) :
         /\ dealer' = [dealer EXCEPT ![Live + 1] = NewDealer(found.endpoint, found.epoch)]
         /\ outbound' = [outbound EXCEPT ![Live + 1] = <<"register">>]
    /\ process' = [session |-> Live + 1, channel |-> "open"]
    /\ UNCHANGED <<hub_seed, router, member, inbound, drops>>

\* The older process ends.
OlderEnds(s) ==
    /\ s < Live /\ dealer[s].open
    /\ dealer' = [dealer EXCEPT ![s] = ClosedDealer]
    /\ member' = [member EXCEPT ![s] = NewMember]
    /\ outbound' = [outbound EXCEPT ![s] = <<>>]
    /\ inbound' = [inbound EXCEPT ![s] = <<>>]
    /\ UNCHANGED <<hub_seed, router, process, drops>>

\* _management_lost_locked: the channel is closed.  A new session is opened if
\* the Hub is found.  Otherwise a Robot, "lost", tries again in every iteration; a
\* Controller's management thread ends with the exception, "dead".
ManagementLost(s) ==
    LET closedDealer == [dealer EXCEPT ![s] = ClosedDealer]
        silent == [outbound EXCEPT ![s] = <<>>]
    IN /\ inbound' = [inbound EXCEPT ![s] = <<>>]
       /\ member' = [member EXCEPT ![s] = NewMember]
       /\ \/ /\ MayFindNothing
             /\ dealer' = closedDealer
             /\ outbound' = silent
             /\ \E ended \in {"lost", "dead"} : process' = [process EXCEPT !.channel = ended]
          \/ /\ Live < MaxSessions
             /\ \E found \in Resolve(TRUE) :
                  /\ dealer' = [closedDealer EXCEPT ![s + 1] =
                                  NewDealer(found.endpoint, found.epoch)]
                  /\ outbound' = [silent EXCEPT ![s + 1] = <<"register">>]
             /\ process' = [session |-> s + 1, channel |-> "open"]
       /\ UNCHANGED <<hub_seed, router, drops>>

\* _attempt_reconnect_locked, in an iteration of the Robot without a channel.
RobotReconnects ==
    /\ process.channel = "lost" /\ Live < MaxSessions
    /\ \E found \in Resolve(TRUE) :
         /\ dealer' = [dealer EXCEPT ![Live + 1] = NewDealer(found.endpoint, found.epoch)]
         /\ outbound' = [outbound EXCEPT ![Live + 1] = <<"register">>]
    /\ process' = [session |-> Live + 1, channel |-> "open"]
    /\ UNCHANGED <<hub_seed, router, member, inbound, drops>>

\* Mutant: the new socket keeps the registration of the old one.
RediscoveredStillRegistered(s, found) ==
    IF found.endpoint = dealer[s].endpoint /\ found.epoch = dealer[s].hub_epoch
    THEN /\ dealer' = [dealer EXCEPT ![s].event = FALSE]
         /\ UNCHANGED <<outbound, inbound>>
    ELSE /\ dealer' = [dealer EXCEPT ![s] = [NewDealer(found.endpoint, found.epoch)
                                               EXCEPT !.registered = dealer[s].registered]]
         /\ outbound' = [outbound EXCEPT ![s] = <<>>]
         /\ inbound' = [inbound EXCEPT ![s] = <<>>]

\* rediscover() with what the resolver found: the same Hub keeps the socket, any
\* other replaces it and has to register the Node first.
Rediscovered(s, found) ==
    IF found.endpoint = dealer[s].endpoint /\ found.epoch = dealer[s].hub_epoch
    THEN /\ dealer' = [dealer EXCEPT ![s].event = FALSE]
         /\ UNCHANGED <<outbound, inbound>>
    ELSE /\ dealer' = [dealer EXCEPT ![s] = NewDealer(found.endpoint, found.epoch)]
         /\ outbound' = [outbound EXCEPT ![s] = <<>>]
         /\ inbound' = [inbound EXCEPT ![s] = <<>>]

\* receive() after the monitor reported a disconnect.  When nothing is found the
\* exception leaves receive(): the Robot's loop takes it for a loss, the
\* Controller's thread ends with its channel open.
Rediscover(s) ==
    /\ dealer[s].open /\ dealer[s].event
    /\ s = Live => process.channel = "open"
    /\ \/ /\ \E found \in Resolve(FALSE) : Rediscovered(s, found)
          /\ UNCHANGED <<hub_seed, router, member, process, drops>>
       \/ /\ s = Live /\ MayFindNothing
          /\ \/ ManagementLost(s)
             \/ /\ process' = [process EXCEPT !.channel = "dead"]
                /\ dealer' = [dealer EXCEPT ![s].event = FALSE]
                /\ UNCHANGED <<hub_seed, router, member, outbound, inbound, drops>>

\* receive(): the channel passes on a registration by the Hub it expects, and
\* after it only messages of that Hub's session.
Passes(s, m) ==
    IF ~dealer[s].registered
    THEN m.kind = "registered" /\ dealer[s].hub_epoch \in {Unknown, m.epoch}
    ELSE m.epoch = dealer[s].hub_epoch

\* receive_management: the registration it asked for, and the answer to the
\* heartbeat it waits for.
Taken(s, m) ==
    CASE m.kind = "registered" /\ member[s].registering ->
            [member[s] EXCEPT !.hub_epoch = m.epoch, !.registering = FALSE]
      [] m.kind = "heartbeat_ack" /\ m.epoch = member[s].hub_epoch ->
            [member[s] EXCEPT !.beat = FALSE, !.missed = 0]
      [] OTHER -> member[s]

Receive(s) ==
    /\ dealer[s].open /\ ~dealer[s].event /\ inbound[s] # <<>>
    /\ s = Live => process.channel = "open"
    /\ LET m == Head(inbound[s])
       IN IF Passes(s, m)
          THEN /\ dealer' = [dealer EXCEPT ![s].registered = TRUE, ![s].hub_epoch = m.epoch]
               /\ member' = [member EXCEPT ![s] = Taken(s, m)]
          ELSE UNCHANGED <<dealer, member>>
    /\ inbound' = [inbound EXCEPT ![s] = Tail(@)]
    /\ UNCHANGED <<hub_seed, router, outbound, process, drops>>

\* Answers take less than an interval: one is missing only when it is not on its way.
OnItsWay(s) == inbound[s] # <<>> \/ (Linked(s) /\ outbound[s] # <<>>)

\* Mutant: unanswered heartbeats are not counted.
HeartbeatsUncounted(s) ==
    /\ dealer[s].open /\ ~dealer[s].event /\ ~OnItsWay(s) /\ ~member[s].beat
    /\ s = Live => process.channel = "open"
    /\ member' = [member EXCEPT ![s].beat = TRUE]
    /\ outbound' = [outbound EXCEPT ![s] = Append(@, "heartbeat")]
    /\ UNCHANGED <<hub_seed, router, dealer, inbound, process, drops>>

\* run_management_once, its heartbeat; an older process is not followed past its
\* first unanswered one.
Heartbeat(s) ==
    /\ dealer[s].open /\ ~dealer[s].event /\ ~OnItsWay(s)
    /\ IF s = Live THEN process.channel = "open" ELSE ~member[s].beat
    /\ IF member[s].beat /\ member[s].missed + 1 >= missed_acks
       THEN ManagementLost(s)
       ELSE /\ member' = [member EXCEPT ![s].beat = TRUE,
                                        ![s].missed = IF member[s].beat THEN @ + 1 ELSE @]
            /\ outbound' = [outbound EXCEPT ![s] = Append(@, "heartbeat")]
            /\ UNCHANGED <<hub_seed, router, dealer, inbound, process, drops>>

----------------------------------------------------------------------------
\* What runs by itself for the latest session: the Hub's service loop, which the
\* ROUTER feeds from its peers in turn, the transport, and the Node's own loop.
Progress ==
    \/ RobotReconnects
    \/ /\ Live # 0
       /\ \/ HubReceives(Live) \/ Connects(Live)
          \/ Rediscover(Live) \/ Receive(Live) \/ Heartbeat(Live)

Next ==
    \/ HubStarts \/ HubStops \/ NodeStarts \/ RobotReconnects
    \/ \E s \in Sessions :
         \/ ConnectionLost(s) \/ Connects(s) \/ HubReceives(s)
         \/ OlderEnds(s) \/ Rediscover(s) \/ Receive(s) \/ Heartbeat(s)

Spec == Init /\ [][Next]_vars
FairSpec == Spec /\ WF_vars(Progress)

----------------------------------------------------------------------------
\* Messages go to the session the Hub has registered, never to an older one that
\* still sends, except while the answer to the newer one's registration could
\* not be delivered.
RouteFollowsRegistration ==
    router.up /\ router.active \notin {Unknown, router.current} =>
        router.pending = router.current

\* Once a channel lets messages through, they are of the Hub the Node's process
\* has registered with: no socket it is replaced by brings another's.
EpochPinned ==
    \A s \in Sessions :
        dealer[s].open /\ dealer[s].registered => member[s].hub_epoch = dealer[s].hub_epoch

\* A Node that lost the Hub registers with it again, if it finds it: not the
\* Controller whose thread ended, nor a Node that has no session left here.
Settled ==
    /\ process.channel = "open" /\ router.current = Live
    /\ member[Live].hub_epoch = router.epoch
Adrift ==
    /\ router.up /\ process.channel \in {"open", "lost"} /\ Live \in 1 .. MaxSessions - 1
    /\ ~Settled
=============================================================================
