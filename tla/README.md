# Specifications of the lekit Control Hub

`lekit` drives robot arms from teleoperation devices and from policies. What
decides whether a Robot moves, and on whose behalf, is the package
`src/src/lekit/control`: a Hub process that grants authority over Robots, one
process per Robot and one per Controller, and the transport between them. A
grant is a *Handle*. These modules specify that package: how a Handle is minted,
stored, renewed, taken over, handed over, revoked and expired, and how the three
processes react to each other, to time, to lost messages and to crashes.

Below and beside that package are the parts that move an arm: the JAKA adapter,
whose Servo stream runs in a thread or in a process of its own; teleoperation with
an XR controller, managed by the Hub or not; programs that let a remote policy act;
the dashboard and the loops that record episodes. They are where threads share
state without a protocol, and the second half of the modules is about them.

Source paths below are relative to `src/src/lekit/`, those beginning with
`examples/` to `src/`; the design document is
`src/docs/superpowers/specs/2026-08-27-control-hub-design.md`.

## The system

| Component | State it keeps | Operations | Interacts with |
|---|---|---|---|
| Handle model (`control/handles.py`, `control/model.py`) | none | apply a transition; list the mismatches between the desired state and two reports | used by Hub and store |
| Hub store (`control/store.py`) | SQLite tables: epochs, fencing counters, Handles, their history (and nodes, audit, snapshots, which are only written) | begin an epoch, expire earlier epochs, create, renew, transition | called by Hub; each call is one transaction |
| Hub (`control/hub.py`) | registry of sessions, live Handles with acknowledgement flags, undelivered grants, outstanding commands, snapshot | register, reports, lifecycle messages, operator calls, service tick | messages to and from Nodes under one lock; store calls; web API calls |
| Robot Node (`control/robot.py`) | session, cached Handle, control state, action receiver, latched stream | management commands, control cycle, SAFETY, HOLD | management thread, control thread, processor callback, Hub, Controller's frames |
| Controller Node (`control/controller.py`) | session, cached Handle, stream, take-over request | management commands, `take_over`, `publish`, `hand_over` | Hub, Robot's receiver, action source thread |
| ZeroMQ and in-memory runtimes (`control/zmq_runtime.py`, `control/memory_runtime.py`) | sockets, peer routes, inboxes, action slots | open, send, receive, close | carry messages and frames |
| Discovery, web, CLI, video (`control/discovery.py`, `web.py`, `cli.py`, `video.py`) | beacon being sent; HTTP clients; latest frame | adapters; a Node finds its Hub | Hub, ZeroMQ runtime |
| Isaac teleoperation (`teleoperators/isaac_teleop`) | XR session, engage edge detector, latest frame, subscriber, clutch | `update`, `poll`, pose mapping | Controller Node, teleoperation scripts |
| Piper (`robots/piper`, `scripts/teleop.py`) | pose clutch, authority of the processor, hold | `action`, `reset`, `send_action`, hold | Robot Node, or the script |
| JAKA (`robots/jaka_robot`) | SDK session, Servo Move, sender thread or owner process with request and response queues, latest target | `connect`, `servo_enable`, `send_action`, `disconnect` | its callers; the controller box |
| XR recording (`examples/isaac_teleop_to_jaka/record.py`, `xr.py`) | clutch and head anchor, hold latch, buttons, take in the buffer, saved episodes | keyboard, buttons, the control loop, teardown | JAKA adapter, dataset |
| Policy client, proxy and server (`tools/policy_client.py`, `proxy.py`, `policy_server.py`) | buffer of predicted actions by timestep, observation to send, request in flight | `require_action`, `reset`, `switch_policy`, the request thread | server over ZeroMQ; the loop that plays the actions |
| Inference and recording programs (`tools/infer.py`, `scripts/lerobot_record.py`, `examples/isaac_teleop_to_jaka/infer.py`) | keyboard events, episode, buffer, gripper gate | loop, reset, stop callback | robot, policy, dataset |
| Dashboard (`scripts/dashboard.py`, `dashboard_textual.py`) | one dictionary: status, task, batch index, answers | key handlers, task pipeline | robot, proxy |
| Dataset tools, training, visualisation (`tools/ds_version_convert`, `scripts/train_*`, `utils`) | files, tensors | batch programs | none of the above |

What makes it hard:

* **Interleaving inside the Robot.** The control cycle reads a frame under the
  lock, runs the payload processor and reads an observation *without* it, and
  takes the lock again to send. Revocation, expiry, SAFETY, loss of the
  session, even a whole new take-over may fall in between (`robot.py:430-550`).
* **Three clocks of authority.** Hub, Robot and Controller each expire the same
  Handle, from messages that are delayed, lost or repeated.
* **Failure in the middle of a handler.** An answer that cannot be sent gives up
  the session inside the very handler that wanted to answer (`robot.py:1144`).
* **Crashes between transactions** of the store (`hub.py:205-207`).
* **Sessions that replace each other** while Handles, commands and reports of
  the old one are still on their way (`hub.py:240`).
* **Threads and processes that outlive what started them**: a sender thread stuck
  in the SDK, an owner process whose adapter died, a request whose answer comes
  after the call timed out (`robots/jaka_robot/jaka_robot.py:1579`, `:1686`).
* **Check, then write.** The dashboard's key handlers look at the status without
  the lock and write afterwards (`scripts/dashboard.py:701`); the proxy offers an
  observation while another is being taken (`tools/proxy.py:166`); a client is
  reset with a request in flight (`tools/policy_client.py:151`).
* **Edges that must not be lost or counted twice**: a squeeze, a button, a key that
  falls together with a reset, a lost session or the end of a take.

What makes each part correct:

* *Store*: authority is exclusive, fenced by rising tokens, never revived,
  never carried across a Hub epoch, and its history is a lawful life.
* *Robot*: no motion except under the unexpired Handle of this session, with a
  fresh frame of the latched stream, from the receiver of the latest take-over;
  SAFETY and HOLD stop it; "holding" is said only of authority given up.
* *Controller*: no frame except under its Handle; one stream per take-over
  request; nothing after it said it released.
* *Hub*: a Handle binds present sessions, becomes ACTIVE only on both
  acknowledgements, is exclusive, and a revocation ends.
* *Runtimes*: what was accepted arrives, in order unless coalesced; a `close()` that
  returned has released what it closed; closing threads return.
* *Teleoperation*: no jump (a target starts where the arm was when the squeeze
  began), no motion without a squeeze, no take-over without a release, a saved
  episode is one take, teardown leaves the arm stopped.
* *JAKA adapter*: nothing is streamed behind the adapter's back, an answer belongs
  to its request, Servo Move is left whenever the caller lets go, falls silent or dies.
* *Policy programs*: an action is played at the timestep and in the episode it was
  predicted for; the loop that waits is served; stop lets go of the arm.
* *Dashboard and episode loops*: the running task is the confirmed one under its own
  policy; an abort ends it as aborted; the dashboard keeps taking keys; only the
  take the operator meant is thrown away; quit ends the program.

## Modules

| Module | Models | Lines of code it stands for |
|---|---|---|
| `ControlModel` | lifecycle table, transition rule, mismatch rule | `handles.py`, enums of `model.py` |
| `HandleAuthority` | abstract promise: exclusive, fenced grants | none: it is the specification `HandleStore` implements |
| `HandleStore` | the SQLite file and the life of the Hub process | `store.py`, the start sequence of `hub.py` |
| `HandleStore_proofs` | its theorems | |
| `RobotNode` | a Robot process | `robot.py`, `receive_latest` of both runtimes |
| `RobotNode_proofs` | its theorems | |
| `ControllerNode` | a Controller process | `controller.py` |
| `ControllerNode_proofs` | its theorems | |
| `Hub` | the Hub process | `hub.py` |
| `Hub_proofs` | its theorems | |
| `ControlSystem` | Hub, Robot Node and Controller Nodes over channels that delay and lose | `hub.py`, `robot.py`, `controller.py` |
| `ControlSystem_proofs` | its theorems | |
| `MemoryRuntime` | the in-process runtime's inbox and action slots | `memory_runtime.py` |
| `ZmqChannels` | ownership and closing of ZeroMQ contexts, runtimes and channels | `zmq_runtime.py` |
| `ZmqSessions` | registration, session routes and rediscovery over ZeroMQ | `zmq_runtime.py`, `discovery.py`, `robot.py`, `hub.py` |
| `XrRecord` | recording a JAKA arm with an XR controller | `examples/isaac_teleop_to_jaka/record.py`, `xr.py` |
| `PiperTeleop` | moving a Piper, by the script or under an engage gate and a Handle | `teleoperators/isaac_teleop/*`, `robots/piper/*`, `scripts/teleop.py` |
| `Teleoperation` | the five above as parts of one specification | |
| `Teleoperation_proofs` | its theorems | |
| `JakaServo` | the JAKA adapter with a sender thread | `robots/jaka_robot/jaka_robot.py` |
| `JakaProcess` | the JAKA adapter with an owner process | `robots/jaka_robot/jaka_robot.py` |
| `JakaRobot` | the adapter, whose configuration chooses between them | `robots/jaka_robot/jaka_robot.py` |
| `PolicyProxy` | a JAKA arm under a remote policy | `tools/proxy.py`, `policy_server.py`, `examples/isaac_teleop_to_jaka/infer.py` |
| `PolicyGripper` | the gripper gate of that program | `examples/isaac_teleop_to_jaka/infer.py` |
| `Coordinator` | the multi-task dashboard | `scripts/dashboard.py` |
| `PolicyEpisodes` | the loops over recorded and inferred episodes with the policy client | `scripts/lerobot_record.py`, `tools/infer.py`, `policy_client.py` |
| `RobotPrograms` | adapter and programs as parts of one specification | |
| `RobotPrograms_proofs` | its theorems | |
| `MC...` | instances for TLC | |

`PROJECT.json` gives the lines of every definition.

### HandleStore

`rows`, `fencing`, `transitions` and `epoch` are the tables; `phase` is the Hub
process. One SQLite transaction is one action, because `HubStore` holds its lock
and a `BEGIN IMMEDIATE` transaction throughout. `Crash` may fall between any two;
a start that died between `BeginEpoch` and `InvalidatePreviousEpochs` is followed
by another start, which must clean up after both. Callers choose sequence numbers
freely: the store must not rely on the Hub choosing well. A refused call leaves the
database as it was and is therefore not an action.

### RobotNode

The lock of `RobotNode` makes every handler one action. The control cycle is two:
`TakeFrame` (first phase) leaves a `cycle` behind, and exactly one of
`SendAction`, `DropAction`, `ProcessorDeclines` finishes it. The counter
`_authority_generation` only grows, so what matters of it is whether it has moved:
`cycle.current`. `EnterHold` is `_enter_hold_locked`, with `fails` for a
processor reset, hold callback or receiver close that raises. `delivered` and
`count` say how many of a handler's answers leave the node; the first that does
not runs `_management_lost_locked`, which is `LoseManagement`.

A Handle is an *authority* (id, epoch, session, Controller, token) with an expiry.
The environment may send any command for any authority of the constant
`Authorities`, at any time, as often as it likes; the node's sequence filter is
modelled, and numbers are drawn freely below a bound.

`StampOnArrival` is the one difference between the runtimes that matters here:
the in-memory runtime stamps a frame when it arrives, ZeroMQ when it is taken.
`motion` and `sent` are what the last step did to the outside, and `parked`
remembers how many receivers had been opened when a HOLD last closed the input;
they are observers and no guard reads them.

Left out: callbacks that call back into the node from its own thread, observation
sinks, the contents of status messages, Robots that are not `control_enabled`.
All causes of a lost session are one action, `ManagementLost`: counting missed
heartbeats adds nothing to what may happen next.

### ControllerNode

Again one lock and one action per method. `request` stands for the correlation id
a take-over waits for, `stream` for the stream session id. `defer` is the option
`defer_take_over_until_first_action`. Unlike the Robot, the Controller compares
the *whole* Handle of a command, expiry included, with the cached one
(`controller.py:485`): the consequence, that a lost renewal makes it deaf to
`revoke` until its Handle expires, is part of the model.

### Hub

Operator calls, messages and the service tick run under one lock: one action each.
`nodes` is the registry, `handles` the Handles. The row in the database and the
process's copy always agree, so there is one record of each; the database itself
is the subject of `HandleStore`. Commands are represented by what the Hub remembers
of them: `granting` (grants delivered, not yet acknowledged) and `pending`
(grants to deliver again). Time is counted down in `left`. `ServiceTick` chooses
which Nodes are overdue, which renewals are due, which Handles were activated
recently, and whom a message reaches. Reports are drawn from two constants.

Simplifications: `DEGRADED` stands for "degraded with an error text", the only
degraded state the code treats differently; `force_hold` sends a command
and records nothing that decides anything; the automatic route (off by default)
only calls `assign`. A Node whose grant was never delivered does not
speak of the Handle.

### ControlSystem

The three processes in one state space. A step keeps what another process can tell:
`rows` is the Hub's view of each Handle, `arm` and `source` what the Nodes hold of
one, `commands` and `messages` a queue per Node and direction. A message is lost from
the head of a queue, by a session that was replaced (the Hub sends to the session it
knows, `registry`), or because the queue is full; `missed` remembers whom a message
about which Handle never reached, and no guard reads it. The validity of a Handle is
counted down in every copy alike, in a command under way too, so that two copies of one
Handle are equal (`controller.py:485`) when their validities are.

Left out, because no other process can tell or because it only repeats what is there:
acknowledgements, heartbeats and status reports (their effect on a Handle is that the
Hub may at any time revoke it of its own accord, or end it by a fault), frames, and the
Robot's SAFETY (a Robot in SAFETY has given its Handle up and refuses grants, and a
Robot may always do both). Hub restarts are in `Hub` and `HandleStore`.

Two things the composition shows that no part does. After a lost renewal a Controller
ignores the revoke and streams on, under a Handle the Hub calls REVOKED: `EndReachesBoth`
says that exactly a lost message explains it, and `InputUnderLease` that the Robot does
not listen to it. And nobody is told of a FAULT: only its validity ends the input it
left open (`NeverOutlives`).

### Teleoperation: MemoryRuntime, ZmqChannels, ZmqSessions, XrRecord, PiperTeleop

`Teleoperation` has a variable `part`: a behaviour is one of any of its five parts,
whose variables are disjoint, and its properties say what the parts owe in common.
The parts do not run in one process; they are checked together because they answer
the same questions.

*MemoryRuntime.* `inbox` is the Hub's queue with the message each sender left in it;
heartbeats and status replace an older one of the same sender in place
(`memory_runtime.py:38`). `slots` are the action slots, which publisher and receiver
of an endpoint share; `held` is what the parties still hold of them.

*ZmqChannels.* A context is owned by what opened it; every close is three steps
(claim, release outside the lock, forget) of the thread that closes, as in the
code, and a receiver's close waits for a decode in flight in another thread
(`zmq_runtime.py:336`).

*ZmqSessions.* One Node, by its `node_id`. `router` is `ZmqHubChannel` with what the Hub
knows of the Node's sessions, `dealer` each session's `ZmqNodeChannel`, `member` what the
Node's process believes, `outbound` and `inbound` the messages under way. A connection
breaks, the Hub stops and starts at the same endpoint or another, an older process of the
Node goes on sending. `registered` goes to the session that asked; every other kind goes
where the answer to a heartbeat goes, which stands for them. The resolver finds a beacon,
a seed, or nothing. Heartbeats are answered within their interval: one counts as
missed only when its answer is not under way.

*XrRecord.* One iteration of the control loop is `Observe`, then the phases in the
order of `record.py`: reset, toggle, trigger, clutch, motion, frame, end of
episode. `clutch` holds the state of the hand with its reference, `hold` the latch
that keeps the arm where a release left it, `data` the takes in buffer and in the
dataset. Signals raise `KeyboardInterrupt` in the teardown too, as a second
SIGINT does.

*PiperTeleop.* `xr` is the session and what tracking says, `gate` the engage authority, `sub`
the subscriber with its latest-only `wire`, `proc` the payload processor. With
`managed`, Handles come and go and the Robot Node holds and resets the processor;
without, `script` is the loop of `scripts/teleop.py` and its teardown.

### JakaRobot: JakaServo and JakaProcess

`JakaServo` is the adapter with a sender thread: `caller` is where a public
operation is, `servo` the session's flags, `sender` each thread ever started, `arm`
the controller. SDK calls run under `_sdk_lock`, may fail, and a sender may be stuck
in one. `JakaProcess` has the owner process instead: `parent` is the operation in
the adapter, `child` each process ever started, `event` the multiprocessing events, `reqs`
and `resps` the two queues; the parent may time out and leave a late answer, be
killed, or terminate a child that hangs. `age` counts watchdog ticks since the last
target. `watchdog` says whether `servo_target_timeout_s` is set: by default it is not, and
then a sender thread repeats its last target for ever. The owner process always has
`servo_process_parent_timeout_s`, a positive number that bounds the age of the very same
target (`jaka_robot.py:427`), so there the configuration makes no difference.

### Robot programs: PolicyProxy, PolicyGripper, Coordinator, PolicyEpisodes

`RobotPrograms` has a `part` too: the adapter or one of the programs.

*PolicyProxy.* `main` is the loop (observe, reset, decide, act), `thread` the request
thread, `proxy` what they share, `keys` and `stopper` the keyboard listener with its
stop callback, which lets go of the arm in its own thread if the arm is connected.
`robot` says whether it still holds the SDK (`open`) and whether its cameras and its
Servo owner are there (`whole`): `is_connected` is both. An observation is its timestep
and the *era* (the number of resets) it was taken in; the buffer holds, per timestep, the
observations its action was predicted from. `robot.era` is what an action ought to match.

*PolicyGripper.* Three positions; a command that raises may have moved the gripper.

*Coordinator.* `state` is the shared dictionary, `job` the main loop with what it
took from it, `key` a handler between its check and its writes. An answer carries the
question it was given to (`answered`), so that an answer to an earlier question can
be told apart. `requested` says whether the proxy has asked since it started: a switch of policy
joins its thread, which a lost answer keeps for ever, and so may the wait for an action
(`blocked`). `lagging` records that a handler wrote over a status other than the
one it had looked at, `derailed` that a batch was left in the middle.

*PolicyEpisodes.* The recorder and the inference program have the same outer loop;
`program` says what acts. A take is one call of the loop that records. `crossed`
records that the client was reset with a request pending or under way. A request may
be answered, answered with nothing that decodes (`dead`), or never (`lost`).

## What is model-checked

Every run ends within three and a half minutes on two workers.

| Run | Question | Bounds and why they suffice |
|---|---|---|
| `handle_store` | Do `ExclusiveLive`, `FencingOrders`, `HistoryLawful`, `NoEarlierEpochAuthority`, `EndedForGood` hold whatever is called in whatever order, and is the database an implementation of `HandleAuthority`? | two Robots, two Controllers, two Handles (every pairing conflict), three epochs after the constructor's, so that a start can die halfway and be followed by another that must skip an epoch; sequence numbers to 2 for stale, equal and new ones. Ids are symmetric. |
| `robot_node` | Is every motion authorised, fresh and preceded by a take-over; does the node keep its bookkeeping under every interruption? | two Handles for one session (one supersedes the other) and one for the session after a failed reconnection, in another epoch; four command numbers reach grant, take-over, end and one more; two frame numbers; time to 2 with staleness 1 |
| `controller_node` | Does the Controller stream only under its Handle, one stream per request, in order, and never after releasing? | two Handles of one session on two Robots, one of the next; two requests; two frames; both values of `defer` |
| `hub` | Does a Handle bind present sessions only; is ACTIVE earned; does a revocation end although Nodes may be silent and the operator renews without end? | one Robot and Controller with two sessions each, two epochs (`MaxStarts` leaves the second epoch one session), all kinds of report, one Handle that lives two ticks; fairness below |
| `hub_handles` | Do two Handles ever bind one Node? | two Handles of the same Nodes, one session each: conflicts need no more |
| `control_system` | May the Robot be moved only under a Handle the Hub has let be taken over and not ended, and for no longer than it granted it; has an end the Hub confirmed reached both Nodes? | one Controller and one Handle that lives two ticks (a Handle of another is refused before it matters: `Exclusive`), one request, one message or session lost at any point, queues of two, so that a command can overtake what is still to be answered and a queue can be full |
| `robot_node_zmq` | (violation) is motion fresh with frames stamped when taken? | as `robot_node` |
| `robot_node_safety` | (violation) does SAFETY last until cleared? | as `robot_node` |
| `hub_reassign` | (violation) is a Robot assigned again only after it confirmed? | as `hub_handles` |
| `teleoperation` | Is there ever a jump, a motion without a squeeze, a take-over without a release, a take or press counted twice, a lost or misrouted message, a channel left open, a program or thread that never ends, a Node that stays without its Hub? | one episode of at most two takes, the stop key only (toggle, reset and pause come from the controller's buttons); two XR sessions, presses and Handles: what was, and what replaces it; two peers with an inbox of two, so that it overflows and coalesces; three threads closing one channel whose owner they may be; three sessions of two processes, a Hub restarted once and a connection lost once, one heartbeat instead of three |
| `robot_programs` | Is a robot moved by anything the caller did not mean; is anything left behind; does an answer belong to its question; does what is stopped, silent or waiting end? | two senders, owner processes and requests of the adapter: an old one and a new one; chunks of two actions over five timesteps and one reset, so that a chunk is overtaken, refilled and outdated; two tasks, one rule-based, with batches of none, one, two and unknown tasks; two episodes of one step and two takes |
| `piper_takeover` | (violation) does motion after a loss of tracking need a release and a take-over? | as `teleoperation` |

`CHECK_DEADLOCK FALSE` is set everywhere: clocks, sessions, epochs and message
numbers are bounded, so every instance runs out of steps.

The clock bounds (`MaxTime`, `MaxEpoch`, `MaxSession`, `MaxSequence`, `MaxRequests`,
`MaxFrames`, `MaxFrameSequence`, `MaxTtl`) are bounds of the instances, not of the code.
The guards that hold them are in the actions that open an epoch or a session, make a
request, publish or let time pass, and in the sets the next-state relations draw from.

**Fairness.** `Hub!FairSpec` has weak fairness of `Service`, because
`Hub.run` calls `tick` after every receive and waits at most 100 ms for one
(`hub.py:598-607`), and of `Tick`, because time passes. Nothing is assumed of the
Nodes, the network or the operator, so `RevocationEnds` rests on expiry alone. That
is also why it is interesting: `REVOKING` is the one live state that is not
renewed, and renewing it would let an operator keep it alive for ever.

`Teleoperation` and `RobotPrograms` assume, of the part that runs, weak fairness of
its threads: the loop goes on, the thread beside it (sender, owner process, request
thread, key handler, stop callback, closing thread) does, and time passes. These are
OS threads and processes, and each action stands for a statement they execute
without waiting for anything its guard does not say. Operators, keys, cameras,
networks and the caller of the adapter are not fair: nobody has to press a
key or call again. A policy server answers as long as it lives, but may end at any
point or lose what it was asked (`ServerEnds`, `NoAnswer`, `blocked`), and nothing that
waits for it then is promised to end: neither `recv()` nor the joins have a time-out. A
caller that goes silent is promised an end of Servo only where a watchdog is configured. Each conjunct names its part: the fairness of a part that does
not run would have no behaviour satisfy it, and every liveness property would hold
vacuously.

What a property excuses it names: the *Accounted* properties and the `history`
variables say which failure (a refused SDK call, a killed process, a second
interrupt, a camera that is gone, a key that met another status) accounts for the exception.

Each property has a mutant in `PROJECT.json`: a plausible mistake in the code
(a dropped guard, a token read before it is incremented, one acknowledgement
taken for two ...) under which the property fails in the same run.

## What is proved

For all values of the constants, the `..._proofs` modules prove:

* `TypeCorrect`, in each;
* `AuthorityIsExclusive`, `FencingHolds`, `NoAuthorityFromThePast`, `EndedStaysEnded`,
  `HistoryIsLawful`, and `StoreImplementsAuthority`: any number of Robots,
  Controllers, Handles, epochs, crashes, any clock;
* `AuthorityOfThisSession`, `InputIsGuarded`, `EveryMotionAuthorised`,
  `MotionNeedsTakeOver`, `HoldingReportsAreFinal`: any number of sessions, Handles,
  commands, receivers and frames, with either runtime's stamps;
* `StampedMotionIsFresh`: motion is fresh with a runtime that stamps on arrival;
* `StreamsUnderAuthority`, `EndedHandlesStayEnded`, `FramesLeaveInOrder`,
  `RenewalsNeverShorten`, `OneStreamEach`, `ReleasesAreFinal`: any number of sessions,
  Handles, requests and frames of a Controller;
* `HandlesAreExclusive`, `BoundNodesArePresent`, `ActivityIsEarned`,
  `AuthorityEndsForGood`: any number of Nodes and Handles, Hub restarts, sessions that
  replace each other, and messages lost, repeated or out of order;
* `LeaseHolds`, `EndIsKnown`: any number of Controllers and Handles, any validity, any
  number of losses and length of queues, in every order of what is under way;
* `NoJump`, `OnlyTheOperatorMoves`, `EpisodesAreWhole`, `EndsAreAccounted`,
  `NothingGoesAstray`: any number of takes, XR sessions, squeezes and Handles, of peers,
  messages and slots, of threads and ZeroMQ channels, of Node sessions, Hub starts and
  lost connections;
* `RobotsMoveAsMeant`, `NothingIsLeftBehind`, `WhatComesWasAskedFor`, `MovesOutsideServo`:
  any number of sender threads and owner processes, of requests and answers that come
  late, of tasks, any chunk and threshold of a policy, of timesteps, resets and takes.

*Assumptions.* `BoundsAssumption`, `NoRowAssumption`, `ConstantsAssumption`: the
marks for "nothing" are no values of the sets they mark, bounds are numbers.
`UniqueIdsAssumption`: a Handle id is a UUID and names one authority; without it the
Robot's set of ended authorities, which the code keys by Handle id, would say
nothing. The exclusivity theorem needs no assumption on clocks.

*HandleStore.* Every step changes each row in one of four ways (`RowsStep`): not at
all, moved along a lawful edge, renewed, or minted. `ExclusiveLive` and
`FencingOrders` are inductive together with the types: the guard of
`CreateAssignment` looks at every live row, only a live row can stay live, and the
one token above the counter is new to the Robot. `HistoryLawful` carries its own
strengthening, that the last history row tells the state of the handle's row, so
that an appended entry follows lawfully on what was there. The refinement maps the
live rows to grants; each action is a grant, an end of grants, or a stutter
(`GrantsStep`).

*RobotNode.* No property is inductive alone. The invariant is

    Guarded == AnswerSettled /\ HandleOfThisSession /\ InputNeedsAuthority
                 /\ ReceiverFresh /\ SpeculationSound

`AnswerSettled` says a registered session waits for no answer, so an old
registration cannot change the epoch under a Handle. `ReceiverFresh` orders the
receivers: an open one is the latest opened and newer than the last HOLD.
`SpeculationSound` says what the first phase captured: a frame of the very authority
it captured, from an open receiver. Each handler is shown to keep all five
(`ManagementGuarded`, `LocalGuarded`, `RestGuarded`). In a step that sends, the
guard of the second phase compares the captured authority, receiver and stream with
the current ones, and the invariant says what the current ones are worth: a Handle
of this session and epoch, never given up, a receiver newer than the last HOLD.
That gives `EveryMotionAuthorised` and `MotionNeedsTakeOver`. `StampedMotionIsFresh`
needs only that a frame in the slot or in the cycle carries the instant it arrived.

*ControllerNode.* Every step is one of seven kinds (`StepKinds`): it ends the cached
Handle, keeps it, caches one, renews it, prepares a take-over, starts a stream, or
publishes. The properties are proved of the kinds and not of the twenty-odd handlers. `StreamNeedsAuthority` is inductive
with the types. `FramesInOrder` needs `FramesInv`, that the last frame of the running stream left
under the Handle still cached: only then does a renewal in mid-stream leave its
authority the same. `RenewalsExtend` needs `ExpiryInv`, that a cached
validity is never longer than the Handle's own lifetime from now: a renewal which
arrives late is measured by the local clock (`controller.py:524`), and
without it one could shorten what was cached earlier. `ReleaseIsFinal` is about the
answers of a step in the order they leave; each list of answers is shown to speak
only of Handles in `terminal` (`EndsOnly`), for any prefix that is delivered.

*Hub.* A step either advances every row (`RowsAdvance`: a row keeps its parties,
sessions and epoch, an end is final, a revocation leads only to an end, activity is
earned), starts the next epoch, or assigns, and then all rows but the new one are
untouched (`StepRows`). `Exclusive` follows: only a live row can be
live, and `assign` looked at every one. A restart needs `EpochInv`, that no Handle is ahead of the
Hub's epoch, or the next start could bring one back to life. `BoundNodesPresent` needs
`OnlineRegistered`, that a Node which is online has a session: a Node that
registers anew takes the Handles of its earlier session with it, and a Node without one has
none to take.

*ControlSystem.* A step is one of the Hub, one of a Node or of the network, or time
(`ChainMoves`). What a step of the Hub may do to a Handle (`Ages`), what it may tell whom
(`Issued`) and what a Node may say (`MayBeSaid`) are shown once for all actions; the
invariants are argued from these. Each says what the messages under way are worth:

    Known     whatever names a Handle, in a Node or under way, names one that the Hub
              gave to that Node, and its validity is at most the Hub's
    Progress  an expired Handle has no validity left; take_over is on its way to the Robot
              only for a Handle that is past ASSIGNED, robot_holding from it only for one
              it has given up
    Chain     in the queue to a Controller: one grant per Handle; a revoke names the validity
              as the Hub has it and no renewal comes behind it; and unless a message was
              missed, the last grant or renewal there, or with none what the Controller
              has cached, is the validity of the Hub
    End       a hand_over to the Robot follows the Controller's letting go, a revoke goes
              with one to the Controller (Told); so do what the Robot answers and what the
              Hub concludes

`Known` and `Progress` give `InputUnderLease`: the state EXPIRED means a validity of 0 at the
Hub, so it is 0 at the Robot. `EndReachesBoth` needs all four, because a Controller obeys a
revoke only if it names the expiry it has cached: `Told` (it missed a message, never
had occasion to stream, cannot come to have the Handle any more, its validity is over, or a
revoke is in its queue) is kept by the delivery of that revoke only because
`Chain` says that the two validities are then equal.

*Teleoperation.* Each part has an inductive invariant over its own variables, and a step of
one leaves those of the others alone (`InvStep`).

    RecordInv   the pending frames are those of the take in progress or just completed; a press
                that may still command has commanded nothing; the home of a closed clutch
                was measured when it closed; Servo Move follows the clutch between iterations
    PiperInv    PiperModes and PiperGate tie authority to the hand; PiperFrames says the latest
                frame of this session is of the squeeze that is held; PiperPress says the
                squeeze the processor is anchored to is the one of what it sent, of what it
                reads next and of the hand, unless a release is still to be read or was lost
    MemoryInv   of each peer, commands wait in the inbox exactly as accepted and not received,
                its one heartbeat after the commands it reports; only the newest slot is open
    ZmqInv      what a closing thread has still to do covers what its owner has open, and a
                receiver's socket is closed only once a close was asked for
    SessionInv  a session asks to be registered once, is answered once, and waits for that
                answer until it has it; a session not opened yet has left no trace

`SameSqueeze` is not inductive: a target is wrong only if the hand released and squeezed
again unseen, so `PiperPress` has to follow the squeeze through the wire, the subscriber's
cache and the gate's stream, for the script and for the managed node alike.
`EpochPinned` needs `Once`: a second "registered" could bring another epoch to a socket
whose Node no longer listens for one. That the Node's next session was never used
before (`Unopened`) is why `NewMember` need not be written when it opens.

*RobotPrograms.* The same form: one inductive invariant for each part.

    ThreadInv     a thread that streams is the sender of the session that is on; an arm in Servo
                  Move has a session, is about to get one, or a sender about to leave it;
                  where the caller stands says which
    ProcessInv    a process the adapter no longer refers to has nothing of the controller; what
                  is in the pipes is numbered, and names the operation if it has the number
                  that is waited for; after a confirmed stop no frame is under way, and
                  `active` is not set for the process that could send one
    PolicyInv     LoopInv ties the loop to the resets carried out and the stop callback to the
                  arm, let go of or not whole; PredictionInv says what is
                  offered, asked or kept is of this episode, and nothing is asked beyond
                  the last offer; AheadInv and SparseInv say how far the buffer is filled
    GripperInv    what the gate believes is so, or a failed command left it in doubt
    DashboardInv  StatusInv holds whatever a handler writes and when; FreshInv, as long as none
                  wrote on a status that had changed, ties the status to where the main loop
                  is and the task to its policy and its confirmation
    EpisodesInv   frames and Left are about the take that runs; so is all that the client keeps,
                  asks or is told, unless a reset crossed a request

The adapter keeps both of its invariants: where the sender does not live nothing happens
but the age of the target (`AdapterStep`). `NeverStarved` is far from inductive. That an
action which is waited for comes needs, of a thread at rest, that the buffer is filled to the
end of its last prediction (`AheadInv`), and with a threshold under which the buffer must be
empty before the next question, that none is left behind (`SparseInv`). `AnswerIsOwn` needs
`Numbered`: an answer that comes after its time-out stays in the pipe, and only its
number tells it from the one that is due. `AbortHonoured` is kept by the handlers that run
late as well, the other promises of the dashboard only under `~history.lagging`.

*Only model-checked.* The properties that a run refutes; and liveness, which
this prover does not do (neither fairness nor ENABLED): `RevocationEnds` and both
`EverythingEnds`.

## Findings

1. **Age of frames over ZeroMQ** (`robot_node_zmq`). Design line 417 lets an old
   frame cause HOLD, but the ZeroMQ receiver stamps a frame when it is taken
   (`zmq_runtime.py:304`): one that waited in the socket counts as new. The
   in-memory runtime stamps on arrival and satisfies the same property.
2. **SAFETY and start** (`robot_node_safety`). `start()` sets HOLD unconditionally
   (`robot.py:281`), while `enter_safety` promises to hold until an explicit local
   clear.
3. **Reassignment after expiry** (`hub_reassign`). Design line 421 waits for the
   Robot to confirm that it has no active Handle; `assign` does not look at the
   Handle of the last report (`hub.py:1311`). The Robot's own checks keep this from
   moving it under the wrong Handle (`EveryMotionAuthorised`).
4. **Motion after a lost track** (`piper_takeover`). The repository's `README.md:28-30`
   asks for a release and a new take-over. After a take-over asked for on the Hub's page
   (not by squeezing), the reset that `robot_node.py:196` makes counts as a
   release, and the squeeze that outlived the loss of tracking moves the arm again.

What the models had to excuse, and a reader of the code should know:

* A Handle in HANDING_OVER is renewed and exempt from mismatch correction: if the
  Robot's `robot_holding` is lost, it stays until the operator asks again or a Node falls
  silent (`hub.py:772`, `:925`, `:979`).
* A hand-over request that reaches the Hub before the Handle is ACTIVE is refused, though
  the Controller has let go of its Handle already (`hub.py:761`).
* `Proxy.update_observation` may wake the request thread twice for one observation
  (`tools/proxy.py:166`, `:196`): the second request keeps the server busy while the
  first answer is played to its end (`AsksTwice` in `PolicyProxy`).
* `PolicyClient.reset` does not wait for a request in flight: its answer enters the new
  episode (`crossed` in `PolicyEpisodes`).
* A handler of the dashboard that writes late may run a task under another task's
  policy, or leave an idle dashboard in `paused`, where no key is accepted
  (`lagging` in `Coordinator`). A declined retry of a batch task reads
  `curr_task["id"]` of `None` (`scripts/dashboard.py:665`); that, an error, and
  Escape leave `batch_index` set, and manual selection is refused from then on (`derailed`).
* `recv()` of the policy client has no time-out (`tools/policy_client.py:299`): a request the
  server never answers stays in flight, no other is made, and an episode of that policy
  goes on without acting until it is told to stop (`lost` in `PolicyEpisodes`).
* So does `Proxy`: stopping it or switching its policy joins the thread (`tools/proxy.py:143`),
  and a dashboard whose server ended with a request in flight hangs in the next switch
  (`blocked` in `Coordinator`), the arm's program in its teardown until it is interrupted.
* The stop callback of the JAKA program disconnects an arm only if `is_connected`
  (`examples/isaac_teleop_to_jaka/infer.py:201`), which a closed camera or a failed Servo owner
  makes false (`jaka_robot.py:837`): the arm is then not let go of, silently, and not
  tried again (`~robot.whole` in `ArmLetGo`).
* Without `servo_target_timeout_s`, the default, a sender thread streams the last target of
  a caller that went silent for ever (`jaka_robot.py:592`; `watchdog` in `JakaServo`).
* An abort between "executing" and the clearing of the flags (`:945`) is forgotten.
* `require_action` of a stopped proxy never returns: a dashboard that quits in
  between waits for it (`blocked`).
* A manual gripper toggle turns the gate's belief over before the command is sent:
  after one that failed the gate may be wrong until the next success (`doubtful`).
* A Controller without a seed that loses its Hub for more than a second never comes back:
  the resolver's exception ends its management thread (`controller.py:627`, and
  `zmq_runtime.py:712`), where the plan
  (`docs/superpowers/plans/2026-08-27-control-hub.md:795`) has it rediscover; the Robot
  tries again (`"dead"` and `"lost"` in `ZmqSessions`). It publishes nothing meanwhile.
* With a seed only, a broken connection costs the session: rediscovery cannot tell that it
  is the same Hub, and the channel waits for a registration nobody asks for until the
  heartbeats are missed (`zmq_runtime.py:678`).
* An iteration without an action (`tools/infer.py:272`, `:300`) does not advance the
  clock of the episode: without a policy's answer or a teleoperator it never ends by time.

## Not modelled

Web API, CLI, parsing of beacons: adapters without protocol state. Codec and field
validation: a message that does not decode is a message that does not arrive.
Drivers, servo arithmetic, geometry of the XR mapping, simulation, the weights of
aggregation: numerics. Training, value inference, dataset conversion, plots: batch
computations over files and tensors. The textual dashboard drives the state
machine of the rich one through another toolkit.

Of the modelled parts: cameras and the gripper of the JAKA adapter, observation
sinks and re-entrant callbacks of the Robot Node, the CloudXR monitor.

## Plan

Done: the four components of the control package each, with their proofs; their
composition; the runtimes' channels; teleoperation; the JAKA adapter; the policy
programs, the dashboard and the episode loops, with their proofs.

Open: a second Controller in the run of `ControlSystem` and a Hub restart in its
model, which are beyond what TLC explores in minutes; video mailbox, Rerun logger,
the ROS robot.
