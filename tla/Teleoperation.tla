--------------------------- MODULE Teleoperation ---------------------------
(***************************************************************************)
(* The two programs that move an arm with an XR controller, and the two     *)
(* runtimes whose channels carry the frames and management messages of the  *)
(* managed one.  They do not run in one process: XrRecord records a JAKA    *)
(* arm, PiperTeleop moves a Piper, MemoryRuntime, ZmqChannels and            *)
(* ZmqSessions are the runtimes underneath a Node.  A behaviour is one of     *)
(* any of the five, and the properties are what they owe in common.          *)
(***************************************************************************)
EXTENDS Naturals, Sequences, FiniteSets

CONSTANTS
    NumEpisodes, MaxTakes, Keyboard,              \* XrRecord
    MaxSessions, MaxPresses, MaxHandles,          \* PiperTeleop
    Peers, management_inbox_max, MaxSent, MaxOpens,   \* MemoryRuntime
    Threads, Others, MaxReads,                    \* ZmqChannels
    MaxNodeSessions, MaxStarts, MaxEpochs, MaxDrops, missed_acks   \* ZmqSessions

\* Something is recorded, sent and closed; the keys are those of the keyboard, and
\* a process that starts has a session left.
ASSUME TeleoperationAssumption ==
    /\ {NumEpisodes, MaxTakes, MaxSessions, MaxPresses, MaxHandles,
        management_inbox_max, MaxSent, MaxOpens, MaxReads,
        MaxNodeSessions, MaxStarts, MaxEpochs, missed_acks} \subseteq Nat \ {0}
    /\ MaxDrops \in Nat
    /\ MaxStarts <= MaxNodeSessions
    /\ Keyboard \subseteq {"toggle", "pause", "reset", "rerecord", "stop"}
    /\ "receiver" \notin Others

VARIABLES
    part,                                                       \* which of the five
    loop, keys, clutch, button, grip, hold, episode, data, hw,  \* XrRecord
    managed, xr, gate, ctl, wire, sub, proc, script, robot,     \* PiperTeleop
    closed, hub, inbox, link, slots, latest, held,              \* MemoryRuntime
    runtime, owner, socket, receiver, reads, thread,            \* ZmqChannels
    hub_seed, router, dealer, member, outbound, inbound, process, drops   \* ZmqSessions

Record == INSTANCE XrRecord
Piper == INSTANCE PiperTeleop
Memory == INSTANCE MemoryRuntime
Zmq == INSTANCE ZmqChannels
Sessions == INSTANCE ZmqSessions WITH MaxSessions <- MaxNodeSessions

recordVars == <<loop, keys, clutch, button, grip, hold, episode, data, hw>>
piperVars == <<managed, xr, gate, ctl, wire, sub, proc, script, robot>>
memoryVars == <<closed, hub, inbox, link, slots, latest, held>>
zmqVars == <<runtime, owner, socket, receiver, reads, thread>>
sessionVars == <<hub_seed, router, dealer, member, outbound, inbound, process, drops>>
vars == <<part, recordVars, piperVars, memoryVars, zmqVars, sessionVars>>

Parts == {"record", "piper", "memory", "zmq", "sessions"}

TypeOK ==
    /\ part \in Parts
    /\ Record!TypeOK /\ Piper!TypeOK /\ Memory!TypeOK /\ Zmq!TypeOK
    /\ Sessions!TypeOK

Init ==
    /\ part \in Parts
    /\ Record!Init /\ Piper!Init /\ Memory!Init /\ Zmq!Init
    /\ Sessions!Init
    /\ part # "piper" => ~managed
    /\ part # "sessions" => hub_seed = "none"

RecordOnly ==
    part = "record" /\ UNCHANGED <<part, piperVars, memoryVars, zmqVars, sessionVars>>
PiperOnly ==
    part = "piper" /\ UNCHANGED <<part, recordVars, memoryVars, zmqVars, sessionVars>>
MemoryOnly ==
    part = "memory" /\ UNCHANGED <<part, recordVars, piperVars, zmqVars, sessionVars>>
ZmqOnly ==
    part = "zmq" /\ UNCHANGED <<part, recordVars, piperVars, memoryVars, sessionVars>>
SessionsOnly ==
    part = "sessions" /\ UNCHANGED <<part, recordVars, piperVars, memoryVars, zmqVars>>

Next ==
    \/ RecordOnly /\ Record!Next
    \/ PiperOnly /\ Piper!Next
    \/ MemoryOnly /\ Memory!Next
    \/ ZmqOnly /\ Zmq!Next
    \/ SessionsOnly /\ Sessions!Next

\* What each part assumes of its threads, for the part that runs: the loops go
\* on, closing threads and a decode do, a Node looks for its Hub and the Hub
\* serves it, and time passes while nothing arrives.
Fairness ==
    /\ WF_recordVars(part = "record" /\ Record!LoopStep)
    /\ WF_piperVars(part = "piper" /\ Piper!ScriptStep)
    /\ WF_piperVars(part = "piper" /\ Piper!Expire)
    /\ WF_zmqVars(part = "zmq" /\ Zmq!Progress)
    /\ WF_sessionVars(part = "sessions" /\ Sessions!Progress)

Spec == Init /\ [][Next]_vars /\ Fairness

----------------------------------------------------------------------------
\* No jump: whatever interrupts a squeeze, a reset, a lost session or a stale
\* frame, a target starts from where the arm was when that squeeze began.
TargetsAreFresh == Record!PosesAreFresh /\ Piper!SameSqueeze

\* The arm is moved while the operator squeezes and is held otherwise; the engage
\* gate takes authority only after a release with this Handle, and a loss of
\* tracking ends the motion it took over for.
MovedByOperator ==
    /\ Record!ServoOnDeadman /\ Piper!HeldUnlessEngaged
    /\ Piper!GateNeedsRelease /\ Piper!LossStopsMotion

\* A saved episode is one take nobody threw away, and one press of a button or
\* the trigger counts once.
RecordingIsWhole == Record!TakesWhole /\ Record!PressesCounted

\* A program ends with its robot stopped and released, except as its histories
\* account for, and a close() that returned has released what it closed.
TeardownAccounted ==
    /\ Record!TeardownAccounted /\ Piper!TeardownAccounted
    /\ Zmq!ClosedMeansReleased

\* A message the in-process runtime accepted arrives, in order and not stale; the
\* ZeroMQ runtime's go to the session that is registered, from the Hub it
\* registered with.
MessagesAccounted ==
    /\ Memory!AcceptedIsDelivered /\ Memory!NoStaleHeartbeat /\ Memory!OneLiveSlot
    /\ Sessions!RouteFollowsRegistration /\ Sessions!EpochPinned

\* Stop ends the recorder, silence ends the motion of an arm, threads that close
\* channels return, and a Node that lost its Hub registers again.
Pending ==
    \/ part = "record" /\ Record!StopPressed /\ ~Record!Ended
    \/ part = "piper" /\ Piper!Silent
    \/ part = "zmq" /\ Zmq!SomeoneCloses
    \/ part = "sessions" /\ Sessions!Adrift
EverythingEnds == Pending ~> ~Pending
=============================================================================
