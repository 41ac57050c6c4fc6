----------------------------- MODULE RobotNode ------------------------------
(***************************************************************************)
(* One Robot process (RobotNode): the final local authority over motion.   *)
(* Its management thread applies Hub commands and renews or loses its      *)
(* session; its control thread runs the two-phase action cycle: it takes   *)
(* the latest action under the lock, runs the payload processor WITHOUT    *)
(* the lock, and takes the lock again to send.  Between the two phases     *)
(* everything else here may happen.                                        *)
(*                                                                         *)
(* The Hub, the network and the Controller are the environment: commands   *)
(* for any known Handle arrive in any order, repeated or not at all, and   *)
(* frames of any origin arrive whenever a receiver is open.  Callbacks     *)
(* that call back into the node from its own thread are left out.          *)
(*                                                                         *)
(* An authority is the identity of a Handle (its id, epoch, parties and    *)
(* token), a Handle an authority with an expiry: renewals change only the  *)
(* latter.  All clocks are the one clock now.                              *)
(***************************************************************************)
EXTENDS ControlModel, Integers, Sequences

CONSTANTS
    HandleIds,      \* Handle identifiers
    Parties,        \* a Controller with its session and endpoint
    Streams,        \* stream sessions of Controllers
    NoHandle,       \* no Handle is cached
    NoStream,       \* no stream is latched
    NoFrame,        \* the receiver's slot is empty
    NoCycle,        \* the control thread is between cycles
    NoMotion        \* no action is sent to the Robot

CONSTANTS
    HandleTtl,      \* longest local validity of a Handle (timing.handle_ttl)
    ActionStale,    \* oldest age at which a frame is still fresh
    StampOnArrival, \* the runtime stamps a frame when it arrives (in memory),
                    \* or only when the node takes it (ZeroMQ)
    Authorities     \* the authorities the environment talks about

CONSTANTS           \* bounds of the explored instance
    MaxTime, MaxSession, MaxSequence, MaxFrameSequence

Authority == [handle_id : HandleIds, hub_epoch : Nat \ {0},
              robot_session : Nat, controller : Parties, fencing_token : Nat]

Handle == [authority : Authority, expires_at : Nat]

\* received is the runtime's time stamp, from which the node computes the age;
\* arrived is when the frame really reached the receiver.
Frame == [authority : Authority, stream : Streams, sequence : Nat,
          arrived : Nat, received : Nat]

\* What the control thread captured in its first phase.  current says that
\* the authority generation still is the captured one: the counter only
\* grows, so comparing it is comparing it with "nothing happened since".
Speculation == [frame : Frame, authority : Authority, receiver : Nat,
                current : BOOLEAN]

Motion == [frame : Frame, receiver : Nat]

ToHub == [kind : {"register", "grant_ack", "renewal_ack", "take_over_ack",
                  "hand_over_ack", "revoke_ack", "force_hold_ack",
                  "robot_ready", "robot_holding"},
          session : Nat, authority : Authority \cup {NoHandle}]

ASSUME ConstantsAssumption ==
    /\ NoHandle \notin Handle /\ NoHandle \notin Authority
    /\ NoStream \notin Streams
    /\ NoFrame \notin Frame
    /\ NoCycle \notin Speculation
    /\ NoMotion \notin Motion
    /\ HandleTtl \in Nat /\ ActionStale \in Nat /\ StampOnArrival \in BOOLEAN
    /\ MaxTime \in Nat /\ MaxSession \in Nat
    /\ MaxSequence \in Nat /\ MaxFrameSequence \in Nat
    /\ Authorities \subseteq Authority

\* A Handle id is a UUID minted for one authority.
ASSUME UniqueIdsAssumption ==
    \A a, b \in Authorities : a.handle_id = b.handle_id => a = b

VARIABLES
    \* the management session
    started, connected, session,
    hubEpoch,       \* 0 until the Hub confirmed the registration
    registered,
    registering,    \* the registration of this session is unanswered
    lastCommand,    \* highest Hub command sequence applied, 0 for none
    \* authority
    control, handle,
    expiry,         \* local expiry of handle
    terminal,       \* authorities this process will never hold again
    \* action input
    receiver,       \* number of the open receiver, 0 for none
    opened,         \* receivers opened so far
    stream, lastSequence, lastReceived,   \* of the latched stream, -1 for none
    slot,           \* latest frame in the receiver
    cycle,          \* speculation of the control thread
    \* the outside
    motion,         \* the action the last step sent to the Robot, if any
    sent,           \* the messages the last step sent to the Hub
    parked,         \* receivers opened when a HOLD last closed the input
    now

link == <<started, connected, session, hubEpoch, registered, registering,
          lastCommand>>
authority == <<control, handle, expiry, terminal>>
input == <<receiver, stream, lastSequence, lastReceived, slot>>

vars == <<link, authority, input, opened, cycle, motion, sent, parked, now>>

-----------------------------------------------------------------------------
\* What a step says to the Hub; only SendAction also moves the Robot.
Say(messages) == sent' = messages /\ motion' = NoMotion

Message(kind, a) == [kind |-> kind, session |-> session, authority |-> a]

\* The speculation after the authority generation moved.
Disturbed == IF cycle = NoCycle THEN NoCycle ELSE [cycle EXCEPT !.current = FALSE]

Expired == now >= expiry

KnownTerminal(h) ==
    \E a \in terminal : a.handle_id = h.authority.handle_id

MatchesCurrentHandle(h) ==
    /\ ~KnownTerminal(h)
    /\ handle # NoHandle /\ handle.authority = h.authority
    /\ hubEpoch = h.authority.hub_epoch
    /\ session = h.authority.robot_session

\* Mutant: what remains is not put on the local clock.
RemainingValidity(h) == h.expires_at - now

LocalExpiry(h) ==
    LET remaining == IF h.expires_at > now THEN h.expires_at - now ELSE 0
    IN  now + (IF remaining < HandleTtl THEN remaining ELSE HandleTtl)

CloseInput ==
    /\ receiver' = 0 /\ stream' = NoStream
    /\ lastSequence' = -1 /\ lastReceived' = -1 /\ slot' = NoFrame

Held == IF handle = NoHandle THEN {} ELSE {handle.authority}

\* Mutant: the authority is not remembered as ended.
ForgetForNow(authorities) ==
    /\ handle' = NoHandle /\ expiry' = 0
    /\ terminal' = terminal

\* Drop the Handle and never accept these authorities again.
Forget(authorities) ==
    /\ handle' = NoHandle /\ expiry' = 0
    /\ terminal' = terminal \cup authorities

\* The one way into HOLD or SAFETY.  SAFETY is sticky.  The receiver is closed
\* when the cause distrusts the input; the Handle is given up when the cause
\* is terminal, and also when resetting the processor, holding the Robot or
\* closing the receiver fails.  Every HOLD from outside the control thread
\* closes the receiver and moves the authority generation; see Disturbed.
EnterHold(close, lasting, safety, fails) ==
    LET target  == IF safety \/ control = "SAFETY" THEN "SAFETY" ELSE "HOLD"
        cleanup == control # target \/ close
    IN  /\ fails => cleanup
        /\ control' = target
        /\ IF lasting \/ fails THEN Forget(Held)
           ELSE UNCHANGED <<handle, expiry, terminal>>
        /\ IF close \/ fails
           THEN CloseInput /\ parked' = opened
           ELSE UNCHANGED <<input, parked>>

-----------------------------------------------------------------------------
(* The management session.                                                 *)

Init ==
    /\ started = FALSE /\ connected = FALSE /\ session = 0
    /\ hubEpoch = 0 /\ registered = FALSE /\ registering = FALSE
    /\ lastCommand = 0
    /\ control = "HOLD" /\ handle = NoHandle /\ expiry = 0 /\ terminal = {}
    /\ receiver = 0 /\ stream = NoStream /\ lastSequence = -1
    /\ lastReceived = -1 /\ slot = NoFrame /\ opened = 0
    /\ cycle = NoCycle /\ motion = NoMotion /\ sent = <<>> /\ parked = 0
    /\ now = 0

\* Open a fresh session and register it; on failure no channel is left.
OpenSession(ok) ==
    /\ session < MaxSession
    /\ session' = session + 1
    /\ hubEpoch' = 0 /\ registered' = FALSE /\ lastCommand' = 0
    /\ registering' = ok /\ connected' = ok

Registration(ok) ==
    IF ok THEN <<[kind |-> "register", session |-> session + 1,
                  authority |-> NoHandle]>>
    ELSE <<>>

\* Starting also leaves SAFETY: the state is set to HOLD unconditionally.
Start(ok) ==
    /\ ~started
    /\ OpenSession(ok)
    /\ started' = ok
    /\ control' = "HOLD"
    /\ Say(Registration(ok))
    /\ UNCHANGED <<handle, expiry, terminal, input, opened, cycle, parked, now>>

Stop(fails) ==
    /\ started
    /\ started' = FALSE /\ connected' = FALSE
    /\ EnterHold(TRUE, TRUE, FALSE, fails)
    /\ cycle' = Disturbed
    /\ Say(<<>>)
    /\ UNCHANGED <<session, hubEpoch, registered, registering, lastCommand,
                   opened, now>>

\* The session is given up together with the Handle, and a new one is tried at
\* once.  said is what left the node before it noticed; a handler that already
\* opened a receiver says so in opened'.
LoseManagement(authorities, said, ok) ==
    /\ control' = IF control = "SAFETY" THEN "SAFETY" ELSE "HOLD"
    /\ Forget(authorities)
    /\ CloseInput
    /\ parked' = opened'
    /\ cycle' = Disturbed
    /\ OpenSession(ok)
    /\ Say(said \o Registration(ok))
    /\ UNCHANGED <<started, now>>

\* Three heartbeats without an answer, a failed send, or an exception in the
\* management loop.
ManagementLost(ok) ==
    /\ started /\ connected
    /\ opened' = opened
    /\ LoseManagement(Held, <<>>, ok)

Reconnect(ok) ==
    /\ started /\ ~connected
    /\ OpenSession(ok)
    /\ Say(Registration(ok))
    /\ UNCHANGED <<started, authority, input, opened, cycle, parked, now>>

\* The answer to the registration of this session.  The code's branch for a
\* changed epoch cannot be taken: a session is registered only once.
Registered(sequence, epoch, answered) ==
    /\ started /\ connected
    /\ sequence > lastCommand
    /\ registering /\ answered = session
    /\ hubEpoch' = epoch /\ registered' = TRUE /\ registering' = FALSE
    /\ lastCommand' = sequence
    /\ Say(<<>>)
    /\ UNCHANGED <<started, connected, session, authority, input, opened,
                   cycle, parked, now>>

-----------------------------------------------------------------------------
(* Hub commands.  A command is applied only if it comes from the confirmed *)
(* epoch and is newer than every command applied before; an answer that    *)
(* cannot be sent costs the node its session.  delivered says whether the  *)
(* answers leave the node.                                                 *)

Command(sequence, epoch) ==
    /\ started /\ connected /\ registered
    /\ hubEpoch = epoch /\ epoch # 0
    /\ sequence > lastCommand

Answer(sequence, said) ==
    /\ lastCommand' = sequence
    /\ Say(said)
    /\ UNCHANGED <<started, connected, session, hubEpoch, registered,
                   registering, now>>

Unanswered(authorities, said) ==
    \E ok \in BOOLEAN : LoseManagement(authorities, said, ok)

\* Mutant: ended Handles are not looked up.
AcceptsAnyHandle(h) == h.authority.robot_session = session

\* A Handle for this session that has not ended here.
AcceptsHandle(h) == h.authority.robot_session = session /\ ~KnownTerminal(h)

\* Cache a Handle for this session without opening any input.  A Handle that
\* is held already is granted again with no effect.
Grant(sequence, h, delivered) ==
    /\ Command(sequence, h.authority.hub_epoch)
    /\ control # "SAFETY"
    /\ AcceptsHandle(h)
    /\ Held \subseteq {h.authority}
    /\ opened' = opened
    /\ IF delivered
       THEN /\ handle' = IF handle = NoHandle THEN h ELSE handle
            /\ expiry' = IF handle = NoHandle THEN LocalExpiry(h) ELSE expiry
            /\ Answer(sequence, <<Message("grant_ack", h.authority)>>)
            /\ UNCHANGED <<control, terminal, input, cycle, parked>>
       ELSE Unanswered({h.authority}, <<>>)

\* Only a later expiry of the held Handle counts, and only while it is valid;
\* see HandleExpired for a renewal that comes too late.
Renewal(sequence, h, delivered) ==
    /\ Command(sequence, h.authority.hub_epoch)
    /\ control # "SAFETY"
    /\ handle # NoHandle /\ ~Expired
    /\ handle.authority = h.authority
    /\ h.expires_at > handle.expires_at
    /\ opened' = opened
    /\ IF delivered
       THEN /\ handle' = h /\ expiry' = LocalExpiry(h)
            /\ Answer(sequence, <<Message("renewal_ack", h.authority)>>)
            /\ UNCHANGED <<control, terminal, input, cycle, parked>>
       ELSE Unanswered(Held, <<>>)

CanTakeOver(sequence, h) ==
    /\ Command(sequence, h.authority.hub_epoch)
    /\ control # "SAFETY"
    /\ MatchesCurrentHandle(h) /\ ~Expired

\* Replace whatever input there was by a receiver of this take-over.  count is
\* the number of the two answers that leave the node.
TakeOver(sequence, h, count) ==
    LET said == SubSeq(<<Message("robot_ready", h.authority),
                         Message("take_over_ack", h.authority)>>, 1, count)
    IN  /\ CanTakeOver(sequence, h)
        /\ opened' = opened + 1
        /\ IF count = 2
           THEN /\ control' = "HOLD"
                /\ receiver' = opened + 1 /\ stream' = NoStream
                /\ lastSequence' = -1 /\ lastReceived' = -1 /\ slot' = NoFrame
                /\ cycle' = Disturbed
                /\ Answer(sequence, said)
                /\ UNCHANGED <<handle, expiry, terminal, parked>>
           ELSE Unanswered(Held, said)

\* The old input is gone, but the processor does not reset or no receiver can
\* be opened: the Handle stays, the command is not answered.
TakeOverFails(sequence, h) ==
    /\ CanTakeOver(sequence, h)
    /\ control' = "HOLD"
    /\ CloseInput
    /\ cycle' = Disturbed
    /\ Say(<<>>)
    /\ UNCHANGED <<link, handle, expiry, terminal, opened, parked, now>>

\* hand_over and revoke end the held Handle with a lasting HOLD.  For a Handle
\* that ended before, only the acknowledgement is repeated.
EndHandle(sequence, h, kind, count, fails) ==
    LET ack  == Message(kind, h.authority)
        said == IF MatchesCurrentHandle(h)
                THEN <<Message("robot_holding", h.authority), ack>>
                ELSE <<ack>>
    IN  /\ Command(sequence, h.authority.hub_epoch)
        /\ MatchesCurrentHandle(h) \/ h.authority \in terminal
        /\ count <= Len(said)
        /\ opened' = opened
        /\ IF count = Len(said)
           THEN /\ IF MatchesCurrentHandle(h)
                   THEN EnterHold(TRUE, TRUE, FALSE, fails) /\ cycle' = Disturbed
                   ELSE UNCHANGED <<authority, input, cycle, parked>>
                /\ Answer(sequence, said)
           ELSE Unanswered(Held, SubSeq(said, 1, count))

\* HOLD that keeps the Handle: motion needs another take-over.
ForceHold(sequence, h, delivered, fails) ==
    /\ Command(sequence, h.authority.hub_epoch)
    /\ MatchesCurrentHandle(h)
    /\ opened' = opened
    /\ IF delivered
       THEN /\ EnterHold(TRUE, FALSE, FALSE, fails)
            /\ cycle' = Disturbed
            /\ Answer(sequence, <<Message("force_hold_ack", h.authority)>>)
       ELSE Unanswered(Held, <<>>)

\* The same without naming a Handle.
ForceHoldAll(sequence, epoch, delivered, fails) ==
    /\ Command(sequence, epoch)
    /\ opened' = opened
    /\ IF delivered
       THEN /\ EnterHold(TRUE, FALSE, FALSE, fails)
            /\ cycle' = Disturbed
            /\ Answer(sequence, <<Message("force_hold_ack", NoHandle)>>)
       ELSE Unanswered(Held, <<>>)

-----------------------------------------------------------------------------
(* Local causes.                                                           *)

\* Mutant: expiry is not one of the causes that close the receiver.
HandleExpiredInputOpen(fails) ==
    /\ handle # NoHandle /\ Expired
    /\ EnterHold(FALSE, TRUE, FALSE, fails)
    /\ cycle' = Disturbed
    /\ Say(<<>>)
    /\ UNCHANGED <<link, opened, now>>

\* The cached Handle has expired: noticed by the management loop, by a control
\* cycle, or by a renewal that comes too late.
HandleExpired(fails) ==
    /\ handle # NoHandle /\ Expired
    /\ EnterHold(TRUE, TRUE, FALSE, fails)
    /\ cycle' = Disturbed
    /\ Say(<<>>)
    /\ UNCHANGED <<link, opened, now>>

EnterSafety(fails) ==
    /\ control # "SAFETY"
    /\ EnterHold(TRUE, TRUE, TRUE, fails)
    /\ cycle' = Disturbed
    /\ Say(<<>>)
    /\ UNCHANGED <<link, opened, now>>

ClearSafety ==
    /\ control = "SAFETY"
    /\ control' = "HOLD"
    /\ Say(<<>>)
    /\ UNCHANGED <<link, handle, expiry, terminal, input, opened, cycle,
                   parked, now>>

-----------------------------------------------------------------------------
(* The action path.                                                        *)

\* The receiver keeps the latest frame only.
FrameArrives(f) ==
    /\ receiver # 0
    /\ f.arrived = now
    /\ slot' = f
    /\ Say(<<>>)
    /\ UNCHANGED <<link, authority, receiver, stream, lastSequence,
                   lastReceived, opened, cycle, parked, now>>

\* A control cycle gets past SAFETY, the missing Handle, the expiry and the
\* missing receiver.
CycleRuns ==
    /\ cycle = NoCycle
    /\ control # "SAFETY" /\ handle # NoHandle /\ ~Expired /\ receiver # 0

Taken == IF StampOnArrival THEN slot ELSE [slot EXCEPT !.received = now]

ValidFrame(f) ==
    /\ now - f.received <= ActionStale
    /\ f.authority = handle.authority
    /\ f.authority.hub_epoch = hubEpoch
    /\ stream \in {NoStream, f.stream}
    /\ f.sequence > lastSequence

\* No frame, and the last one is too old.
Watchdog(fails) ==
    /\ CycleRuns /\ slot = NoFrame
    /\ lastReceived # -1 /\ now - lastReceived > ActionStale
    /\ EnterHold(TRUE, FALSE, FALSE, fails)
    /\ Say(<<>>)
    /\ UNCHANGED <<link, opened, cycle, now>>

\* Any flaw of the frame closes the receiver it came from.
RejectFrame(fails) ==
    /\ CycleRuns /\ slot # NoFrame /\ ~ValidFrame(Taken)
    /\ EnterHold(TRUE, FALSE, FALSE, fails)
    /\ Say(<<>>)
    /\ UNCHANGED <<link, opened, cycle, now>>

\* First phase: the frame is taken, its stream latched, and what the second
\* phase must find unchanged is remembered.
TakeFrame ==
    /\ CycleRuns /\ slot # NoFrame /\ ValidFrame(Taken)
    /\ stream' = Taken.stream
    /\ lastSequence' = Taken.sequence
    /\ lastReceived' = Taken.received
    /\ slot' = NoFrame
    /\ cycle' = [frame |-> Taken, authority |-> handle.authority,
                 receiver |-> receiver, current |-> TRUE]
    /\ Say(<<>>)
    /\ UNCHANGED <<link, authority, receiver, opened, parked, now>>

AuthorityUnchanged ==
    /\ control # "SAFETY" /\ handle # NoHandle
    /\ cycle.current /\ handle.authority = cycle.authority

InputUnchanged ==
    /\ receiver = cycle.receiver
    /\ stream = cycle.frame.stream
    /\ lastSequence = cycle.frame.sequence

\* Second phase when the processor fails, is not armed, or returns an action
\* the Robot does not have.
ProcessorDeclines(distrust, fails) ==
    /\ cycle # NoCycle
    /\ IF AuthorityUnchanged /\ InputUnchanged
       THEN EnterHold(distrust, FALSE, FALSE, fails)
       ELSE UNCHANGED <<authority, input, parked>>
    /\ cycle' = NoCycle
    /\ Say(<<>>)
    /\ UNCHANGED <<link, opened, now>>

\* Mutants: the expiry, everything the first phase saw, or the age of the frame
\* is not looked at again.
MaySendExpired ==
    /\ AuthorityUnchanged /\ InputUnchanged
    /\ now - cycle.frame.received <= ActionStale
MaySendUnvalidated == ~Expired /\ now - cycle.frame.received <= ActionStale
MaySendStale == AuthorityUnchanged /\ ~Expired /\ InputUnchanged

\* Second phase with an action: the reasons not to send it, in their order.
MaySend ==
    /\ AuthorityUnchanged /\ ~Expired /\ InputUnchanged
    /\ now - cycle.frame.received <= ActionStale

DropAction(fails) ==
    /\ cycle # NoCycle /\ ~MaySend
    /\ IF AuthorityUnchanged /\ (Expired \/ InputUnchanged)
       THEN EnterHold(TRUE, Expired, FALSE, fails)
       ELSE UNCHANGED <<authority, input, parked>>
    /\ cycle' = NoCycle
    /\ Say(<<>>)
    /\ UNCHANGED <<link, opened, now>>

\* The Robot is told to move; if its driver raises, the node holds at once.
SendAction(raises, fails) ==
    /\ cycle # NoCycle /\ MaySend
    /\ motion' = [frame |-> cycle.frame, receiver |-> cycle.receiver]
    /\ sent' = <<>>
    /\ IF raises
       THEN EnterHold(TRUE, FALSE, FALSE, fails)
       ELSE /\ control' = "CONTROLLING"
            /\ UNCHANGED <<handle, expiry, terminal, input, parked>>
    /\ cycle' = NoCycle
    /\ UNCHANGED <<link, opened, now>>

Tick ==
    /\ now < MaxTime
    /\ now' = now + 1
    /\ Say(<<>>)
    /\ UNCHANGED <<link, authority, input, opened, cycle, parked>>

-----------------------------------------------------------------------------
\* The Handles and frames the environment talks about.
Handles == {[authority |-> a, expires_at |-> t] :
              a \in Authorities, t \in 1..(MaxTime + 1)}

Frames == {[authority |-> a, stream |-> s, sequence |-> n,
            arrived |-> now, received |-> now] :
              a \in Authorities, s \in Streams, n \in 0..MaxFrameSequence}

Epochs == {a.hub_epoch : a \in Authorities}

ManagementStep ==
    \/ \E ok \in BOOLEAN : Start(ok) \/ ManagementLost(ok) \/ Reconnect(ok)
    \/ \E n \in 1..MaxSequence :
         \/ \E e \in Epochs :
              \/ \E answered \in 1..MaxSession : Registered(n, e, answered)
              \/ \E delivered, fails \in BOOLEAN : ForceHoldAll(n, e, delivered, fails)
         \/ \E h \in Handles :
              \/ \E delivered \in BOOLEAN :
                   Grant(n, h, delivered) \/ Renewal(n, h, delivered)
              \/ \E count \in 0..2 : TakeOver(n, h, count)
              \/ TakeOverFails(n, h)
              \/ \E kind \in {"hand_over_ack", "revoke_ack"}, count \in 0..2,
                    fails \in BOOLEAN : EndHandle(n, h, kind, count, fails)
              \/ \E delivered, fails \in BOOLEAN : ForceHold(n, h, delivered, fails)

LocalStep ==
    \E fails \in BOOLEAN :
      \/ Stop(fails) \/ HandleExpired(fails) \/ EnterSafety(fails)
      \/ Watchdog(fails) \/ RejectFrame(fails) \/ DropAction(fails)
      \/ \E distrust \in BOOLEAN : ProcessorDeclines(distrust, fails)
      \/ \E raises \in BOOLEAN : SendAction(raises, fails)

Next ==
    \/ ManagementStep \/ LocalStep
    \/ ClearSafety \/ TakeFrame \/ Tick
    \/ \E f \in Frames : FrameArrives(f)

Spec == Init /\ [][Next]_vars

-----------------------------------------------------------------------------
TypeOK ==
    /\ started \in BOOLEAN /\ connected \in BOOLEAN /\ session \in Nat
    /\ hubEpoch \in Nat /\ registered \in BOOLEAN /\ registering \in BOOLEAN
    /\ lastCommand \in Nat
    /\ control \in RobotControlState
    /\ handle \in Handle \cup {NoHandle} /\ expiry \in Nat
    /\ terminal \subseteq Authority
    /\ receiver \in Nat /\ opened \in Nat /\ parked \in Nat
    /\ stream \in Streams \cup {NoStream}
    /\ lastSequence \in Nat \cup {-1} /\ lastReceived \in Nat \cup {-1}
    /\ slot \in Frame \cup {NoFrame}
    /\ cycle \in Speculation \cup {NoCycle}
    /\ motion \in Motion \cup {NoMotion}
    /\ sent \in Seq(ToHub)
    /\ now \in Nat

\* A cached Handle is the authority of this very session: the node runs, is
\* registered with the epoch of the Handle, and has never given it up.
HandleOfThisSession ==
    handle # NoHandle =>
        /\ started /\ connected /\ registered /\ ~registering
        /\ hubEpoch = handle.authority.hub_epoch
        /\ session = handle.authority.robot_session
        /\ ~KnownTerminal(handle)

\* There is no input without a Handle, no motion state without both, and in
\* SAFETY there is neither, whoever interrupts whom.
InputNeedsAuthority ==
    /\ receiver # 0 => handle # NoHandle
    /\ control = "CONTROLLING" => handle # NoHandle /\ receiver # 0
    /\ control = "SAFETY" => handle = NoHandle /\ receiver = 0

\* At the instant an action goes to the Robot, the node holds the unexpired
\* Handle it was sent under, although the processor ran without the lock: the
\* session is the one the Handle names, the frame is fresh, of the latched
\* stream, and SAFETY did not intervene.
MotionAuthorised ==
    [][motion' # NoMotion =>
         LET f == motion'.frame
         IN  /\ started /\ registered /\ control # "SAFETY"
             /\ handle # NoHandle /\ now < expiry
             /\ f.authority = handle.authority
             /\ hubEpoch = f.authority.hub_epoch
             /\ session = f.authority.robot_session
             /\ f.authority \notin terminal
             /\ stream = f.stream /\ lastSequence = f.sequence
             /\ now - f.received <= ActionStale]_vars

\* Once a HOLD or SAFETY has closed the input, no action moves the Robot until
\* a later take-over has opened a new receiver: motion never resumes by itself,
\* in whichever phase the interrupted cycle was.
NoMotionUntilTakenOver ==
    [][motion' # NoMotion => motion'.receiver > parked]_vars

\* The Hub is told that the Robot holds only for an authority the Robot has
\* irrevocably given up.
HoldingIsFinal ==
    \A i \in 1..Len(sent) : sent[i].kind = "robot_holding" =>
        /\ sent[i].authority \in terminal
        /\ handle # NoHandle => handle.authority # sent[i].authority
        /\ control # "CONTROLLING"

\* No frame moves the Robot that reached it longer ago than the stale
\* threshold.
MotionIsFresh ==
    [][motion' # NoMotion => now - motion'.frame.arrived <= ActionStale]_vars

\* SAFETY lasts until it is cleared locally.
SafetyUntilCleared ==
    [][control = "SAFETY" /\ control' # "SAFETY" => ClearSafety]_vars
=============================================================================
