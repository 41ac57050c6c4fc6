---------------------------- MODULE PiperTeleop ----------------------------
(***************************************************************************)
(* Moving a Piper arm with an XR controller.  The Isaac teleop node samples *)
(* one hand, whose squeeze is a clutch (relative_pose.py), and publishes    *)
(* the latest frame.  Either scripts/teleop.py subscribes to it, or the     *)
(* node is managed: an engage gate takes authority through its Controller   *)
(* Node and the frames go to a Piper Robot Node.  Both retarget the frames  *)
(* with the processor of teleop_processor.py.  Controller, Hub and Robot    *)
(* Node are external here: ControllerNode, Hub and RobotNode model them.    *)
(***************************************************************************)
EXTENDS Naturals

CONSTANTS
    MaxSessions,   \* bound: XR sessions of the node
    MaxPresses,    \* bound: times the clutch engages
    MaxHandles     \* bound: Handles granted

VARIABLES
    managed,   \* control_node is not None; never changes
    xr,        \* TeleopNode: [up, session, engaged, press]; seen is history: the
               \* Handle current when the hand was last seen open, 0 after a loss
    gate,      \* EngageAuthority: [handle, armed, previous, controlling]
    ctl,       \* the Controller Node: [handle, granted, state]; byHub is history
    wire,      \* the one frame a latest-only receiver keeps: [frame, full];
               \* skipped is history: a release in it was overwritten
    sub,       \* the subscriber: [session, armed, cached, action]
    proc,      \* the processor: [state, anchor, validated, requires]
    script,    \* where teleoperate() is, and last_observation
    robot      \* PiperRobot and its Robot Node: [node, up, sent]; the rest is history

vars == <<managed, xr, gate, ctl, wire, sub, proc, script, robot>>

Presses == 0 .. MaxPresses
Handles == 0 .. MaxHandles
Frames == [session : 1 .. MaxSessions, tracked : BOOLEAN, engaged : BOOLEAN,
           open : BOOLEAN, neutral : BOOLEAN, press : Presses]
Neutral == [session |-> 1, tracked |-> FALSE, engaged |-> FALSE, open |-> TRUE,
            neutral |-> TRUE, press |-> 0]
Empty == [frame |-> Neutral, full |-> FALSE, skipped |-> FALSE]
Unarmed == [state |-> "unarmed", anchor |-> 0, validated |-> FALSE, requires |-> FALSE]
NoGate == [handle |-> 0, armed |-> FALSE, previous |-> FALSE, controlling |-> FALSE]
NoSub == [session |-> 0, armed |-> FALSE, cached |-> "none", action |-> Neutral]

TypeOK ==
    /\ managed \in BOOLEAN
    /\ xr \in [up : BOOLEAN, session : 0 .. MaxSessions, engaged : BOOLEAN,
               press : Presses, seen : Handles]
    /\ gate \in [handle : Handles, armed : BOOLEAN, previous : BOOLEAN, controlling : BOOLEAN]
    /\ ctl \in [handle : Handles, granted : Handles, byHub : BOOLEAN,
                state : {"idle", "taking", "requested", "streaming"}]
    /\ wire \in [frame : Frames, full : BOOLEAN, skipped : BOOLEAN]
    /\ sub \in [session : 0 .. MaxSessions, armed : BOOLEAN,
                cached : {"none", "live", "stale"}, action : Frames]
    /\ proc \in [state : {"unarmed", "idle", "engaged", "fault"}, anchor : Presses,
                 validated : BOOLEAN, requires : BOOLEAN]
    /\ script \in [at : {"start", "robot", "stable", "loop", "hold", "disconnect", "exited"},
                   observed : BOOLEAN]
    /\ robot \in [node : {"closed", "hold", "controlling"}, up : BOOLEAN,
                  sent : {"none", "hold", "target"}, from : Presses,
                  byHub : BOOLEAN, lost : BOOLEAN, excused : BOOLEAN, unheld : BOOLEAN]

Init ==
    /\ managed \in BOOLEAN
    /\ xr = [up |-> FALSE, session |-> 0, engaged |-> FALSE, press |-> 0, seen |-> 0]
    /\ gate = NoGate
    /\ ctl = [handle |-> 0, granted |-> 0, byHub |-> FALSE, state |-> "idle"]
    /\ wire = Empty
    /\ sub = NoSub
    /\ proc = Unarmed
    /\ script = [at |-> "start", observed |-> FALSE]
    /\ robot = [node |-> "closed", up |-> FALSE, sent |-> "none", from |-> 0,
                byHub |-> FALSE, lost |-> FALSE, excused |-> FALSE, unheld |-> FALSE]

----------------------------------------------------------------------------
(* The teleop node: one sample, the gate, one frame.                       *)

\* RelativePoseClutch.update and _hand_action: a tracked, full squeeze with a
\* head frame engages at a neutral pose, an open one or no tracking releases.
\* Anything else, "held", keeps what is.
\* With the default thresholds a hand that is engaged is not open, the
\* subscriber's word for both squeezes released.
Engages(tracked, squeeze) == tracked /\ ~xr.engaged /\ squeeze = "full"
StaysEngaged(tracked, squeeze) == tracked /\ xr.engaged /\ squeeze # "open"

Frame(tracked, engaged, first, open, moved) ==
    [session |-> xr.session, tracked |-> tracked, engaged |-> engaged, open |-> open,
     neutral |-> ~(engaged /\ ~first /\ moved),
     press |-> IF ~engaged THEN 0 ELSE IF first THEN xr.press + 1 ELSE xr.press]

\* Authority ends at the Controller: by hand_over, or by the Hub or the clock.
Without(c) == [c EXCEPT !.handle = 0, !.state = "idle", !.byHub = FALSE]

\* _release: hand_over, harmless when the Handle is no longer the Controller's.
Release(g, c) == IF g.controlling /\ c.handle = g.handle THEN Without(c) ELSE c

\* take_over raises when the Handle is gone; a stream that is open stays open.
TakeOver(c) ==
    IF c.state = "streaming" THEN c ELSE [c EXCEPT !.state = "taking", !.byHub = FALSE]

\* Mutant: without tracking a squeeze counts as released.
OpenedUntracked(f) == [NoGate EXCEPT !.handle = ctl.handle, !.armed = TRUE]

\* Open or not tracked: only an open hand that is tracked arms.
Opened(f) == [NoGate EXCEPT !.handle = ctl.handle, !.armed = f.tracked]

\* EngageAuthority.update.  It reads the Handle first; c is the Controller at the
\* calls that follow, whose Handle may be gone by then.
GateUpdate(f, c) ==
    LET g == IF ctl.handle = gate.handle THEN gate ELSE [NoGate EXCEPT !.handle = ctl.handle]
        old == IF ctl.handle = gate.handle THEN c ELSE Release(gate, c)
        press == g.armed /\ ~g.previous /\ ~g.controlling
        taken == press /\ old.handle = ctl.handle
    IN  IF ctl.handle = 0 THEN [gate |-> NoGate, ctl |-> Release(gate, c)]
        ELSE IF f.tracked /\ f.engaged
        THEN [gate |-> [g EXCEPT !.previous = TRUE, !.controlling = @ \/ taken],
              ctl |-> IF taken THEN TakeOver(old) ELSE old]
        ELSE [gate |-> Opened(f), ctl |-> Release(g, old)]

\* A latest-only receiver keeps the newest frame.
Put(f) == [frame |-> f, full |-> TRUE,
           skipped |-> wire.skipped \/ (wire.full /\ ~wire.frame.engaged)]

\* One iteration of TeleopNode.run: the gate comes before the frame.  Managed,
\* the frame is dropped while the stream is not open; the first one after a
\* take-over sends the request for it.  open, a subscriber's word for both hands
\* released, matters to a subscriber only.
Sample ==
    /\ xr.up
    /\ \E tracked, moved, open \in BOOLEAN, squeeze \in {"open", "held", "full"} :
         LET first == Engages(tracked, squeeze)
             engaged == first \/ StaysEngaged(tracked, squeeze)
             f == Frame(tracked, engaged, first, open, moved)
         IN  /\ first => xr.press < MaxPresses
             /\ open => squeeze = "open"
             /\ managed => ~open
             /\ ~tracked => squeeze = "open"
             /\ moved => engaged /\ ~first
             /\ xr' = [xr EXCEPT !.engaged = engaged,
                                 !.press = IF first THEN @ + 1 ELSE @,
                                 !.seen = IF ~tracked THEN 0
                                          ELSE IF engaged THEN @ ELSE ctl.handle]
             /\ IF ~managed
                THEN /\ wire' = IF script.at = "exited" THEN wire ELSE Put(f)
                     /\ UNCHANGED <<gate, ctl>>
                ELSE \E c \in {ctl, Without(ctl)} :
                       LET next == GateUpdate(f, c) IN
                       /\ gate' = next.gate
                       /\ ctl' = IF next.ctl.state # "taking" THEN next.ctl
                                 ELSE [next.ctl EXCEPT !.state = "requested"]
                       /\ wire' = IF next.ctl.state = "streaming" THEN Put(f) ELSE wire
    /\ UNCHANGED <<managed, sub, proc, script, robot>>

\* A session is over when the device fails or a stop is asked for: the gate is
\* reset with a release, the clutch with the device.
EndSession ==
    /\ xr.up
    /\ xr' = [xr EXCEPT !.up = FALSE, !.engaged = FALSE, !.seen = 0]
    /\ gate' = NoGate /\ ctl' = Release(gate, ctl)
    /\ UNCHANGED <<managed, wire, sub, proc, script, robot>>

\* Another one takes longer to open than a Robot takes to read a frame that came
\* and to go stale in control.
StartSession ==
    /\ ~xr.up /\ xr.session < MaxSessions
    /\ managed => ~wire.full /\ robot.node # "controlling"
    /\ xr' = [xr EXCEPT !.up = TRUE, !.session = @ + 1]
    /\ UNCHANGED <<managed, gate, ctl, wire, sub, proc, script, robot>>

----------------------------------------------------------------------------
(* The Hub as the Controller and the Robot see it.                         *)

Grant ==
    /\ managed /\ ctl.handle = 0 /\ ctl.granted < MaxHandles
    /\ ctl' = [ctl EXCEPT !.handle = ctl.granted + 1, !.granted = @ + 1]
    /\ UNCHANGED <<managed, xr, gate, wire, sub, proc, script, robot>>

\* Revocation, expiry, or a hand-over the Hub asks for.
Revoke ==
    /\ ctl.handle # 0
    /\ ctl' = Without(ctl)
    /\ UNCHANGED <<managed, xr, gate, wire, sub, proc, script, robot>>

\* An operator asks for the take-over on the Hub's page.
HubTakeOver ==
    /\ ctl.handle # 0 /\ ctl.state # "streaming"
    /\ ctl' = [ctl EXCEPT !.state = "taking", !.byHub = TRUE]
    /\ UNCHANGED <<managed, xr, gate, wire, sub, proc, script, robot>>

\* reset and arm_after_validated_release.
ArmedAfterRelease == [Unarmed EXCEPT !.state = "idle", !.validated = TRUE]

\* The Robot has prepared the take-over and the Controller opens its stream.
RobotReady ==
    /\ ctl.state = "requested" /\ robot.node # "controlling"
    /\ ctl' = [ctl EXCEPT !.state = "streaming"]
    /\ robot' = [robot EXCEPT !.node = "hold", !.lost = FALSE, !.byHub = ctl.byHub]
    /\ proc' = ArmedAfterRelease
    /\ wire' = Empty
    /\ UNCHANGED <<managed, xr, gate, sub, script>>

\* The Robot Node enters HOLD and closes its receiver (a stale or refused frame,
\* a failed send, hand-over, revocation, expiry); piper_active_hold holds.
RobotHold ==
    /\ robot.node # "closed"
    /\ robot' = [robot EXCEPT !.node = "closed",
                              !.sent = IF robot.node = "controlling" THEN "hold" ELSE @]
    /\ proc' = ArmedAfterRelease
    /\ wire' = Empty
    /\ UNCHANGED <<managed, xr, gate, ctl, sub, script>>

----------------------------------------------------------------------------
(* The processor: its next state and what it sends for one frame.          *)

Fault(p) == [p EXCEPT !.state = "fault", !.requires = TRUE, !.anchor = 0]
Idle(p) == [p EXCEPT !.state = "idle", !.anchor = 0]
Anchored(p, f) == [p EXCEPT !.state = "engaged", !.anchor = f.press, !.validated = FALSE]
Yields(p, act) == [proc |-> p, act |-> act]

\* PiperIsaacRetargetingStep.action; valid is that the hand's numbers are.
Process(p, f, valid) ==
    LET opened == f.tracked /\ ~f.engaged IN
    CASE ~valid -> Yields(Fault(p), IF p.state = "fault" THEN "none" ELSE "hold")
      [] valid /\ p.state = "fault" ->
           Yields(IF opened THEN [Idle(p) EXCEPT !.requires = FALSE] ELSE p, "none")
      [] valid /\ p.state = "unarmed" -> Yields(IF opened THEN Idle(p) ELSE p, "none")
      [] valid /\ p.state = "idle" ->
           IF p.requires THEN Yields([p EXCEPT !.requires = ~opened], "none")
           ELSE IF ~f.tracked
           THEN Yields([p EXCEPT !.validated = FALSE, !.requires = TRUE], "none")
           ELSE IF ~f.engaged THEN Yields(p, "none")
           ELSE IF p.validated \/ f.neutral THEN Yields(Anchored(p, f), "target")
           ELSE Yields(Fault(p), "hold")
      [] valid /\ p.state = "engaged" ->
           IF f.tracked /\ f.engaged THEN Yields(p, "target")
           ELSE Yields([Idle(p) EXCEPT !.requires = ~f.tracked], "hold")

\* What is commanded, and whether a release went unread while the anchor stayed.
Commanded(r, out, f, skipped) ==
    [r EXCEPT !.sent = IF out.act = "none" THEN @ ELSE out.act,
              !.from = IF out.act = "target" THEN f.press ELSE IF out.act = "hold" THEN 0 ELSE @,
              !.lost = managed /\ (@ \/ ~f.tracked),
              !.excused = out.act = "target" /\ proc.state = "engaged" /\ (@ \/ skipped)]

\* RobotNode.run_control_cycle with the Piper processor: no action means HOLD
\* with the receiver left open, and entering HOLD resets the processor.
RobotFrame ==
    /\ robot.node # "closed" /\ wire.full
    /\ wire' = Empty
    /\ \E valid \in BOOLEAN :
         LET f == wire.frame
             out == Process(proc, f, valid)
             r == Commanded(robot, out, f, wire.skipped)
         IN  IF out.act # "none"
             THEN proc' = out.proc /\ robot' = [r EXCEPT !.node = "controlling"]
             ELSE IF robot.node = "controlling"
             THEN proc' = ArmedAfterRelease /\ robot' = [r EXCEPT !.node = "hold", !.sent = "hold"]
             ELSE proc' = out.proc /\ robot' = r
    /\ UNCHANGED <<managed, xr, gate, ctl, sub, script>>

----------------------------------------------------------------------------
(* scripts/teleop.py: the subscriber and the loop.                         *)

\* _accept_frame: another session disarms; both squeezes open arm.  The frames of
\* a node are numbered in order, so none is refused.
Accept(f) ==
    LET armed == f.open \/ (sub.armed /\ f.session = sub.session) IN
    [session |-> f.session, armed |-> armed, cached |-> "live",
     action |-> IF armed THEN [f EXCEPT !.open = TRUE] ELSE Neutral]

Invalidate == [sub EXCEPT !.armed = FALSE, !.cached = "none", !.action = Neutral]

\* connect() waits for the first frame that is accepted.
Subscribe ==
    /\ ~managed /\ script.at = "start" /\ wire.full
    /\ sub' = Accept(wire.frame)
    /\ wire' = Empty
    /\ script' = [script EXCEPT !.at = "robot"]
    /\ UNCHANGED <<managed, xr, gate, ctl, proc, robot>>

ConnectRobot ==
    /\ script.at = "robot"
    /\ robot' = [robot EXCEPT !.up = TRUE]
    /\ script' = [script EXCEPT !.at = "stable"]
    /\ UNCHANGED <<managed, xr, gate, ctl, wire, sub, proc>>

\* wait_for_stable_tcp sends nothing; the processor is reset after it.
Stable ==
    /\ script.at = "stable"
    /\ proc' = Unarmed
    /\ script' = [script EXCEPT !.at = "loop"]
    /\ UNCHANGED <<managed, xr, gate, ctl, wire, sub, robot>>

\* One of the three fails, or is interrupted.
StartFails ==
    /\ ~managed /\ script.at \in {"start", "robot", "stable"}
    /\ script' = [script EXCEPT !.at = "disconnect"]
    /\ UNCHANGED <<managed, xr, gate, ctl, wire, sub, proc, robot>>

\* One iteration: an observation, get_action, the processor, send_action.
Iterate ==
    /\ script.at = "loop"
    /\ \E garbled, valid, fails \in BOOLEAN :
         /\ garbled => wire.full
         /\ sub' = CASE garbled -> Invalidate
                     [] wire.full /\ ~garbled -> Accept(wire.frame)
                     [] ~wire.full -> [sub EXCEPT !.armed = @ /\ sub.cached = "live"]
         /\ wire' = Empty
         /\ LET f == IF sub'.cached = "live" THEN sub'.action ELSE Neutral
                out == Process(proc, f, valid)
            IN  /\ fails => out.act # "none"
                /\ proc' = out.proc
                /\ robot' = IF fails THEN [robot EXCEPT !.unheld = out.act = "hold"]
                            ELSE Commanded(robot, out, f, wire.skipped)
                /\ script' = [at |-> IF fails THEN "hold" ELSE "loop", observed |-> TRUE]
    /\ UNCHANGED <<managed, xr, gate, ctl>>

\* Nothing arrives for stale_after_s.
Expire ==
    /\ sub.cached = "live" /\ ~wire.full
    /\ sub' = [sub EXCEPT !.cached = "stale"]
    /\ UNCHANGED <<managed, xr, gate, ctl, wire, proc, script, robot>>

\* Mutant: nothing is sent to a loop's robot any more.
LoopEndsAtOnce ==
    /\ script.at = "loop"
    /\ script' = [script EXCEPT !.at = "disconnect"]
    /\ UNCHANGED <<managed, xr, gate, ctl, wire, sub, proc, robot>>

\* The loop ends: its frames are done, it is interrupted, or an observation
\* fails; a camera's time-out still hands over what it had read.
LoopEnds ==
    /\ script.at = "loop"
    /\ \E camera \in BOOLEAN :
         script' = [at |-> "hold", observed |-> script.observed \/ camera]
    /\ UNCHANGED <<managed, xr, gate, ctl, wire, sub, proc, robot>>

\* _attempt_termination_hold: once, at the last pose that was measured.
TerminationHold ==
    /\ script.at = "hold"
    /\ script' = [script EXCEPT !.at = "disconnect"]
    /\ robot' \in IF script.observed
                  THEN {[robot EXCEPT !.sent = "hold"], [robot EXCEPT !.unheld = TRUE]}
                  ELSE {robot}
    /\ UNCHANGED <<managed, xr, gate, ctl, wire, sub, proc>>

\* Either end is disconnected whatever the other one does; the receiver closes.
Disconnect ==
    /\ script.at = "disconnect"
    /\ script' = [script EXCEPT !.at = "exited"]
    /\ sub' = NoSub
    /\ wire' = Empty
    /\ robot' = [robot EXCEPT !.up = FALSE]
    /\ UNCHANGED <<managed, xr, gate, ctl, proc>>

----------------------------------------------------------------------------
ScriptStep ==
    \/ Subscribe \/ ConnectRobot \/ Stable \/ Iterate
    \/ TerminationHold \/ Disconnect

Next ==
    \/ Sample \/ EndSession \/ StartSession
    \/ Grant \/ Revoke \/ HubTakeOver \/ RobotReady \/ RobotHold \/ RobotFrame
    \/ ScriptStep \/ StartFails \/ Expire \/ LoopEnds

Spec == Init /\ [][Next]_vars

\* The loop runs at its rate, and time passes while nothing arrives.
Fairness == WF_vars(ScriptStep) /\ WF_vars(Expire)

----------------------------------------------------------------------------
\* No jump: a target is the anchor plus a displacement of the same squeeze, in
\* whatever order squeezes, sessions, stale frames and take-overs come, unless
\* the release in between was overwritten before it was read.
SameSqueeze ==
    proc.state = "engaged" /\ robot.sent = "target" =>
        robot.from = proc.anchor \/ robot.excused

\* Whenever the processor is not following the hand, the last command was a
\* hold, unless the hold itself failed.
HeldUnlessEngaged == proc.state # "engaged" => robot.sent # "target" \/ robot.unheld

\* The gate has authority only over a Handle for which the hand was seen open,
\* tracked ever since, and squeezed now; what it took is gone with the squeeze.
GateNeedsRelease ==
    /\ gate.controlling => xr.seen = gate.handle /\ xr.engaged
    /\ managed /\ ctl.state # "idle" /\ ~ctl.byHub => xr.engaged

\* Under a take-over by the gate, nothing moves the arm after a frame without
\* tracking until another take-over.
LossStopsMotion ==
    managed /\ robot.lost /\ ~robot.byHub => robot.sent # "target"

\* README.md:28 says so of every take-over.
MotionNeedsTakeOver == managed /\ robot.lost => robot.sent # "target"

\* The script ends with the robot released and its motion stopped, unless the
\* hold itself failed.
TeardownAccounted ==
    script.at = "exited" => ~robot.up /\ (robot.sent = "target" => robot.unheld)

\* When the node goes silent the arm is held or the loop ends.
Silent == script.at = "loop" /\ ~xr.up /\ robot.sent = "target"
SilenceHolds == Silent ~> ~Silent
=============================================================================
