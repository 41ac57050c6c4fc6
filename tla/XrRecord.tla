------------------------------ MODULE XrRecord ------------------------------
(***************************************************************************)
(* Recording a JAKA arm under XR teleoperation, examples/                   *)
(* isaac_teleop_to_jaka: the device bundle of xr.py (clutch, head anchor)   *)
(* and the loop of record.py (hold latch, gripper toggle, controller        *)
(* buttons, episode state, Servo on the deadman, reset, teardown).  The     *)
(* keyboard listener, the operator and signals act at any step.  The robot  *)
(* is external here: JakaProcess says what its operations do.               *)
(***************************************************************************)
EXTENDS Naturals, FiniteSets

CONSTANTS
    NumEpisodes,   \* cfg.dataset.num_episodes
    MaxTakes,      \* bound: recordings begun
    Keyboard       \* the keys the operator presses on the keyboard

VARIABLES
    loop,      \* where the recorder is
    keys,      \* keyboard events set by the listener thread
    clutch,    \* xr.py: [enabled, home]: home is the pose targets start from
    button,    \* A and B: [down, fired]; sent is history: commands of this press
    grip,      \* TriggerGripperToggle: [pressed, target, send]; applied is the gripper's
    hold,      \* HoldLatch: the pose held while idle
    episode,   \* [state, take, finished]
    data,      \* takes whose frames are pending, saved or thrown away
    hw         \* [attached, reachable, servo, cut]

vars == <<loop, keys, clutch, button, grip, hold, episode, data, hw>>

Keys == {"toggle", "pause", "reset", "rerecord", "stop"}
Poses == {"none", "fresh", "stale"}
Takes == 1 .. MaxTakes

TypeOK ==
    /\ loop \in {"top", "reset", "send", "saving", "cleanup", "disconnect", "fallback",
                 "exited"}
    /\ keys \in SUBSET Keys
    /\ clutch \in [enabled : BOOLEAN, home : Poses]
    /\ button \in [{"a", "b"} -> [down : BOOLEAN, fired : BOOLEAN, sent : 0 .. 2]]
    /\ grip \in [pressed : BOOLEAN, target : BOOLEAN, send : BOOLEAN, applied : BOOLEAN,
                 dropped : BOOLEAN]
    /\ hold \in Poses
    /\ episode \in [state : {"ready", "recording", "pause"}, take : 0 .. MaxTakes,
                    finished : BOOLEAN]
    /\ data \in [pending : SUBSET Takes, saved : SUBSET (SUBSET Takes),
                 discarded : SUBSET Takes]
    /\ hw \in [attached : BOOLEAN, reachable : BOOLEAN, servo : BOOLEAN, cut : BOOLEAN]

Up == [down |-> FALSE, fired |-> FALSE, sent |-> 0]

AllUp == [b \in {"a", "b"} |-> Up]
Open == [enabled |-> FALSE, home |-> "none"]
NoPress == [pressed |-> FALSE, target |-> FALSE, send |-> FALSE, applied |-> FALSE,
            dropped |-> FALSE]

Init ==
    /\ loop = "top"
    /\ keys = {}
    /\ clutch = Open
    /\ button = AllUp
    /\ grip = NoPress
    /\ hold = "none"
    /\ episode = [state |-> "ready", take |-> 0, finished |-> FALSE]
    /\ data = [pending |-> {}, saved |-> {}, discarded |-> {}]
    /\ hw = [attached |-> TRUE, reachable |-> TRUE, servo |-> FALSE, cut |-> FALSE]

Active == episode.state \in {"recording", "pause"}

\* The loop is left for the teardown, in whatever state: what the device, the
\* buttons, the toggle and the latches hold is not used again.
LeaveLoop ==
    /\ loop' = "cleanup"
    /\ clutch' = Open /\ button' = AllUp /\ grip' = NoPress /\ hold' = "none"
    /\ episode' = [episode EXCEPT !.state = "ready", !.finished = FALSE]

\* The arm has moved on its own account since a pose was measured.
Moved(pose) == IF pose = "none" THEN "none" ELSE "stale"

----------------------------------------------------------------------------
(* The inputs of an iteration: compute(), the gripper, the buttons.        *)

\* compute(): closing the clutch needs a head anchor, latched while it closes;
\* the home is the pose just measured on that edge.
Compute(squeeze, head) ==
    LET closed == squeeze /\ (clutch.enabled \/ head) IN
    [enabled |-> closed,
     home |-> IF ~closed THEN "none" ELSE IF clutch.enabled THEN clutch.home ELSE "fresh"]

\* The first idle iteration measures the pose that is held.
Resolve(closed) == IF closed THEN "none" ELSE IF hold = "none" THEN "fresh" ELSE hold

\* One toggle of the gripper for one press of the trigger.
Toggle(trigger) ==
    LET press == trigger /\ ~grip.pressed IN
    [grip EXCEPT !.pressed = trigger, !.send = press,
                 !.target = IF press THEN ~@ ELSE @]

\* ControllerButtons.update: A asks to rerecord while it is held long, else to
\* start or end on its release; B asks for a reset when held long, else to
\* pause on its release.  Without tracking a press is forgotten.
Commands(b, tracking, down, long) ==
    LET s == button[b]
        held == s.down /\ ~s.fired /\ down /\ long
        released == s.down /\ ~s.fired /\ ~down
    IN  IF ~tracking \/ ~(held \/ released) THEN {}
        ELSE IF b = "a" THEN {IF held THEN "rerecord" ELSE "toggle"}
        ELSE {IF long THEN "reset" ELSE "pause"}

\* Mutant: a press that has given its command gives another one.
AfterPressAgain(b, tracking, down, fires) ==
    LET s == button[b] IN
    IF ~tracking THEN Up
    ELSE [down |-> down, fired |-> FALSE,
          sent |-> IF ~s.down THEN 0 ELSE IF fires /\ s.sent < 2 THEN s.sent + 1 ELSE s.sent]

\* A press starts over with the tracking that was lost; sent counts
\* the commands of the press, its release included.
AfterPress(b, tracking, down, fires) ==
    LET s == button[b] IN
    IF ~tracking THEN Up
    ELSE [down |-> down, fired |-> down /\ (s.fired \/ fires),
          sent |-> IF ~s.down THEN 0 ELSE IF fires THEN s.sent + 1 ELSE s.sent]

\* Rerecord throws the pending frames away; toggle starts or ends a take; reset
\* throws the pending frames away and is carried out next; pause comes last,
\* and then the end of the time of the take.
ApplyCommands(cmd) ==
    LET discard == "rerecord" \in cmd
        toggle == "toggle" \in cmd /\ ~discard
        starts == toggle /\ ~Active
        ends == toggle /\ Active
        reset == "reset" \in cmd
        pause == "pause" \in cmd /\ ~discard /\ ~toggle
        state == CASE discard \/ ends -> "ready"
                   [] starts -> "recording"
                   [] pause /\ episode.state = "recording" -> "pause"
                   [] pause /\ episode.state = "pause" -> "recording"
                   [] OTHER -> episode.state
    IN  /\ starts => episode.take < MaxTakes
        /\ \E timeUp \in {FALSE, ~reset /\ state = "recording"} :
             episode' = [state |-> IF reset \/ timeUp THEN "ready" ELSE state,
                         take |-> IF starts THEN episode.take + 1 ELSE episode.take,
                         finished |-> ~reset /\ (ends \/ timeUp)]
        /\ data' = IF ~discard /\ ~reset THEN data
                   ELSE [data EXCEPT !.pending = {},
                                     !.discarded = IF Active THEN @ \cup {episode.take} ELSE @]
        /\ loop' = IF reset THEN "reset" ELSE "send"

Iterate ==
    /\ loop = "top" /\ "stop" \notin keys /\ hw.reachable
    /\ \E tracking, squeeze, head, trigger, long \in BOOLEAN, down \in SUBSET {"a", "b"} :
         /\ ~tracking => ~squeeze /\ ~trigger /\ down = {}
         /\ ~squeeze => ~head
         /\ clutch' = Compute(squeeze, head)
         /\ hold' = Resolve(clutch'.enabled)
         /\ grip' = Toggle(trigger)
         /\ LET cmd(b) == Commands(b, tracking, b \in down, long) IN
              /\ button' = [b \in {"a", "b"} |->
                              AfterPress(b, tracking, b \in down, cmd(b) # {})]
              /\ ApplyCommands(cmd("a") \cup cmd("b") \cup keys)
    /\ keys' = {}
    /\ UNCHANGED hw

----------------------------------------------------------------------------
(* What the iteration does to the robot and to the dataset.                *)

\* Mutant: only the pose is kept, as if the squeeze went on.
RearmNothing == [clutch EXCEPT !.home = Moved(@)]

\* rearm(): an open clutch; the arm has moved meanwhile.
Rearm == [enabled |-> FALSE, home |-> Moved(clutch.home)]

\* A HoldLatch that holds nothing.
NewHold == "none"

\* _reset_robot: Servo Move is left, then one planned move is made; the clutch
\* is re-armed and a new hold latch is taken.  The gripper command of this
\* iteration is not sent.
Reset ==
    /\ loop = "reset" /\ hw.reachable
    /\ hw' = [hw EXCEPT !.servo = FALSE]
    /\ clutch' = Rearm
    /\ hold' = NewHold
    /\ grip' = [grip EXCEPT !.send = FALSE, !.dropped = @ \/ grip.send]
    /\ loop' = "top"
    /\ UNCHANGED <<keys, button, episode, data>>

\* Mutant: Servo is not left when the deadman is let go.
ServoKept == hw.servo \/ clutch.enabled

\* robot.servo_enable on either side of the deadman.
ServoWanted == clutch.enabled

\* _send_action_for_clutch_state: Cartesian Servo only while the deadman is
\* engaged; the gripper command goes out either way.  A frame of a take that is
\* recording is then kept when its images are complete.
Send ==
    /\ loop = "send" /\ hw.reachable
    /\ hw' = [hw EXCEPT !.servo = ServoWanted]
    /\ grip' = IF grip.send
               THEN [grip EXCEPT !.send = FALSE, !.applied = grip.target, !.dropped = FALSE]
               ELSE grip
    /\ \E frameOk \in BOOLEAN :
         data' = [data EXCEPT !.pending =
                    IF frameOk /\ episode.state = "recording" THEN @ \cup {episode.take} ELSE @]
    /\ loop' = IF episode.finished THEN "saving" ELSE "top"
    /\ UNCHANGED <<keys, clutch, button, hold, episode>>

\* record(): a completed take with frames is saved, then the loop is entered
\* again with a new episode controller and a new hold latch.  Saving blocks;
\* with Servo engaged its owner process may give up meanwhile.
Save ==
    /\ loop = "saving" /\ "stop" \notin keys
    /\ data' = [data EXCEPT !.pending = {},
                            !.saved = IF data.pending = {} THEN @ ELSE @ \cup {data.pending}]
    /\ hw' \in {hw, IF hw.servo THEN [hw EXCEPT !.reachable = FALSE, !.servo = FALSE] ELSE hw}
    /\ IF Cardinality(data'.saved) = NumEpisodes THEN LeaveLoop
       ELSE /\ loop' = "top"
            /\ episode' = [episode EXCEPT !.state = "ready", !.finished = FALSE]
            /\ hold' = NewHold
            /\ UNCHANGED <<clutch, button, grip>>
    /\ UNCHANGED keys

\* The stop event is seen in the loop, where the pending frames are thrown
\* away, or between the loop and the save.
Stop ==
    /\ loop \in {"top", "saving"} /\ "stop" \in keys
    /\ data' = IF loop = "saving" THEN data ELSE [data EXCEPT !.pending = {}]
    /\ LeaveLoop
    /\ UNCHANGED <<keys, hw>>

\* An operation of the robot or of the teleoperator raises.
Raise ==
    /\ loop \in {"top", "reset", "send"}
    /\ LeaveLoop
    /\ UNCHANGED <<keys, data, hw>>

----------------------------------------------------------------------------
(* Teardown, the keyboard, signals and the hardware.                       *)

\* stop_hardware_now, first half: Servo Move is left if the robot answers; the
\* XR session is closed whatever happened.
Cleanup ==
    /\ loop = "cleanup"
    /\ hw' \in {hw, [hw EXCEPT !.servo = @ /\ ~hw.reachable]}
    /\ loop' = "disconnect"
    /\ UNCHANGED <<keys, clutch, button, grip, hold, episode, data>>

\* Second half: the robot is disconnected if is_connected.
DisconnectRobot ==
    /\ loop = "disconnect"
    /\ hw' = IF hw.reachable THEN [hw EXCEPT !.attached = FALSE, !.servo = FALSE] ELSE hw
    /\ loop' = "fallback"
    /\ UNCHANGED <<keys, clutch, button, grip, hold, episode, data>>

\* The outer finally calls it again; it has already run.
Fallback ==
    /\ loop = "fallback"
    /\ loop' = "exited"
    /\ UNCHANGED <<keys, clutch, button, grip, hold, episode, data, hw>>

\* SIGINT or SIGTERM: KeyboardInterrupt.  The teardown suppresses exceptions,
\* which that is not, and will not run a second time.
Interrupt ==
    /\ loop \notin {"fallback", "exited"}
    /\ IF loop \in {"cleanup", "disconnect"}
       THEN /\ loop' = "fallback"
            /\ hw' = [hw EXCEPT !.cut = TRUE]
            /\ UNCHANGED <<clutch, button, grip, hold, episode>>
       ELSE LeaveLoop /\ UNCHANGED hw
    /\ UNCHANGED <<keys, data>>

\* The listener thread; "stop" also ends what is in progress.
Key(k) ==
    /\ loop \notin {"cleanup", "disconnect", "fallback", "exited"} /\ k \notin keys
    /\ keys' = keys \cup {k}
    /\ UNCHANGED <<loop, clutch, button, grip, hold, episode, data, hw>>

\* A camera or the owner process goes away: is_connected is False.
HardwareLost ==
    /\ hw.reachable /\ hw.attached /\ loop # "exited"
    /\ hw' = [hw EXCEPT !.reachable = FALSE]
    /\ UNCHANGED <<loop, keys, clutch, button, grip, hold, episode, data>>

----------------------------------------------------------------------------
LoopStep ==
    \/ Iterate \/ Reset \/ Send \/ Save \/ Stop \/ Raise
    \/ Cleanup \/ DisconnectRobot \/ Fallback

Next == LoopStep \/ Interrupt \/ HardwareLost \/ \E k \in Keyboard : Key(k)

Spec == Init /\ [][Next]_vars
FairSpec == Spec /\ WF_vars(LoopStep)

----------------------------------------------------------------------------
\* No jump: a target sent while the clutch is engaged starts from a pose
\* measured after the arm last moved by itself, and the pose recorded while it
\* is idle is no older, whenever a reset falls within a squeeze.
PosesAreFresh ==
    loop = "send" => IF clutch.enabled THEN clutch.home = "fresh" ELSE hold = "fresh"

\* Between two iterations the arm is in Servo Move exactly when the deadman was
\* engaged in the last one, resets and saves included.
ServoOnDeadman == loop = "top" /\ hw.reachable => (hw.servo <=> clutch.enabled)

\* Every saved episode is one take that nobody threw away, and no frame of an
\* earlier take waits in the buffer of the current one.
TakesWhole ==
    /\ \A s \in data.saved : Cardinality(s) = 1 /\ s \cap data.discarded = {}
    /\ Active => data.pending \subseteq {episode.take}

\* One press of A or B gives at most one command while it is tracked, and the
\* gripper is where the toggle says, except after a press in the iteration of
\* a reset, until the next press.
PressesCounted ==
    /\ \A b \in {"a", "b"} : button[b].sent <= 1
    /\ grip.applied = grip.target \/ grip.send \/ grip.dropped

\* The recorder ends with the robot disconnected and out of Servo Move, unless
\* it could not be reached any more or the teardown itself was interrupted.
TeardownAccounted ==
    loop = "exited" => (~hw.attached /\ ~hw.servo) \/ ~hw.reachable \/ hw.cut

\* Once stop is pressed the recorder ends.
StopPressed == "stop" \in keys
Ended == loop = "exited"
StopEnds == StopPressed ~> Ended
=============================================================================
