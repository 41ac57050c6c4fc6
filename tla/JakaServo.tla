----------------------------- MODULE JakaServo -----------------------------
(***************************************************************************)
(* The JAKA adapter with its Servo sender in a thread (config.servo_process *)
(* is False): robots/jaka_robot/jaka_robot.py.  One caller drives connect,  *)
(* disconnect, servo_enable, disable_robot and send_action; every Servo     *)
(* session starts a sender thread that streams frames through the same SDK  *)
(* handle, under the same lock.  The controller and its SDK are external:   *)
(* a call may fail, or block for longer than the adapter is ready to wait.  *)
(***************************************************************************)
EXTENDS Naturals, FiniteSets

CONSTANTS
    MaxSenders,     \* bound: sender threads started in a behaviour
    TargetTimeout,  \* servo_target_timeout_s when it is set, in ticks
    DisableOnExit   \* config.disable_on_disconnect

VARIABLES
    caller,    \* [at, op]: where the caller is and what it runs
    link,      \* [rc, camera, owned]: rc # None, cameras up, _enabled_by_driver
    servo,     \* the attributes under _servo_state_lock
    sender,    \* sender thread |-> where it is
    age,       \* ticks since the target was replaced
    watchdog,  \* servo_target_timeout_s is set; it is None by default
    arm,       \* the controller: [servo, enabled]
    excused    \* history: how Servo Move was knowingly left on

vars == <<caller, link, servo, sender, age, watchdog, arm, excused>>

Senders == 1 .. MaxSenders
None == 0
Ops == {"none", "connect", "enable", "disable", "disable_robot", "disconnect"}

TypeOK ==
    /\ caller \in [at : {"idle", "entering", "starting", "waiting", "stopping",
                         "leaving", "disabling", "releasing"},
                   op : Ops]
    /\ link \in [rc : BOOLEAN, camera : BOOLEAN, owned : BOOLEAN]
    /\ servo \in [active : BOOLEAN, stop : BOOLEAN, thread : Senders \cup {None},
                  ready : {"none", "waiting", "sent", "failed"},
                  target : {"none", "joints", "eef"},
                  commanded : {"none", "joints", "eef"}]
    /\ sender \in [Senders -> {"none", "loop", "calling", "quitting", "dead"}]
    /\ age \in 0 .. TargetTimeout + 1 /\ watchdog \in BOOLEAN
    /\ arm \in [servo : BOOLEAN, enabled : BOOLEAN]
    /\ excused \in [refused : BOOLEAN, stuck : BOOLEAN, abandoned : BOOLEAN]

Init ==
    /\ caller = [at |-> "idle", op |-> "none"]
    /\ link = [rc |-> FALSE, camera |-> FALSE, owned |-> FALSE]
    /\ servo = [active |-> FALSE, stop |-> FALSE, thread |-> None,
                ready |-> "none", target |-> "none", commanded |-> "none"]
    /\ sender = [w \in Senders |-> "none"]
    /\ age = 0 /\ watchdog \in BOOLEAN
    /\ arm \in [servo : {FALSE}, enabled : BOOLEAN]
    /\ excused = [refused |-> FALSE, stuck |-> FALSE, abandoned |-> FALSE]

----------------------------------------------------------------------------
(* Helpers.                                                                *)

\* is_connected: the SDK handle and every camera.
IsConnected == link.rc /\ link.camera

Alive(w) == w # None /\ sender[w] \in {"loop", "calling", "quitting"}

\* _sdk_lock is free: no sender is inside an SDK call.
SdkFree == \A w \in Senders : sender[w] # "calling"

Idle(op) == caller.at = "idle" /\ (op = "disconnect" \/ IsConnected)

Return == caller' = [at |-> "idle", op |-> "none"]

At(where) == caller' = [caller EXCEPT !.at = where]

\* An exception out of _set_servo(True), where _servo_active is False:
\* connect() answers it by disconnect(), which then does not leave Servo Move.
RaiseFromEnable ==
    IF caller.op = "connect"
    THEN caller' = [caller EXCEPT !.op = "disconnect", !.at = "releasing"]
    ELSE Return

\* The bound: a session is begun only while a sender is left for it.
Spare == \E w \in Senders : sender[w] = "none"

----------------------------------------------------------------------------
(* connect and disconnect.                                                 *)

\* connect(): log in, enable the robot when it is not, attach the cameras; a
\* failure after the login runs disconnect().  auto_enable_servo then calls
\* servo_enable(True), which returns at once while _servo_active is set.
Connect ==
    /\ caller.at = "idle" /\ ~IsConnected
    /\ \/ /\ servo.active \/ Spare
          /\ caller' = [at |-> IF servo.active THEN "idle" ELSE "entering",
                        op |-> IF servo.active THEN "none" ELSE "connect"]
          /\ link' = [rc |-> TRUE, camera |-> TRUE,
                      owned |-> link.owned \/ ~arm.enabled]
          /\ arm' = [arm EXCEPT !.enabled = TRUE]
          /\ UNCHANGED servo
       \/ /\ link' = [link EXCEPT !.rc = TRUE]
          /\ caller' = [caller EXCEPT !.op = "disconnect",
                                      !.at = IF servo.active THEN "stopping" ELSE "releasing"]
          /\ servo' = [servo EXCEPT !.stop = servo.active \/ @]
          /\ UNCHANGED arm
       \/ /\ Return
          /\ UNCHANGED <<link, arm, servo>>
    /\ UNCHANGED <<sender, age, excused>>

\* disconnect(): Servo Move is left first, but only if _servo_active says so.
Disconnect ==
    /\ Idle("disconnect") /\ link.rc
    /\ caller' = [caller EXCEPT !.op = "disconnect",
                                !.at = IF servo.active THEN "stopping" ELSE "releasing"]
    /\ servo' = [servo EXCEPT !.stop = servo.active \/ @]
    /\ UNCHANGED <<link, sender, age, arm, excused>>

\* The rest of disconnect(): the robot is disabled if this adapter enabled it
\* and the configuration asks for it, without the SDK lock; a refusal skips the
\* logout, and the state is cleared whatever happened.
Release ==
    /\ caller.at = "releasing"
    /\ arm' \in {arm, [arm EXCEPT !.enabled = @ /\ ~(link.owned /\ DisableOnExit)]}
    /\ link' = [rc |-> FALSE, camera |-> FALSE, owned |-> FALSE]
    /\ servo' = [servo EXCEPT !.active = FALSE]
    /\ excused' = [excused EXCEPT !.abandoned = @ \/ Alive(servo.thread)]
    /\ Return
    /\ UNCHANGED <<sender, age>>

\* A camera goes away while the SDK handle stays.
CameraDrops ==
    /\ link.camera /\ caller.at = "idle"
    /\ link' = [link EXCEPT !.camera = FALSE]
    /\ UNCHANGED <<caller, servo, sender, age, arm, excused>>

----------------------------------------------------------------------------
(* servo_enable(True).                                                     *)

\* Mutant: a session that is running is not noticed.
ServoEnableAgain ==
    /\ Idle("enable")
    /\ \/ /\ SdkFree /\ Spare
          /\ caller' = [caller EXCEPT !.at = "entering", !.op = "enable"]
       \/ ~servo.active /\ Return
    /\ UNCHANGED <<link, servo, sender, age, arm, excused>>

\* Nothing to do while _servo_active is set; otherwise feedback is read first,
\* which may fail.
ServoEnable ==
    /\ Idle("enable")
    /\ \/ servo.active /\ Return
       \/ /\ ~servo.active /\ SdkFree /\ Spare
          /\ caller' = [caller EXCEPT !.at = "entering", !.op = "enable"]
       \/ ~servo.active /\ Return
    /\ UNCHANGED <<link, servo, sender, age, arm, excused>>

\* _set_controller_servo(True), under the SDK lock.
EnterServo ==
    /\ caller.at = "entering" /\ SdkFree
    /\ \/ /\ arm' = [arm EXCEPT !.servo = TRUE]
          /\ At("starting")
       \/ RaiseFromEnable /\ UNCHANGED arm
    /\ UNCHANGED <<link, servo, sender, age, excused>>

\* The session's attributes are set and its sender thread is started.  The one
\* stop event of the object is cleared and used again.
StartSender ==
    /\ caller.at = "starting"
    /\ \E w \in Senders, rep \in {"joints", "eef"} :
         /\ \A v \in Senders : sender[v] = "none" <=> v >= w
         /\ sender' = [sender EXCEPT ![w] = "loop"]
         /\ servo' = [active |-> TRUE, stop |-> FALSE, thread |-> w, ready |-> "waiting",
                      target |-> rep, commanded |-> rep]
    /\ age' = 0
    /\ At("waiting")
    /\ UNCHANGED <<link, arm, excused>>

\* The caller waits for the first frame, or for the sender's failure.
AwaitFirstFrame ==
    /\ caller.at = "waiting" /\ servo.ready \in {"sent", "failed"}
    /\ IF servo.ready = "sent" THEN Return ELSE RaiseFromEnable
    /\ UNCHANGED <<link, servo, sender, age, arm, excused>>

\* The wait ends first: the session is torn down with errors suppressed.
FirstFrameTimeout ==
    /\ caller.at = "waiting" /\ servo.ready = "waiting"
    /\ servo' = [servo EXCEPT !.stop = TRUE]
    /\ At("stopping")
    /\ UNCHANGED <<link, sender, age, arm, excused>>

----------------------------------------------------------------------------
(* servo_enable(False) and disable_robot.                                  *)

Suppressed == caller.op \notin {"disable", "disable_robot"}

ServoDisable ==
    /\ Idle("disable")
    /\ IF ~servo.active /\ ~Alive(servo.thread)
       THEN Return /\ UNCHANGED servo
       ELSE /\ servo' = [servo EXCEPT !.stop = TRUE]
            /\ caller' = [caller EXCEPT !.at = "stopping", !.op = "disable"]
    /\ UNCHANGED <<link, sender, age, arm, excused>>

DisableRobot ==
    /\ Idle("disable_robot")
    /\ servo' = [servo EXCEPT !.stop = servo.active \/ @]
    /\ caller' = [caller EXCEPT !.op = "disable_robot",
                                !.at = IF servo.active THEN "stopping" ELSE "disabling"]
    /\ UNCHANGED <<link, sender, age, arm, excused>>

\* Where _set_servo(False) returns to, by the operation that called it.
AfterStop(failed) ==
    CASE caller.op = "disconnect" -> At("releasing")
      [] caller.op = "connect" -> caller' = [caller EXCEPT !.at = "releasing",
                                                           !.op = "disconnect"]
      [] caller.op = "disable_robot" /\ ~failed -> At("disabling")
      [] OTHER -> Return

JoinSender ==
    /\ caller.at = "stopping" /\ ~Alive(servo.thread)
    /\ At("leaving")
    /\ UNCHANGED <<link, servo, sender, age, arm, excused>>

\* The join times out: the controller's mode is not touched, the session's
\* attributes stay, and the operation fails, or goes on when errors are
\* suppressed.  A connect() whose start timed out this way runs disconnect().
JoinTimeout ==
    /\ caller.at = "stopping" /\ Alive(servo.thread)
    /\ excused' = [excused EXCEPT !.stuck = TRUE]
    /\ IF caller.op = "connect"
       THEN caller' = [caller EXCEPT !.op = "disconnect", !.at = "stopping"]
       ELSE AfterStop(TRUE)
    /\ UNCHANGED <<link, servo, sender, age, arm>>

\* _set_controller_servo(False); whether or not it is refused, the attributes
\* of the session are cleared.
LeaveServo ==
    /\ caller.at = "leaving" /\ SdkFree
    /\ \E ok \in BOOLEAN :
         /\ arm' = IF ok THEN [arm EXCEPT !.servo = FALSE] ELSE arm
         /\ excused' = [excused EXCEPT !.refused = @ \/ ~ok]
         /\ AfterStop(~ok)
    /\ servo' = [servo EXCEPT !.active = FALSE, !.thread = None, !.ready = "none",
                              !.target = "none", !.commanded = "none"]
    /\ UNCHANGED <<link, sender, age>>

DisableController ==
    /\ caller.at = "disabling" /\ SdkFree
    /\ \/ /\ arm' = [arm EXCEPT !.enabled = FALSE]
          /\ link' = [link EXCEPT !.owned = FALSE]
          /\ Return
       \/ Return /\ UNCHANGED <<arm, link>>
    /\ UNCHANGED <<servo, sender, age, excused>>

----------------------------------------------------------------------------
(* send_action(use_servo=True).                                            *)

\* Refused unless Servo is on and its sender lives; a change of representation
\* starts again from the measured position.
SendTarget ==
    /\ Idle("send")
    /\ \/ /\ servo.active /\ Alive(servo.thread)
          /\ \E rep \in {"joints", "eef"} :
               servo' = [servo EXCEPT !.target = rep,
                                      !.commanded = IF servo.target # rep THEN rep ELSE @]
          /\ age' = 0
          /\ Return
       \/ /\ ~(servo.active /\ Alive(servo.thread))
          /\ Return
          /\ UNCHANGED <<servo, age>>
    /\ UNCHANGED <<link, sender, arm, excused>>

----------------------------------------------------------------------------
(* The sender thread.                                                      *)

SenderStops(w) ==
    /\ sender[w] = "loop" /\ servo.stop
    /\ sender' = [sender EXCEPT ![w] = "dead"]
    /\ UNCHANGED <<caller, link, servo, age, arm, excused>>

\* _fail_servo_worker, the part under the lock: the session is over and a
\* waiting servo_enable is told; Servo Move is left afterwards.
FailSender(w) ==
    /\ sender' = [sender EXCEPT ![w] = "quitting"]
    /\ servo' = [servo EXCEPT !.active = FALSE, !.stop = TRUE,
                              !.ready = IF @ = "waiting" THEN "failed" ELSE @]

\* One period: a watchdog (target too old, when that is configured, or too many
\* overruns), a missing target or a missing handle ends the session; otherwise
\* the frame goes to the SDK.
SenderFrame(w) ==
    /\ sender[w] = "loop" /\ ~servo.stop
    /\ \/ FailSender(w)
       \/ /\ watchdog => age <= TargetTimeout
          /\ servo.target # "none" /\ link.rc
          /\ SdkFree
          /\ sender' = [sender EXCEPT ![w] = "calling"]
          /\ UNCHANGED servo
    /\ UNCHANGED <<caller, link, age, arm, excused>>

\* The SDK call returns; out of Servo Move the controller refuses the frame.
FrameReturns(w) ==
    /\ sender[w] = "calling"
    /\ \/ /\ arm.servo
          /\ sender' = [sender EXCEPT ![w] = "loop"]
          /\ servo' = [servo EXCEPT !.ready = IF @ = "waiting" THEN "sent" ELSE @]
       \/ FailSender(w)
    /\ UNCHANGED <<caller, link, age, arm, excused>>

\* The end of _fail_servo_worker, outside the lock: leave Servo Move; a refusal
\* or a missing handle is only logged.
SenderLeaves(w) ==
    /\ sender[w] = "quitting" /\ SdkFree
    /\ \E ok \in {link.rc, FALSE} :
         /\ arm' = IF ok THEN [arm EXCEPT !.servo = FALSE] ELSE arm
         /\ excused' = [excused EXCEPT !.refused = @ \/ ~ok]
    /\ sender' = [sender EXCEPT ![w] = "dead"]
    /\ UNCHANGED <<caller, link, servo, age>>

Tick ==
    /\ servo.active /\ age <= TargetTimeout
    /\ age' = age + 1
    /\ UNCHANGED <<caller, link, servo, sender, arm, excused>>

----------------------------------------------------------------------------
SenderStep(w) == SenderStops(w) \/ SenderFrame(w) \/ FrameReturns(w) \/ SenderLeaves(w)

\* Steps inside an operation that was called.
CallerStep ==
    \/ Release \/ EnterServo \/ StartSender \/ AwaitFirstFrame \/ FirstFrameTimeout
    \/ JoinSender \/ JoinTimeout \/ LeaveServo \/ DisableController

Next ==
    /\ \/ Connect \/ Disconnect \/ CameraDrops \/ ServoEnable \/ ServoDisable
       \/ DisableRobot \/ SendTarget \/ CallerStep \/ Tick
       \/ \E w \in Senders : SenderStep(w)
    /\ UNCHANGED watchdog

Fairness == WF_vars(Tick) /\ WF_vars(CallerStep) /\ \A w \in Senders : WF_vars(SenderStep(w))

Spec == Init /\ [][Next]_vars
FairSpec == Spec /\ Fairness

----------------------------------------------------------------------------
\* Two senders never stream at once, unless a disconnect() went on without a
\* sender that was stuck in the SDK: the next session clears the stop event the
\* stuck thread was to see.
OneSender ==
    \/ excused.abandoned
    \/ Cardinality({w \in Senders : sender[w] \in {"loop", "calling"}}) <= 1

\* After a disconnect() the arm is out of Servo Move, unless the SDK refused to
\* leave it or a sender was stuck in a call.
ServoExitAccounted ==
    link.rc \/ ~arm.servo \/ excused.refused \/ excused.stuck \/ excused.abandoned

\* The commanded position a live sender steps from is in the representation of
\* its target, whatever the order of starts, actions and failures.
CommandedMatchesTarget == servo.commanded = servo.target

\* A stop was reported as failed.
StopFailed == excused.refused \/ excused.stuck \/ excused.abandoned
=============================================================================
