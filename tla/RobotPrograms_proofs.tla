------------------------ MODULE RobotPrograms_proofs ------------------------
(***************************************************************************)
(* Proofs about RobotPrograms, for any number of senders, processes,        *)
(* requests, timesteps, resets, tasks, episodes and takes.  Each of the five *)
(* parts has an inductive invariant of its own, found by asking TLC for      *)
(* what a step of that part needs of the state before it; a step of one      *)
(* leaves the variables of the others alone.                                *)
(***************************************************************************)
EXTENDS RobotPrograms, TLAPS, FiniteSetTheorems

----------------------------------------------------------------------------
(* The assumption on the constants, part by part.                          *)

\* What the adapter starts and sends is bounded by positive numbers.
LEMMA AdapterConstants ==
    /\ MaxSenders \in Nat \ {0} /\ MaxChildren \in Nat \ {0} /\ MaxRequests \in Nat \ {0}
    /\ TargetTimeout \in Nat
BY RobotProgramsAssumption

\* A prediction has actions, an episode timesteps.
LEMMA PolicyConstants ==
    /\ Chunk \in Nat \ {0} /\ MaxSteps \in Nat \ {0} /\ MaxResets \in Nat \ {0}
    /\ ThresholdPercent \in 0 .. 100
BY RobotProgramsAssumption

\* The dashboard has a task.
LEMMA DashboardConstants == NumTasks \in Nat \ {0}
BY RobotProgramsAssumption

\* Episodes, their iterations and their takes are bounded by positive numbers.
LEMMA EpisodesConstants ==
    /\ Chunk \in Nat \ {0} /\ NumEpisodes \in Nat \ {0} /\ Control \in Nat \ {0}
    /\ MaxTakes \in Nat \ {0}
BY RobotProgramsAssumption

----------------------------------------------------------------------------
(* The JAKA adapter with its Servo sender in a thread.                     *)

\* A thread streams only as the sender of the session that is on, unless
\* disconnect() went on without it; where the caller is says whether one is on,
\* and without a handle nothing is.
SenderInv ==
    /\ ~excused.abandoned =>
         \A w \in Adapter!Thread!Senders :
           sender[w] \in {"loop", "calling"} => w = servo.thread /\ servo.active
    /\ caller.at \in {"entering", "starting"} => ~servo.active
    /\ caller.at = "leaving" => ~Adapter!Thread!Alive(servo.thread)
    /\ ~link.rc =>
         /\ ~servo.active /\ caller.at = "idle"
         /\ ~Adapter!Thread!Alive(servo.thread) \/ excused.abandoned
    /\ servo.ready = "failed" => ~servo.active
    /\ caller.at = "releasing" /\ ~excused.stuck => ~servo.active
    /\ servo.commanded = servo.target

\* An arm in Servo Move has a session, is about to get one, or a sender that is
\* about to leave it, unless a stop was reported as failed.
ExitInv ==
    arm.servo /\ ~excused.refused /\ ~excused.stuck /\ ~excused.abandoned =>
        \/ servo.active \/ caller.at = "starting"
        \/ servo.thread # Adapter!Thread!None /\ sender[servo.thread] = "quitting"

ThCallers ==
    [at : {"idle", "entering", "starting", "waiting", "stopping", "leaving", "disabling",
           "releasing"},
     op : {"none", "connect", "enable", "disable", "disable_robot", "disconnect"}]
ThLinks == [rc : BOOLEAN, camera : BOOLEAN, owned : BOOLEAN]
ThServos ==
    [active : BOOLEAN, stop : BOOLEAN, thread : Adapter!Thread!Senders \cup {Adapter!Thread!None},
     ready : {"none", "waiting", "sent", "failed"}, target : {"none", "joints", "eef"},
     commanded : {"none", "joints", "eef"}]
ThSenders == [Adapter!Thread!Senders -> {"none", "loop", "calling", "quitting", "dead"}]
ThArms == [servo : BOOLEAN, enabled : BOOLEAN]
ThExcuses == [refused : BOOLEAN, stuck : BOOLEAN, abandoned : BOOLEAN]
Ages == 0 .. TargetTimeout + 1

\* The type of what a step of the thread or its caller may write.
ThreadTypeOK ==
    /\ caller \in ThCallers /\ link \in ThLinks /\ servo \in ThServos
    /\ sender \in ThSenders /\ age \in Ages /\ arm \in ThArms /\ excused \in ThExcuses

ThreadInv == ThreadTypeOK /\ SenderInv /\ ExitInv

\* The type of the state of the adapter with a thread, a variable at a time.
LEMMA ThreadTypes ==
    ThreadInv =>
        /\ caller \in ThCallers /\ link \in ThLinks /\ servo \in ThServos
        /\ sender \in ThSenders /\ age \in Ages /\ arm \in ThArms /\ excused \in ThExcuses
BY DEF ThreadInv, ThreadTypeOK

\* And of the state after a step.
LEMMA ThreadTypesNext ==
    ASSUME caller' \in ThCallers, link' \in ThLinks, servo' \in ThServos,
           sender' \in ThSenders, age' \in Ages, arm' \in ThArms, excused' \in ThExcuses
    PROVE  ThreadTypeOK'
BY DEF ThreadTypeOK

\* With the configuration it is the type of the module.
LEMMA ThreadTyped == ThreadInv /\ watchdog \in BOOLEAN => Adapter!Thread!TypeOK
BY DEF ThreadInv, ThreadTypeOK, Adapter!Thread!TypeOK, Adapter!Thread!Ops, ThCallers,
       ThLinks, ThServos, ThSenders, ThArms, ThExcuses, Ages

\* No sender thread is numbered 0, and the age of a target is counted in ticks.
LEMMA ThreadNumbers ==
    /\ \A w \in Adapter!Thread!Senders : w \in Nat /\ w # Adapter!Thread!None
    /\ 0 \in Ages /\ \A a \in Ages : a \in Nat /\ (a <= TargetTimeout => a + 1 \in Ages)
BY AdapterConstants DEF Adapter!Thread!Senders, Adapter!Thread!None, Ages

\* The adapter begins without a connection, and outside Servo Move.
LEMMA ThreadInit == Init => ThreadInv
<1> SUFFICES ASSUME Init PROVE ThreadInv
  OBVIOUS
<1>1. Adapter!Thread!Init
  BY DEF Init, Adapter!Init
<1>2. ThreadTypeOK
  <2>1. /\ caller \in ThCallers /\ link \in ThLinks /\ servo \in ThServos
        /\ sender \in ThSenders /\ age \in Ages /\ excused \in ThExcuses
    BY <1>1, ThreadNumbers
    DEF Adapter!Thread!Init, ThCallers, ThLinks, ThServos, ThSenders, ThExcuses
  <2>2. arm \in ThArms
    BY <1>1 DEF Adapter!Thread!Init, ThArms
  <2> QED
    BY <2>1, <2>2 DEF ThreadTypeOK
<1>3. SenderInv /\ ExitInv
  BY <1>1 DEF Adapter!Thread!Init, SenderInv, ExitInv, Adapter!Thread!Alive
<1> QED
  BY <1>2, <1>3 DEF ThreadInv

\* A step of the owner process or of another part leaves the thread's state alone,
\* but for the age of the target.
LEMMA ThreadStutter ==
    ASSUME ThreadInv, UNCHANGED <<caller, link, servo, sender, arm, excused>>, age' \in Ages
    PROVE  ThreadInv'
<1>1. ThreadTypeOK'
  BY ThreadTypes, ThreadTypesNext
<1>2. SenderInv' /\ ExitInv'
  BY DEF ThreadInv, SenderInv, ExitInv, Adapter!Thread!Alive
<1> QED
  BY <1>1, <1>2 DEF ThreadInv

\* Where a helper of the caller returns to.
LEMMA ThreadWays ==
    ASSUME caller \in ThCallers
    PROVE  /\ \A where : Adapter!Thread!At(where) => caller' = [at |-> where, op |-> caller.op]
           /\ Adapter!Thread!Return => caller' = [at |-> "idle", op |-> "none"]
           /\ Adapter!Thread!RaiseFromEnable =>
                caller' \in {[at |-> "idle", op |-> "none"],
                             [at |-> "releasing", op |-> "disconnect"]}
           /\ \A failed : Adapter!Thread!AfterStop(failed) =>
                /\ caller' \in ThCallers
                /\ caller'.at \in {"idle", "releasing", "disabling"}
<1>1. \A where : Adapter!Thread!At(where) => caller' = [at |-> where, op |-> caller.op]
  BY DEF ThCallers, Adapter!Thread!At
<1>2. Adapter!Thread!Return => caller' = [at |-> "idle", op |-> "none"]
  BY DEF Adapter!Thread!Return
<1>3. Adapter!Thread!RaiseFromEnable =>
        caller' \in {[at |-> "idle", op |-> "none"], [at |-> "releasing", op |-> "disconnect"]}
  BY <1>2 DEF ThCallers, Adapter!Thread!RaiseFromEnable
<1>4. ASSUME NEW failed, Adapter!Thread!AfterStop(failed)
      PROVE  /\ caller' \in ThCallers
             /\ caller'.at \in {"idle", "releasing", "disabling"}
  <2>1. \/ caller' = [at |-> "idle", op |-> "none"]
        \/ caller' = [at |-> "releasing", op |-> caller.op]
        \/ caller' = [at |-> "disabling", op |-> caller.op]
        \/ caller' = [at |-> "releasing", op |-> "disconnect"]
    <3>1. CASE caller.op = "disconnect"
      BY <1>1, <1>4, <3>1 DEF Adapter!Thread!AfterStop
    <3>2. CASE caller.op = "connect"
      BY <1>4, <3>2 DEF Adapter!Thread!AfterStop, ThCallers
    <3>3. CASE caller.op = "disable_robot" /\ ~failed
      BY <1>1, <1>4, <3>3 DEF Adapter!Thread!AfterStop
    <3>4. CASE /\ caller.op # "disconnect" /\ caller.op # "connect"
               /\ ~(caller.op = "disable_robot" /\ ~failed)
      BY <1>2, <1>4, <3>4 DEF Adapter!Thread!AfterStop
    <3> QED
      BY <3>1, <3>2, <3>3, <3>4
  <2> QED
    BY <2>1 DEF ThCallers
<1> QED
  BY <1>1, <1>2, <1>3, <1>4

\* connect() logs in and enables the robot, or fails.
LEMMA ThConnect ==
    ASSUME ThreadInv, Adapter!Thread!Connect
    PROVE  ThreadInv'
<1>1. /\ caller \in ThCallers /\ link \in ThLinks /\ servo \in ThServos
      /\ sender \in ThSenders /\ age \in Ages /\ arm \in ThArms /\ excused \in ThExcuses
  BY ThreadTypes
<1>2. UNCHANGED <<sender, age, excused>>
  BY DEF Adapter!Thread!Connect, Adapter!Thread!Return, Adapter!Thread!IsConnected
<1>3. /\ caller.at = "idle"
      /\ \/ /\ link'.owned \in BOOLEAN
            /\ link' = [rc |-> TRUE, camera |-> TRUE, owned |-> link'.owned]
            /\ servo' = servo /\ arm' \in ThArms /\ arm'.servo = arm.servo
            /\ \/ servo.active /\ caller' = [at |-> "idle", op |-> "none"]
               \/ ~servo.active /\ caller' = [at |-> "entering", op |-> "connect"]
         \/ /\ link' = [rc |-> TRUE, camera |-> link.camera, owned |-> link.owned]
            /\ servo'.stop \in BOOLEAN /\ servo' = [servo EXCEPT !.stop = servo'.stop]
            /\ arm' = arm
            /\ \/ servo.active /\ caller' = [at |-> "stopping", op |-> "disconnect"]
               \/ ~servo.active /\ caller' = [at |-> "releasing", op |-> "disconnect"]
         \/ /\ caller' = [at |-> "idle", op |-> "none"]
            /\ link' = link /\ servo' = servo /\ arm' = arm
  <2>1. (link.owned \/ ~arm.enabled) \in BOOLEAN /\ (servo.active \/ servo.stop) \in BOOLEAN
    OBVIOUS
  <2>2. [arm EXCEPT !.enabled = TRUE] \in ThArms
    BY <1>1 DEF ThArms
  <2>3. /\ caller.at = "idle"
        /\ \/ /\ link' = [rc |-> TRUE, camera |-> TRUE, owned |-> link.owned \/ ~arm.enabled]
              /\ servo' = servo /\ arm' = [arm EXCEPT !.enabled = TRUE]
              /\ \/ servo.active /\ caller' = [at |-> "idle", op |-> "none"]
                 \/ ~servo.active /\ caller' = [at |-> "entering", op |-> "connect"]
           \/ /\ link' = [rc |-> TRUE, camera |-> link.camera, owned |-> link.owned]
              /\ servo' = [servo EXCEPT !.stop = servo.active \/ servo.stop]
              /\ arm' = arm
              /\ \/ servo.active /\ caller' = [at |-> "stopping", op |-> "disconnect"]
                 \/ ~servo.active /\ caller' = [at |-> "releasing", op |-> "disconnect"]
           \/ /\ caller' = [at |-> "idle", op |-> "none"]
              /\ link' = link /\ servo' = servo /\ arm' = arm
    BY <1>1 DEF Adapter!Thread!Connect, Adapter!Thread!Return, ThCallers, ThLinks, ThServos
  <2>4. link' = [rc |-> TRUE, camera |-> TRUE, owned |-> link.owned \/ ~arm.enabled] =>
          /\ link'.owned \in BOOLEAN
          /\ link' = [rc |-> TRUE, camera |-> TRUE, owned |-> link'.owned]
    BY <2>1
  <2>5. servo' = [servo EXCEPT !.stop = servo.active \/ servo.stop] =>
          servo'.stop \in BOOLEAN /\ servo' = [servo EXCEPT !.stop = servo'.stop]
    BY <1>1, <2>1 DEF ThServos
  <2>6. arm' = [arm EXCEPT !.enabled = TRUE] => arm' \in ThArms /\ arm'.servo = arm.servo
    BY <1>1, <2>2 DEF ThArms
  <2> QED
    BY <2>3, <2>4, <2>5, <2>6
<1>4. caller' \in ThCallers
  BY <1>1, <1>2, <1>3, ThreadNumbers
  DEF ThCallers, Adapter!Thread!None
<1>5. link' \in ThLinks
  <2>1. link.camera \in BOOLEAN /\ link.owned \in BOOLEAN
    BY <1>1 DEF ThLinks
  <2>2. \A a, b, c \in BOOLEAN : [rc |-> a, camera |-> b, owned |-> c] \in ThLinks
    BY DEF ThLinks
  <2>3. TRUE \in BOOLEAN
    OBVIOUS
  <2>4. \/ link' = link
        \/ link' = [rc |-> TRUE, camera |-> link.camera, owned |-> link.owned]
        \/ /\ link'.owned \in BOOLEAN
           /\ link' = [rc |-> TRUE, camera |-> TRUE, owned |-> link'.owned]
    BY <1>3
  <2>5. CASE link' = link
    BY <1>1, <2>5
  <2>6. CASE link' = [rc |-> TRUE, camera |-> link.camera, owned |-> link.owned]
    BY <2>1, <2>2, <2>3, <2>6, Zenon
  <2>7. CASE /\ link'.owned \in BOOLEAN
             /\ link' = [rc |-> TRUE, camera |-> TRUE, owned |-> link'.owned]
    <3> DEFINE o == link'.owned
    <3>1. o \in BOOLEAN /\ link' = [rc |-> TRUE, camera |-> TRUE, owned |-> o]
      BY <2>7
    <3> HIDE DEF o
    <3> QED
      BY <2>2, <2>3, <3>1, Zenon
  <2> QED
    BY <2>4, <2>5, <2>6, <2>7
<1>6. servo' \in ThServos
  BY <1>1, <1>2, <1>3, ThreadNumbers
  DEF ThServos, Adapter!Thread!None
<1>7. arm' \in ThArms
  BY <1>1, <1>2, <1>3, ThreadNumbers
  DEF ThArms, Adapter!Thread!None
<1>8. ThreadTypeOK'
  BY <1>1, <1>2, <1>4, <1>5, <1>6, <1>7, ThreadTypesNext
<1>9. SenderInv'
  BY <1>1, <1>2, <1>3, ThreadNumbers
  DEF ThreadInv, SenderInv, Adapter!Thread!Alive, Adapter!Thread!None,
      ThCallers, ThLinks, ThServos, ThSenders, ThArms, ThExcuses
<1>10. ExitInv'
  <2>1. /\ arm'.servo = arm.servo /\ servo'.active = servo.active
        /\ servo'.thread = servo.thread
    BY <1>1, <1>3 DEF ThServos
  <2>2. caller.at # "starting" /\ sender' = sender /\ excused' = excused
    BY <1>2, <1>3
  <2> QED
    BY <2>1, <2>2 DEF ThreadInv, ExitInv, Adapter!Thread!None
<1> QED
  BY <1>8, <1>9, <1>10 DEF ThreadInv

\* disconnect() begins.
LEMMA ThDisconnect ==
    ASSUME ThreadInv, Adapter!Thread!Disconnect
    PROVE  ThreadInv'
<1>1. /\ caller \in ThCallers /\ link \in ThLinks /\ servo \in ThServos
      /\ sender \in ThSenders /\ age \in Ages /\ arm \in ThArms /\ excused \in ThExcuses
  BY ThreadTypes
<1>2. UNCHANGED <<link, sender, age, arm, excused>>
  BY DEF Adapter!Thread!Disconnect, Adapter!Thread!Idle
<1>3. caller' \in ThCallers
  BY <1>1, <1>2, ThreadNumbers
  DEF Adapter!Thread!Disconnect, Adapter!Thread!Idle,
      ThCallers, Adapter!Thread!None
<1>4. servo' \in ThServos
  BY <1>1, <1>2, ThreadNumbers
  DEF Adapter!Thread!Disconnect, Adapter!Thread!Idle,
      ThServos, Adapter!Thread!None
<1>5. ThreadTypeOK'
  BY <1>1, <1>2, <1>3, <1>4, ThreadTypesNext
<1>6. SenderInv'
  BY <1>1, <1>2, ThreadNumbers
  DEF Adapter!Thread!Disconnect, Adapter!Thread!Idle,
      ThreadInv, SenderInv, Adapter!Thread!Alive, Adapter!Thread!None,
      ThCallers, ThLinks, ThServos, ThSenders, ThArms, ThExcuses
<1>7. ExitInv'
  BY <1>1, <1>2, ThreadNumbers
  DEF Adapter!Thread!Disconnect, Adapter!Thread!Idle,
      ThreadInv, ExitInv, SenderInv, Adapter!Thread!Alive, Adapter!Thread!None,
      ThCallers, ThLinks, ThServos, ThSenders, ThArms, ThExcuses
<1> QED
  BY <1>5, <1>6, <1>7 DEF ThreadInv

\* The rest of disconnect(): the handle is let go, whatever the sender does.
LEMMA ThRelease ==
    ASSUME ThreadInv, Adapter!Thread!Release
    PROVE  ThreadInv'
<1>1. /\ caller \in ThCallers /\ link \in ThLinks /\ servo \in ThServos
      /\ sender \in ThSenders /\ age \in Ages /\ arm \in ThArms /\ excused \in ThExcuses
  BY ThreadTypes
<1>2. UNCHANGED <<sender, age>>
  BY DEF Adapter!Thread!Release, Adapter!Thread!Return
<1>3. caller' \in ThCallers
  BY <1>1, <1>2, ThreadNumbers
  DEF Adapter!Thread!Release, Adapter!Thread!Return,
      ThCallers, Adapter!Thread!None
<1>4. link' \in ThLinks
  BY <1>1, <1>2, ThreadNumbers
  DEF Adapter!Thread!Release, Adapter!Thread!Return,
      ThLinks, Adapter!Thread!None
<1>5. servo' \in ThServos
  BY <1>1, <1>2, ThreadNumbers
  DEF Adapter!Thread!Release, Adapter!Thread!Return,
      ThServos, Adapter!Thread!None
<1>6. arm' \in ThArms
  BY <1>1, <1>2, ThreadNumbers
  DEF Adapter!Thread!Release, Adapter!Thread!Return,
      ThArms, Adapter!Thread!None
<1>7. excused' \in ThExcuses
  BY <1>1, <1>2, ThreadNumbers
  DEF Adapter!Thread!Release, Adapter!Thread!Return,
      ThExcuses, Adapter!Thread!None
<1>8. ThreadTypeOK'
  BY <1>1, <1>2, <1>3, <1>4, <1>5, <1>6, <1>7, ThreadTypesNext
<1>9. SenderInv'
  BY <1>1, <1>2, ThreadNumbers
  DEF Adapter!Thread!Release, Adapter!Thread!Return,
      ThreadInv, SenderInv, Adapter!Thread!Alive, Adapter!Thread!None,
      ThCallers, ThLinks, ThServos, ThSenders, ThArms, ThExcuses
<1>10. ExitInv'
  BY <1>1, <1>2, ThreadNumbers
  DEF Adapter!Thread!Release, Adapter!Thread!Return,
      ThreadInv, ExitInv, SenderInv, Adapter!Thread!Alive, Adapter!Thread!None,
      ThCallers, ThLinks, ThServos, ThSenders, ThArms, ThExcuses
<1> QED
  BY <1>8, <1>9, <1>10 DEF ThreadInv

\* A camera goes away.
LEMMA ThCameraDrops ==
    ASSUME ThreadInv, Adapter!Thread!CameraDrops
    PROVE  ThreadInv'
<1>1. /\ caller \in ThCallers /\ link \in ThLinks /\ servo \in ThServos
      /\ sender \in ThSenders /\ age \in Ages /\ arm \in ThArms /\ excused \in ThExcuses
  BY ThreadTypes
<1>2. UNCHANGED <<caller, servo, sender, age, arm, excused>>
  BY DEF Adapter!Thread!CameraDrops
<1>3. link' \in ThLinks
  BY <1>1, <1>2, ThreadNumbers
  DEF Adapter!Thread!CameraDrops,
      ThLinks, Adapter!Thread!None
<1>4. ThreadTypeOK'
  BY <1>1, <1>2, <1>3, ThreadTypesNext
<1>5. SenderInv'
  BY <1>1, <1>2, ThreadNumbers
  DEF Adapter!Thread!CameraDrops,
      ThreadInv, SenderInv, Adapter!Thread!Alive, Adapter!Thread!None,
      ThCallers, ThLinks, ThServos, ThSenders, ThArms, ThExcuses
<1>6. ExitInv'
  BY <1>1, <1>2, ThreadNumbers
  DEF Adapter!Thread!CameraDrops,
      ThreadInv, ExitInv, SenderInv, Adapter!Thread!Alive, Adapter!Thread!None,
      ThCallers, ThLinks, ThServos, ThSenders, ThArms, ThExcuses
<1> QED
  BY <1>4, <1>5, <1>6 DEF ThreadInv

\* servo_enable(True) begins.
LEMMA ThServoEnable ==
    ASSUME ThreadInv, Adapter!Thread!ServoEnable
    PROVE  ThreadInv'
<1>1. /\ caller \in ThCallers /\ link \in ThLinks /\ servo \in ThServos
      /\ sender \in ThSenders /\ age \in Ages /\ arm \in ThArms /\ excused \in ThExcuses
  BY ThreadTypes
<1>2. UNCHANGED <<link, servo, sender, age, arm, excused>>
  BY DEF Adapter!Thread!ServoEnable, Adapter!Thread!Idle, Adapter!Thread!Return
<1>3. /\ caller.at = "idle" /\ link.rc
      /\ \/ caller' = [at |-> "idle", op |-> "none"]
         \/ ~servo.active /\ caller' = [at |-> "entering", op |-> "enable"]
  <2>1. Adapter!Thread!Return => caller' = [at |-> "idle", op |-> "none"]
    BY <1>1, ThreadWays
  <2>2. caller' = [caller EXCEPT !.at = "entering", !.op = "enable"] =>
          caller' = [at |-> "entering", op |-> "enable"]
    BY <1>1 DEF ThCallers
  <2> QED
    BY <2>1, <2>2 DEF Adapter!Thread!ServoEnable, Adapter!Thread!Idle, Adapter!Thread!IsConnected
<1>4. caller' \in ThCallers
  BY <1>1, <1>2, <1>3, ThreadNumbers
  DEF ThCallers, Adapter!Thread!None
<1>5. ThreadTypeOK'
  BY <1>1, <1>2, <1>4, ThreadTypesNext
<1>6. SenderInv'
  BY <1>1, <1>2, <1>3, ThreadNumbers
  DEF ThreadInv, SenderInv, Adapter!Thread!Alive, Adapter!Thread!None,
      ThCallers, ThLinks, ThServos, ThSenders, ThArms, ThExcuses
<1>7. ExitInv'
  BY <1>1, <1>2, <1>3, ThreadNumbers
  DEF ThreadInv, ExitInv, SenderInv, Adapter!Thread!Alive, Adapter!Thread!None,
      ThCallers, ThLinks, ThServos, ThSenders, ThArms, ThExcuses
<1> QED
  BY <1>5, <1>6, <1>7 DEF ThreadInv

\* The controller enters Servo Move, or the call raises.
LEMMA ThEnterServo ==
    ASSUME ThreadInv, Adapter!Thread!EnterServo
    PROVE  ThreadInv'
<1>1. /\ caller \in ThCallers /\ link \in ThLinks /\ servo \in ThServos
      /\ sender \in ThSenders /\ age \in Ages /\ arm \in ThArms /\ excused \in ThExcuses
  BY ThreadTypes
<1>2. UNCHANGED <<link, servo, sender, age, excused>>
  BY DEF Adapter!Thread!EnterServo, Adapter!Thread!RaiseFromEnable, Adapter!Thread!Return, Adapter!Thread!At
<1>3. /\ caller.at = "entering"
      /\ \/ /\ arm' = [arm EXCEPT !.servo = TRUE]
            /\ caller' = [at |-> "starting", op |-> caller.op]
         \/ /\ arm' = arm
            /\ caller' \in {[at |-> "idle", op |-> "none"],
                            [at |-> "releasing", op |-> "disconnect"]}
  BY <1>1, ThreadWays DEF Adapter!Thread!EnterServo
<1>4. caller' \in ThCallers
  BY <1>1, <1>2, <1>3, ThreadNumbers
  DEF ThCallers, Adapter!Thread!None
<1>5. arm' \in ThArms
  BY <1>1, <1>2, <1>3, ThreadNumbers
  DEF ThArms, Adapter!Thread!None
<1>6. ThreadTypeOK'
  BY <1>1, <1>2, <1>4, <1>5, ThreadTypesNext
<1>7. SenderInv'
  BY <1>1, <1>2, <1>3, ThreadNumbers
  DEF ThreadInv, SenderInv, Adapter!Thread!Alive, Adapter!Thread!None,
      ThCallers, ThLinks, ThServos, ThSenders, ThArms, ThExcuses
<1>8. ExitInv'
  BY <1>1, <1>2, <1>3, ThreadNumbers
  DEF ThreadInv, ExitInv, SenderInv, Adapter!Thread!Alive, Adapter!Thread!None,
      ThCallers, ThLinks, ThServos, ThSenders, ThArms, ThExcuses
<1> QED
  BY <1>6, <1>7, <1>8 DEF ThreadInv

\* The session and its sender thread begin.
LEMMA ThStartSender ==
    ASSUME ThreadInv, Adapter!Thread!StartSender
    PROVE  ThreadInv'
<1>1. /\ caller \in ThCallers /\ link \in ThLinks /\ servo \in ThServos
      /\ sender \in ThSenders /\ age \in Ages /\ arm \in ThArms /\ excused \in ThExcuses
  BY ThreadTypes
<1>2. UNCHANGED <<link, arm, excused>>
  BY DEF Adapter!Thread!StartSender, Adapter!Thread!At
<1>3. caller' \in ThCallers
  BY <1>1, <1>2, ThreadNumbers
  DEF Adapter!Thread!StartSender, Adapter!Thread!At,
      ThCallers, Adapter!Thread!None
<1>4. servo' \in ThServos
  BY <1>1, <1>2, ThreadNumbers
  DEF Adapter!Thread!StartSender, Adapter!Thread!At,
      ThServos, Adapter!Thread!None
<1>5. sender' \in ThSenders
  BY <1>1, <1>2, ThreadNumbers
  DEF Adapter!Thread!StartSender, Adapter!Thread!At,
      ThSenders, Adapter!Thread!None
<1>6. age' \in Ages
  BY <1>1, <1>2, ThreadNumbers
  DEF Adapter!Thread!StartSender, Adapter!Thread!At
<1>7. ThreadTypeOK'
  BY <1>1, <1>2, <1>3, <1>4, <1>5, <1>6, ThreadTypesNext
<1>8. SenderInv'
  BY <1>1, <1>2, ThreadNumbers
  DEF Adapter!Thread!StartSender, Adapter!Thread!At,
      ThreadInv, SenderInv, Adapter!Thread!Alive, Adapter!Thread!None,
      ThCallers, ThLinks, ThServos, ThSenders, ThArms, ThExcuses
<1>9. ExitInv'
  BY <1>1, <1>2, ThreadNumbers
  DEF Adapter!Thread!StartSender, Adapter!Thread!At,
      ThreadInv, ExitInv, SenderInv, Adapter!Thread!Alive, Adapter!Thread!None,
      ThCallers, ThLinks, ThServos, ThSenders, ThArms, ThExcuses
<1> QED
  BY <1>7, <1>8, <1>9 DEF ThreadInv

\* The first frame was sent, or the sender failed.
LEMMA ThAwaitFirstFrame ==
    ASSUME ThreadInv, Adapter!Thread!AwaitFirstFrame
    PROVE  ThreadInv'
<1>1. /\ caller \in ThCallers /\ link \in ThLinks /\ servo \in ThServos
      /\ sender \in ThSenders /\ age \in Ages /\ arm \in ThArms /\ excused \in ThExcuses
  BY ThreadTypes
<1>2. UNCHANGED <<link, servo, sender, age, arm, excused>>
  BY DEF Adapter!Thread!AwaitFirstFrame, Adapter!Thread!RaiseFromEnable, Adapter!Thread!Return, Adapter!Thread!At
<1>3. /\ caller.at = "waiting"
      /\ \/ caller' = [at |-> "idle", op |-> "none"]
         \/ /\ servo.ready = "failed"
            /\ caller' \in {[at |-> "idle", op |-> "none"],
                            [at |-> "releasing", op |-> "disconnect"]}
  BY <1>1, ThreadWays DEF Adapter!Thread!AwaitFirstFrame
<1>4. caller' \in ThCallers
  BY <1>1, <1>2, <1>3, ThreadNumbers
  DEF ThCallers, Adapter!Thread!None
<1>5. ThreadTypeOK'
  BY <1>1, <1>2, <1>4, ThreadTypesNext
<1>6. SenderInv'
  BY <1>1, <1>2, <1>3, ThreadNumbers
  DEF ThreadInv, SenderInv, Adapter!Thread!Alive, Adapter!Thread!None,
      ThCallers, ThLinks, ThServos, ThSenders, ThArms, ThExcuses
<1>7. ExitInv'
  BY <1>1, <1>2, <1>3, ThreadNumbers
  DEF ThreadInv, ExitInv, SenderInv, Adapter!Thread!Alive, Adapter!Thread!None,
      ThCallers, ThLinks, ThServos, ThSenders, ThArms, ThExcuses
<1> QED
  BY <1>5, <1>6, <1>7 DEF ThreadInv

\* The wait for it ends first.
LEMMA ThFirstFrameTimeout ==
    ASSUME ThreadInv, Adapter!Thread!FirstFrameTimeout
    PROVE  ThreadInv'
<1>1. /\ caller \in ThCallers /\ link \in ThLinks /\ servo \in ThServos
      /\ sender \in ThSenders /\ age \in Ages /\ arm \in ThArms /\ excused \in ThExcuses
  BY ThreadTypes
<1>2. UNCHANGED <<link, sender, age, arm, excused>>
  BY DEF Adapter!Thread!FirstFrameTimeout, Adapter!Thread!At
<1>3. caller' \in ThCallers
  BY <1>1, <1>2, ThreadNumbers
  DEF Adapter!Thread!FirstFrameTimeout, Adapter!Thread!At,
      ThCallers, Adapter!Thread!None
<1>4. servo' \in ThServos
  BY <1>1, <1>2, ThreadNumbers
  DEF Adapter!Thread!FirstFrameTimeout, Adapter!Thread!At,
      ThServos, Adapter!Thread!None
<1>5. ThreadTypeOK'
  BY <1>1, <1>2, <1>3, <1>4, ThreadTypesNext
<1>6. SenderInv'
  BY <1>1, <1>2, ThreadNumbers
  DEF Adapter!Thread!FirstFrameTimeout, Adapter!Thread!At,
      ThreadInv, SenderInv, Adapter!Thread!Alive, Adapter!Thread!None,
      ThCallers, ThLinks, ThServos, ThSenders, ThArms, ThExcuses
<1>7. ExitInv'
  BY <1>1, <1>2, ThreadNumbers
  DEF Adapter!Thread!FirstFrameTimeout, Adapter!Thread!At,
      ThreadInv, ExitInv, SenderInv, Adapter!Thread!Alive, Adapter!Thread!None,
      ThCallers, ThLinks, ThServos, ThSenders, ThArms, ThExcuses
<1> QED
  BY <1>5, <1>6, <1>7 DEF ThreadInv

\* servo_enable(False) begins.
LEMMA ThServoDisable ==
    ASSUME ThreadInv, Adapter!Thread!ServoDisable
    PROVE  ThreadInv'
<1>1. /\ caller \in ThCallers /\ link \in ThLinks /\ servo \in ThServos
      /\ sender \in ThSenders /\ age \in Ages /\ arm \in ThArms /\ excused \in ThExcuses
  BY ThreadTypes
<1>2. UNCHANGED <<link, sender, age, arm, excused>>
  BY DEF Adapter!Thread!ServoDisable, Adapter!Thread!Idle, Adapter!Thread!Return
<1>3. /\ caller.at = "idle" /\ link.rc
      /\ \/ caller' = [at |-> "idle", op |-> "none"] /\ servo' = servo
         \/ /\ servo' = [servo EXCEPT !.stop = TRUE]
            /\ caller' = [at |-> "stopping", op |-> "disable"]
  <2>1. Adapter!Thread!Return => caller' = [at |-> "idle", op |-> "none"]
    BY <1>1, ThreadWays
  <2>2. caller' = [caller EXCEPT !.at = "stopping", !.op = "disable"] =>
          caller' = [at |-> "stopping", op |-> "disable"]
    BY <1>1 DEF ThCallers
  <2> QED
    BY <2>1, <2>2 DEF Adapter!Thread!ServoDisable, Adapter!Thread!Idle, Adapter!Thread!IsConnected
<1>4. caller' \in ThCallers
  BY <1>1, <1>2, <1>3, ThreadNumbers
  DEF ThCallers, Adapter!Thread!None
<1>5. servo' \in ThServos
  BY <1>1, <1>2, <1>3, ThreadNumbers
  DEF ThServos, Adapter!Thread!None
<1>6. ThreadTypeOK'
  BY <1>1, <1>2, <1>4, <1>5, ThreadTypesNext
<1>7. SenderInv'
  BY <1>1, <1>2, <1>3, ThreadNumbers
  DEF ThreadInv, SenderInv, Adapter!Thread!Alive, Adapter!Thread!None,
      ThCallers, ThLinks, ThServos, ThSenders, ThArms, ThExcuses
<1>8. ExitInv'
  BY <1>1, <1>2, <1>3, ThreadNumbers
  DEF ThreadInv, ExitInv, SenderInv, Adapter!Thread!Alive, Adapter!Thread!None,
      ThCallers, ThLinks, ThServos, ThSenders, ThArms, ThExcuses
<1> QED
  BY <1>6, <1>7, <1>8 DEF ThreadInv

\* disable_robot() begins.
LEMMA ThDisableRobot ==
    ASSUME ThreadInv, Adapter!Thread!DisableRobot
    PROVE  ThreadInv'
<1>1. /\ caller \in ThCallers /\ link \in ThLinks /\ servo \in ThServos
      /\ sender \in ThSenders /\ age \in Ages /\ arm \in ThArms /\ excused \in ThExcuses
  BY ThreadTypes
<1>2. UNCHANGED <<link, sender, age, arm, excused>>
  BY DEF Adapter!Thread!DisableRobot, Adapter!Thread!Idle
<1>3. /\ caller.at = "idle" /\ link.rc
      /\ servo'.stop \in BOOLEAN /\ servo' = [servo EXCEPT !.stop = servo'.stop]
      /\ \/ caller' = [at |-> "stopping", op |-> "disable_robot"]
         \/ caller' = [at |-> "disabling", op |-> "disable_robot"]
  <2>1. (servo.active \/ servo.stop) \in BOOLEAN
    OBVIOUS
  <2>2. /\ caller.at = "idle" /\ link.rc
        /\ servo' = [servo EXCEPT !.stop = servo.active \/ servo.stop]
        /\ \/ caller' = [at |-> "stopping", op |-> "disable_robot"]
           \/ caller' = [at |-> "disabling", op |-> "disable_robot"]
    BY <1>1 DEF Adapter!Thread!DisableRobot, Adapter!Thread!Idle, Adapter!Thread!IsConnected,
                ThCallers
  <2> QED
    BY <1>1, <2>1, <2>2 DEF ThServos
<1>4. caller' \in ThCallers
  BY <1>1, <1>2, <1>3, ThreadNumbers
  DEF ThCallers, Adapter!Thread!None
<1>5. servo' \in ThServos
  BY <1>1, <1>2, <1>3, ThreadNumbers
  DEF ThServos, Adapter!Thread!None
<1>6. ThreadTypeOK'
  BY <1>1, <1>2, <1>4, <1>5, ThreadTypesNext
<1>7. SenderInv'
  BY <1>1, <1>2, <1>3, ThreadNumbers
  DEF ThreadInv, SenderInv, Adapter!Thread!Alive, Adapter!Thread!None,
      ThCallers, ThLinks, ThServos, ThSenders, ThArms, ThExcuses
<1>8. ExitInv'
  BY <1>1, <1>2, <1>3, ThreadNumbers
  DEF ThreadInv, ExitInv, SenderInv, Adapter!Thread!Alive, Adapter!Thread!None,
      ThCallers, ThLinks, ThServos, ThSenders, ThArms, ThExcuses
<1> QED
  BY <1>6, <1>7, <1>8 DEF ThreadInv

\* The sender has ended.
LEMMA ThJoinSender ==
    ASSUME ThreadInv, Adapter!Thread!JoinSender
    PROVE  ThreadInv'
<1>1. /\ caller \in ThCallers /\ link \in ThLinks /\ servo \in ThServos
      /\ sender \in ThSenders /\ age \in Ages /\ arm \in ThArms /\ excused \in ThExcuses
  BY ThreadTypes
<1>2. UNCHANGED <<link, servo, sender, age, arm, excused>>
  BY DEF Adapter!Thread!JoinSender, Adapter!Thread!At
<1>3. caller' \in ThCallers
  BY <1>1, <1>2, ThreadNumbers
  DEF Adapter!Thread!JoinSender, Adapter!Thread!At,
      ThCallers, Adapter!Thread!None
<1>4. ThreadTypeOK'
  BY <1>1, <1>2, <1>3, ThreadTypesNext
<1>5. SenderInv'
  BY <1>1, <1>2, ThreadNumbers
  DEF Adapter!Thread!JoinSender, Adapter!Thread!At,
      ThreadInv, SenderInv, Adapter!Thread!Alive, Adapter!Thread!None,
      ThCallers, ThLinks, ThServos, ThSenders, ThArms, ThExcuses
<1>6. ExitInv'
  BY <1>1, <1>2, ThreadNumbers
  DEF Adapter!Thread!JoinSender, Adapter!Thread!At,
      ThreadInv, ExitInv, SenderInv, Adapter!Thread!Alive, Adapter!Thread!None,
      ThCallers, ThLinks, ThServos, ThSenders, ThArms, ThExcuses
<1> QED
  BY <1>4, <1>5, <1>6 DEF ThreadInv

\* The wait for it ends first.
LEMMA ThJoinTimeout ==
    ASSUME ThreadInv, Adapter!Thread!JoinTimeout
    PROVE  ThreadInv'
<1>1. /\ caller \in ThCallers /\ link \in ThLinks /\ servo \in ThServos
      /\ sender \in ThSenders /\ age \in Ages /\ arm \in ThArms /\ excused \in ThExcuses
  BY ThreadTypes
<1>2. UNCHANGED <<link, servo, sender, age, arm>>
  BY DEF Adapter!Thread!JoinTimeout, Adapter!Thread!AfterStop, Adapter!Thread!At, Adapter!Thread!Return
<1>3. /\ caller.at = "stopping" /\ excused' = [excused EXCEPT !.stuck = TRUE]
      /\ caller' \in ThCallers
      /\ caller'.at \in {"idle", "stopping", "releasing", "disabling"}
  <2>1. caller' = [caller EXCEPT !.op = "disconnect", !.at = "stopping"] =>
          caller' = [at |-> "stopping", op |-> "disconnect"]
    BY <1>1 DEF ThCallers
  <2>2. [at |-> "stopping", op |-> "disconnect"] \in ThCallers
    BY DEF ThCallers
  <2>3. CASE caller.op = "connect"
    BY <2>1, <2>2, <2>3 DEF Adapter!Thread!JoinTimeout
  <2>4. CASE caller.op # "connect"
    BY <1>1, <2>4, ThreadWays DEF Adapter!Thread!JoinTimeout
  <2> QED
    BY <2>3, <2>4
<1>4. caller' \in ThCallers
  BY <1>1, <1>2, <1>3, ThreadNumbers
  DEF ThCallers, Adapter!Thread!None
<1>5. excused' \in ThExcuses
  BY <1>1, <1>2, <1>3, ThreadNumbers
  DEF ThExcuses, Adapter!Thread!None
<1>6. ThreadTypeOK'
  BY <1>1, <1>2, <1>4, <1>5, ThreadTypesNext
<1>7. SenderInv'
  BY <1>1, <1>2, <1>3, ThreadNumbers
  DEF ThreadInv, SenderInv, Adapter!Thread!Alive, Adapter!Thread!None,
      ThCallers, ThLinks, ThServos, ThSenders, ThArms, ThExcuses
<1>8. ExitInv'
  BY <1>1, <1>2, <1>3, ThreadNumbers
  DEF ThreadInv, ExitInv, SenderInv, Adapter!Thread!Alive, Adapter!Thread!None,
      ThCallers, ThLinks, ThServos, ThSenders, ThArms, ThExcuses
<1> QED
  BY <1>6, <1>7, <1>8 DEF ThreadInv

\* The controller leaves Servo Move, or refuses.
LEMMA ThLeaveServo ==
    ASSUME ThreadInv, Adapter!Thread!LeaveServo
    PROVE  ThreadInv'
<1>1. /\ caller \in ThCallers /\ link \in ThLinks /\ servo \in ThServos
      /\ sender \in ThSenders /\ age \in Ages /\ arm \in ThArms /\ excused \in ThExcuses
  BY ThreadTypes
<1>2. UNCHANGED <<link, sender, age>>
  BY DEF Adapter!Thread!LeaveServo, Adapter!Thread!AfterStop, Adapter!Thread!At, Adapter!Thread!Return
<1>3. /\ caller.at = "leaving" /\ caller' \in ThCallers
      /\ caller'.at \in {"idle", "releasing", "disabling"}
      /\ servo' = [active |-> FALSE, stop |-> servo.stop, thread |-> Adapter!Thread!None,
                   ready |-> "none", target |-> "none", commanded |-> "none"]
      /\ \/ arm' = [arm EXCEPT !.servo = FALSE] /\ excused' = excused
         \/ arm' = arm /\ excused' = [excused EXCEPT !.refused = TRUE]
  <2>1. servo' = [active |-> FALSE, stop |-> servo.stop, thread |-> Adapter!Thread!None,
                  ready |-> "none", target |-> "none", commanded |-> "none"]
    BY <1>1 DEF Adapter!Thread!LeaveServo, ThServos
  <2>2. PICK ok \in BOOLEAN :
          /\ arm' = IF ok THEN [arm EXCEPT !.servo = FALSE] ELSE arm
          /\ excused' = [excused EXCEPT !.refused = @ \/ ~ok]
          /\ Adapter!Thread!AfterStop(~ok)
    BY DEF Adapter!Thread!LeaveServo
  <2>3. caller' \in ThCallers /\ caller'.at \in {"idle", "releasing", "disabling"}
    BY <1>1, <2>2, ThreadWays
  <2>4. \/ arm' = [arm EXCEPT !.servo = FALSE] /\ excused' = excused
        \/ arm' = arm /\ excused' = [excused EXCEPT !.refused = TRUE]
    BY <1>1, <2>2 DEF ThExcuses
  <2> QED
    BY <2>1, <2>3, <2>4 DEF Adapter!Thread!LeaveServo
<1>4. caller' \in ThCallers
  BY <1>1, <1>2, <1>3, ThreadNumbers
  DEF ThCallers, Adapter!Thread!None
<1>5. servo' \in ThServos
  BY <1>1, <1>2, <1>3, ThreadNumbers
  DEF ThServos, Adapter!Thread!None
<1>6. arm' \in ThArms
  BY <1>1, <1>2, <1>3, ThreadNumbers
  DEF ThArms, Adapter!Thread!None
<1>7. excused' \in ThExcuses
  BY <1>1, <1>2, <1>3, ThreadNumbers
  DEF ThExcuses, Adapter!Thread!None
<1>8. ThreadTypeOK'
  BY <1>1, <1>2, <1>4, <1>5, <1>6, <1>7, ThreadTypesNext
<1>9. SenderInv'
  BY <1>1, <1>2, <1>3, ThreadNumbers
  DEF ThreadInv, SenderInv, Adapter!Thread!Alive, Adapter!Thread!None,
      ThCallers, ThLinks, ThServos, ThSenders, ThArms, ThExcuses
<1>10. ExitInv'
  BY <1>1, <1>2, <1>3, ThreadNumbers
  DEF ThreadInv, ExitInv, SenderInv, Adapter!Thread!Alive, Adapter!Thread!None,
      ThCallers, ThLinks, ThServos, ThSenders, ThArms, ThExcuses
<1> QED
  BY <1>8, <1>9, <1>10 DEF ThreadInv

\* The robot is disabled, or refuses.
LEMMA ThDisableController ==
    ASSUME ThreadInv, Adapter!Thread!DisableController
    PROVE  ThreadInv'
<1>1. /\ caller \in ThCallers /\ link \in ThLinks /\ servo \in ThServos
      /\ sender \in ThSenders /\ age \in Ages /\ arm \in ThArms /\ excused \in ThExcuses
  BY ThreadTypes
<1>2. UNCHANGED <<servo, sender, age, excused>>
  BY DEF Adapter!Thread!DisableController, Adapter!Thread!Return
<1>3. caller' \in ThCallers
  BY <1>1, <1>2, ThreadNumbers
  DEF Adapter!Thread!DisableController, Adapter!Thread!Return,
      ThCallers, Adapter!Thread!None
<1>4. link' \in ThLinks
  BY <1>1, <1>2, ThreadNumbers
  DEF Adapter!Thread!DisableController, Adapter!Thread!Return,
      ThLinks, Adapter!Thread!None
<1>5. arm' \in ThArms
  BY <1>1, <1>2, ThreadNumbers
  DEF Adapter!Thread!DisableController, Adapter!Thread!Return,
      ThArms, Adapter!Thread!None
<1>6. ThreadTypeOK'
  BY <1>1, <1>2, <1>3, <1>4, <1>5, ThreadTypesNext
<1>7. SenderInv'
  BY <1>1, <1>2, ThreadNumbers
  DEF Adapter!Thread!DisableController, Adapter!Thread!Return,
      ThreadInv, SenderInv, Adapter!Thread!Alive, Adapter!Thread!None,
      ThCallers, ThLinks, ThServos, ThSenders, ThArms, ThExcuses
<1>8. ExitInv'
  BY <1>1, <1>2, ThreadNumbers
  DEF Adapter!Thread!DisableController, Adapter!Thread!Return,
      ThreadInv, ExitInv, SenderInv, Adapter!Thread!Alive, Adapter!Thread!None,
      ThCallers, ThLinks, ThServos, ThSenders, ThArms, ThExcuses
<1> QED
  BY <1>6, <1>7, <1>8 DEF ThreadInv

\* An action replaces the target.
LEMMA ThSendTarget ==
    ASSUME ThreadInv, Adapter!Thread!SendTarget
    PROVE  ThreadInv'
<1>1. /\ caller \in ThCallers /\ link \in ThLinks /\ servo \in ThServos
      /\ sender \in ThSenders /\ age \in Ages /\ arm \in ThArms /\ excused \in ThExcuses
  BY ThreadTypes
<1>2. UNCHANGED <<link, sender, arm, excused>>
  BY DEF Adapter!Thread!SendTarget, Adapter!Thread!Idle, Adapter!Thread!Return
<1>3. /\ caller' = [at |-> "idle", op |-> "none"] /\ caller.at = "idle" /\ link.rc
      /\ \/ servo' = servo /\ age' = age
         \/ /\ age' = 0
            /\ \E rep \in {"joints", "eef"} :
                 servo' = [active |-> servo.active, stop |-> servo.stop,
                           thread |-> servo.thread, ready |-> servo.ready,
                           target |-> rep, commanded |-> rep]
  <2>1. caller' = [at |-> "idle", op |-> "none"] /\ caller.at = "idle" /\ link.rc
    BY DEF Adapter!Thread!SendTarget, Adapter!Thread!Idle, Adapter!Thread!IsConnected,
           Adapter!Thread!Return
  <2>2. servo.commanded = servo.target
    BY DEF ThreadInv, SenderInv
  <2>3. ASSUME NEW rep \in {"joints", "eef"}
        PROVE  servo' = [servo EXCEPT !.target = rep,
                                      !.commanded = IF servo.target # rep THEN rep ELSE @] =>
               servo' = [active |-> servo.active, stop |-> servo.stop, thread |-> servo.thread,
                    ready |-> servo.ready, target |-> rep, commanded |-> rep]
    BY <1>1, <2>2 DEF ThServos
  <2> QED
    BY <2>1, <2>3 DEF Adapter!Thread!SendTarget
<1>4. caller' \in ThCallers
  BY <1>1, <1>2, <1>3, ThreadNumbers
  DEF ThCallers, Adapter!Thread!None
<1>5. servo' \in ThServos
  BY <1>1, <1>2, <1>3, ThreadNumbers
  DEF ThServos, Adapter!Thread!None
<1>6. age' \in Ages
  BY <1>1, <1>2, <1>3, ThreadNumbers

<1>7. ThreadTypeOK'
  BY <1>1, <1>2, <1>4, <1>5, <1>6, ThreadTypesNext
<1>8. SenderInv'
  BY <1>1, <1>2, <1>3, ThreadNumbers
  DEF ThreadInv, SenderInv, Adapter!Thread!Alive, Adapter!Thread!None,
      ThCallers, ThLinks, ThServos, ThSenders, ThArms, ThExcuses
<1>9. ExitInv'
  BY <1>1, <1>2, <1>3, ThreadNumbers
  DEF ThreadInv, ExitInv, SenderInv, Adapter!Thread!Alive, Adapter!Thread!None,
      ThCallers, ThLinks, ThServos, ThSenders, ThArms, ThExcuses
<1> QED
  BY <1>7, <1>8, <1>9 DEF ThreadInv

\* The sender sees the stop event,
LEMMA ThSenderStops ==
    ASSUME ThreadInv, NEW w \in Adapter!Thread!Senders, Adapter!Thread!SenderStops(w)
    PROVE  ThreadInv'
<1>1. /\ caller \in ThCallers /\ link \in ThLinks /\ servo \in ThServos
      /\ sender \in ThSenders /\ age \in Ages /\ arm \in ThArms /\ excused \in ThExcuses
  BY ThreadTypes
<1>2. UNCHANGED <<caller, link, servo, age, arm, excused>>
  BY DEF Adapter!Thread!SenderStops
<1>3. sender' \in ThSenders
  BY <1>1, <1>2, ThreadNumbers
  DEF Adapter!Thread!SenderStops,
      ThSenders, Adapter!Thread!None
<1>4. ThreadTypeOK'
  BY <1>1, <1>2, <1>3, ThreadTypesNext
<1>5. SenderInv'
  BY <1>1, <1>2, ThreadNumbers
  DEF Adapter!Thread!SenderStops,
      ThreadInv, SenderInv, Adapter!Thread!Alive, Adapter!Thread!None,
      ThCallers, ThLinks, ThServos, ThSenders, ThArms, ThExcuses
<1>6. ExitInv'
  BY <1>1, <1>2, ThreadNumbers
  DEF Adapter!Thread!SenderStops,
      ThreadInv, ExitInv, SenderInv, Adapter!Thread!Alive, Adapter!Thread!None,
      ThCallers, ThLinks, ThServos, ThSenders, ThArms, ThExcuses
<1> QED
  BY <1>4, <1>5, <1>6 DEF ThreadInv

\* fails or sends a frame,
LEMMA ThSenderFrame ==
    ASSUME ThreadInv, NEW w \in Adapter!Thread!Senders, Adapter!Thread!SenderFrame(w)
    PROVE  ThreadInv'
<1>1. /\ caller \in ThCallers /\ link \in ThLinks /\ servo \in ThServos
      /\ sender \in ThSenders /\ age \in Ages /\ arm \in ThArms /\ excused \in ThExcuses
  BY ThreadTypes
<1>2. UNCHANGED <<caller, link, age, arm, excused>>
  BY DEF Adapter!Thread!SenderFrame, Adapter!Thread!FailSender
<1>3. /\ sender[w] = "loop"
      /\ \/ /\ sender' = [sender EXCEPT ![w] = "quitting"]
            /\ servo' = [active |-> FALSE, stop |-> TRUE, thread |-> servo.thread,
                         ready |-> IF servo.ready = "waiting" THEN "failed" ELSE servo.ready,
                         target |-> servo.target, commanded |-> servo.commanded]
         \/ sender' = [sender EXCEPT ![w] = "calling"] /\ servo' = servo
  <2>1. Adapter!Thread!FailSender(w) =>
          /\ sender' = [sender EXCEPT ![w] = "quitting"]
          /\ servo' = [active |-> FALSE, stop |-> TRUE, thread |-> servo.thread,
                       ready |-> IF servo.ready = "waiting" THEN "failed" ELSE servo.ready,
                       target |-> servo.target, commanded |-> servo.commanded]
    BY <1>1 DEF Adapter!Thread!FailSender, ThServos
  <2> QED
    BY <2>1 DEF Adapter!Thread!SenderFrame
<1>4. servo' \in ThServos
  <2> DEFINE R(a, s, r) == [active |-> a, stop |-> s, thread |-> servo.thread, ready |-> r,
                            target |-> servo.target, commanded |-> servo.commanded]
  <2>1. /\ (IF servo.ready = "waiting" THEN "failed" ELSE servo.ready)
             \in {"none", "waiting", "sent", "failed"}
        /\ (IF servo.ready = "waiting" THEN "sent" ELSE servo.ready)
             \in {"none", "waiting", "sent", "failed"}
    BY <1>1 DEF ThServos
  <2>2. servo.active \in BOOLEAN /\ servo.stop \in BOOLEAN
        /\ TRUE \in BOOLEAN /\ FALSE \in BOOLEAN
    BY <1>1 DEF ThServos
  <2>3. \A a, s \in BOOLEAN, r \in {"none", "waiting", "sent", "failed"} :
          R(a, s, r) \in ThServos
    BY <1>1 DEF ThServos
  <2>4. \/ servo' = servo
        \/ servo' = R(FALSE, TRUE, IF servo.ready = "waiting" THEN "failed" ELSE servo.ready)
        \/ servo' = R(servo.active, servo.stop,
                      IF servo.ready = "waiting" THEN "sent" ELSE servo.ready)
    BY <1>3
  <2> HIDE DEF R
  <2> QED
    BY <1>1, <2>1, <2>2, <2>3, <2>4, Zenon
<1>5. sender' \in ThSenders
  BY <1>1, <1>2, <1>3, ThreadNumbers
  DEF ThSenders, Adapter!Thread!None
<1>6. ThreadTypeOK'
  BY <1>1, <1>2, <1>4, <1>5, ThreadTypesNext
<1>7. SenderInv'
  BY <1>1, <1>2, <1>3, ThreadNumbers
  DEF ThreadInv, SenderInv, Adapter!Thread!Alive, Adapter!Thread!None,
      ThCallers, ThLinks, ThServos, ThSenders, ThArms, ThExcuses
<1>8. ExitInv'
  BY <1>1, <1>2, <1>3, ThreadNumbers
  DEF ThreadInv, ExitInv, SenderInv, Adapter!Thread!Alive, Adapter!Thread!None,
      ThCallers, ThLinks, ThServos, ThSenders, ThArms, ThExcuses
<1> QED
  BY <1>6, <1>7, <1>8 DEF ThreadInv

\* hears of it,
LEMMA ThFrameReturns ==
    ASSUME ThreadInv, NEW w \in Adapter!Thread!Senders, Adapter!Thread!FrameReturns(w)
    PROVE  ThreadInv'
<1>1. /\ caller \in ThCallers /\ link \in ThLinks /\ servo \in ThServos
      /\ sender \in ThSenders /\ age \in Ages /\ arm \in ThArms /\ excused \in ThExcuses
  BY ThreadTypes
<1>2. UNCHANGED <<caller, link, age, arm, excused>>
  BY DEF Adapter!Thread!FrameReturns, Adapter!Thread!FailSender
<1>3. /\ sender[w] = "calling"
      /\ \/ /\ sender' = [sender EXCEPT ![w] = "quitting"]
            /\ servo' = [active |-> FALSE, stop |-> TRUE, thread |-> servo.thread,
                         ready |-> IF servo.ready = "waiting" THEN "failed" ELSE servo.ready,
                         target |-> servo.target, commanded |-> servo.commanded]
         \/ /\ sender' = [sender EXCEPT ![w] = "loop"]
            /\ servo' = [active |-> servo.active, stop |-> servo.stop, thread |-> servo.thread,
                         ready |-> IF servo.ready = "waiting" THEN "sent" ELSE servo.ready,
                         target |-> servo.target, commanded |-> servo.commanded]
  <2>1. Adapter!Thread!FailSender(w) =>
          /\ sender' = [sender EXCEPT ![w] = "quitting"]
          /\ servo' = [active |-> FALSE, stop |-> TRUE, thread |-> servo.thread,
                       ready |-> IF servo.ready = "waiting" THEN "failed" ELSE servo.ready,
                       target |-> servo.target, commanded |-> servo.commanded]
    BY <1>1 DEF Adapter!Thread!FailSender, ThServos
  <2>2. [servo EXCEPT !.ready = IF @ = "waiting" THEN "sent" ELSE @]
          = [active |-> servo.active, stop |-> servo.stop, thread |-> servo.thread,
             ready |-> IF servo.ready = "waiting" THEN "sent" ELSE servo.ready,
             target |-> servo.target, commanded |-> servo.commanded]
    BY <1>1 DEF ThServos
  <2> QED
    BY <2>1, <2>2 DEF Adapter!Thread!FrameReturns
<1>4. servo' \in ThServos
  <2> DEFINE R(a, s, r) == [active |-> a, stop |-> s, thread |-> servo.thread, ready |-> r,
                            target |-> servo.target, commanded |-> servo.commanded]
  <2>1. /\ (IF servo.ready = "waiting" THEN "failed" ELSE servo.ready)
             \in {"none", "waiting", "sent", "failed"}
        /\ (IF servo.ready = "waiting" THEN "sent" ELSE servo.ready)
             \in {"none", "waiting", "sent", "failed"}
    BY <1>1 DEF ThServos
  <2>2. servo.active \in BOOLEAN /\ servo.stop \in BOOLEAN
        /\ TRUE \in BOOLEAN /\ FALSE \in BOOLEAN
    BY <1>1 DEF ThServos
  <2>3. \A a, s \in BOOLEAN, r \in {"none", "waiting", "sent", "failed"} :
          R(a, s, r) \in ThServos
    BY <1>1 DEF ThServos
  <2>4. \/ servo' = servo
        \/ servo' = R(FALSE, TRUE, IF servo.ready = "waiting" THEN "failed" ELSE servo.ready)
        \/ servo' = R(servo.active, servo.stop,
                      IF servo.ready = "waiting" THEN "sent" ELSE servo.ready)
    BY <1>3
  <2> HIDE DEF R
  <2> QED
    BY <1>1, <2>1, <2>2, <2>3, <2>4, Zenon
<1>5. sender' \in ThSenders
  BY <1>1, <1>2, <1>3, ThreadNumbers
  DEF ThSenders, Adapter!Thread!None
<1>6. ThreadTypeOK'
  BY <1>1, <1>2, <1>4, <1>5, ThreadTypesNext
<1>7. SenderInv'
  BY <1>1, <1>2, <1>3, ThreadNumbers
  DEF ThreadInv, SenderInv, Adapter!Thread!Alive, Adapter!Thread!None,
      ThCallers, ThLinks, ThServos, ThSenders, ThArms, ThExcuses
<1>8. ExitInv'
  BY <1>1, <1>2, <1>3, ThreadNumbers
  DEF ThreadInv, ExitInv, SenderInv, Adapter!Thread!Alive, Adapter!Thread!None,
      ThCallers, ThLinks, ThServos, ThSenders, ThArms, ThExcuses
<1> QED
  BY <1>6, <1>7, <1>8 DEF ThreadInv

\* or leaves Servo Move after a failure.
LEMMA ThSenderLeaves ==
    ASSUME ThreadInv, NEW w \in Adapter!Thread!Senders, Adapter!Thread!SenderLeaves(w)
    PROVE  ThreadInv'
<1>1. /\ caller \in ThCallers /\ link \in ThLinks /\ servo \in ThServos
      /\ sender \in ThSenders /\ age \in Ages /\ arm \in ThArms /\ excused \in ThExcuses
  BY ThreadTypes
<1>2. UNCHANGED <<caller, link, servo, age>>
  BY DEF Adapter!Thread!SenderLeaves
<1>3. sender' \in ThSenders
  BY <1>1, <1>2, ThreadNumbers
  DEF Adapter!Thread!SenderLeaves,
      ThSenders, Adapter!Thread!None
<1>4. arm' \in ThArms
  BY <1>1, <1>2, ThreadNumbers
  DEF Adapter!Thread!SenderLeaves,
      ThArms, Adapter!Thread!None
<1>5. excused' \in ThExcuses
  BY <1>1, <1>2, ThreadNumbers
  DEF Adapter!Thread!SenderLeaves,
      ThExcuses, Adapter!Thread!None
<1>6. ThreadTypeOK'
  BY <1>1, <1>2, <1>3, <1>4, <1>5, ThreadTypesNext
<1>7. SenderInv'
  BY <1>1, <1>2, ThreadNumbers
  DEF Adapter!Thread!SenderLeaves,
      ThreadInv, SenderInv, Adapter!Thread!Alive, Adapter!Thread!None,
      ThCallers, ThLinks, ThServos, ThSenders, ThArms, ThExcuses
<1>8. ExitInv'
  BY <1>1, <1>2, ThreadNumbers
  DEF Adapter!Thread!SenderLeaves,
      ThreadInv, ExitInv, SenderInv, Adapter!Thread!Alive, Adapter!Thread!None,
      ThCallers, ThLinks, ThServos, ThSenders, ThArms, ThExcuses
<1> QED
  BY <1>6, <1>7, <1>8 DEF ThreadInv

\* Time passes.
LEMMA ThTick ==
    ASSUME ThreadInv, Adapter!Thread!Tick
    PROVE  ThreadInv'
<1>1. /\ caller \in ThCallers /\ link \in ThLinks /\ servo \in ThServos
      /\ sender \in ThSenders /\ age \in Ages /\ arm \in ThArms /\ excused \in ThExcuses
  BY ThreadTypes
<1>2. UNCHANGED <<caller, link, servo, sender, arm, excused>>
  BY DEF Adapter!Thread!Tick
<1>3. age' \in Ages
  BY <1>1, <1>2, ThreadNumbers
  DEF Adapter!Thread!Tick
<1>4. ThreadTypeOK'
  BY <1>1, <1>2, <1>3, ThreadTypesNext
<1>5. SenderInv'
  BY <1>1, <1>2, ThreadNumbers
  DEF Adapter!Thread!Tick,
      ThreadInv, SenderInv, Adapter!Thread!Alive, Adapter!Thread!None,
      ThCallers, ThLinks, ThServos, ThSenders, ThArms, ThExcuses
<1>6. ExitInv'
  BY <1>1, <1>2, ThreadNumbers
  DEF Adapter!Thread!Tick,
      ThreadInv, ExitInv, SenderInv, Adapter!Thread!Alive, Adapter!Thread!None,
      ThCallers, ThLinks, ThServos, ThSenders, ThArms, ThExcuses
<1> QED
  BY <1>4, <1>5, <1>6 DEF ThreadInv

\* Every step of the caller and of a sender thread.
LEMMA ThreadStep == ThreadInv /\ Adapter!Thread!Next => ThreadInv'
<1> SUFFICES ASSUME ThreadInv, Adapter!Thread!Next PROVE ThreadInv'
  OBVIOUS
<1>1. CASE Adapter!Thread!CallerStep
  BY <1>1, ThRelease, ThEnterServo, ThStartSender, ThAwaitFirstFrame, ThFirstFrameTimeout,
     ThJoinSender, ThJoinTimeout, ThLeaveServo, ThDisableController
  DEF Adapter!Thread!CallerStep
<1>2. ASSUME NEW w \in Adapter!Thread!Senders, Adapter!Thread!SenderStep(w)
      PROVE  ThreadInv'
  BY <1>2, ThSenderStops, ThSenderFrame, ThFrameReturns, ThSenderLeaves DEF Adapter!Thread!SenderStep
<1> QED
  BY <1>1, <1>2, ThConnect, ThDisconnect, ThCameraDrops, ThServoEnable, ThServoDisable,
     ThDisableRobot, ThSendTarget, ThTick
  DEF Adapter!Thread!Next

\* What the adapter with a thread owes its caller.
LEMMA ThreadPromises ==
    ThreadInv =>
        /\ Adapter!Thread!OneSender /\ Adapter!Thread!ServoExitAccounted
        /\ Adapter!Thread!CommandedMatchesTarget
<1> SUFFICES ASSUME ThreadInv
             PROVE  /\ Adapter!Thread!OneSender /\ Adapter!Thread!ServoExitAccounted
                    /\ Adapter!Thread!CommandedMatchesTarget
  OBVIOUS
<1>1. Adapter!Thread!CommandedMatchesTarget
  BY DEF ThreadInv, SenderInv, Adapter!Thread!CommandedMatchesTarget
<1>2. Adapter!Thread!ServoExitAccounted
  BY DEF ThreadInv, SenderInv, ExitInv, Adapter!Thread!Alive, Adapter!Thread!ServoExitAccounted
<1>3. ASSUME ~excused.abandoned PROVE Adapter!Thread!OneSender
  <2> DEFINE S == {w \in Adapter!Thread!Senders : sender[w] \in {"loop", "calling"}}
  <2>1. S \subseteq {servo.thread}
    BY <1>3 DEF ThreadInv, SenderInv
  <2>2. IsFiniteSet({servo.thread}) /\ Cardinality({servo.thread}) = 1
    BY FS_Singleton
  <2>3. Cardinality(S) <= 1
    BY <2>1, <2>2, FS_Subset
  <2>4. Adapter!Thread!Cardinality(S) = Cardinality(S)
    BY DEF Adapter!Thread!Cardinality, Cardinality
  <2> QED
    BY <2>3, <2>4 DEF Adapter!Thread!OneSender
<1> QED
  BY <1>1, <1>2, <1>3 DEF Adapter!Thread!OneSender

----------------------------------------------------------------------------
(* The JAKA adapter with its Servo sender in an owner process.             *)

\* An entry of a pipe is of a request that was sent; of the one the adapter is
\* waiting for, it names the operation.
Numbered(e) ==
    /\ e.id <= parent.id
    /\ parent.at = "rpc" /\ e.id = parent.id => e.op = Adapter!Process!Requested

\* A process the adapter does not refer to has none of the controller any more;
\* an event tells where its process has come to, and Servo Move is left at exit.
OwnerInv ==
    /\ parent.at \in {"startup", "rpc", "arming", "waiting", "stopping", "shutdown"} =>
         parent.cur # Adapter!Process!None
    /\ \A c \in Adapter!Process!Children :
         /\ c # parent.cur => child[c] \in {"none", "finishing", "exited", "killed"}
         /\ child[c] = "none" => event[c] = {} /\ c # parent.cur
         /\ "error" \in event[c] => child[c] \in {"finishing", "exited", "killed"}
         /\ "inactive" \in event[c] => child[c] \notin {"servo", "sending", "between", "leaving"}
    /\ Adapter!Process!ServoLeftAtExit

\* Where Servo has not been asked for yet, or is to be left.
Unasked ==
    \/ parent.at \in {"startup", "stopping"}
    \/ parent.at \in {"rpc", "arming"} /\ parent.op = "connect"

\* After a confirmed stop no frame is under way, and none will be before the
\* next start; neither before the first one, nor once it was asked to stop.
QuietInv ==
    \A c \in Adapter!Process!Children :
        /\ seen.confirmed => child[c] \notin {"sending", "between"}
        /\ (seen.confirmed \/ Unasked) /\ c = parent.cur => "active" \notin event[c]

\* What the pipes hold is numbered, and no answer was taken for another's.
PipesInv ==
    /\ ~seen.foreign
    /\ \A c \in Adapter!Process!Children :
         /\ \A i \in 1 .. Len(reqs[c]) : Numbered(reqs[c][i])
         /\ \A i \in 1 .. Len(resps[c]) : Numbered(resps[c][i])

ProcessInv == Adapter!Process!TypeOK /\ OwnerInv /\ QuietInv /\ PipesInv

PrParents ==
    [at : {"idle", "startup", "rpc", "arming", "waiting", "stopping", "shutdown", "gone"},
     op : {"none", "connect", "enable", "disable", "disable_robot", "disconnect", "move",
           "read"},
     cur : Adapter!Process!Children \cup {Adapter!Process!None}, active : BOOLEAN,
     id : 0 .. MaxRequests]
PrEvents == [Adapter!Process!Children -> SUBSET Adapter!Process!Events]
PrStates ==
    {"none", "starting", "idle", "noticed", "servo", "sending", "between", "leaving", "erring",
     "finishing", "exited", "killed"}
PrChildren == [Adapter!Process!Children -> PrStates]
PrFailing == SUBSET Adapter!Process!Children
PrRequests == [id : 1 .. MaxRequests, op : Adapter!Process!Requests]
PrAnswers == [id : 1 .. MaxRequests, op : Adapter!Process!Requests, ok : BOOLEAN]
PrReqs == [Adapter!Process!Children -> Seq(PrRequests)]
PrResps == [Adapter!Process!Children -> Seq(PrAnswers)]
PrSeen == [confirmed : BOOLEAN, foreign : BOOLEAN, refused : BOOLEAN, killed : BOOLEAN]

\* The type of the state of the adapter with a process, a variable at a time.
LEMMA ProcessTypes ==
    ProcessInv =>
        /\ parent \in PrParents /\ event \in PrEvents /\ child \in PrChildren
        /\ failing \in PrFailing /\ reqs \in PrReqs /\ resps \in PrResps /\ age \in Ages
        /\ inServo \in BOOLEAN /\ seen \in PrSeen
BY DEF ProcessInv, Adapter!Process!TypeOK, PrParents, PrEvents, PrStates, PrChildren, PrFailing,
       PrRequests, PrAnswers, PrReqs, PrResps, PrSeen, Ages

\* And of the state after a step.
LEMMA ProcessTypesNext ==
    ASSUME parent' \in PrParents, event' \in PrEvents, child' \in PrChildren,
           failing' \in PrFailing, reqs' \in PrReqs, resps' \in PrResps, age' \in Ages,
           inServo' \in BOOLEAN, seen' \in PrSeen
    PROVE  Adapter!Process!TypeOK'
BY DEF Adapter!Process!TypeOK, PrParents, PrEvents, PrStates, PrChildren, PrFailing,
       PrRequests, PrAnswers, PrReqs, PrResps, PrSeen, Ages

\* The names of the events and of the requests, and the numbers.
LEMMA ProcessNumbers ==
    /\ Adapter!Process!Events =
         {"stop", "active", "process_ready", "frame_ready", "inactive", "error"}
    /\ Adapter!Process!Requests = {"pose", "move", "disable_robot", "read"}
    /\ \A c \in Adapter!Process!Children : c # Adapter!Process!None
    /\ MaxRequests \in Nat
BY AdapterConstants
DEF Adapter!Process!Events, Adapter!Process!Requests, Adapter!Process!Children,
    Adapter!Process!None

\* What is left of a pipe when its head is taken was in it, one place further on.
LEMMA TailEntries ==
    ASSUME NEW S, NEW s \in Seq(S), s # <<>>
    PROVE  /\ Head(s) \in S /\ Head(s) = s[1] /\ 1 \in 1 .. Len(s)
           /\ Tail(s) \in Seq(S)
           /\ \A i \in 1 .. Len(Tail(s)) : i + 1 \in 1 .. Len(s) /\ Tail(s)[i] = s[i + 1]
OBVIOUS

\* What is put in a pipe is its last entry, behind those that were in it.
LEMMA AppendEntries ==
    ASSUME NEW S, NEW s \in Seq(S), NEW e \in S
    PROVE  /\ Append(s, e) \in Seq(S)
           /\ \A i \in 1 .. Len(Append(s, e)) :
                Append(s, e)[i] = e \/ (i \in 1 .. Len(s) /\ Append(s, e)[i] = s[i])
OBVIOUS

\* The adapter begins without a process, and Servo Move is off.
LEMMA ProcessInit == Init => ProcessInv
<1> SUFFICES ASSUME Init PROVE ProcessInv
  OBVIOUS
<1>1. Adapter!Process!Init
  BY DEF Init, Adapter!Init
<1>2. 0 \in 0 .. MaxRequests /\ 0 \in Ages /\ \A S : <<>> \in Seq(S) /\ Len(<<>>) = 0
  BY AdapterConstants, ThreadNumbers
<1>3. /\ parent \in PrParents /\ event \in PrEvents /\ child \in PrChildren
      /\ failing \in PrFailing /\ age \in Ages
      /\ inServo \in BOOLEAN /\ seen \in PrSeen
  BY <1>1, <1>2
  DEF Adapter!Process!Init, PrParents, PrEvents, PrStates, PrChildren, PrFailing, PrSeen
<1>4. reqs \in PrReqs /\ resps \in PrResps
  BY <1>1, <1>2 DEF Adapter!Process!Init, PrReqs, PrResps
<1>5. Adapter!Process!TypeOK
  BY <1>3, <1>4
  DEF Adapter!Process!TypeOK, PrParents, PrEvents, PrStates, PrChildren, PrFailing,
      PrRequests, PrAnswers, PrReqs, PrResps, PrSeen, Ages
<1>6. OwnerInv
  BY <1>1, ProcessNumbers
  DEF Adapter!Process!Init, OwnerInv, Adapter!Process!ServoLeftAtExit
<1>7. QuietInv
  BY <1>1 DEF Adapter!Process!Init, QuietInv
<1>8. PipesInv
  <2>1. \A c \in Adapter!Process!Children : Len(reqs[c]) = 0 /\ Len(resps[c]) = 0
    BY <1>1, <1>2 DEF Adapter!Process!Init
  <2> QED
    BY <1>1, <2>1 DEF Adapter!Process!Init, PipesInv
<1> QED
  BY <1>5, <1>6, <1>7, <1>8 DEF ProcessInv

\* A step of a sender thread or of another part leaves the process' state alone,
\* but for the age of the target.
LEMMA ProcessStutter ==
    ASSUME ProcessInv, age' \in Ages,
           UNCHANGED <<parent, event, child, failing, reqs, resps, inServo, seen>>
    PROVE  ProcessInv'
<1>1. Adapter!Process!TypeOK'
  BY ProcessTypes, ProcessTypesNext
<1>2. OwnerInv' /\ QuietInv' /\ PipesInv'
  BY DEF ProcessInv, OwnerInv, QuietInv, PipesInv, Unasked, Numbered, Adapter!Process!Requested,
         Adapter!Process!ServoLeftAtExit
<1> QED
  BY <1>1, <1>2 DEF ProcessInv

\* The adapter goes on with the process it had, and waits for no answer.
SameProcess ==
    /\ parent' \in PrParents /\ parent'.cur = parent.cur /\ parent'.id = parent.id
    /\ parent'.at # "rpc"
    /\ parent'.at \in {"startup", "arming", "waiting", "stopping", "shutdown"} =>
         parent.cur # Adapter!Process!None

\* What a step of the adapter may do to the process it has: reset "active", take
\* an answer, and call the stop confirmed when "inactive" is set and "active" not.
LEMMA ParentStep ==
    ASSUME ProcessInv, SameProcess, UNCHANGED <<child, failing, reqs, inServo>>,
           age' \in Ages,
           \/ event' = event
           \/ event' = [event EXCEPT ![parent.cur] = @ \ {"active"}],
           Unasked' /\ parent.cur \in Adapter!Process!Children =>
               "active" \notin event'[parent.cur],
           \/ resps' = resps
           \/ /\ parent.cur \in Adapter!Process!Children /\ resps[parent.cur] # <<>>
              /\ resps' = [resps EXCEPT ![parent.cur] = Tail(@)],
           seen' \in PrSeen, ~seen'.foreign,
           seen'.refused = seen.refused, seen'.killed = seen.killed,
           seen'.confirmed =>
               \/ seen.confirmed
               \/ /\ parent.cur \in Adapter!Process!Children
                  /\ "inactive" \in event[parent.cur] /\ "active" \notin event[parent.cur]
    PROVE  ProcessInv'
<1>1. /\ parent \in PrParents /\ event \in PrEvents /\ child \in PrChildren
      /\ failing \in PrFailing /\ reqs \in PrReqs /\ resps \in PrResps /\ age \in Ages
      /\ inServo \in BOOLEAN /\ seen \in PrSeen
  BY ProcessTypes
<1>2. /\ event' \in PrEvents
      /\ \A c \in Adapter!Process!Children :
           /\ \A e : e # "active" => (e \in event'[c] <=> e \in event[c])
           /\ "active" \in event'[c] => "active" \in event[c]
  BY <1>1, ProcessNumbers DEF PrEvents
<1>3. /\ resps' \in PrResps
      /\ \A c \in Adapter!Process!Children : \A i \in 1 .. Len(resps'[c]) :
           \E j \in 1 .. Len(resps[c]) : resps'[c][i] = resps[c][j]
  <2>1. CASE resps' = resps
    BY <1>1, <2>1
  <2>2. CASE /\ parent.cur \in Adapter!Process!Children /\ resps[parent.cur] # <<>>
             /\ resps' = [resps EXCEPT ![parent.cur] = Tail(@)]
    <3>1. resps[parent.cur] \in Seq(PrAnswers)
      BY <1>1, <2>2 DEF PrResps
    <3>2. /\ Tail(resps[parent.cur]) \in Seq(PrAnswers)
          /\ \A i \in 1 .. Len(Tail(resps[parent.cur])) :
               /\ i + 1 \in 1 .. Len(resps[parent.cur])
               /\ Tail(resps[parent.cur])[i] = resps[parent.cur][i + 1]
      BY <2>2, <3>1, TailEntries
    <3>3. /\ resps'[parent.cur] = Tail(resps[parent.cur])
          /\ \A c \in Adapter!Process!Children : c # parent.cur => resps'[c] = resps[c]
      BY <1>1, <2>2 DEF PrResps
    <3>4. resps' \in PrResps
      BY <1>1, <2>2, <3>2 DEF PrResps
    <3>5. ASSUME NEW c \in Adapter!Process!Children, NEW i \in 1 .. Len(resps'[c])
          PROVE  \E j \in 1 .. Len(resps[c]) : resps'[c][i] = resps[c][j]
      <4>1. CASE c = parent.cur
        <5>1. resps'[c] = Tail(resps[c]) /\ i \in 1 .. Len(Tail(resps[c]))
          BY <3>3, <3>5, <4>1
        <5>2. i + 1 \in 1 .. Len(resps[c]) /\ Tail(resps[c])[i] = resps[c][i + 1]
          BY <3>2, <4>1, <5>1
        <5> QED
          BY <5>1, <5>2
      <4>2. CASE c # parent.cur
        BY <3>3, <3>5, <4>2
      <4> QED
        BY <4>1, <4>2
    <3> QED
      BY <3>4, <3>5
  <2> QED
    BY <2>1, <2>2
<1>4. Adapter!Process!TypeOK'
  BY <1>1, <1>2, <1>3, ProcessTypesNext DEF SameProcess
<1>5. OwnerInv'
  <2>1. \A c \in Adapter!Process!Children : event[c] = {} => event'[c] = {}
    BY <1>1, <1>2 DEF PrEvents
  <2> QED
    BY <1>2, <2>1 DEF ProcessInv, OwnerInv, SameProcess, PrParents, Adapter!Process!ServoLeftAtExit
<1>6. QuietInv'
  BY <1>2 DEF ProcessInv, OwnerInv, QuietInv, SameProcess
<1>7. PipesInv'
  <2>1. \A e : Numbered(e) => Numbered(e)'
    BY DEF Numbered, SameProcess
  <2> QED
    BY <1>3, <2>1 DEF ProcessInv, PipesInv
<1> QED
  BY <1>4, <1>5, <1>6, <1>7 DEF ProcessInv

\* Where a helper of the adapter returns to.
LEMMA ProcessWays ==
    ASSUME parent \in PrParents
    PROVE  /\ \A where \in {"arming", "stopping", "gone"} : Adapter!Process!At(where) =>
                /\ parent' \in PrParents /\ parent'.cur = parent.cur /\ parent'.id = parent.id
                /\ parent'.at = where /\ parent'.op = parent.op
           /\ Adapter!Process!Return =>
                /\ parent' \in PrParents /\ parent'.cur = parent.cur /\ parent'.id = parent.id
                /\ parent'.at = "idle"
           /\ Adapter!Process!Raise =>
                /\ parent' \in PrParents /\ parent'.cur = parent.cur /\ parent'.id = parent.id
                /\ \/ parent'.at = "idle"
                   \/ parent.op = "connect" /\ parent'.at \in {"stopping", "shutdown"}
<1>1. ASSUME NEW where \in {"arming", "stopping", "gone"}, Adapter!Process!At(where)
      PROVE  /\ parent' \in PrParents /\ parent'.cur = parent.cur /\ parent'.id = parent.id
             /\ parent'.at = where /\ parent'.op = parent.op
  BY <1>1 DEF Adapter!Process!At, PrParents
<1>2. ASSUME Adapter!Process!Return
      PROVE  /\ parent' \in PrParents /\ parent'.cur = parent.cur /\ parent'.id = parent.id
             /\ parent'.at = "idle"
  BY <1>2 DEF Adapter!Process!Return, PrParents
<1>3. ASSUME Adapter!Process!Raise, parent.op = "connect"
      PROVE  /\ parent' \in PrParents /\ parent'.cur = parent.cur /\ parent'.id = parent.id
             /\ parent'.at \in {"stopping", "shutdown"}
  BY <1>3 DEF Adapter!Process!Raise, PrParents
<1>4. Adapter!Process!Raise /\ parent.op # "connect" => Adapter!Process!Return
  BY DEF Adapter!Process!Raise
<1> QED
  BY <1>1, <1>2, <1>3, <1>4

\* connect() waits no longer for the process, or its start failed.
LEMMA PrStartupTimeout ==
    ASSUME ProcessInv, Adapter!Process!StartupTimeout PROVE ProcessInv'
<1>1. parent \in PrParents /\ seen \in PrSeen
  BY ProcessTypes
<1>2. /\ UNCHANGED <<event, child, failing, reqs, resps, age, inServo, seen>>
      /\ parent.at = "startup"
      /\ parent' = [parent EXCEPT !.at = "shutdown", !.op = "disconnect"]
  BY DEF Adapter!Process!StartupTimeout, Adapter!Process!childVars
<1>3. SameProcess /\ ~Unasked'
  BY <1>1, <1>2 DEF SameProcess, Unasked, PrParents, ProcessInv, OwnerInv
<1> QED
  BY <1>1, <1>2, <1>3, ParentStep, ProcessTypes DEF ProcessInv, PipesInv

\* No answer came: the call raises.
LEMMA PrNoResponse ==
    ASSUME ProcessInv, Adapter!Process!NoResponse PROVE ProcessInv'
<1>1. parent \in PrParents /\ seen \in PrSeen
  BY ProcessTypes
<1>2. /\ UNCHANGED <<event, child, failing, reqs, resps, age, inServo, seen>>
      /\ parent.at = "rpc" /\ Adapter!Process!Raise
  BY DEF Adapter!Process!NoResponse, Adapter!Process!childVars
<1>3. SameProcess
  BY <1>1, <1>2, ProcessWays DEF SameProcess, ProcessInv, OwnerInv
<1>4. Unasked' => Unasked
  BY <1>1, <1>2, ProcessWays DEF Unasked
<1> QED
  BY <1>1, <1>2, <1>3, <1>4, ParentStep, ProcessTypes DEF ProcessInv, PipesInv, QuietInv

\* The first frame was sent, or the process failed before.
LEMMA PrAwaitFirstFrame ==
    ASSUME ProcessInv, Adapter!Process!AwaitFirstFrame PROVE ProcessInv'
<1>1. parent \in PrParents /\ seen \in PrSeen
  BY ProcessTypes
<1>2. /\ UNCHANGED <<event, child, failing, reqs, resps, age, inServo, seen>>
      /\ parent.at = "waiting"
  BY DEF Adapter!Process!AwaitFirstFrame, Adapter!Process!childVars
<1>3. /\ parent' \in PrParents /\ parent'.cur = parent.cur /\ parent'.id = parent.id
      /\ parent'.at \in {"idle", "shutdown"}
  <2>1. CASE Adapter!Process!Return
    BY <1>1, <2>1, ProcessWays
  <2>2. CASE parent' = [parent EXCEPT !.active = FALSE,
                          !.at = IF parent.op = "connect" THEN "shutdown" ELSE "idle",
                          !.op = IF parent.op = "connect" THEN "disconnect" ELSE "none"]
    BY <1>1, <2>2 DEF PrParents
  <2> QED
    BY <2>1, <2>2 DEF Adapter!Process!AwaitFirstFrame
<1>4. SameProcess /\ ~Unasked'
  BY <1>1, <1>2, <1>3 DEF SameProcess, Unasked, ProcessInv, OwnerInv
<1> QED
  BY <1>1, <1>2, <1>4, ParentStep, ProcessTypes DEF ProcessInv, PipesInv

\* The adapter resets the event that asks for Servo.
LEMMA ActiveCleared ==
    ASSUME ProcessInv, parent.cur \in Adapter!Process!Children,
           event' = [event EXCEPT ![parent.cur] = @ \ {"active"}]
    PROVE  "active" \notin event'[parent.cur]
BY ProcessTypes DEF PrEvents

\* It does so when no first frame comes in time,
LEMMA PrFirstFrameTimeout ==
    ASSUME ProcessInv, Adapter!Process!FirstFrameTimeout PROVE ProcessInv'
<1>1. parent \in PrParents /\ seen \in PrSeen
  BY ProcessTypes
<1>2. /\ UNCHANGED <<child, failing, reqs, resps, age, inServo, seen>>
      /\ parent.at = "waiting" /\ Adapter!Process!At("stopping")
      /\ event' = [event EXCEPT ![parent.cur] = @ \ {"active"}]
  BY DEF Adapter!Process!FirstFrameTimeout, Adapter!Process!childVars, Adapter!Process!Clear,
         Adapter!Process!Cur
<1>3. SameProcess
  BY <1>1, <1>2, ProcessWays DEF SameProcess, ProcessInv, OwnerInv
<1> QED
  BY <1>1, <1>2, <1>3, ParentStep, ActiveCleared, ProcessTypes DEF ProcessInv, PipesInv

\* when Servo is to be left,
LEMMA PrStopServo ==
    ASSUME ProcessInv, Adapter!Process!StopServo PROVE ProcessInv'
<1>1. parent \in PrParents /\ seen \in PrSeen
  BY ProcessTypes
<1>2. /\ UNCHANGED <<child, failing, reqs, resps, age, inServo, seen>>
      /\ parent.at = "idle" /\ parent.cur # Adapter!Process!None
      /\ \/ Adapter!Process!Return /\ event' = event
         \/ /\ event' = [event EXCEPT ![parent.cur] = @ \ {"active"}]
            /\ \E op \in {"disable", "disable_robot"} :
                 parent' = [parent EXCEPT !.at = "stopping", !.op = op]
  BY DEF Adapter!Process!StopServo, Adapter!Process!childVars, Adapter!Process!Clear,
         Adapter!Process!Cur, Adapter!Process!IsConnected, Adapter!Process!Alive
<1>3. CASE Adapter!Process!Return /\ event' = event
  <2>1. SameProcess /\ ~Unasked'
    BY <1>1, <1>2, <1>3, ProcessWays DEF SameProcess, Unasked
  <2> QED
    BY <1>1, <1>2, <1>3, <2>1, ParentStep, ProcessTypes DEF ProcessInv, PipesInv
<1>4. CASE /\ event' = [event EXCEPT ![parent.cur] = @ \ {"active"}]
           /\ \E op \in {"disable", "disable_robot"} :
                parent' = [parent EXCEPT !.at = "stopping", !.op = op]
  <2>1. SameProcess
    BY <1>1, <1>2, <1>4 DEF SameProcess, PrParents
  <2> QED
    BY <1>1, <1>2, <1>4, <2>1, ParentStep, ActiveCleared, ProcessTypes DEF ProcessInv, PipesInv
<1> QED
  BY <1>2, <1>3, <1>4

\* and on disconnect().
LEMMA PrDisconnect ==
    ASSUME ProcessInv, Adapter!Process!Disconnect PROVE ProcessInv'
<1>1. parent \in PrParents /\ seen \in PrSeen
  BY ProcessTypes
<1>2. /\ UNCHANGED <<child, failing, reqs, resps, age, inServo, seen>>
      /\ parent.at = "idle" /\ parent.cur # Adapter!Process!None
      /\ \/ event' = [event EXCEPT ![parent.cur] = @ \ {"active"}]
         \/ event' = event /\ ~parent.active
      /\ parent' = [parent EXCEPT !.op = "disconnect",
                                  !.at = IF parent.active THEN "stopping" ELSE "shutdown"]
  BY DEF Adapter!Process!Disconnect, Adapter!Process!childVars, Adapter!Process!Clear,
         Adapter!Process!Cur
<1>3. SameProcess /\ (~parent.active => ~Unasked')
  BY <1>1, <1>2 DEF SameProcess, PrParents, Unasked
<1> QED
  BY <1>1, <1>2, <1>3, ParentStep, ActiveCleared, ProcessTypes DEF ProcessInv, PipesInv

\* The process that holds the adapter ends.
LEMMA PrParentDies ==
    ASSUME ProcessInv, Adapter!Process!ParentDies PROVE ProcessInv'
<1>1. parent \in PrParents /\ seen \in PrSeen
  BY ProcessTypes
<1>2. /\ UNCHANGED <<event, child, failing, reqs, resps, age, inServo, seen>>
      /\ Adapter!Process!At("gone")
  BY DEF Adapter!Process!ParentDies, Adapter!Process!childVars
<1>3. SameProcess /\ ~Unasked'
  BY <1>1, <1>2, ProcessWays DEF SameProcess, Unasked
<1> QED
  BY <1>1, <1>2, <1>3, ParentStep, ProcessTypes DEF ProcessInv, PipesInv

\* An action replaces the target.
LEMMA PrSendTarget ==
    ASSUME ProcessInv, Adapter!Process!SendTarget PROVE ProcessInv'
<1>1. parent \in PrParents /\ seen \in PrSeen
  BY ProcessTypes
<1>2. /\ UNCHANGED <<event, child, failing, reqs, resps, inServo, seen>>
      /\ age' = 0 /\ Adapter!Process!Return
  BY DEF Adapter!Process!SendTarget, Adapter!Process!childVars
<1>3. SameProcess /\ ~Unasked'
  BY <1>1, <1>2, ProcessWays DEF SameProcess, Unasked
<1> QED
  BY <1>1, <1>2, <1>3, ParentStep, ThreadNumbers DEF ProcessInv, PipesInv

\* The process has left Servo Move, or did not say so in time.
LEMMA PrAfterStop ==
    ASSUME ProcessInv, NEW stopped \in BOOLEAN, Adapter!Process!AfterStop(stopped),
           parent.at = "stopping",
           stopped => Adapter!Process!IsSet("inactive"),
           UNCHANGED <<event, child, failing, reqs, resps, age, inServo>>
    PROVE  ProcessInv'
<1>1. parent \in PrParents /\ seen \in PrSeen
  BY ProcessTypes
<1>2. PICK failed \in BOOLEAN :
        /\ failed = (~stopped \/ Adapter!Process!IsSet("error"))
        /\ \/ Adapter!Process!Return
           \/ parent' = [parent EXCEPT !.active = FALSE,
                  !.at = IF parent.op \in {"connect", "disconnect"} THEN "shutdown" ELSE "idle",
                  !.op = IF parent.op \in {"connect", "disconnect"} THEN "disconnect" ELSE "none"]
        /\ seen' = [seen EXCEPT !.confirmed = @ \/ ~failed]
  BY DEF Adapter!Process!AfterStop
<1>3. /\ parent' \in PrParents /\ parent'.cur = parent.cur /\ parent'.id = parent.id
      /\ parent'.at \in {"idle", "shutdown"}
  <2>1. CASE Adapter!Process!Return
    BY <1>1, <2>1, ProcessWays
  <2>2. CASE parent' = [parent EXCEPT !.active = FALSE,
                  !.at = IF parent.op \in {"connect", "disconnect"} THEN "shutdown" ELSE "idle",
                  !.op = IF parent.op \in {"connect", "disconnect"} THEN "disconnect" ELSE "none"]
    BY <1>1, <2>2 DEF PrParents
  <2> QED
    BY <1>2, <2>1, <2>2
<1>4. SameProcess /\ ~Unasked'
  BY <1>1, <1>3 DEF SameProcess, Unasked, ProcessInv, OwnerInv
<1>5. /\ seen' \in PrSeen /\ seen'.foreign = seen.foreign
      /\ seen'.refused = seen.refused /\ seen'.killed = seen.killed
      /\ seen'.confirmed => seen.confirmed \/ ~failed
  <2>1. (seen.confirmed \/ ~failed) \in BOOLEAN
    OBVIOUS
  <2> QED
    BY <1>1, <1>2, <2>1 DEF PrSeen
<1>6. ~failed =>
        /\ parent.cur \in Adapter!Process!Children
        /\ "inactive" \in event[parent.cur] /\ "active" \notin event[parent.cur]
  BY <1>1, <1>2 DEF Adapter!Process!IsSet, Adapter!Process!Cur, PrParents, ProcessInv, QuietInv,
                    Unasked
<1> QED
  BY <1>1, <1>4, <1>5, <1>6, ParentStep, ProcessTypes DEF ProcessInv, PipesInv

\* One or the other.
LEMMA PrStops ==
    ASSUME ProcessInv, Adapter!Process!Stopped \/ Adapter!Process!StopTimeout
    PROVE  ProcessInv'
BY PrAfterStop
DEF Adapter!Process!Stopped, Adapter!Process!StopTimeout, Adapter!Process!childVars

\* The answer is taken from the pipe: it is to the request, or the call raises.
LEMMA PrResponse ==
    ASSUME ProcessInv, Adapter!Process!Response PROVE ProcessInv'
<1>1. parent \in PrParents /\ seen \in PrSeen /\ resps \in PrResps
  BY ProcessTypes
<1>2. /\ UNCHANGED <<event, child, failing, reqs, age, inServo>>
      /\ parent.at = "rpc" /\ resps[parent.cur] # <<>>
      /\ resps' = [resps EXCEPT ![parent.cur] = Tail(@)]
  BY DEF Adapter!Process!Response, Adapter!Process!childVars, Adapter!Process!Cur
<1>3. parent.cur \in Adapter!Process!Children
  BY <1>1, <1>2, ProcessTypes DEF PrParents, ProcessInv, OwnerInv, Adapter!Process!Response
<1> DEFINE r == Head(resps[parent.cur])
<1>4. \/ Adapter!Process!Raise /\ seen' = seen
      \/ /\ r.id = parent.id
         /\ seen' = [seen EXCEPT !.foreign = @ \/ r.op # Adapter!Process!Requested]
         /\ Adapter!Process!At("arming") \/ Adapter!Process!Return
  BY DEF Adapter!Process!Response, Adapter!Process!Cur
<1>5. r.id = parent.id => r.op = Adapter!Process!Requested
  <2>1. resps[parent.cur] \in Seq(PrAnswers)
    BY <1>1, <1>3 DEF PrResps
  <2>2. r = resps[parent.cur][1] /\ 1 \in 1 .. Len(resps[parent.cur])
    BY <1>2, <2>1, TailEntries
  <2>3. Numbered(resps[parent.cur][1])
    BY <1>3, <2>2 DEF ProcessInv, PipesInv
  <2> QED
    BY <1>2, <2>2, <2>3 DEF Numbered
<1>6. seen' = seen
  BY <1>1, <1>4, <1>5 DEF PrSeen
<1>7. SameProcess
  BY <1>1, <1>2, <1>3, <1>4, ProcessNumbers, ProcessWays DEF SameProcess
<1>8. Unasked' => Unasked
  BY <1>1, <1>2, <1>4, ProcessWays DEF Unasked
<1> QED
  BY <1>1, <1>2, <1>3, <1>6, <1>7, <1>8, ParentStep, ProcessTypes
  DEF ProcessInv, PipesInv, QuietInv

\* A request is numbered and sent: it is the last of its pipe, and the only one
\* with its number.
LEMMA PrSend ==
    ASSUME ProcessInv, parent.cur \in Adapter!Process!Children, parent.at # "rpc",
           NEW op, NEW request, Adapter!Process!Send(op, request),
           <<op, request>> \in {<<"connect", "pose">>, <<"enable", "pose">>, <<"move", "move">>,
                                <<"disable_robot", "disable_robot">>, <<"read", "read">>},
           op = "connect" => Unasked,
           UNCHANGED <<event, child, failing, resps, age, inServo, seen>>
    PROVE  ProcessInv'
<1>1. /\ parent \in PrParents /\ event \in PrEvents /\ child \in PrChildren
      /\ failing \in PrFailing /\ reqs \in PrReqs /\ resps \in PrResps /\ age \in Ages
      /\ inServo \in BOOLEAN /\ seen \in PrSeen
  BY ProcessTypes
<1>2. /\ op \in {"connect", "enable", "move", "disable_robot", "read"}
      /\ request \in Adapter!Process!Requests
      /\ request = IF op \in {"connect", "enable"} THEN "pose" ELSE op
  BY ProcessNumbers
<1>3. /\ parent.id \in Nat /\ parent.id + 1 \in 1 .. MaxRequests
      /\ parent' = [parent EXCEPT !.at = "rpc", !.op = op, !.id = parent.id + 1]
      /\ reqs' = [reqs EXCEPT ![parent.cur] =
                   Append(reqs[parent.cur], [id |-> parent.id + 1, op |-> request])]
  BY <1>1, ProcessNumbers DEF Adapter!Process!Send, Adapter!Process!Cur, PrParents
<1>4. /\ parent' \in PrParents /\ parent'.cur = parent.cur /\ parent'.id = parent.id + 1
      /\ parent'.at = "rpc" /\ parent'.op = op
  <2>1. parent.id + 1 \in 0 .. MaxRequests
    BY <1>3, ProcessNumbers
  <2> QED
    BY <1>1, <1>2, <1>3, <2>1 DEF PrParents
<1>5. PICK e \in PrRequests : e = [id |-> parent.id + 1, op |-> request]
  BY <1>2, <1>3 DEF PrRequests
<1>6. /\ Append(reqs[parent.cur], e) \in Seq(PrRequests)
      /\ \A i \in 1 .. Len(Append(reqs[parent.cur], e)) :
           \/ Append(reqs[parent.cur], e)[i] = e
           \/ /\ i \in 1 .. Len(reqs[parent.cur])
              /\ Append(reqs[parent.cur], e)[i] = reqs[parent.cur][i]
  <2>1. reqs[parent.cur] \in Seq(PrRequests)
    BY <1>1 DEF PrReqs
  <2> QED
    BY <2>1, AppendEntries
<1>7. /\ reqs'[parent.cur] = Append(reqs[parent.cur], e)
      /\ \A c \in Adapter!Process!Children : c # parent.cur => reqs'[c] = reqs[c]
  BY <1>1, <1>3, <1>5 DEF PrReqs
<1>8. reqs' \in PrReqs
  BY <1>1, <1>3, <1>5, <1>6 DEF PrReqs
<1>9. Adapter!Process!TypeOK'
  BY <1>1, <1>4, <1>8, ProcessTypesNext
<1>10. OwnerInv'
  BY <1>4, ProcessNumbers DEF ProcessInv, OwnerInv, Adapter!Process!ServoLeftAtExit
<1>11. QuietInv'
  BY <1>2, <1>4 DEF ProcessInv, QuietInv, Unasked
<1>12. PipesInv'
  <2>1. ASSUME NEW f, Numbered(f), f.id \in Nat PROVE Numbered(f)'
    BY <1>3, <1>4, <2>1 DEF Numbered
  <2>2. Numbered(e)'
    BY <1>2, <1>3, <1>4, <1>5 DEF Numbered, Adapter!Process!Requested
  <2>3. ASSUME NEW c \in Adapter!Process!Children, NEW i \in 1 .. Len(reqs'[c])
        PROVE  Numbered(reqs[c][i])'
    <3>1. CASE i \in 1 .. Len(reqs[c]) /\ reqs'[c][i] = reqs[c][i]
      <4>1. PICK f : f = reqs[c][i]
        OBVIOUS
      <4>2. f \in PrRequests
        BY <1>1, <3>1, <4>1 DEF PrReqs
      <4>3. f.id \in Nat /\ Numbered(f)
        BY <3>1, <4>1, <4>2, ProcessNumbers DEF PrRequests, ProcessInv, PipesInv
      <4>4. Numbered(f)'
        BY <2>1, <4>3
      <4> QED
        BY <3>1, <4>1, <4>4
    <3>2. CASE reqs'[c][i] = e
      BY <2>2, <3>2
    <3>3. \/ i \in 1 .. Len(reqs[c]) /\ reqs'[c][i] = reqs[c][i]
          \/ reqs'[c][i] = e
      <4>1. CASE c = parent.cur
        BY <1>6, <1>7, <2>3, <4>1
      <4>2. CASE c # parent.cur
        BY <1>7, <2>3, <4>2
      <4> QED
        BY <4>1, <4>2
    <3> QED
      BY <3>1, <3>2, <3>3
  <2>4. ASSUME NEW c \in Adapter!Process!Children, NEW i \in 1 .. Len(resps'[c])
        PROVE  Numbered(resps[c][i])'
    <3>1. PICK f : f = resps[c][i]
      OBVIOUS
    <3>2. f \in PrAnswers
      BY <1>1, <2>4, <3>1 DEF PrResps
    <3>3. f.id \in Nat /\ Numbered(f)
      BY <2>4, <3>1, <3>2, ProcessNumbers DEF PrAnswers, ProcessInv, PipesInv
    <3>4. Numbered(f)'
      BY <2>1, <3>3
    <3> QED
      BY <3>1, <3>4
  <2> QED
    BY <2>3, <2>4 DEF ProcessInv, PipesInv
<1> QED
  BY <1>9, <1>10, <1>11, <1>12 DEF ProcessInv

\* The process reports ready: connect() returns, goes on with the pose, or raises.
LEMMA PrStarted ==
    ASSUME ProcessInv, Adapter!Process!Started PROVE ProcessInv'
<1>1. parent \in PrParents /\ seen \in PrSeen
  BY ProcessTypes
<1>2. /\ UNCHANGED <<event, child, failing, resps, age, inServo, seen>>
      /\ parent.at = "startup"
      /\ \/ /\ parent' = [parent EXCEPT !.at = "shutdown", !.op = "disconnect"]
            /\ reqs' = reqs
         \/ Adapter!Process!Return /\ reqs' = reqs
         \/ Adapter!Process!Send("connect", "pose")
  BY DEF Adapter!Process!Started, Adapter!Process!childVars
<1>3. parent.cur # Adapter!Process!None /\ parent.cur \in Adapter!Process!Children
  BY <1>1, <1>2 DEF ProcessInv, OwnerInv, PrParents
<1>4. CASE /\ parent' = [parent EXCEPT !.at = "shutdown", !.op = "disconnect"]
           /\ reqs' = reqs
  <2>1. SameProcess /\ ~Unasked'
    BY <1>1, <1>3, <1>4 DEF SameProcess, Unasked, PrParents
  <2> QED
    BY <1>1, <1>2, <1>4, <2>1, ParentStep, ProcessTypes DEF ProcessInv, PipesInv
<1>5. CASE Adapter!Process!Return /\ reqs' = reqs
  <2>1. SameProcess /\ ~Unasked'
    BY <1>1, <1>5, ProcessWays DEF SameProcess, Unasked
  <2> QED
    BY <1>1, <1>2, <1>5, <2>1, ParentStep, ProcessTypes DEF ProcessInv, PipesInv
<1>6. CASE Adapter!Process!Send("connect", "pose")
  BY <1>2, <1>3, <1>6, PrSend DEF Unasked
<1> QED
  BY <1>2, <1>4, <1>5, <1>6

\* An operation asks the process,
LEMMA PrRequest ==
    ASSUME ProcessInv, Adapter!Process!Request PROVE ProcessInv'
<1>1. parent \in PrParents
  BY ProcessTypes
<1>2. /\ UNCHANGED <<event, child, failing, resps, age, inServo, seen>>
      /\ parent.at = "idle" /\ parent.cur \in Adapter!Process!Children
      /\ \/ Adapter!Process!Send("move", "move")
         \/ Adapter!Process!Send("disable_robot", "disable_robot")
         \/ Adapter!Process!Send("read", "read")
  BY <1>1 DEF Adapter!Process!Request, Adapter!Process!childVars, Adapter!Process!IsConnected,
              Adapter!Process!Alive, Adapter!Process!Cur, PrParents
<1> QED
  BY <1>2, PrSend

\* and so does servo_enable(True), unless Servo is on.
LEMMA PrServoEnable ==
    ASSUME ProcessInv, Adapter!Process!ServoEnable PROVE ProcessInv'
<1>1. parent \in PrParents /\ seen \in PrSeen
  BY ProcessTypes
<1>2. /\ UNCHANGED <<event, child, failing, resps, age, inServo, seen>>
      /\ parent.at = "idle" /\ parent.cur \in Adapter!Process!Children
      /\ \/ Adapter!Process!Return /\ reqs' = reqs
         \/ Adapter!Process!Send("enable", "pose")
  BY <1>1 DEF Adapter!Process!ServoEnable, Adapter!Process!childVars,
              Adapter!Process!IsConnected, Adapter!Process!Alive, Adapter!Process!Cur, PrParents
<1>3. CASE Adapter!Process!Return /\ reqs' = reqs
  <2>1. SameProcess /\ ~Unasked'
    BY <1>1, <1>3, ProcessWays DEF SameProcess, Unasked
  <2> QED
    BY <1>1, <1>2, <1>3, <2>1, ParentStep, ProcessTypes DEF ProcessInv, PipesInv
<1>4. CASE Adapter!Process!Send("enable", "pose")
  BY <1>2, <1>4, PrSend
<1> QED
  BY <1>2, <1>3, <1>4

\* A new process: the one before it has failed, ended, or is gone.
LEMMA PrStart ==
    ASSUME ProcessInv, Adapter!Process!Start PROVE ProcessInv'
<1>1. /\ parent \in PrParents /\ event \in PrEvents /\ child \in PrChildren
      /\ failing \in PrFailing /\ reqs \in PrReqs /\ resps \in PrResps /\ age \in Ages
      /\ inServo \in BOOLEAN /\ seen \in PrSeen
  BY ProcessTypes
<1>2. PICK c \in Adapter!Process!Children :
        /\ \A d \in Adapter!Process!Children : child[d] = "none" <=> d >= c
        /\ child' = [child EXCEPT ![c] = "starting"]
        /\ parent' = [parent EXCEPT !.at = "startup", !.op = "connect", !.cur = c]
  BY DEF Adapter!Process!Start
<1>3. /\ UNCHANGED <<event, failing, reqs, resps, age, inServo, seen>>
      /\ parent.at = "idle" /\ ~Adapter!Process!IsConnected
  BY DEF Adapter!Process!Start
<1>4. child[c] = "none" /\ event[c] = {}
  <2>1. c \in Nat
    BY DEF Adapter!Process!Children
  <2>2. child[c] = "none"
    BY <1>2, <2>1
  <2> QED
    BY <2>2 DEF ProcessInv, OwnerInv
<1>5. parent.cur \in Adapter!Process!Children =>
        child[parent.cur] \in {"none", "finishing", "exited", "killed"}
  BY <1>3, ProcessNumbers
  DEF Adapter!Process!IsConnected, Adapter!Process!Alive, Adapter!Process!Owner,
      Adapter!Process!IsSet, Adapter!Process!Cur, ProcessInv, OwnerInv
<1>6. /\ parent' \in PrParents /\ parent'.cur = c /\ parent'.id = parent.id
      /\ parent'.at = "startup"
  BY <1>1, <1>2 DEF PrParents
<1>7. /\ child' \in PrChildren /\ child'[c] = "starting"
      /\ \A d \in Adapter!Process!Children : d # c => child'[d] = child[d]
  BY <1>1, <1>2 DEF PrChildren, PrStates
<1>8. Adapter!Process!TypeOK'
  BY <1>1, <1>3, <1>6, <1>7, ProcessTypesNext
<1>9. OwnerInv'
  <2>1. \A d \in Adapter!Process!Children :
          d # c => child[d] \in {"none", "finishing", "exited", "killed"}
    BY <1>5 DEF ProcessInv, OwnerInv
  <2>2. Adapter!Process!ServoLeftAtExit'
    BY <1>3, <1>4, <1>7 DEF ProcessInv, OwnerInv, Adapter!Process!ServoLeftAtExit
  <2>3. ASSUME NEW d \in Adapter!Process!Children
        PROVE  /\ d # c => child'[d] \in {"none", "finishing", "exited", "killed"}
               /\ child'[d] = "none" => event[d] = {} /\ d # c
               /\ "error" \in event[d] => child'[d] \in {"finishing", "exited", "killed"}
               /\ "inactive" \in event[d] =>
                    child'[d] \notin {"servo", "sending", "between", "leaving"}
    BY <1>4, <1>7, <2>1 DEF ProcessInv, OwnerInv
  <2> QED
    BY <1>3, <1>6, <2>2, <2>3, ProcessNumbers DEF OwnerInv
<1>10. QuietInv'
  BY <1>3, <1>4, <1>6, <1>7 DEF ProcessInv, QuietInv
<1>11. PipesInv'
  <2>1. \A e : Numbered(e) => Numbered(e)'
    BY <1>6 DEF Numbered
  <2> QED
    BY <1>3, <2>1 DEF ProcessInv, PipesInv
<1> QED
  BY <1>8, <1>9, <1>10, <1>11 DEF ProcessInv

\* Servo is asked for.
LEMMA PrArm ==
    ASSUME ProcessInv, Adapter!Process!Arm PROVE ProcessInv'
<1>1. /\ parent \in PrParents /\ event \in PrEvents /\ child \in PrChildren
      /\ failing \in PrFailing /\ reqs \in PrReqs /\ resps \in PrResps /\ age \in Ages
      /\ inServo \in BOOLEAN /\ seen \in PrSeen
  BY ProcessTypes
<1>2. /\ UNCHANGED <<child, failing, reqs, resps, inServo>> /\ age' = 0
      /\ parent.at = "arming"
      /\ parent' = [parent EXCEPT !.at = "waiting", !.active = TRUE]
      /\ event' = [event EXCEPT ![parent.cur] = (@ \ {"frame_ready"}) \cup {"active"}]
      /\ seen' = [seen EXCEPT !.confirmed = FALSE]
  BY DEF Adapter!Process!Arm, Adapter!Process!childVars, Adapter!Process!Cur
<1>3. parent.cur \in Adapter!Process!Children /\ parent.cur # Adapter!Process!None
  BY <1>1, <1>2 DEF ProcessInv, OwnerInv, PrParents
<1>4. /\ parent' \in PrParents /\ parent'.cur = parent.cur /\ parent'.id = parent.id
      /\ parent'.at = "waiting"
  BY <1>1, <1>2 DEF PrParents
<1>5. /\ event' \in PrEvents
      /\ \A c \in Adapter!Process!Children : c # parent.cur => event'[c] = event[c]
      /\ \A e : e \notin {"active", "frame_ready"} =>
           (e \in event'[parent.cur] <=> e \in event[parent.cur])
  BY <1>1, <1>2, <1>3, ProcessNumbers DEF PrEvents
<1>6. /\ seen' \in PrSeen /\ ~seen'.confirmed /\ seen'.foreign = seen.foreign
      /\ seen'.refused = seen.refused /\ seen'.killed = seen.killed
  BY <1>1, <1>2 DEF PrSeen
<1>7. Adapter!Process!TypeOK'
  BY <1>1, <1>2, <1>4, <1>5, <1>6, ThreadNumbers, ProcessTypesNext
<1>8. OwnerInv'
  BY <1>2, <1>3, <1>4, <1>5, <1>6 DEF ProcessInv, OwnerInv, Adapter!Process!ServoLeftAtExit
<1>9. QuietInv'
  BY <1>4, <1>6 DEF QuietInv, Unasked
<1>10. PipesInv'
  <2>1. \A e : Numbered(e) => Numbered(e)'
    BY <1>4 DEF Numbered
  <2> QED
    BY <1>2, <1>6, <2>1 DEF ProcessInv, PipesInv
<1> QED
  BY <1>7, <1>8, <1>9, <1>10 DEF ProcessInv

\* The process is asked to stop.
LEMMA PrAskToStop ==
    ASSUME ProcessInv, Adapter!Process!AskToStop PROVE ProcessInv'
<1>1. /\ parent \in PrParents /\ event \in PrEvents /\ child \in PrChildren
      /\ failing \in PrFailing /\ reqs \in PrReqs /\ resps \in PrResps /\ age \in Ages
      /\ inServo \in BOOLEAN /\ seen \in PrSeen
  BY ProcessTypes
<1>2. /\ UNCHANGED <<parent, child, failing, reqs, resps, age, inServo, seen>>
      /\ parent.at = "shutdown"
      /\ event' = [event EXCEPT ![parent.cur] = @ \cup {"stop"}]
  BY DEF Adapter!Process!AskToStop, Adapter!Process!childVars, Adapter!Process!Set,
         Adapter!Process!Cur
<1>3. parent.cur \in Adapter!Process!Children /\ child[parent.cur] # "none"
  BY <1>1, <1>2 DEF ProcessInv, OwnerInv, PrParents
<1>4. /\ event' \in PrEvents
      /\ \A c \in Adapter!Process!Children : c # parent.cur => event'[c] = event[c]
      /\ \A e : e # "stop" => (e \in event'[parent.cur] <=> e \in event[parent.cur])
  BY <1>1, <1>2, <1>3, ProcessNumbers DEF PrEvents
<1>5. Adapter!Process!TypeOK'
  BY <1>1, <1>2, <1>4, ProcessTypesNext
<1>6. OwnerInv'
  BY <1>2, <1>3, <1>4 DEF ProcessInv, OwnerInv, Adapter!Process!ServoLeftAtExit
<1>7. QuietInv'
  BY <1>2, <1>4 DEF ProcessInv, QuietInv, Unasked
<1>8. PipesInv'
  BY <1>2 DEF ProcessInv, PipesInv, Numbered, Adapter!Process!Requested
<1> QED
  BY <1>5, <1>6, <1>7, <1>8 DEF ProcessInv

\* It is joined, or killed; the adapter forgets it.
LEMMA PrJoin ==
    ASSUME ProcessInv, NEW killed \in BOOLEAN, Adapter!Process!Join(killed) PROVE ProcessInv'
<1>1. /\ parent \in PrParents /\ event \in PrEvents /\ child \in PrChildren
      /\ failing \in PrFailing /\ reqs \in PrReqs /\ resps \in PrResps /\ age \in Ages
      /\ inServo \in BOOLEAN /\ seen \in PrSeen
  BY ProcessTypes
<1> DEFINE cur == parent.cur
<1>2. /\ UNCHANGED <<age, inServo>> /\ killed = Adapter!Process!Owner(cur)
      /\ child' = IF killed THEN [child EXCEPT ![cur] = "killed"] ELSE child
      /\ seen' = [seen EXCEPT !.killed = @ \/ killed]
      /\ parent' = [parent EXCEPT !.at = "idle", !.op = "none",
                                  !.cur = Adapter!Process!None, !.active = FALSE]
      /\ event' = [event EXCEPT ![cur] = {}]
      /\ reqs' = [reqs EXCEPT ![cur] = <<>>] /\ resps' = [resps EXCEPT ![cur] = <<>>]
      /\ failing' = failing \ {cur} /\ cur \in Adapter!Process!Children
  BY <1>1 DEF Adapter!Process!Join, Adapter!Process!Cur, Adapter!Process!IsSet, PrParents
<1>3. /\ parent' \in PrParents /\ parent'.cur = Adapter!Process!None
      /\ parent'.id = parent.id /\ parent'.at = "idle"
  BY <1>1, <1>2 DEF PrParents
<1>4. /\ child' \in PrChildren /\ child'[cur] \in {"none", "exited", "killed"}
      /\ \A c \in Adapter!Process!Children : c # cur => child'[c] = child[c]
      /\ ~killed => child' = child
  BY <1>1, <1>2 DEF PrChildren, PrStates, Adapter!Process!Owner
<1>5. /\ event' \in PrEvents /\ event'[cur] = {}
      /\ \A c \in Adapter!Process!Children : c # cur => event'[c] = event[c]
  BY <1>1, <1>2 DEF PrEvents
<1>6. /\ seen' \in PrSeen /\ seen'.confirmed = seen.confirmed /\ seen'.foreign = seen.foreign
      /\ seen'.refused = seen.refused /\ (seen.killed \/ killed => seen'.killed)
  <2>1. (seen.killed \/ killed) \in BOOLEAN
    OBVIOUS
  <2> QED
    BY <1>1, <1>2, <2>1 DEF PrSeen
<1>7. \A S : <<>> \in Seq(S) /\ Len(<<>>) = 0
  OBVIOUS
<1>8. /\ reqs' \in PrReqs /\ resps' \in PrResps
      /\ Len(reqs'[cur]) = 0 /\ Len(resps'[cur]) = 0
      /\ \A c \in Adapter!Process!Children :
           c # cur => reqs'[c] = reqs[c] /\ resps'[c] = resps[c]
  BY <1>1, <1>2, <1>7 DEF PrReqs, PrResps
<1>9. failing' \in PrFailing
  BY <1>1, <1>2 DEF PrFailing
<1>10. Adapter!Process!TypeOK'
  BY <1>1, <1>2, <1>3, <1>4, <1>5, <1>6, <1>8, <1>9, ProcessTypesNext
<1>11. OwnerInv'
  <2>1. Adapter!Process!ServoLeftAtExit'
    BY <1>2, <1>4, <1>6 DEF ProcessInv, OwnerInv, Adapter!Process!ServoLeftAtExit
  <2>2. ASSUME NEW c \in Adapter!Process!Children
        PROVE  /\ child'[c] \in {"none", "finishing", "exited", "killed"}
               /\ child'[c] = "none" => event'[c] = {}
               /\ "error" \in event'[c] => child'[c] \in {"finishing", "exited", "killed"}
    BY <1>4, <1>5 DEF ProcessInv, OwnerInv
  <2> QED
    BY <1>3, <2>1, <2>2, ProcessNumbers DEF OwnerInv
<1>12. QuietInv'
  BY <1>3, <1>4, <1>5, <1>6, ProcessNumbers DEF ProcessInv, QuietInv
<1>13. PipesInv'
  <2>1. \A e : Numbered(e) => Numbered(e)'
    BY <1>3 DEF Numbered
  <2>2. ASSUME NEW c \in Adapter!Process!Children
        PROVE  /\ \A i \in 1 .. Len(reqs'[c]) : Numbered(reqs[c][i])'
               /\ \A i \in 1 .. Len(resps'[c]) : Numbered(resps[c][i])'
    <3>1. CASE c = cur
      BY <1>8, <3>1
    <3>2. CASE c # cur
      BY <1>8, <2>1, <3>2 DEF ProcessInv, PipesInv
    <3> QED
      BY <3>1, <3>2
  <2> QED
    BY <1>6, <2>2 DEF ProcessInv, PipesInv
<1> QED
  BY <1>10, <1>11, <1>12, <1>13 DEF ProcessInv

\* What a step of an owner process may do: go on to another place, with events
\* that tell of it; leave Servo Move behind only as accounted for; and send a
\* frame only while Servo is asked for.
LEMMA ChildStep ==
    ASSUME ProcessInv, NEW c \in Adapter!Process!Children, NEW to \in PrStates,
           child' = [child EXCEPT ![c] = to], to # "none", child[c] # "none",
           c # parent.cur => to \in {"finishing", "exited", "killed"},
           event' \in PrEvents,
           \A d \in Adapter!Process!Children : d # c => event'[d] = event[d],
           "active" \in event'[c] => "active" \in event[c],
           "error" \in event'[c] => to \in {"finishing", "exited", "killed"},
           "inactive" \in event'[c] => to \notin {"servo", "sending", "between", "leaving"},
           seen.confirmed => to \notin {"sending", "between"},
           failing' \in PrFailing, UNCHANGED <<parent, reqs, resps, age>>,
           inServo' \in BOOLEAN, seen' \in PrSeen,
           seen'.confirmed = seen.confirmed, seen'.foreign = seen.foreign,
           seen'.killed = seen.killed, seen.refused => seen'.refused,
           inServo' =>
               \/ to \in {"servo", "sending", "between", "leaving"} \/ seen'.refused
               \/ inServo /\ child[c] \notin {"servo", "sending", "between", "leaving"}
    PROVE  ProcessInv'
<1>1. /\ parent \in PrParents /\ event \in PrEvents /\ child \in PrChildren
      /\ failing \in PrFailing /\ reqs \in PrReqs /\ resps \in PrResps /\ age \in Ages
      /\ inServo \in BOOLEAN /\ seen \in PrSeen
  BY ProcessTypes
<1>2. /\ child' \in PrChildren /\ child'[c] = to
      /\ \A d \in Adapter!Process!Children : d # c => child'[d] = child[d]
  BY <1>1 DEF PrChildren
<1>3. Adapter!Process!TypeOK'
  BY <1>1, <1>2, ProcessTypesNext
<1>4. OwnerInv'
  <2>1. Adapter!Process!ServoLeftAtExit'
    BY <1>2 DEF ProcessInv, OwnerInv, Adapter!Process!ServoLeftAtExit
  <2> QED
    BY <1>2, <2>1 DEF ProcessInv, OwnerInv
<1>5. QuietInv'
  BY <1>2 DEF ProcessInv, QuietInv, Unasked
<1>6. PipesInv'
  BY DEF ProcessInv, PipesInv, Numbered, Adapter!Process!Requested
<1> QED
  BY <1>3, <1>4, <1>5, <1>6 DEF ProcessInv

\* A process that has begun and not ended is the adapter's, unless it is about to end.
LEMMA RunsForAdapter ==
    ASSUME ProcessInv, NEW c \in Adapter!Process!Children,
           child[c] \notin {"none", "finishing", "exited", "killed"}
    PROVE  c = parent.cur /\ "error" \notin event[c]
BY DEF ProcessInv, OwnerInv

\* The events a process sets and clears are events, and of it alone.
LEMMA Flagged ==
    ASSUME ProcessInv, NEW c \in Adapter!Process!Children,
           NEW set \in SUBSET Adapter!Process!Events, NEW clear,
           event' = [event EXCEPT ![c] = (@ \ clear) \cup set]
    PROVE  /\ event' \in PrEvents /\ event'[c] = (event[c] \ clear) \cup set
           /\ \A d \in Adapter!Process!Children : d # c => event'[d] = event[d]
BY ProcessTypes DEF PrEvents

\* The process logs in, or fails.
LEMMA PrBoot ==
    ASSUME ProcessInv, NEW c \in Adapter!Process!Children, Adapter!Process!Boot(c)
    PROVE  ProcessInv'
<1>1. /\ parent \in PrParents /\ event \in PrEvents /\ child \in PrChildren
      /\ failing \in PrFailing /\ inServo \in BOOLEAN /\ seen \in PrSeen
  BY ProcessTypes DEF ProcessInv
<1>2. /\ child[c] = "starting" /\ UNCHANGED <<parent, reqs, resps, age>>
      /\ \/ /\ child' = [child EXCEPT ![c] = "idle"]
            /\ event' = [event EXCEPT ![c] = (@ \ {}) \cup {"inactive", "process_ready"}]
            /\ failing' = failing /\ inServo' = inServo /\ seen' = seen
         \/ /\ child' = [child EXCEPT ![c] = "erring"]
            /\ event' = event
            /\ failing' = failing \cup {c} /\ inServo' = inServo /\ seen' = seen
  BY DEF Adapter!Process!Boot, Adapter!Process!Goto, Adapter!Process!Flag
<1>3. c = parent.cur /\ "error" \notin event[c]
  BY <1>2, RunsForAdapter
<1>4. CASE /\ child' = [child EXCEPT ![c] = "idle"]
           /\ event' = [event EXCEPT ![c] = (@ \ {}) \cup {"inactive", "process_ready"}]
           /\ failing' = failing /\ inServo' = inServo /\ seen' = seen
  <2>1. {"inactive", "process_ready"} \in SUBSET Adapter!Process!Events
    BY ProcessNumbers
  <2>2. /\ event' \in PrEvents /\ event'[c] = (event[c] \ {}) \cup {"inactive", "process_ready"}
        /\ \A d \in Adapter!Process!Children : d # c => event'[d] = event[d]
    BY <1>2, <1>4, <2>1, Flagged
  <2>3. /\ "idle" \in PrStates /\ failing' \in PrFailing
        /\ "inactive" \in event[c] => child[c] \notin {"servo", "sending", "between", "leaving"}
        /\ seen.confirmed => "idle" \notin {"sending", "between"}
    BY <1>1, <1>2, <1>3, <1>4 DEF PrStates, PrFailing, ProcessInv, OwnerInv, QuietInv
  <2> QED
    BY <1>1, <1>2, <1>3, <1>4, <2>2, <2>3, ChildStep
<1>5. CASE /\ child' = [child EXCEPT ![c] = "erring"]
           /\ event' = event
           /\ failing' = failing \cup {c} /\ inServo' = inServo /\ seen' = seen
  <2>1. /\ "erring" \in PrStates /\ failing' \in PrFailing
        /\ "inactive" \in event[c] => child[c] \notin {"servo", "sending", "between", "leaving"}
        /\ seen.confirmed => "erring" \notin {"sending", "between"}
    BY <1>1, <1>2, <1>3, <1>5 DEF PrStates, PrFailing, ProcessInv, OwnerInv, QuietInv
  <2> QED
    BY <1>1, <1>2, <1>3, <1>5, <2>1, ChildStep
<1> QED
  BY <1>2, <1>4, <1>5

\* Its outer loop ends, or notices that Servo is asked for.
LEMMA PrWatch ==
    ASSUME ProcessInv, NEW c \in Adapter!Process!Children, Adapter!Process!Watch(c)
    PROVE  ProcessInv'
<1>1. /\ parent \in PrParents /\ event \in PrEvents /\ child \in PrChildren
      /\ failing \in PrFailing /\ inServo \in BOOLEAN /\ seen \in PrSeen
  BY ProcessTypes DEF ProcessInv
<1>2. /\ child[c] = "idle" /\ UNCHANGED <<parent, reqs, resps, age>>
      /\ \/ /\ child' = [child EXCEPT ![c] = "finishing"]
            /\ event' = event
            /\ failing' = failing /\ inServo' = inServo /\ seen' = seen
         \/ /\ child' = [child EXCEPT ![c] = "erring"]
            /\ event' = event
            /\ failing' = failing \cup {c} /\ inServo' = inServo /\ seen' = seen
         \/ /\ child' = [child EXCEPT ![c] = "noticed"]
            /\ event' = event
            /\ failing' = failing /\ inServo' = inServo /\ seen' = seen
  BY DEF Adapter!Process!Watch, Adapter!Process!Goto
<1>3. c = parent.cur /\ "error" \notin event[c]
  BY <1>2, RunsForAdapter
<1>4. CASE /\ child' = [child EXCEPT ![c] = "finishing"]
           /\ event' = event
           /\ failing' = failing /\ inServo' = inServo /\ seen' = seen
  <2>1. /\ "finishing" \in PrStates /\ failing' \in PrFailing
        /\ "inactive" \in event[c] => child[c] \notin {"servo", "sending", "between", "leaving"}
        /\ seen.confirmed => "finishing" \notin {"sending", "between"}
    BY <1>1, <1>2, <1>3, <1>4 DEF PrStates, PrFailing, ProcessInv, OwnerInv, QuietInv
  <2> QED
    BY <1>1, <1>2, <1>3, <1>4, <2>1, ChildStep
<1>5. CASE /\ child' = [child EXCEPT ![c] = "erring"]
           /\ event' = event
           /\ failing' = failing \cup {c} /\ inServo' = inServo /\ seen' = seen
  <2>1. /\ "erring" \in PrStates /\ failing' \in PrFailing
        /\ "inactive" \in event[c] => child[c] \notin {"servo", "sending", "between", "leaving"}
        /\ seen.confirmed => "erring" \notin {"sending", "between"}
    BY <1>1, <1>2, <1>3, <1>5 DEF PrStates, PrFailing, ProcessInv, OwnerInv, QuietInv
  <2> QED
    BY <1>1, <1>2, <1>3, <1>5, <2>1, ChildStep
<1>6. CASE /\ child' = [child EXCEPT ![c] = "noticed"]
           /\ event' = event
           /\ failing' = failing /\ inServo' = inServo /\ seen' = seen
  <2>1. /\ "noticed" \in PrStates /\ failing' \in PrFailing
        /\ "inactive" \in event[c] => child[c] \notin {"servo", "sending", "between", "leaving"}
        /\ seen.confirmed => "noticed" \notin {"sending", "between"}
    BY <1>1, <1>2, <1>3, <1>6 DEF PrStates, PrFailing, ProcessInv, OwnerInv, QuietInv
  <2> QED
    BY <1>1, <1>2, <1>3, <1>6, <2>1, ChildStep
<1> QED
  BY <1>2, <1>4, <1>5, <1>6

\* It enters Servo Move.
LEMMA PrEnter ==
    ASSUME ProcessInv, NEW c \in Adapter!Process!Children, Adapter!Process!Enter(c)
    PROVE  ProcessInv'
<1>1. /\ parent \in PrParents /\ event \in PrEvents /\ child \in PrChildren
      /\ failing \in PrFailing /\ inServo \in BOOLEAN /\ seen \in PrSeen
  BY ProcessTypes DEF ProcessInv
<1>2. /\ child[c] = "noticed" /\ UNCHANGED <<parent, reqs, resps, age>>
      /\ \/ /\ child' = [child EXCEPT ![c] = "servo"]
            /\ event' = [event EXCEPT ![c] = (@ \ {"inactive"}) \cup {}]
            /\ failing' = failing /\ inServo' = TRUE /\ seen' = seen
         \/ /\ child' = [child EXCEPT ![c] = "erring"]
            /\ event' = [event EXCEPT ![c] = (@ \ {"inactive"}) \cup {}]
            /\ failing' = failing \cup {c} /\ inServo' = inServo /\ seen' = seen
  BY DEF Adapter!Process!Enter, Adapter!Process!Goto, Adapter!Process!Flag
<1>3. c = parent.cur /\ "error" \notin event[c]
  BY <1>2, RunsForAdapter
<1>4. CASE /\ child' = [child EXCEPT ![c] = "servo"]
           /\ event' = [event EXCEPT ![c] = (@ \ {"inactive"}) \cup {}]
           /\ failing' = failing /\ inServo' = TRUE /\ seen' = seen
  <2>1. {} \in SUBSET Adapter!Process!Events
    BY ProcessNumbers
  <2>2. /\ event' \in PrEvents /\ event'[c] = (event[c] \ {"inactive"}) \cup {}
        /\ \A d \in Adapter!Process!Children : d # c => event'[d] = event[d]
    BY <1>2, <1>4, <2>1, Flagged
  <2>3. /\ "servo" \in PrStates /\ failing' \in PrFailing
        /\ "inactive" \in event[c] => child[c] \notin {"servo", "sending", "between", "leaving"}
        /\ seen.confirmed => "servo" \notin {"sending", "between"}
    BY <1>1, <1>2, <1>3, <1>4 DEF PrStates, PrFailing, ProcessInv, OwnerInv, QuietInv
  <2> QED
    BY <1>1, <1>2, <1>3, <1>4, <2>2, <2>3, ChildStep
<1>5. CASE /\ child' = [child EXCEPT ![c] = "erring"]
           /\ event' = [event EXCEPT ![c] = (@ \ {"inactive"}) \cup {}]
           /\ failing' = failing \cup {c} /\ inServo' = inServo /\ seen' = seen
  <2>1. {} \in SUBSET Adapter!Process!Events
    BY ProcessNumbers
  <2>2. /\ event' \in PrEvents /\ event'[c] = (event[c] \ {"inactive"}) \cup {}
        /\ \A d \in Adapter!Process!Children : d # c => event'[d] = event[d]
    BY <1>2, <1>5, <2>1, Flagged
  <2>3. /\ "erring" \in PrStates /\ failing' \in PrFailing
        /\ "inactive" \in event[c] => child[c] \notin {"servo", "sending", "between", "leaving"}
        /\ seen.confirmed => "erring" \notin {"sending", "between"}
    BY <1>1, <1>2, <1>3, <1>5 DEF PrStates, PrFailing, ProcessInv, OwnerInv, QuietInv
  <2> QED
    BY <1>1, <1>2, <1>3, <1>5, <2>2, <2>3, ChildStep
<1> QED
  BY <1>2, <1>4, <1>5

\* It sends a frame, while it is asked to.
LEMMA PrPeriod ==
    ASSUME ProcessInv, NEW c \in Adapter!Process!Children, Adapter!Process!Period(c)
    PROVE  ProcessInv'
<1>1. /\ parent \in PrParents /\ event \in PrEvents /\ child \in PrChildren
      /\ failing \in PrFailing /\ inServo \in BOOLEAN /\ seen \in PrSeen
  BY ProcessTypes DEF ProcessInv
<1>2. /\ child[c] = "servo" /\ UNCHANGED <<parent, reqs, resps, age>>
      /\ \/ /\ child' = [child EXCEPT ![c] = "leaving"]
            /\ event' = event
            /\ failing' = failing /\ inServo' = inServo /\ seen' = seen
         \/ /\ child' = [child EXCEPT ![c] = "leaving"]
            /\ event' = event
            /\ failing' = failing \cup {c} /\ inServo' = inServo /\ seen' = seen
         \/ /\ child' = [child EXCEPT ![c] = "sending"]
            /\ event' = event
            /\ failing' = failing /\ inServo' = inServo /\ seen' = seen
            /\ "active" \in event[c]
  BY DEF Adapter!Process!Period, Adapter!Process!Goto
<1>3. c = parent.cur /\ "error" \notin event[c]
  BY <1>2, RunsForAdapter
<1>4. CASE /\ child' = [child EXCEPT ![c] = "leaving"]
           /\ event' = event
           /\ failing' = failing /\ inServo' = inServo /\ seen' = seen
  <2>1. /\ "leaving" \in PrStates /\ failing' \in PrFailing
        /\ "inactive" \in event[c] => child[c] \notin {"servo", "sending", "between", "leaving"}
        /\ seen.confirmed => "leaving" \notin {"sending", "between"}
    BY <1>1, <1>2, <1>3, <1>4 DEF PrStates, PrFailing, ProcessInv, OwnerInv, QuietInv
  <2> QED
    BY <1>1, <1>2, <1>3, <1>4, <2>1, ChildStep
<1>5. CASE /\ child' = [child EXCEPT ![c] = "leaving"]
           /\ event' = event
           /\ failing' = failing \cup {c} /\ inServo' = inServo /\ seen' = seen
  <2>1. /\ "leaving" \in PrStates /\ failing' \in PrFailing
        /\ "inactive" \in event[c] => child[c] \notin {"servo", "sending", "between", "leaving"}
        /\ seen.confirmed => "leaving" \notin {"sending", "between"}
    BY <1>1, <1>2, <1>3, <1>5 DEF PrStates, PrFailing, ProcessInv, OwnerInv, QuietInv
  <2> QED
    BY <1>1, <1>2, <1>3, <1>5, <2>1, ChildStep
<1>6. CASE /\ child' = [child EXCEPT ![c] = "sending"]
           /\ event' = event
           /\ failing' = failing /\ inServo' = inServo /\ seen' = seen
           /\ "active" \in event[c]
  <2>1. /\ "sending" \in PrStates /\ failing' \in PrFailing
        /\ "inactive" \in event[c] => child[c] \notin {"servo", "sending", "between", "leaving"}
        /\ seen.confirmed => "sending" \notin {"sending", "between"}
    BY <1>1, <1>2, <1>3, <1>6 DEF PrStates, PrFailing, ProcessInv, OwnerInv, QuietInv
  <2> QED
    BY <1>1, <1>2, <1>3, <1>6, <2>1, ChildStep
<1> QED
  BY <1>2, <1>4, <1>5, <1>6

\* The frame was sent, or refused.
LEMMA PrFrameSent ==
    ASSUME ProcessInv, NEW c \in Adapter!Process!Children, Adapter!Process!FrameSent(c)
    PROVE  ProcessInv'
<1>1. /\ parent \in PrParents /\ event \in PrEvents /\ child \in PrChildren
      /\ failing \in PrFailing /\ inServo \in BOOLEAN /\ seen \in PrSeen
  BY ProcessTypes DEF ProcessInv
<1>2. /\ child[c] = "sending" /\ UNCHANGED <<parent, reqs, resps, age>>
      /\ \/ /\ child' = [child EXCEPT ![c] = "between"]
            /\ event' = [event EXCEPT ![c] = (@ \ {}) \cup {"frame_ready"}]
            /\ failing' = failing /\ inServo' = inServo /\ seen' = seen
         \/ /\ child' = [child EXCEPT ![c] = "leaving"]
            /\ event' = event
            /\ failing' = failing \cup {c} /\ inServo' = inServo /\ seen' = seen
  BY DEF Adapter!Process!FrameSent, Adapter!Process!Goto, Adapter!Process!Flag
<1>3. c = parent.cur /\ "error" \notin event[c]
  BY <1>2, RunsForAdapter
<1>4. CASE /\ child' = [child EXCEPT ![c] = "between"]
           /\ event' = [event EXCEPT ![c] = (@ \ {}) \cup {"frame_ready"}]
           /\ failing' = failing /\ inServo' = inServo /\ seen' = seen
  <2>1. {"frame_ready"} \in SUBSET Adapter!Process!Events
    BY ProcessNumbers
  <2>2. /\ event' \in PrEvents /\ event'[c] = (event[c] \ {}) \cup {"frame_ready"}
        /\ \A d \in Adapter!Process!Children : d # c => event'[d] = event[d]
    BY <1>2, <1>4, <2>1, Flagged
  <2>3. /\ "between" \in PrStates /\ failing' \in PrFailing
        /\ "inactive" \in event[c] => child[c] \notin {"servo", "sending", "between", "leaving"}
        /\ seen.confirmed => "between" \notin {"sending", "between"}
    BY <1>1, <1>2, <1>3, <1>4 DEF PrStates, PrFailing, ProcessInv, OwnerInv, QuietInv
  <2> QED
    BY <1>1, <1>2, <1>3, <1>4, <2>2, <2>3, ChildStep
<1>5. CASE /\ child' = [child EXCEPT ![c] = "leaving"]
           /\ event' = event
           /\ failing' = failing \cup {c} /\ inServo' = inServo /\ seen' = seen
  <2>1. /\ "leaving" \in PrStates /\ failing' \in PrFailing
        /\ "inactive" \in event[c] => child[c] \notin {"servo", "sending", "between", "leaving"}
        /\ seen.confirmed => "leaving" \notin {"sending", "between"}
    BY <1>1, <1>2, <1>3, <1>5 DEF PrStates, PrFailing, ProcessInv, OwnerInv, QuietInv
  <2> QED
    BY <1>1, <1>2, <1>3, <1>5, <2>1, ChildStep
<1> QED
  BY <1>2, <1>4, <1>5

\* The next period begins.
LEMMA PrNextPeriod ==
    ASSUME ProcessInv, NEW c \in Adapter!Process!Children, Adapter!Process!NextPeriod(c)
    PROVE  ProcessInv'
<1>1. /\ parent \in PrParents /\ event \in PrEvents /\ child \in PrChildren
      /\ failing \in PrFailing /\ inServo \in BOOLEAN /\ seen \in PrSeen
  BY ProcessTypes DEF ProcessInv
<1>2. /\ child[c] = "between" /\ UNCHANGED <<parent, reqs, resps, age>>
      /\ child' = [child EXCEPT ![c] = "servo"]
      /\ event' = event
      /\ failing' = failing /\ inServo' = inServo /\ seen' = seen
  BY DEF Adapter!Process!NextPeriod, Adapter!Process!Goto
<1>3. c = parent.cur /\ "error" \notin event[c]
  BY <1>2, RunsForAdapter
<1>4. /\ "servo" \in PrStates /\ failing' \in PrFailing
      /\ "inactive" \in event[c] => child[c] \notin {"servo", "sending", "between", "leaving"}
      /\ seen.confirmed => "servo" \notin {"sending", "between"}
  BY <1>1, <1>2, <1>3 DEF PrStates, PrFailing, ProcessInv, OwnerInv, QuietInv
<1> QED
  BY <1>1, <1>2, <1>3, <1>4, ChildStep

\* It leaves Servo Move, or the controller refuses.
LEMMA PrLeave ==
    ASSUME ProcessInv, NEW c \in Adapter!Process!Children, Adapter!Process!Leave(c)
    PROVE  ProcessInv'
<1>1. /\ parent \in PrParents /\ event \in PrEvents /\ child \in PrChildren
      /\ failing \in PrFailing /\ inServo \in BOOLEAN /\ seen \in PrSeen
  BY ProcessTypes DEF ProcessInv
<1>2. child[c] = "leaving" /\ UNCHANGED <<parent, reqs, resps, age>>
  BY DEF Adapter!Process!Leave
<1>3. PICK ok \in BOOLEAN :
        /\ inServo' = (inServo /\ ~ok)
        /\ failing' = IF ok THEN failing ELSE failing \cup {c}
        /\ seen' = [seen EXCEPT !.refused = @ \/ ~ok]
        /\ event' = IF ok THEN [event EXCEPT ![c] = @ \cup {"inactive"}] ELSE event
        /\ child' = [child EXCEPT ![c] = IF ok /\ c \notin failing THEN "idle" ELSE "erring"]
  BY DEF Adapter!Process!Leave, Adapter!Process!Goto
<1>4. /\ ok => seen' = seen
      /\ ~ok => seen' = [seen EXCEPT !.refused = TRUE]
  BY <1>1, <1>3 DEF PrSeen
<1>5. /\ c = parent.cur /\ "error" \notin event[c]
      /\ {"inactive"} \in SUBSET Adapter!Process!Events
  BY <1>2, RunsForAdapter, ProcessNumbers
<1>6. CASE ok
  <2>1. event' = [event EXCEPT ![c] = (@ \ {}) \cup {"inactive"}]
    BY <1>1, <1>3, <1>6 DEF PrEvents
  <2>2. /\ event' \in PrEvents /\ event'[c] = (event[c] \ {}) \cup {"inactive"}
        /\ \A d \in Adapter!Process!Children : d # c => event'[d] = event[d]
    BY <1>5, <2>1, Flagged
  <2>3. PICK to \in {"idle", "erring"} : child' = [child EXCEPT ![c] = to]
    BY <1>3
  <2>4. to \in PrStates /\ failing' \in PrFailing /\ ~inServo' /\ inServo' \in BOOLEAN
    BY <1>1, <1>3, <1>6, <2>3 DEF PrStates
  <2>5. "error" \notin event'[c] /\ ("active" \in event'[c] => "active" \in event[c])
    BY <1>5, <2>2
  <2> QED
    BY <1>1, <1>2, <1>4, <1>5, <1>6, <2>2, <2>3, <2>4, <2>5, ChildStep
<1>7. CASE ~ok
  <2>1. child' = [child EXCEPT ![c] = "erring"] /\ event' = event
    BY <1>3, <1>7
  <2>2. "erring" \in PrStates /\ failing' \in PrFailing /\ inServo' \in BOOLEAN
    BY <1>1, <1>3 DEF PrStates, PrFailing
  <2>3. /\ seen' \in PrSeen /\ seen'.refused /\ seen'.confirmed = seen.confirmed
        /\ seen'.foreign = seen.foreign /\ seen'.killed = seen.killed
    BY <1>1, <1>4, <1>7 DEF PrSeen
  <2>4. seen.confirmed => "erring" \notin {"sending", "between"}
    OBVIOUS
  <2>5. "inactive" \in event'[c] =>
          "erring" \notin {"servo", "sending", "between", "leaving"}
    OBVIOUS
  <2> QED
    BY <1>1, <1>2, <1>4, <1>5, <2>1, <2>2, <2>3, <2>4, <2>5, ChildStep
<1> QED
  BY <1>6, <1>7

\* Its error is published.
LEMMA PrPublish ==
    ASSUME ProcessInv, NEW c \in Adapter!Process!Children, Adapter!Process!Publish(c)
    PROVE  ProcessInv'
<1>1. /\ parent \in PrParents /\ event \in PrEvents /\ child \in PrChildren
      /\ failing \in PrFailing /\ inServo \in BOOLEAN /\ seen \in PrSeen
  BY ProcessTypes DEF ProcessInv
<1>2. /\ child[c] = "erring" /\ UNCHANGED <<parent, reqs, resps, age>>
      /\ child' = [child EXCEPT ![c] = "finishing"]
      /\ event' = [event EXCEPT ![c] = (@ \ {}) \cup {"error", "process_ready", "frame_ready", "inactive"}]
      /\ failing' = failing /\ inServo' = inServo /\ seen' = seen
  BY DEF Adapter!Process!Publish, Adapter!Process!Goto, Adapter!Process!Flag
<1>3. c = parent.cur /\ "error" \notin event[c]
  BY <1>2, RunsForAdapter
<1>4. {"error", "process_ready", "frame_ready", "inactive"} \in SUBSET Adapter!Process!Events
  BY ProcessNumbers
<1>5. /\ event' \in PrEvents /\ event'[c] = (event[c] \ {}) \cup {"error", "process_ready", "frame_ready", "inactive"}
      /\ \A d \in Adapter!Process!Children : d # c => event'[d] = event[d]
  BY <1>2, <1>4, Flagged
<1>6. /\ "finishing" \in PrStates /\ failing' \in PrFailing
      /\ "inactive" \in event[c] => child[c] \notin {"servo", "sending", "between", "leaving"}
      /\ seen.confirmed => "finishing" \notin {"sending", "between"}
  BY <1>1, <1>2, <1>3 DEF PrStates, PrFailing, ProcessInv, OwnerInv, QuietInv
<1> QED
  BY <1>1, <1>2, <1>3, <1>5, <1>6, ChildStep

\* It ends.
LEMMA PrFinish ==
    ASSUME ProcessInv, NEW c \in Adapter!Process!Children, Adapter!Process!Finish(c)
    PROVE  ProcessInv'
<1>1. /\ parent \in PrParents /\ event \in PrEvents /\ child \in PrChildren
      /\ failing \in PrFailing /\ inServo \in BOOLEAN /\ seen \in PrSeen
  BY ProcessTypes DEF ProcessInv
<1>2. /\ child[c] = "finishing" /\ UNCHANGED <<parent, reqs, resps, age>>
      /\ child' = [child EXCEPT ![c] = "exited"]
      /\ event' = event
      /\ failing' = failing /\ inServo' = inServo /\ seen' = seen
  BY DEF Adapter!Process!Finish, Adapter!Process!Goto
<1>3. c # parent.cur => "exited" \in {"finishing", "exited", "killed"}
  OBVIOUS
<1>4. /\ "exited" \in PrStates /\ failing' \in PrFailing
      /\ "inactive" \in event[c] => child[c] \notin {"servo", "sending", "between", "leaving"}
      /\ seen.confirmed => "exited" \notin {"sending", "between"}
  BY <1>1, <1>2, <1>3 DEF PrStates, PrFailing, ProcessInv, OwnerInv, QuietInv
<1> QED
  BY <1>1, <1>2, <1>3, <1>4, ChildStep

\* A request is answered: what was in one pipe is in the other.
LEMMA PrServe ==
    ASSUME ProcessInv, NEW c \in Adapter!Process!Children, Adapter!Process!Serve(c)
    PROVE  ProcessInv'
<1>1. /\ parent \in PrParents /\ event \in PrEvents /\ child \in PrChildren
      /\ failing \in PrFailing /\ reqs \in PrReqs /\ resps \in PrResps /\ age \in Ages
      /\ inServo \in BOOLEAN /\ seen \in PrSeen
  BY ProcessTypes
<1>2. /\ UNCHANGED <<parent, event, child, failing, age, inServo, seen>>
      /\ reqs[c] # <<>> /\ reqs' = [reqs EXCEPT ![c] = Tail(@)]
  BY DEF Adapter!Process!Serve, Adapter!Process!childVars
<1>3. PICK ok \in BOOLEAN :
        resps' = [resps EXCEPT ![c] = Append(@, [id |-> Head(reqs[c]).id,
                                                 op |-> Head(reqs[c]).op, ok |-> ok])]
  BY DEF Adapter!Process!Serve
<1>4. reqs[c] \in Seq(PrRequests) /\ resps[c] \in Seq(PrAnswers)
  BY <1>1 DEF PrReqs, PrResps
<1>5. /\ Head(reqs[c]) \in PrRequests /\ Head(reqs[c]) = reqs[c][1] /\ 1 \in 1 .. Len(reqs[c])
      /\ Tail(reqs[c]) \in Seq(PrRequests)
      /\ \A i \in 1 .. Len(Tail(reqs[c])) :
           i + 1 \in 1 .. Len(reqs[c]) /\ Tail(reqs[c])[i] = reqs[c][i + 1]
  BY <1>2, <1>4, TailEntries
<1>6. PICK e \in PrAnswers :
        e = [id |-> Head(reqs[c]).id, op |-> Head(reqs[c]).op, ok |-> ok]
  BY <1>5 DEF PrRequests, PrAnswers
<1>7. /\ Append(resps[c], e) \in Seq(PrAnswers)
      /\ \A i \in 1 .. Len(Append(resps[c], e)) :
           \/ Append(resps[c], e)[i] = e
           \/ i \in 1 .. Len(resps[c]) /\ Append(resps[c], e)[i] = resps[c][i]
  BY <1>4, AppendEntries
<1>8. /\ reqs' \in PrReqs /\ reqs'[c] = Tail(reqs[c])
      /\ \A d \in Adapter!Process!Children : d # c => reqs'[d] = reqs[d]
  BY <1>1, <1>2, <1>5 DEF PrReqs
<1>9. /\ resps' \in PrResps /\ resps'[c] = Append(resps[c], e)
      /\ \A d \in Adapter!Process!Children : d # c => resps'[d] = resps[d]
  BY <1>1, <1>3, <1>6, <1>7 DEF PrResps
<1>10. Adapter!Process!TypeOK'
  BY <1>1, <1>2, <1>8, <1>9, ProcessTypesNext
<1>11. OwnerInv' /\ QuietInv'
  BY <1>2 DEF ProcessInv, OwnerInv, QuietInv, Unasked, Adapter!Process!ServoLeftAtExit
<1>12. PipesInv'
  <2>1. \A f : Numbered(f) => Numbered(f)'
    BY <1>2 DEF Numbered, Adapter!Process!Requested
  <2>2. Numbered(e)
    <3>1. Numbered(reqs[c][1])
      BY <1>5 DEF ProcessInv, PipesInv
    <3> QED
      BY <1>5, <1>6, <3>1 DEF Numbered
  <2>3. ASSUME NEW d \in Adapter!Process!Children, NEW i \in 1 .. Len(reqs'[d])
        PROVE  \E j \in 1 .. Len(reqs[d]) : reqs'[d][i] = reqs[d][j]
    <3>1. CASE d = c
      <4>1. i \in 1 .. Len(Tail(reqs[c])) /\ reqs'[d][i] = Tail(reqs[c])[i]
        BY <1>8, <2>3, <3>1
      <4>2. i + 1 \in 1 .. Len(reqs[c]) /\ Tail(reqs[c])[i] = reqs[c][i + 1]
        BY <1>5, <4>1
      <4> QED
        BY <3>1, <4>1, <4>2
    <3>2. CASE d # c
      BY <1>8, <2>3, <3>2
    <3> QED
      BY <3>1, <3>2
  <2>4. ASSUME NEW d \in Adapter!Process!Children, NEW i \in 1 .. Len(resps'[d])
        PROVE  \/ resps'[d][i] = e
               \/ i \in 1 .. Len(resps[d]) /\ resps'[d][i] = resps[d][i]
    <3>1. CASE d = c
      BY <1>7, <1>9, <2>4, <3>1
    <3>2. CASE d # c
      BY <1>9, <2>4, <3>2
    <3> QED
      BY <3>1, <3>2
  <2>5. \A d \in Adapter!Process!Children :
          /\ \A j \in 1 .. Len(reqs[d]) : Numbered(reqs[d][j])
          /\ \A j \in 1 .. Len(resps[d]) : Numbered(resps[d][j])
    BY DEF ProcessInv, PipesInv
  <2>6. ASSUME NEW d \in Adapter!Process!Children, NEW i \in 1 .. Len(reqs'[d])
        PROVE  Numbered(reqs[d][i])'
    BY <2>1, <2>3, <2>5, <2>6
  <2>7. ASSUME NEW d \in Adapter!Process!Children, NEW i \in 1 .. Len(resps'[d])
        PROVE  Numbered(resps[d][i])'
    BY <2>1, <2>2, <2>4, <2>5, <2>7
  <2> QED
    BY <1>2, <2>6, <2>7 DEF ProcessInv, PipesInv
<1> QED
  BY <1>10, <1>11, <1>12 DEF ProcessInv

\* Time passes.
LEMMA PrTick == ASSUME ProcessInv, Adapter!Process!Tick PROVE ProcessInv'
<1>1. age' \in Ages
  BY ProcessTypes, ThreadNumbers DEF Adapter!Process!Tick
<1> QED
  BY <1>1, ProcessStutter DEF Adapter!Process!Tick, Adapter!Process!childVars

\* Every step of the adapter and of an owner process.
LEMMA ProcessStep == ProcessInv /\ Adapter!Process!Next => ProcessInv'
<1> SUFFICES ASSUME ProcessInv, Adapter!Process!Next PROVE ProcessInv'
  OBVIOUS
<1>1. CASE Adapter!Process!ParentStep
  BY <1>1, PrStarted, PrStartupTimeout, PrResponse, PrNoResponse, PrArm, PrAwaitFirstFrame,
     PrFirstFrameTimeout, PrStops, PrAskToStop, PrJoin
  DEF Adapter!Process!ParentStep
<1>2. ASSUME NEW c \in Adapter!Process!Children, Adapter!Process!ChildStep(c)
      PROVE  ProcessInv'
  BY <1>2, PrBoot, PrWatch, PrServe, PrEnter, PrPeriod, PrFrameSent, PrNextPeriod, PrLeave,
     PrPublish, PrFinish
  DEF Adapter!Process!ChildStep
<1> QED
  BY <1>1, <1>2, PrStart, PrRequest, PrServoEnable, PrStopServo, PrSendTarget, PrDisconnect,
     PrParentDies, PrTick
  DEF Adapter!Process!Next

\* What the adapter with a process owes its caller.
LEMMA ProcessPromises ==
    ProcessInv =>
        /\ Adapter!Process!QuietOnceConfirmed /\ Adapter!Process!ServoLeftAtExit
        /\ Adapter!Process!AnswerIsOwn
BY DEF ProcessInv, OwnerInv, QuietInv, PipesInv, Adapter!Process!QuietOnceConfirmed,
       Adapter!Process!AnswerIsOwn

\* The process that serves a request after a confirmed stop is not in Servo Move,
\* and no other is.
LEMMA ProcessMoves == ProcessInv => ~Adapter!Process!MoveInsideServo
<1> SUFFICES ASSUME ProcessInv, Adapter!Process!MoveInsideServo PROVE FALSE
  OBVIOUS
<1>1. PICK c \in Adapter!Process!Children : Adapter!Process!Serve(c)
  BY DEF Adapter!Process!MoveInsideServo
<1>2. inServo /\ seen.confirmed /\ ~seen.killed /\ ~seen.refused
  BY DEF Adapter!Process!MoveInsideServo
<1>3. child[c] \in {"idle", "between"}
  BY <1>1 DEF Adapter!Process!Serve
<1>4. child[c] = "idle" /\ c = parent.cur
  BY <1>2, <1>3 DEF ProcessInv, OwnerInv, QuietInv
<1>5. PICK d \in Adapter!Process!Children :
        child[d] \in {"servo", "sending", "between", "leaving"}
  BY <1>2 DEF ProcessInv, OwnerInv, Adapter!Process!ServoLeftAtExit
<1>6. d = parent.cur
  BY <1>5 DEF ProcessInv, OwnerInv
<1> QED
  BY <1>4, <1>5, <1>6

----------------------------------------------------------------------------
(* An arm under a remote policy.                                           *)

\* Where the loop is when it plays nothing any more, or not before a new start.
Closing == {"switching", "joining", "ended", "killed"}

\* An observation is of the running episode, or of the iteration that reset.
OfEpisode(o) == o.era = robot.era \/ (o.era + 1 = robot.era /\ o.ts = 0)

\* A request is about to be sent, under way or answered.
Outstanding == thread.at \in {"taken", "flight", "reply"}
Resting == thread.at \in {"wait", "woken"}

\* The timestep of the next action to be taken from the buffer.
Ahead == IF main.at = "popped" THEN proxy.timestep + 1 ELSE proxy.timestep

\* What bounds resets and timesteps, and ties the loop to the resets carried out.
LoopInv ==
    /\ keys.reset => robot.era < MaxResets
    /\ main.at = "resetting" => robot.era < MaxResets /\ ~keys.reset
    /\ proxy.timestep <= MaxSteps
    /\ main.at \in {"offering", "waiting", "popped"} => proxy.timestep < MaxSteps
    /\ main.at \notin {"popped", "sending"} => main.action = {}
    /\ main.at \in {"observed", "resetting"} => main.era = robot.era
    /\ main.at \in {"switching", "switched"} => main.era + 1 = robot.era
    /\ main.at = "switched" => proxy.timestep = 0
    /\ thread.at = "exited" => main.at \in Closing
    /\ stopper = "done" => ~robot.open \/ ~robot.whole
    /\ main.at = "ended" => stopper = "done"

\* What is offered, asked or kept is of the episode, and a prediction is kept for
\* the timesteps it covers; the thread never asks for more than was offered last.
PredictionInv ==
    main.at \notin Closing =>
        /\ \A t \in Policy!Timesteps : \A o \in proxy.buffer[t] :
             t \in Policy!Covered(o) /\ OfEpisode(o)
        /\ proxy.last # Policy!Nothing =>
             OfEpisode(proxy.last) /\ proxy.last.ts <= proxy.timestep /\ proxy.last.ts < MaxSteps
        /\ proxy.event \/ thread.at = "woken" \/ main.at = "offering" =>
             proxy.last # Policy!Nothing
        /\ Outstanding => thread.obs # Policy!Nothing
        /\ thread.obs # Policy!Nothing =>
             /\ OfEpisode(thread.obs) /\ proxy.last # Policy!Nothing
             /\ thread.obs.ts <= proxy.last.ts
             /\ thread.obs.ts = proxy.last.ts => thread.obs = proxy.last
        /\ main.at \notin {"offering", "waiting", "popped"} /\ proxy.last # Policy!Nothing =>
             proxy.last.ts < proxy.timestep
        /\ Policy!ActionsOfThisEpisode

\* At most one action is left behind by the loop.  Ahead of it, a thread that rests
\* has filled the buffer to the end of its last prediction; one that asked once
\* will fill it further than it is; and a loop that waits while nothing is asked
\* for finds what it waits for.
AheadInv ==
    main.at \notin Closing /\ thread.at # "dead" =>
        /\ \A s, t \in 0 .. Ahead - 1 :
             proxy.buffer[s] # {} /\ proxy.buffer[t] # {} => s = t
        /\ Resting /\ thread.obs = Policy!Nothing =>
             Ahead = 0 /\ \A t \in Policy!Timesteps : proxy.buffer[t] = {}
        /\ Resting /\ thread.obs # Policy!Nothing => proxy.chunk = Chunk
        /\ ~thread.twice /\ Resting /\ thread.obs # Policy!Nothing =>
             /\ Ahead <= thread.obs.ts + Chunk
             /\ \A t \in Policy!Timesteps :
                  t >= Ahead => (proxy.buffer[t] # {} <=> t < thread.obs.ts + Chunk)
        /\ ~thread.twice /\ Outstanding =>
             /\ Ahead < thread.obs.ts + Chunk
             /\ \A t \in Policy!Timesteps :
                  t >= Ahead /\ proxy.buffer[t] # {} => t < thread.obs.ts + Chunk - 1
        /\ ~thread.twice /\ main.at = "waiting" /\ thread.at = "wait" /\ ~proxy.event =>
             proxy.timestep \in Policy!Buffered

\* With a threshold that asks for an empty buffer, the loop waits for whatever is
\* asked and leaves nothing behind.
SparseInv ==
    main.at \notin Closing /\ thread.at # "dead" /\ ThresholdPercent * Chunk < 100 =>
        /\ proxy.event \/ Outstanding \/ thread.at = "woken" =>
             main.at \in {"offering", "waiting"}
        /\ proxy.event \/ Outstanding \/ thread.at = "woken" \/ main.at = "offering" =>
             \A t \in Policy!Timesteps : proxy.buffer[t] = {}
        /\ main.at = "offering" => thread.at = "wait" /\ ~proxy.event
        /\ proxy.event => thread.at = "wait"
        /\ \A t \in 0 .. Ahead - 1 : proxy.buffer[t] = {}

PolicyInv == Policy!TypeOK /\ LoopInv /\ PredictionInv /\ AheadInv /\ SparseInv

PoKeys == [running : BOOLEAN, reset : BOOLEAN, stop : BOOLEAN]
PoMains ==
    [at : {"top", "observed", "resetting", "switching", "switched", "offering", "waiting",
           "popped", "sending", "joining", "ended", "killed"},
     era : Policy!Eras, action : SUBSET Policy!Observations]
PoProxies ==
    [timestep : Policy!Timesteps, buffer : [Policy!Timesteps -> SUBSET Policy!Observations],
     last : Policy!Observations, event : BOOLEAN, chunk : {1, Chunk}]
PoThreads ==
    [at : {"wait", "woken", "taken", "flight", "reply", "exited", "dead"},
     obs : Policy!Observations, twice : BOOLEAN]
PoRobots == [open : BOOLEAN, whole : BOOLEAN, era : Policy!Eras]

\* The type of the policy's state, a variable at a time.
LEMMA PolicyTypes ==
    PolicyInv =>
        /\ keys \in PoKeys /\ stopper \in {"none", "called", "done"} /\ main \in PoMains
        /\ proxy \in PoProxies /\ thread \in PoThreads /\ server \in {"up", "gone"}
        /\ robot \in PoRobots
BY DEF PolicyInv, Policy!TypeOK, PoKeys, PoMains, PoProxies, PoThreads, PoRobots

\* And of the state after a step.
LEMMA PolicyTypesNext ==
    ASSUME keys' \in PoKeys, stopper' \in {"none", "called", "done"}, main' \in PoMains,
           proxy' \in PoProxies, thread' \in PoThreads, server' \in {"up", "gone"},
           robot' \in PoRobots
    PROVE  Policy!TypeOK'
BY DEF Policy!TypeOK, PoKeys, PoMains, PoProxies, PoThreads, PoRobots

\* A policy begins with nothing asked and nothing kept.
LEMMA PolicyValues ==
    /\ Policy!Nothing \in Policy!Observations /\ Policy!Fresh \in PoProxies
    /\ Policy!Started \in PoThreads /\ 0 \in Policy!Eras /\ 0 \in Policy!Timesteps
<1>1. 0 \in Policy!Eras /\ 0 \in Policy!Timesteps /\ MaxSteps \in 0 .. MaxSteps
  BY PolicyConstants DEF Policy!Eras, Policy!Timesteps
<1>2. Policy!Nothing \in Policy!Observations
  BY <1>1 DEF Policy!Nothing, Policy!Observations
<1>3. [t \in Policy!Timesteps |-> {}] \in [Policy!Timesteps -> SUBSET Policy!Observations]
  OBVIOUS
<1>4. Policy!Fresh \in PoProxies
  BY <1>1, <1>2, <1>3 DEF Policy!Fresh, PoProxies
<1>5. Policy!Started \in PoThreads
  BY <1>2 DEF Policy!Started, PoThreads
<1> QED
  BY <1>1, <1>2, <1>4, <1>5

\* What the counters of observations, resets and timesteps are, in numbers.
LEMMA PolicyNumbers ==
    /\ Chunk \in Nat /\ Chunk >= 1 /\ MaxSteps \in Nat /\ MaxSteps >= 1 /\ MaxResets \in Nat
    /\ \A o \in Policy!Observations : o.era \in Nat /\ o.ts \in Nat /\ o.ts <= MaxSteps
    /\ \A t : t \in Policy!Timesteps <=> t \in Nat /\ t <= MaxSteps + Chunk
    /\ \A e : e \in Policy!Eras <=> e \in Nat /\ e <= MaxResets
    /\ Policy!Nothing.ts = MaxSteps
BY PolicyConstants
DEF Policy!Observations, Policy!Timesteps, Policy!Eras, Policy!Nothing

\* The invariant of a policy that has just been started, for the first time or again.
LEMMA FreshPolicy ==
    ASSUME proxy = Policy!Fresh, thread = Policy!Started, main.action = {},
           main.at \in {"top", "switched"}
    PROVE  PredictionInv /\ AheadInv /\ SparseInv
<1>1. /\ proxy.timestep = 0 /\ proxy.last = Policy!Nothing /\ ~proxy.event
      /\ thread.at = "wait" /\ thread.obs = Policy!Nothing /\ Ahead = 0
      /\ \A t \in Policy!Timesteps : proxy.buffer[t] = {}
  BY DEF Policy!Fresh, Policy!Started, Ahead
<1>2. PredictionInv
  BY <1>1 DEF PredictionInv, Outstanding, Policy!ActionsOfThisEpisode
<1>3. 0 .. Ahead - 1 = {}
  BY <1>1
<1>4. AheadInv
  BY <1>1, <1>3 DEF AheadInv, Outstanding, Resting
<1>5. SparseInv
  BY <1>1, <1>3 DEF SparseInv, Outstanding
<1> QED
  BY <1>2, <1>4, <1>5

\* The same of the state after the step that starts it again.
LEMMA FreshPolicyNext ==
    ASSUME proxy' = Policy!Fresh, thread' = Policy!Started, main'.action = {},
           main'.at \in {"top", "switched"}
    PROVE  PredictionInv' /\ AheadInv' /\ SparseInv'
<1>1. /\ proxy'.timestep = 0 /\ proxy'.last = Policy!Nothing /\ ~proxy'.event
      /\ thread'.at = "wait" /\ thread'.obs = Policy!Nothing /\ Ahead' = 0
      /\ \A t \in Policy!Timesteps : proxy'.buffer[t] = {}
  BY DEF Policy!Fresh, Policy!Started, Ahead
<1>2. PredictionInv'
  BY <1>1 DEF PredictionInv, Outstanding, Policy!ActionsOfThisEpisode
<1>3. 0 .. Ahead' - 1 = {}
  BY <1>1
<1>4. AheadInv'
  BY <1>1, <1>3 DEF AheadInv, Outstanding, Resting
<1>5. SparseInv'
  BY <1>1, <1>3 DEF SparseInv, Outstanding
<1> QED
  BY <1>2, <1>4, <1>5

\* So begins the program.
LEMMA PolicyInit == Init => PolicyInv
<1> SUFFICES ASSUME Init PROVE PolicyInv
  OBVIOUS
<1>1. Policy!Init
  BY DEF Init
<1>2. /\ keys \in PoKeys /\ stopper \in {"none", "called", "done"} /\ main \in PoMains
      /\ proxy \in PoProxies /\ thread \in PoThreads /\ server \in {"up", "gone"}
      /\ robot \in PoRobots
  BY <1>1, PolicyValues DEF Policy!Init, PoKeys, PoMains, PoRobots
<1>3. Policy!TypeOK
  BY <1>2 DEF Policy!TypeOK, PoKeys, PoMains, PoProxies, PoThreads, PoRobots
<1>4. LoopInv
  BY <1>1, PolicyConstants DEF Policy!Init, LoopInv, Policy!Fresh, Policy!Started
<1>5. PredictionInv /\ AheadInv /\ SparseInv
  BY <1>1, FreshPolicy DEF Policy!Init
<1> QED
  BY <1>3, <1>4, <1>5 DEF PolicyInv

\* A step of another part leaves the policy alone.
LEMMA PolicyStutter == PolicyInv /\ UNCHANGED policyVars => PolicyInv'
<1> SUFFICES ASSUME PolicyInv, UNCHANGED policyVars PROVE PolicyInv'
  OBVIOUS
<1> USE DEF policyVars
<1>1. Policy!TypeOK' /\ LoopInv'
  BY DEF PolicyInv, Policy!TypeOK, LoopInv
<1>2. PredictionInv'
  BY DEF PolicyInv, PredictionInv, OfEpisode, Outstanding, Policy!ActionsOfThisEpisode
<1>3. AheadInv' /\ SparseInv'
  BY DEF PolicyInv, AheadInv, SparseInv, Ahead, Outstanding, Resting, Policy!Buffered
<1> QED
  BY <1>1, <1>2, <1>3 DEF PolicyInv

\* The buffer is finite, and a count of it is a number.
LEMMA BufferedFinite ==
    /\ IsFiniteSet(Policy!Buffered) /\ Cardinality(Policy!Buffered) \in Nat
    /\ \A S : Policy!Cardinality(S) = Cardinality(S)
<1>1. \A S : Policy!Cardinality(S) = Cardinality(S)
  BY DEF Policy!Cardinality, Cardinality
<1>2. MaxSteps + Chunk \in Int
  BY PolicyNumbers
<1>3. IsFiniteSet(Policy!Timesteps)
  BY <1>2, FS_Interval DEF Policy!Timesteps
<1>4. Policy!Buffered \subseteq Policy!Timesteps
  BY DEF Policy!Buffered
<1>5. IsFiniteSet(Policy!Buffered)
  BY <1>3, <1>4, FS_Subset
<1> QED
  BY <1>1, <1>5, FS_CardinalityType

\* A threshold that asks for an empty buffer does so from the first request on.
LEMMA SparseThreshold ==
    ASSUME proxy \in PoProxies
    PROVE  /\ ThresholdPercent * proxy.chunk \in Nat
           /\ ThresholdPercent * Chunk < 100 => ThresholdPercent * proxy.chunk < 100
<1>1. ThresholdPercent \in Nat /\ Chunk \in Nat /\ Chunk >= 1 /\ proxy.chunk \in {1, Chunk}
  BY PolicyConstants DEF PoProxies
<1>2. ASSUME NEW a \in Nat, NEW b \in Nat PROVE a * b \in Nat
  BY <1>2
<1>3. ThresholdPercent * (Chunk - 1) \in Nat
  BY <1>1, <1>2
<1>4. ThresholdPercent * Chunk = ThresholdPercent * (Chunk - 1) + ThresholdPercent
  BY <1>1
<1>5. CASE proxy.chunk = 1
  BY <1>1, <1>3, <1>4, <1>5
<1>6. CASE proxy.chunk = Chunk
  BY <1>1, <1>2, <1>6
<1> QED
  BY <1>1, <1>5, <1>6

\* With such a threshold an observation is accepted for an empty buffer only.
LEMMA AcceptedEmpty ==
    ASSUME PolicyInv, Policy!Accepts, ThresholdPercent * Chunk < 100
    PROVE  \A t \in Policy!Timesteps : proxy.buffer[t] = {}
<1>1. proxy \in PoProxies
  BY PolicyTypes
<1>2. 100 * Cardinality(Policy!Buffered) < 100
  BY <1>1, BufferedFinite, SparseThreshold DEF Policy!Accepts
<1>3. Cardinality(Policy!Buffered) = 0
  BY <1>2, BufferedFinite
<1>4. Policy!Buffered = {}
  BY <1>3, BufferedFinite, FS_EmptySet
<1> QED
  BY <1>4 DEF Policy!Buffered

\* An observation that is turned down while nothing is asked for was not needed:
\* the action of its timestep is in the buffer.
LEMMA TurnedDown ==
    ASSUME PolicyInv, main.at \in {"observed", "switched"}, thread.at = "wait",
           ~proxy.event, ~thread.twice, ~Policy!Accepts
    PROVE  proxy.timestep \in Policy!Buffered
<1>1. proxy \in PoProxies /\ thread \in PoThreads
  BY PolicyTypes
<1>2. /\ proxy.timestep \in Policy!Timesteps /\ proxy.timestep \in Nat
      /\ Ahead = proxy.timestep
  BY <1>1, PolicyNumbers DEF PoProxies, Ahead
<1>3. 100 * Cardinality(Policy!Buffered) > ThresholdPercent * proxy.chunk
  BY <1>1, BufferedFinite, SparseThreshold DEF Policy!Accepts
<1>4. Policy!Buffered # {}
  <2>1. Cardinality(Policy!Buffered) # 0
    BY <1>1, <1>3, SparseThreshold
  <2> QED
    BY <2>1, BufferedFinite, FS_EmptySet
<1> SUFFICES ASSUME proxy.buffer[proxy.timestep] = {} PROVE FALSE
  BY <1>2 DEF Policy!Buffered
<1>5. main.at \notin Closing /\ Resting
  BY DEF Closing, Resting
<1>6. thread.obs # Policy!Nothing
  BY <1>4, <1>5 DEF PolicyInv, AheadInv, Policy!Buffered
<1>7. /\ proxy.chunk = Chunk
      /\ \A t \in Policy!Timesteps :
           t >= proxy.timestep => (proxy.buffer[t] # {} <=> t < thread.obs.ts + Chunk)
      /\ \A s, t \in 0 .. proxy.timestep - 1 :
           proxy.buffer[s] # {} /\ proxy.buffer[t] # {} => s = t
  BY <1>2, <1>5, <1>6 DEF PolicyInv, AheadInv
<1>8. ~ proxy.timestep < thread.obs.ts + Chunk
  BY <1>2, <1>7
<1>9. \A t \in Policy!Buffered : t \in 0 .. proxy.timestep - 1 /\ proxy.buffer[t] # {}
  <2>1. thread.obs.ts \in Nat /\ Chunk \in Nat
    BY <1>1, PolicyNumbers DEF PoThreads
  <2> QED
    BY <1>2, <1>7, <1>8, <2>1, PolicyNumbers DEF Policy!Buffered
<1>10. PICK s \in Policy!Buffered : TRUE
  BY <1>4
<1>11. Policy!Buffered = {s}
  BY <1>7, <1>9, <1>10
<1>12. Cardinality(Policy!Buffered) = 1
  BY <1>11, FS_Singleton
<1>13. ThresholdPercent * Chunk < 100
  BY <1>3, <1>7, <1>12
<1>14. proxy.buffer[s] = {}
  BY <1>2, <1>5, <1>9, <1>10, <1>13 DEF PolicyInv, SparseInv
<1> QED
  BY <1>9, <1>10, <1>14

\* An iteration begins with an observation, or the loop ends.
LEMMA PoObserve ==
    ASSUME PolicyInv, Policy!Observe
    PROVE  PolicyInv'
<1>1. /\ keys \in PoKeys /\ stopper \in {"none", "called", "done"} /\ main \in PoMains
      /\ proxy \in PoProxies /\ thread \in PoThreads /\ server \in {"up", "gone"}
      /\ robot \in PoRobots
  BY PolicyTypes
<1>2. UNCHANGED <<keys, stopper, proxy, thread, server, robot>>
  BY DEF Policy!Observe, Policy!Goto
<1>3. /\ main.at = "top" /\ main.action = {}
      /\ \/ main' = [at |-> "joining", era |-> main.era, action |-> {}]
         \/ main' = [at |-> "observed", era |-> robot.era, action |-> {}]
  <2>1. main.at = "top" /\ main.action = {}
    BY DEF Policy!Observe, PolicyInv, LoopInv
  <2> QED
    BY <1>1, <2>1 DEF Policy!Observe, Policy!Goto, PoMains
<1>4. main' \in PoMains
  BY <1>1, <1>3 DEF PoMains, PoRobots
<1>5. Policy!TypeOK'
  BY <1>1, <1>2, <1>4, PolicyTypesNext
<1>6. LoopInv'
  BY <1>1, <1>2, <1>3, PolicyNumbers
  DEF PolicyInv, LoopInv, Closing, PoKeys, PoMains, PoThreads, PoRobots
<1>7. PredictionInv'
  BY <1>1, <1>2, <1>3, PolicyNumbers
  DEF PolicyInv, PredictionInv, OfEpisode, Outstanding, Closing,
      Policy!ActionsOfThisEpisode, LoopInv, PoMains, PoProxies, PoThreads, PoRobots
<1>8. AheadInv'
  BY <1>1, <1>2, <1>3, PolicyNumbers
  DEF PolicyInv, AheadInv, Ahead, Outstanding, Resting, Closing, Policy!Buffered, LoopInv,
      PoMains, PoProxies, PoThreads
<1>9. SparseInv'
  BY <1>1, <1>2, <1>3, PolicyNumbers
  DEF PolicyInv, SparseInv, Ahead, Outstanding, Closing, LoopInv, PoMains, PoProxies, PoThreads
<1> QED
  BY <1>5, <1>6, <1>7, <1>8, <1>9 DEF PolicyInv

\* Servo is left and a planned move begins.
LEMMA PoReset ==
    ASSUME PolicyInv, Policy!Reset
    PROVE  PolicyInv'
<1>1. /\ keys \in PoKeys /\ stopper \in {"none", "called", "done"} /\ main \in PoMains
      /\ proxy \in PoProxies /\ thread \in PoThreads /\ server \in {"up", "gone"}
      /\ robot \in PoRobots
  BY PolicyTypes
<1>2. UNCHANGED <<stopper, proxy, thread, server, robot>>
  BY DEF Policy!Reset, Policy!Goto
<1>3. keys' \in PoKeys
  BY <1>1, <1>2, PolicyValues
  DEF Policy!Reset, Policy!Goto, PoKeys
<1>4. main' \in PoMains
  BY <1>1, <1>2, PolicyValues
  DEF Policy!Reset, Policy!Goto, PoMains
<1>5. Policy!TypeOK'
  BY <1>1, <1>2, <1>3, <1>4, PolicyTypesNext
<1>6. LoopInv'
  BY <1>1, <1>2, PolicyNumbers
  DEF Policy!Reset, Policy!Goto, PolicyInv, LoopInv, Closing, PoKeys, PoMains, PoThreads, PoRobots
<1>7. PredictionInv'
  BY <1>1, <1>2, PolicyNumbers
  DEF Policy!Reset, Policy!Goto, PolicyInv, PredictionInv, OfEpisode, Outstanding, Closing,
      Policy!ActionsOfThisEpisode, LoopInv, PoMains, PoProxies, PoThreads, PoRobots
<1>8. AheadInv'
  BY <1>1, <1>2, PolicyNumbers
  DEF Policy!Reset, Policy!Goto, PolicyInv, AheadInv, Ahead, Outstanding, Resting, Closing, Policy!Buffered, LoopInv,
      PoMains, PoProxies, PoThreads
<1>9. SparseInv'
  BY <1>1, <1>2, PolicyNumbers
  DEF Policy!Reset, Policy!Goto, PolicyInv, SparseInv, Ahead, Outstanding, Closing, LoopInv, PoMains, PoProxies, PoThreads
<1> QED
  BY <1>5, <1>6, <1>7, <1>8, <1>9 DEF PolicyInv

\* The move is over: whatever was predicted before is of another episode.
LEMMA PoArrived ==
    ASSUME PolicyInv, Policy!Arrived
    PROVE  PolicyInv'
<1>1. /\ keys \in PoKeys /\ stopper \in {"none", "called", "done"} /\ main \in PoMains
      /\ proxy \in PoProxies /\ thread \in PoThreads /\ server \in {"up", "gone"}
      /\ robot \in PoRobots
  BY PolicyTypes
<1>2. UNCHANGED <<keys, stopper, proxy, thread, server>>
  BY DEF Policy!Arrived, Policy!Goto
<1>3. robot' \in PoRobots
  <2>1. robot.era + 1 \in Policy!Eras
    BY <1>1, PolicyNumbers DEF Policy!Arrived, PolicyInv, LoopInv, PoRobots
  <2> QED
    BY <1>1, <2>1 DEF Policy!Arrived, PoRobots
<1>4. main' \in PoMains
  BY <1>1, <1>2, PolicyValues
  DEF Policy!Arrived, Policy!Goto, PoMains
<1>5. Policy!TypeOK'
  BY <1>1, <1>2, <1>3, <1>4, PolicyTypesNext
<1>6. LoopInv'
  BY <1>1, <1>2, PolicyNumbers
  DEF Policy!Arrived, Policy!Goto, PolicyInv, LoopInv, Closing, PoKeys, PoMains, PoThreads, PoRobots
<1>7. PredictionInv'
  BY <1>1, <1>2, PolicyNumbers
  DEF Policy!Arrived, Policy!Goto, PolicyInv, PredictionInv, OfEpisode, Outstanding, Closing,
      Policy!ActionsOfThisEpisode, LoopInv, PoMains, PoProxies, PoThreads, PoRobots
<1>8. AheadInv'
  BY <1>1, <1>2, PolicyNumbers
  DEF Policy!Arrived, Policy!Goto, PolicyInv, AheadInv, Ahead, Outstanding, Resting, Closing, Policy!Buffered, LoopInv,
      PoMains, PoProxies, PoThreads
<1>9. SparseInv'
  BY <1>1, <1>2, PolicyNumbers
  DEF Policy!Arrived, Policy!Goto, PolicyInv, SparseInv, Ahead, Outstanding, Closing, LoopInv, PoMains, PoProxies, PoThreads
<1> QED
  BY <1>5, <1>6, <1>7, <1>8, <1>9 DEF PolicyInv

\* The request thread is joined and the proxy started again.
LEMMA PoSwitchUp ==
    ASSUME PolicyInv, main.at = "switching",
           Policy!Goto("switched"),
           proxy' = Policy!Fresh,
           thread' = Policy!Started,
           UNCHANGED <<keys, stopper, server, robot>>
    PROVE  PolicyInv'
<1>1. /\ keys \in PoKeys /\ stopper \in {"none", "called", "done"} /\ main \in PoMains
      /\ proxy \in PoProxies /\ thread \in PoThreads /\ server \in {"up", "gone"}
      /\ robot \in PoRobots
  BY PolicyTypes
<1>2. UNCHANGED <<keys, stopper, server, robot>>
  BY DEF Policy!Goto
<1>3. main' \in PoMains
  BY <1>1, <1>2, PolicyValues
  DEF Policy!Goto, PoMains
<1>4. proxy' \in PoProxies
  BY <1>1, <1>2, PolicyValues
  DEF Policy!Goto, PoProxies
<1>5. thread' \in PoThreads
  BY <1>1, <1>2, PolicyValues
  DEF Policy!Goto, PoThreads
<1>6. Policy!TypeOK'
  BY <1>1, <1>2, <1>3, <1>4, <1>5, PolicyTypesNext
<1>7. LoopInv'
  <2>1. /\ proxy'.timestep = 0 /\ thread'.at = "wait"
        /\ main'.at = "switched" /\ main'.era = main.era /\ main'.action = {}
    BY <1>1 DEF Policy!Fresh, Policy!Started, Policy!Goto, PoMains
  <2> QED
    BY <1>1, <1>2, <2>1, PolicyNumbers DEF PolicyInv, LoopInv
<1>8. PredictionInv'
  <2>1. main'.at = "switched" /\ main'.action = {}
    BY <1>1 DEF Policy!Goto, PoMains
  <2> QED
    BY <2>1, FreshPolicyNext
<1>9. AheadInv'
  <2>1. main'.at = "switched" /\ main'.action = {}
    BY <1>1 DEF Policy!Goto, PoMains
  <2> QED
    BY <2>1, FreshPolicyNext
<1>10. SparseInv'
  <2>1. main'.at = "switched" /\ main'.action = {}
    BY <1>1 DEF Policy!Goto, PoMains
  <2> QED
    BY <2>1, FreshPolicyNext
<1> QED
  BY <1>6, <1>7, <1>8, <1>9, <1>10 DEF PolicyInv

\* Without a server it is not.
LEMMA PoSwitchGone ==
    ASSUME PolicyInv, main.at = "switching",
           Policy!Goto("joining"),
           UNCHANGED <<keys, stopper, proxy, thread, server, robot>>
    PROVE  PolicyInv'
<1>1. /\ keys \in PoKeys /\ stopper \in {"none", "called", "done"} /\ main \in PoMains
      /\ proxy \in PoProxies /\ thread \in PoThreads /\ server \in {"up", "gone"}
      /\ robot \in PoRobots
  BY PolicyTypes
<1>2. UNCHANGED <<keys, stopper, proxy, thread, server, robot>>
  BY DEF Policy!Goto
<1>3. main' \in PoMains
  BY <1>1, <1>2, PolicyValues
  DEF Policy!Goto, PoMains
<1>4. Policy!TypeOK'
  BY <1>1, <1>2, <1>3, PolicyTypesNext
<1>5. LoopInv'
  BY <1>1, <1>2, PolicyNumbers
  DEF Policy!Goto, PolicyInv, LoopInv, Closing, PoKeys, PoMains, PoThreads, PoRobots
<1>6. PredictionInv'
  BY <1>1, <1>2, PolicyNumbers
  DEF Policy!Goto, PolicyInv, PredictionInv, OfEpisode, Outstanding, Closing,
      Policy!ActionsOfThisEpisode, LoopInv, PoMains, PoProxies, PoThreads, PoRobots
<1>7. AheadInv'
  BY <1>1, <1>2, PolicyNumbers
  DEF Policy!Goto, PolicyInv, AheadInv, Ahead, Outstanding, Resting, Closing, Policy!Buffered, LoopInv,
      PoMains, PoProxies, PoThreads
<1>8. SparseInv'
  BY <1>1, <1>2, PolicyNumbers
  DEF Policy!Goto, PolicyInv, SparseInv, Ahead, Outstanding, Closing, LoopInv, PoMains, PoProxies, PoThreads
<1> QED
  BY <1>4, <1>5, <1>6, <1>7, <1>8 DEF PolicyInv

\* One or the other.
LEMMA PoSwitch ==
    ASSUME PolicyInv, Policy!Switch
    PROVE  PolicyInv'
<1>1. CASE server = "up"
  BY <1>1, PoSwitchUp DEF Policy!Switch
<1>2. CASE server # "up"
  BY <1>2, PoSwitchGone DEF Policy!Switch
<1> QED
  BY <1>1, <1>2

\* Nothing is to be done,
LEMMA PoDecideIdle ==
    ASSUME PolicyInv, main.at \in {"observed", "switched"},
           Policy!Goto("top"),
           UNCHANGED <<keys, stopper, proxy, thread, server, robot>>
    PROVE  PolicyInv'
<1>1. /\ keys \in PoKeys /\ stopper \in {"none", "called", "done"} /\ main \in PoMains
      /\ proxy \in PoProxies /\ thread \in PoThreads /\ server \in {"up", "gone"}
      /\ robot \in PoRobots
  BY PolicyTypes
<1>2. UNCHANGED <<keys, stopper, proxy, thread, server, robot>>
  BY DEF Policy!Goto
<1>3. main' \in PoMains
  BY <1>1, <1>2, PolicyValues
  DEF Policy!Goto, PoMains
<1>4. Policy!TypeOK'
  BY <1>1, <1>2, <1>3, PolicyTypesNext
<1>5. LoopInv'
  BY <1>1, <1>2, PolicyNumbers
  DEF Policy!Goto, PolicyInv, LoopInv, Closing, PoKeys, PoMains, PoThreads, PoRobots
<1>6. PredictionInv'
  BY <1>1, <1>2, PolicyNumbers
  DEF Policy!Goto, PolicyInv, PredictionInv, OfEpisode, Outstanding, Closing,
      Policy!ActionsOfThisEpisode, LoopInv, PoMains, PoProxies, PoThreads, PoRobots
<1>7. AheadInv'
  BY <1>1, <1>2, PolicyNumbers
  DEF Policy!Goto, PolicyInv, AheadInv, Ahead, Outstanding, Resting, Closing, Policy!Buffered, LoopInv,
      PoMains, PoProxies, PoThreads
<1>8. SparseInv'
  BY <1>1, <1>2, PolicyNumbers
  DEF Policy!Goto, PolicyInv, SparseInv, Ahead, Outstanding, Closing, LoopInv, PoMains, PoProxies, PoThreads
<1> QED
  BY <1>4, <1>5, <1>6, <1>7, <1>8 DEF PolicyInv

\* or the observation is offered,
LEMMA PoDecideOffer ==
    ASSUME PolicyInv, main.at \in {"observed", "switched"},
           proxy.timestep < MaxSteps,
           Policy!Accepts,
           proxy' = [proxy EXCEPT !.last = [era |-> main.era, ts |-> proxy.timestep]],
           Policy!Goto("offering"),
           UNCHANGED <<keys, stopper, thread, server, robot>>
    PROVE  PolicyInv'
<1>1. /\ keys \in PoKeys /\ stopper \in {"none", "called", "done"} /\ main \in PoMains
      /\ proxy \in PoProxies /\ thread \in PoThreads /\ server \in {"up", "gone"}
      /\ robot \in PoRobots
  BY PolicyTypes
<1>2. UNCHANGED <<keys, stopper, thread, server, robot>>
  BY DEF Policy!Goto
<1>3. main' \in PoMains
  BY <1>1, <1>2, PolicyValues
  DEF Policy!Goto, PoMains
<1>4. proxy' \in PoProxies
  <2>1. proxy.timestep \in 0 .. MaxSteps /\ main.era \in Policy!Eras
    BY <1>1, PolicyNumbers DEF PoProxies, PoMains
  <2>2. [era |-> main.era, ts |-> proxy.timestep] \in Policy!Observations
    BY <2>1 DEF Policy!Observations
  <2> QED
    BY <1>1, <2>2 DEF PoProxies
<1>5. Policy!TypeOK'
  BY <1>1, <1>2, <1>3, <1>4, PolicyTypesNext
<1>6. LoopInv'
  BY <1>1, <1>2, PolicyNumbers
  DEF Policy!Goto, PolicyInv, LoopInv, Closing, PoKeys, PoMains, PoThreads, PoRobots
<1>7. PredictionInv'
  BY <1>1, <1>2, PolicyNumbers
  DEF Policy!Goto, PolicyInv, PredictionInv, OfEpisode, Outstanding, Closing,
      Policy!ActionsOfThisEpisode, LoopInv, PoMains, PoProxies, PoThreads, PoRobots
<1>8. AheadInv'
  BY <1>1, <1>2, PolicyNumbers
  DEF Policy!Goto, PolicyInv, AheadInv, Ahead, Outstanding, Resting, Closing, Policy!Buffered, LoopInv,
      PoMains, PoProxies, PoThreads
<1>9. SparseInv'
  <2>1. ThresholdPercent * Chunk < 100 => \A t \in Policy!Timesteps : proxy.buffer[t] = {}
    BY AcceptedEmpty
  <2>2. /\ main.at \notin Closing /\ thread.at # "exited"
        /\ thread.at # "flight" /\ ~proxy.event
        /\ main.at # "popped" /\ Ahead = proxy.timestep
    BY DEF PolicyInv, LoopInv, Closing, Policy!Accepts, Ahead
  <2>3. ThresholdPercent * Chunk < 100 /\ thread.at # "dead" => thread.at = "wait"
    BY <1>1, <2>2 DEF PolicyInv, SparseInv, Outstanding, PoThreads
  <2>4. /\ proxy'.buffer = proxy.buffer /\ proxy'.event = proxy.event
        /\ proxy'.timestep = proxy.timestep /\ main'.at = "offering"
    BY <1>1 DEF Policy!Goto, PoProxies, PoMains
  <2>5. Ahead' = proxy.timestep
    BY <2>4 DEF Ahead
  <2>6. \A t \in 0 .. proxy.timestep - 1 : t \in Policy!Timesteps
    BY <1>1, PolicyNumbers DEF PoProxies
  <2> QED
    BY <1>2, <2>1, <2>2, <2>3, <2>4, <2>5, <2>6 DEF SparseInv, Outstanding
<1> QED
  BY <1>5, <1>6, <1>7, <1>8, <1>9 DEF PolicyInv

\* or earlier predictions will do.
LEMMA PoDecideWait ==
    ASSUME PolicyInv, main.at \in {"observed", "switched"},
           proxy.timestep < MaxSteps,
           ~Policy!Accepts,
           Policy!Goto("waiting"),
           UNCHANGED <<keys, stopper, proxy, thread, server, robot>>
    PROVE  PolicyInv'
<1>1. /\ keys \in PoKeys /\ stopper \in {"none", "called", "done"} /\ main \in PoMains
      /\ proxy \in PoProxies /\ thread \in PoThreads /\ server \in {"up", "gone"}
      /\ robot \in PoRobots
  BY PolicyTypes
<1>2. UNCHANGED <<keys, stopper, proxy, thread, server, robot>>
  BY DEF Policy!Goto
<1>3. main' \in PoMains
  BY <1>1, <1>2, PolicyValues
  DEF Policy!Goto, PoMains
<1>4. Policy!TypeOK'
  BY <1>1, <1>2, <1>3, PolicyTypesNext
<1>5. LoopInv'
  BY <1>1, <1>2, PolicyNumbers
  DEF Policy!Goto, PolicyInv, LoopInv, Closing, PoKeys, PoMains, PoThreads, PoRobots
<1>6. PredictionInv'
  BY <1>1, <1>2, PolicyNumbers
  DEF Policy!Goto, PolicyInv, PredictionInv, OfEpisode, Outstanding, Closing,
      Policy!ActionsOfThisEpisode, LoopInv, PoMains, PoProxies, PoThreads, PoRobots
<1>7. AheadInv'
  <2>1. /\ main.at \notin Closing /\ main.at # "popped"
        /\ main'.at = "waiting" /\ Ahead = proxy.timestep /\ Ahead' = proxy.timestep
    BY <1>1, <1>2 DEF Policy!Goto, PoMains, Closing, Ahead
  <2>2. ~thread.twice /\ thread.at = "wait" /\ ~proxy.event =>
          proxy.timestep \in Policy!Buffered
    BY TurnedDown
  <2> QED
    BY <1>2, <2>1, <2>2
    DEF PolicyInv, AheadInv, Outstanding, Resting, Policy!Buffered
<1>8. SparseInv'
  BY <1>1, <1>2, PolicyNumbers
  DEF Policy!Goto, PolicyInv, SparseInv, Ahead, Outstanding, Closing, LoopInv, PoMains, PoProxies, PoThreads
<1> QED
  BY <1>4, <1>5, <1>6, <1>7, <1>8 DEF PolicyInv

\* One of the three.
LEMMA PoDecide ==
    ASSUME PolicyInv, Policy!Decide
    PROVE  PolicyInv'
<1>1. /\ main.at \in {"observed", "switched"}
      /\ UNCHANGED <<keys, stopper, thread, server, robot>>
  BY DEF Policy!Decide
<1>2. CASE ~keys.running
  BY <1>1, <1>2, PoDecideIdle DEF Policy!Decide
<1>3. CASE keys.running /\ Policy!Accepts
  BY <1>1, <1>3, PoDecideOffer DEF Policy!Decide, Policy!Offer
<1>4. CASE keys.running /\ ~Policy!Accepts
  BY <1>1, <1>4, PoDecideWait DEF Policy!Decide, Policy!Offer
<1> QED
  BY <1>2, <1>3, <1>4

\* The request thread is told of the offer.
LEMMA PoSetEvent ==
    ASSUME PolicyInv, Policy!SetEvent
    PROVE  PolicyInv'
<1>1. /\ keys \in PoKeys /\ stopper \in {"none", "called", "done"} /\ main \in PoMains
      /\ proxy \in PoProxies /\ thread \in PoThreads /\ server \in {"up", "gone"}
      /\ robot \in PoRobots
  BY PolicyTypes
<1>2. UNCHANGED <<keys, stopper, thread, server, robot>>
  BY DEF Policy!SetEvent, Policy!Goto
<1>3. proxy' \in PoProxies
  BY <1>1, <1>2, PolicyValues
  DEF Policy!SetEvent, Policy!Goto, PoProxies
<1>4. main' \in PoMains
  BY <1>1, <1>2, PolicyValues
  DEF Policy!SetEvent, Policy!Goto, PoMains
<1>5. Policy!TypeOK'
  BY <1>1, <1>2, <1>3, <1>4, PolicyTypesNext
<1>6. LoopInv'
  BY <1>1, <1>2, PolicyNumbers
  DEF Policy!SetEvent, Policy!Goto, PolicyInv, LoopInv, Closing, PoKeys, PoMains, PoThreads, PoRobots
<1>7. PredictionInv'
  BY <1>1, <1>2, PolicyNumbers
  DEF Policy!SetEvent, Policy!Goto, PolicyInv, PredictionInv, OfEpisode, Outstanding, Closing,
      Policy!ActionsOfThisEpisode, LoopInv, PoMains, PoProxies, PoThreads, PoRobots
<1>8. AheadInv'
  BY <1>1, <1>2, PolicyNumbers
  DEF Policy!SetEvent, Policy!Goto, PolicyInv, AheadInv, Ahead, Outstanding, Resting, Closing, Policy!Buffered, LoopInv,
      PoMains, PoProxies, PoThreads
<1>9. SparseInv'
  BY <1>1, <1>2, PolicyNumbers
  DEF Policy!SetEvent, Policy!Goto, PolicyInv, SparseInv, Ahead, Outstanding, Closing, LoopInv, PoMains, PoProxies, PoThreads
<1> QED
  BY <1>5, <1>6, <1>7, <1>8, <1>9 DEF PolicyInv

\* The action of the timestep is taken from the buffer.
LEMMA PoPop ==
    ASSUME PolicyInv, Policy!Pop
    PROVE  PolicyInv'
<1>1. /\ keys \in PoKeys /\ stopper \in {"none", "called", "done"} /\ main \in PoMains
      /\ proxy \in PoProxies /\ thread \in PoThreads /\ server \in {"up", "gone"}
      /\ robot \in PoRobots
  BY PolicyTypes
<1>2. UNCHANGED <<keys, stopper, thread, server, robot>>
  BY DEF Policy!Pop
<1>3. /\ main.at = "waiting" /\ proxy.timestep \in Policy!Buffered
      /\ main' = [at |-> "popped", era |-> main.era, action |-> proxy.buffer[proxy.timestep]]
      /\ proxy.buffer[proxy.timestep] \in SUBSET Policy!Observations
      /\ proxy' = [proxy EXCEPT !.buffer[proxy.timestep] = {}]
  BY <1>1 DEF Policy!Pop, PoMains, PoProxies
<1>4. main' \in PoMains
  BY <1>1, <1>3 DEF PoMains
<1>5. proxy' \in PoProxies
  BY <1>1, <1>2, <1>3, PolicyValues
  DEF Policy!Pop, PoProxies
<1>6. Policy!TypeOK'
  BY <1>1, <1>2, <1>4, <1>5, PolicyTypesNext
<1>7. LoopInv'
  BY <1>1, <1>2, <1>3, PolicyNumbers
  DEF Policy!Pop, PolicyInv, LoopInv, Closing, PoKeys, PoMains, PoThreads, PoRobots
<1>8. PredictionInv'
  BY <1>1, <1>2, <1>3, PolicyNumbers
  DEF Policy!Pop, PolicyInv, PredictionInv, OfEpisode, Outstanding, Closing,
      Policy!ActionsOfThisEpisode, LoopInv, PoMains, PoProxies, PoThreads, PoRobots
<1>9. AheadInv'
  BY <1>1, <1>2, <1>3, PolicyNumbers
  DEF Policy!Pop, PolicyInv, AheadInv, Ahead, Outstanding, Resting, Closing, Policy!Buffered, LoopInv,
      PoMains, PoProxies, PoThreads
<1>10. SparseInv'
  <2>1. /\ proxy.timestep \in Nat /\ proxy.timestep \in Policy!Timesteps
        /\ main.at = "waiting" /\ main'.at = "popped" /\ main.at \notin Closing
        /\ proxy'.timestep = proxy.timestep /\ proxy'.event = proxy.event
    BY <1>1, <1>3, PolicyNumbers DEF PoProxies, Closing
  <2>2. Ahead = proxy.timestep /\ Ahead' = proxy.timestep + 1
    BY <2>1 DEF Ahead
  <2>3. proxy.buffer[proxy.timestep] # {}
    BY <1>3 DEF Policy!Buffered
  <2>4. ThresholdPercent * Chunk < 100 /\ thread.at # "dead" =>
          /\ ~proxy.event /\ ~Outstanding /\ thread.at # "woken"
          /\ \A t \in 0 .. proxy.timestep - 1 : proxy.buffer[t] = {}
    BY <2>1, <2>2, <2>3 DEF PolicyInv, SparseInv
  <2>5. \A t \in Policy!Timesteps :
          proxy'.buffer[t] = IF t = proxy.timestep THEN {} ELSE proxy.buffer[t]
    BY <1>1, <1>3 DEF PoProxies
  <2>6. \A t \in 0 .. proxy.timestep :
          t \in Policy!Timesteps /\ (t = proxy.timestep \/ t \in 0 .. proxy.timestep - 1)
    BY <2>1, PolicyNumbers
  <2>7. 0 .. Ahead' - 1 = 0 .. proxy.timestep
    BY <2>1, <2>2
  <2> QED
    BY <1>2, <2>1, <2>4, <2>5, <2>6, <2>7 DEF SparseInv, Outstanding
<1> QED
  BY <1>6, <1>7, <1>8, <1>9, <1>10 DEF PolicyInv

\* The timestep moves on.
LEMMA PoAdvance ==
    ASSUME PolicyInv, Policy!Advance
    PROVE  PolicyInv'
<1>1. /\ keys \in PoKeys /\ stopper \in {"none", "called", "done"} /\ main \in PoMains
      /\ proxy \in PoProxies /\ thread \in PoThreads /\ server \in {"up", "gone"}
      /\ robot \in PoRobots
  BY PolicyTypes
<1>2. UNCHANGED <<keys, stopper, thread, server, robot>>
  BY DEF Policy!Advance
<1>3. main' \in PoMains
  BY <1>1, <1>2, PolicyValues
  DEF Policy!Advance, PoMains
<1>4. proxy' \in PoProxies
  <2>1. proxy.timestep + 1 \in Policy!Timesteps
    BY <1>1, PolicyNumbers DEF Policy!Advance, PolicyInv, LoopInv, PoProxies
  <2> QED
    BY <1>1, <2>1 DEF Policy!Advance, PoProxies
<1>5. Policy!TypeOK'
  BY <1>1, <1>2, <1>3, <1>4, PolicyTypesNext
<1>6. LoopInv'
  <2>1. /\ main.at = "popped" /\ main' = [at |-> "sending", era |-> main.era, action |-> main.action]
        /\ proxy'.timestep = proxy.timestep + 1
    BY <1>1 DEF Policy!Advance, PoMains, PoProxies
  <2>2. proxy.timestep + 1 <= MaxSteps
    BY <1>1, <2>1, PolicyNumbers DEF PolicyInv, LoopInv, PoProxies
  <2> QED
    BY <1>2, <2>1, <2>2 DEF PolicyInv, LoopInv, Closing
<1>7. PredictionInv'
  BY <1>1, <1>2, PolicyNumbers
  DEF Policy!Advance, PolicyInv, PredictionInv, OfEpisode, Outstanding, Closing,
      Policy!ActionsOfThisEpisode, LoopInv, PoMains, PoProxies, PoThreads, PoRobots
<1>8. AheadInv'
  BY <1>1, <1>2, PolicyNumbers
  DEF Policy!Advance, PolicyInv, AheadInv, Ahead, Outstanding, Resting, Closing, Policy!Buffered, LoopInv,
      PoMains, PoProxies, PoThreads
<1>9. SparseInv'
  BY <1>1, <1>2, PolicyNumbers
  DEF Policy!Advance, PolicyInv, SparseInv, Ahead, Outstanding, Closing, LoopInv, PoMains, PoProxies, PoThreads
<1> QED
  BY <1>5, <1>6, <1>7, <1>8, <1>9 DEF PolicyInv

\* The action is played.
LEMMA PoAct ==
    ASSUME PolicyInv, Policy!Act
    PROVE  PolicyInv'
<1>1. /\ keys \in PoKeys /\ stopper \in {"none", "called", "done"} /\ main \in PoMains
      /\ proxy \in PoProxies /\ thread \in PoThreads /\ server \in {"up", "gone"}
      /\ robot \in PoRobots
  BY PolicyTypes
<1>2. UNCHANGED <<keys, stopper, proxy, thread, server, robot>>
  BY DEF Policy!Act, Policy!Goto
<1>3. main' \in PoMains
  BY <1>1, <1>2, PolicyValues
  DEF Policy!Act, Policy!Goto, PoMains
<1>4. Policy!TypeOK'
  BY <1>1, <1>2, <1>3, PolicyTypesNext
<1>5. LoopInv'
  BY <1>1, <1>2, PolicyNumbers
  DEF Policy!Act, Policy!Goto, PolicyInv, LoopInv, Closing, PoKeys, PoMains, PoThreads, PoRobots
<1>6. PredictionInv'
  BY <1>1, <1>2, PolicyNumbers
  DEF Policy!Act, Policy!Goto, PolicyInv, PredictionInv, OfEpisode, Outstanding, Closing,
      Policy!ActionsOfThisEpisode, LoopInv, PoMains, PoProxies, PoThreads, PoRobots
<1>7. AheadInv'
  BY <1>1, <1>2, PolicyNumbers
  DEF Policy!Act, Policy!Goto, PolicyInv, AheadInv, Ahead, Outstanding, Resting, Closing, Policy!Buffered, LoopInv,
      PoMains, PoProxies, PoThreads
<1>8. SparseInv'
  BY <1>1, <1>2, PolicyNumbers
  DEF Policy!Act, Policy!Goto, PolicyInv, SparseInv, Ahead, Outstanding, Closing, LoopInv, PoMains, PoProxies, PoThreads
<1> QED
  BY <1>4, <1>5, <1>6, <1>7, <1>8 DEF PolicyInv

\* The robot raises, or the operator interrupts.
LEMMA PoRaise ==
    ASSUME PolicyInv, Policy!Raise
    PROVE  PolicyInv'
<1>1. /\ keys \in PoKeys /\ stopper \in {"none", "called", "done"} /\ main \in PoMains
      /\ proxy \in PoProxies /\ thread \in PoThreads /\ server \in {"up", "gone"}
      /\ robot \in PoRobots
  BY PolicyTypes
<1>2. UNCHANGED <<keys, stopper, proxy, thread, server, robot>>
  BY DEF Policy!Raise, Policy!Goto
<1>3. main' \in PoMains
  BY <1>1, <1>2, PolicyValues
  DEF Policy!Raise, Policy!Goto, PoMains
<1>4. Policy!TypeOK'
  BY <1>1, <1>2, <1>3, PolicyTypesNext
<1>5. LoopInv'
  BY <1>1, <1>2, PolicyNumbers
  DEF Policy!Raise, Policy!Goto, PolicyInv, LoopInv, Closing, PoKeys, PoMains, PoThreads, PoRobots
<1>6. PredictionInv'
  BY <1>1, <1>2, PolicyNumbers
  DEF Policy!Raise, Policy!Goto, PolicyInv, PredictionInv, OfEpisode, Outstanding, Closing,
      Policy!ActionsOfThisEpisode, LoopInv, PoMains, PoProxies, PoThreads, PoRobots
<1>7. AheadInv'
  BY <1>1, <1>2, PolicyNumbers
  DEF Policy!Raise, Policy!Goto, PolicyInv, AheadInv, Ahead, Outstanding, Resting, Closing, Policy!Buffered, LoopInv,
      PoMains, PoProxies, PoThreads
<1>8. SparseInv'
  BY <1>1, <1>2, PolicyNumbers
  DEF Policy!Raise, Policy!Goto, PolicyInv, SparseInv, Ahead, Outstanding, Closing, LoopInv, PoMains, PoProxies, PoThreads
<1> QED
  BY <1>4, <1>5, <1>6, <1>7, <1>8 DEF PolicyInv

\* The stop callback lets go of an arm that is connected, and acts once.
LEMMA PoLetGo ==
    ASSUME PolicyInv, Policy!LetGo
    PROVE  /\ stopper' = "done"
           /\ robot' \in PoRobots /\ robot'.era = robot.era
           /\ ~robot'.open \/ ~robot'.whole
<1>1. /\ robot \in PoRobots /\ stopper' = "done"
      /\ stopper = "done" => ~robot.open \/ ~robot.whole
  BY PolicyTypes DEF PolicyInv, LoopInv, Policy!LetGo
<1>2. CASE stopper # "done" /\ robot.open /\ robot.whole
  <2>1. robot' = [robot EXCEPT !.open = FALSE]
    BY <1>2 DEF Policy!LetGo, Policy!Connected
  <2> QED
    BY <1>1, <2>1 DEF PoRobots
<1>3. CASE ~(stopper # "done" /\ robot.open /\ robot.whole)
  <2>1. robot' = robot
    BY <1>3 DEF Policy!LetGo, Policy!Connected
  <2> QED
    BY <1>1, <1>3, <2>1
<1> QED
  BY <1>2, <1>3

\* The arm is let go last.
LEMMA PoFinish ==
    ASSUME PolicyInv, Policy!Finish
    PROVE  PolicyInv'
<1>1. /\ keys \in PoKeys /\ stopper \in {"none", "called", "done"} /\ main \in PoMains
      /\ proxy \in PoProxies /\ thread \in PoThreads /\ server \in {"up", "gone"}
      /\ robot \in PoRobots
  BY PolicyTypes
<1>2. UNCHANGED <<keys, proxy, thread, server>>
  BY DEF Policy!Finish, Policy!Goto
<1>3. main' \in PoMains
  BY <1>1, <1>2, PolicyValues
  DEF Policy!Finish, Policy!Goto, PoMains
<1>4. stopper' \in {"none", "called", "done"}
  BY PoLetGo DEF Policy!Finish
<1>5. robot' \in PoRobots /\ robot'.era = robot.era
  BY PoLetGo DEF Policy!Finish
<1>6. Policy!TypeOK'
  BY <1>1, <1>2, <1>3, <1>4, <1>5, PolicyTypesNext
<1>7. LoopInv'
  BY <1>1, <1>2, <1>5, PoLetGo, PolicyNumbers
  DEF Policy!Finish, Policy!Goto, PolicyInv, LoopInv, Closing, PoKeys, PoMains, PoThreads, PoRobots
<1>8. PredictionInv'
  BY <1>1, <1>2, <1>5, PolicyNumbers
  DEF Policy!Finish, Policy!Goto, PolicyInv, PredictionInv, OfEpisode, Outstanding, Closing,
      Policy!ActionsOfThisEpisode, LoopInv, PoMains, PoProxies, PoThreads, PoRobots
<1>9. AheadInv'
  BY <1>1, <1>2, <1>5, PolicyNumbers
  DEF Policy!Finish, Policy!Goto, PolicyInv, AheadInv, Ahead, Outstanding, Resting, Closing, Policy!Buffered, LoopInv,
      PoMains, PoProxies, PoThreads
<1>10. SparseInv'
  BY <1>1, <1>2, <1>5, PolicyNumbers
  DEF Policy!Finish, Policy!Goto, PolicyInv, SparseInv, Ahead, Outstanding, Closing, LoopInv, PoMains, PoProxies, PoThreads
<1> QED
  BY <1>6, <1>7, <1>8, <1>9, <1>10 DEF PolicyInv

\* A second interrupt leaves that out.
LEMMA PoInterruptJoin ==
    ASSUME PolicyInv, Policy!InterruptJoin
    PROVE  PolicyInv'
<1>1. /\ keys \in PoKeys /\ stopper \in {"none", "called", "done"} /\ main \in PoMains
      /\ proxy \in PoProxies /\ thread \in PoThreads /\ server \in {"up", "gone"}
      /\ robot \in PoRobots
  BY PolicyTypes
<1>2. UNCHANGED <<keys, stopper, proxy, thread, server, robot>>
  BY DEF Policy!InterruptJoin, Policy!Goto
<1>3. main' \in PoMains
  BY <1>1, <1>2, PolicyValues
  DEF Policy!InterruptJoin, Policy!Goto, PoMains
<1>4. Policy!TypeOK'
  BY <1>1, <1>2, <1>3, PolicyTypesNext
<1>5. LoopInv'
  BY <1>1, <1>2, PolicyNumbers
  DEF Policy!InterruptJoin, Policy!Goto, PolicyInv, LoopInv, Closing, PoKeys, PoMains, PoThreads, PoRobots
<1>6. PredictionInv'
  BY <1>1, <1>2, PolicyNumbers
  DEF Policy!InterruptJoin, Policy!Goto, PolicyInv, PredictionInv, OfEpisode, Outstanding, Closing,
      Policy!ActionsOfThisEpisode, LoopInv, PoMains, PoProxies, PoThreads, PoRobots
<1>7. AheadInv'
  BY <1>1, <1>2, PolicyNumbers
  DEF Policy!InterruptJoin, Policy!Goto, PolicyInv, AheadInv, Ahead, Outstanding, Resting, Closing, Policy!Buffered, LoopInv,
      PoMains, PoProxies, PoThreads
<1>8. SparseInv'
  BY <1>1, <1>2, PolicyNumbers
  DEF Policy!InterruptJoin, Policy!Goto, PolicyInv, SparseInv, Ahead, Outstanding, Closing, LoopInv, PoMains, PoProxies, PoThreads
<1> QED
  BY <1>4, <1>5, <1>6, <1>7, <1>8 DEF PolicyInv

\* The request thread is woken.
LEMMA PoWake ==
    ASSUME PolicyInv, Policy!Wake,
           UNCHANGED <<keys, stopper, main, server, robot>>
    PROVE  PolicyInv'
<1>1. /\ keys \in PoKeys /\ stopper \in {"none", "called", "done"} /\ main \in PoMains
      /\ proxy \in PoProxies /\ thread \in PoThreads /\ server \in {"up", "gone"}
      /\ robot \in PoRobots
  BY PolicyTypes
<1>2. UNCHANGED <<keys, stopper, main, server, robot>>
  BY DEF Policy!Wake
<1>3. proxy' \in PoProxies
  BY <1>1, <1>2, PolicyValues
  DEF Policy!Wake, PoProxies
<1>4. thread' \in PoThreads
  BY <1>1, <1>2, PolicyValues
  DEF Policy!Wake, PoThreads
<1>5. Policy!TypeOK'
  BY <1>1, <1>2, <1>3, <1>4, PolicyTypesNext
<1>6. LoopInv'
  BY <1>1, <1>2, PolicyNumbers
  DEF Policy!Wake, PolicyInv, LoopInv, Closing, PoKeys, PoMains, PoThreads, PoRobots
<1>7. PredictionInv'
  BY <1>1, <1>2, PolicyNumbers
  DEF Policy!Wake, PolicyInv, PredictionInv, OfEpisode, Outstanding, Closing,
      Policy!ActionsOfThisEpisode, LoopInv, PoMains, PoProxies, PoThreads, PoRobots
<1>8. AheadInv'
  BY <1>1, <1>2, PolicyNumbers
  DEF Policy!Wake, PolicyInv, AheadInv, Ahead, Outstanding, Resting, Closing, Policy!Buffered, LoopInv,
      PoMains, PoProxies, PoThreads
<1>9. SparseInv'
  BY <1>1, <1>2, PolicyNumbers
  DEF Policy!Wake, PolicyInv, SparseInv, Ahead, Outstanding, Closing, LoopInv, PoMains, PoProxies, PoThreads
<1> QED
  BY <1>5, <1>6, <1>7, <1>8, <1>9 DEF PolicyInv

\* It takes the last observation.
LEMMA PoTake ==
    ASSUME PolicyInv, Policy!Take,
           UNCHANGED <<keys, stopper, main, server, robot>>
    PROVE  PolicyInv'
<1>1. /\ keys \in PoKeys /\ stopper \in {"none", "called", "done"} /\ main \in PoMains
      /\ proxy \in PoProxies /\ thread \in PoThreads /\ server \in {"up", "gone"}
      /\ robot \in PoRobots
  BY PolicyTypes
<1>2. UNCHANGED <<keys, stopper, main, proxy, server, robot>>
  BY DEF Policy!Take
<1>3. /\ thread' = [at |-> "taken", obs |-> proxy.last, twice |-> thread'.twice]
      /\ thread'.twice \in BOOLEAN /\ thread.at = "woken"
      /\ ~thread'.twice => ~thread.twice /\ thread.obs # proxy.last
  BY <1>1 DEF Policy!Take, PoThreads
<1>4. thread' \in PoThreads
  <2>1. proxy.last \in Policy!Observations
    BY <1>1 DEF PoProxies
  <2> QED
    BY <1>3, <2>1 DEF PoThreads
<1>5. Policy!TypeOK'
  BY <1>1, <1>2, <1>4, PolicyTypesNext
<1>6. LoopInv'
  BY <1>1, <1>2, <1>3, PolicyNumbers
  DEF Policy!Take, PolicyInv, LoopInv, Closing, PoKeys, PoMains, PoThreads, PoRobots
<1>7. PredictionInv'
  BY <1>1, <1>2, <1>3, PolicyNumbers
  DEF Policy!Take, PolicyInv, PredictionInv, OfEpisode, Outstanding, Closing,
      Policy!ActionsOfThisEpisode, LoopInv, PoMains, PoProxies, PoThreads, PoRobots
<1>8. AheadInv'
  <2>1. /\ main' = main /\ proxy' = proxy /\ Ahead' = Ahead /\ Outstanding' /\ ~Resting'
        /\ thread'.at = "taken" /\ thread'.obs = proxy.last /\ Resting
    BY <1>2, <1>3 DEF Ahead, Outstanding, Resting
  <2>2. /\ thread.obs.ts \in Nat /\ proxy.last.ts \in Nat /\ Ahead \in Nat
        /\ Chunk \in Nat /\ Chunk >= 1
    BY <1>1, PolicyNumbers DEF PoThreads, PoProxies, Ahead
  <2>3. ASSUME main.at \notin Closing, ~thread'.twice
        PROVE  /\ Ahead < proxy.last.ts + Chunk
               /\ \A t \in Policy!Timesteps :
                    t >= Ahead /\ proxy.buffer[t] # {} => t < proxy.last.ts + Chunk - 1
    <3>1. CASE thread.obs = Policy!Nothing
      BY <1>3, <2>1, <2>2, <2>3, <3>1 DEF PolicyInv, AheadInv
    <3>2. CASE thread.obs # Policy!Nothing
      <4>1. thread.obs.ts < proxy.last.ts
        BY <1>3, <2>2, <2>3, <3>2 DEF PolicyInv, PredictionInv
      <4>2. /\ Ahead <= thread.obs.ts + Chunk
            /\ \A t \in Policy!Timesteps :
                 t >= Ahead => (proxy.buffer[t] # {} <=> t < thread.obs.ts + Chunk)
        BY <1>3, <2>1, <2>3, <3>2 DEF PolicyInv, AheadInv
      <4> QED
        BY <2>2, <4>1, <4>2, PolicyNumbers
    <3> QED
      BY <3>1, <3>2
  <2> QED
    BY <1>3, <2>1, <2>3 DEF PolicyInv, AheadInv
<1>9. SparseInv'
  BY <1>1, <1>2, <1>3, PolicyNumbers
  DEF Policy!Take, PolicyInv, SparseInv, Ahead, Outstanding, Closing, LoopInv, PoMains, PoProxies, PoThreads
<1> QED
  BY <1>5, <1>6, <1>7, <1>8, <1>9 DEF PolicyInv

\* It sends its request.
LEMMA PoRequest ==
    ASSUME PolicyInv, Policy!Request,
           UNCHANGED <<keys, stopper, main, server, robot>>
    PROVE  PolicyInv'
<1>1. /\ keys \in PoKeys /\ stopper \in {"none", "called", "done"} /\ main \in PoMains
      /\ proxy \in PoProxies /\ thread \in PoThreads /\ server \in {"up", "gone"}
      /\ robot \in PoRobots
  BY PolicyTypes
<1>2. UNCHANGED <<keys, stopper, main, proxy, server, robot>>
  BY DEF Policy!Request
<1>3. thread' \in PoThreads
  BY <1>1, <1>2, PolicyValues
  DEF Policy!Request, PoThreads
<1>4. Policy!TypeOK'
  BY <1>1, <1>2, <1>3, PolicyTypesNext
<1>5. LoopInv'
  BY <1>1, <1>2, PolicyNumbers
  DEF Policy!Request, PolicyInv, LoopInv, Closing, PoKeys, PoMains, PoThreads, PoRobots
<1>6. PredictionInv'
  BY <1>1, <1>2, PolicyNumbers
  DEF Policy!Request, PolicyInv, PredictionInv, OfEpisode, Outstanding, Closing,
      Policy!ActionsOfThisEpisode, LoopInv, PoMains, PoProxies, PoThreads, PoRobots
<1>7. AheadInv'
  BY <1>1, <1>2, PolicyNumbers
  DEF Policy!Request, PolicyInv, AheadInv, Ahead, Outstanding, Resting, Closing, Policy!Buffered, LoopInv,
      PoMains, PoProxies, PoThreads
<1>8. SparseInv'
  BY <1>1, <1>2, PolicyNumbers
  DEF Policy!Request, PolicyInv, SparseInv, Ahead, Outstanding, Closing, LoopInv, PoMains, PoProxies, PoThreads
<1> QED
  BY <1>4, <1>5, <1>6, <1>7, <1>8 DEF PolicyInv

\* It puts what was predicted in the buffer.
LEMMA PoStore ==
    ASSUME PolicyInv, Policy!Store,
           UNCHANGED <<keys, stopper, main, server, robot>>
    PROVE  PolicyInv'
<1>1. /\ keys \in PoKeys /\ stopper \in {"none", "called", "done"} /\ main \in PoMains
      /\ proxy \in PoProxies /\ thread \in PoThreads /\ server \in {"up", "gone"}
      /\ robot \in PoRobots
  BY PolicyTypes
<1>2. UNCHANGED <<keys, stopper, main, server, robot>>
  BY DEF Policy!Store
<1>3. /\ thread.at = "reply" /\ thread' = [thread EXCEPT !.at = "wait"]
      /\ proxy' = [timestep |-> proxy.timestep, buffer |-> Policy!Aggregate(thread.obs),
                   last |-> proxy.last, event |-> proxy.event, chunk |-> Chunk]
  BY <1>1 DEF Policy!Store, PoProxies
<1>4. proxy' \in PoProxies
  <2>1. thread.obs \in Policy!Observations
    BY <1>1 DEF PoThreads
  <2>2. proxy.buffer \in [Policy!Timesteps -> SUBSET Policy!Observations]
    BY <1>1 DEF PoProxies
  <2>3. ASSUME NEW t \in Policy!Timesteps
        PROVE  (IF t < proxy.timestep THEN {}
                ELSE proxy.buffer[t] \cup
                    (IF t \in Policy!Covered(thread.obs) THEN {thread.obs} ELSE {}))
                  \in SUBSET Policy!Observations
    BY <2>1, <2>2
  <2>4. Policy!Aggregate(thread.obs) \in [Policy!Timesteps -> SUBSET Policy!Observations]
    BY <2>3 DEF Policy!Aggregate
  <2> QED
    BY <1>1, <1>3, <2>4 DEF PoProxies
<1>5. thread' \in PoThreads
  BY <1>1, <1>2, <1>3, PolicyValues
  DEF Policy!Store, PoThreads
<1>6. Policy!TypeOK'
  BY <1>1, <1>2, <1>4, <1>5, PolicyTypesNext
<1>7. LoopInv'
  BY <1>1, <1>2, <1>3, PolicyNumbers
  DEF Policy!Store, PolicyInv, LoopInv, Closing, PoKeys, PoMains, PoThreads, PoRobots
<1>8. PredictionInv'
  <2>1. ASSUME NEW t \in Policy!Timesteps
        PROVE  proxy'.buffer[t] =
                   IF t < proxy.timestep THEN {}
                   ELSE proxy.buffer[t] \cup
                       (IF t \in Policy!Covered(thread.obs) THEN {thread.obs} ELSE {})
    BY <1>3 DEF Policy!Aggregate
  <2>2. ASSUME NEW t \in Policy!Timesteps, NEW o \in proxy'.buffer[t]
        PROVE  o \in proxy.buffer[t] \/ (o = thread.obs /\ t \in Policy!Covered(o))
    BY <2>1
  <2>3. Outstanding /\ ~Outstanding' /\ thread'.at = "wait" /\ thread'.obs = thread.obs
    BY <1>1, <1>3 DEF Outstanding, PoThreads
  <2> QED
    BY <1>1, <1>2, <1>3, <2>2, <2>3
    DEF PolicyInv, PredictionInv, OfEpisode, Policy!ActionsOfThisEpisode
<1>9. AheadInv'
  <2>1. ASSUME NEW t \in Policy!Timesteps
        PROVE  proxy'.buffer[t] =
                   IF t < proxy.timestep THEN {}
                   ELSE proxy.buffer[t] \cup
                       (IF t \in Policy!Covered(thread.obs) THEN {thread.obs} ELSE {})
    BY <1>3 DEF Policy!Aggregate
  <2>2. /\ Outstanding /\ ~Outstanding' /\ thread'.at = "wait" /\ thread'.obs = thread.obs
        /\ thread'.twice = thread.twice /\ main' = main
        /\ proxy'.timestep = proxy.timestep /\ proxy'.chunk = Chunk
        /\ proxy'.event = proxy.event /\ proxy'.last = proxy.last
    BY <1>1, <1>2, <1>3 DEF Outstanding, PoThreads
  <2>3. Ahead' = Ahead /\ Resting'
    BY <2>2 DEF Ahead, Resting
  <2>4. /\ thread.obs.ts \in Nat /\ proxy.timestep \in Nat /\ Ahead \in Nat
        /\ Ahead \in {proxy.timestep, proxy.timestep + 1}
        /\ Chunk \in Nat /\ Chunk >= 1
    BY <1>1, PolicyNumbers DEF PoThreads, PoProxies, Ahead
  <2> SUFFICES ASSUME main.at \notin Closing PROVE AheadInv'
    BY <2>2 DEF AheadInv
  <2>5. /\ thread.obs # Policy!Nothing /\ proxy.last # Policy!Nothing
        /\ thread.obs.ts <= proxy.last.ts /\ proxy.last.ts <= proxy.timestep
    BY <2>2 DEF PolicyInv, PredictionInv
  <2>6. thread.obs.ts <= proxy.timestep
    BY <1>1, <2>4, <2>5, PolicyNumbers DEF PoProxies
  <2>7. \A s, t \in 0 .. Ahead - 1 :
          proxy'.buffer[s] # {} /\ proxy'.buffer[t] # {} => s = t
    <3>1. \A t \in 0 .. Ahead - 1 : t \in Policy!Timesteps /\ (t < proxy.timestep \/ t = proxy.timestep)
      BY <1>1, <2>4, PolicyNumbers DEF PoProxies, PolicyInv, LoopInv
    <3>2. \A t \in 0 .. Ahead - 1 : proxy'.buffer[t] # {} => t = proxy.timestep
      BY <2>1, <3>1
    <3> QED
      BY <3>2
  <2>8. ASSUME ~thread.twice
        PROVE  /\ Ahead <= thread.obs.ts + Chunk
               /\ \A t \in Policy!Timesteps :
                    t >= Ahead => (proxy'.buffer[t] # {} <=> t < thread.obs.ts + Chunk)
    <3>1. /\ Ahead < thread.obs.ts + Chunk
          /\ \A t \in Policy!Timesteps :
               t >= Ahead /\ proxy.buffer[t] # {} => t < thread.obs.ts + Chunk - 1
      BY <1>3, <2>2, <2>8 DEF PolicyInv, AheadInv
    <3>2. ASSUME NEW t \in Policy!Timesteps, t >= Ahead
          PROVE  proxy'.buffer[t] # {} <=> t < thread.obs.ts + Chunk
      <4>1. t \in Nat /\ ~ t < proxy.timestep /\ t >= thread.obs.ts
        BY <2>4, <2>6, <3>2, PolicyNumbers
      <4>2. t \in Policy!Covered(thread.obs) <=> t < thread.obs.ts + Chunk
        BY <2>4, <4>1 DEF Policy!Covered
      <4>3. proxy'.buffer[t] = proxy.buffer[t] \cup
                (IF t \in Policy!Covered(thread.obs) THEN {thread.obs} ELSE {})
        BY <2>1, <4>1
      <4>4. proxy.buffer[t] # {} => t < thread.obs.ts + Chunk
        BY <2>4, <3>1, <3>2, <4>1
      <4> QED
        BY <4>2, <4>3, <4>4
    <3> QED
      BY <2>4, <3>1, <3>2
  <2>9. ASSUME ~thread.twice, main.at = "waiting"
        PROVE  proxy'.buffer[proxy.timestep] # {} /\ proxy.timestep \in Policy!Timesteps
    <3>1. Ahead = proxy.timestep /\ Ahead < thread.obs.ts + Chunk
      BY <1>3, <2>2, <2>9 DEF PolicyInv, AheadInv, Ahead
    <3>2. proxy.timestep \in Policy!Timesteps /\ proxy.timestep >= Ahead
      BY <1>1, <2>4, <3>1 DEF PoProxies
    <3> QED
      BY <2>8, <2>9, <3>1, <3>2
  <2>10. ~thread.twice /\ main.at = "waiting" => proxy'.timestep \in Policy!Buffered'
    BY <2>2, <2>9 DEF Policy!Buffered
  <2> QED
    BY <2>2, <2>3, <2>5, <2>7, <2>8, <2>10 DEF AheadInv
<1>10. SparseInv'
  <2>1. ASSUME NEW t \in Policy!Timesteps
        PROVE  proxy'.buffer[t] =
                   IF t < proxy.timestep THEN {}
                   ELSE proxy.buffer[t] \cup
                       (IF t \in Policy!Covered(thread.obs) THEN {thread.obs} ELSE {})
    BY <1>3 DEF Policy!Aggregate
  <2>2. /\ Outstanding /\ ~Outstanding' /\ thread'.at = "wait" /\ main' = main
        /\ proxy'.timestep = proxy.timestep /\ proxy'.event = proxy.event
        /\ thread.at # "dead" /\ thread.at # "wait"
    BY <1>1, <1>2, <1>3 DEF Outstanding, PoThreads
  <2> SUFFICES ASSUME main.at \notin Closing, ThresholdPercent * Chunk < 100
               PROVE  SparseInv'
    BY <2>2 DEF SparseInv
  <2>3. main.at = "waiting" /\ ~proxy.event
    BY <2>2 DEF PolicyInv, SparseInv
  <2>4. Ahead' = proxy.timestep
    BY <2>2, <2>3 DEF Ahead
  <2>5. \A t \in 0 .. proxy.timestep - 1 : t \in Policy!Timesteps /\ t < proxy.timestep
    BY <1>1, PolicyNumbers DEF PoProxies
  <2> QED
    BY <2>1, <2>2, <2>3, <2>4, <2>5 DEF SparseInv
<1> QED
  BY <1>6, <1>7, <1>8, <1>9, <1>10 DEF PolicyInv

\* It ends when it is to stop.
LEMMA PoExit ==
    ASSUME PolicyInv, Policy!Exit,
           UNCHANGED <<keys, stopper, main, server, robot>>
    PROVE  PolicyInv'
<1>1. /\ keys \in PoKeys /\ stopper \in {"none", "called", "done"} /\ main \in PoMains
      /\ proxy \in PoProxies /\ thread \in PoThreads /\ server \in {"up", "gone"}
      /\ robot \in PoRobots
  BY PolicyTypes
<1>2. UNCHANGED <<keys, stopper, main, proxy, server, robot>>
  BY DEF Policy!Exit, Policy!StopRequested
<1>3. thread' \in PoThreads
  BY <1>1, <1>2, PolicyValues
  DEF Policy!Exit, Policy!StopRequested, PoThreads
<1>4. Policy!TypeOK'
  BY <1>1, <1>2, <1>3, PolicyTypesNext
<1>5. LoopInv'
  BY <1>1, <1>2, PolicyNumbers
  DEF Policy!Exit, Policy!StopRequested, PolicyInv, LoopInv, Closing, PoKeys, PoMains, PoThreads, PoRobots
<1>6. PredictionInv'
  BY <1>1, <1>2, PolicyNumbers
  DEF Policy!Exit, Policy!StopRequested, PolicyInv, PredictionInv, OfEpisode, Outstanding, Closing,
      Policy!ActionsOfThisEpisode, LoopInv, PoMains, PoProxies, PoThreads, PoRobots
<1>7. AheadInv'
  BY <1>1, <1>2, PolicyNumbers
  DEF Policy!Exit, Policy!StopRequested, PolicyInv, AheadInv, Ahead, Outstanding, Resting, Closing, Policy!Buffered, LoopInv,
      PoMains, PoProxies, PoThreads
<1>8. SparseInv'
  BY <1>1, <1>2, PolicyNumbers
  DEF Policy!Exit, Policy!StopRequested, PolicyInv, SparseInv, Ahead, Outstanding, Closing, LoopInv, PoMains, PoProxies, PoThreads
<1> QED
  BY <1>4, <1>5, <1>6, <1>7, <1>8 DEF PolicyInv

\* The answer comes, or ends it.
LEMMA PoAnswer ==
    ASSUME PolicyInv, Policy!Answer,
           UNCHANGED <<keys, stopper, main, server, robot>>
    PROVE  PolicyInv'
<1>1. /\ keys \in PoKeys /\ stopper \in {"none", "called", "done"} /\ main \in PoMains
      /\ proxy \in PoProxies /\ thread \in PoThreads /\ server \in {"up", "gone"}
      /\ robot \in PoRobots
  BY PolicyTypes
<1>2. UNCHANGED <<keys, stopper, main, proxy, server, robot>>
  BY DEF Policy!Answer
<1>3. thread' \in PoThreads
  BY <1>1, <1>2, PolicyValues
  DEF Policy!Answer, PoThreads
<1>4. Policy!TypeOK'
  BY <1>1, <1>2, <1>3, PolicyTypesNext
<1>5. LoopInv'
  BY <1>1, <1>2, PolicyNumbers
  DEF Policy!Answer, PolicyInv, LoopInv, Closing, PoKeys, PoMains, PoThreads, PoRobots
<1>6. PredictionInv'
  BY <1>1, <1>2, PolicyNumbers
  DEF Policy!Answer, PolicyInv, PredictionInv, OfEpisode, Outstanding, Closing,
      Policy!ActionsOfThisEpisode, LoopInv, PoMains, PoProxies, PoThreads, PoRobots
<1>7. AheadInv'
  BY <1>1, <1>2, PolicyNumbers
  DEF Policy!Answer, PolicyInv, AheadInv, Ahead, Outstanding, Resting, Closing, Policy!Buffered, LoopInv,
      PoMains, PoProxies, PoThreads
<1>8. SparseInv'
  BY <1>1, <1>2, PolicyNumbers
  DEF Policy!Answer, PolicyInv, SparseInv, Ahead, Outstanding, Closing, LoopInv, PoMains, PoProxies, PoThreads
<1> QED
  BY <1>4, <1>5, <1>6, <1>7, <1>8 DEF PolicyInv

\* The server ends.
LEMMA PoServerEnds ==
    ASSUME PolicyInv, Policy!ServerEnds
    PROVE  PolicyInv'
<1>1. /\ keys \in PoKeys /\ stopper \in {"none", "called", "done"} /\ main \in PoMains
      /\ proxy \in PoProxies /\ thread \in PoThreads /\ server \in {"up", "gone"}
      /\ robot \in PoRobots
  BY PolicyTypes
<1>2. UNCHANGED <<keys, stopper, main, proxy, thread, robot>>
  BY DEF Policy!ServerEnds
<1>3. server' \in {"up", "gone"}
  BY <1>1, <1>2, PolicyValues
  DEF Policy!ServerEnds
<1>4. Policy!TypeOK'
  BY <1>1, <1>2, <1>3, PolicyTypesNext
<1>5. LoopInv'
  BY <1>1, <1>2, PolicyNumbers
  DEF Policy!ServerEnds, PolicyInv, LoopInv, Closing, PoKeys, PoMains, PoThreads, PoRobots
<1>6. PredictionInv'
  BY <1>1, <1>2, PolicyNumbers
  DEF Policy!ServerEnds, PolicyInv, PredictionInv, OfEpisode, Outstanding, Closing,
      Policy!ActionsOfThisEpisode, LoopInv, PoMains, PoProxies, PoThreads, PoRobots
<1>7. AheadInv'
  BY <1>1, <1>2, PolicyNumbers
  DEF Policy!ServerEnds, PolicyInv, AheadInv, Ahead, Outstanding, Resting, Closing, Policy!Buffered, LoopInv,
      PoMains, PoProxies, PoThreads
<1>8. SparseInv'
  BY <1>1, <1>2, PolicyNumbers
  DEF Policy!ServerEnds, PolicyInv, SparseInv, Ahead, Outstanding, Closing, LoopInv, PoMains, PoProxies, PoThreads
<1> QED
  BY <1>4, <1>5, <1>6, <1>7, <1>8 DEF PolicyInv

\* The operator stops or resumes,
LEMMA PoSpace ==
    ASSUME PolicyInv, Policy!Space
    PROVE  PolicyInv'
<1>1. /\ keys \in PoKeys /\ stopper \in {"none", "called", "done"} /\ main \in PoMains
      /\ proxy \in PoProxies /\ thread \in PoThreads /\ server \in {"up", "gone"}
      /\ robot \in PoRobots
  BY PolicyTypes
<1>2. UNCHANGED <<stopper, main, proxy, thread, server, robot>>
  BY DEF Policy!Space
<1>3. keys' \in PoKeys
  BY <1>1, <1>2, PolicyValues
  DEF Policy!Space, PoKeys
<1>4. Policy!TypeOK'
  BY <1>1, <1>2, <1>3, PolicyTypesNext
<1>5. LoopInv'
  BY <1>1, <1>2, PolicyNumbers
  DEF Policy!Space, PolicyInv, LoopInv, Closing, PoKeys, PoMains, PoThreads, PoRobots
<1>6. PredictionInv'
  BY <1>1, <1>2, PolicyNumbers
  DEF Policy!Space, PolicyInv, PredictionInv, OfEpisode, Outstanding, Closing,
      Policy!ActionsOfThisEpisode, LoopInv, PoMains, PoProxies, PoThreads, PoRobots
<1>7. AheadInv'
  BY <1>1, <1>2, PolicyNumbers
  DEF Policy!Space, PolicyInv, AheadInv, Ahead, Outstanding, Resting, Closing, Policy!Buffered, LoopInv,
      PoMains, PoProxies, PoThreads
<1>8. SparseInv'
  BY <1>1, <1>2, PolicyNumbers
  DEF Policy!Space, PolicyInv, SparseInv, Ahead, Outstanding, Closing, LoopInv, PoMains, PoProxies, PoThreads
<1> QED
  BY <1>4, <1>5, <1>6, <1>7, <1>8 DEF PolicyInv

\* asks for a reset,
LEMMA PoR ==
    ASSUME PolicyInv, Policy!R
    PROVE  PolicyInv'
<1>1. /\ keys \in PoKeys /\ stopper \in {"none", "called", "done"} /\ main \in PoMains
      /\ proxy \in PoProxies /\ thread \in PoThreads /\ server \in {"up", "gone"}
      /\ robot \in PoRobots
  BY PolicyTypes
<1>2. UNCHANGED <<stopper, main, proxy, thread, server, robot>>
  BY DEF Policy!R
<1>3. keys' \in PoKeys
  BY <1>1, <1>2, PolicyValues
  DEF Policy!R, PoKeys
<1>4. Policy!TypeOK'
  BY <1>1, <1>2, <1>3, PolicyTypesNext
<1>5. LoopInv'
  BY <1>1, <1>2, PolicyNumbers
  DEF Policy!R, PolicyInv, LoopInv, Closing, PoKeys, PoMains, PoThreads, PoRobots
<1>6. PredictionInv'
  BY <1>1, <1>2, PolicyNumbers
  DEF Policy!R, PolicyInv, PredictionInv, OfEpisode, Outstanding, Closing,
      Policy!ActionsOfThisEpisode, LoopInv, PoMains, PoProxies, PoThreads, PoRobots
<1>7. AheadInv'
  BY <1>1, <1>2, PolicyNumbers
  DEF Policy!R, PolicyInv, AheadInv, Ahead, Outstanding, Resting, Closing, Policy!Buffered, LoopInv,
      PoMains, PoProxies, PoThreads
<1>8. SparseInv'
  BY <1>1, <1>2, PolicyNumbers
  DEF Policy!R, PolicyInv, SparseInv, Ahead, Outstanding, Closing, LoopInv, PoMains, PoProxies, PoThreads
<1> QED
  BY <1>4, <1>5, <1>6, <1>7, <1>8 DEF PolicyInv

\* or stops the program,
LEMMA PoEsc ==
    ASSUME PolicyInv, Policy!Esc
    PROVE  PolicyInv'
<1>1. /\ keys \in PoKeys /\ stopper \in {"none", "called", "done"} /\ main \in PoMains
      /\ proxy \in PoProxies /\ thread \in PoThreads /\ server \in {"up", "gone"}
      /\ robot \in PoRobots
  BY PolicyTypes
<1>2. UNCHANGED <<main, proxy, thread, server, robot>>
  BY DEF Policy!Esc
<1>3. keys' \in PoKeys
  BY <1>1, <1>2, PolicyValues
  DEF Policy!Esc, PoKeys
<1>4. stopper' \in {"none", "called", "done"}
  BY <1>1, <1>2, PolicyValues
  DEF Policy!Esc
<1>5. Policy!TypeOK'
  BY <1>1, <1>2, <1>3, <1>4, PolicyTypesNext
<1>6. LoopInv'
  BY <1>1, <1>2, PolicyNumbers
  DEF Policy!Esc, PolicyInv, LoopInv, Closing, PoKeys, PoMains, PoThreads, PoRobots
<1>7. PredictionInv'
  BY <1>1, <1>2, PolicyNumbers
  DEF Policy!Esc, PolicyInv, PredictionInv, OfEpisode, Outstanding, Closing,
      Policy!ActionsOfThisEpisode, LoopInv, PoMains, PoProxies, PoThreads, PoRobots
<1>8. AheadInv'
  BY <1>1, <1>2, PolicyNumbers
  DEF Policy!Esc, PolicyInv, AheadInv, Ahead, Outstanding, Resting, Closing, Policy!Buffered, LoopInv,
      PoMains, PoProxies, PoThreads
<1>9. SparseInv'
  BY <1>1, <1>2, PolicyNumbers
  DEF Policy!Esc, PolicyInv, SparseInv, Ahead, Outstanding, Closing, LoopInv, PoMains, PoProxies, PoThreads
<1> QED
  BY <1>5, <1>6, <1>7, <1>8, <1>9 DEF PolicyInv

\* which lets go of the arm at once, if it is connected.
LEMMA PoStopCallback ==
    ASSUME PolicyInv, Policy!StopCallback
    PROVE  PolicyInv'
<1>1. /\ keys \in PoKeys /\ stopper \in {"none", "called", "done"} /\ main \in PoMains
      /\ proxy \in PoProxies /\ thread \in PoThreads /\ server \in {"up", "gone"}
      /\ robot \in PoRobots
  BY PolicyTypes
<1>2. UNCHANGED <<keys, main, proxy, thread, server>>
  BY DEF Policy!StopCallback
<1>3. stopper' \in {"none", "called", "done"}
  BY PoLetGo DEF Policy!StopCallback
<1>4. robot' \in PoRobots /\ robot'.era = robot.era
  BY PoLetGo DEF Policy!StopCallback
<1>5. Policy!TypeOK'
  BY <1>1, <1>2, <1>3, <1>4, PolicyTypesNext
<1>6. LoopInv'
  BY <1>1, <1>2, <1>4, PoLetGo, PolicyNumbers
  DEF Policy!StopCallback, PolicyInv, LoopInv, Closing, PoKeys, PoMains, PoThreads, PoRobots
<1>7. PredictionInv'
  BY <1>1, <1>2, <1>4, PolicyNumbers
  DEF Policy!StopCallback, PolicyInv, PredictionInv, OfEpisode, Outstanding, Closing,
      Policy!ActionsOfThisEpisode, LoopInv, PoMains, PoProxies, PoThreads, PoRobots
<1>8. AheadInv'
  BY <1>1, <1>2, <1>4, PolicyNumbers
  DEF Policy!StopCallback, PolicyInv, AheadInv, Ahead, Outstanding, Resting, Closing, Policy!Buffered, LoopInv,
      PoMains, PoProxies, PoThreads
<1>9. SparseInv'
  BY <1>1, <1>2, <1>4, PolicyNumbers
  DEF Policy!StopCallback, PolicyInv, SparseInv, Ahead, Outstanding, Closing, LoopInv, PoMains, PoProxies, PoThreads
<1> QED
  BY <1>5, <1>6, <1>7, <1>8, <1>9 DEF PolicyInv

\* A camera or the owner of Servo is gone: nothing moves on because of it.
LEMMA PoDropsOut ==
    ASSUME PolicyInv, Policy!DropsOut
    PROVE  PolicyInv'
<1>1. /\ keys \in PoKeys /\ stopper \in {"none", "called", "done"} /\ main \in PoMains
      /\ proxy \in PoProxies /\ thread \in PoThreads /\ server \in {"up", "gone"}
      /\ robot \in PoRobots
  BY PolicyTypes
<1>2. UNCHANGED <<keys, stopper, main, proxy, thread, server>>
  BY DEF Policy!DropsOut
<1>3. robot' \in PoRobots /\ robot'.era = robot.era /\ ~robot'.whole
  BY <1>1 DEF Policy!DropsOut, PoRobots
<1>4. Policy!TypeOK'
  BY <1>1, <1>2, <1>3, PolicyTypesNext
<1>5. LoopInv'
  BY <1>2, <1>3 DEF PolicyInv, LoopInv, Closing
<1>6. PredictionInv'
  BY <1>2, <1>3
  DEF PolicyInv, PredictionInv, OfEpisode, Outstanding, Closing, Policy!ActionsOfThisEpisode
<1>7. AheadInv'
  BY <1>2 DEF PolicyInv, AheadInv, Ahead, Outstanding, Resting, Closing, Policy!Buffered
<1>8. SparseInv'
  BY <1>2 DEF PolicyInv, SparseInv, Ahead, Outstanding, Closing
<1> QED
  BY <1>4, <1>5, <1>6, <1>7, <1>8 DEF PolicyInv

\* Every step of the loop, the request thread, the server and the listener.
LEMMA PolicyStep == PolicyInv /\ Policy!Next => PolicyInv'
<1> SUFFICES ASSUME PolicyInv, Policy!Next PROVE PolicyInv'
  OBVIOUS
<1>1. CASE Policy!LoopStep
  BY <1>1, PoObserve, PoReset, PoArrived, PoSwitch, PoDecide, PoSetEvent, PoPop, PoAdvance, PoAct, PoFinish, PoRaise
  DEF Policy!LoopStep
<1>2. CASE Policy!ThreadStep
  BY <1>2, PoWake, PoTake, PoRequest, PoStore, PoExit, PoAnswer DEF Policy!ThreadStep
<1> QED
  BY <1>1, <1>2, PoRaise, PoInterruptJoin, PoServerEnds, PoSpace, PoR, PoEsc, PoStopCallback,
     PoDropsOut
  DEF Policy!Next

\* What the policy promises of the actions it plays, and of letting the arm go.
LEMMA PolicyActions == PolicyInv => Policy!ActionsOfThisEpisode /\ Policy!ArmLetGo
<1> SUFFICES ASSUME PolicyInv PROVE Policy!ActionsOfThisEpisode /\ Policy!ArmLetGo
  OBVIOUS
<1>1. Policy!ArmLetGo
  BY DEF PolicyInv, LoopInv, Policy!ArmLetGo
<1>2. CASE main.at \in Closing
  BY <1>1, <1>2 DEF PolicyInv, LoopInv, Closing, Policy!ActionsOfThisEpisode
<1>3. CASE main.at \notin Closing
  BY <1>1, <1>3 DEF PolicyInv, PredictionInv, Closing
<1> QED
  BY <1>1, <1>2, <1>3

\* And of the action the loop waits for: it is there, or on its way.
LEMMA PolicyServes == PolicyInv => Policy!NeverStarved
<1> SUFFICES ASSUME PolicyInv, Policy!Unserved PROVE Policy!NeverStarved
  BY DEF Policy!NeverStarved
<1>1. proxy \in PoProxies /\ thread \in PoThreads
  BY PolicyTypes
<1>2. /\ main.at = "waiting" /\ thread.at # "dead" /\ ~thread.twice
      /\ ~((proxy.event \/ thread.at = "woken") /\ proxy.last = thread.obs)
      /\ main.at \notin Closing /\ thread.at # "exited"
  BY DEF Policy!Unserved, Policy!AsksTwice, PolicyInv, LoopInv, Closing
<1>3. /\ proxy.timestep \in Nat /\ proxy.timestep < MaxSteps
      /\ proxy.timestep \in Policy!Timesteps /\ Ahead = proxy.timestep
      /\ Chunk \in Nat /\ Chunk >= 1 /\ thread.obs.ts \in Nat /\ proxy.last.ts \in Nat
  BY <1>1, <1>2, PolicyNumbers DEF PolicyInv, LoopInv, PoProxies, PoThreads, Ahead
<1>4. CASE Outstanding
  <2>1. /\ thread.obs # Policy!Nothing /\ proxy.last # Policy!Nothing
        /\ thread.obs.ts <= proxy.last.ts /\ proxy.last.ts <= proxy.timestep
    BY <1>2, <1>4 DEF PolicyInv, PredictionInv
  <2>2. proxy.timestep < thread.obs.ts + Chunk
    BY <1>2, <1>3, <1>4 DEF PolicyInv, AheadInv
  <2>3. proxy.timestep \in Policy!Covered(thread.obs)
    BY <1>3, <2>1, <2>2 DEF Policy!Covered
  <2> QED
    BY <1>4, <2>3 DEF Outstanding, Policy!NeverStarved
<1>5. CASE ~Outstanding /\ (proxy.event \/ thread.at = "woken")
  <2>1. Resting
    BY <1>1, <1>2, <1>5 DEF Outstanding, Resting, PoThreads
  <2>2. /\ proxy.last # Policy!Nothing /\ proxy.last.ts <= proxy.timestep
        /\ thread.obs # Policy!Nothing =>
             thread.obs.ts <= proxy.last.ts /\ thread.obs.ts # proxy.last.ts
    BY <1>2, <1>5 DEF PolicyInv, PredictionInv
  <2>3. proxy.timestep < proxy.last.ts + Chunk
    <3>1. CASE thread.obs = Policy!Nothing
      BY <1>2, <1>3, <2>1, <3>1 DEF PolicyInv, AheadInv
    <3>2. CASE thread.obs # Policy!Nothing
      <4>1. proxy.timestep <= thread.obs.ts + Chunk
        BY <1>2, <1>3, <2>1, <3>2 DEF PolicyInv, AheadInv
      <4> QED
        BY <1>3, <2>2, <3>2, <4>1
    <3> QED
      BY <3>1, <3>2
  <2>4. proxy.timestep \in Policy!Covered(proxy.last)
    BY <1>3, <2>2, <2>3 DEF Policy!Covered
  <2> QED
    BY <1>5, <2>4 DEF Policy!NeverStarved
<1>6. CASE ~Outstanding /\ ~proxy.event /\ thread.at # "woken"
  <2>1. thread.at = "wait"
    BY <1>1, <1>2, <1>6 DEF Outstanding, PoThreads
  <2> QED
    BY <1>2, <1>6, <2>1 DEF PolicyInv, AheadInv, Policy!NeverStarved
<1> QED
  BY <1>4, <1>5, <1>6

----------------------------------------------------------------------------
(* The gripper gate.                                                       *)

\* What the gate believes is so, unless a command that failed left it in doubt.
BeliefInv == gate.position # Gripper!Unknown => gripper = gate.position \/ doubtful

GripperInv == Gripper!TypeOK /\ BeliefInv /\ Gripper!PolicyAuthoritative

\* The gate begins without a belief, and nothing is wanted.
LEMMA GripperInit == Init => GripperInv
<1> SUFFICES ASSUME Init PROVE GripperInv
  OBVIOUS
<1>1. Gripper!Init
  BY DEF Init
<1> QED
  BY <1>1
  DEF GripperInv, BeliefInv, Gripper!PolicyAuthoritative, Gripper!TypeOK, Gripper!Init,
      Gripper!Positions, Gripper!Unknown, Gripper!Closed, Gripper!Open

\* Applied or not, a command of the policy, the operator's toggle and the end of a
\* retry interval keep the invariant of the gate.
LEMMA GripperStep == GripperInv /\ Gripper!Next => GripperInv'
<1> SUFFICES ASSUME GripperInv, Gripper!Next PROVE GripperInv'
  OBVIOUS
<1> USE DEF GripperInv, BeliefInv, Gripper!PolicyAuthoritative, Gripper!TypeOK,
      Gripper!Positions, Gripper!Unknown, Gripper!Closed, Gripper!Open
<1>1. Gripper!Believed \in Gripper!Positions
  BY DEF Gripper!Believed
<1>2. gripper = Gripper!Believed \/ doubtful
  BY DEF Gripper!Believed
<1>3. ASSUME NEW target \in {Gripper!Closed, Gripper!Open}, Gripper!Withhold(target)
      PROVE  GripperInv'
  BY <1>1, <1>2, <1>3 DEF Gripper!Withhold, Gripper!Withheld
<1>4. ASSUME NEW target \in {Gripper!Closed, Gripper!Open}, Gripper!Apply(target)
      PROVE  GripperInv'
  <2>1. gate' = [position |-> target, pending |-> Gripper!Unknown, recent |-> TRUE]
    BY <1>4 DEF Gripper!Apply, Gripper!Applied
  <2>2. gripper' = target /\ wanted' = target /\ doubtful' = FALSE
    BY <1>4 DEF Gripper!Apply
  <2>3. Gripper!TypeOK'
    <3>1. gate' \in [position : 0 .. 2 \cup {3}, pending : 0 .. 2 \cup {3}, recent : BOOLEAN]
      BY <2>1
    <3>2. doubtful' \in BOOLEAN
      BY <2>2
    <3> QED
      BY <2>2, <3>1, <3>2
  <2>4. BeliefInv' /\ Gripper!PolicyAuthoritative'
    BY <2>1, <2>2
  <2> QED
    BY <2>3, <2>4
<1>5. ASSUME NEW target \in {Gripper!Closed, Gripper!Open}, Gripper!Reject(target)
      PROVE  GripperInv'
  <2>1. gate' = [position |-> Gripper!Believed, pending |-> target, recent |-> TRUE]
    BY <1>5 DEF Gripper!Reject, Gripper!Rejected
  <2>2. /\ gripper' \in {gripper, target} /\ wanted' = target
        /\ doubtful' = (doubtful \/ gripper' # gripper)
    BY <1>5 DEF Gripper!Reject
  <2>3. doubtful' \in BOOLEAN /\ (gripper' = gripper => doubtful' = doubtful)
        /\ (gripper' # gripper => doubtful' = TRUE)
    BY <2>2
  <2>4. gate' \in [position : 0 .. 2 \cup {3}, pending : 0 .. 2 \cup {3}, recent : BOOLEAN]
    BY <1>1, <2>1
  <2>5. Gripper!TypeOK'
    BY <2>2, <2>3, <2>4
  <2>6. Gripper!PolicyAuthoritative'
    BY <2>1, <2>2
  <2>7. BeliefInv'
    BY <1>2, <2>1, <2>3
  <2> QED
    BY <2>5, <2>6, <2>7
<1>6. CASE Gripper!Toggle
  <2> DEFINE turned == Gripper!Open - Gripper!Believed
  <2>1. turned \in 0 .. 2
    BY <1>1
  <2>2. CASE gripper' = turned /\ gate' = [Gripper!Applied(turned) EXCEPT !.recent = FALSE]
             /\ doubtful' = FALSE /\ wanted' = Gripper!Unknown
    <3>1. gate' = [position |-> turned, pending |-> Gripper!Unknown, recent |-> FALSE]
      BY <2>2 DEF Gripper!Applied
    <3>2. Gripper!TypeOK'
      <4>1. gate' \in [position : 0 .. 2 \cup {3}, pending : 0 .. 2 \cup {3}, recent : BOOLEAN]
        BY <2>1, <3>1
      <4>2. doubtful' \in BOOLEAN
        BY <2>2
      <4> QED
        BY <2>1, <2>2, <4>1, <4>2
    <3>3. BeliefInv' /\ Gripper!PolicyAuthoritative'
      BY <2>2, <3>1
    <3> QED
      BY <3>2, <3>3
  <2>3. CASE gripper' \in {gripper, turned} /\ doubtful' = TRUE /\ wanted' = Gripper!Unknown
             /\ gate' = [position |-> turned, pending |-> turned, recent |-> TRUE]
    BY <2>1, <2>3
  <2> QED
    BY <1>6, <2>2, <2>3 DEF Gripper!Toggle
<1>7. CASE Gripper!RetryInterval
  BY <1>7 DEF Gripper!RetryInterval
<1> QED
  BY <1>3, <1>4, <1>5, <1>6, <1>7 DEF Gripper!Next

\* A step of another part leaves the gate alone.
LEMMA GripperStutter == GripperInv /\ UNCHANGED gripperVars => GripperInv'
BY DEF GripperInv, BeliefInv, Gripper!PolicyAuthoritative, Gripper!TypeOK, gripperVars

----------------------------------------------------------------------------
(* The multi-task dashboard.                                               *)

\* Whatever the handlers write and when: a task is being prepared only while the main
\* loop prepares one, or is held by the switch of its policy, an abort that counts is in the dictionary, and a task is
\* started from nothing.
StatusInv ==
    /\ state.status = "presetting" => job.at \in {"proxy", "robot", "blocked"}
    /\ history.aborted => state.abort
    /\ key.name = "digit" => key.task # Dashboard!NoTask
    /\ key.name = "batch" => batch # <<>>
    /\ job.at \in {"idle", "claimed", "proxy", "robot", "execute"} =>
         ~job.manual /\ job.confirmed = Dashboard!NoQuestion
    /\ job.at = "asking" => job.question.task = job.task /\ job.question.kind # "none"
    /\ Dashboard!AbortHonoured

\* Where the main loop is when its task is bound to the policy it switched to.
Bound ==
    \/ job.at \in {"started", "reset", "loop", "acting"}
    \/ job.at = "asking" /\ job.question.kind # "again"

\* Where it is when its task was confirmed, if it had to be.
Cleared ==
    \/ job.at \in {"started", "reset", "loop", "acting"}
    \/ job.at = "asking" /\ job.question.kind = "retry"

\* As long as no handler wrote on a status that had changed, the status tells where
\* the main loop is, and the task is the one that was prepared and confirmed.
FreshInv ==
    ~history.lagging =>
        /\ job.at \in {"idle", "finished", "advance"} => state.status \in Dashboard!Selectable
        /\ job.at = "claimed" => state.status = "selecting"
        /\ job.at \in {"proxy", "robot"} => state.status = "presetting"
        /\ job.at \in {"execute", "started", "reset", "loop", "acting"} =>
             state.status \in Dashboard!Running
        /\ job.at = "asking" => state.status = Dashboard!Asking
        /\ job.at = "asking" /\ job.question.kind = "again" =>
             job.old \in Dashboard!Selectable /\ state.curr_task # Dashboard!NoTask
        /\ job.at = "asking" /\ job.question.kind # "again" => job.old \in Dashboard!Running
        /\ job.at = "asking" /\ state.confirm_result # "none" => state.answered = job.question
        /\ job.at \in {"robot", "execute"} => job.policy = state.curr_task
        /\ Bound => job.policy = job.task
        /\ Cleared /\ (job.manual \/ job.confirmed # Dashboard!NoQuestion) =>
             job.confirmed.task = job.task /\ job.confirmed.kind \in {"start", "retry"}

DashStates ==
    [status : Dashboard!Selectable \cup Dashboard!Running \cup {Dashboard!Asking, "presetting"},
     curr_task : {Dashboard!NoTask} \cup Dashboard!Tasks, pause : BOOLEAN, abort : BOOLEAN,
     finish : BOOLEAN, retry : BOOLEAN, batch_index : -1 .. 1, running : BOOLEAN,
     confirm_result : Dashboard!Answers, answered : Dashboard!Questions]
DashJobs ==
    [at : {"idle", "claimed", "proxy", "robot", "execute", "started", "asking", "reset",
           "loop", "acting", "finished", "advance", "blocked", "ended"},
     task : {Dashboard!NoTask} \cup Dashboard!Tasks,
     policy : {Dashboard!NoTask} \cup Dashboard!Tasks,
     old : Dashboard!Selectable \cup Dashboard!Running \cup {Dashboard!Asking},
     question : Dashboard!Questions, confirmed : Dashboard!Questions, manual : BOOLEAN]
DashKeys ==
    [name : {"none", "digit", "status", "enter", "esc", "yes", "no", "batch", "retry",
             "pause", "abort", "finish"},
     task : {Dashboard!NoTask} \cup Dashboard!Tasks, question : Dashboard!Questions]
DashHistories == [lagging : BOOLEAN, derailed : BOOLEAN, aborted : BOOLEAN]

DashboardInv ==
    /\ Dashboard!TypeOK /\ key \in DashKeys
    /\ StatusInv /\ FreshInv /\ Dashboard!BatchLockAccounted

\* The type of the dashboard's state, a variable at a time.
LEMMA DashboardTypes ==
    DashboardInv =>
        /\ batch \in Dashboard!Batches /\ state \in DashStates /\ job \in DashJobs
        /\ key \in DashKeys /\ requested \in BOOLEAN
        /\ history \in DashHistories
BY DEF DashboardInv, Dashboard!TypeOK, DashStates, DashJobs, DashHistories

\* And of the state after a step.
LEMMA DashboardTypesNext ==
    ASSUME batch' \in Dashboard!Batches, state' \in DashStates, job' \in DashJobs,
           key' \in DashKeys, requested' \in BOOLEAN,
           history' \in DashHistories
    PROVE  Dashboard!TypeOK' /\ key' \in DashKeys
<1>1. /\ key'.name \in {"none", "digit", "status", "enter", "esc", "yes", "no", "batch",
                        "retry", "pause", "abort", "finish"}
      /\ key'.task \in {Dashboard!NoTask} \cup Dashboard!Tasks
      /\ key'.question \in Dashboard!Questions
  BY DEF DashKeys
<1> QED
  BY <1>1 DEF Dashboard!TypeOK, DashStates, DashJobs, DashHistories

\* No question, no job and no key are of their types.
LEMMA DashboardValues ==
    /\ Dashboard!NoQuestion \in Dashboard!Questions
    /\ Dashboard!Idle \in DashJobs /\ Dashboard!NoKey \in DashKeys
<1>1. Dashboard!NoQuestion \in Dashboard!Questions
  BY DEF Dashboard!NoQuestion, Dashboard!Questions, Dashboard!NoTask
<1> QED
  BY <1>1
  DEF Dashboard!Idle, Dashboard!NoKey, DashJobs, DashKeys, Dashboard!Selectable

\* A dashboard starts idle, with nothing selected.
LEMMA DashboardInit == Init => DashboardInv
<1> SUFFICES ASSUME Init PROVE DashboardInv
  OBVIOUS
<1>1. Dashboard!Init
  BY DEF Init
<1>2. state \in DashStates
  BY <1>1, DashboardValues
  DEF Dashboard!Init, DashStates, Dashboard!Selectable, Dashboard!Answers
<1>3. job \in DashJobs /\ key \in DashKeys
  BY <1>1, DashboardValues DEF Dashboard!Init
<1>4. Dashboard!TypeOK
  BY <1>1, <1>2, <1>3 DEF Dashboard!Init, Dashboard!TypeOK, DashStates, DashJobs, DashKeys
<1>5. StatusInv
  BY <1>1
  DEF Dashboard!Init, StatusInv, Dashboard!Idle, Dashboard!NoKey, Dashboard!AbortHonoured
<1>6. FreshInv /\ Dashboard!BatchLockAccounted
  BY <1>1
  DEF Dashboard!Init, FreshInv, Dashboard!BatchLockAccounted, Dashboard!Idle,
      Dashboard!Selectable, Bound, Cleared
<1> QED
  BY <1>3, <1>4, <1>5, <1>6 DEF DashboardInv

\* A step of another part leaves the dashboard alone.
LEMMA DashboardStutter == DashboardInv /\ UNCHANGED dashboardVars => DashboardInv'
<1> SUFFICES ASSUME DashboardInv, UNCHANGED dashboardVars PROVE DashboardInv'
  OBVIOUS
<1> USE DEF dashboardVars
<1>1. Dashboard!TypeOK' /\ key' \in DashKeys
  BY DEF DashboardInv, Dashboard!TypeOK
<1>2. StatusInv' /\ FreshInv' /\ Dashboard!BatchLockAccounted'
  BY DEF DashboardInv, StatusInv, FreshInv, Dashboard!BatchLockAccounted, Bound, Cleared,
         Dashboard!AbortHonoured
<1> QED
  BY <1>1, <1>2 DEF DashboardInv

\* An exception in a task leaves the status to the operator.
LEMMA DaFail ==
    ASSUME DashboardInv, Dashboard!Fail,
           UNCHANGED <<key, batch>>, requested' \in BOOLEAN
    PROVE  DashboardInv'
<1>1. /\ batch \in Dashboard!Batches /\ state \in DashStates /\ job \in DashJobs
      /\ key \in DashKeys /\ requested \in BOOLEAN
      /\ history \in DashHistories
  BY DashboardTypes
<1>2. UNCHANGED <<key, batch>> /\ requested' \in BOOLEAN
  BY DEF Dashboard!Fail
<1>3. state' \in DashStates
  BY <1>1, DashboardValues
  DEF Dashboard!Fail, DashStates, Dashboard!Selectable, Dashboard!Running, Dashboard!Asking,
      Dashboard!Answers, Dashboard!NoTask
<1>4. job' \in DashJobs
  BY <1>1, DashboardValues
  DEF Dashboard!Fail, DashJobs, Dashboard!Selectable, Dashboard!Running, Dashboard!Asking,
      Dashboard!Answers, Dashboard!NoTask, DashStates
<1>5. history' \in DashHistories
  BY <1>1, DashboardValues
  DEF Dashboard!Fail, DashHistories, Dashboard!Selectable, Dashboard!Running, Dashboard!Asking,
      Dashboard!Answers, Dashboard!NoTask, DashStates
<1>6. Dashboard!TypeOK' /\ key' \in DashKeys
  BY <1>1, <1>2, <1>3, <1>4, <1>5, DashboardTypesNext
<1>7. StatusInv'
  BY <1>1, <1>2, DashboardValues
  DEF Dashboard!Fail, DashboardInv, StatusInv, Dashboard!AbortHonoured,
      Dashboard!Idle, Dashboard!NoKey, DashStates, DashJobs, DashKeys, DashHistories,
      Dashboard!Selectable, Dashboard!Running, Dashboard!Asking
<1>8. FreshInv'
  BY <1>1, <1>2, DashboardValues
  DEF Dashboard!Fail, DashboardInv, FreshInv, StatusInv, Bound, Cleared,
      Dashboard!Idle, Dashboard!NoKey, DashStates, DashJobs, DashKeys, DashHistories,
      Dashboard!Selectable, Dashboard!Running, Dashboard!Asking
<1>9. Dashboard!BatchLockAccounted'
  BY <1>1, <1>2, DashboardValues
  DEF Dashboard!Fail, DashboardInv, FreshInv, Dashboard!BatchLockAccounted,
      Dashboard!Idle, Dashboard!NoKey, DashStates, DashJobs, DashKeys, DashHistories,
      Dashboard!Selectable, Dashboard!Running, Dashboard!Asking
<1> QED
  BY <1>6, <1>7, <1>8, <1>9 DEF DashboardInv

\* The operator is asked whether to start a task,
LEMMA DaAskStart ==
    ASSUME DashboardInv, job.at = "execute",
           Dashboard!Ask("start", state.curr_task),
           UNCHANGED <<key, history, requested, batch>>
    PROVE  DashboardInv'
<1>1. /\ batch \in Dashboard!Batches /\ state \in DashStates /\ job \in DashJobs
      /\ key \in DashKeys /\ requested \in BOOLEAN
      /\ history \in DashHistories
  BY DashboardTypes
<1>2. UNCHANGED <<key, history, requested, batch>>
  BY DEF Dashboard!Ask
<1>3. /\ job' = [at |-> "asking", task |-> state.curr_task, policy |-> job.policy,
                old |-> state.status, question |-> [kind |-> "start", task |-> state.curr_task],
                confirmed |-> job.confirmed, manual |-> TRUE]
      /\ [kind |-> "start", task |-> state.curr_task] \in Dashboard!Questions
      /\ state.status \in Dashboard!Selectable \cup Dashboard!Running \cup {Dashboard!Asking}
      /\ state.curr_task \in {Dashboard!NoTask} \cup Dashboard!Tasks
  <2>1. job' = [job EXCEPT !.at = "asking", !.task = state.curr_task, !.old = state.status,
                  !.manual = @ \/ "start" = "start",
                  !.question = [kind |-> "start", task |-> state.curr_task]]
    BY DEF Dashboard!Ask
  <2>2. job.manual \in BOOLEAN
    BY <1>1 DEF DashJobs
  <2>3. job' = [at |-> "asking", task |-> state.curr_task, policy |-> job.policy,
                old |-> state.status, question |-> [kind |-> "start", task |-> state.curr_task],
                confirmed |-> job.confirmed, manual |-> TRUE]
    BY <1>1, <2>1, <2>2 DEF DashJobs
  <2>4. state.curr_task \in {Dashboard!NoTask} \cup Dashboard!Tasks
    BY <1>1 DEF DashStates, DashJobs
  <2>5. [kind |-> "start", task |-> state.curr_task] \in Dashboard!Questions
    BY <2>4 DEF Dashboard!Questions
  <2>6. state.status # "presetting"
    BY DEF DashboardInv, StatusInv
  <2>7. state.status \in Dashboard!Selectable \cup Dashboard!Running \cup {Dashboard!Asking}
    BY <1>1, <2>6 DEF DashStates
  <2> QED
    BY <2>3, <2>4, <2>5, <2>7
<1>4. state' \in DashStates
  BY <1>1, DashboardValues
  DEF Dashboard!Ask, DashStates, Dashboard!Selectable, Dashboard!Running, Dashboard!Asking,
      Dashboard!Answers, Dashboard!NoTask
<1>5. job' \in DashJobs
  BY <1>1, <1>3 DEF DashJobs
<1>6. Dashboard!TypeOK' /\ key' \in DashKeys
  BY <1>1, <1>2, <1>4, <1>5, DashboardTypesNext
<1>7. StatusInv'
  BY <1>1, <1>2, <1>3, DashboardValues
  DEF Dashboard!Ask, DashboardInv, StatusInv, Dashboard!AbortHonoured,
      DashStates, DashHistories, Dashboard!Selectable, Dashboard!Running, Dashboard!Asking
<1>8. FreshInv'
  BY <1>1, <1>2, <1>3, DashboardValues
  DEF Dashboard!Ask, DashboardInv, FreshInv, StatusInv, Bound, Cleared,
      DashStates, DashHistories, Dashboard!Selectable, Dashboard!Running, Dashboard!Asking
<1>9. Dashboard!BatchLockAccounted'
  BY <1>1, <1>2, <1>3, DashboardValues
  DEF Dashboard!Ask, DashboardInv, FreshInv, Dashboard!BatchLockAccounted,
      DashStates, DashHistories, Dashboard!Selectable, Dashboard!Running, Dashboard!Asking
<1> QED
  BY <1>6, <1>7, <1>8, <1>9 DEF DashboardInv

\* whether to start it again,
LEMMA DaAskRetry ==
    ASSUME DashboardInv, job.at = "started",
           Dashboard!Ask("retry", job.task),
           UNCHANGED <<key, history, requested, batch>>
    PROVE  DashboardInv'
<1>1. /\ batch \in Dashboard!Batches /\ state \in DashStates /\ job \in DashJobs
      /\ key \in DashKeys /\ requested \in BOOLEAN
      /\ history \in DashHistories
  BY DashboardTypes
<1>2. UNCHANGED <<key, history, requested, batch>>
  BY DEF Dashboard!Ask
<1>3. /\ job' = [at |-> "asking", task |-> job.task, policy |-> job.policy,
                old |-> state.status, question |-> [kind |-> "retry", task |-> job.task],
                confirmed |-> job.confirmed, manual |-> job.manual]
      /\ [kind |-> "retry", task |-> job.task] \in Dashboard!Questions
      /\ state.status \in Dashboard!Selectable \cup Dashboard!Running \cup {Dashboard!Asking}
      /\ job.task \in {Dashboard!NoTask} \cup Dashboard!Tasks
  <2>1. job' = [job EXCEPT !.at = "asking", !.task = job.task, !.old = state.status,
                  !.manual = @ \/ "retry" = "start",
                  !.question = [kind |-> "retry", task |-> job.task]]
    BY DEF Dashboard!Ask
  <2>2. job.manual \in BOOLEAN
    BY <1>1 DEF DashJobs
  <2>3. job' = [at |-> "asking", task |-> job.task, policy |-> job.policy,
                old |-> state.status, question |-> [kind |-> "retry", task |-> job.task],
                confirmed |-> job.confirmed, manual |-> job.manual]
    BY <1>1, <2>1, <2>2 DEF DashJobs
  <2>4. job.task \in {Dashboard!NoTask} \cup Dashboard!Tasks
    BY <1>1 DEF DashStates, DashJobs
  <2>5. [kind |-> "retry", task |-> job.task] \in Dashboard!Questions
    BY <2>4 DEF Dashboard!Questions
  <2>6. state.status # "presetting"
    BY DEF DashboardInv, StatusInv
  <2>7. state.status \in Dashboard!Selectable \cup Dashboard!Running \cup {Dashboard!Asking}
    BY <1>1, <2>6 DEF DashStates
  <2> QED
    BY <2>3, <2>4, <2>5, <2>7
<1>4. state' \in DashStates
  BY <1>1, DashboardValues
  DEF Dashboard!Ask, DashStates, Dashboard!Selectable, Dashboard!Running, Dashboard!Asking,
      Dashboard!Answers, Dashboard!NoTask
<1>5. job' \in DashJobs
  BY <1>1, <1>3 DEF DashJobs
<1>6. Dashboard!TypeOK' /\ key' \in DashKeys
  BY <1>1, <1>2, <1>4, <1>5, DashboardTypesNext
<1>7. StatusInv'
  BY <1>1, <1>2, <1>3, DashboardValues
  DEF Dashboard!Ask, DashboardInv, StatusInv, Dashboard!AbortHonoured,
      DashStates, DashHistories, Dashboard!Selectable, Dashboard!Running, Dashboard!Asking
<1>8. FreshInv'
  BY <1>1, <1>2, <1>3, DashboardValues
  DEF Dashboard!Ask, DashboardInv, FreshInv, StatusInv, Bound, Cleared,
      DashStates, DashHistories, Dashboard!Selectable, Dashboard!Running, Dashboard!Asking
<1>9. Dashboard!BatchLockAccounted'
  BY <1>1, <1>2, <1>3, DashboardValues
  DEF Dashboard!Ask, DashboardInv, FreshInv, Dashboard!BatchLockAccounted,
      DashStates, DashHistories, Dashboard!Selectable, Dashboard!Running, Dashboard!Asking
<1> QED
  BY <1>6, <1>7, <1>8, <1>9 DEF DashboardInv

\* and whether to repeat what ended otherwise than done.
LEMMA DaAskAgain ==
    ASSUME DashboardInv, job.at = "finished",
           state.status # "done",
           state.curr_task # Dashboard!NoTask,
           Dashboard!Ask("again", state.curr_task),
           UNCHANGED <<key, history, requested, batch>>
    PROVE  DashboardInv'
<1>1. /\ batch \in Dashboard!Batches /\ state \in DashStates /\ job \in DashJobs
      /\ key \in DashKeys /\ requested \in BOOLEAN
      /\ history \in DashHistories
  BY DashboardTypes
<1>2. UNCHANGED <<key, history, requested, batch>>
  BY DEF Dashboard!Ask
<1>3. /\ job' = [at |-> "asking", task |-> state.curr_task, policy |-> job.policy,
                old |-> state.status, question |-> [kind |-> "again", task |-> state.curr_task],
                confirmed |-> job.confirmed, manual |-> job.manual]
      /\ [kind |-> "again", task |-> state.curr_task] \in Dashboard!Questions
      /\ state.status \in Dashboard!Selectable \cup Dashboard!Running \cup {Dashboard!Asking}
      /\ state.curr_task \in {Dashboard!NoTask} \cup Dashboard!Tasks
  <2>1. job' = [job EXCEPT !.at = "asking", !.task = state.curr_task, !.old = state.status,
                  !.manual = @ \/ "again" = "start",
                  !.question = [kind |-> "again", task |-> state.curr_task]]
    BY DEF Dashboard!Ask
  <2>2. job.manual \in BOOLEAN
    BY <1>1 DEF DashJobs
  <2>3. job' = [at |-> "asking", task |-> state.curr_task, policy |-> job.policy,
                old |-> state.status, question |-> [kind |-> "again", task |-> state.curr_task],
                confirmed |-> job.confirmed, manual |-> job.manual]
    BY <1>1, <2>1, <2>2 DEF DashJobs
  <2>4. state.curr_task \in {Dashboard!NoTask} \cup Dashboard!Tasks
    BY <1>1 DEF DashStates, DashJobs
  <2>5. [kind |-> "again", task |-> state.curr_task] \in Dashboard!Questions
    BY <2>4 DEF Dashboard!Questions
  <2>6. state.status # "presetting"
    BY DEF DashboardInv, StatusInv
  <2>7. state.status \in Dashboard!Selectable \cup Dashboard!Running \cup {Dashboard!Asking}
    BY <1>1, <2>6 DEF DashStates
  <2> QED
    BY <2>3, <2>4, <2>5, <2>7
<1>4. state' \in DashStates
  BY <1>1, DashboardValues
  DEF Dashboard!Ask, DashStates, Dashboard!Selectable, Dashboard!Running, Dashboard!Asking,
      Dashboard!Answers, Dashboard!NoTask
<1>5. job' \in DashJobs
  BY <1>1, <1>3 DEF DashJobs
<1>6. Dashboard!TypeOK' /\ key' \in DashKeys
  BY <1>1, <1>2, <1>4, <1>5, DashboardTypesNext
<1>7. StatusInv'
  BY <1>1, <1>2, <1>3, DashboardValues
  DEF Dashboard!Ask, DashboardInv, StatusInv, Dashboard!AbortHonoured,
      DashStates, DashHistories, Dashboard!Selectable, Dashboard!Running, Dashboard!Asking
<1>8. FreshInv'
  BY <1>1, <1>2, <1>3, DashboardValues
  DEF Dashboard!Ask, DashboardInv, FreshInv, StatusInv, Bound, Cleared,
      DashStates, DashHistories, Dashboard!Selectable, Dashboard!Running, Dashboard!Asking
<1>9. Dashboard!BatchLockAccounted'
  BY <1>1, <1>2, <1>3, DashboardValues
  DEF Dashboard!Ask, DashboardInv, FreshInv, Dashboard!BatchLockAccounted,
      DashStates, DashHistories, Dashboard!Selectable, Dashboard!Running, Dashboard!Asking
<1> QED
  BY <1>6, <1>7, <1>8, <1>9 DEF DashboardInv

\* The main loop claims the selected task, or ends.
LEMMA DaClaim ==
    ASSUME DashboardInv, Dashboard!Claim,
           UNCHANGED <<batch, key, requested>>
    PROVE  DashboardInv'
<1>1. /\ batch \in Dashboard!Batches /\ state \in DashStates /\ job \in DashJobs
      /\ key \in DashKeys /\ requested \in BOOLEAN
      /\ history \in DashHistories
  BY DashboardTypes
<1>2. UNCHANGED <<state, key, history, requested, batch>>
  BY DEF Dashboard!Claim, Dashboard!Goto, Dashboard!Fail
<1>3. job' \in DashJobs
  BY <1>1, DashboardValues
  DEF Dashboard!Claim, Dashboard!Goto, Dashboard!Fail, DashJobs, Dashboard!Selectable, Dashboard!Running, Dashboard!Asking,
      Dashboard!Answers, Dashboard!NoTask, DashStates
<1>4. Dashboard!TypeOK' /\ key' \in DashKeys
  BY <1>1, <1>2, <1>3, DashboardTypesNext
<1>5. StatusInv'
  BY <1>1, <1>2, DashboardValues
  DEF Dashboard!Claim, Dashboard!Goto, Dashboard!Fail, DashboardInv, StatusInv, Dashboard!AbortHonoured,
      Dashboard!Idle, Dashboard!NoKey, DashStates, DashJobs, DashKeys, DashHistories,
      Dashboard!Selectable, Dashboard!Running, Dashboard!Asking
<1>6. FreshInv'
  BY <1>1, <1>2, DashboardValues
  DEF Dashboard!Claim, Dashboard!Goto, Dashboard!Fail, DashboardInv, FreshInv, StatusInv, Bound, Cleared,
      Dashboard!Idle, Dashboard!NoKey, DashStates, DashJobs, DashKeys, DashHistories,
      Dashboard!Selectable, Dashboard!Running, Dashboard!Asking
<1>7. Dashboard!BatchLockAccounted'
  BY <1>1, <1>2, DashboardValues
  DEF Dashboard!Claim, Dashboard!Goto, Dashboard!Fail, DashboardInv, FreshInv, Dashboard!BatchLockAccounted,
      Dashboard!Idle, Dashboard!NoKey, DashStates, DashJobs, DashKeys, DashHistories,
      Dashboard!Selectable, Dashboard!Running, Dashboard!Asking
<1> QED
  BY <1>4, <1>5, <1>6, <1>7 DEF DashboardInv

\* It begins to prepare the task, unless Escape cleared it.
LEMMA DaBeginPreset ==
    ASSUME DashboardInv, Dashboard!BeginPreset,
           UNCHANGED <<batch, key, requested>>
    PROVE  DashboardInv'
<1>1. /\ batch \in Dashboard!Batches /\ state \in DashStates /\ job \in DashJobs
      /\ key \in DashKeys /\ requested \in BOOLEAN
      /\ history \in DashHistories
  BY DashboardTypes
<1>2. UNCHANGED <<key, requested, batch>>
  BY DEF Dashboard!BeginPreset, Dashboard!Goto, Dashboard!Fail
<1>3. state' \in DashStates
  BY <1>1, DashboardValues
  DEF Dashboard!BeginPreset, Dashboard!Goto, Dashboard!Fail, DashStates, Dashboard!Selectable, Dashboard!Running, Dashboard!Asking,
      Dashboard!Answers, Dashboard!NoTask
<1>4. job' \in DashJobs
  BY <1>1, DashboardValues
  DEF Dashboard!BeginPreset, Dashboard!Goto, Dashboard!Fail, DashJobs, Dashboard!Selectable, Dashboard!Running, Dashboard!Asking,
      Dashboard!Answers, Dashboard!NoTask, DashStates
<1>5. history' \in DashHistories
  BY <1>1, DashboardValues
  DEF Dashboard!BeginPreset, Dashboard!Goto, Dashboard!Fail, DashHistories, Dashboard!Selectable, Dashboard!Running, Dashboard!Asking,
      Dashboard!Answers, Dashboard!NoTask, DashStates
<1>6. Dashboard!TypeOK' /\ key' \in DashKeys
  BY <1>1, <1>2, <1>3, <1>4, <1>5, DashboardTypesNext
<1>7. StatusInv'
  BY <1>1, <1>2, DashboardValues
  DEF Dashboard!BeginPreset, Dashboard!Goto, Dashboard!Fail, DashboardInv, StatusInv, Dashboard!AbortHonoured,
      Dashboard!Idle, Dashboard!NoKey, DashStates, DashJobs, DashKeys, DashHistories,
      Dashboard!Selectable, Dashboard!Running, Dashboard!Asking
<1>8. FreshInv'
  BY <1>1, <1>2, DashboardValues
  DEF Dashboard!BeginPreset, Dashboard!Goto, Dashboard!Fail, DashboardInv, FreshInv, StatusInv, Bound, Cleared,
      Dashboard!Idle, Dashboard!NoKey, DashStates, DashJobs, DashKeys, DashHistories,
      Dashboard!Selectable, Dashboard!Running, Dashboard!Asking
<1>9. Dashboard!BatchLockAccounted'
  BY <1>1, <1>2, DashboardValues
  DEF Dashboard!BeginPreset, Dashboard!Goto, Dashboard!Fail, DashboardInv, FreshInv, Dashboard!BatchLockAccounted,
      Dashboard!Idle, Dashboard!NoKey, DashStates, DashJobs, DashKeys, DashHistories,
      Dashboard!Selectable, Dashboard!Running, Dashboard!Asking
<1> QED
  BY <1>6, <1>7, <1>8, <1>9 DEF DashboardInv

\* The policy of the task is switched to.
LEMMA DaSwitched ==
    ASSUME DashboardInv, job.at = "proxy",
           job' = [job EXCEPT !.at = "robot", !.policy = state.curr_task],
           UNCHANGED <<state, key, history, batch>>, requested' \in BOOLEAN
    PROVE  DashboardInv'
<1>1. /\ batch \in Dashboard!Batches /\ state \in DashStates /\ job \in DashJobs
      /\ key \in DashKeys /\ requested \in BOOLEAN
      /\ history \in DashHistories
  BY DashboardTypes
<1>2. UNCHANGED <<state, key, history, batch>> /\ requested' \in BOOLEAN
  OBVIOUS
<1>3. job' \in DashJobs
  BY <1>1, DashboardValues
  DEF DashJobs, Dashboard!Selectable, Dashboard!Running, Dashboard!Asking,
      Dashboard!Answers, Dashboard!NoTask, DashStates
<1>4. Dashboard!TypeOK' /\ key' \in DashKeys
  BY <1>1, <1>2, <1>3, DashboardTypesNext
<1>5. StatusInv'
  BY <1>1, <1>2, DashboardValues
  DEF DashboardInv, StatusInv, Dashboard!AbortHonoured,
      Dashboard!Idle, Dashboard!NoKey, DashStates, DashJobs, DashKeys, DashHistories,
      Dashboard!Selectable, Dashboard!Running, Dashboard!Asking
<1>6. FreshInv'
  BY <1>1, <1>2, DashboardValues
  DEF DashboardInv, FreshInv, StatusInv, Bound, Cleared,
      Dashboard!Idle, Dashboard!NoKey, DashStates, DashJobs, DashKeys, DashHistories,
      Dashboard!Selectable, Dashboard!Running, Dashboard!Asking
<1>7. Dashboard!BatchLockAccounted'
  BY <1>1, <1>2, DashboardValues
  DEF DashboardInv, FreshInv, Dashboard!BatchLockAccounted,
      Dashboard!Idle, Dashboard!NoKey, DashStates, DashJobs, DashKeys, DashHistories,
      Dashboard!Selectable, Dashboard!Running, Dashboard!Asking
<1> QED
  BY <1>4, <1>5, <1>6, <1>7 DEF DashboardInv

\* A request that is not answered holds the loop, in the join that switches the policy
\* or in require_action.
LEMMA DaBlocked ==
    ASSUME DashboardInv, job.at \in {"proxy", "acting"},
           job' = [job EXCEPT !.at = "blocked"],
           UNCHANGED <<state, key, history, batch>>, requested' \in BOOLEAN
    PROVE  DashboardInv'
<1>1. /\ batch \in Dashboard!Batches /\ state \in DashStates /\ job \in DashJobs
      /\ key \in DashKeys /\ requested \in BOOLEAN
      /\ history \in DashHistories
  BY DashboardTypes
<1>2. UNCHANGED <<state, key, history, batch>> /\ requested' \in BOOLEAN
  OBVIOUS
<1>3. job' \in DashJobs
  BY <1>1, DashboardValues
  DEF DashJobs, Dashboard!Selectable, Dashboard!Running, Dashboard!Asking,
      Dashboard!Answers, Dashboard!NoTask, DashStates
<1>4. Dashboard!TypeOK' /\ key' \in DashKeys
  BY <1>1, <1>2, <1>3, DashboardTypesNext
<1>5. StatusInv'
  BY <1>1, <1>2, DashboardValues
  DEF DashboardInv, StatusInv, Dashboard!AbortHonoured,
      Dashboard!Idle, Dashboard!NoKey, DashStates, DashJobs, DashKeys, DashHistories,
      Dashboard!Selectable, Dashboard!Running, Dashboard!Asking
<1>6. FreshInv'
  BY <1>1, <1>2, DashboardValues
  DEF DashboardInv, FreshInv, StatusInv, Bound, Cleared,
      Dashboard!Idle, Dashboard!NoKey, DashStates, DashJobs, DashKeys, DashHistories,
      Dashboard!Selectable, Dashboard!Running, Dashboard!Asking
<1>7. Dashboard!BatchLockAccounted'
  BY <1>1, <1>2, DashboardValues
  DEF DashboardInv, FreshInv, Dashboard!BatchLockAccounted,
      Dashboard!Idle, Dashboard!NoKey, DashStates, DashJobs, DashKeys, DashHistories,
      Dashboard!Selectable, Dashboard!Running, Dashboard!Asking
<1> QED
  BY <1>4, <1>5, <1>6, <1>7 DEF DashboardInv

\* Switching to the policy of the task may fail, or be held.
LEMMA DaSetProxy ==
    ASSUME DashboardInv, Dashboard!SetProxy,
           UNCHANGED <<batch, key>>
    PROVE  DashboardInv'
<1>1. requested' \in BOOLEAN /\ job.at = "proxy"
  BY DashboardTypes DEF Dashboard!SetProxy
<1>2. CASE Dashboard!Fail
  BY <1>1, <1>2, DaFail
<1>3. CASE Dashboard!Goto("blocked") /\ UNCHANGED <<state, history>>
  BY <1>1, <1>3, DaBlocked DEF Dashboard!Goto
<1>4. CASE /\ job' = [job EXCEPT !.at = "robot", !.policy = state.curr_task]
           /\ UNCHANGED <<state, history>>
  BY <1>1, <1>4, DaSwitched
<1> QED
  BY <1>2, <1>3, <1>4 DEF Dashboard!SetProxy

\* The robot is brought into place, or that fails.
LEMMA DaSetRobot ==
    ASSUME DashboardInv, Dashboard!SetRobot,
           UNCHANGED <<batch, key, requested>>
    PROVE  DashboardInv'
<1>1. /\ batch \in Dashboard!Batches /\ state \in DashStates /\ job \in DashJobs
      /\ key \in DashKeys /\ requested \in BOOLEAN
      /\ history \in DashHistories
  BY DashboardTypes
<1>2. UNCHANGED <<key, requested, batch>>
  BY DEF Dashboard!SetRobot, Dashboard!Goto, Dashboard!Fail
<1>3. state' \in DashStates
  BY <1>1, DashboardValues
  DEF Dashboard!SetRobot, Dashboard!Goto, Dashboard!Fail, DashStates, Dashboard!Selectable, Dashboard!Running, Dashboard!Asking,
      Dashboard!Answers, Dashboard!NoTask
<1>4. job' \in DashJobs
  BY <1>1, DashboardValues
  DEF Dashboard!SetRobot, Dashboard!Goto, Dashboard!Fail, DashJobs, Dashboard!Selectable, Dashboard!Running, Dashboard!Asking,
      Dashboard!Answers, Dashboard!NoTask, DashStates
<1>5. history' \in DashHistories
  BY <1>1, DashboardValues
  DEF Dashboard!SetRobot, Dashboard!Goto, Dashboard!Fail, DashHistories, Dashboard!Selectable, Dashboard!Running, Dashboard!Asking,
      Dashboard!Answers, Dashboard!NoTask, DashStates
<1>6. Dashboard!TypeOK' /\ key' \in DashKeys
  BY <1>1, <1>2, <1>3, <1>4, <1>5, DashboardTypesNext
<1>7. StatusInv'
  BY <1>1, <1>2, DashboardValues
  DEF Dashboard!SetRobot, Dashboard!Goto, Dashboard!Fail, DashboardInv, StatusInv, Dashboard!AbortHonoured,
      Dashboard!Idle, Dashboard!NoKey, DashStates, DashJobs, DashKeys, DashHistories,
      Dashboard!Selectable, Dashboard!Running, Dashboard!Asking
<1>8. FreshInv'
  BY <1>1, <1>2, DashboardValues
  DEF Dashboard!SetRobot, Dashboard!Goto, Dashboard!Fail, DashboardInv, FreshInv, StatusInv, Bound, Cleared,
      Dashboard!Idle, Dashboard!NoKey, DashStates, DashJobs, DashKeys, DashHistories,
      Dashboard!Selectable, Dashboard!Running, Dashboard!Asking
<1>9. Dashboard!BatchLockAccounted'
  BY <1>1, <1>2, DashboardValues
  DEF Dashboard!SetRobot, Dashboard!Goto, Dashboard!Fail, DashboardInv, FreshInv, Dashboard!BatchLockAccounted,
      Dashboard!Idle, Dashboard!NoKey, DashStates, DashJobs, DashKeys, DashHistories,
      Dashboard!Selectable, Dashboard!Running, Dashboard!Asking
<1> QED
  BY <1>6, <1>7, <1>8, <1>9 DEF DashboardInv

\* A task of a batch is started without a question.
LEMMA DaExecuteBatch ==
    ASSUME DashboardInv, job.at = "execute",
           job' = [job EXCEPT !.at = "started", !.task = state.curr_task],
           UNCHANGED <<state, key, history, requested, batch>>
    PROVE  DashboardInv'
<1>1. /\ batch \in Dashboard!Batches /\ state \in DashStates /\ job \in DashJobs
      /\ key \in DashKeys /\ requested \in BOOLEAN
      /\ history \in DashHistories
  BY DashboardTypes
<1>2. UNCHANGED <<state, key, history, requested, batch>>
  OBVIOUS
<1>3. job' \in DashJobs
  BY <1>1, DashboardValues
  DEF DashJobs, Dashboard!Selectable, Dashboard!Running, Dashboard!Asking,
      Dashboard!Answers, Dashboard!NoTask, DashStates
<1>4. Dashboard!TypeOK' /\ key' \in DashKeys
  BY <1>1, <1>2, <1>3, DashboardTypesNext
<1>5. StatusInv'
  BY <1>1, <1>2, DashboardValues
  DEF DashboardInv, StatusInv, Dashboard!AbortHonoured,
      Dashboard!Idle, Dashboard!NoKey, DashStates, DashJobs, DashKeys, DashHistories,
      Dashboard!Selectable, Dashboard!Running, Dashboard!Asking
<1>6. FreshInv'
  BY <1>1, <1>2, DashboardValues
  DEF DashboardInv, FreshInv, StatusInv, Bound, Cleared,
      Dashboard!Idle, Dashboard!NoKey, DashStates, DashJobs, DashKeys, DashHistories,
      Dashboard!Selectable, Dashboard!Running, Dashboard!Asking
<1>7. Dashboard!BatchLockAccounted'
  BY <1>1, <1>2, DashboardValues
  DEF DashboardInv, FreshInv, Dashboard!BatchLockAccounted,
      Dashboard!Idle, Dashboard!NoKey, DashStates, DashJobs, DashKeys, DashHistories,
      Dashboard!Selectable, Dashboard!Running, Dashboard!Asking
<1> QED
  BY <1>4, <1>5, <1>6, <1>7 DEF DashboardInv

\* A task the operator chose is asked about, one of a batch started.
LEMMA DaExecute ==
    ASSUME DashboardInv, Dashboard!Execute,
           UNCHANGED <<batch, key, requested>>
    PROVE  DashboardInv'
<1>1. CASE state.curr_task = Dashboard!NoTask
  <2>1. requested' \in BOOLEAN
    BY DashboardTypes
  <2> QED
    BY <1>1, <2>1, DaFail DEF Dashboard!Execute
<1>2. CASE state.curr_task # Dashboard!NoTask /\ state.batch_index < 0
  BY <1>2, DaAskStart DEF Dashboard!Execute
<1>3. CASE state.curr_task # Dashboard!NoTask /\ ~(state.batch_index < 0)
  BY <1>3, DaExecuteBatch DEF Dashboard!Execute
<1> QED
  BY <1>1, <1>2, <1>3

\* A first attempt goes on.
LEMMA DaStartedReset ==
    ASSUME DashboardInv, job.at = "started",
           Dashboard!Goto("reset"),
           UNCHANGED <<state, key, history, requested, batch>>
    PROVE  DashboardInv'
<1>1. /\ batch \in Dashboard!Batches /\ state \in DashStates /\ job \in DashJobs
      /\ key \in DashKeys /\ requested \in BOOLEAN
      /\ history \in DashHistories
  BY DashboardTypes
<1>2. UNCHANGED <<state, key, history, requested, batch>>
  BY DEF Dashboard!Goto
<1>3. job' \in DashJobs
  BY <1>1, DashboardValues
  DEF Dashboard!Goto, DashJobs, Dashboard!Selectable, Dashboard!Running, Dashboard!Asking,
      Dashboard!Answers, Dashboard!NoTask, DashStates
<1>4. Dashboard!TypeOK' /\ key' \in DashKeys
  BY <1>1, <1>2, <1>3, DashboardTypesNext
<1>5. StatusInv'
  BY <1>1, <1>2, DashboardValues
  DEF Dashboard!Goto, DashboardInv, StatusInv, Dashboard!AbortHonoured,
      Dashboard!Idle, Dashboard!NoKey, DashStates, DashJobs, DashKeys, DashHistories,
      Dashboard!Selectable, Dashboard!Running, Dashboard!Asking
<1>6. FreshInv'
  BY <1>1, <1>2, DashboardValues
  DEF Dashboard!Goto, DashboardInv, FreshInv, StatusInv, Bound, Cleared,
      Dashboard!Idle, Dashboard!NoKey, DashStates, DashJobs, DashKeys, DashHistories,
      Dashboard!Selectable, Dashboard!Running, Dashboard!Asking
<1>7. Dashboard!BatchLockAccounted'
  BY <1>1, <1>2, DashboardValues
  DEF Dashboard!Goto, DashboardInv, FreshInv, Dashboard!BatchLockAccounted,
      Dashboard!Idle, Dashboard!NoKey, DashStates, DashJobs, DashKeys, DashHistories,
      Dashboard!Selectable, Dashboard!Running, Dashboard!Asking
<1> QED
  BY <1>4, <1>5, <1>6, <1>7 DEF DashboardInv

\* A retry is asked about.
LEMMA DaStarted ==
    ASSUME DashboardInv, Dashboard!Started,
           UNCHANGED <<batch, key, requested>>
    PROVE  DashboardInv'
<1>1. CASE state.retry
  BY <1>1, DaAskRetry DEF Dashboard!Started
<1>2. CASE ~state.retry
  BY <1>2, DaStartedReset DEF Dashboard!Started
<1> QED
  BY <1>1, <1>2

\* Yes: the task is repeated.
LEMMA DaAnswerAgain ==
    ASSUME DashboardInv, job.at = "asking",
           job.question.kind = "again",
           job' = Dashboard!Idle,
           state' = [state EXCEPT !.status = "selecting", !.answered = Dashboard!NoQuestion,
                                  !.retry = TRUE],
           UNCHANGED <<key, history, requested, batch>>
    PROVE  DashboardInv'
<1>1. /\ batch \in Dashboard!Batches /\ state \in DashStates /\ job \in DashJobs
      /\ key \in DashKeys /\ requested \in BOOLEAN
      /\ history \in DashHistories
  BY DashboardTypes
<1>2. UNCHANGED <<key, history, requested, batch>>
  OBVIOUS
<1>3. state' \in DashStates
  <2>1. /\ job.old \in Dashboard!Selectable \cup Dashboard!Running \cup {Dashboard!Asking}
        /\ Dashboard!NoQuestion \in Dashboard!Questions
        /\ "selecting" \in Dashboard!Selectable /\ state.answered \in Dashboard!Questions
    BY <1>1, DashboardValues DEF DashStates, DashJobs, Dashboard!Selectable
  <2> QED
    BY <1>1, <2>1, DashboardValues DEF DashStates
<1>4. job' \in DashJobs
  <2>1. /\ job.old \in Dashboard!Selectable \cup Dashboard!Running \cup {Dashboard!Asking}
        /\ Dashboard!NoQuestion \in Dashboard!Questions
        /\ "selecting" \in Dashboard!Selectable /\ state.answered \in Dashboard!Questions
    BY <1>1, DashboardValues DEF DashStates, DashJobs, Dashboard!Selectable
  <2> QED
    BY <1>1, <2>1, DashboardValues DEF DashJobs
<1>5. Dashboard!TypeOK' /\ key' \in DashKeys
  BY <1>1, <1>2, <1>3, <1>4, DashboardTypesNext
<1>6. StatusInv'
  BY <1>1, <1>2, DashboardValues
  DEF DashboardInv, StatusInv, Dashboard!AbortHonoured,
      Dashboard!Idle, Dashboard!NoKey, DashStates, DashJobs, DashKeys, DashHistories,
      Dashboard!Selectable, Dashboard!Running, Dashboard!Asking
<1>7. FreshInv'
  BY <1>1, <1>2, DashboardValues
  DEF DashboardInv, FreshInv, StatusInv, Bound, Cleared,
      Dashboard!Idle, Dashboard!NoKey, DashStates, DashJobs, DashKeys, DashHistories,
      Dashboard!Selectable, Dashboard!Running, Dashboard!Asking
<1>8. Dashboard!BatchLockAccounted'
  BY <1>1, <1>2, DashboardValues
  DEF DashboardInv, FreshInv, Dashboard!BatchLockAccounted,
      Dashboard!Idle, Dashboard!NoKey, DashStates, DashJobs, DashKeys, DashHistories,
      Dashboard!Selectable, Dashboard!Running, Dashboard!Asking
<1> QED
  BY <1>5, <1>6, <1>7, <1>8 DEF DashboardInv

\* No: the batch goes on without it.
LEMMA DaAnswerNext ==
    ASSUME DashboardInv, job.at = "asking",
           job.question.kind = "again",
           job' = [job EXCEPT !.at = "advance", !.question = Dashboard!NoQuestion,
                              !.old = "selecting"],
           state' = [state EXCEPT !.status = job.old, !.answered = Dashboard!NoQuestion],
           UNCHANGED <<key, history, requested, batch>>
    PROVE  DashboardInv'
<1>1. /\ batch \in Dashboard!Batches /\ state \in DashStates /\ job \in DashJobs
      /\ key \in DashKeys /\ requested \in BOOLEAN
      /\ history \in DashHistories
  BY DashboardTypes
<1>2. UNCHANGED <<key, history, requested, batch>>
  OBVIOUS
<1>3. state' \in DashStates
  <2>1. /\ job.old \in Dashboard!Selectable \cup Dashboard!Running \cup {Dashboard!Asking}
        /\ Dashboard!NoQuestion \in Dashboard!Questions
        /\ "selecting" \in Dashboard!Selectable /\ state.answered \in Dashboard!Questions
    BY <1>1, DashboardValues DEF DashStates, DashJobs, Dashboard!Selectable
  <2> QED
    BY <1>1, <2>1, DashboardValues DEF DashStates
<1>4. job' \in DashJobs
  <2>1. /\ job.old \in Dashboard!Selectable \cup Dashboard!Running \cup {Dashboard!Asking}
        /\ Dashboard!NoQuestion \in Dashboard!Questions
        /\ "selecting" \in Dashboard!Selectable /\ state.answered \in Dashboard!Questions
    BY <1>1, DashboardValues DEF DashStates, DashJobs, Dashboard!Selectable
  <2> QED
    BY <1>1, <2>1, DashboardValues DEF DashJobs
<1>5. Dashboard!TypeOK' /\ key' \in DashKeys
  BY <1>1, <1>2, <1>3, <1>4, DashboardTypesNext
<1>6. StatusInv'
  BY <1>1, <1>2, DashboardValues
  DEF DashboardInv, StatusInv, Dashboard!AbortHonoured,
      Dashboard!Idle, Dashboard!NoKey, DashStates, DashJobs, DashKeys, DashHistories,
      Dashboard!Selectable, Dashboard!Running, Dashboard!Asking
<1>7. FreshInv'
  BY <1>1, <1>2, DashboardValues
  DEF DashboardInv, FreshInv, StatusInv, Bound, Cleared,
      Dashboard!Idle, Dashboard!NoKey, DashStates, DashJobs, DashKeys, DashHistories,
      Dashboard!Selectable, Dashboard!Running, Dashboard!Asking
<1>8. Dashboard!BatchLockAccounted'
  BY <1>1, <1>2, DashboardValues
  DEF DashboardInv, FreshInv, Dashboard!BatchLockAccounted,
      Dashboard!Idle, Dashboard!NoKey, DashStates, DashJobs, DashKeys, DashHistories,
      Dashboard!Selectable, Dashboard!Running, Dashboard!Asking
<1> QED
  BY <1>5, <1>6, <1>7, <1>8 DEF DashboardInv

\* No, or the end of the program: the task is not started.
LEMMA DaAnswerNo ==
    ASSUME DashboardInv, job.at = "asking",
           job' = [job EXCEPT !.at = "finished", !.question = Dashboard!NoQuestion,
                              !.old = "selecting"],
           state' = [state EXCEPT !.status = "selecting", !.curr_task = Dashboard!NoTask,
                                  !.answered = Dashboard!NoQuestion],
           UNCHANGED <<key, history, requested, batch>>
    PROVE  DashboardInv'
<1>1. /\ batch \in Dashboard!Batches /\ state \in DashStates /\ job \in DashJobs
      /\ key \in DashKeys /\ requested \in BOOLEAN
      /\ history \in DashHistories
  BY DashboardTypes
<1>2. UNCHANGED <<key, history, requested, batch>>
  OBVIOUS
<1>3. state' \in DashStates
  <2>1. /\ job.old \in Dashboard!Selectable \cup Dashboard!Running \cup {Dashboard!Asking}
        /\ Dashboard!NoQuestion \in Dashboard!Questions
        /\ "selecting" \in Dashboard!Selectable /\ state.answered \in Dashboard!Questions
    BY <1>1, DashboardValues DEF DashStates, DashJobs, Dashboard!Selectable
  <2> QED
    BY <1>1, <2>1, DashboardValues DEF DashStates
<1>4. job' \in DashJobs
  <2>1. /\ job.old \in Dashboard!Selectable \cup Dashboard!Running \cup {Dashboard!Asking}
        /\ Dashboard!NoQuestion \in Dashboard!Questions
        /\ "selecting" \in Dashboard!Selectable /\ state.answered \in Dashboard!Questions
    BY <1>1, DashboardValues DEF DashStates, DashJobs, Dashboard!Selectable
  <2> QED
    BY <1>1, <2>1, DashboardValues DEF DashJobs
<1>5. Dashboard!TypeOK' /\ key' \in DashKeys
  BY <1>1, <1>2, <1>3, <1>4, DashboardTypesNext
<1>6. StatusInv'
  BY <1>1, <1>2, DashboardValues
  DEF DashboardInv, StatusInv, Dashboard!AbortHonoured,
      Dashboard!Idle, Dashboard!NoKey, DashStates, DashJobs, DashKeys, DashHistories,
      Dashboard!Selectable, Dashboard!Running, Dashboard!Asking
<1>7. FreshInv'
  BY <1>1, <1>2, DashboardValues
  DEF DashboardInv, FreshInv, StatusInv, Bound, Cleared,
      Dashboard!Idle, Dashboard!NoKey, DashStates, DashJobs, DashKeys, DashHistories,
      Dashboard!Selectable, Dashboard!Running, Dashboard!Asking
<1>8. Dashboard!BatchLockAccounted'
  BY <1>1, <1>2, DashboardValues
  DEF DashboardInv, FreshInv, Dashboard!BatchLockAccounted,
      Dashboard!Idle, Dashboard!NoKey, DashStates, DashJobs, DashKeys, DashHistories,
      Dashboard!Selectable, Dashboard!Running, Dashboard!Asking
<1> QED
  BY <1>5, <1>6, <1>7, <1>8 DEF DashboardInv

\* Yes: the task is started.
LEMMA DaAnswerYes ==
    ASSUME DashboardInv, NEW at \in {"started", "reset"},
           NEW retry \in BOOLEAN,
           job.at = "asking",
           job.question.kind \notin {"again", "none"},
           state.confirm_result = "yes",
           job' = [job EXCEPT !.at = at, !.question = Dashboard!NoQuestion,
                              !.old = "selecting", !.confirmed = state.answered],
           state' = [state EXCEPT !.status = job.old, !.retry = retry,
                                  !.answered = Dashboard!NoQuestion],
           UNCHANGED <<key, history, requested, batch>>
    PROVE  DashboardInv'
<1>1. /\ batch \in Dashboard!Batches /\ state \in DashStates /\ job \in DashJobs
      /\ key \in DashKeys /\ requested \in BOOLEAN
      /\ history \in DashHistories
  BY DashboardTypes
<1>2. UNCHANGED <<key, history, requested, batch>>
  OBVIOUS
<1>3. state' \in DashStates
  <2>1. /\ job.old \in Dashboard!Selectable \cup Dashboard!Running \cup {Dashboard!Asking}
        /\ Dashboard!NoQuestion \in Dashboard!Questions
        /\ "selecting" \in Dashboard!Selectable /\ state.answered \in Dashboard!Questions
    BY <1>1, DashboardValues DEF DashStates, DashJobs, Dashboard!Selectable
  <2> QED
    BY <1>1, <2>1, DashboardValues DEF DashStates
<1>4. job' \in DashJobs
  <2>1. /\ job.old \in Dashboard!Selectable \cup Dashboard!Running \cup {Dashboard!Asking}
        /\ Dashboard!NoQuestion \in Dashboard!Questions
        /\ "selecting" \in Dashboard!Selectable /\ state.answered \in Dashboard!Questions
    BY <1>1, DashboardValues DEF DashStates, DashJobs, Dashboard!Selectable
  <2> QED
    BY <1>1, <2>1, DashboardValues DEF DashJobs
<1>5. Dashboard!TypeOK' /\ key' \in DashKeys
  BY <1>1, <1>2, <1>3, <1>4, DashboardTypesNext
<1>6. StatusInv'
  BY <1>1, <1>2, DashboardValues
  DEF DashboardInv, StatusInv, Dashboard!AbortHonoured,
      Dashboard!Idle, Dashboard!NoKey, DashStates, DashJobs, DashKeys, DashHistories,
      Dashboard!Selectable, Dashboard!Running, Dashboard!Asking
<1>7. FreshInv'
  <2>1. job.question.kind \in {"start", "retry"}
    BY <1>1 DEF DashJobs, Dashboard!Questions
  <2>2. /\ job'.at \in {"started", "reset"} /\ job'.task = job.task
        /\ job'.policy = job.policy /\ job'.confirmed = state.answered
        /\ state'.status = job.old
    BY <1>1 DEF DashJobs, DashStates
  <2>3. ASSUME ~history.lagging
        PROVE  /\ job.old \in Dashboard!Running /\ job.policy = job.task
               /\ state.answered = job.question /\ job.question.task = job.task
    BY <2>1, <2>3 DEF DashboardInv, FreshInv, StatusInv, Bound
  <2> QED
    BY <1>2, <2>1, <2>2, <2>3 DEF FreshInv
<1>8. Dashboard!BatchLockAccounted'
  BY <1>1, <1>2, DashboardValues
  DEF DashboardInv, FreshInv, Dashboard!BatchLockAccounted,
      Dashboard!Idle, Dashboard!NoKey, DashStates, DashJobs, DashKeys, DashHistories,
      Dashboard!Selectable, Dashboard!Running, Dashboard!Asking
<1> QED
  BY <1>5, <1>6, <1>7, <1>8 DEF DashboardInv

\* The answer, or No once the program ends.
LEMMA DaAnswered ==
    ASSUME DashboardInv, Dashboard!Answered,
           UNCHANGED <<batch, key, requested>>
    PROVE  DashboardInv'
<1>0. state \in DashStates /\ job \in DashJobs /\ job.at = "asking"
  BY DashboardTypes DEF Dashboard!Answered
<1>1. \/ /\ job.question.kind = "again" /\ state.confirm_result = "yes"
         /\ job' = Dashboard!Idle
         /\ state' = [state EXCEPT !.status = "selecting", !.answered = Dashboard!NoQuestion,
                                  !.retry = TRUE]
      \/ /\ job.question.kind = "again" /\ state.confirm_result # "yes"
         /\ job' = [job EXCEPT !.at = "advance", !.question = Dashboard!NoQuestion,
                              !.old = "selecting"]
         /\ state' = [state EXCEPT !.status = job.old, !.answered = Dashboard!NoQuestion]
      \/ /\ job.question.kind # "again" /\ state.confirm_result # "yes"
         /\ job' = [job EXCEPT !.at = "finished", !.question = Dashboard!NoQuestion,
                              !.old = "selecting"]
         /\ state' = [state EXCEPT !.status = "selecting", !.curr_task = Dashboard!NoTask,
                                  !.answered = Dashboard!NoQuestion]
      \/ /\ job.question.kind \notin {"again", "none"} /\ state.confirm_result = "yes"
         /\ \E at \in {"started", "reset"} :
              job' = [job EXCEPT !.at = at, !.question = Dashboard!NoQuestion,
                                 !.old = "selecting", !.confirmed = state.answered]
         /\ \E retry \in BOOLEAN :
              state' = [state EXCEPT !.status = job.old, !.retry = retry,
                                     !.answered = Dashboard!NoQuestion]
  <2> DEFINE yes == state.confirm_result = "yes"
             confirmed == IF yes THEN state.answered ELSE job.confirmed
             next == IF job.question.kind = "again" THEN (IF yes THEN "idle" ELSE "advance")
                     ELSE IF ~yes THEN "finished"
                     ELSE IF job.question.kind = "start" THEN "started" ELSE "reset"
  <2>1. /\ state' = [state EXCEPT
               !.status = IF next \in {"idle", "finished"} THEN "selecting" ELSE job.old,
               !.curr_task = IF next = "finished" THEN Dashboard!NoTask ELSE @,
               !.answered = Dashboard!NoQuestion,
               !.retry = IF next = "idle" THEN TRUE ELSE IF next = "reset" THEN FALSE ELSE @]
        /\ job' = IF next = "idle" THEN Dashboard!Idle
                  ELSE [job EXCEPT !.at = next, !.confirmed = confirmed,
                                   !.question = Dashboard!NoQuestion, !.old = "selecting"]
    BY DEF Dashboard!Answered
  <2>2. job.question.kind # "none"
    BY DEF Dashboard!Answered, DashboardInv, StatusInv
  <2>3. CASE job.question.kind = "again" /\ yes
    BY <1>0, <2>1, <2>3 DEF DashStates
  <2>4. CASE job.question.kind = "again" /\ ~yes
    BY <1>0, <2>1, <2>4 DEF DashStates, DashJobs
  <2>5. CASE job.question.kind # "again" /\ ~yes
    BY <1>0, <2>1, <2>5 DEF DashStates, DashJobs
  <2>6. CASE job.question.kind = "start" /\ yes
    <3>1. /\ job' = [job EXCEPT !.at = "started", !.question = Dashboard!NoQuestion,
                                !.old = "selecting", !.confirmed = state.answered]
          /\ state' = [state EXCEPT !.status = job.old, !.retry = state.retry,
                                    !.answered = Dashboard!NoQuestion]
      BY <1>0, <2>1, <2>6 DEF DashStates, DashJobs
    <3>2. state.retry \in BOOLEAN
      BY <1>0 DEF DashStates
    <3> QED
      BY <2>6, <3>1, <3>2
  <2>7. CASE job.question.kind \notin {"again", "start", "none"} /\ yes
    <3>1. /\ job' = [job EXCEPT !.at = "reset", !.question = Dashboard!NoQuestion,
                                !.old = "selecting", !.confirmed = state.answered]
          /\ state' = [state EXCEPT !.status = job.old, !.retry = FALSE,
                                    !.answered = Dashboard!NoQuestion]
      BY <1>0, <2>1, <2>7 DEF DashStates, DashJobs
    <3> QED
      BY <2>7, <3>1
  <2> QED
    BY <2>2, <2>3, <2>4, <2>5, <2>6, <2>7
<1>2. UNCHANGED <<batch, key, requested, history>>
  BY DEF Dashboard!Answered
<1> QED
  BY <1>0, <1>1, <1>2, DaAnswerAgain, DaAnswerNext, DaAnswerNo, DaAnswerYes

\* The flags are cleared.
LEMMA DaReset ==
    ASSUME DashboardInv, Dashboard!Reset,
           UNCHANGED <<batch, key, requested>>
    PROVE  DashboardInv'
<1>1. /\ batch \in Dashboard!Batches /\ state \in DashStates /\ job \in DashJobs
      /\ key \in DashKeys /\ requested \in BOOLEAN
      /\ history \in DashHistories
  BY DashboardTypes
<1>2. UNCHANGED <<key, requested, batch>>
  BY DEF Dashboard!Reset, Dashboard!Goto, Dashboard!Fail
<1>3. state' \in DashStates
  BY <1>1, DashboardValues
  DEF Dashboard!Reset, Dashboard!Goto, Dashboard!Fail, DashStates, Dashboard!Selectable, Dashboard!Running, Dashboard!Asking,
      Dashboard!Answers, Dashboard!NoTask
<1>4. job' \in DashJobs
  BY <1>1, DashboardValues
  DEF Dashboard!Reset, Dashboard!Goto, Dashboard!Fail, DashJobs, Dashboard!Selectable, Dashboard!Running, Dashboard!Asking,
      Dashboard!Answers, Dashboard!NoTask, DashStates
<1>5. history' \in DashHistories
  BY <1>1, DashboardValues
  DEF Dashboard!Reset, Dashboard!Goto, Dashboard!Fail, DashHistories, Dashboard!Selectable, Dashboard!Running, Dashboard!Asking,
      Dashboard!Answers, Dashboard!NoTask, DashStates
<1>6. Dashboard!TypeOK' /\ key' \in DashKeys
  BY <1>1, <1>2, <1>3, <1>4, <1>5, DashboardTypesNext
<1>7. StatusInv'
  BY <1>1, <1>2, DashboardValues
  DEF Dashboard!Reset, Dashboard!Goto, Dashboard!Fail, DashboardInv, StatusInv, Dashboard!AbortHonoured,
      Dashboard!Idle, Dashboard!NoKey, DashStates, DashJobs, DashKeys, DashHistories,
      Dashboard!Selectable, Dashboard!Running, Dashboard!Asking
<1>8. FreshInv'
  BY <1>1, <1>2, DashboardValues
  DEF Dashboard!Reset, Dashboard!Goto, Dashboard!Fail, DashboardInv, FreshInv, StatusInv, Bound, Cleared,
      Dashboard!Idle, Dashboard!NoKey, DashStates, DashJobs, DashKeys, DashHistories,
      Dashboard!Selectable, Dashboard!Running, Dashboard!Asking
<1>9. Dashboard!BatchLockAccounted'
  BY <1>1, <1>2, DashboardValues
  DEF Dashboard!Reset, Dashboard!Goto, Dashboard!Fail, DashboardInv, FreshInv, Dashboard!BatchLockAccounted,
      Dashboard!Idle, Dashboard!NoKey, DashStates, DashJobs, DashKeys, DashHistories,
      Dashboard!Selectable, Dashboard!Running, Dashboard!Asking
<1> QED
  BY <1>6, <1>7, <1>8, <1>9 DEF DashboardInv

\* An iteration begins, or the task ends.
LEMMA DaLoop ==
    ASSUME DashboardInv, Dashboard!Loop,
           UNCHANGED <<batch, key, requested>>
    PROVE  DashboardInv'
<1>1. /\ batch \in Dashboard!Batches /\ state \in DashStates /\ job \in DashJobs
      /\ key \in DashKeys /\ requested \in BOOLEAN
      /\ history \in DashHistories
  BY DashboardTypes
<1>2. UNCHANGED <<key, history, requested, batch>>
  BY DEF Dashboard!Loop, Dashboard!Goto, Dashboard!Fail, Dashboard!Ending
<1>3. state' \in DashStates
  BY <1>1, DashboardValues
  DEF Dashboard!Loop, Dashboard!Goto, Dashboard!Fail, Dashboard!Ending, DashStates, Dashboard!Selectable, Dashboard!Running, Dashboard!Asking,
      Dashboard!Answers, Dashboard!NoTask
<1>4. job' \in DashJobs
  BY <1>1, DashboardValues
  DEF Dashboard!Loop, Dashboard!Goto, Dashboard!Fail, Dashboard!Ending, DashJobs, Dashboard!Selectable, Dashboard!Running, Dashboard!Asking,
      Dashboard!Answers, Dashboard!NoTask, DashStates
<1>5. Dashboard!TypeOK' /\ key' \in DashKeys
  BY <1>1, <1>2, <1>3, <1>4, DashboardTypesNext
<1>6. StatusInv'
  BY <1>1, <1>2, DashboardValues
  DEF Dashboard!Loop, Dashboard!Goto, Dashboard!Fail, Dashboard!Ending, DashboardInv, StatusInv, Dashboard!AbortHonoured,
      Dashboard!Idle, Dashboard!NoKey, DashStates, DashJobs, DashKeys, DashHistories,
      Dashboard!Selectable, Dashboard!Running, Dashboard!Asking
<1>7. FreshInv'
  BY <1>1, <1>2, DashboardValues
  DEF Dashboard!Loop, Dashboard!Goto, Dashboard!Fail, Dashboard!Ending, DashboardInv, FreshInv, StatusInv, Bound, Cleared,
      Dashboard!Idle, Dashboard!NoKey, DashStates, DashJobs, DashKeys, DashHistories,
      Dashboard!Selectable, Dashboard!Running, Dashboard!Asking
<1>8. Dashboard!BatchLockAccounted'
  BY <1>1, <1>2, DashboardValues
  DEF Dashboard!Loop, Dashboard!Goto, Dashboard!Fail, Dashboard!Ending, DashboardInv, FreshInv, Dashboard!BatchLockAccounted,
      Dashboard!Idle, Dashboard!NoKey, DashStates, DashJobs, DashKeys, DashHistories,
      Dashboard!Selectable, Dashboard!Running, Dashboard!Asking
<1> QED
  BY <1>5, <1>6, <1>7, <1>8 DEF DashboardInv

\* The rest of an iteration.
LEMMA DaAct ==
    ASSUME DashboardInv, Dashboard!Act,
           UNCHANGED <<batch, key>>
    PROVE  DashboardInv'
<1>1. /\ batch \in Dashboard!Batches /\ state \in DashStates /\ job \in DashJobs
      /\ key \in DashKeys /\ requested \in BOOLEAN
      /\ history \in DashHistories
  BY DashboardTypes
<1>2. UNCHANGED <<key, batch>> /\ requested' \in BOOLEAN
  BY <1>1 DEF Dashboard!Act
<1>3. state' \in DashStates
  BY <1>1, DashboardValues
  DEF Dashboard!Act, Dashboard!Goto, Dashboard!Fail, Dashboard!Ending, DashStates, Dashboard!Selectable, Dashboard!Running, Dashboard!Asking,
      Dashboard!Answers, Dashboard!NoTask
<1>4. job' \in DashJobs
  BY <1>1, DashboardValues
  DEF Dashboard!Act, Dashboard!Goto, Dashboard!Fail, Dashboard!Ending, DashJobs, Dashboard!Selectable, Dashboard!Running, Dashboard!Asking,
      Dashboard!Answers, Dashboard!NoTask, DashStates
<1>5. history' \in DashHistories
  BY <1>1, DashboardValues
  DEF Dashboard!Act, Dashboard!Goto, Dashboard!Fail, Dashboard!Ending, DashHistories, Dashboard!Selectable, Dashboard!Running, Dashboard!Asking,
      Dashboard!Answers, Dashboard!NoTask, DashStates
<1>6. Dashboard!TypeOK' /\ key' \in DashKeys
  BY <1>1, <1>2, <1>3, <1>4, <1>5, DashboardTypesNext
<1>7. StatusInv'
  BY <1>1, <1>2, DashboardValues
  DEF Dashboard!Act, Dashboard!Goto, Dashboard!Fail, Dashboard!Ending, DashboardInv, StatusInv, Dashboard!AbortHonoured,
      Dashboard!Idle, Dashboard!NoKey, DashStates, DashJobs, DashKeys, DashHistories,
      Dashboard!Selectable, Dashboard!Running, Dashboard!Asking
<1>8. FreshInv'
  BY <1>1, <1>2, DashboardValues
  DEF Dashboard!Act, Dashboard!Goto, Dashboard!Fail, Dashboard!Ending, DashboardInv, FreshInv, StatusInv, Bound, Cleared,
      Dashboard!Idle, Dashboard!NoKey, DashStates, DashJobs, DashKeys, DashHistories,
      Dashboard!Selectable, Dashboard!Running, Dashboard!Asking
<1>9. Dashboard!BatchLockAccounted'
  BY <1>1, <1>2, DashboardValues
  DEF Dashboard!Act, Dashboard!Goto, Dashboard!Fail, Dashboard!Ending, DashboardInv, FreshInv, Dashboard!BatchLockAccounted,
      Dashboard!Idle, Dashboard!NoKey, DashStates, DashJobs, DashKeys, DashHistories,
      Dashboard!Selectable, Dashboard!Running, Dashboard!Asking
<1> QED
  BY <1>6, <1>7, <1>8, <1>9 DEF DashboardInv

\* The main loop is idle again,
LEMMA DaFinishedIdle ==
    ASSUME DashboardInv, job.at = "finished",
           state.batch_index < 0,
           job' = Dashboard!Idle,
           UNCHANGED <<state, key, history, requested, batch>>
    PROVE  DashboardInv'
<1>1. /\ batch \in Dashboard!Batches /\ state \in DashStates /\ job \in DashJobs
      /\ key \in DashKeys /\ requested \in BOOLEAN
      /\ history \in DashHistories
  BY DashboardTypes
<1>2. UNCHANGED <<state, key, history, requested, batch>>
  OBVIOUS
<1>3. job' \in DashJobs
  BY <1>1, DashboardValues
  DEF DashJobs, Dashboard!Selectable, Dashboard!Running, Dashboard!Asking,
      Dashboard!Answers, Dashboard!NoTask, DashStates
<1>4. Dashboard!TypeOK' /\ key' \in DashKeys
  BY <1>1, <1>2, <1>3, DashboardTypesNext
<1>5. StatusInv'
  BY <1>1, <1>2, DashboardValues
  DEF DashboardInv, StatusInv, Dashboard!AbortHonoured,
      Dashboard!Idle, Dashboard!NoKey, DashStates, DashJobs, DashKeys, DashHistories,
      Dashboard!Selectable, Dashboard!Running, Dashboard!Asking
<1>6. FreshInv'
  BY <1>1, <1>2, DashboardValues
  DEF DashboardInv, FreshInv, StatusInv, Bound, Cleared,
      Dashboard!Idle, Dashboard!NoKey, DashStates, DashJobs, DashKeys, DashHistories,
      Dashboard!Selectable, Dashboard!Running, Dashboard!Asking
<1>7. Dashboard!BatchLockAccounted'
  BY <1>1, <1>2, DashboardValues
  DEF DashboardInv, FreshInv, Dashboard!BatchLockAccounted,
      Dashboard!Idle, Dashboard!NoKey, DashStates, DashJobs, DashKeys, DashHistories,
      Dashboard!Selectable, Dashboard!Running, Dashboard!Asking
<1> QED
  BY <1>4, <1>5, <1>6, <1>7 DEF DashboardInv

\* or goes on with the batch.
LEMMA DaFinishedNext ==
    ASSUME DashboardInv, job.at = "finished",
           Dashboard!Goto("advance"),
           UNCHANGED <<state, key, history, requested, batch>>
    PROVE  DashboardInv'
<1>1. /\ batch \in Dashboard!Batches /\ state \in DashStates /\ job \in DashJobs
      /\ key \in DashKeys /\ requested \in BOOLEAN
      /\ history \in DashHistories
  BY DashboardTypes
<1>2. UNCHANGED <<state, key, history, requested, batch>>
  BY DEF Dashboard!Goto
<1>3. job' \in DashJobs
  BY <1>1, DashboardValues
  DEF Dashboard!Goto, DashJobs, Dashboard!Selectable, Dashboard!Running, Dashboard!Asking,
      Dashboard!Answers, Dashboard!NoTask, DashStates
<1>4. Dashboard!TypeOK' /\ key' \in DashKeys
  BY <1>1, <1>2, <1>3, DashboardTypesNext
<1>5. StatusInv'
  BY <1>1, <1>2, DashboardValues
  DEF Dashboard!Goto, DashboardInv, StatusInv, Dashboard!AbortHonoured,
      Dashboard!Idle, Dashboard!NoKey, DashStates, DashJobs, DashKeys, DashHistories,
      Dashboard!Selectable, Dashboard!Running, Dashboard!Asking
<1>6. FreshInv'
  BY <1>1, <1>2, DashboardValues
  DEF Dashboard!Goto, DashboardInv, FreshInv, StatusInv, Bound, Cleared,
      Dashboard!Idle, Dashboard!NoKey, DashStates, DashJobs, DashKeys, DashHistories,
      Dashboard!Selectable, Dashboard!Running, Dashboard!Asking
<1>7. Dashboard!BatchLockAccounted'
  BY <1>1, <1>2, DashboardValues
  DEF Dashboard!Goto, DashboardInv, FreshInv, Dashboard!BatchLockAccounted,
      Dashboard!Idle, Dashboard!NoKey, DashStates, DashJobs, DashKeys, DashHistories,
      Dashboard!Selectable, Dashboard!Running, Dashboard!Asking
<1> QED
  BY <1>4, <1>5, <1>6, <1>7 DEF DashboardInv

\* The batch goes on, or the rest is left to the operator.
LEMMA DaFinished ==
    ASSUME DashboardInv, Dashboard!Finished,
           UNCHANGED <<batch, key, requested>>
    PROVE  DashboardInv'
<1>1. state.batch_index \in -1 .. 1 /\ job.at = "finished"
  BY DashboardTypes DEF DashStates, Dashboard!Finished
<1>2. CASE state.batch_index < 0
  <2>1. job' = Dashboard!Idle /\ UNCHANGED <<state, history>>
    BY <1>1, <1>2 DEF Dashboard!Finished
  <2> QED
    BY <1>1, <1>2, <2>1, DaFinishedIdle
<1>3. CASE state.batch_index >= 0 /\ state.status = "done"
  <2>1. Dashboard!Goto("advance") /\ UNCHANGED <<state, history>>
    BY <1>1, <1>3 DEF Dashboard!Finished
  <2> QED
    BY <1>1, <2>1, DaFinishedNext
<1>4. CASE state.batch_index >= 0 /\ state.status # "done" /\ state.curr_task # Dashboard!NoTask
  <2>1. Dashboard!Ask("again", state.curr_task) /\ UNCHANGED history
    BY <1>1, <1>4 DEF Dashboard!Finished
  <2> QED
    BY <1>1, <1>4, <2>1, DaAskAgain
<1>5. CASE state.batch_index >= 0 /\ state.status # "done" /\ state.curr_task = Dashboard!NoTask
  <2>1. Dashboard!Fail
    BY <1>1, <1>5 DEF Dashboard!Finished
  <2>2. requested' \in BOOLEAN
    BY DashboardTypes
  <2> QED
    BY <2>1, <2>2, DaFail
<1> QED
  BY <1>1, <1>2, <1>3, <1>4, <1>5

\* The next task of the batch is selected.
LEMMA DaAdvance ==
    ASSUME DashboardInv, Dashboard!Advance,
           UNCHANGED <<batch, key, requested>>
    PROVE  DashboardInv'
<1>1. /\ batch \in Dashboard!Batches /\ state \in DashStates /\ job \in DashJobs
      /\ key \in DashKeys /\ requested \in BOOLEAN
      /\ history \in DashHistories
  BY DashboardTypes
<1>2. UNCHANGED <<key, history, requested, batch>>
  BY DEF Dashboard!Advance, Dashboard!Goto, Dashboard!Fail
<1>3. /\ job.at = "advance" /\ job' = Dashboard!Idle
      /\ \/ \E task \in Dashboard!Tasks, i \in 0 .. 1 :
              state' = [state EXCEPT !.status = "selecting", !.curr_task = task,
                                     !.batch_index = i]
         \/ state' = [state EXCEPT !.status = "selecting", !.curr_task = Dashboard!NoTask,
                                   !.batch_index = -1]
  <2> DEFINE i == state.batch_index + 1
             more == i < Len(batch) /\ batch[i + 1] \in Dashboard!Tasks
  <2>1. job.at = "advance" /\ job' = Dashboard!Idle
        /\ state' = [state EXCEPT !.status = "selecting",
               !.curr_task = IF more THEN batch[i + 1] ELSE Dashboard!NoTask,
               !.batch_index = IF more THEN i ELSE -1]
    BY DEF Dashboard!Advance
  <2>2. Len(batch) \in 0 .. 2
    BY <1>1 DEF Dashboard!Batches
  <2>3. state.batch_index \in -1 .. 1
    BY <1>1 DEF DashStates
  <2>4. more => i \in 0 .. 1
    BY <2>2, <2>3
  <2>5. CASE more
    BY <2>1, <2>4, <2>5
  <2>6. CASE ~more
    BY <2>1, <2>6
  <2> QED
    BY <2>5, <2>6
<1>4. state' \in DashStates
  <2>1. "selecting" \in Dashboard!Selectable
    BY DEF Dashboard!Selectable
  <2>2. ASSUME NEW task \in {Dashboard!NoTask} \cup Dashboard!Tasks, NEW i \in -1 .. 1,
               state' = [state EXCEPT !.status = "selecting", !.curr_task = task,
                                      !.batch_index = i]
        PROVE  state' \in DashStates
    BY <1>1, <2>1, <2>2 DEF DashStates
  <2>3. 0 .. 1 \subseteq -1 .. 1 /\ -1 \in -1 .. 1
    OBVIOUS
  <2> QED
    BY <1>3, <2>2, <2>3
<1>5. job' \in DashJobs
  BY <1>1, DashboardValues
  DEF Dashboard!Advance, Dashboard!Goto, Dashboard!Fail, DashJobs, Dashboard!Selectable, Dashboard!Running, Dashboard!Asking,
      Dashboard!Answers, Dashboard!NoTask, DashStates
<1>6. Dashboard!TypeOK' /\ key' \in DashKeys
  BY <1>1, <1>2, <1>4, <1>5, DashboardTypesNext
<1>7. StatusInv'
  BY <1>1, <1>2, DashboardValues
  DEF Dashboard!Advance, Dashboard!Goto, Dashboard!Fail, DashboardInv, StatusInv, Dashboard!AbortHonoured,
      Dashboard!Idle, Dashboard!NoKey, DashStates, DashJobs, DashKeys, DashHistories,
      Dashboard!Selectable, Dashboard!Running, Dashboard!Asking
<1>8. FreshInv'
  BY <1>1, <1>2, DashboardValues
  DEF Dashboard!Advance, Dashboard!Goto, Dashboard!Fail, DashboardInv, FreshInv, StatusInv, Bound, Cleared,
      Dashboard!Idle, Dashboard!NoKey, DashStates, DashJobs, DashKeys, DashHistories,
      Dashboard!Selectable, Dashboard!Running, Dashboard!Asking
<1>9. Dashboard!BatchLockAccounted'
  <2>1. ASSUME NEW task \in Dashboard!Tasks, NEW i \in 0 .. 1,
               state' = [state EXCEPT !.status = "selecting", !.curr_task = task,
                                      !.batch_index = i]
        PROVE  state'.curr_task # Dashboard!NoTask
    <3>1. task # Dashboard!NoTask
      BY DashboardConstants DEF Dashboard!Tasks, Dashboard!NoTask
    <3>2. state'.curr_task = task
      BY <1>1, <2>1 DEF DashStates
    <3> QED
      BY <3>1, <3>2
  <2>2. ASSUME state' = [state EXCEPT !.status = "selecting",
                                      !.curr_task = Dashboard!NoTask, !.batch_index = -1]
        PROVE  ~(state'.batch_index >= 0)
    <3>1. state'.batch_index = -1
      BY <1>1, <2>2 DEF DashStates
    <3> QED
      BY <3>1
  <2> QED
    BY <1>3, <2>1, <2>2 DEF Dashboard!BatchLockAccounted
<1> QED
  BY <1>6, <1>7, <1>8, <1>9 DEF DashboardInv

\* A key is pressed and its handler looks at the status.
LEMMA DaPressKey ==
    ASSUME DashboardInv, Dashboard!PressKey
    PROVE  DashboardInv'
<1>1. /\ batch \in Dashboard!Batches /\ state \in DashStates /\ job \in DashJobs
      /\ key \in DashKeys /\ requested \in BOOLEAN
      /\ history \in DashHistories
  BY DashboardTypes
<1>2. UNCHANGED <<state, job, history, requested, batch>>
  BY DEF Dashboard!PressKey, Dashboard!Check
<1>3. \E name \in {"digit", "enter", "esc", "yes", "no", "batch", "retry", "pause", "abort",
                   "finish"}, task \in {Dashboard!NoTask} \cup Dashboard!Tasks :
          /\ key' = [name |-> name, task |-> task, question |-> job.question]
          /\ name = "digit" => task # Dashboard!NoTask
          /\ name = "batch" => batch # <<>>
  <2>1. \A task \in Dashboard!Tasks : task # Dashboard!NoTask
    BY DashboardConstants DEF Dashboard!Tasks, Dashboard!NoTask
  <2>2. CASE \E task \in Dashboard!Tasks : Dashboard!Check("digit", task)
    BY <2>1, <2>2 DEF Dashboard!Check
  <2>3. CASE \E name \in {"enter", "esc", "yes", "no", "retry", "pause", "abort", "finish"} :
               Dashboard!Check(name, Dashboard!NoTask)
    BY <2>3 DEF Dashboard!Check
  <2>4. CASE batch # <<>> /\ Dashboard!Check("batch", Dashboard!NoTask)
    BY <2>4 DEF Dashboard!Check
  <2> QED
    BY <2>2, <2>3, <2>4 DEF Dashboard!PressKey
<1>4. key' \in DashKeys
  <2>1. job.question \in Dashboard!Questions
    BY <1>1 DEF DashJobs
  <2> QED
    BY <1>3, <2>1 DEF DashKeys
<1>5. Dashboard!TypeOK' /\ key' \in DashKeys
  BY <1>1, <1>2, <1>4, DashboardTypesNext
<1>6. StatusInv'
  BY <1>2, <1>3 DEF DashboardInv, StatusInv, Dashboard!AbortHonoured
<1>7. FreshInv'
  BY <1>1, <1>2, DashboardValues
  DEF Dashboard!PressKey, Dashboard!Check, DashboardInv, FreshInv, StatusInv, Bound, Cleared,
      Dashboard!Idle, Dashboard!NoKey, DashStates, DashJobs, DashKeys, DashHistories,
      Dashboard!Selectable, Dashboard!Running, Dashboard!Asking
<1>8. Dashboard!BatchLockAccounted'
  BY <1>1, <1>2, DashboardValues
  DEF Dashboard!PressKey, Dashboard!Check, DashboardInv, FreshInv, Dashboard!BatchLockAccounted,
      Dashboard!Idle, Dashboard!NoKey, DashStates, DashJobs, DashKeys, DashHistories,
      Dashboard!Selectable, Dashboard!Running, Dashboard!Asking
<1> QED
  BY <1>5, <1>6, <1>7, <1>8 DEF DashboardInv

\* A handler selects a task,
LEMMA DaSelect ==
    ASSUME DashboardInv, Dashboard!Select,
           UNCHANGED <<batch, job, requested>>
    PROVE  DashboardInv'
<1>1. /\ batch \in Dashboard!Batches /\ state \in DashStates /\ job \in DashJobs
      /\ key \in DashKeys /\ requested \in BOOLEAN
      /\ history \in DashHistories
  BY DashboardTypes
<1>2. UNCHANGED <<job, requested, batch>>
  BY DEF Dashboard!Select, Dashboard!WriteWhen, Dashboard!Stale
<1>3. state' \in DashStates
  <2>1. key.task \in {Dashboard!NoTask} \cup Dashboard!Tasks /\ key.question \in Dashboard!Questions
    BY <1>1 DEF DashKeys
  <2> QED
    BY <1>1, <2>1 DEF Dashboard!Select, Dashboard!WriteWhen, DashStates, Dashboard!Answers
<1>4. key' \in DashKeys
  BY <1>1, DashboardValues
  DEF Dashboard!Select, Dashboard!WriteWhen, Dashboard!Stale, DashKeys, Dashboard!Selectable, Dashboard!Running, Dashboard!Asking,
      Dashboard!Answers, Dashboard!NoTask, DashStates
<1>5. history' \in DashHistories
  BY <1>1, DashboardValues
  DEF Dashboard!Select, Dashboard!WriteWhen, Dashboard!Stale, DashHistories, Dashboard!Selectable, Dashboard!Running, Dashboard!Asking,
      Dashboard!Answers, Dashboard!NoTask, DashStates
<1>6. Dashboard!TypeOK' /\ key' \in DashKeys
  BY <1>1, <1>2, <1>3, <1>4, <1>5, DashboardTypesNext
<1>7. StatusInv'
  BY <1>1, <1>2, DashboardValues
  DEF Dashboard!Select, Dashboard!WriteWhen, Dashboard!Stale, DashboardInv, StatusInv, Dashboard!AbortHonoured,
      Dashboard!Idle, Dashboard!NoKey, DashStates, DashJobs, DashKeys, DashHistories,
      Dashboard!Selectable, Dashboard!Running, Dashboard!Asking
<1>8. FreshInv'
  BY <1>1, <1>2, DashboardValues
  DEF Dashboard!Select, Dashboard!WriteWhen, Dashboard!Stale, DashboardInv, FreshInv, StatusInv, Bound, Cleared,
      Dashboard!Idle, Dashboard!NoKey, DashStates, DashJobs, DashKeys, DashHistories,
      Dashboard!Selectable, Dashboard!Running, Dashboard!Asking
<1>9. Dashboard!BatchLockAccounted'
  <2>1. state'.curr_task # Dashboard!NoTask
    BY <1>1 DEF Dashboard!Select, Dashboard!WriteWhen, DashboardInv, StatusInv, DashStates
  <2> QED
    BY <2>1 DEF Dashboard!BatchLockAccounted
<1> QED
  BY <1>6, <1>7, <1>8, <1>9 DEF DashboardInv

\* and sets the status,
LEMMA DaSelectStatus ==
    ASSUME DashboardInv, Dashboard!SelectStatus,
           UNCHANGED <<batch, job, requested>>
    PROVE  DashboardInv'
<1>1. /\ batch \in Dashboard!Batches /\ state \in DashStates /\ job \in DashJobs
      /\ key \in DashKeys /\ requested \in BOOLEAN
      /\ history \in DashHistories
  BY DashboardTypes
<1>2. UNCHANGED <<job, requested, batch>>
  BY DEF Dashboard!SelectStatus, Dashboard!WriteWhen, Dashboard!Stale
<1>3. state' \in DashStates
  BY <1>1, DashboardValues
  DEF Dashboard!SelectStatus, Dashboard!WriteWhen, Dashboard!Stale, DashStates, Dashboard!Selectable, Dashboard!Running, Dashboard!Asking,
      Dashboard!Answers, Dashboard!NoTask
<1>4. key' \in DashKeys
  BY <1>1, DashboardValues
  DEF Dashboard!SelectStatus, Dashboard!WriteWhen, Dashboard!Stale, DashKeys, Dashboard!Selectable, Dashboard!Running, Dashboard!Asking,
      Dashboard!Answers, Dashboard!NoTask, DashStates
<1>5. history' \in DashHistories
  BY <1>1, DashboardValues
  DEF Dashboard!SelectStatus, Dashboard!WriteWhen, Dashboard!Stale, DashHistories, Dashboard!Selectable, Dashboard!Running, Dashboard!Asking,
      Dashboard!Answers, Dashboard!NoTask, DashStates
<1>6. Dashboard!TypeOK' /\ key' \in DashKeys
  BY <1>1, <1>2, <1>3, <1>4, <1>5, DashboardTypesNext
<1>7. StatusInv'
  BY <1>1, <1>2, DashboardValues
  DEF Dashboard!SelectStatus, Dashboard!WriteWhen, Dashboard!Stale, DashboardInv, StatusInv, Dashboard!AbortHonoured,
      Dashboard!Idle, Dashboard!NoKey, DashStates, DashJobs, DashKeys, DashHistories,
      Dashboard!Selectable, Dashboard!Running, Dashboard!Asking
<1>8. FreshInv'
  BY <1>1, <1>2, DashboardValues
  DEF Dashboard!SelectStatus, Dashboard!WriteWhen, Dashboard!Stale, DashboardInv, FreshInv, StatusInv, Bound, Cleared,
      Dashboard!Idle, Dashboard!NoKey, DashStates, DashJobs, DashKeys, DashHistories,
      Dashboard!Selectable, Dashboard!Running, Dashboard!Asking
<1>9. Dashboard!BatchLockAccounted'
  BY <1>1, <1>2, DashboardValues
  DEF Dashboard!SelectStatus, Dashboard!WriteWhen, Dashboard!Stale, DashboardInv, FreshInv, Dashboard!BatchLockAccounted,
      Dashboard!Idle, Dashboard!NoKey, DashStates, DashJobs, DashKeys, DashHistories,
      Dashboard!Selectable, Dashboard!Running, Dashboard!Asking
<1> QED
  BY <1>6, <1>7, <1>8, <1>9 DEF DashboardInv

\* one tries a task again,
LEMMA DaRetry ==
    ASSUME DashboardInv, Dashboard!Retry,
           UNCHANGED <<batch, job, requested>>
    PROVE  DashboardInv'
<1>1. /\ batch \in Dashboard!Batches /\ state \in DashStates /\ job \in DashJobs
      /\ key \in DashKeys /\ requested \in BOOLEAN
      /\ history \in DashHistories
  BY DashboardTypes
<1>2. UNCHANGED <<job, requested, batch>>
  BY DEF Dashboard!Retry, Dashboard!WriteWhen, Dashboard!Stale
<1>3. state' \in DashStates
  BY <1>1, DashboardValues
  DEF Dashboard!Retry, Dashboard!WriteWhen, Dashboard!Stale, DashStates, Dashboard!Selectable, Dashboard!Running, Dashboard!Asking,
      Dashboard!Answers, Dashboard!NoTask
<1>4. key' \in DashKeys
  BY <1>1, DashboardValues
  DEF Dashboard!Retry, Dashboard!WriteWhen, Dashboard!Stale, DashKeys, Dashboard!Selectable, Dashboard!Running, Dashboard!Asking,
      Dashboard!Answers, Dashboard!NoTask, DashStates
<1>5. history' \in DashHistories
  BY <1>1, DashboardValues
  DEF Dashboard!Retry, Dashboard!WriteWhen, Dashboard!Stale, DashHistories, Dashboard!Selectable, Dashboard!Running, Dashboard!Asking,
      Dashboard!Answers, Dashboard!NoTask, DashStates
<1>6. Dashboard!TypeOK' /\ key' \in DashKeys
  BY <1>1, <1>2, <1>3, <1>4, <1>5, DashboardTypesNext
<1>7. StatusInv'
  BY <1>1, <1>2, DashboardValues
  DEF Dashboard!Retry, Dashboard!WriteWhen, Dashboard!Stale, DashboardInv, StatusInv, Dashboard!AbortHonoured,
      Dashboard!Idle, Dashboard!NoKey, DashStates, DashJobs, DashKeys, DashHistories,
      Dashboard!Selectable, Dashboard!Running, Dashboard!Asking
<1>8. FreshInv'
  BY <1>1, <1>2, DashboardValues
  DEF Dashboard!Retry, Dashboard!WriteWhen, Dashboard!Stale, DashboardInv, FreshInv, StatusInv, Bound, Cleared,
      Dashboard!Idle, Dashboard!NoKey, DashStates, DashJobs, DashKeys, DashHistories,
      Dashboard!Selectable, Dashboard!Running, Dashboard!Asking
<1>9. Dashboard!BatchLockAccounted'
  BY <1>1, <1>2, DashboardValues
  DEF Dashboard!Retry, Dashboard!WriteWhen, Dashboard!Stale, DashboardInv, FreshInv, Dashboard!BatchLockAccounted,
      Dashboard!Idle, Dashboard!NoKey, DashStates, DashJobs, DashKeys, DashHistories,
      Dashboard!Selectable, Dashboard!Running, Dashboard!Asking
<1> QED
  BY <1>6, <1>7, <1>8, <1>9 DEF DashboardInv

\* one clears it,
LEMMA DaEscape ==
    ASSUME DashboardInv, Dashboard!Escape,
           UNCHANGED <<batch, job, requested>>
    PROVE  DashboardInv'
<1>1. /\ batch \in Dashboard!Batches /\ state \in DashStates /\ job \in DashJobs
      /\ key \in DashKeys /\ requested \in BOOLEAN
      /\ history \in DashHistories
  BY DashboardTypes
<1>2. UNCHANGED <<job, requested, batch>>
  BY DEF Dashboard!Escape, Dashboard!WriteWhen, Dashboard!Stale
<1>3. state' \in DashStates
  BY <1>1, DashboardValues
  DEF Dashboard!Escape, Dashboard!WriteWhen, Dashboard!Stale, DashStates, Dashboard!Selectable, Dashboard!Running, Dashboard!Asking,
      Dashboard!Answers, Dashboard!NoTask
<1>4. key' \in DashKeys
  BY <1>1, DashboardValues
  DEF Dashboard!Escape, Dashboard!WriteWhen, Dashboard!Stale, DashKeys, Dashboard!Selectable, Dashboard!Running, Dashboard!Asking,
      Dashboard!Answers, Dashboard!NoTask, DashStates
<1>5. history' \in DashHistories
  BY <1>1, DashboardValues
  DEF Dashboard!Escape, Dashboard!WriteWhen, Dashboard!Stale, DashHistories, Dashboard!Selectable, Dashboard!Running, Dashboard!Asking,
      Dashboard!Answers, Dashboard!NoTask, DashStates
<1>6. Dashboard!TypeOK' /\ key' \in DashKeys
  BY <1>1, <1>2, <1>3, <1>4, <1>5, DashboardTypesNext
<1>7. StatusInv'
  BY <1>1, <1>2, DashboardValues
  DEF Dashboard!Escape, Dashboard!WriteWhen, Dashboard!Stale, DashboardInv, StatusInv, Dashboard!AbortHonoured,
      Dashboard!Idle, Dashboard!NoKey, DashStates, DashJobs, DashKeys, DashHistories,
      Dashboard!Selectable, Dashboard!Running, Dashboard!Asking
<1>8. FreshInv'
  BY <1>1, <1>2, DashboardValues
  DEF Dashboard!Escape, Dashboard!WriteWhen, Dashboard!Stale, DashboardInv, FreshInv, StatusInv, Bound, Cleared,
      Dashboard!Idle, Dashboard!NoKey, DashStates, DashJobs, DashKeys, DashHistories,
      Dashboard!Selectable, Dashboard!Running, Dashboard!Asking
<1>9. Dashboard!BatchLockAccounted'
  BY <1>1, <1>2, DashboardValues
  DEF Dashboard!Escape, Dashboard!WriteWhen, Dashboard!Stale, DashboardInv, FreshInv, Dashboard!BatchLockAccounted,
      Dashboard!Idle, Dashboard!NoKey, DashStates, DashJobs, DashKeys, DashHistories,
      Dashboard!Selectable, Dashboard!Running, Dashboard!Asking
<1> QED
  BY <1>6, <1>7, <1>8, <1>9 DEF DashboardInv

\* one answers a question,
LEMMA DaConfirm ==
    ASSUME DashboardInv, Dashboard!Confirm,
           UNCHANGED <<batch, job, requested>>
    PROVE  DashboardInv'
<1>1. /\ batch \in Dashboard!Batches /\ state \in DashStates /\ job \in DashJobs
      /\ key \in DashKeys /\ requested \in BOOLEAN
      /\ history \in DashHistories
  BY DashboardTypes
<1>2. UNCHANGED <<job, requested, batch>>
  BY DEF Dashboard!Confirm, Dashboard!WriteWhen, Dashboard!Stale
<1>3. state' \in DashStates
  <2>1. key.task \in {Dashboard!NoTask} \cup Dashboard!Tasks /\ key.question \in Dashboard!Questions
    BY <1>1 DEF DashKeys
  <2> QED
    BY <1>1, <2>1 DEF Dashboard!Confirm, Dashboard!WriteWhen, DashStates, Dashboard!Answers
<1>4. key' \in DashKeys
  BY <1>1, DashboardValues
  DEF Dashboard!Confirm, Dashboard!WriteWhen, Dashboard!Stale, DashKeys, Dashboard!Selectable, Dashboard!Running, Dashboard!Asking,
      Dashboard!Answers, Dashboard!NoTask, DashStates
<1>5. history' \in DashHistories
  BY <1>1, DashboardValues
  DEF Dashboard!Confirm, Dashboard!WriteWhen, Dashboard!Stale, DashHistories, Dashboard!Selectable, Dashboard!Running, Dashboard!Asking,
      Dashboard!Answers, Dashboard!NoTask, DashStates
<1>6. Dashboard!TypeOK' /\ key' \in DashKeys
  BY <1>1, <1>2, <1>3, <1>4, <1>5, DashboardTypesNext
<1>7. StatusInv'
  BY <1>1, <1>2, DashboardValues
  DEF Dashboard!Confirm, Dashboard!WriteWhen, Dashboard!Stale, DashboardInv, StatusInv, Dashboard!AbortHonoured,
      Dashboard!Idle, Dashboard!NoKey, DashStates, DashJobs, DashKeys, DashHistories,
      Dashboard!Selectable, Dashboard!Running, Dashboard!Asking
<1>8. FreshInv'
  <2>1. /\ state' = [state EXCEPT !.confirm_result = key.name, !.answered = key.question]
        /\ history' = [history EXCEPT !.lagging = @ \/ Dashboard!Stale({Dashboard!Asking})]
        /\ key.name \in {"yes", "no"}
    BY DEF Dashboard!Confirm, Dashboard!WriteWhen
  <2>2. ASSUME ~history'.lagging
        PROVE  ~history.lagging /\ state.status = Dashboard!Asking
               /\ job.question = key.question
    BY <1>1, <2>1, <2>2 DEF Dashboard!Stale, DashHistories
  <2>3. /\ state'.status = state.status /\ state'.curr_task = state.curr_task
        /\ state'.answered = key.question
    BY <1>1, <2>1 DEF DashStates
  <2> QED
    BY <1>1, <1>2, <2>2, <2>3 DEF DashboardInv, FreshInv, Bound, Cleared
<1>9. Dashboard!BatchLockAccounted'
  BY <1>1, <1>2, DashboardValues
  DEF Dashboard!Confirm, Dashboard!WriteWhen, Dashboard!Stale, DashboardInv, FreshInv, Dashboard!BatchLockAccounted,
      Dashboard!Idle, Dashboard!NoKey, DashStates, DashJobs, DashKeys, DashHistories,
      Dashboard!Selectable, Dashboard!Running, Dashboard!Asking
<1> QED
  BY <1>6, <1>7, <1>8, <1>9 DEF DashboardInv

\* one starts a batch,
LEMMA DaStartBatch ==
    ASSUME DashboardInv, Dashboard!StartBatch,
           UNCHANGED <<batch, job, requested>>
    PROVE  DashboardInv'
<1>1. /\ batch \in Dashboard!Batches /\ state \in DashStates /\ job \in DashJobs
      /\ key \in DashKeys /\ requested \in BOOLEAN
      /\ history \in DashHistories
  BY DashboardTypes
<1>2. UNCHANGED <<job, requested, batch>>
  BY DEF Dashboard!StartBatch, Dashboard!WriteWhen, Dashboard!Stale
<1>3. /\ \/ \E task \in Dashboard!Tasks :
              /\ state' = [state EXCEPT !.batch_index = 0, !.curr_task = task]
              /\ history' = [history EXCEPT !.derailed = FALSE,
                     !.lagging = @ \/ Dashboard!Stale({"selecting"})]
         \/ /\ state' = [state EXCEPT !.batch_index = 0, !.curr_task = Dashboard!NoTask]
            /\ history' = [history EXCEPT !.derailed = TRUE,
                   !.lagging = @ \/ Dashboard!Stale({"selecting"})]
      /\ key.name = "batch"
      /\ (history.lagging \/ Dashboard!Stale({"selecting"})) \in BOOLEAN
  <2>1. CASE batch[1] \in Dashboard!Tasks
    BY <1>1, <2>1 DEF Dashboard!StartBatch, DashHistories
  <2>2. CASE batch[1] \notin Dashboard!Tasks
    BY <1>1, <2>2 DEF Dashboard!StartBatch, DashHistories
  <2> QED
    BY <2>1, <2>2 DEF Dashboard!StartBatch
<1>4. state' \in DashStates
  <2>1. ASSUME NEW task \in {Dashboard!NoTask} \cup Dashboard!Tasks,
               state' = [state EXCEPT !.batch_index = 0, !.curr_task = task]
        PROVE  state' \in DashStates
    <3>1. 0 \in -1 .. 1
      OBVIOUS
    <3> QED
      BY <1>1, <2>1, <3>1 DEF DashStates
  <2> QED
    BY <1>3, <2>1
<1>5. key' \in DashKeys
  BY <1>1, DashboardValues
  DEF Dashboard!StartBatch, Dashboard!WriteWhen, Dashboard!Stale, DashKeys, Dashboard!Selectable, Dashboard!Running, Dashboard!Asking,
      Dashboard!Answers, Dashboard!NoTask, DashStates
<1>6. history' \in DashHistories
  BY <1>1, DashboardValues
  DEF Dashboard!StartBatch, Dashboard!WriteWhen, Dashboard!Stale, DashHistories, Dashboard!Selectable, Dashboard!Running, Dashboard!Asking,
      Dashboard!Answers, Dashboard!NoTask, DashStates
<1>7. Dashboard!TypeOK' /\ key' \in DashKeys
  BY <1>1, <1>2, <1>4, <1>5, <1>6, DashboardTypesNext
<1>8. StatusInv'
  BY <1>1, <1>2, DashboardValues
  DEF Dashboard!StartBatch, Dashboard!WriteWhen, Dashboard!Stale, DashboardInv, StatusInv, Dashboard!AbortHonoured,
      Dashboard!Idle, Dashboard!NoKey, DashStates, DashJobs, DashKeys, DashHistories,
      Dashboard!Selectable, Dashboard!Running, Dashboard!Asking
<1>9. FreshInv'
  BY <1>1, <1>2, DashboardValues
  DEF Dashboard!StartBatch, Dashboard!WriteWhen, Dashboard!Stale, DashboardInv, FreshInv, StatusInv, Bound, Cleared,
      Dashboard!Idle, Dashboard!NoKey, DashStates, DashJobs, DashKeys, DashHistories,
      Dashboard!Selectable, Dashboard!Running, Dashboard!Asking
<1>10. Dashboard!BatchLockAccounted'
  <2>1. ASSUME NEW task \in Dashboard!Tasks,
               state' = [state EXCEPT !.batch_index = 0, !.curr_task = task]
        PROVE  state'.curr_task # Dashboard!NoTask
    <3>1. task # Dashboard!NoTask
      BY DashboardConstants DEF Dashboard!Tasks, Dashboard!NoTask
    <3>2. state'.curr_task = task
      BY <1>1, <2>1 DEF DashStates
    <3> QED
      BY <3>1, <3>2
  <2>2. ASSUME history' = [history EXCEPT !.derailed = TRUE,
                               !.lagging = @ \/ Dashboard!Stale({"selecting"})]
        PROVE  history'.derailed
    BY <1>1, <2>2 DEF DashHistories
  <2> QED
    BY <1>3, <2>1, <2>2 DEF Dashboard!BatchLockAccounted
<1> QED
  BY <1>7, <1>8, <1>9, <1>10 DEF DashboardInv

\* one pauses a task or continues it,
LEMMA DaPause ==
    ASSUME DashboardInv, Dashboard!Pause,
           UNCHANGED <<batch, job, requested>>
    PROVE  DashboardInv'
<1>1. /\ batch \in Dashboard!Batches /\ state \in DashStates /\ job \in DashJobs
      /\ key \in DashKeys /\ requested \in BOOLEAN
      /\ history \in DashHistories
  BY DashboardTypes
<1>2. UNCHANGED <<job, requested, batch>>
  BY DEF Dashboard!Pause, Dashboard!WriteWhen, Dashboard!Stale
<1>3. state' \in DashStates
  BY <1>1, DashboardValues
  DEF Dashboard!Pause, Dashboard!WriteWhen, Dashboard!Stale, DashStates, Dashboard!Selectable, Dashboard!Running, Dashboard!Asking,
      Dashboard!Answers, Dashboard!NoTask
<1>4. key' \in DashKeys
  BY <1>1, DashboardValues
  DEF Dashboard!Pause, Dashboard!WriteWhen, Dashboard!Stale, DashKeys, Dashboard!Selectable, Dashboard!Running, Dashboard!Asking,
      Dashboard!Answers, Dashboard!NoTask, DashStates
<1>5. history' \in DashHistories
  BY <1>1, DashboardValues
  DEF Dashboard!Pause, Dashboard!WriteWhen, Dashboard!Stale, DashHistories, Dashboard!Selectable, Dashboard!Running, Dashboard!Asking,
      Dashboard!Answers, Dashboard!NoTask, DashStates
<1>6. Dashboard!TypeOK' /\ key' \in DashKeys
  BY <1>1, <1>2, <1>3, <1>4, <1>5, DashboardTypesNext
<1>7. StatusInv'
  BY <1>1, <1>2, DashboardValues
  DEF Dashboard!Pause, Dashboard!WriteWhen, Dashboard!Stale, DashboardInv, StatusInv, Dashboard!AbortHonoured,
      Dashboard!Idle, Dashboard!NoKey, DashStates, DashJobs, DashKeys, DashHistories,
      Dashboard!Selectable, Dashboard!Running, Dashboard!Asking
<1>8. FreshInv'
  BY <1>1, <1>2, DashboardValues
  DEF Dashboard!Pause, Dashboard!WriteWhen, Dashboard!Stale, DashboardInv, FreshInv, StatusInv, Bound, Cleared,
      Dashboard!Idle, Dashboard!NoKey, DashStates, DashJobs, DashKeys, DashHistories,
      Dashboard!Selectable, Dashboard!Running, Dashboard!Asking
<1>9. Dashboard!BatchLockAccounted'
  BY <1>1, <1>2, DashboardValues
  DEF Dashboard!Pause, Dashboard!WriteWhen, Dashboard!Stale, DashboardInv, FreshInv, Dashboard!BatchLockAccounted,
      Dashboard!Idle, Dashboard!NoKey, DashStates, DashJobs, DashKeys, DashHistories,
      Dashboard!Selectable, Dashboard!Running, Dashboard!Asking
<1> QED
  BY <1>6, <1>7, <1>8, <1>9 DEF DashboardInv

\* one aborts it,
LEMMA DaAbort ==
    ASSUME DashboardInv, Dashboard!Abort,
           UNCHANGED <<batch, job, requested>>
    PROVE  DashboardInv'
<1>1. /\ batch \in Dashboard!Batches /\ state \in DashStates /\ job \in DashJobs
      /\ key \in DashKeys /\ requested \in BOOLEAN
      /\ history \in DashHistories
  BY DashboardTypes
<1>2. UNCHANGED <<job, requested, batch>>
  BY DEF Dashboard!Abort, Dashboard!WriteWhen, Dashboard!Stale
<1>3. state' \in DashStates
  BY <1>1, DashboardValues
  DEF Dashboard!Abort, Dashboard!WriteWhen, Dashboard!Stale, DashStates, Dashboard!Selectable, Dashboard!Running, Dashboard!Asking,
      Dashboard!Answers, Dashboard!NoTask
<1>4. key' \in DashKeys
  BY <1>1, DashboardValues
  DEF Dashboard!Abort, Dashboard!WriteWhen, Dashboard!Stale, DashKeys, Dashboard!Selectable, Dashboard!Running, Dashboard!Asking,
      Dashboard!Answers, Dashboard!NoTask, DashStates
<1>5. history' \in DashHistories
  BY <1>1, DashboardValues
  DEF Dashboard!Abort, Dashboard!WriteWhen, Dashboard!Stale, DashHistories, Dashboard!Selectable, Dashboard!Running, Dashboard!Asking,
      Dashboard!Answers, Dashboard!NoTask, DashStates
<1>6. Dashboard!TypeOK' /\ key' \in DashKeys
  BY <1>1, <1>2, <1>3, <1>4, <1>5, DashboardTypesNext
<1>7. StatusInv'
  BY <1>1, <1>2, DashboardValues
  DEF Dashboard!Abort, Dashboard!WriteWhen, Dashboard!Stale, DashboardInv, StatusInv, Dashboard!AbortHonoured,
      Dashboard!Idle, Dashboard!NoKey, DashStates, DashJobs, DashKeys, DashHistories,
      Dashboard!Selectable, Dashboard!Running, Dashboard!Asking
<1>8. FreshInv'
  BY <1>1, <1>2, DashboardValues
  DEF Dashboard!Abort, Dashboard!WriteWhen, Dashboard!Stale, DashboardInv, FreshInv, StatusInv, Bound, Cleared,
      Dashboard!Idle, Dashboard!NoKey, DashStates, DashJobs, DashKeys, DashHistories,
      Dashboard!Selectable, Dashboard!Running, Dashboard!Asking
<1>9. Dashboard!BatchLockAccounted'
  BY <1>1, <1>2, DashboardValues
  DEF Dashboard!Abort, Dashboard!WriteWhen, Dashboard!Stale, DashboardInv, FreshInv, Dashboard!BatchLockAccounted,
      Dashboard!Idle, Dashboard!NoKey, DashStates, DashJobs, DashKeys, DashHistories,
      Dashboard!Selectable, Dashboard!Running, Dashboard!Asking
<1> QED
  BY <1>6, <1>7, <1>8, <1>9 DEF DashboardInv

\* one finishes it.
LEMMA DaFinish ==
    ASSUME DashboardInv, Dashboard!Finish,
           UNCHANGED <<batch, job, requested>>
    PROVE  DashboardInv'
<1>1. /\ batch \in Dashboard!Batches /\ state \in DashStates /\ job \in DashJobs
      /\ key \in DashKeys /\ requested \in BOOLEAN
      /\ history \in DashHistories
  BY DashboardTypes
<1>2. UNCHANGED <<job, requested, batch>>
  BY DEF Dashboard!Finish, Dashboard!WriteWhen, Dashboard!Stale
<1>3. state' \in DashStates
  BY <1>1, DashboardValues
  DEF Dashboard!Finish, Dashboard!WriteWhen, Dashboard!Stale, DashStates, Dashboard!Selectable, Dashboard!Running, Dashboard!Asking,
      Dashboard!Answers, Dashboard!NoTask
<1>4. key' \in DashKeys
  BY <1>1, DashboardValues
  DEF Dashboard!Finish, Dashboard!WriteWhen, Dashboard!Stale, DashKeys, Dashboard!Selectable, Dashboard!Running, Dashboard!Asking,
      Dashboard!Answers, Dashboard!NoTask, DashStates
<1>5. history' \in DashHistories
  BY <1>1, DashboardValues
  DEF Dashboard!Finish, Dashboard!WriteWhen, Dashboard!Stale, DashHistories, Dashboard!Selectable, Dashboard!Running, Dashboard!Asking,
      Dashboard!Answers, Dashboard!NoTask, DashStates
<1>6. Dashboard!TypeOK' /\ key' \in DashKeys
  BY <1>1, <1>2, <1>3, <1>4, <1>5, DashboardTypesNext
<1>7. StatusInv'
  BY <1>1, <1>2, DashboardValues
  DEF Dashboard!Finish, Dashboard!WriteWhen, Dashboard!Stale, DashboardInv, StatusInv, Dashboard!AbortHonoured,
      Dashboard!Idle, Dashboard!NoKey, DashStates, DashJobs, DashKeys, DashHistories,
      Dashboard!Selectable, Dashboard!Running, Dashboard!Asking
<1>8. FreshInv'
  BY <1>1, <1>2, DashboardValues
  DEF Dashboard!Finish, Dashboard!WriteWhen, Dashboard!Stale, DashboardInv, FreshInv, StatusInv, Bound, Cleared,
      Dashboard!Idle, Dashboard!NoKey, DashStates, DashJobs, DashKeys, DashHistories,
      Dashboard!Selectable, Dashboard!Running, Dashboard!Asking
<1>9. Dashboard!BatchLockAccounted'
  BY <1>1, <1>2, DashboardValues
  DEF Dashboard!Finish, Dashboard!WriteWhen, Dashboard!Stale, DashboardInv, FreshInv, Dashboard!BatchLockAccounted,
      Dashboard!Idle, Dashboard!NoKey, DashStates, DashJobs, DashKeys, DashHistories,
      Dashboard!Selectable, Dashboard!Running, Dashboard!Asking
<1> QED
  BY <1>6, <1>7, <1>8, <1>9 DEF DashboardInv

\* The program ends,
LEMMA DaQuit ==
    ASSUME DashboardInv, Dashboard!Quit
    PROVE  DashboardInv'
<1>1. /\ batch \in Dashboard!Batches /\ state \in DashStates /\ job \in DashJobs
      /\ key \in DashKeys /\ requested \in BOOLEAN
      /\ history \in DashHistories
  BY DashboardTypes
<1>2. UNCHANGED <<job, key, history, batch>>
  BY DEF Dashboard!Quit
<1>3. state' \in DashStates
  BY <1>1, DashboardValues
  DEF Dashboard!Quit, DashStates, Dashboard!Selectable, Dashboard!Running, Dashboard!Asking,
      Dashboard!Answers, Dashboard!NoTask
<1>4. requested' \in BOOLEAN
  BY <1>1, DashboardValues
  DEF Dashboard!Quit, Dashboard!Selectable, Dashboard!Running, Dashboard!Asking,
      Dashboard!Answers, Dashboard!NoTask, DashStates
<1>5. Dashboard!TypeOK' /\ key' \in DashKeys
  BY <1>1, <1>2, <1>3, <1>4, DashboardTypesNext
<1>6. StatusInv'
  BY <1>1, <1>2, DashboardValues
  DEF Dashboard!Quit, DashboardInv, StatusInv, Dashboard!AbortHonoured,
      Dashboard!Idle, Dashboard!NoKey, DashStates, DashJobs, DashKeys, DashHistories,
      Dashboard!Selectable, Dashboard!Running, Dashboard!Asking
<1>7. FreshInv'
  BY <1>1, <1>2, DashboardValues
  DEF Dashboard!Quit, DashboardInv, FreshInv, StatusInv, Bound, Cleared,
      Dashboard!Idle, Dashboard!NoKey, DashStates, DashJobs, DashKeys, DashHistories,
      Dashboard!Selectable, Dashboard!Running, Dashboard!Asking
<1>8. Dashboard!BatchLockAccounted'
  BY <1>1, <1>2, DashboardValues
  DEF Dashboard!Quit, DashboardInv, FreshInv, Dashboard!BatchLockAccounted,
      Dashboard!Idle, Dashboard!NoKey, DashStates, DashJobs, DashKeys, DashHistories,
      Dashboard!Selectable, Dashboard!Running, Dashboard!Asking
<1> QED
  BY <1>5, <1>6, <1>7, <1>8 DEF DashboardInv

\* Every step of the main loop and of the keyboard thread.
LEMMA DashboardStep == DashboardInv /\ Dashboard!Next => DashboardInv'
<1> SUFFICES ASSUME DashboardInv, Dashboard!Next PROVE DashboardInv'
  OBVIOUS
<1>1. CASE Dashboard!JobStep
  BY <1>1, DaClaim, DaBeginPreset, DaSetProxy, DaSetRobot, DaExecute, DaStarted,
     DaAnswered, DaReset, DaLoop, DaAct, DaFinished, DaAdvance
  DEF Dashboard!JobStep
<1>2. CASE Dashboard!HandlerStep
  BY <1>2, DaSelect, DaSelectStatus, DaRetry, DaEscape, DaConfirm, DaStartBatch, DaPause, DaAbort, DaFinish
  DEF Dashboard!HandlerStep
<1> QED
  BY <1>1, <1>2, DaPressKey, DaQuit DEF Dashboard!Next

----------------------------------------------------------------------------
(* Episodes that are recorded or inferred.                                 *)

\* The buffer holds frames of the take that runs and none before it begins; Left
\* is about that take, or about the next one when it is pressed between two.
TakeInv ==
    /\ dataset.buffer \subseteq {recorder.take}
    /\ recorder.at = "begin" => dataset.buffer = {}
    /\ events.rerecord_episode => asked.asked \in {0, recorder.take}
    /\ events.rerecord_episode /\ recorder.at \in {"saving", "begin"} => asked.asked = 0

\* What bounds the takes, the iterations and the timesteps of a behaviour.
CountInv ==
    /\ recorder.at \notin {"begin", "finally", "ended"} => dataset.saved < NumEpisodes
    /\ recorder.take <= MaxTakes + dataset.saved + 1
    /\ recorder.at \notin {"finally", "ended"} /\ events.rerecord_episode =>
         recorder.take <= MaxTakes
    /\ recorder.at \in {"begin", "saving"} /\ events.rerecord_episode =>
         recorder.take < MaxTakes
    /\ recorder.at = "begin" => recorder.take <= MaxTakes + dataset.saved
    /\ recorder.at \in {"resetting", "loop", "waiting", "sending"} => recorder.steps < Control
    /\ client.timestep <= Control
    /\ recorder.at = "waiting" => program.policy /\ ~recorder.reset
    /\ recorder.at = "resetting" => program.policy
    /\ recorder.at \in {"loop", "waiting"} /\ ~recorder.reset =>
         client.timestep <= recorder.steps
    /\ recorder.at = "sending" /\ ~recorder.reset => client.timestep <= recorder.steps + 1
    /\ ~program.policy => client.timestep = 0 /\ ~client.event /\ requester.at = "wait"

\* Unless the client was reset while a request was pending or under way, whatever it
\* keeps, asks or is told is about the take that runs.
OriginInv ==
    /\ recorder.at # "sending" => recorder.action = {}
    /\ \A o \in recorder.action : o.take = recorder.take \/ asked.crossed
    /\ ~asked.crossed =>
         /\ \A t \in Episodes!Timesteps : \A o \in client.queue[t] : o.take = recorder.take
         /\ requester.at \in {"taken", "flight", "reply"} => requester.obs.take = recorder.take
         /\ client.event \/ requester.at = "woken" => client.last.take = recorder.take
         /\ recorder.at = "resetting" => ~client.event /\ requester.at \in {"wait", "dead", "lost"}

EpisodesInv == Episodes!TypeOK /\ TakeInv /\ CountInv /\ OriginInv

EpPrograms == [policy : BOOLEAN, teleop : BOOLEAN]
EpEvents == [exit_early : BOOLEAN, rerecord_episode : BOOLEAN, stop_recording : BOOLEAN]
EpRecorders ==
    [at : {"begin", "resetting", "loop", "waiting", "sending", "left", "decide", "saving",
           "finally", "ended"},
     reset : BOOLEAN, take : Episodes!Takes, steps : 0 .. Control,
     action : SUBSET Episodes!Observations]
EpClients ==
    [timestep : Episodes!Timesteps, queue : [Episodes!Timesteps -> SUBSET Episodes!Observations],
     last : Episodes!Observations, event : BOOLEAN, in_flight : BOOLEAN]
EpRequesters ==
    [at : {"wait", "woken", "taken", "flight", "reply", "dead", "lost"},
     obs : Episodes!Observations, label : Episodes!Timesteps]
EpDatasets == [buffer : SUBSET Episodes!Takes, saved : 0 .. NumEpisodes]
EpHistories == [asked : Episodes!Takes, crossed : BOOLEAN]

\* The type of the episodes' state, a variable at a time.
LEMMA EpisodesTypes ==
    Episodes!TypeOK <=>
        /\ program \in EpPrograms /\ events \in EpEvents /\ recorder \in EpRecorders
        /\ client \in EpClients /\ requester \in EpRequesters /\ dataset \in EpDatasets
        /\ asked \in EpHistories
BY DEF Episodes!TypeOK, EpPrograms, EpEvents, EpRecorders, EpClients, EpRequesters,
       EpDatasets, EpHistories

\* And of the state after a step.
LEMMA EpisodesTypesNext ==
    ASSUME program' \in EpPrograms, events' \in EpEvents, recorder' \in EpRecorders,
           client' \in EpClients, requester' \in EpRequesters, dataset' \in EpDatasets,
           asked' \in EpHistories
    PROVE  Episodes!TypeOK'
BY DEF Episodes!TypeOK, EpPrograms, EpEvents, EpRecorders, EpClients, EpRequesters,
       EpDatasets, EpHistories

\* The first take and the first timestep are numbers of the kind; so is None.
LEMMA EpisodesValues ==
    /\ 0 \in Episodes!Takes /\ 0 \in Episodes!Timesteps /\ 0 \in 0 .. Control
    /\ Episodes!None \in Episodes!Observations
    /\ Episodes!Empty \in [Episodes!Timesteps -> SUBSET Episodes!Observations]
<1>1. /\ MaxTakes + NumEpisodes \in Nat /\ Control + Chunk \in Nat /\ Control \in Nat
  BY EpisodesConstants
<1>2. 0 \in Episodes!Takes /\ 0 \in Episodes!Timesteps /\ 0 \in 0 .. Control
  BY <1>1 DEF Episodes!Takes, Episodes!Timesteps
<1>3. Episodes!None \in Episodes!Observations
  BY <1>2 DEF Episodes!None, Episodes!Observations
<1>4. Episodes!Empty \in [Episodes!Timesteps -> SUBSET Episodes!Observations]
  BY DEF Episodes!Empty
<1> QED
  BY <1>2, <1>3, <1>4

\* No episode has begun, nothing is queued and nobody has pressed a key.
LEMMA EpisodesInit == Init => EpisodesInv
<1> SUFFICES ASSUME Init PROVE EpisodesInv
  OBVIOUS
<1>1. Episodes!Init
  BY DEF Init
<1>2. Episodes!TypeOK
  <2>1. program \in EpPrograms
    <3>1. /\ [policy |-> FALSE, teleop |-> TRUE] \in EpPrograms
          /\ [policy |-> TRUE, teleop |-> TRUE] \in EpPrograms
          /\ [policy |-> TRUE, teleop |-> FALSE] \in EpPrograms
      BY DEF EpPrograms
    <3> QED
      BY <1>1, <3>1 DEF Episodes!Init
  <2>0. events \in EpEvents
    BY <1>1 DEF Episodes!Init, EpEvents
  <2>2. recorder \in EpRecorders
    BY <1>1, EpisodesValues DEF Episodes!Init, EpRecorders
  <2>3. client \in EpClients
    BY <1>1, EpisodesValues DEF Episodes!Init, EpClients
  <2>4. requester \in EpRequesters
    BY <1>1, EpisodesValues DEF Episodes!Init, EpRequesters
  <2>5. dataset \in EpDatasets
    BY <1>1, EpisodesConstants DEF Episodes!Init, EpDatasets
  <2>6. asked \in EpHistories
    BY <1>1, EpisodesValues DEF Episodes!Init, EpHistories
  <2> QED
    BY <2>0, <2>1, <2>2, <2>3, <2>4, <2>5, <2>6, EpisodesTypes
<1>3. TakeInv
  BY <1>1 DEF Episodes!Init, TakeInv
<1>4. CountInv
  BY <1>1, EpisodesConstants DEF Episodes!Init, CountInv
<1>5. OriginInv
  BY <1>1 DEF Episodes!Init, OriginInv, Episodes!Empty
<1> QED
  BY <1>2, <1>3, <1>4, <1>5 DEF EpisodesInv

\* A step of another part leaves the episodes alone.
LEMMA EpisodesStutter == EpisodesInv /\ UNCHANGED episodesVars => EpisodesInv'
<1> SUFFICES ASSUME EpisodesInv, UNCHANGED episodesVars PROVE EpisodesInv'
  OBVIOUS
<1> USE DEF episodesVars
<1>1. Episodes!TypeOK'
  BY DEF EpisodesInv, Episodes!TypeOK
<1>2. TakeInv' /\ CountInv' /\ OriginInv'
  BY DEF EpisodesInv, TakeInv, CountInv, OriginInv
<1> QED
  BY <1>1, <1>2 DEF EpisodesInv

\* What the counters are, in numbers.
LEMMA EpisodesNumbers ==
    EpisodesInv =>
        /\ recorder.take \in Nat /\ recorder.steps \in Nat /\ recorder.steps <= Control
        /\ dataset.saved \in Nat /\ dataset.saved <= NumEpisodes /\ client.timestep \in Nat
        /\ client.timestep <= Control + Chunk /\ recorder.take <= MaxTakes + NumEpisodes
        /\ NumEpisodes \in Nat \ {0} /\ MaxTakes \in Nat \ {0} /\ Control \in Nat \ {0}
        /\ Chunk \in Nat \ {0}
BY EpisodesConstants
DEF EpisodesInv, Episodes!TypeOK, Episodes!Takes, Episodes!Timesteps

\* The client is reset: its queue first.
LEMMA EpResetQueue ==
    ASSUME EpisodesInv, Episodes!ResetQueue, UNCHANGED <<program, requester>>
    PROVE  EpisodesInv'
<1>1. /\ program \in EpPrograms /\ events \in EpEvents /\ recorder \in EpRecorders
      /\ client \in EpClients /\ requester \in EpRequesters /\ dataset \in EpDatasets
      /\ asked \in EpHistories
  BY EpisodesTypes DEF EpisodesInv
<1>2. UNCHANGED <<program, events, requester, dataset>>
  BY DEF Episodes!ResetQueue
<1>3. recorder' = [at |-> IF program.policy THEN "resetting" ELSE "loop", reset |-> FALSE,
                  take |-> recorder.take + 1, steps |-> 0, action |-> recorder.action]
  BY <1>1 DEF Episodes!ResetQueue, EpRecorders
<1>4. recorder' \in EpRecorders
  <2>1. recorder.take + 1 \in Episodes!Takes
    BY EpisodesNumbers
    DEF Episodes!ResetQueue, EpisodesInv, CountInv, Episodes!Takes
  <2>2. recorder.action \in SUBSET Episodes!Observations /\ 0 \in 0 .. Control
    BY <1>1, EpisodesNumbers DEF EpRecorders
  <2> QED
    BY <1>3, <2>1, <2>2 DEF EpRecorders
<1>5. client' \in EpClients
  BY <1>1, EpisodesValues, EpisodesNumbers
  DEF Episodes!ResetQueue, Episodes!Goto, EpisodesInv, CountInv, EpClients, Episodes!Takes, Episodes!Timesteps
<1>6. asked' \in EpHistories
  BY <1>1, EpisodesValues, EpisodesNumbers
  DEF Episodes!ResetQueue, Episodes!Goto, EpisodesInv, CountInv, EpHistories, Episodes!Takes, Episodes!Timesteps
<1>7. Episodes!TypeOK'
  BY <1>1, <1>2, <1>4, <1>5, <1>6, EpisodesTypesNext
<1>8. TakeInv'
  BY <1>1, EpisodesNumbers
  DEF Episodes!ResetQueue, Episodes!Goto, EpisodesInv, TakeInv, EpEvents, EpRecorders, EpDatasets, EpHistories
<1>9. CountInv'
  BY <1>1, EpisodesNumbers
  DEF Episodes!ResetQueue, Episodes!Goto, EpisodesInv, CountInv, EpEvents, EpRecorders, EpClients, EpDatasets
<1>10. OriginInv'
  <2>1. recorder'.action = {} /\ recorder'.at # "sending"
    BY <1>3 DEF Episodes!ResetQueue, EpisodesInv, OriginInv
  <2>2. ASSUME NEW t \in Episodes!Timesteps PROVE client'.queue[t] = {}
    BY <1>1 DEF Episodes!ResetQueue, EpClients, Episodes!Empty
  <2>3. asked'.crossed = (program.policy /\ (requester.at \notin {"wait", "dead", "lost"} \/ client.event))
    BY <1>1 DEF Episodes!ResetQueue, EpHistories
  <2>4. client'.event = client.event /\ requester' = requester
    BY <1>1 DEF Episodes!ResetQueue, EpClients
  <2>5. ~program.policy => ~client.event /\ requester.at = "wait"
    BY DEF EpisodesInv, CountInv
  <2>6. ~asked'.crossed => ~client'.event /\ requester'.at \in {"wait", "dead", "lost"}
    BY <2>3, <2>4, <2>5
  <2> QED
    BY <2>1, <2>2, <2>6 DEF OriginInv
<1> QED
  BY <1>7, <1>8, <1>9, <1>10 DEF EpisodesInv

\* Then the rest of it.
LEMMA EpResetRest ==
    ASSUME EpisodesInv, Episodes!ResetRest, UNCHANGED <<program, requester>>
    PROVE  EpisodesInv'
<1>1. /\ program \in EpPrograms /\ events \in EpEvents /\ recorder \in EpRecorders
      /\ client \in EpClients /\ requester \in EpRequesters /\ dataset \in EpDatasets
      /\ asked \in EpHistories
  BY EpisodesTypes DEF EpisodesInv
<1>2. UNCHANGED <<program, events, requester, dataset, asked>>
  BY DEF Episodes!ResetRest
<1>3. /\ recorder' = [at |-> "loop", reset |-> recorder.reset, take |-> recorder.take,
                     steps |-> recorder.steps, action |-> {}]
      /\ client' = [timestep |-> 0, queue |-> client.queue, last |-> Episodes!None,
                    event |-> FALSE, in_flight |-> FALSE]
  BY <1>1 DEF Episodes!ResetRest, Episodes!Goto, EpRecorders, EpClients
<1>4. recorder' \in EpRecorders
  BY <1>1, EpisodesValues, EpisodesNumbers
  DEF Episodes!ResetRest, Episodes!Goto, EpisodesInv, CountInv, EpRecorders, Episodes!Takes, Episodes!Timesteps
<1>5. client' \in EpClients
  BY <1>1, EpisodesValues, EpisodesNumbers
  DEF Episodes!ResetRest, Episodes!Goto, EpisodesInv, CountInv, EpClients, Episodes!Takes, Episodes!Timesteps
<1>6. Episodes!TypeOK'
  BY <1>1, <1>2, <1>4, <1>5, EpisodesTypesNext
<1>7. TakeInv'
  BY <1>1, EpisodesNumbers
  DEF Episodes!ResetRest, Episodes!Goto, EpisodesInv, TakeInv, EpEvents, EpRecorders, EpDatasets, EpHistories
<1>8. CountInv'
  BY <1>3, <1>2, EpisodesNumbers DEF Episodes!ResetRest, EpisodesInv, CountInv
<1>9. OriginInv'
  BY <1>1
  DEF Episodes!ResetRest, Episodes!Goto, EpisodesInv, OriginInv, CountInv, EpRecorders, EpClients, EpRequesters,
      EpHistories
<1> QED
  BY <1>6, <1>7, <1>8, <1>9 DEF EpisodesInv

\* An action is taken from the queue.
LEMMA EpPop ==
    ASSUME EpisodesInv, Episodes!Pop, UNCHANGED <<program, requester>>
    PROVE  EpisodesInv'
<1>1. /\ program \in EpPrograms /\ events \in EpEvents /\ recorder \in EpRecorders
      /\ client \in EpClients /\ requester \in EpRequesters /\ dataset \in EpDatasets
      /\ asked \in EpHistories
  BY EpisodesTypes DEF EpisodesInv
<1>2. UNCHANGED <<program, events, requester, dataset, asked>>
  BY DEF Episodes!Pop
<1>3. /\ recorder' = [at |-> "sending", reset |-> recorder.reset, take |-> recorder.take,
                     steps |-> recorder.steps, action |-> client.queue[client.timestep]]
      /\ client.timestep \in Episodes!Timesteps
      /\ client' = [timestep |-> client.timestep + 1,
                    queue |-> [t \in Episodes!Timesteps |->
                        IF t <= client.timestep THEN {} ELSE client.queue[t]],
                    last |-> client.last, event |-> client.event,
                    in_flight |-> client.in_flight]
  BY <1>1 DEF Episodes!Pop, Episodes!Queued, EpRecorders, EpClients
<1>4. recorder' \in EpRecorders
  <2>1. client.queue[client.timestep] \in SUBSET Episodes!Observations
    BY <1>1, <1>3 DEF EpClients
  <2> QED
    BY <1>1, <1>3, <2>1 DEF EpRecorders
<1>5. client' \in EpClients
  <2>1. client.timestep + 1 \in Episodes!Timesteps
    BY EpisodesNumbers
    DEF Episodes!Pop, EpisodesInv, CountInv, Episodes!Timesteps
  <2>2. client.queue \in [Episodes!Timesteps -> SUBSET Episodes!Observations]
    BY <1>1 DEF EpClients
  <2>3. [t \in Episodes!Timesteps |-> IF t <= client.timestep THEN {} ELSE client.queue[t]]
            \in [Episodes!Timesteps -> SUBSET Episodes!Observations]
    BY <2>2
  <2>4. client.last \in Episodes!Observations /\ client.event \in BOOLEAN
        /\ client.in_flight \in BOOLEAN
    BY <1>1 DEF EpClients
  <2> QED
    BY <1>3, <2>1, <2>3, <2>4 DEF EpClients
<1>6. Episodes!TypeOK'
  BY <1>1, <1>2, <1>4, <1>5, EpisodesTypesNext
<1>7. TakeInv'
  BY <1>1, EpisodesNumbers
  DEF Episodes!Pop, Episodes!Goto, EpisodesInv, TakeInv, EpEvents, EpRecorders, EpDatasets, EpHistories
<1>8. CountInv'
  BY <1>1, EpisodesNumbers
  DEF Episodes!Pop, Episodes!Goto, EpisodesInv, CountInv, EpEvents, EpRecorders, EpClients, EpDatasets
<1>9. OriginInv'
  BY <1>1
  DEF Episodes!Pop, Episodes!Goto, EpisodesInv, OriginInv, CountInv, EpRecorders, EpClients, EpRequesters,
      EpHistories
<1> QED
  BY <1>6, <1>7, <1>8, <1>9 DEF EpisodesInv

\* No action came in time.
LEMMA EpPolicyTimeout ==
    ASSUME EpisodesInv, Episodes!PolicyTimeout, UNCHANGED <<program, requester>>
    PROVE  EpisodesInv'
<1>1. /\ program \in EpPrograms /\ events \in EpEvents /\ recorder \in EpRecorders
      /\ client \in EpClients /\ requester \in EpRequesters /\ dataset \in EpDatasets
      /\ asked \in EpHistories
  BY EpisodesTypes DEF EpisodesInv
<1>2. UNCHANGED <<program, events, client, requester, dataset, asked>>
  BY DEF Episodes!PolicyTimeout
<1>3. recorder' \in EpRecorders
  BY <1>1, EpisodesValues, EpisodesNumbers
  DEF Episodes!PolicyTimeout, Episodes!Goto, EpisodesInv, CountInv, EpRecorders, Episodes!Takes, Episodes!Timesteps
<1>4. Episodes!TypeOK'
  BY <1>1, <1>2, <1>3, EpisodesTypesNext
<1>5. TakeInv'
  BY <1>1, EpisodesNumbers
  DEF Episodes!PolicyTimeout, Episodes!Goto, EpisodesInv, TakeInv, EpEvents, EpRecorders, EpDatasets, EpHistories
<1>6. CountInv'
  BY <1>1, EpisodesNumbers
  DEF Episodes!PolicyTimeout, Episodes!Goto, EpisodesInv, CountInv, EpEvents, EpRecorders, EpClients, EpDatasets
<1>7. OriginInv'
  BY <1>1
  DEF Episodes!PolicyTimeout, Episodes!Goto, EpisodesInv, OriginInv, CountInv, EpRecorders, EpClients, EpRequesters,
      EpHistories
<1> QED
  BY <1>4, <1>5, <1>6, <1>7 DEF EpisodesInv

\* A loop consumes exit_early.
LEMMA EpExitEarly ==
    ASSUME EpisodesInv, Episodes!ExitEarly, UNCHANGED <<program, requester>>
    PROVE  EpisodesInv'
<1>1. /\ program \in EpPrograms /\ events \in EpEvents /\ recorder \in EpRecorders
      /\ client \in EpClients /\ requester \in EpRequesters /\ dataset \in EpDatasets
      /\ asked \in EpHistories
  BY EpisodesTypes DEF EpisodesInv
<1>2. UNCHANGED <<program, client, requester, dataset, asked>>
  BY DEF Episodes!ExitEarly
<1>3. events' \in EpEvents
  BY <1>1, EpisodesValues, EpisodesNumbers
  DEF Episodes!ExitEarly, Episodes!Goto, EpisodesInv, CountInv, EpEvents, Episodes!Takes, Episodes!Timesteps
<1>4. recorder' \in EpRecorders
  BY <1>1, EpisodesValues, EpisodesNumbers
  DEF Episodes!ExitEarly, Episodes!Goto, EpisodesInv, CountInv, EpRecorders, Episodes!Takes, Episodes!Timesteps
<1>5. Episodes!TypeOK'
  BY <1>1, <1>2, <1>3, <1>4, EpisodesTypesNext
<1>6. TakeInv'
  BY <1>1, EpisodesNumbers
  DEF Episodes!ExitEarly, Episodes!Goto, EpisodesInv, TakeInv, EpEvents, EpRecorders, EpDatasets, EpHistories
<1>7. CountInv'
  BY <1>1, EpisodesNumbers
  DEF Episodes!ExitEarly, Episodes!Goto, EpisodesInv, CountInv, EpEvents, EpRecorders, EpClients, EpDatasets
<1>8. OriginInv'
  BY <1>1
  DEF Episodes!ExitEarly, Episodes!Goto, EpisodesInv, OriginInv, CountInv, EpRecorders, EpClients, EpRequesters,
      EpHistories
<1> QED
  BY <1>5, <1>6, <1>7, <1>8 DEF EpisodesInv

\* An iteration offers its observation to the client, or asks the teleoperator.
LEMMA EpObserve ==
    ASSUME EpisodesInv, Episodes!Observe, UNCHANGED <<program, requester>>
    PROVE  EpisodesInv'
<1>1. /\ program \in EpPrograms /\ events \in EpEvents /\ recorder \in EpRecorders
      /\ client \in EpClients /\ requester \in EpRequesters /\ dataset \in EpDatasets
      /\ asked \in EpHistories
  BY EpisodesTypes DEF EpisodesInv
<1>2. UNCHANGED <<program, events, requester, dataset, asked>>
  BY DEF Episodes!Observe
<1>3. \/ /\ program.policy /\ ~recorder.reset
         /\ recorder' = [at |-> "waiting", reset |-> recorder.reset, take |-> recorder.take,
                         steps |-> recorder.steps, action |-> {}]
         /\ \/ client' = client
            \/ client' = [timestep |-> client.timestep, queue |-> client.queue,
                          last |-> [take |-> recorder.take, ts |-> client.timestep],
                          event |-> TRUE, in_flight |-> client.in_flight]
      \/ /\ ~program.policy \/ recorder.reset
         /\ recorder' = [at |-> "sending", reset |-> recorder.reset, take |-> recorder.take,
                         steps |-> recorder.steps, action |-> {}]
         /\ client' = client
  <2>1. CASE program.policy /\ ~recorder.reset
    <3>1. Episodes!Goto("waiting") /\ Episodes!Offer
      BY <2>1 DEF Episodes!Observe
    <3>2. recorder' = [at |-> "waiting", reset |-> recorder.reset, take |-> recorder.take,
                       steps |-> recorder.steps, action |-> {}]
      BY <1>1, <3>1 DEF Episodes!Goto, EpRecorders
    <3>3. \/ client' = client
          \/ client' = [timestep |-> client.timestep, queue |-> client.queue,
                        last |-> [take |-> recorder.take, ts |-> client.timestep],
                        event |-> TRUE, in_flight |-> client.in_flight]
      BY <1>1, <3>1 DEF Episodes!Offer, EpClients
    <3> QED
      BY <2>1, <3>2, <3>3
  <2>2. CASE ~(program.policy /\ ~recorder.reset)
    <3>1. Episodes!Goto("sending") /\ client' = client
      BY <2>2 DEF Episodes!Observe
    <3>2. recorder' = [at |-> "sending", reset |-> recorder.reset, take |-> recorder.take,
                       steps |-> recorder.steps, action |-> {}]
      BY <1>1, <3>1 DEF Episodes!Goto, EpRecorders
    <3> QED
      BY <2>2, <3>1, <3>2
  <2> QED
    BY <2>1, <2>2
<1>4. recorder' \in EpRecorders
  <2>1. recorder.at = "loop"
    BY DEF Episodes!Observe
  <2> QED
    BY <1>1, <1>2, <1>3, <2>1, EpisodesNumbers
    DEF EpisodesInv, TakeInv, CountInv, OriginInv, EpRecorders
<1>5. client' \in EpClients
  <2>1. [take |-> recorder.take, ts |-> client.timestep] \in Episodes!Observations
    BY <1>1 DEF EpRecorders, EpClients, Episodes!Observations
  <2>2. CASE client' = client
    BY <1>1, <2>2
  <2>3. CASE client' = [timestep |-> client.timestep, queue |-> client.queue,
                        last |-> [take |-> recorder.take, ts |-> client.timestep],
                        event |-> TRUE, in_flight |-> client.in_flight]
    BY <1>1, <2>1, <2>3 DEF EpClients
  <2> QED
    BY <1>3, <2>2, <2>3
<1>6. Episodes!TypeOK'
  BY <1>1, <1>2, <1>4, <1>5, EpisodesTypesNext
<1>7. TakeInv'
  <2>1. recorder.at = "loop"
    BY DEF Episodes!Observe
  <2> QED
    BY <1>1, <1>2, <1>3, <2>1, EpisodesNumbers
    DEF EpisodesInv, TakeInv, CountInv, OriginInv, EpRecorders
<1>8. CountInv'
  <2>1. recorder.at = "loop"
    BY DEF Episodes!Observe
  <2> QED
    BY <1>1, <1>2, <1>3, <2>1, EpisodesNumbers
    DEF EpisodesInv, TakeInv, CountInv, OriginInv, EpRecorders
<1>9. OriginInv'
  <2>1. recorder.at = "loop"
    BY DEF Episodes!Observe
  <2> QED
    BY <1>1, <1>2, <1>3, <2>1, EpisodesNumbers
    DEF EpisodesInv, TakeInv, CountInv, OriginInv, EpRecorders
<1> QED
  BY <1>6, <1>7, <1>8, <1>9 DEF EpisodesInv

\* The action is sent and, where that is the program, its frame recorded.
LEMMA EpSend ==
    ASSUME EpisodesInv, Episodes!Send, UNCHANGED <<program, requester>>
    PROVE  EpisodesInv'
<1>1. /\ program \in EpPrograms /\ events \in EpEvents /\ recorder \in EpRecorders
      /\ client \in EpClients /\ requester \in EpRequesters /\ dataset \in EpDatasets
      /\ asked \in EpHistories
  BY EpisodesTypes DEF EpisodesInv
<1>2. UNCHANGED <<program, events, client, requester, asked>>
  BY DEF Episodes!Send
<1>3. recorder' \in EpRecorders
  <2>1. recorder.steps + 1 \in 0 .. Control
    BY EpisodesNumbers DEF Episodes!Send, EpisodesInv, CountInv
  <2> QED
    BY <1>1, <2>1 DEF Episodes!Send, EpRecorders
<1>4. dataset' \in EpDatasets
  BY <1>1, EpisodesValues, EpisodesNumbers
  DEF Episodes!Send, Episodes!Goto, EpisodesInv, CountInv, EpDatasets, Episodes!Takes, Episodes!Timesteps
<1>5. Episodes!TypeOK'
  BY <1>1, <1>2, <1>3, <1>4, EpisodesTypesNext
<1>6. TakeInv'
  BY <1>1, EpisodesNumbers
  DEF Episodes!Send, Episodes!Goto, EpisodesInv, TakeInv, EpEvents, EpRecorders, EpDatasets, EpHistories
<1>7. CountInv'
  BY <1>1, EpisodesNumbers
  DEF Episodes!Send, Episodes!Goto, EpisodesInv, CountInv, EpEvents, EpRecorders, EpClients, EpDatasets
<1>8. OriginInv'
  BY <1>1
  DEF Episodes!Send, Episodes!Goto, EpisodesInv, OriginInv, CountInv, EpRecorders, EpClients, EpRequesters,
      EpHistories
<1> QED
  BY <1>5, <1>6, <1>7, <1>8 DEF EpisodesInv

\* An episode is followed by a reset, or decided on.
LEMMA EpLeave ==
    ASSUME EpisodesInv, Episodes!Leave, UNCHANGED <<program, requester>>
    PROVE  EpisodesInv'
<1>1. /\ program \in EpPrograms /\ events \in EpEvents /\ recorder \in EpRecorders
      /\ client \in EpClients /\ requester \in EpRequesters /\ dataset \in EpDatasets
      /\ asked \in EpHistories
  BY EpisodesTypes DEF EpisodesInv
<1>2. UNCHANGED <<program, events, client, requester, dataset, asked>>
  BY DEF Episodes!Leave
<1>3. \/ recorder' = [at |-> "loop", reset |-> TRUE, take |-> recorder.take, steps |-> 0,
                      action |-> recorder.action]
      \/ recorder' = [at |-> "decide", reset |-> recorder.reset, take |-> recorder.take,
                      steps |-> recorder.steps, action |-> {}]
  <2>1. \/ recorder' = [recorder EXCEPT !.at = "loop", !.reset = TRUE, !.steps = 0]
        \/ Episodes!Goto("decide")
    BY DEF Episodes!Leave
  <2> QED
    BY <1>1, <2>1 DEF Episodes!Goto, EpRecorders
<1>4. recorder' \in EpRecorders
  BY <1>1, EpisodesValues, EpisodesNumbers
  DEF Episodes!Leave, Episodes!Goto, EpisodesInv, CountInv, EpRecorders, Episodes!Takes, Episodes!Timesteps
<1>5. Episodes!TypeOK'
  BY <1>1, <1>2, <1>4, EpisodesTypesNext
<1>6. TakeInv'
  <2>1. recorder.at = "left"
    BY DEF Episodes!Leave
  <2> QED
    BY <1>1, <1>2, <1>3, <2>1, EpisodesNumbers
    DEF EpisodesInv, TakeInv, CountInv, OriginInv, EpRecorders
<1>7. CountInv'
  <2>1. recorder.at = "left"
    BY DEF Episodes!Leave
  <2> QED
    BY <1>1, <1>2, <1>3, <2>1, EpisodesNumbers
    DEF EpisodesInv, TakeInv, CountInv, OriginInv, EpRecorders
<1>8. OriginInv'
  <2>1. recorder.at = "left"
    BY DEF Episodes!Leave
  <2> QED
    BY <1>1, <1>2, <1>3, <2>1, EpisodesNumbers
    DEF EpisodesInv, TakeInv, CountInv, OriginInv, EpRecorders
<1> QED
  BY <1>5, <1>6, <1>7, <1>8 DEF EpisodesInv

\* The take is thrown away.
LEMMA EpDiscard ==
    ASSUME EpisodesInv, Episodes!Discard, UNCHANGED <<program, requester>>
    PROVE  EpisodesInv'
<1>1. /\ program \in EpPrograms /\ events \in EpEvents /\ recorder \in EpRecorders
      /\ client \in EpClients /\ requester \in EpRequesters /\ dataset \in EpDatasets
      /\ asked \in EpHistories
  BY EpisodesTypes DEF EpisodesInv
<1>2. UNCHANGED <<program, client, requester>>
  BY DEF Episodes!Discard
<1>3. events' \in EpEvents
  BY <1>1, EpisodesValues, EpisodesNumbers
  DEF Episodes!Discard, Episodes!Goto, EpisodesInv, CountInv, EpEvents, Episodes!Takes, Episodes!Timesteps
<1>4. recorder' \in EpRecorders
  BY <1>1, EpisodesValues, EpisodesNumbers
  DEF Episodes!Discard, Episodes!Goto, EpisodesInv, CountInv, EpRecorders, Episodes!Takes, Episodes!Timesteps
<1>5. dataset' \in EpDatasets
  BY <1>1, EpisodesValues, EpisodesNumbers
  DEF Episodes!Discard, Episodes!Goto, EpisodesInv, CountInv, EpDatasets, Episodes!Takes, Episodes!Timesteps
<1>6. asked' \in EpHistories
  BY <1>1, EpisodesValues, EpisodesNumbers
  DEF Episodes!Discard, Episodes!Goto, EpisodesInv, CountInv, EpHistories, Episodes!Takes, Episodes!Timesteps
<1>7. Episodes!TypeOK'
  BY <1>1, <1>2, <1>3, <1>4, <1>5, <1>6, EpisodesTypesNext
<1>8. TakeInv'
  BY <1>1, EpisodesNumbers
  DEF Episodes!Discard, Episodes!Goto, EpisodesInv, TakeInv, EpEvents, EpRecorders, EpDatasets, EpHistories
<1>9. CountInv'
  BY <1>1, EpisodesNumbers
  DEF Episodes!Discard, Episodes!Goto, EpisodesInv, CountInv, EpEvents, EpRecorders, EpClients, EpDatasets
<1>10. OriginInv'
  BY <1>1
  DEF Episodes!Discard, Episodes!Goto, EpisodesInv, OriginInv, CountInv, EpRecorders, EpClients, EpRequesters,
      EpHistories
<1> QED
  BY <1>7, <1>8, <1>9, <1>10 DEF EpisodesInv

\* The take is kept.
LEMMA EpKeep ==
    ASSUME EpisodesInv, Episodes!Keep, UNCHANGED <<program, requester>>
    PROVE  EpisodesInv'
<1>1. /\ program \in EpPrograms /\ events \in EpEvents /\ recorder \in EpRecorders
      /\ client \in EpClients /\ requester \in EpRequesters /\ dataset \in EpDatasets
      /\ asked \in EpHistories
  BY EpisodesTypes DEF EpisodesInv
<1>2. UNCHANGED <<program, events, client, requester, dataset, asked>>
  BY DEF Episodes!Keep
<1>3. recorder' \in EpRecorders
  BY <1>1, EpisodesValues, EpisodesNumbers
  DEF Episodes!Keep, Episodes!Goto, EpisodesInv, CountInv, EpRecorders, Episodes!Takes, Episodes!Timesteps
<1>4. Episodes!TypeOK'
  BY <1>1, <1>2, <1>3, EpisodesTypesNext
<1>5. TakeInv'
  BY <1>1, EpisodesNumbers
  DEF Episodes!Keep, Episodes!Goto, EpisodesInv, TakeInv, EpEvents, EpRecorders, EpDatasets, EpHistories
<1>6. CountInv'
  BY <1>1, EpisodesNumbers
  DEF Episodes!Keep, Episodes!Goto, EpisodesInv, CountInv, EpEvents, EpRecorders, EpClients, EpDatasets
<1>7. OriginInv'
  BY <1>1
  DEF Episodes!Keep, Episodes!Goto, EpisodesInv, OriginInv, CountInv, EpRecorders, EpClients, EpRequesters,
      EpHistories
<1> QED
  BY <1>4, <1>5, <1>6, <1>7 DEF EpisodesInv

\* The take is saved, or saving it raises.
LEMMA EpSave ==
    ASSUME EpisodesInv, Episodes!Save, UNCHANGED <<program, requester>>
    PROVE  EpisodesInv'
<1>1. /\ program \in EpPrograms /\ events \in EpEvents /\ recorder \in EpRecorders
      /\ client \in EpClients /\ requester \in EpRequesters /\ dataset \in EpDatasets
      /\ asked \in EpHistories
  BY EpisodesTypes DEF EpisodesInv
<1>2. UNCHANGED <<program, events, client, requester, asked>>
  BY DEF Episodes!Save
<1>3. \/ /\ dataset' = [buffer |-> {}, saved |-> dataset.saved + 1]
         /\ recorder' = [at |-> "begin", reset |-> recorder.reset, take |-> recorder.take,
                         steps |-> recorder.steps, action |-> {}]
      \/ /\ dataset' = dataset
         /\ recorder' = [at |-> "finally", reset |-> recorder.reset, take |-> recorder.take,
                         steps |-> recorder.steps, action |-> {}]
  BY <1>1 DEF Episodes!Save, Episodes!Goto, EpRecorders
<1>4. recorder' \in EpRecorders
  BY <1>1, EpisodesValues, EpisodesNumbers
  DEF Episodes!Save, Episodes!Goto, EpisodesInv, CountInv, EpRecorders, Episodes!Takes, Episodes!Timesteps
<1>5. dataset' \in EpDatasets
  BY <1>1, EpisodesValues, EpisodesNumbers
  DEF Episodes!Save, Episodes!Goto, EpisodesInv, CountInv, EpDatasets, Episodes!Takes, Episodes!Timesteps
<1>6. Episodes!TypeOK'
  BY <1>1, <1>2, <1>4, <1>5, EpisodesTypesNext
<1>7. TakeInv'
  <2>1. recorder.at = "saving"
    BY DEF Episodes!Save
  <2> QED
    BY <1>1, <1>2, <1>3, <2>1, EpisodesNumbers DEF EpisodesInv, TakeInv, CountInv
<1>8. CountInv'
  <2>1. recorder.at = "saving"
    BY DEF Episodes!Save
  <2> QED
    BY <1>1, <1>2, <1>3, <2>1, EpisodesNumbers DEF EpisodesInv, TakeInv, CountInv
<1>9. OriginInv'
  BY <1>1
  DEF Episodes!Save, Episodes!Goto, EpisodesInv, OriginInv, CountInv, EpRecorders, EpClients, EpRequesters,
      EpHistories
<1> QED
  BY <1>6, <1>7, <1>8, <1>9 DEF EpisodesInv

\* No episode is left, or the operator stopped.
LEMMA EpComplete ==
    ASSUME EpisodesInv, Episodes!Complete, UNCHANGED <<program, requester>>
    PROVE  EpisodesInv'
<1>1. /\ program \in EpPrograms /\ events \in EpEvents /\ recorder \in EpRecorders
      /\ client \in EpClients /\ requester \in EpRequesters /\ dataset \in EpDatasets
      /\ asked \in EpHistories
  BY EpisodesTypes DEF EpisodesInv
<1>2. UNCHANGED <<program, events, client, requester, dataset, asked>>
  BY DEF Episodes!Complete
<1>3. recorder' \in EpRecorders
  BY <1>1, EpisodesValues, EpisodesNumbers
  DEF Episodes!Complete, Episodes!Goto, EpisodesInv, CountInv, EpRecorders, Episodes!Takes, Episodes!Timesteps
<1>4. Episodes!TypeOK'
  BY <1>1, <1>2, <1>3, EpisodesTypesNext
<1>5. TakeInv'
  BY <1>1, EpisodesNumbers
  DEF Episodes!Complete, Episodes!Goto, EpisodesInv, TakeInv, EpEvents, EpRecorders, EpDatasets, EpHistories
<1>6. CountInv'
  BY <1>1, EpisodesNumbers
  DEF Episodes!Complete, Episodes!Goto, EpisodesInv, CountInv, EpEvents, EpRecorders, EpClients, EpDatasets
<1>7. OriginInv'
  BY <1>1
  DEF Episodes!Complete, Episodes!Goto, EpisodesInv, OriginInv, CountInv, EpRecorders, EpClients, EpRequesters,
      EpHistories
<1> QED
  BY <1>4, <1>5, <1>6, <1>7 DEF EpisodesInv

\* The dataset and the devices are let go.
LEMMA EpFinally ==
    ASSUME EpisodesInv, Episodes!Finally, UNCHANGED <<program, requester>>
    PROVE  EpisodesInv'
<1>1. /\ program \in EpPrograms /\ events \in EpEvents /\ recorder \in EpRecorders
      /\ client \in EpClients /\ requester \in EpRequesters /\ dataset \in EpDatasets
      /\ asked \in EpHistories
  BY EpisodesTypes DEF EpisodesInv
<1>2. UNCHANGED <<program, events, client, requester, dataset, asked>>
  BY DEF Episodes!Finally
<1>3. recorder' \in EpRecorders
  BY <1>1, EpisodesValues, EpisodesNumbers
  DEF Episodes!Finally, Episodes!Goto, EpisodesInv, CountInv, EpRecorders, Episodes!Takes, Episodes!Timesteps
<1>4. Episodes!TypeOK'
  BY <1>1, <1>2, <1>3, EpisodesTypesNext
<1>5. TakeInv'
  BY <1>1, EpisodesNumbers
  DEF Episodes!Finally, Episodes!Goto, EpisodesInv, TakeInv, EpEvents, EpRecorders, EpDatasets, EpHistories
<1>6. CountInv'
  BY <1>1, EpisodesNumbers
  DEF Episodes!Finally, Episodes!Goto, EpisodesInv, CountInv, EpEvents, EpRecorders, EpClients, EpDatasets
<1>7. OriginInv'
  BY <1>1
  DEF Episodes!Finally, Episodes!Goto, EpisodesInv, OriginInv, CountInv, EpRecorders, EpClients, EpRequesters,
      EpHistories
<1> QED
  BY <1>4, <1>5, <1>6, <1>7 DEF EpisodesInv

\* The robot or the teleoperator raises.
LEMMA EpRaise ==
    ASSUME EpisodesInv, Episodes!Raise, UNCHANGED <<program, requester>>
    PROVE  EpisodesInv'
<1>1. /\ program \in EpPrograms /\ events \in EpEvents /\ recorder \in EpRecorders
      /\ client \in EpClients /\ requester \in EpRequesters /\ dataset \in EpDatasets
      /\ asked \in EpHistories
  BY EpisodesTypes DEF EpisodesInv
<1>2. UNCHANGED <<program, events, client, requester, dataset, asked>>
  BY DEF Episodes!Raise
<1>3. recorder' \in EpRecorders
  BY <1>1, EpisodesValues, EpisodesNumbers
  DEF Episodes!Raise, Episodes!Goto, EpisodesInv, CountInv, EpRecorders, Episodes!Takes, Episodes!Timesteps
<1>4. Episodes!TypeOK'
  BY <1>1, <1>2, <1>3, EpisodesTypesNext
<1>5. TakeInv'
  BY <1>1, EpisodesNumbers
  DEF Episodes!Raise, Episodes!Goto, EpisodesInv, TakeInv, EpEvents, EpRecorders, EpDatasets, EpHistories
<1>6. CountInv'
  BY <1>1, EpisodesNumbers
  DEF Episodes!Raise, Episodes!Goto, EpisodesInv, CountInv, EpEvents, EpRecorders, EpClients, EpDatasets
<1>7. OriginInv'
  BY <1>1
  DEF Episodes!Raise, Episodes!Goto, EpisodesInv, OriginInv, CountInv, EpRecorders, EpClients, EpRequesters,
      EpHistories
<1> QED
  BY <1>4, <1>5, <1>6, <1>7 DEF EpisodesInv

\* The request thread is woken.
LEMMA EpWake ==
    ASSUME EpisodesInv, Episodes!Wake, UNCHANGED <<program, events, recorder, dataset, asked>>
    PROVE  EpisodesInv'
<1>1. /\ program \in EpPrograms /\ events \in EpEvents /\ recorder \in EpRecorders
      /\ client \in EpClients /\ requester \in EpRequesters /\ dataset \in EpDatasets
      /\ asked \in EpHistories
  BY EpisodesTypes DEF EpisodesInv
<1>2. UNCHANGED <<program, events, recorder, dataset, asked>>
  BY DEF Episodes!Wake
<1>3. client' \in EpClients
  BY <1>1, EpisodesValues, EpisodesNumbers
  DEF Episodes!Wake, EpisodesInv, CountInv, EpClients, Episodes!Takes, Episodes!Timesteps
<1>4. requester' \in EpRequesters
  BY <1>1, EpisodesValues, EpisodesNumbers
  DEF Episodes!Wake, EpisodesInv, CountInv, EpRequesters, Episodes!Takes, Episodes!Timesteps
<1>5. Episodes!TypeOK'
  BY <1>1, <1>2, <1>3, <1>4, EpisodesTypesNext
<1>6. TakeInv'
  BY <1>1, EpisodesNumbers
  DEF Episodes!Wake, EpisodesInv, TakeInv, EpEvents, EpRecorders, EpDatasets, EpHistories
<1>7. CountInv'
  BY <1>1, EpisodesNumbers
  DEF Episodes!Wake, EpisodesInv, CountInv, EpEvents, EpRecorders, EpClients, EpDatasets
<1>8. OriginInv'
  BY <1>1
  DEF Episodes!Wake, EpisodesInv, OriginInv, CountInv, EpRecorders, EpClients, EpRequesters,
      EpHistories
<1> QED
  BY <1>5, <1>6, <1>7, <1>8 DEF EpisodesInv

\* It takes the last observation.
LEMMA EpTake ==
    ASSUME EpisodesInv, Episodes!Take, UNCHANGED <<program, events, recorder, dataset, asked>>
    PROVE  EpisodesInv'
<1>1. /\ program \in EpPrograms /\ events \in EpEvents /\ recorder \in EpRecorders
      /\ client \in EpClients /\ requester \in EpRequesters /\ dataset \in EpDatasets
      /\ asked \in EpHistories
  BY EpisodesTypes DEF EpisodesInv
<1>2. UNCHANGED <<program, events, recorder, client, dataset, asked>>
  BY DEF Episodes!Take
<1>3. requester' \in EpRequesters
  <2>1. client.last \in Episodes!Observations
    BY <1>1 DEF EpClients
  <2>2. requester' \in {[requester EXCEPT !.at = "wait"],
                        [requester EXCEPT !.at = "taken", !.obs = client.last]}
    BY DEF Episodes!Take
  <2> QED
    BY <1>1, <2>1, <2>2 DEF EpRequesters
<1>4. Episodes!TypeOK'
  BY <1>1, <1>2, <1>3, EpisodesTypesNext
<1>5. TakeInv'
  BY <1>1, EpisodesNumbers
  DEF Episodes!Take, EpisodesInv, TakeInv, EpEvents, EpRecorders, EpDatasets, EpHistories
<1>6. CountInv'
  BY <1>1, EpisodesNumbers
  DEF Episodes!Take, EpisodesInv, CountInv, EpEvents, EpRecorders, EpClients, EpDatasets
<1>7. OriginInv'
  BY <1>1
  DEF Episodes!Take, EpisodesInv, OriginInv, CountInv, EpRecorders, EpClients, EpRequesters,
      EpHistories
<1> QED
  BY <1>4, <1>5, <1>6, <1>7 DEF EpisodesInv

\* It labels and sends its request.
LEMMA EpRequest ==
    ASSUME EpisodesInv, Episodes!Request, UNCHANGED <<program, events, recorder, dataset, asked>>
    PROVE  EpisodesInv'
<1>1. /\ program \in EpPrograms /\ events \in EpEvents /\ recorder \in EpRecorders
      /\ client \in EpClients /\ requester \in EpRequesters /\ dataset \in EpDatasets
      /\ asked \in EpHistories
  BY EpisodesTypes DEF EpisodesInv
<1>2. UNCHANGED <<program, events, recorder, dataset, asked>>
  BY DEF Episodes!Request
<1>3. client' \in EpClients
  BY <1>1, EpisodesValues, EpisodesNumbers
  DEF Episodes!Request, EpisodesInv, CountInv, EpClients, Episodes!Takes, Episodes!Timesteps
<1>4. requester' \in EpRequesters
  <2>1. client.timestep \in Episodes!Timesteps
    BY <1>1 DEF EpClients
  <2> QED
    BY <1>1, <2>1 DEF Episodes!Request, EpRequesters
<1>5. Episodes!TypeOK'
  BY <1>1, <1>2, <1>3, <1>4, EpisodesTypesNext
<1>6. TakeInv'
  BY <1>1, EpisodesNumbers
  DEF Episodes!Request, EpisodesInv, TakeInv, EpEvents, EpRecorders, EpDatasets, EpHistories
<1>7. CountInv'
  BY <1>1, EpisodesNumbers
  DEF Episodes!Request, EpisodesInv, CountInv, EpEvents, EpRecorders, EpClients, EpDatasets
<1>8. OriginInv'
  BY <1>1
  DEF Episodes!Request, EpisodesInv, OriginInv, CountInv, EpRecorders, EpClients, EpRequesters,
      EpHistories
<1> QED
  BY <1>5, <1>6, <1>7, <1>8 DEF EpisodesInv

\* The answer comes, or ends the thread.
LEMMA EpAnswer ==
    ASSUME EpisodesInv, Episodes!Answer, UNCHANGED <<program, events, recorder, dataset, asked>>
    PROVE  EpisodesInv'
<1>1. /\ program \in EpPrograms /\ events \in EpEvents /\ recorder \in EpRecorders
      /\ client \in EpClients /\ requester \in EpRequesters /\ dataset \in EpDatasets
      /\ asked \in EpHistories
  BY EpisodesTypes DEF EpisodesInv
<1>2. UNCHANGED <<program, events, recorder, dataset, asked>>
  BY DEF Episodes!Answer
<1>3. client' \in EpClients
  BY <1>1, EpisodesValues, EpisodesNumbers
  DEF Episodes!Answer, EpisodesInv, CountInv, EpClients, Episodes!Takes, Episodes!Timesteps
<1>4. requester' \in EpRequesters
  BY <1>1, EpisodesValues, EpisodesNumbers
  DEF Episodes!Answer, EpisodesInv, CountInv, EpRequesters, Episodes!Takes, Episodes!Timesteps
<1>5. Episodes!TypeOK'
  BY <1>1, <1>2, <1>3, <1>4, EpisodesTypesNext
<1>6. TakeInv'
  BY <1>1, EpisodesNumbers
  DEF Episodes!Answer, EpisodesInv, TakeInv, EpEvents, EpRecorders, EpDatasets, EpHistories
<1>7. CountInv'
  BY <1>1, EpisodesNumbers
  DEF Episodes!Answer, EpisodesInv, CountInv, EpEvents, EpRecorders, EpClients, EpDatasets
<1>8. OriginInv'
  BY <1>1
  DEF Episodes!Answer, EpisodesInv, OriginInv, CountInv, EpRecorders, EpClients, EpRequesters,
      EpHistories
<1> QED
  BY <1>5, <1>6, <1>7, <1>8 DEF EpisodesInv

\* Or it never comes, and the thread asks no more.
LEMMA EpNoAnswer ==
    ASSUME EpisodesInv, Episodes!NoAnswer
    PROVE  EpisodesInv'
<1>1. /\ program \in EpPrograms /\ events \in EpEvents /\ recorder \in EpRecorders
      /\ client \in EpClients /\ requester \in EpRequesters /\ dataset \in EpDatasets
      /\ asked \in EpHistories
  BY EpisodesTypes DEF EpisodesInv
<1>2. UNCHANGED <<program, events, recorder, client, dataset, asked>>
  BY DEF Episodes!NoAnswer
<1>3. requester' \in EpRequesters /\ requester.at = "flight" /\ requester'.at = "lost"
  BY <1>1 DEF Episodes!NoAnswer, EpRequesters
<1>4. Episodes!TypeOK'
  BY <1>1, <1>2, <1>3, EpisodesTypesNext
<1>5. TakeInv'
  BY <1>2 DEF EpisodesInv, TakeInv
<1>6. CountInv'
  BY <1>2, <1>3 DEF EpisodesInv, CountInv
<1>7. OriginInv'
  BY <1>2, <1>3 DEF EpisodesInv, OriginInv
<1> QED
  BY <1>4, <1>5, <1>6, <1>7 DEF EpisodesInv

\* The actions of an answer are put in the queue.
LEMMA EpStore ==
    ASSUME EpisodesInv, Episodes!Store, UNCHANGED <<program, events, recorder, dataset, asked>>
    PROVE  EpisodesInv'
<1>1. /\ program \in EpPrograms /\ events \in EpEvents /\ recorder \in EpRecorders
      /\ client \in EpClients /\ requester \in EpRequesters /\ dataset \in EpDatasets
      /\ asked \in EpHistories
  BY EpisodesTypes DEF EpisodesInv
<1>2. UNCHANGED <<program, events, recorder, dataset, asked>>
  BY DEF Episodes!Store
<1>3. /\ requester' = [at |-> "wait", obs |-> Episodes!None, label |-> 0]
      /\ client' = [timestep |-> client.timestep, queue |-> Episodes!Aggregate,
                    last |-> client.last, event |-> client.event,
                    in_flight |-> client.in_flight]
  BY <1>1 DEF Episodes!Store, EpClients
<1>4. client' \in EpClients
  <2>1. requester.obs \in Episodes!Observations
    BY <1>1 DEF EpRequesters
  <2>2. client.queue \in [Episodes!Timesteps -> SUBSET Episodes!Observations]
    BY <1>1 DEF EpClients
  <2>3. ASSUME NEW t \in Episodes!Timesteps
        PROVE  (IF t < client.timestep THEN {}
                ELSE client.queue[t] \cup
                    (IF t \in requester.label .. requester.label + Chunk - 1
                     THEN {requester.obs} ELSE {})) \in SUBSET Episodes!Observations
    BY <2>1, <2>2
  <2>4. Episodes!Aggregate \in [Episodes!Timesteps -> SUBSET Episodes!Observations]
    BY <2>3 DEF Episodes!Aggregate
  <2> QED
    BY <1>1, <1>3, <2>4 DEF EpClients
<1>5. requester' \in EpRequesters
  BY <1>1, EpisodesValues, EpisodesNumbers
  DEF Episodes!Store, EpisodesInv, CountInv, EpRequesters, Episodes!Takes, Episodes!Timesteps
<1>6. Episodes!TypeOK'
  BY <1>1, <1>2, <1>4, <1>5, EpisodesTypesNext
<1>7. TakeInv'
  BY <1>1, EpisodesNumbers
  DEF Episodes!Store, EpisodesInv, TakeInv, EpEvents, EpRecorders, EpDatasets, EpHistories
<1>8. CountInv'
  BY <1>1, EpisodesNumbers
  DEF Episodes!Store, EpisodesInv, CountInv, EpEvents, EpRecorders, EpClients, EpDatasets
<1>9. OriginInv'
  <2>1. requester.at = "reply" /\ requester'.at = "wait" /\ client'.event = client.event
    BY <1>3 DEF Episodes!Store
  <2>2. ASSUME NEW t \in Episodes!Timesteps
        PROVE  client'.queue[t] \subseteq client.queue[t] \cup {requester.obs}
    BY <1>3 DEF Episodes!Aggregate
  <2> QED
    BY <1>2, <1>3, <2>1, <2>2 DEF EpisodesInv, OriginInv
<1> QED
  BY <1>6, <1>7, <1>8, <1>9 DEF EpisodesInv

\* The operator ends the episode,
LEMMA EpRight ==
    ASSUME EpisodesInv, Episodes!Right, UNCHANGED <<program, recorder, client, requester, dataset>>
    PROVE  EpisodesInv'
<1>1. /\ program \in EpPrograms /\ events \in EpEvents /\ recorder \in EpRecorders
      /\ client \in EpClients /\ requester \in EpRequesters /\ dataset \in EpDatasets
      /\ asked \in EpHistories
  BY EpisodesTypes DEF EpisodesInv
<1>2. UNCHANGED <<program, recorder, client, requester, dataset, asked>>
  BY DEF Episodes!Right
<1>3. events' \in EpEvents
  BY <1>1, EpisodesValues, EpisodesNumbers
  DEF Episodes!Right, Episodes!Listening, EpisodesInv, CountInv, EpEvents, Episodes!Takes, Episodes!Timesteps
<1>4. Episodes!TypeOK'
  BY <1>1, <1>2, <1>3, EpisodesTypesNext
<1>5. TakeInv'
  BY <1>1, EpisodesNumbers
  DEF Episodes!Right, Episodes!Listening, EpisodesInv, TakeInv, EpEvents, EpRecorders, EpDatasets, EpHistories
<1>6. CountInv'
  BY <1>1, EpisodesNumbers
  DEF Episodes!Right, Episodes!Listening, EpisodesInv, CountInv, EpEvents, EpRecorders, EpClients, EpDatasets
<1>7. OriginInv'
  BY <1>1
  DEF Episodes!Right, Episodes!Listening, EpisodesInv, OriginInv, CountInv, EpRecorders, EpClients, EpRequesters,
      EpHistories
<1> QED
  BY <1>4, <1>5, <1>6, <1>7 DEF EpisodesInv

\* asks for another take,
LEMMA EpLeft ==
    ASSUME EpisodesInv, Episodes!Left, UNCHANGED <<program, recorder, client, requester, dataset>>
    PROVE  EpisodesInv'
<1>1. /\ program \in EpPrograms /\ events \in EpEvents /\ recorder \in EpRecorders
      /\ client \in EpClients /\ requester \in EpRequesters /\ dataset \in EpDatasets
      /\ asked \in EpHistories
  BY EpisodesTypes DEF EpisodesInv
<1>2. UNCHANGED <<program, recorder, client, requester, dataset>>
  BY DEF Episodes!Left
<1>3. events' \in EpEvents
  BY <1>1, EpisodesValues, EpisodesNumbers
  DEF Episodes!Left, Episodes!Listening, EpisodesInv, CountInv, EpEvents, Episodes!Takes, Episodes!Timesteps
<1>4. asked' \in EpHistories
  <2>1. recorder.take \in Episodes!Takes
    BY <1>1 DEF EpRecorders
  <2> QED
    BY <1>1, <2>1, EpisodesValues DEF Episodes!Left, EpHistories
<1>5. Episodes!TypeOK'
  BY <1>1, <1>2, <1>3, <1>4, EpisodesTypesNext
<1>6. TakeInv'
  BY <1>1, EpisodesNumbers
  DEF Episodes!Left, Episodes!Listening, EpisodesInv, TakeInv, EpEvents, EpRecorders, EpDatasets, EpHistories
<1>7. CountInv'
  BY <1>1, EpisodesNumbers
  DEF Episodes!Left, Episodes!Listening, EpisodesInv, CountInv, EpEvents, EpRecorders, EpClients, EpDatasets
<1>8. OriginInv'
  BY <1>1
  DEF Episodes!Left, Episodes!Listening, EpisodesInv, OriginInv, CountInv, EpRecorders, EpClients, EpRequesters,
      EpHistories
<1> QED
  BY <1>5, <1>6, <1>7, <1>8 DEF EpisodesInv

\* or stops.
LEMMA EpEsc ==
    ASSUME EpisodesInv, Episodes!Esc, UNCHANGED <<program, recorder, client, requester, dataset>>
    PROVE  EpisodesInv'
<1>1. /\ program \in EpPrograms /\ events \in EpEvents /\ recorder \in EpRecorders
      /\ client \in EpClients /\ requester \in EpRequesters /\ dataset \in EpDatasets
      /\ asked \in EpHistories
  BY EpisodesTypes DEF EpisodesInv
<1>2. UNCHANGED <<program, recorder, client, requester, dataset, asked>>
  BY DEF Episodes!Esc
<1>3. events' \in EpEvents
  BY <1>1, EpisodesValues, EpisodesNumbers
  DEF Episodes!Esc, Episodes!Listening, EpisodesInv, CountInv, EpEvents, Episodes!Takes, Episodes!Timesteps
<1>4. Episodes!TypeOK'
  BY <1>1, <1>2, <1>3, EpisodesTypesNext
<1>5. TakeInv'
  BY <1>1, EpisodesNumbers
  DEF Episodes!Esc, Episodes!Listening, EpisodesInv, TakeInv, EpEvents, EpRecorders, EpDatasets, EpHistories
<1>6. CountInv'
  BY <1>1, EpisodesNumbers
  DEF Episodes!Esc, Episodes!Listening, EpisodesInv, CountInv, EpEvents, EpRecorders, EpClients, EpDatasets
<1>7. OriginInv'
  BY <1>1
  DEF Episodes!Esc, Episodes!Listening, EpisodesInv, OriginInv, CountInv, EpRecorders, EpClients, EpRequesters,
      EpHistories
<1> QED
  BY <1>4, <1>5, <1>6, <1>7 DEF EpisodesInv

\* Every step of the loops, the request thread and the listener.
LEMMA EpisodesStep == EpisodesInv /\ Episodes!Next => EpisodesInv'
<1> SUFFICES ASSUME EpisodesInv, Episodes!Next PROVE EpisodesInv'
  OBVIOUS
<1>1. CASE Episodes!LoopStep
  BY <1>1, EpResetQueue, EpResetRest, EpPop, EpPolicyTimeout, EpExitEarly, EpObserve, EpSend, EpLeave, EpDiscard, EpKeep, EpSave, EpComplete, EpFinally
  DEF Episodes!LoopStep
<1>2. CASE Episodes!ThreadStep
  BY <1>2, EpWake, EpTake, EpRequest, EpAnswer, EpStore DEF Episodes!ThreadStep
<1>3. CASE Episodes!KeyPress
  BY <1>3, EpRight, EpLeft, EpEsc DEF Episodes!KeyPress
<1>4. CASE Episodes!Raise /\ UNCHANGED <<program, requester>>
  BY <1>4, EpRaise
<1> QED
  BY <1>1, <1>2, <1>3, <1>4, EpNoAnswer DEF Episodes!Next

----------------------------------------------------------------------------
(* The adapter, with its sender in either place.                           *)

\* The invariants of both places hold: the one the configuration did not choose
\* stays as it began, and the age of the target is the one thing they share.
AdapterInv ==
    /\ servo_process \in BOOLEAN /\ watchdog \in BOOLEAN
    /\ ThreadInv /\ ProcessInv

\* The adapter begins in it, whichever place was chosen.
LEMMA AdapterInit == Init => AdapterInv
BY ThreadInit, ProcessInit DEF Init, Adapter!Init, Adapter!Thread!Init, AdapterInv

\* A step in one place leaves the other, but for the age of the target.
LEMMA AdapterStep == AdapterInv /\ Adapter!Next => AdapterInv'
<1> SUFFICES ASSUME AdapterInv, Adapter!Next PROVE AdapterInv'
  OBVIOUS
<1>1. CASE Adapter!InThread /\ Adapter!Thread!Next
  <2>1. ThreadInv'
    BY <1>1, ThreadStep DEF AdapterInv
  <2>2. age' \in Ages
    BY <2>1 DEF ThreadInv, ThreadTypeOK
  <2>3. UNCHANGED <<parent, event, child, failing, reqs, resps, inServo, seen>>
    BY <1>1 DEF Adapter!InThread, Adapter!processVars
  <2>4. ProcessInv'
    BY <2>2, <2>3, ProcessStutter DEF AdapterInv
  <2> QED
    BY <1>1, <2>1, <2>4 DEF AdapterInv, Adapter!InThread, Adapter!configVars
<1>2. CASE Adapter!InProcess /\ Adapter!Process!Next
  <2>1. ProcessInv'
    BY <1>2, ProcessStep DEF AdapterInv
  <2>2. age' \in Ages
    BY <2>1 DEF ProcessInv, Adapter!Process!TypeOK, Ages
  <2>3. UNCHANGED <<caller, link, servo, sender, arm, excused>>
    BY <1>2 DEF Adapter!InProcess, Adapter!threadVars
  <2>4. ThreadInv'
    BY <2>2, <2>3, ThreadStutter DEF AdapterInv
  <2> QED
    BY <1>2, <2>1, <2>4 DEF AdapterInv, Adapter!InProcess, Adapter!configVars
<1> QED
  BY <1>1, <1>2 DEF Adapter!Next

\* A step of another part leaves both.
LEMMA AdapterStutter == AdapterInv /\ UNCHANGED adapterVars => AdapterInv'
<1> SUFFICES ASSUME AdapterInv, UNCHANGED adapterVars PROVE AdapterInv'
  OBVIOUS
<1>1. /\ servo_process' = servo_process /\ watchdog' = watchdog /\ age' = age
      /\ UNCHANGED <<caller, link, servo, sender, arm, excused>>
      /\ UNCHANGED <<parent, event, child, failing, reqs, resps, inServo, seen>>
  BY DEF adapterVars
<1>2. age' \in Ages
  BY <1>1, ThreadTypes DEF AdapterInv
<1> QED
  BY <1>1, <1>2, ThreadStutter, ProcessStutter DEF AdapterInv

----------------------------------------------------------------------------
(* The five parts together.                                                *)

\* One part runs, and the invariant of each holds.
Inv ==
    /\ part \in Parts
    /\ AdapterInv /\ PolicyInv /\ GripperInv /\ DashboardInv /\ EpisodesInv

\* Every part starts in its invariant.
LEMMA InvInit == Init => Inv
BY AdapterInit, PolicyInit, GripperInit, DashboardInit, EpisodesInit DEF Inv, Init

\* A step of one part keeps its invariant and leaves the others'.
LEMMA InvStep == Inv /\ [Next]_vars => Inv'
<1> SUFFICES ASSUME Inv, [Next]_vars PROVE Inv'
  OBVIOUS
<1>1. CASE AdapterOnly /\ Adapter!Next
  BY <1>1, AdapterStep, PolicyStutter, GripperStutter, DashboardStutter, EpisodesStutter
  DEF Inv, AdapterOnly
<1>2. CASE PolicyOnly /\ Policy!Next
  BY <1>2, PolicyStep, AdapterStutter, GripperStutter, DashboardStutter, EpisodesStutter
  DEF Inv, PolicyOnly
<1>3. CASE GripperOnly /\ Gripper!Next
  BY <1>3, GripperStep, AdapterStutter, PolicyStutter, DashboardStutter, EpisodesStutter
  DEF Inv, GripperOnly
<1>4. CASE DashboardOnly /\ Dashboard!Next
  BY <1>4, DashboardStep, AdapterStutter, PolicyStutter, GripperStutter, EpisodesStutter
  DEF Inv, DashboardOnly
<1>5. CASE EpisodesOnly /\ Episodes!Next
  BY <1>5, EpisodesStep, AdapterStutter, PolicyStutter, GripperStutter, DashboardStutter
  DEF Inv, EpisodesOnly
<1>6. CASE UNCHANGED vars
  <2>1. /\ part' = part
        /\ UNCHANGED adapterVars /\ UNCHANGED policyVars /\ UNCHANGED gripperVars
        /\ UNCHANGED dashboardVars /\ UNCHANGED episodesVars
    BY <1>6 DEF vars
  <2> QED
    BY <2>1, AdapterStutter, PolicyStutter, GripperStutter, DashboardStutter, EpisodesStutter
    DEF Inv
<1> QED
  BY <1>1, <1>2, <1>3, <1>4, <1>5, <1>6 DEF Next

\* What the dashboard's invariant says of the task that runs, of aborts and of the
\* status it leaves.
LEMMA DashboardPromises ==
    DashboardInv =>
        /\ Dashboard!PolicyOfTask /\ Dashboard!StartConfirmed /\ Dashboard!AbortHonoured
        /\ Dashboard!NeverStuck /\ Dashboard!BatchLockAccounted
<1> SUFFICES ASSUME DashboardInv
             PROVE  /\ Dashboard!PolicyOfTask /\ Dashboard!StartConfirmed
                    /\ Dashboard!AbortHonoured /\ Dashboard!NeverStuck
                    /\ Dashboard!BatchLockAccounted
  OBVIOUS
<1>1. Dashboard!PolicyOfTask
  BY DEF DashboardInv, FreshInv, Bound, Dashboard!PolicyOfTask
<1>2. Dashboard!StartConfirmed
  BY DEF DashboardInv, FreshInv, Cleared, Dashboard!StartConfirmed
<1>3. Dashboard!NeverStuck
  BY DEF DashboardInv, FreshInv, Dashboard!NeverStuck
<1> QED
  BY <1>1, <1>2, <1>3 DEF DashboardInv, StatusInv

\* And the episodes' of the take that is recorded, thrown away or played.
LEMMA EpisodesPromises ==
    EpisodesInv =>
        /\ Episodes!OneTake /\ Episodes!RerecordIsOfThisTake /\ Episodes!ActionsOfThisEpisode
BY DEF EpisodesInv, TakeInv, OriginInv, Episodes!OneTake, Episodes!RerecordIsOfThisTake,
       Episodes!ActionsOfThisEpisode

\* Every part's state has its type.
THEOREM TypeCorrect == Spec => []TypeOK
<1>1. Inv => TypeOK
  BY ThreadTyped DEF Inv, AdapterInv, ProcessInv, PolicyInv, GripperInv, DashboardInv,
         EpisodesInv, Adapter!TypeOK, TypeOK
<1> QED
  BY InvInit, InvStep, <1>1, PTL DEF Spec

\* Nothing moves a robot but what its caller means to: the adapter's only sender
\* thread, or its owner process until a stop was confirmed (jaka_robot.py); a task
\* under its own policy and, where it is asked for, the operator's Yes
\* (coordinator.py); actions predicted for the timestep and episode they are
\* played in (the policy proxy and the two episode loops).
THEOREM RobotsMoveAsMeant == Spec => []MovedAsMeant
<1>1. Inv => MovedAsMeant
  BY ThreadPromises, ProcessPromises, PolicyActions, DashboardPromises, EpisodesPromises
  DEF Inv, AdapterInv, Adapter!StreamIsTheAdapters, MovedAsMeant
<1> QED
  BY InvInit, InvStep, <1>1, PTL DEF Spec

\* The arm is left out of Servo Move by disconnect() and by the end of an owner
\* process, and let go of by a policy's program that ends by itself, unless a camera
\* or the Servo owner was gone, when disconnect() is skipped; an abort ends its task
\* as aborted, an idle dashboard takes keys, and a batch that ended frees its tasks,
\* except as the histories account for.
THEOREM NothingIsLeftBehind == Spec => []LeftAccounted
<1>1. Inv => LeftAccounted
  BY ThreadPromises, ProcessPromises, PolicyActions, DashboardPromises
  DEF Inv, AdapterInv, Adapter!ServoLeftAccounted, LeftAccounted
<1> QED
  BY InvInit, InvStep, <1>1, PTL DEF Spec

\* An answer of the owner process is the one to the request; the loop that waits
\* for an action will be given it, as long as the proxy's thread lives; a gripper
\* is where the policy last wanted it or will be tried again; and the take that
\* Left throws away is the one it was pressed for.
THEOREM WhatComesWasAskedFor == Spec => []AnswersMatch
<1>1. Inv => AnswersMatch
  BY ThreadPromises, ProcessPromises, PolicyServes, EpisodesPromises
  DEF Inv, AdapterInv, GripperInv, Adapter!AnswersMatch, AnswersMatch
<1> QED
  BY InvInit, InvStep, <1>1, PTL DEF Spec

\* send_action(use_servo=False) is never carried out between two frames of a Servo
\* session whose end was confirmed: the process that serves it has left Servo
\* Move, and there is no second one that streams.
THEOREM MovesOutsideServo == Spec => PlannedMoveOutsideServo
<1>1. Inv => ~Adapter!Process!MoveInsideServo
  BY ProcessMoves DEF Inv, AdapterInv
<1>2. Inv /\ [Next]_vars => [part = "adapter" => ~Adapter!Process!MoveInsideServo]_vars
  BY <1>1
<1> QED
  BY InvInit, InvStep, <1>2, PTL DEF Spec, PlannedMoveOutsideServo
=============================================================================
