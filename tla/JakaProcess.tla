---------------------------- MODULE JakaProcess ----------------------------
(***************************************************************************)
(* The JAKA adapter with config.servo_process: the SDK is owned by a child  *)
(* process (_servo_process_main) and the adapter reaches it by a request    *)
(* pipe and by events in shared memory.  robots/jaka_robot/jaka_robot.py.   *)
(* The controller, the SDK and the operating system are external.           *)
(***************************************************************************)
EXTENDS Naturals, Sequences, FiniteSets

CONSTANTS
    MaxChildren,      \* bound: owner processes started in a behaviour
    MaxRequests,      \* bound: requests sent to one process
    TargetTimeout     \* servo_process_parent_timeout_s, which is always in force, or
                      \* servo_target_timeout_s if that is set and smaller: both bound
                      \* the same age

VARIABLES
    parent,   \* [at, op, cur, active, id, alive]
    event,    \* child |-> the events of _start_servo_process that are set
    child,    \* child |-> where _servo_process_main is
    failing,  \* children whose loop raised
    reqs,     \* child |-> requests in the pipe
    resps,    \* child |-> responses in the pipe
    age,      \* ticks since target_updated_at was written
    inServo,  \* the controller is in Servo Move
    seen      \* history: [confirmed, foreign, refused, killed]

vars == <<parent, event, child, failing, reqs, resps, age, inServo, seen>>
childVars == <<child, failing>>

Children == 1 .. MaxChildren
None == 0
Events == {"stop", "active", "process_ready", "frame_ready", "inactive", "error"}
Requests == {"pose", "move", "disable_robot", "read"}

TypeOK ==
    /\ parent \in [at : {"idle", "startup", "rpc", "arming", "waiting", "stopping",
                         "shutdown", "gone"},
                   op : {"none", "connect", "enable", "disable", "disable_robot",
                         "disconnect", "move", "read"},
                   cur : Children \cup {None}, active : BOOLEAN, id : 0 .. MaxRequests]
    /\ event \in [Children -> SUBSET Events]
    /\ child \in [Children -> {"none", "starting", "idle", "noticed", "servo", "sending",
                               "between", "leaving", "erring", "finishing", "exited", "killed"}]
    /\ failing \in SUBSET Children
    /\ reqs \in [Children -> Seq([id : 1 .. MaxRequests, op : Requests])]
    /\ resps \in [Children -> Seq([id : 1 .. MaxRequests, op : Requests, ok : BOOLEAN])]
    /\ age \in 0 .. TargetTimeout + 1
    /\ inServo \in BOOLEAN
    /\ seen \in [confirmed : BOOLEAN, foreign : BOOLEAN,
                 refused : BOOLEAN, killed : BOOLEAN]

Init ==
    /\ parent = [at |-> "idle", op |-> "none", cur |-> None,
                 active |-> FALSE, id |-> 0]
    /\ event = [c \in Children |-> {}]
    /\ child = [c \in Children |-> "none"]
    /\ failing = {}
    /\ reqs = [c \in Children |-> <<>>]
    /\ resps = [c \in Children |-> <<>>]
    /\ age = 0
    /\ inServo = FALSE
    /\ seen = [confirmed |-> TRUE, foreign |-> FALSE, refused |-> FALSE, killed |-> FALSE]

----------------------------------------------------------------------------
Owner(c) == child[c] \notin {"none", "exited", "killed"}
Cur == parent.cur
Alive == Cur # None /\ Owner(Cur)
IsSet(e) == Cur # None /\ e \in event[Cur]

\* is_connected; the error bytes are written just before the error event.
IsConnected == Alive /\ ~IsSet("error")

Set(e) == event' = [event EXCEPT ![Cur] = @ \cup {e}]
Clear(e) == event' = [event EXCEPT ![Cur] = @ \ {e}]

Return == parent' = [parent EXCEPT !.at = "idle", !.op = "none"]
At(where) == parent' = [parent EXCEPT !.at = where]

\* An operation raises; connect() answers by disconnect().
Raise ==
    IF parent.op = "connect"
    THEN parent' = [parent EXCEPT !.op = "disconnect",
                                  !.at = IF parent.active THEN "stopping" ELSE "shutdown"]
    ELSE Return

\* A request is numbered and sent; the lock is held until the call returns.
Send(op, request) ==
    /\ parent.id < MaxRequests
    /\ parent' = [parent EXCEPT !.at = "rpc", !.op = op, !.id = @ + 1]
    /\ reqs' = [reqs EXCEPT ![Cur] = Append(@, [id |-> parent.id + 1, op |-> request])]

----------------------------------------------------------------------------
(* connect and _start_servo_process.                                       *)

\* A new child with events and a pipe of its own; whatever process the adapter
\* still refers to is forgotten.
Start ==
    /\ parent.at = "idle" /\ ~IsConnected
    /\ \E c \in Children :
         /\ \A d \in Children : child[d] = "none" <=> d >= c
         /\ child' = [child EXCEPT ![c] = "starting"]
         /\ parent' = [parent EXCEPT !.at = "startup", !.op = "connect", !.cur = c]
    /\ UNCHANGED <<event, failing, reqs, resps, age, inServo, seen>>

\* The child reports ready: connect() returns, or enters Servo at once.
Started ==
    /\ parent.at = "startup" /\ IsSet("process_ready")
    /\ \/ /\ IsSet("error")
          /\ parent' = [parent EXCEPT !.at = "shutdown", !.op = "disconnect"]
          /\ UNCHANGED reqs
       \/ ~IsSet("error") /\ Return /\ UNCHANGED reqs
       \/ ~IsSet("error") /\ Send("connect", "pose")
    /\ UNCHANGED <<event, childVars, resps, age, inServo, seen>>

StartupTimeout ==
    /\ parent.at = "startup" /\ ~IsSet("process_ready")
    /\ parent' = [parent EXCEPT !.at = "shutdown", !.op = "disconnect"]
    /\ UNCHANGED <<event, childVars, reqs, resps, age, inServo, seen>>

----------------------------------------------------------------------------
(* _servo_rpc.                                                             *)

\* send_action(use_servo=False), which asks that Servo be off, feedback and
\* disable_robot(), which leaves Servo first (StopServo).
Request ==
    /\ parent.at = "idle" /\ IsConnected
    /\ \/ ~parent.active /\ Send("move", "move")
       \/ ~parent.active /\ Send("disable_robot", "disable_robot")
       \/ Send("read", "read")
    /\ UNCHANGED <<event, childVars, resps, age, inServo, seen>>

Requested == IF parent.op \in {"connect", "enable"} THEN "pose" ELSE parent.op

\* Mutant: the number of the response is not compared.
ResponseOfAny ==
    /\ parent.at = "rpc" /\ resps[Cur] # <<>>
    /\ LET r == Head(resps[Cur]) IN
         IF ~r.ok THEN Raise /\ UNCHANGED seen
         ELSE /\ seen' = [seen EXCEPT !.foreign = @ \/ r.op # Requested]
              /\ IF Requested = "pose" THEN At("arming") ELSE Return
    /\ resps' = [resps EXCEPT ![Cur] = Tail(@)]
    /\ UNCHANGED <<event, childVars, reqs, age, inServo>>

\* The first response in the pipe is taken for the answer; another number than
\* the request's is an error.
Response ==
    /\ parent.at = "rpc" /\ resps[Cur] # <<>>
    /\ LET r == Head(resps[Cur]) IN
         IF r.id # parent.id \/ ~r.ok THEN Raise /\ UNCHANGED seen
         ELSE /\ seen' = [seen EXCEPT !.foreign = @ \/ r.op # Requested]
              /\ IF Requested = "pose" THEN At("arming") ELSE Return
    /\ resps' = [resps EXCEPT ![Cur] = Tail(@)]
    /\ UNCHANGED <<event, childVars, reqs, age, inServo>>

\* No answer in time, or the child is gone: the call raises and leaves its
\* request, or the late response, in the pipe.
NoResponse ==
    /\ parent.at = "rpc" /\ resps[Cur] = <<>>
    /\ Raise
    /\ UNCHANGED <<event, childVars, reqs, resps, age, inServo, seen>>

----------------------------------------------------------------------------
(* _set_servo_process.                                                     *)

\* servo_enable(True): refused for a failed process, nothing to do when active,
\* otherwise the pose is read first.
ServoEnable ==
    /\ parent.at = "idle" /\ IsConnected
    /\ \/ parent.active /\ Return /\ UNCHANGED reqs
       \/ ~parent.active /\ Send("enable", "pose")
    /\ UNCHANGED <<event, childVars, resps, age, inServo, seen>>

\* The target is the measured pose; frame_ready is cleared before active is set.
Arm ==
    /\ parent.at = "arming"
    /\ event' = [event EXCEPT ![Cur] = (@ \ {"frame_ready"}) \cup {"active"}]
    /\ parent' = [parent EXCEPT !.at = "waiting", !.active = TRUE]
    /\ age' = 0
    /\ seen' = [seen EXCEPT !.confirmed = FALSE]
    /\ UNCHANGED <<childVars, reqs, resps, inServo>>

AwaitFirstFrame ==
    /\ parent.at = "waiting" /\ IsSet("frame_ready")
    /\ IF ~IsSet("error") THEN Return
       ELSE parent' = [parent EXCEPT !.active = FALSE,
                          !.at = IF parent.op = "connect" THEN "shutdown" ELSE "idle",
                          !.op = IF parent.op = "connect" THEN "disconnect" ELSE "none"]
    /\ UNCHANGED <<event, childVars, reqs, resps, age, inServo, seen>>

\* No first frame in time: Servo is disabled with errors suppressed.
FirstFrameTimeout ==
    /\ parent.at = "waiting" /\ ~IsSet("frame_ready")
    /\ Clear("active")
    /\ At("stopping")
    /\ UNCHANGED <<childVars, reqs, resps, age, inServo, seen>>

\* servo_enable(False), and disable_robot() when Servo is active.
StopServo ==
    /\ parent.at = "idle" /\ IsConnected
    /\ \E op \in {"disable", "disable_robot"} :
         \/ /\ ~parent.active /\ op = "disable"
            /\ Return
            /\ UNCHANGED event
         \/ /\ parent.active
            /\ Clear("active")
            /\ parent' = [parent EXCEPT !.at = "stopping", !.op = op]
    /\ UNCHANGED <<childVars, reqs, resps, age, inServo, seen>>

\* What follows the wait for inactive.  Unconfirmed, or with a failed process,
\* Servo stays active for the adapter unless errors are suppressed.
AfterStop(stopped) ==
    LET failed == ~stopped \/ IsSet("error")
        suppress == parent.op \notin {"disable", "disable_robot"}
    IN  /\ IF failed /\ ~suppress THEN Return
           ELSE parent' = [parent EXCEPT !.active = FALSE,
                  !.at = IF parent.op \in {"connect", "disconnect"} THEN "shutdown" ELSE "idle",
                  !.op = IF parent.op \in {"connect", "disconnect"} THEN "disconnect" ELSE "none"]
        /\ seen' = [seen EXCEPT !.confirmed = @ \/ ~failed]

Stopped ==
    /\ parent.at = "stopping" /\ IsSet("inactive")
    /\ AfterStop(TRUE)
    /\ UNCHANGED <<event, childVars, reqs, resps, age, inServo>>

StopTimeout ==
    /\ parent.at = "stopping" /\ ~IsSet("inactive")
    /\ AfterStop(FALSE)
    /\ UNCHANGED <<event, childVars, reqs, resps, age, inServo>>

----------------------------------------------------------------------------
(* send_action(use_servo=True), disconnect, the end of the adapter.        *)

\* The shared target and its time are replaced while the session lives.
SendTarget ==
    /\ parent.at = "idle" /\ IsConnected /\ parent.active
    /\ age' = 0
    /\ Return
    /\ UNCHANGED <<event, childVars, reqs, resps, inServo, seen>>

Disconnect ==
    /\ parent.at = "idle" /\ Cur # None
    /\ IF parent.active THEN Clear("active") ELSE UNCHANGED event
    /\ parent' = [parent EXCEPT !.op = "disconnect",
                                !.at = IF parent.active THEN "stopping" ELSE "shutdown"]
    /\ UNCHANGED <<childVars, reqs, resps, age, inServo, seen>>

\* _shutdown_servo_process: stop is set before the join.
AskToStop ==
    /\ parent.at = "shutdown" /\ ~IsSet("stop")
    /\ Set("stop")
    /\ UNCHANGED <<parent, childVars, reqs, resps, age, inServo, seen>>

\* The child is joined, or terminated when it takes too long; everything the
\* adapter kept about it is cleared.
Join(killed) ==
    /\ parent.at = "shutdown" /\ IsSet("stop") /\ killed = Owner(Cur)
    /\ child' = IF killed THEN [child EXCEPT ![Cur] = "killed"] ELSE child
    /\ seen' = [seen EXCEPT !.killed = @ \/ killed]
    /\ parent' = [parent EXCEPT !.at = "idle", !.op = "none", !.cur = None,
                                !.active = FALSE]
    /\ event' = [event EXCEPT ![Cur] = {}]
    /\ reqs' = [reqs EXCEPT ![Cur] = <<>>]
    /\ resps' = [resps EXCEPT ![Cur] = <<>>]
    /\ failing' = failing \ {Cur}
    /\ UNCHANGED <<age, inServo>>

\* The process that holds the adapter ends without a word.
ParentDies ==
    /\ parent.at # "gone" /\ Cur # None
    /\ At("gone")
    /\ UNCHANGED <<event, childVars, reqs, resps, age, inServo, seen>>

----------------------------------------------------------------------------
(* _servo_process_main.                                                    *)

Goto(c, where) == child' = [child EXCEPT ![c] = where]
Flag(c, set, clear) == event' = [event EXCEPT ![c] = (@ \ clear) \cup set]

\* Login and the settings of the controller.
Boot(c) ==
    /\ child[c] = "starting"
    /\ \/ Goto(c, "idle") /\ Flag(c, {"inactive", "process_ready"}, {}) /\ UNCHANGED failing
       \/ Goto(c, "erring") /\ failing' = failing \cup {c} /\ UNCHANGED event
    /\ UNCHANGED <<parent, reqs, resps, age, inServo, seen>>

\* The outer loop: stop, a lost parent, the active event, or requests.
Watch(c) ==
    /\ child[c] = "idle"
    /\ \/ "stop" \in event[c] /\ Goto(c, "finishing") /\ UNCHANGED failing
       \/ /\ "stop" \notin event[c] /\ parent.at = "gone"
          /\ Goto(c, "erring") /\ failing' = failing \cup {c}
       \/ /\ "stop" \notin event[c] /\ parent.at # "gone" /\ "active" \in event[c]
          /\ Goto(c, "noticed") /\ UNCHANGED failing
    /\ UNCHANGED <<parent, event, reqs, resps, age, inServo, seen>>

\* _service_servo_process_rpc, from the outer loop and between two frames.
Serve(c) ==
    /\ child[c] \in {"idle", "between"} /\ reqs[c] # <<>>
    /\ child[c] = "idle" => "stop" \notin event[c]
    /\ \E ok \in BOOLEAN :
         resps' = [resps EXCEPT ![c] = Append(@, [id |-> Head(reqs[c]).id,
                                                  op |-> Head(reqs[c]).op, ok |-> ok])]
    /\ reqs' = [reqs EXCEPT ![c] = Tail(@)]
    /\ UNCHANGED <<parent, event, childVars, age, inServo, seen>>

\* Mutant: inactive still tells of the time before Servo Move was entered.
EnterKeepsInactive(c) ==
    /\ child[c] = "noticed"
    /\ \/ inServo' = TRUE /\ Goto(c, "servo") /\ UNCHANGED failing
       \/ UNCHANGED inServo /\ Goto(c, "erring") /\ failing' = failing \cup {c}
    /\ UNCHANGED <<parent, event, reqs, resps, age, seen>>

\* inactive is cleared, then the controller enters Servo Move.
Enter(c) ==
    /\ child[c] = "noticed"
    /\ Flag(c, {}, {"inactive"})
    /\ \/ inServo' = TRUE /\ Goto(c, "servo") /\ UNCHANGED failing
       \/ UNCHANGED inServo /\ Goto(c, "erring") /\ failing' = failing \cup {c}
    /\ UNCHANGED <<parent, reqs, resps, age, seen>>

\* Mutant: an error ends the process without leaving Servo Move.
PeriodErrorKeepsServo(c) ==
    /\ child[c] = "servo"
    /\ IF "stop" \in event[c] \/ "active" \notin event[c]
       THEN Goto(c, "leaving") /\ UNCHANGED failing
       ELSE \/ Goto(c, "erring") /\ failing' = failing \cup {c}
            \/ /\ parent.at # "gone" /\ age <= TargetTimeout
               /\ Goto(c, "sending") /\ UNCHANGED failing
    /\ UNCHANGED <<parent, event, reqs, resps, age, inServo, seen>>

\* Mutant: the age of the target is not looked at.
PeriodWithoutWatchdog(c) ==
    /\ child[c] = "servo"
    /\ IF "stop" \in event[c] \/ "active" \notin event[c]
       THEN Goto(c, "leaving") /\ UNCHANGED failing
       ELSE \/ Goto(c, "leaving") /\ failing' = failing \cup {c}
            \/ /\ parent.at # "gone"
               /\ Goto(c, "sending") /\ UNCHANGED failing
    /\ UNCHANGED <<parent, event, reqs, resps, age, inServo, seen>>

\* One period: leave when asked; a lost parent, a target older than one of the
\* two time-outs or too many overruns is an error; otherwise the frame is on its way.
Period(c) ==
    /\ child[c] = "servo"
    /\ IF "stop" \in event[c] \/ "active" \notin event[c]
       THEN Goto(c, "leaving") /\ UNCHANGED failing
       ELSE \/ Goto(c, "leaving") /\ failing' = failing \cup {c}
            \/ /\ parent.at # "gone" /\ age <= TargetTimeout
               /\ Goto(c, "sending") /\ UNCHANGED failing
    /\ UNCHANGED <<parent, event, reqs, resps, age, inServo, seen>>

\* servo_p returns; the first frame is reported.
FrameSent(c) ==
    /\ child[c] = "sending"
    /\ \/ Goto(c, "between") /\ Flag(c, {"frame_ready"}, {}) /\ UNCHANGED failing
       \/ Goto(c, "leaving") /\ failing' = failing \cup {c} /\ UNCHANGED event
    /\ UNCHANGED <<parent, reqs, resps, age, inServo, seen>>

NextPeriod(c) ==
    /\ child[c] = "between" /\ reqs[c] = <<>>
    /\ Goto(c, "servo")
    /\ UNCHANGED <<parent, event, failing, reqs, resps, age, inServo, seen>>

\* The finally of the inner loop: leave Servo Move; a refusal is an error.
Leave(c) ==
    /\ child[c] = "leaving"
    /\ \E ok \in BOOLEAN :
         /\ inServo' = (inServo /\ ~ok)
         /\ failing' = IF ok THEN failing ELSE failing \cup {c}
         /\ seen' = [seen EXCEPT !.refused = @ \/ ~ok]
         /\ event' = IF ok THEN [event EXCEPT ![c] = @ \cup {"inactive"}] ELSE event
         /\ Goto(c, IF ok /\ c \notin failing THEN "idle" ELSE "erring")
    /\ UNCHANGED <<parent, reqs, resps, age>>

\* The error is published, and whoever waits is woken.
Publish(c) ==
    /\ child[c] = "erring"
    /\ Flag(c, {"error", "process_ready", "frame_ready", "inactive"}, {})
    /\ Goto(c, "finishing")
    /\ UNCHANGED <<parent, failing, reqs, resps, age, inServo, seen>>

\* The last finally: restore the controller's state, log out, close the pipe.
Finish(c) ==
    /\ child[c] = "finishing"
    /\ Goto(c, "exited")
    /\ UNCHANGED <<parent, event, failing, reqs, resps, age, inServo, seen>>

\* Mutant: the age is not bounded by the watchdog.
TickBeyond ==
    /\ \E c \in Children : child[c] \in {"noticed", "servo", "sending", "between"}
    /\ age' = age + 1
    /\ UNCHANGED <<parent, event, childVars, reqs, resps, inServo, seen>>

Tick ==
    /\ age <= TargetTimeout
    /\ \E c \in Children : child[c] \in {"noticed", "servo", "sending", "between"}
    /\ age' = age + 1
    /\ UNCHANGED <<parent, event, childVars, reqs, resps, inServo, seen>>

----------------------------------------------------------------------------
ChildStep(c) ==
    \/ Boot(c) \/ Watch(c) \/ Serve(c) \/ Enter(c) \/ Period(c) \/ FrameSent(c)
    \/ NextPeriod(c) \/ Leave(c) \/ Publish(c) \/ Finish(c)

ParentStep ==
    \/ Started \/ StartupTimeout \/ Response \/ NoResponse \/ Arm \/ AwaitFirstFrame
    \/ FirstFrameTimeout \/ Stopped \/ StopTimeout \/ AskToStop
    \/ \E killed \in BOOLEAN : Join(killed)

Next ==
    \/ Start \/ Request \/ ServoEnable \/ StopServo \/ SendTarget \/ Disconnect
    \/ ParentStep \/ ParentDies \/ Tick
    \/ \E c \in Children : ChildStep(c)

Fairness == WF_vars(Tick) /\ \A c \in Children : WF_vars(ChildStep(c))
Spec == Init /\ [][Next]_vars
FairSpec == Spec /\ Fairness

----------------------------------------------------------------------------
\* A call that succeeds returns the answer to its own request: the late answer
\* of a call that timed out is never taken for it.
AnswerIsOwn == ~seen.foreign

\* Once servo_enable(False) has returned normally no frame is on its way to the
\* controller until Servo is asked for again, although the inactive event may
\* be the one the child set before it noticed it was active.
QuietOnceConfirmed ==
    seen.confirmed => \A c \in Children : child[c] \notin {"sending", "between"}

\* A controller-planned move is carried out between the frames of a Servo
\* session the adapter believes is over and confirmed.
MoveInsideServo ==
    /\ inServo /\ seen.confirmed /\ ~seen.killed /\ ~seen.refused
    /\ \E c \in Children : Serve(c) /\ Head(reqs[c]).op = "move"

\* An owner process that ends by itself leaves the arm out of Servo Move, on
\* every path, unless the SDK refused to.
ServoLeftAtExit ==
    inServo => \/ seen.refused \/ seen.killed
               \/ \E c \in Children : child[c] \in {"servo", "sending", "between", "leaving"}

\* The adapter's process has ended, its owner processes have, and Servo could
\* not be left.
Orphaned == parent.at = "gone"
OwnersEnded == \A c \in Children : ~Owner(c)
StopFailed == seen.refused \/ seen.killed
=============================================================================
