----------------------------- MODULE JakaRobot -----------------------------
(***************************************************************************)
(* robots/jaka_robot: one adapter, whose configuration chooses where its    *)
(* Servo sender lives.  With config.servo_process it is the owner process   *)
(* of JakaProcess, without it the thread of JakaServo; every public         *)
(* operation dispatches on that choice, which never changes.  The age of    *)
(* the target means the same in both; a bound on it is an option in the     *)
(* thread and always in force in the process, which has a second one        *)
(* (servo_process_parent_timeout_s) besides servo_target_timeout_s.         *)
(***************************************************************************)
EXTENDS Naturals, Sequences, FiniteSets

CONSTANTS MaxSenders, MaxChildren, MaxRequests, TargetTimeout, DisableOnExit

VARIABLES
    servo_process,                                          \* config.servo_process
    watchdog,                                               \* the target's age is bounded
    caller, link, servo, sender, arm, excused,              \* JakaServo
    parent, event, child, failing, reqs, resps, inServo, seen,  \* JakaProcess
    age                                                     \* of the target, in either

Thread == INSTANCE JakaServo
Process == INSTANCE JakaProcess

threadVars == <<caller, link, servo, sender, arm, excused>>
processVars == <<parent, event, child, failing, reqs, resps, inServo, seen>>
configVars == <<servo_process, watchdog>>
vars == <<configVars, threadVars, processVars, age>>

TypeOK == servo_process \in BOOLEAN /\ Thread!TypeOK /\ Process!TypeOK

Init ==
    /\ servo_process \in BOOLEAN /\ Thread!Init /\ Process!Init
    /\ servo_process => watchdog

InThread == ~servo_process /\ UNCHANGED <<configVars, processVars>>
InProcess == servo_process /\ UNCHANGED <<configVars, threadVars>>

Next ==
    \/ InThread /\ Thread!Next
    \/ InProcess /\ Process!Next

\* Time passes, an operation that was called goes on, and so does the n-th
\* sender thread or owner process.
Tick == (InThread /\ Thread!Tick) \/ (InProcess /\ Process!Tick)

CallerStep == InThread /\ Thread!CallerStep

Workers == Thread!Senders \cup Process!Children
WorkerStep(n) ==
    \/ n \in Thread!Senders /\ InThread /\ Thread!SenderStep(n)
    \/ n \in Process!Children /\ InProcess /\ Process!ChildStep(n)

----------------------------------------------------------------------------
\* Nothing is streamed behind the adapter's back: one sender thread at a time,
\* unless disconnect() went on without a stuck one; and after a confirmed
\* servo_enable(False) the owner process sends no frame.
StreamIsTheAdapters == Thread!OneSender /\ Process!QuietOnceConfirmed

\* Servo Move is left when the adapter lets go of the arm, by disconnect() or
\* by the end of its owner process, except as the histories account for.
ServoLeftAccounted == Thread!ServoExitAccounted /\ Process!ServoLeftAtExit

\* What the caller gets is about what it asked: an answer of the owner process
\* belongs to the request, the position a sender thread steps from is in the
\* representation of its target.
AnswersMatch == Process!AnswerIsOwn /\ Thread!CommandedMatchesTarget

\* A controller-planned move is never carried out between the frames of a
\* Servo session that was confirmed to be over (send_action, use_servo=False).
PlannedMoveOutsideServo == [][~Process!MoveInsideServo]_vars

\* What must come to an end: Servo Move of a caller that fell silent, where the
\* age of its target is bounded and unless a stop failed, and an owner process
\* whose adapter is gone.
Silent ==
    /\ watchdog /\ age > 0 /\ (arm.servo \/ inServo)
    /\ ~Thread!StopFailed /\ ~Process!StopFailed

Pending == Silent \/ (Process!Orphaned /\ ~Process!OwnersEnded)
=============================================================================
