---------------------------- MODULE RobotPrograms ----------------------------
(***************************************************************************)
(* What runs a robot without the control system: the JAKA adapter, and the  *)
(* programs whose threads share one: an arm under a remote policy and the    *)
(* gripper gate of that program, the multi-task dashboard, and the loops     *)
(* over recorded or inferred episodes.  A behaviour is one of any of the     *)
(* five, and the properties are what they owe in common.                     *)
(***************************************************************************)
EXTENDS Integers, Sequences, FiniteSets

CONSTANTS
    MaxSenders, MaxChildren, MaxRequests, TargetTimeout, DisableOnExit,  \* JakaRobot
    Chunk,                                     \* PolicyProxy and PolicyEpisodes
    ThresholdPercent, MaxSteps, MaxResets,     \* PolicyProxy
    NumTasks,                                  \* Coordinator
    NumEpisodes, Control, MaxTakes             \* PolicyEpisodes

\* The bounds count something; the time-out is in ticks of the watchdog.
ASSUME RobotProgramsAssumption ==
    /\ {MaxSenders, MaxChildren, MaxRequests, Chunk, MaxSteps, MaxResets, NumTasks,
        NumEpisodes, Control, MaxTakes} \subseteq Nat \ {0}
    /\ TargetTimeout \in Nat /\ ThresholdPercent \in 0 .. 100
    /\ DisableOnExit \in BOOLEAN

VARIABLES
    part,                                                        \* which of the five
    servo_process, watchdog, caller, link, servo, sender, arm, excused,
    parent, event, child, failing, reqs, resps, inServo, seen, age,   \* JakaRobot
    keys, stopper, main, proxy, thread, server, robot,           \* PolicyProxy
    gate, gripper, wanted, doubtful,                             \* PolicyGripper
    batch, state, job, key, requested, history,                       \* Coordinator
    program, events, recorder, client, requester, dataset, asked \* PolicyEpisodes

Adapter == INSTANCE JakaRobot
Policy == INSTANCE PolicyProxy
Gripper == INSTANCE PolicyGripper
Dashboard == INSTANCE Coordinator
Episodes == INSTANCE PolicyEpisodes
    WITH main <- recorder, thread <- requester, history <- asked

adapterVars == <<servo_process, watchdog, caller, link, servo, sender, arm, excused,
                 parent, event, child, failing, reqs, resps, inServo, seen, age>>
policyVars == <<keys, stopper, main, proxy, thread, server, robot>>
gripperVars == <<gate, gripper, wanted, doubtful>>
dashboardVars == <<batch, state, job, key, requested, history>>
episodesVars == <<program, events, recorder, client, requester, dataset, asked>>
vars == <<part, adapterVars, policyVars, gripperVars, dashboardVars, episodesVars>>

Parts == {"adapter", "policy", "gripper", "dashboard", "episodes"}

TypeOK ==
    /\ part \in Parts
    /\ Adapter!TypeOK /\ Policy!TypeOK /\ Gripper!TypeOK
    /\ Dashboard!TypeOK /\ Episodes!TypeOK

\* A part that does not run keeps one of its initial states.
Init ==
    /\ part \in Parts
    /\ Adapter!Init /\ Policy!Init /\ Gripper!Init /\ Dashboard!Init /\ Episodes!Init
    /\ part # "adapter" => ~servo_process /\ watchdog /\ arm.enabled
    /\ part # "gripper" => gripper = Gripper!Closed
    /\ part # "dashboard" => batch = <<>>
    /\ part # "episodes" => program.policy /\ program.teleop

AdapterOnly ==
    /\ part = "adapter"
    /\ UNCHANGED <<part, policyVars, gripperVars, dashboardVars, episodesVars>>
PolicyOnly ==
    /\ part = "policy"
    /\ UNCHANGED <<part, adapterVars, gripperVars, dashboardVars, episodesVars>>
GripperOnly ==
    /\ part = "gripper"
    /\ UNCHANGED <<part, adapterVars, policyVars, dashboardVars, episodesVars>>
DashboardOnly ==
    /\ part = "dashboard"
    /\ UNCHANGED <<part, adapterVars, policyVars, gripperVars, episodesVars>>
EpisodesOnly ==
    /\ part = "episodes"
    /\ UNCHANGED <<part, adapterVars, policyVars, gripperVars, dashboardVars>>

Next ==
    \/ AdapterOnly /\ Adapter!Next
    \/ PolicyOnly /\ Policy!Next
    \/ GripperOnly /\ Gripper!Next
    \/ DashboardOnly /\ Dashboard!Next
    \/ EpisodesOnly /\ Episodes!Next

\* What each part assumes of its threads, for the part that runs: the thread of
\* its caller or its loop goes on, so do those beside it, and time passes.
Fairness ==
    /\ WF_adapterVars(part = "adapter" /\ Adapter!Tick)
    /\ WF_adapterVars(part = "adapter" /\ Adapter!CallerStep)
    /\ \A n \in Adapter!Workers : WF_adapterVars(part = "adapter" /\ Adapter!WorkerStep(n))
    /\ WF_policyVars(part = "policy" /\ Policy!LoopStep)
    /\ WF_policyVars(part = "policy" /\ Policy!ThreadStep)
    /\ WF_policyVars(part = "policy" /\ Policy!StopCallback)
    /\ WF_dashboardVars(part = "dashboard" /\ Dashboard!JobStep)
    /\ WF_dashboardVars(part = "dashboard" /\ Dashboard!HandlerStep)
    /\ WF_episodesVars(part = "episodes" /\ Episodes!LoopStep)
    /\ WF_episodesVars(part = "episodes" /\ Episodes!ThreadStep)

Spec == Init /\ [][Next]_vars /\ Fairness

----------------------------------------------------------------------------
\* What moves the robot is what the caller means to: nothing is streamed behind
\* the adapter's back, a task runs under its own policy once it was confirmed,
\* and an action was predicted for the timestep and the episode it is played in.
MovedAsMeant ==
    /\ Adapter!StreamIsTheAdapters
    /\ Policy!ActionsOfThisEpisode
    /\ Dashboard!PolicyOfTask /\ Dashboard!StartConfirmed
    /\ Episodes!ActionsOfThisEpisode

\* What the arm, a batch or an abort leaves behind is left as it should be: the
\* arm out of Servo Move, and let go of by a policy program unless a camera or
\* Servo owner was gone, the task aborted, tasks selectable.
LeftAccounted ==
    /\ Adapter!ServoLeftAccounted
    /\ Policy!ArmLetGo
    /\ Dashboard!AbortHonoured /\ Dashboard!NeverStuck /\ Dashboard!BatchLockAccounted

\* What was asked for is what comes: an answer belongs to its request, an action
\* that is waited for is on its way, the gripper is where the policy wants it or
\* will be tried again, and only the take the operator meant is thrown away.
AnswersMatch ==
    /\ Adapter!AnswersMatch
    /\ Policy!NeverStarved
    /\ Gripper!PolicyAuthoritative
    /\ Episodes!OneTake /\ Episodes!RerecordIsOfThisTake

\* A controller-planned move is never carried out between the frames of a
\* Servo session that was confirmed to be over (send_action, use_servo=False).
PlannedMoveOutsideServo == [][part = "adapter" => ~Adapter!Process!MoveInsideServo]_vars

\* A caller that falls silent, where that is watched, or dies ends Servo Move and
\* its owner process; stop ends a program and lets go of a connected arm; a loop
\* that waits is served and an episode ends by time, as long as what the program
\* asks for actions answers.
Pending ==
    \/ part = "adapter" /\ Adapter!Pending
    \/ part = "policy" /\ Policy!Pending
    \/ part = "dashboard" /\ Dashboard!Pending
    \/ part = "episodes" /\ Episodes!Pending

EverythingEnds == Pending ~> ~Pending
=============================================================================
