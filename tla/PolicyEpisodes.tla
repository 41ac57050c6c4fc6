--------------------------- MODULE PolicyEpisodes ---------------------------
(***************************************************************************)
(* Episodes of a robot: scripts/lerobot_record.py records a teleoperator,   *)
(* tools/infer.py lets a PolicyClient (tools/policy_client.py) act and, with *)
(* a teleoperator or none, resets in between.  Their outer loop is the same. *)
(* The client's request thread runs beside it, and so does the keyboard      *)
(* listener, whose events the loops consume.                                 *)
(***************************************************************************)
EXTENDS Naturals, FiniteSets

CONSTANTS
    NumEpisodes,    \* cfg.dataset.num_episodes
    Control,        \* iterations in control_time_s
    Chunk,          \* actions the policy predicts from one observation
    MaxTakes        \* bound: takes after which Left is not pressed any more

VARIABLES
    program,   \* [policy, teleop]: what moves the robot in an episode and a reset
    events,    \* [exit_early, rerecord_episode, stop_recording]
    main,      \* the program: where it is, its take, its iterations, its action
    client,    \* [timestep, queue, last, event, in_flight]
    thread,    \* [at, obs, label]: request_actions
    dataset,   \* [buffer, saved]: the takes the frames in the buffer are of
    history    \* [asked, crossed]: what the properties account for

vars == <<program, events, main, client, thread, dataset, history>>

Takes == 0 .. MaxTakes + NumEpisodes
Timesteps == 0 .. Control + Chunk
Observations == [take : Takes, ts : Timesteps]
None == [take |-> 0, ts |-> 0]

TypeOK ==
    /\ program \in [policy : BOOLEAN, teleop : BOOLEAN]
    /\ events \in [exit_early : BOOLEAN, rerecord_episode : BOOLEAN, stop_recording : BOOLEAN]
    /\ main \in [at : {"begin", "resetting", "loop", "waiting", "sending", "left", "decide",
                       "saving", "finally", "ended"},
                 reset : BOOLEAN, take : Takes, steps : 0 .. Control,
                 action : SUBSET Observations]
    /\ client \in [timestep : Timesteps, queue : [Timesteps -> SUBSET Observations],
                   last : Observations, event : BOOLEAN, in_flight : BOOLEAN]
    /\ thread \in [at : {"wait", "woken", "taken", "flight", "reply", "dead", "lost"},
                   obs : Observations, label : Timesteps]
    /\ dataset \in [buffer : SUBSET Takes, saved : 0 .. NumEpisodes]
    /\ history \in [asked : Takes, crossed : BOOLEAN]

Empty == [t \in Timesteps |-> {}]

Init ==
    /\ program \in {[policy |-> FALSE, teleop |-> TRUE], [policy |-> TRUE, teleop |-> TRUE],
                    [policy |-> TRUE, teleop |-> FALSE]}
    /\ events = [exit_early |-> FALSE, rerecord_episode |-> FALSE, stop_recording |-> FALSE]
    /\ main = [at |-> "begin", reset |-> FALSE, take |-> 0, steps |-> 0, action |-> {}]
    /\ client = [timestep |-> 0, queue |-> Empty, last |-> None, event |-> FALSE,
                 in_flight |-> FALSE]
    /\ thread = [at |-> "wait", obs |-> None, label |-> 0]
    /\ dataset = [buffer |-> {}, saved |-> 0]
    /\ history = [asked |-> 0, crossed |-> FALSE]

Goto(where) == main' = [main EXCEPT !.at = where, !.action = {}]

----------------------------------------------------------------------------
(* The client as the loop uses it.                                         *)

Queued == {t \in Timesteps : client.queue[t] # {}}

\* reset(): the queue, then everything else; a request may be under way.
ResetQueue ==
    /\ main.at = "begin" /\ dataset.saved < NumEpisodes /\ ~events.stop_recording
    /\ main' = [main EXCEPT !.at = IF program.policy THEN "resetting" ELSE "loop",
                            !.reset = FALSE, !.steps = 0, !.take = @ + 1]
    /\ client' = [client EXCEPT !.queue = Empty]
    /\ history' = [history EXCEPT !.crossed =
           program.policy /\ (thread.at \notin {"wait", "dead", "lost"} \/ client.event)]
    /\ UNCHANGED <<events, dataset>>

ResetRest ==
    /\ main.at = "resetting"
    /\ client' = [client EXCEPT !.timestep = 0, !.last = None, !.event = FALSE,
                                !.in_flight = FALSE]
    /\ Goto("loop")
    /\ UNCHANGED <<events, dataset, history>>

\* require_action offers the observation if the queue has room for its answer
\* (chunk_size_threshold = 1) and no request is pending, and then waits.
Offer ==
    IF Cardinality(Queued) <= Chunk /\ ~client.in_flight /\ ~client.event
    THEN client' = [client EXCEPT !.last = [take |-> main.take, ts |-> client.timestep],
                                  !.event = TRUE]
    ELSE UNCHANGED client

Pop ==
    /\ main.at = "waiting" /\ client.timestep \in Queued
    /\ main' = [main EXCEPT !.at = "sending", !.action = client.queue[client.timestep]]
    /\ client' = [client EXCEPT
           !.queue = [t \in Timesteps |-> IF t <= client.timestep THEN {} ELSE @[t]],
           !.timestep = @ + 1]
    /\ UNCHANGED <<events, dataset, history>>

\* After timeout_s require_action gives up; the iteration does not count.
PolicyTimeout ==
    /\ main.at = "waiting" /\ client.timestep \notin Queued
    /\ Goto("loop")
    /\ UNCHANGED <<events, client, dataset, history>>

----------------------------------------------------------------------------
(* request_actions.                                                        *)

Wake ==
    /\ thread.at = "wait" /\ client.event
    /\ client' = [client EXCEPT !.event = FALSE]
    /\ thread' = [thread EXCEPT !.at = "woken"]

Take ==
    /\ thread.at = "woken"
    /\ thread' = IF client.last = None THEN [thread EXCEPT !.at = "wait"]
                 ELSE [thread EXCEPT !.at = "taken", !.obs = client.last]
    /\ UNCHANGED client

\* The label is the timestep when the request is sent, not the observation's.
Request ==
    /\ thread.at = "taken"
    /\ thread' = [thread EXCEPT !.at = "flight", !.label = client.timestep]
    /\ client' = [client EXCEPT !.in_flight = TRUE]

\* An answer, or one that cannot be decoded, which ends the thread.
Answer ==
    /\ thread.at = "flight"
    /\ \E at \in {"reply", "dead"} : thread' = [thread EXCEPT !.at = at]
    /\ client' = [client EXCEPT !.in_flight = FALSE]

\* aggregate_actions_in_queue.
Aggregate ==
    [t \in Timesteps |->
        IF t < client.timestep THEN {}
        ELSE client.queue[t] \cup
            (IF t \in thread.label .. thread.label + Chunk - 1 THEN {thread.obs} ELSE {})]

Store ==
    /\ thread.at = "reply"
    /\ client' = [client EXCEPT !.queue = Aggregate]
    /\ thread' = [at |-> "wait", obs |-> None, label |-> 0]

ThreadStep ==
    /\ Wake \/ Take \/ Request \/ Answer \/ Store
    /\ UNCHANGED <<program, events, main, dataset, history>>

\* Nothing comes back: the prediction raised, which ends the server, or a message
\* was lost.  recv() has no time-out, and the request stays in flight.
NoAnswer ==
    /\ thread.at = "flight"
    /\ thread' = [thread EXCEPT !.at = "lost"]
    /\ UNCHANGED <<program, events, main, client, dataset, history>>

----------------------------------------------------------------------------
(* record_loop and infer_loop, and the loop over episodes.                 *)

\* exit_early is consumed by whichever loop looks first.
ExitEarly ==
    /\ main.at = "loop" /\ events.exit_early
    /\ events' = [events EXCEPT !.exit_early = FALSE]
    /\ Goto("left")
    /\ UNCHANGED <<client, dataset, history>>

\* Without a policy or a teleoperator an iteration neither acts nor counts.
Observe ==
    /\ main.at = "loop" /\ ~events.exit_early
    /\ IF program.policy /\ ~main.reset THEN Goto("waiting") /\ Offer
       ELSE program.teleop /\ Goto("sending") /\ UNCHANGED client
    /\ UNCHANGED <<events, dataset, history>>

\* The frame of a recorded episode goes to the buffer; time ends the loop.
Send ==
    /\ main.at = "sending"
    /\ main' = [main EXCEPT !.at = IF main.steps + 1 = Control THEN "left" ELSE "loop",
                            !.steps = @ + 1, !.action = {}]
    /\ dataset' = IF program.policy \/ main.reset THEN dataset
                  ELSE [dataset EXCEPT !.buffer = @ \cup {main.take}]
    /\ UNCHANGED <<events, client, history>>

\* Mutant: the environment is reset although recording has been stopped.
LeaveToReset ==
    /\ main.at = "left"
    /\ IF /\ ~main.reset
          /\ dataset.saved < NumEpisodes - 1 \/ events.rerecord_episode
       THEN main' = [main EXCEPT !.at = "loop", !.reset = TRUE, !.steps = 0]
       ELSE Goto("decide")
    /\ UNCHANGED <<events, client, dataset, history>>

\* A reset follows every episode but the last one to be recorded.
Leave ==
    /\ main.at = "left"
    /\ IF /\ ~main.reset /\ ~events.stop_recording
          /\ dataset.saved < NumEpisodes - 1 \/ events.rerecord_episode
       THEN main' = [main EXCEPT !.at = "loop", !.reset = TRUE, !.steps = 0]
       ELSE Goto("decide")
    /\ UNCHANGED <<events, client, dataset, history>>

\* Mutant: the wish to record again outlives the take.
DiscardOnce ==
    /\ main.at = "decide" /\ events.rerecord_episode
    /\ events' = [events EXCEPT !.exit_early = FALSE]
    /\ dataset' = [dataset EXCEPT !.buffer = {}]
    /\ Goto("begin")
    /\ UNCHANGED <<client, history>>

Discard ==
    /\ main.at = "decide" /\ events.rerecord_episode
    /\ events' = [events EXCEPT !.rerecord_episode = FALSE, !.exit_early = FALSE]
    /\ dataset' = [dataset EXCEPT !.buffer = {}]
    /\ history' = [history EXCEPT !.asked = 0]
    /\ Goto("begin")
    /\ UNCHANGED client

Keep ==
    /\ main.at = "decide" /\ ~events.rerecord_episode
    /\ Goto("saving")
    /\ UNCHANGED <<events, client, dataset, history>>

\* save_episode may raise, as it may for an episode without frames.
Save ==
    /\ main.at = "saving"
    /\ \/ /\ dataset' = [buffer |-> {}, saved |-> dataset.saved + 1]
          /\ Goto("begin")
       \/ Goto("finally") /\ UNCHANGED dataset
    /\ UNCHANGED <<events, client, history>>

Complete ==
    /\ main.at = "begin" /\ (dataset.saved = NumEpisodes \/ events.stop_recording)
    /\ Goto("finally")
    /\ UNCHANGED <<events, client, dataset, history>>

\* The robot or the teleoperator raises.
Raise ==
    /\ main.at \in {"loop", "sending"}
    /\ Goto("finally")
    /\ UNCHANGED <<events, client, dataset, history>>

\* finally: the dataset is closed and the devices that are connected are
\* disconnected; the request thread, a daemon, is not waited for.
Finally ==
    /\ main.at = "finally"
    /\ Goto("ended")
    /\ UNCHANGED <<events, client, dataset, history>>

LoopStep ==
    /\ \/ ResetQueue \/ ResetRest \/ Pop \/ PolicyTimeout \/ ExitEarly \/ Observe \/ Send
       \/ Leave \/ Discard \/ Keep \/ Save \/ Complete \/ Finally
    /\ UNCHANGED <<program, thread>>

\* The keys of lerobot's listener: Right, Left and Escape.  Bound: Escape is the
\* last one pressed.
Listening == main.at \notin {"finally", "ended"} /\ ~events.stop_recording

Right == Listening /\ events' = [events EXCEPT !.exit_early = TRUE] /\ UNCHANGED history

\* asked: the take that is in the operator's hands, if there is one.
Left ==
    /\ Listening /\ main.take < MaxTakes
    /\ events' = [events EXCEPT !.exit_early = TRUE, !.rerecord_episode = TRUE]
    /\ history' = [history EXCEPT !.asked =
           IF main.at \in {"saving", "begin"} THEN 0 ELSE main.take]

Esc ==
    /\ Listening
    /\ events' = [events EXCEPT !.exit_early = TRUE, !.stop_recording = TRUE]
    /\ UNCHANGED history

KeyPress == (Right \/ Left \/ Esc) /\ UNCHANGED <<program, main, client, thread, dataset>>

Next ==
    \/ LoopStep \/ ThreadStep \/ NoAnswer \/ KeyPress
    \/ Raise /\ UNCHANGED <<program, thread>>

Fairness == WF_vars(LoopStep) /\ WF_vars(ThreadStep)
Spec == Init /\ [][Next]_vars /\ Fairness

----------------------------------------------------------------------------
\* The buffer holds frames of one take, and never of one that was discarded.
OneTake == dataset.buffer \subseteq {main.take}

\* A take is discarded because Left was pressed in it or in its reset, or while
\* the one before it was being saved.
RerecordIsOfThisTake ==
    main.at = "decide" /\ events.rerecord_episode => history.asked \in {0, main.take}

\* A policy's action comes from an observation of the running episode, unless
\* the client was reset while a request was pending or under way: reset() does
\* not wait for it.
ActionsOfThisEpisode ==
    \A o \in main.action : o.take = main.take \/ history.crossed

\* What must come to an end: a program the operator has stopped, wherever it is,
\* and an episode in which something acts: a teleoperator, or a client whose
\* thread neither died nor waits for an answer that will not come.
Pending ==
    \/ events.stop_recording /\ main.at # "ended"
    \/ /\ main.at \in {"loop", "waiting", "sending"}
       /\ IF main.reset THEN program.teleop ELSE thread.at \notin {"dead", "lost"}
=============================================================================
