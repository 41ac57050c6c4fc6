----------------------------- MODULE PolicyProxy -----------------------------
(***************************************************************************)
(* A JAKA arm under a remote policy: the loop of examples/                  *)
(* isaac_teleop_to_jaka/infer.py, the Proxy whose request thread asks for   *)
(* actions while the loop plays earlier ones (tools/proxy.py), and the      *)
(* server (tools/policy_server.py).  The keyboard listener, with its stop   *)
(* callback, is a third thread.  Cameras have delivered a first frame.      *)
(***************************************************************************)
EXTENDS Naturals, FiniteSets

CONSTANTS
    Chunk,              \* actions the policy predicts from one observation
    ThresholdPercent,   \* chunk_size_threshold
    MaxSteps,           \* bound: timesteps of an episode
    MaxResets           \* bound: resets

VARIABLES
    keys,      \* [running, reset, stop]: the events of the keyboard listener
    stopper,   \* the stop callback: not called, called, done
    main,      \* [at, era, action]: the loop, its observation and its action
    proxy,     \* [timestep, buffer, last, event, chunk]
    thread,    \* [at, obs, twice]: request_policy, and whether it asked twice
    server,
    robot      \* [open, whole, era]: the SDK is open and not let go; cameras and Servo
               \* owner are there; era counts the resets carried out

vars == <<keys, stopper, main, proxy, thread, server, robot>>

Eras == 0 .. MaxResets
Timesteps == 0 .. MaxSteps + Chunk

\* An observation, or an action predicted from it: when it was taken.
Observations == [era : Eras, ts : 0 .. MaxSteps]
Nothing == [era |-> 0, ts |-> MaxSteps]

TypeOK ==
    /\ keys \in [running : BOOLEAN, reset : BOOLEAN, stop : BOOLEAN]
    /\ stopper \in {"none", "called", "done"}
    /\ main \in [at : {"top", "observed", "resetting", "switching", "switched", "offering",
                       "waiting", "popped", "sending", "joining", "ended", "killed"},
                 era : Eras, action : SUBSET Observations]
    /\ proxy \in [timestep : Timesteps, buffer : [Timesteps -> SUBSET Observations],
                  last : Observations, event : BOOLEAN, chunk : {1, Chunk}]
    /\ thread \in [at : {"wait", "woken", "taken", "flight", "reply", "exited", "dead"},
                   obs : Observations, twice : BOOLEAN]
    /\ server \in {"up", "gone"}
    /\ robot \in [open : BOOLEAN, whole : BOOLEAN, era : Eras]

\* Proxy._init_state and start().
Fresh == [timestep |-> 0, buffer |-> [t \in Timesteps |-> {}], last |-> Nothing,
          event |-> FALSE, chunk |-> 1]
Started == [at |-> "wait", obs |-> Nothing, twice |-> FALSE]

Init ==
    /\ keys = [running |-> FALSE, reset |-> FALSE, stop |-> FALSE]
    /\ stopper = "none"
    /\ main = [at |-> "top", era |-> 0, action |-> {}]
    /\ proxy = Fresh /\ thread = Started
    /\ server = "up"
    /\ robot = [open |-> TRUE, whole |-> TRUE, era |-> 0]

Goto(where) == main' = [main EXCEPT !.at = where, !.action = {}]

----------------------------------------------------------------------------
(* Proxy: what the loop calls.                                             *)

Buffered == {t \in Timesteps : proxy.buffer[t] # {}}

\* update_observation: no request in flight or pending, and room in the buffer.
Accepts ==
    /\ thread.at # "flight" /\ ~proxy.event
    /\ 100 * Cardinality(Buffered) <= ThresholdPercent * proxy.chunk

\* The observation is stored with its timestep; the event is set outside the lock.
Offer ==
    IF Accepts
    THEN /\ proxy' = [proxy EXCEPT !.last = [era |-> main.era, ts |-> proxy.timestep]]
         /\ Goto("offering")
    ELSE Goto("waiting") /\ UNCHANGED proxy

SetEvent ==
    /\ main.at = "offering"
    /\ proxy' = [proxy EXCEPT !.event = TRUE]
    /\ Goto("waiting")
    /\ UNCHANGED <<keys, stopper, thread, server, robot>>

\* require_action polls the buffer and, in another critical section, moves on.
Pop ==
    /\ main.at = "waiting" /\ proxy.timestep \in Buffered
    /\ main' = [main EXCEPT !.at = "popped", !.action = proxy.buffer[proxy.timestep]]
    /\ proxy' = [proxy EXCEPT !.buffer[proxy.timestep] = {}]
    /\ UNCHANGED <<keys, stopper, thread, server, robot>>

Advance ==
    /\ main.at = "popped"
    /\ main' = [main EXCEPT !.at = "sending"]
    /\ proxy' = [proxy EXCEPT !.timestep = @ + 1]
    /\ UNCHANGED <<keys, stopper, thread, server, robot>>

----------------------------------------------------------------------------
(* Proxy.request_policy and the server.                                    *)

StopRequested == main.at \in {"switching", "joining", "killed"}

Wake ==
    /\ thread.at = "wait" /\ proxy.event
    /\ proxy' = [proxy EXCEPT !.event = FALSE]
    /\ thread' = [thread EXCEPT !.at = "woken"]

Take ==
    /\ thread.at = "woken"
    /\ thread' = [at |-> "taken", obs |-> proxy.last,
                  twice |-> thread.twice \/ thread.obs = proxy.last]
    /\ UNCHANGED proxy

Request ==
    /\ thread.at = "taken"
    /\ thread' = [thread EXCEPT !.at = "flight"]
    /\ UNCHANGED proxy

Covered(obs) == obs.ts .. obs.ts + Chunk - 1

\* _aggregate_incoming: every remaining timestep keeps what was predicted for it.
Aggregate(obs) ==
    [t \in Timesteps |->
        IF t < proxy.timestep THEN {}
        ELSE proxy.buffer[t] \cup (IF t \in Covered(obs) THEN {obs} ELSE {})]

Store ==
    /\ thread.at = "reply"
    /\ proxy' = [proxy EXCEPT !.buffer = Aggregate(thread.obs), !.chunk = Chunk]
    /\ thread' = [thread EXCEPT !.at = "wait"]

\* Seen between two requests only.
Exit ==
    /\ thread.at = "wait" /\ StopRequested
    /\ thread' = [thread EXCEPT !.at = "exited"]
    /\ UNCHANGED proxy

\* The server answers with a chunk, or with an empty message, which ends the thread.
Answer ==
    /\ thread.at = "flight" /\ server = "up"
    /\ \E at \in {"reply", "dead"} : thread' = [thread EXCEPT !.at = at]
    /\ UNCHANGED proxy

ThreadStep ==
    /\ Wake \/ Take \/ Request \/ Store \/ Exit \/ Answer
    /\ UNCHANGED <<keys, stopper, main, server, robot>>

\* An exception in the prediction ends the server: what it was asked is never answered.
ServerEnds ==
    /\ server = "up" /\ server' = "gone"
    /\ UNCHANGED <<keys, stopper, main, proxy, thread, robot>>

----------------------------------------------------------------------------
(* The robot, as the loop and the stop callback find it.                   *)

\* is_connected: the SDK, or the process that owns it, and every camera.
Connected == robot.open /\ robot.whole

\* A camera stream is closed, or the Servo owner process reports an error or
\* dies: every later call raises, and nothing connects again.
DropsOut ==
    /\ robot.whole
    /\ robot' = [robot EXCEPT !.whole = FALSE]
    /\ UNCHANGED <<keys, stopper, main, proxy, thread, server>>

\* The stop callback, which acts once: disconnect() lets go of the arm, but it is
\* only called for a robot that is connected.
LetGo ==
    /\ stopper' = "done"
    /\ robot' = IF stopper # "done" /\ Connected THEN [robot EXCEPT !.open = FALSE] ELSE robot

----------------------------------------------------------------------------
(* infer_loop.                                                             *)

Observe ==
    /\ main.at = "top"
    /\ IF keys.stop \/ ~Connected THEN Goto("joining")
       ELSE main' = [main EXCEPT !.at = "observed", !.era = robot.era]
    /\ UNCHANGED <<keys, stopper, proxy, thread, server, robot>>

\* _reset_robot: Servo is left and a planned move begins.
Reset ==
    /\ main.at = "observed" /\ keys.reset
    /\ keys' = [keys EXCEPT !.reset = FALSE, !.running = FALSE]
    /\ Goto("resetting")
    /\ UNCHANGED <<stopper, proxy, thread, server, robot>>

Arrived ==
    /\ main.at = "resetting" /\ Connected
    /\ robot' = [robot EXCEPT !.era = @ + 1]
    /\ Goto("switching")
    /\ UNCHANGED <<keys, stopper, proxy, thread, server>>

\* Mutant: the policy is reset without stopping the request thread.
SwitchWithoutStop ==
    /\ main.at = "switching"
    /\ proxy' = Fresh
    /\ Goto("switched")
    /\ UNCHANGED <<keys, stopper, thread, server, robot>>

\* switch_policy to the same address: join the thread, start again with nothing.
Switch ==
    /\ main.at = "switching" /\ thread.at \in {"exited", "dead"}
    /\ IF server = "up"
       THEN proxy' = Fresh /\ thread' = Started /\ Goto("switched")
       ELSE Goto("joining") /\ UNCHANGED <<proxy, thread>>
    /\ UNCHANGED <<keys, stopper, server, robot>>

\* The rest of the iteration, with the observation it began with.
Decide ==
    /\ (main.at = "observed" /\ ~keys.reset) \/ main.at = "switched"
    /\ Connected
    /\ IF keys.running THEN proxy.timestep < MaxSteps /\ Offer
       ELSE Goto("top") /\ UNCHANGED proxy
    /\ UNCHANGED <<keys, stopper, thread, server, robot>>

Act ==
    /\ main.at = "sending" /\ Connected
    /\ Goto("top")
    /\ UNCHANGED <<keys, stopper, proxy, thread, server, robot>>

\* The robot raises, the more so once disconnected; the operator interrupts.
Raise ==
    /\ main.at \notin {"joining", "ended", "killed"}
    /\ Goto("joining")
    /\ UNCHANGED <<keys, stopper, proxy, thread, server, robot>>

\* infer's finally: the proxy is stopped first, then the callback is called.
Finish ==
    /\ main.at = "joining" /\ thread.at \in {"exited", "dead"}
    /\ Goto("ended")
    /\ LetGo
    /\ UNCHANGED <<keys, proxy, thread, server>>

\* A second interrupt while the thread is joined leaves finally.
InterruptJoin ==
    /\ main.at = "joining" /\ thread.at \notin {"exited", "dead"}
    /\ Goto("killed")
    /\ UNCHANGED <<keys, stopper, proxy, thread, server, robot>>

LoopStep ==
    \/ Observe \/ Reset \/ Arrived \/ Switch \/ Decide \/ SetEvent \/ Pop \/ Advance
    \/ Act \/ Finish
    \/ ~Connected /\ main.at \in {"observed", "resetting", "switched", "sending"} /\ Raise

----------------------------------------------------------------------------
(* The keyboard listener.                                                  *)

Space ==
    /\ ~keys.stop
    /\ keys' = [keys EXCEPT !.running = ~@]
    /\ UNCHANGED <<stopper, main, proxy, thread, server, robot>>

R ==
    /\ ~keys.stop /\ robot.era < MaxResets /\ main.at # "resetting"
    /\ keys' = [keys EXCEPT !.reset = TRUE]
    /\ UNCHANGED <<stopper, main, proxy, thread, server, robot>>

Esc ==
    /\ ~keys.stop
    /\ keys' = [keys EXCEPT !.stop = TRUE]
    /\ stopper' = IF stopper = "none" THEN "called" ELSE stopper
    /\ UNCHANGED <<main, proxy, thread, server, robot>>

\* Esc calls it in the listener's thread, whatever the loop is doing.
StopCallback ==
    /\ stopper = "called"
    /\ LetGo
    /\ UNCHANGED <<keys, main, proxy, thread, server>>

Next ==
    \/ LoopStep \/ Raise \/ InterruptJoin
    \/ ThreadStep \/ ServerEnds
    \/ Space \/ R \/ Esc \/ StopCallback \/ DropsOut

Fairness == WF_vars(LoopStep) /\ WF_vars(ThreadStep) /\ WF_vars(StopCallback)
Spec == Init /\ [][Next]_vars
FairSpec == Spec /\ Fairness

----------------------------------------------------------------------------
\* An action is played at a timestep its observation foresaw.  It was not
\* computed before the last reset, except from the observation of the iteration
\* that reset, used when the operator resumes during the move: that one is the
\* first of its episode.
ActionsOfThisEpisode ==
    \A o \in main.action :
        /\ (IF main.at = "popped" THEN proxy.timestep ELSE proxy.timestep - 1) \in Covered(o)
        /\ o.era # robot.era => o.era + 1 = robot.era /\ o.ts = 0

\* The thread asks, or is about to ask, a second time for one observation.
AsksTwice ==
    \/ thread.twice
    \/ (proxy.event \/ thread.at = "woken") /\ proxy.last = thread.obs

\* The loop never waits for an action nobody is asked for, as long as the
\* server and the request thread live: the chunk it waits for is on its way.
\* But a thread that is woken twice for one observation asks twice, and while
\* the second answer is computed the loop may play the first to its end.
Unserved == main.at = "waiting" /\ server = "up" /\ thread.at # "dead" /\ ~AsksTwice

NeverStarved ==
    Unserved =>
        \/ proxy.timestep \in Buffered
        \/ (proxy.event \/ thread.at = "woken") /\ proxy.timestep \in Covered(proxy.last)
        \/ /\ thread.at \in {"taken", "flight", "reply"}
           /\ proxy.timestep \in Covered(thread.obs)

\* A program that ran to its end let go of its arm, unless a camera or the Servo
\* owner was gone: the callback skips disconnect() then, and does not try again.
ArmLetGo == main.at = "ended" => ~robot.open \/ ~robot.whole

\* A program the operator has stopped, as long as its request thread is served.
Stopping ==
    /\ keys.stop /\ main.at \notin {"ended", "killed"}
    /\ server = "up" /\ thread.at # "dead" /\ ~AsksTwice

\* What must come to an end: a connection the operator has stopped, whatever the
\* loop is waiting for, the program itself, and a wait for an action, the last
\* two under the conditions above.
Pending == (stopper = "called" /\ Connected) \/ Stopping \/ Unserved
=============================================================================
