----------------------- MODULE Teleoperation_proofs -----------------------
(***************************************************************************)
(* Proofs about Teleoperation, for any number of episodes, sessions,        *)
(* presses, Handles, peers, threads and messages.  Each of the five parts   *)
(* has an inductive invariant of its own, found by asking TLC for what a     *)
(* step of that part needs of the state before it; a step of one leaves the  *)
(* variables of the others alone.                                           *)
(***************************************************************************)
EXTENDS Teleoperation, TLAPS, FiniteSetTheorems

----------------------------------------------------------------------------
(* The assumption on the constants, part by part.                          *)

\* What the recorder counts is bounded by positive numbers.
LEMMA RecordConstants == NumEpisodes \in Nat \ {0} /\ MaxTakes \in Nat \ {0}
BY TeleoperationAssumption

\* So are sessions, squeezes and Handles of a Piper's teleoperation.
LEMMA PiperConstants ==
    MaxSessions \in Nat \ {0} /\ MaxPresses \in Nat \ {0} /\ MaxHandles \in Nat \ {0}
BY TeleoperationAssumption

\* So are the inbox and the traffic of the in-process runtime.
LEMMA MemoryConstants ==
    management_inbox_max \in Nat \ {0} /\ MaxSent \in Nat \ {0} /\ MaxOpens \in Nat \ {0}
BY TeleoperationAssumption

\* So are sessions, starts and losses; a process that starts has a session left.
LEMMA SessionConstants ==
    /\ MaxNodeSessions \in Nat \ {0} /\ MaxStarts \in Nat \ {0} /\ MaxEpochs \in Nat \ {0}
    /\ missed_acks \in Nat \ {0} /\ MaxDrops \in Nat /\ MaxStarts <= MaxNodeSessions
BY TeleoperationAssumption

----------------------------------------------------------------------------
(* Recording under XR teleoperation.                                       *)

\* The frames that are pending are those of the current take, and only of a take
\* that is in progress or has just been completed; a take that is in progress is
\* neither saved nor thrown away.
TakesInv ==
    /\ data.pending \subseteq {episode.take}
    /\ data.pending \cap data.discarded = {}
    /\ data.discarded \subseteq 1 .. episode.take
    /\ \A s \in data.saved :
         /\ \E k \in 1 .. episode.take : s = {k}
         /\ s \cap data.discarded = {}
    /\ Record!Active =>
         /\ episode.take # 0 /\ episode.take \notin data.discarded
         /\ \A s \in data.saved : episode.take \notin s
    /\ episode.finished => ~Record!Active /\ loop \in {"send", "saving"}
    /\ Record!Active => loop \in {"top", "send"}
    /\ data.pending # {} /\ loop \in {"top", "reset", "send"} =>
         Record!Active \/ episode.finished

\* A press that may still give a command has given none, and a gripper command is
\* sent in the iteration that made it, or dropped for a reset.
PressInv ==
    /\ \A b \in {"a", "b"} :
         button[b].sent <= (IF button[b].down /\ ~button[b].fired THEN 0 ELSE 1)
    /\ grip.applied = grip.target \/ grip.send \/ grip.dropped
    /\ grip.send => loop \in {"send", "reset"}

\* The home of a closed clutch was measured when it closed.
PoseInv ==
    /\ clutch.enabled => clutch.home = "fresh"
    /\ hold # "stale"
    /\ loop = "send" /\ ~clutch.enabled => hold = "fresh"

\* What the arm is left in by an iteration, and by the teardown.
ServoInv ==
    /\ loop \in {"top", "saving"} /\ hw.reachable => (hw.servo <=> clutch.enabled)
    /\ loop \in {"fallback", "exited"} => (~hw.attached /\ ~hw.servo) \/ ~hw.reachable \/ hw.cut

RecordInv == Record!TypeOK /\ TakesInv /\ PressInv /\ PoseInv /\ ServoInv

\* A recorder starts with nothing pending, pressed or closed.
LEMMA RecordInit == Init => RecordInv
<1> SUFFICES ASSUME Init PROVE RecordInv
  OBVIOUS
<1>1. Record!Init
  BY DEF Init
<1>2. Record!TypeOK
  BY <1>1, RecordConstants
  DEF Record!Init, Record!TypeOK, Record!AllUp, Record!Up, Record!Open, Record!NoPress,
      Record!Poses
<1> QED
  BY <1>1, <1>2
  DEF RecordInv, TakesInv, PressInv, PoseInv, ServoInv, Record!Active, Record!Init,
      Record!AllUp, Record!Up, Record!Open, Record!NoPress

\* The recorder's invariant is about the recorder's variables only.
LEMMA RecordStutter == RecordInv /\ UNCHANGED recordVars => RecordInv'
BY DEF recordVars, RecordInv, Record!TypeOK, TakesInv, PressInv, PoseInv, ServoInv,
       Record!Active, Record!Takes

\* The loop is left: nothing of it is used again, and no take is in progress.
LEMMA LoopLeft ==
    ASSUME RecordInv, Record!LeaveLoop
    PROVE  /\ loop' = "cleanup"
           /\ clutch' \in [enabled : BOOLEAN, home : Record!Poses]
           /\ button' \in [{"a", "b"} -> [down : BOOLEAN, fired : BOOLEAN, sent : 0 .. 2]]
           /\ grip' \in [pressed : BOOLEAN, target : BOOLEAN, send : BOOLEAN,
                         applied : BOOLEAN, dropped : BOOLEAN]
           /\ hold' \in Record!Poses
           /\ episode' \in [state : {"ready", "recording", "pause"}, take : 0 .. MaxTakes,
                            finished : BOOLEAN]
           /\ episode'.take = episode.take /\ ~episode'.finished /\ ~Record!Active'
           /\ PressInv' /\ PoseInv'
<1> USE DEF Record!LeaveLoop, Record!Open, Record!AllUp, Record!Up, Record!NoPress, Record!Poses
<1>1. /\ clutch' \in [enabled : BOOLEAN, home : Record!Poses]
      /\ button' \in [{"a", "b"} -> [down : BOOLEAN, fired : BOOLEAN, sent : 0 .. 2]]
  OBVIOUS
<1>2. /\ grip' \in [pressed : BOOLEAN, target : BOOLEAN, send : BOOLEAN,
                    applied : BOOLEAN, dropped : BOOLEAN]
      /\ hold' \in Record!Poses
  OBVIOUS
<1>3. /\ episode' \in [state : {"ready", "recording", "pause"}, take : 0 .. MaxTakes,
                       finished : BOOLEAN]
      /\ episode'.take = episode.take /\ ~episode'.finished /\ ~Record!Active'
  BY DEF RecordInv, Record!TypeOK, Record!Active
<1>4. PressInv' /\ PoseInv'
  BY DEF PressInv, PoseInv
<1> QED
  BY <1>1, <1>2, <1>3, <1>4 DEF Record!LeaveLoop

\* The arm is reset: the clutch is open and a new hold latch is taken.
LEMMA RecordResets ==
    ASSUME RecordInv, Record!Reset
    PROVE  RecordInv'
<1> USE DEF RecordInv, Record!Reset, Record!Rearm, Record!Moved, Record!NewHold
<1>1. Record!TypeOK'
  BY RecordConstants DEF Record!TypeOK, Record!Takes, Record!Poses, Record!Keys
<1>2. TakesInv'
  BY DEF TakesInv, Record!Active, Record!TypeOK
<1>3. PressInv'
  BY DEF PressInv, Record!TypeOK
<1>4. PoseInv'
  BY DEF PoseInv
<1>5. ServoInv'
  BY DEF ServoInv, Record!TypeOK
<1> QED
  BY <1>1, <1>2, <1>3, <1>4, <1>5

\* The action is sent and the frame kept.
LEMMA RecordSends ==
    ASSUME RecordInv, Record!Send
    PROVE  RecordInv'
<1> USE DEF RecordInv, Record!Send, Record!ServoWanted
<1>1. Record!TypeOK'
  <2>1. episode.state = "recording" => episode.take \in Record!Takes
    BY RecordConstants DEF TakesInv, Record!Active, Record!TypeOK, Record!Takes
  <2>2. data' \in [pending : SUBSET Record!Takes, saved : SUBSET (SUBSET Record!Takes),
                   discarded : SUBSET Record!Takes]
    BY <2>1 DEF Record!TypeOK
  <2>3. /\ hw' \in [attached : BOOLEAN, reachable : BOOLEAN, servo : BOOLEAN, cut : BOOLEAN]
        /\ grip' \in [pressed : BOOLEAN, target : BOOLEAN, send : BOOLEAN,
                      applied : BOOLEAN, dropped : BOOLEAN]
        /\ loop' \in {"saving", "top"}
    BY DEF Record!TypeOK
  <2> QED
    BY <2>2, <2>3 DEF Record!TypeOK
<1>2. TakesInv'
  BY DEF TakesInv, Record!Active, Record!TypeOK
<1>3. PressInv'
  BY DEF PressInv, Record!TypeOK
<1>4. PoseInv'
  BY DEF PoseInv
<1>5. ServoInv'
  BY DEF ServoInv, Record!TypeOK
<1> QED
  BY <1>1, <1>2, <1>3, <1>4, <1>5

\* The stop event is seen.
LEMMA RecordStops ==
    ASSUME RecordInv, Record!Stop, Record!LeaveLoop
    PROVE  RecordInv'
<1>1. /\ keys' \in SUBSET Record!Keys
      /\ data' \in [pending : SUBSET Record!Takes, saved : SUBSET (SUBSET Record!Takes),
                    discarded : SUBSET Record!Takes]
      /\ hw' \in [attached : BOOLEAN, reachable : BOOLEAN, servo : BOOLEAN, cut : BOOLEAN]
  BY DEF RecordInv, Record!TypeOK, Record!Stop
<1>2. Record!TypeOK'
  BY <1>1, LoopLeft DEF Record!TypeOK
<1>3. /\ data'.saved = data.saved /\ data'.discarded = data.discarded
      /\ data'.pending = data.pending \/ data'.pending = {}
  BY DEF RecordInv, Record!TypeOK, Record!Stop
<1>4. TakesInv'
  BY <1>3, LoopLeft DEF RecordInv, TakesInv
<1>5. ServoInv'
  BY LoopLeft DEF ServoInv
<1> QED
  BY <1>2, <1>4, <1>5, LoopLeft DEF RecordInv

\* An operation raises.
LEMMA RecordRaises ==
    ASSUME RecordInv, Record!Raise, Record!LeaveLoop
    PROVE  RecordInv'
<1>1. /\ keys' \in SUBSET Record!Keys
      /\ data' \in [pending : SUBSET Record!Takes, saved : SUBSET (SUBSET Record!Takes),
                    discarded : SUBSET Record!Takes]
      /\ hw' \in [attached : BOOLEAN, reachable : BOOLEAN, servo : BOOLEAN, cut : BOOLEAN]
  BY DEF RecordInv, Record!TypeOK, Record!Raise
<1>2. Record!TypeOK'
  BY <1>1, LoopLeft DEF Record!TypeOK
<1>3. /\ data'.saved = data.saved /\ data'.discarded = data.discarded
      /\ data'.pending = data.pending \/ data'.pending = {}
  BY DEF RecordInv, Record!TypeOK, Record!Raise
<1>4. TakesInv'
  BY <1>3, LoopLeft DEF RecordInv, TakesInv
<1>5. ServoInv'
  BY LoopLeft DEF ServoInv
<1> QED
  BY <1>2, <1>4, <1>5, LoopLeft DEF RecordInv

\* A signal arrives before the teardown.
LEMMA RecordInterrupted ==
    ASSUME RecordInv, Record!Interrupt, UNCHANGED hw, Record!LeaveLoop
    PROVE  RecordInv'
<1>1. /\ keys' \in SUBSET Record!Keys
      /\ data' \in [pending : SUBSET Record!Takes, saved : SUBSET (SUBSET Record!Takes),
                    discarded : SUBSET Record!Takes]
      /\ hw' \in [attached : BOOLEAN, reachable : BOOLEAN, servo : BOOLEAN, cut : BOOLEAN]
  BY DEF RecordInv, Record!TypeOK, Record!Interrupt
<1>2. Record!TypeOK'
  BY <1>1, LoopLeft DEF Record!TypeOK
<1>3. /\ data'.saved = data.saved /\ data'.discarded = data.discarded
      /\ data'.pending = data.pending \/ data'.pending = {}
  BY DEF RecordInv, Record!TypeOK, Record!Interrupt
<1>4. TakesInv'
  BY <1>3, LoopLeft DEF RecordInv, TakesInv
<1>5. ServoInv'
  BY LoopLeft DEF ServoInv
<1> QED
  BY <1>2, <1>4, <1>5, LoopLeft DEF RecordInv

\* The teardown, a signal during it, a key, and hardware that goes away.
LEMMA RecordEnds ==
    ASSUME RecordInv, \/ Record!Cleanup \/ Record!DisconnectRobot \/ Record!Fallback
           \/ Record!HardwareLost
           \/ (Record!Interrupt /\ loop \in {"cleanup", "disconnect"})
    PROVE  RecordInv'
<1> USE DEF RecordInv, Record!Cleanup, Record!DisconnectRobot, Record!Fallback, Record!HardwareLost,
           Record!Interrupt
<1>1. Record!TypeOK'
  <2>1. /\ UNCHANGED <<keys, clutch, button, grip, hold, episode, data>>
        /\ loop' \in {"top", "reset", "send", "saving", "cleanup", "disconnect", "fallback",
                      "exited"}
    BY DEF Record!TypeOK
  <2>2. hw' \in [attached : BOOLEAN, reachable : BOOLEAN, servo : BOOLEAN, cut : BOOLEAN]
    <3>1. hw \in [attached : BOOLEAN, reachable : BOOLEAN, servo : BOOLEAN, cut : BOOLEAN]
      BY DEF Record!TypeOK
    <3>2. (hw.servo /\ ~hw.reachable) \in BOOLEAN
      BY <3>1
    <3>3. CASE Record!Cleanup
      BY <3>1, <3>2, <3>3
    <3>4. CASE Record!DisconnectRobot \/ Record!Fallback
      BY <3>1, <3>4
    <3>5. CASE Record!HardwareLost \/ (Record!Interrupt /\ loop \in {"cleanup", "disconnect"})
      BY <3>1, <3>5
    <3> QED
      BY <3>3, <3>4, <3>5
  <2> QED
    BY <2>1, <2>2 DEF Record!TypeOK
<1>2. TakesInv'
  BY DEF TakesInv, Record!Active, Record!TypeOK
<1>3. PressInv'
  BY DEF PressInv, Record!TypeOK
<1>4. PoseInv'
  BY DEF PoseInv
<1>5. ServoInv'
  BY DEF ServoInv, Record!TypeOK
<1> QED
  BY <1>1, <1>2, <1>3, <1>4, <1>5

\* A key is pressed.
LEMMA RecordKey ==
    ASSUME RecordInv, NEW k \in Keyboard, Record!Key(k)
    PROVE  RecordInv'
<1> USE DEF RecordInv, Record!Key
<1>1. Record!TypeOK'
  BY TeleoperationAssumption DEF Record!TypeOK, Record!Takes, Record!Poses, Record!Keys
<1>2. TakesInv'
  BY DEF TakesInv, Record!Active, Record!TypeOK
<1>3. PressInv'
  BY DEF PressInv, Record!TypeOK
<1>4. PoseInv'
  BY DEF PoseInv
<1>5. ServoInv'
  BY DEF ServoInv, Record!TypeOK
<1> QED
  BY <1>1, <1>2, <1>3, <1>4, <1>5

\* A completed take is saved; it is the only one pending.
LEMMA RecordSaves ==
    ASSUME RecordInv, Record!Save
    PROVE  RecordInv'
<1>1. /\ loop = "saving" /\ ~Record!Active /\ ~grip.send
      /\ UNCHANGED keys
  BY DEF RecordInv, TakesInv, PressInv, Record!Save
<1>2. data' \in [pending : SUBSET Record!Takes, saved : SUBSET (SUBSET Record!Takes),
                 discarded : SUBSET Record!Takes]
  BY DEF RecordInv, Record!TypeOK, Record!Save
<1>3. hw' \in [attached : BOOLEAN, reachable : BOOLEAN, servo : BOOLEAN, cut : BOOLEAN]
  BY DEF RecordInv, Record!TypeOK, Record!Save
<1>4. /\ data'.pending = {} /\ data'.discarded = data.discarded
      /\ \A s \in data'.saved : s \in data.saved \/ (s = data.pending /\ s # {})
  BY DEF RecordInv, Record!TypeOK, Record!Save
<1>5. \A s \in data'.saved : /\ \E k \in 1 .. episode.take : s = {k}
                             /\ s \cap data.discarded = {}
  <2>1. data.pending # {} => episode.take \in 1 .. episode.take
    BY RecordConstants DEF RecordInv, TakesInv, Record!TypeOK, Record!Takes
  <2> QED
    BY <1>4, <2>1 DEF RecordInv, TakesInv
<1>6. CASE Record!LeaveLoop
  <2>1. Record!TypeOK'
    BY <1>1, <1>2, <1>3, <1>6, LoopLeft DEF RecordInv, Record!TypeOK
  <2>2. TakesInv'
    BY <1>4, <1>5, <1>6, LoopLeft DEF RecordInv, TakesInv
  <2>3. ServoInv'
    BY <1>6, LoopLeft DEF ServoInv
  <2> QED
    BY <1>6, <2>1, <2>2, <2>3, LoopLeft DEF RecordInv
<1>7. CASE /\ loop' = "top"
           /\ episode' = [episode EXCEPT !.state = "ready", !.finished = FALSE]
           /\ hold' = Record!NewHold
           /\ UNCHANGED <<clutch, button, grip>>
  <2>1. /\ episode' \in [state : {"ready", "recording", "pause"}, take : 0 .. MaxTakes,
                         finished : BOOLEAN]
        /\ episode'.take = episode.take /\ ~episode'.finished /\ ~Record!Active'
    BY <1>7 DEF RecordInv, Record!TypeOK, Record!Active
  <2>2. Record!TypeOK'
    BY <1>1, <1>2, <1>3, <1>7, <2>1 DEF RecordInv, Record!TypeOK, Record!NewHold, Record!Poses
  <2>3. TakesInv'
    BY <1>4, <1>5, <1>7, <2>1 DEF RecordInv, TakesInv
  <2>4. PressInv' /\ PoseInv'
    BY <1>1, <1>7 DEF RecordInv, PressInv, PoseInv, Record!NewHold
  <2>5. ServoInv'
    BY <1>1, <1>7 DEF RecordInv, ServoInv, Record!Save, Record!TypeOK
  <2> QED
    BY <2>2, <2>3, <2>4, <2>5 DEF RecordInv
<1> QED
  BY <1>6, <1>7 DEF Record!Save

\* What the commands of an iteration do to the episode and to its frames.
LEMMA CommandsApplied ==
    ASSUME RecordInv, loop = "top", NEW cmd, Record!ApplyCommands(cmd)
    PROVE  /\ episode' \in [state : {"ready", "recording", "pause"}, take : 0 .. MaxTakes,
                            finished : BOOLEAN]
           /\ data' \in [pending : SUBSET Record!Takes, saved : SUBSET (SUBSET Record!Takes),
                         discarded : SUBSET Record!Takes]
           /\ loop' \in {"reset", "send"}
           /\ TakesInv'
<1> DEFINE discard == "rerecord" \in cmd
           toggle == "toggle" \in cmd /\ ~discard
           starts == toggle /\ ~Record!Active
           ends == toggle /\ Record!Active
           reset == "reset" \in cmd
           pause == "pause" \in cmd /\ ~discard /\ ~toggle
           state == CASE discard \/ ends -> "ready"
                      [] starts -> "recording"
                      [] pause /\ episode.state = "recording" -> "pause"
                      [] pause /\ episode.state = "pause" -> "recording"
                      [] OTHER -> episode.state
<1>1. PICK timeUp \in {FALSE, ~reset /\ state = "recording"} :
        episode' = [state |-> IF reset \/ timeUp THEN "ready" ELSE state,
                    take |-> IF starts THEN episode.take + 1 ELSE episode.take,
                    finished |-> ~reset /\ (ends \/ timeUp)]
  BY DEF Record!ApplyCommands
<1>2. /\ starts => episode.take < MaxTakes
      /\ data' = IF ~discard /\ ~reset THEN data
                 ELSE [data EXCEPT !.pending = {},
                                   !.discarded = IF Record!Active THEN @ \cup {episode.take}
                                                 ELSE @]
      /\ loop' = IF reset THEN "reset" ELSE "send"
  BY DEF Record!ApplyCommands
<1>3. /\ episode.state \in {"ready", "recording", "pause"} /\ episode.take \in 0 .. MaxTakes
      /\ ~episode.finished
      /\ Record!Active <=> episode.state \in {"recording", "pause"}
  BY DEF RecordInv, TakesInv, Record!TypeOK, Record!Active
<1>4. state \in {"ready", "recording", "pause"}
  <2>1. CASE discard \/ ends
    BY <2>1
  <2>2. CASE ~(discard \/ ends) /\ starts
    BY <2>2
  <2>3. CASE ~(discard \/ ends) /\ ~starts /\ pause /\ episode.state = "recording"
    BY <2>3
  <2>4. CASE ~(discard \/ ends) /\ ~starts /\ pause /\ episode.state = "pause"
    BY <2>4
  <2>5. CASE ~(discard \/ ends) /\ ~starts /\ ~(pause /\ episode.state \in {"recording", "pause"})
    BY <1>3, <2>5
  <2> QED
    BY <1>3, <2>1, <2>2, <2>3, <2>4, <2>5
<1>5. /\ discard \/ ends => state = "ready"
      /\ ~discard /\ ~ends /\ ~starts => (state = "ready" <=> ~Record!Active)
      /\ starts => state = "recording" /\ ~Record!Active /\ ~discard
  BY <1>3
<1> DEFINE take == IF starts THEN episode.take + 1 ELSE episode.take
<1>6. /\ take \in 0 .. MaxTakes /\ episode.take <= take
      /\ starts => take = episode.take + 1
      /\ ~starts => take = episode.take
      /\ Record!Active => ~starts
  BY <1>2, <1>3, RecordConstants
<1>7. /\ episode'.take = take
      /\ episode'.finished = (~reset /\ (ends \/ timeUp))
      /\ episode'.state = IF reset \/ timeUp THEN "ready" ELSE state
      /\ timeUp => ~reset /\ state = "recording"
      /\ reset => loop' = "reset"
      /\ ~reset => loop' = "send"
  BY <1>1, <1>2
<1>8. Record!Active' <=> ~reset /\ ~timeUp /\ state # "ready"
  BY <1>4, <1>7 DEF Record!Active
<1>9. episode' \in [state : {"ready", "recording", "pause"}, take : 0 .. MaxTakes,
                    finished : BOOLEAN]
  BY <1>1, <1>4, <1>6
<1>10. Record!Active => episode.take \in Record!Takes
  BY <1>3, RecordConstants DEF RecordInv, TakesInv, Record!Takes
<1>11. data' \in [pending : SUBSET Record!Takes, saved : SUBSET (SUBSET Record!Takes),
                  discarded : SUBSET Record!Takes]
  BY <1>2, <1>10 DEF RecordInv, Record!TypeOK
<1>12. episode'.finished => ~Record!Active' /\ loop' = "send"
  BY <1>5, <1>7, <1>8
<1> HIDE DEF discard, ends, starts, reset, state, take
<1>13. CASE ~discard /\ ~reset
  <2>1. data' = data
    BY <1>2, <1>13
  <2>2. /\ data.pending \subseteq {take}
        /\ data.discarded \subseteq 1 .. take
        /\ \A s \in data.saved : \E k \in 1 .. take : s = {k}
    <3>1. 1 .. episode.take \subseteq 1 .. take
      BY <1>3, <1>6
    <3>2. data.pending # {} => Record!Active
      BY <1>3 DEF RecordInv, TakesInv
    <3> QED
      BY <1>6, <3>1, <3>2 DEF RecordInv, TakesInv
  <2>3. Record!Active' =>
          /\ take # 0 /\ take \notin data.discarded
          /\ \A s \in data.saved : take \notin s
    <3>1. CASE starts
      <4>1. take # 0 /\ take \notin 1 .. episode.take
        BY <1>3, <1>6, <3>1
      <4> QED
        BY <4>1 DEF RecordInv, TakesInv
    <3>2. CASE ~starts
      <4>1. Record!Active' => Record!Active
        BY <1>5, <1>8, <1>13, <3>2
      <4> QED
        BY <1>6, <3>2, <4>1 DEF RecordInv, TakesInv
    <3> QED
      BY <3>1, <3>2
  <2>4. data.pending # {} => Record!Active' \/ episode'.finished
    <3>1. data.pending # {} => Record!Active
      BY <1>3 DEF RecordInv, TakesInv
    <3> QED
      BY <1>5, <1>6, <1>7, <1>8, <1>13, <3>1
  <2>5. TakesInv'
    BY <1>7, <1>8, <1>12, <1>13, <2>1, <2>2, <2>3, <2>4 DEF RecordInv, TakesInv
  <2> QED
    BY <1>2, <1>9, <1>11, <2>5
<1>14. CASE discard \/ reset
  <2>1. /\ data'.pending = {} /\ data'.saved = data.saved
        /\ data'.discarded = IF Record!Active THEN data.discarded \cup {episode.take}
                             ELSE data.discarded
    BY <1>2, <1>14 DEF RecordInv, Record!TypeOK
  <2>2. ~Record!Active'
    BY <1>5, <1>8, <1>14
  <2>3. /\ data'.discarded \subseteq 1 .. take
        /\ \A s \in data.saved : \E k \in 1 .. take : s = {k}
    <3>1. 1 .. episode.take \subseteq 1 .. take
      BY <1>3, <1>6
    <3>2. Record!Active => episode.take \in 1 .. episode.take
      BY <1>3 DEF RecordInv, TakesInv
    <3> QED
      BY <2>1, <3>1, <3>2 DEF RecordInv, TakesInv
  <2>4. \A s \in data.saved : s \cap data'.discarded = {}
    BY <2>1 DEF RecordInv, TakesInv
  <2>5. TakesInv'
    BY <1>7, <1>12, <2>1, <2>2, <2>3, <2>4 DEF TakesInv
  <2> QED
    BY <1>2, <1>9, <1>11, <2>5
<1> QED
  BY <1>13, <1>14

\* A press that gives its command is one that had given none.
LEMMA PressedOnce ==
    ASSUME RecordInv, NEW b \in {"a", "b"}, NEW tracking \in BOOLEAN, NEW down \in BOOLEAN,
           NEW long \in BOOLEAN, NEW after,
           after = Record!AfterPress(b, tracking, down,
                                     Record!Commands(b, tracking, down, long) # {})
    PROVE  /\ after \in [down : BOOLEAN, fired : BOOLEAN, sent : 0 .. 2]
           /\ after.sent <= (IF after.down /\ ~after.fired THEN 0 ELSE 1)
<1> DEFINE fires == Record!Commands(b, tracking, down, long) # {}
<1>1. button[b] \in [down : BOOLEAN, fired : BOOLEAN, sent : 0 .. 2]
  BY DEF RecordInv, Record!TypeOK
<1>2. button[b].sent <= (IF button[b].down /\ ~button[b].fired THEN 0 ELSE 1)
  BY DEF RecordInv, PressInv
<1>3. fires => button[b].down /\ ~button[b].fired
  BY DEF Record!Commands
<1>4. fires \in BOOLEAN
  OBVIOUS
<1>5. after = Record!AfterPress(b, tracking, down, fires)
  OBVIOUS
<1> HIDE DEF fires
<1>6. CASE ~tracking
  BY <1>5, <1>6 DEF Record!AfterPress, Record!Up
<1>7. CASE tracking
  <2>1. after = [down |-> down, fired |-> down /\ (button[b].fired \/ fires),
                 sent |-> IF ~button[b].down THEN 0
                          ELSE IF fires THEN button[b].sent + 1 ELSE button[b].sent]
    BY <1>5, <1>7 DEF Record!AfterPress
  <2>2. after.sent = IF ~button[b].down THEN 0
                     ELSE IF fires THEN button[b].sent + 1 ELSE button[b].sent
    BY <2>1
  <2>3. after.down = down /\ after.fired = (down /\ (button[b].fired \/ fires))
    BY <2>1
  <2>4. after.sent \in 0 .. 1 /\ (after.down /\ ~after.fired => after.sent = 0)
    BY <1>1, <1>2, <1>3, <2>2, <2>3
  <2> QED
    BY <1>1, <1>4, <2>1, <2>4
<1> QED
  BY <1>6, <1>7

\* An iteration: the inputs are read and the commands applied.
LEMMA RecordIterates ==
    ASSUME RecordInv, Record!Iterate
    PROVE  RecordInv'
<1>0. PICK tracking, squeeze, head, trigger, long \in BOOLEAN, down \in SUBSET {"a", "b"} :
        /\ ~tracking => ~squeeze /\ ~trigger /\ down = {}
        /\ ~squeeze => ~head
        /\ clutch' = Record!Compute(squeeze, head)
        /\ hold' = Record!Resolve(clutch'.enabled)
        /\ grip' = Record!Toggle(trigger)
        /\ LET cmd(b) == Record!Commands(b, tracking, b \in down, long) IN
             /\ button' = [b \in {"a", "b"} |->
                             Record!AfterPress(b, tracking, b \in down, cmd(b) # {})]
             /\ Record!ApplyCommands(cmd("a") \cup cmd("b") \cup keys)
  BY DEF Record!Iterate
<1>1. /\ clutch' = Record!Compute(squeeze, head)
      /\ hold' = Record!Resolve(clutch'.enabled)
      /\ grip' = Record!Toggle(trigger)
      /\ button' = [b \in {"a", "b"} |->
           Record!AfterPress(b, tracking, b \in down,
                             Record!Commands(b, tracking, b \in down, long) # {})]
      /\ Record!ApplyCommands(Record!Commands("a", tracking, "a" \in down, long)
           \cup Record!Commands("b", tracking, "b" \in down, long) \cup keys)
  BY <1>0
<1>2. loop = "top" /\ keys' = {} /\ hw' = hw
  BY DEF Record!Iterate
<1>3. /\ episode' \in [state : {"ready", "recording", "pause"}, take : 0 .. MaxTakes,
                       finished : BOOLEAN]
      /\ data' \in [pending : SUBSET Record!Takes, saved : SUBSET (SUBSET Record!Takes),
                    discarded : SUBSET Record!Takes]
      /\ loop' \in {"reset", "send"}
      /\ TakesInv'
  BY <1>1, <1>2, CommandsApplied
<1>4. /\ button' \in [{"a", "b"} -> [down : BOOLEAN, fired : BOOLEAN, sent : 0 .. 2]]
      /\ \A b \in {"a", "b"} :
           button'[b].sent <= (IF button'[b].down /\ ~button'[b].fired THEN 0 ELSE 1)
  <2>1. ASSUME NEW b \in {"a", "b"}
        PROVE  /\ button'[b] \in [down : BOOLEAN, fired : BOOLEAN, sent : 0 .. 2]
               /\ button'[b].sent <= (IF button'[b].down /\ ~button'[b].fired THEN 0 ELSE 1)
    <3>1. (b \in down) \in BOOLEAN
      OBVIOUS
    <3>2. PICK after : after = button'[b]
      OBVIOUS
    <3>3. after = Record!AfterPress(b, tracking, b \in down,
                                    Record!Commands(b, tracking, b \in down, long) # {})
      BY <1>1, <3>2
    <3> HIDE <3>2
    <3>4. /\ after \in [down : BOOLEAN, fired : BOOLEAN, sent : 0 .. 2]
          /\ after.sent <= (IF after.down /\ ~after.fired THEN 0 ELSE 1)
      BY <3>1, <3>3, PressedOnce
    <3> QED
      BY <3>2, <3>4
  <2>2. button' \in [{"a", "b"} -> [down : BOOLEAN, fired : BOOLEAN, sent : 0 .. 2]]
    <3>1. /\ DOMAIN button' = {"a", "b"}
          /\ button' = [b \in {"a", "b"} |-> button'[b]]
      BY <1>1
    <3> QED
      BY <2>1, <3>1
  <2> QED
    BY <2>1, <2>2
<1>5. /\ grip' \in [pressed : BOOLEAN, target : BOOLEAN, send : BOOLEAN,
                    applied : BOOLEAN, dropped : BOOLEAN]
      /\ grip'.applied = grip'.target \/ grip'.send \/ grip'.dropped
  BY <1>1, <1>2 DEF RecordInv, Record!TypeOK, PressInv, Record!Toggle
<1>6. /\ clutch' \in [enabled : BOOLEAN, home : Record!Poses]
      /\ hold' \in Record!Poses
      /\ PoseInv'
  BY <1>1, <1>2 DEF RecordInv, Record!TypeOK, PoseInv, Record!Compute, Record!Resolve,
                    Record!Poses
<1>7. Record!TypeOK'
  BY <1>2, <1>3, <1>4, <1>5, <1>6 DEF RecordInv, Record!TypeOK
<1>8. PressInv'
  BY <1>3, <1>4, <1>5 DEF PressInv
<1>9. ServoInv'
  BY <1>2, <1>3 DEF ServoInv
<1> QED
  BY <1>3, <1>6, <1>7, <1>8, <1>9 DEF RecordInv

\* Every step of the recorder keeps its invariant.
LEMMA RecordStep == RecordInv /\ Record!Next => RecordInv'
<1> SUFFICES ASSUME RecordInv, Record!Next PROVE RecordInv'
  OBVIOUS
<1>1. CASE Record!Stop
  BY <1>1, RecordStops DEF Record!Stop
<1>2. CASE Record!Raise
  BY <1>2, RecordRaises DEF Record!Raise
<1>3. CASE Record!Interrupt
  BY <1>3, RecordInterrupted, RecordEnds DEF Record!Interrupt
<1> QED
  BY <1>1, <1>2, <1>3, RecordIterates, RecordResets, RecordSends, RecordSaves, RecordEnds,
     RecordKey
  DEF Record!Next, Record!LoopStep

----------------------------------------------------------------------------
(* Moving a Piper.                                                         *)

\* A managed node has no script and a script no gate; each follows the hand only
\* where it is in control.
PiperModes ==
    /\ managed => /\ script.at = "start" /\ ~robot.unheld /\ sub = Piper!NoSub
                  /\ proc.state = "engaged" => robot.node = "controlling"
    /\ ~managed => ctl.handle = 0 /\ robot.node = "closed" /\ ~gate.armed
    /\ script.at = "exited" => sub = Piper!NoSub
    /\ ctl.handle = 0 => ctl.state = "idle"
    /\ ~managed /\ proc.state = "engaged" =>
         script.at \in {"loop", "hold", "disconnect", "exited"}

\* What was sent last: nothing before the loop, no target without an observation
\* to hold at, and a hold wherever the hand is not followed.
PiperSent ==
    /\ ~managed /\ script.at \in {"start", "robot", "stable"} => robot.sent = "none"
    /\ ~managed /\ ~script.observed => robot.sent # "target"
    /\ script.at \in {"start", "robot", "stable", "loop"} => ~robot.unheld
    /\ script.at \in {"disconnect", "exited"} /\ robot.sent = "target" => robot.unheld
    /\ script.at = "exited" => ~robot.up
    /\ proc.state # "engaged" => robot.sent # "target" \/ robot.unheld

\* The gate is armed by an open hand, for the Handle it saw, and controls only
\* with the squeeze; what it took over is its own Handle's.  Frames flow under
\* its take-over only while the hand is tracked.
PiperGate ==
    /\ gate.armed => xr.seen = gate.handle
    /\ gate.controlling => gate.armed /\ xr.engaged
    /\ ctl.state # "idle" /\ ~ctl.byHub => gate.controlling /\ gate.handle = ctl.handle
    /\ ctl.state = "streaming" => robot.byHub = ctl.byHub
    /\ managed /\ wire.full /\ ~robot.byHub => wire.frame.tracked
    /\ managed /\ robot.lost => robot.byHub

\* Frames belong to the session they were sampled in; the latest of this session
\* is of the squeeze that is held, and a loop that read it has it still.
PiperFrames ==
    /\ xr.engaged => xr.up
    /\ xr.up => xr.session # 0
    /\ wire.frame.open => ~wire.frame.engaged
    /\ ~wire.full => wire = Piper!Empty
    /\ sub.session <= xr.session
    /\ wire.full => wire.frame.session <= xr.session
    /\ wire.full /\ xr.up /\ wire.frame.session = xr.session
         /\ (IF managed THEN ctl.state = "streaming" ELSE script.at # "exited") =>
         /\ wire.frame.engaged <=> xr.engaged
         /\ xr.engaged => wire.frame.press = xr.press
    /\ managed /\ wire.full /\ xr.up => wire.frame.session = xr.session
    /\ ~managed /\ ~wire.full /\ sub.cached = "live" /\ sub.action.engaged
         /\ xr.up /\ xr.session = sub.session =>
         xr.engaged /\ xr.press = sub.action.press

\* The squeeze the processor is anchored to is the one of what it sent, of what it
\* reads next, and of the hand, unless a release is still to be read or was lost.
Fed ==
    /\ xr.up
    /\ IF managed THEN ctl.state = "streaming"
                  ELSE script.at = "loop" /\ xr.session = sub.session
PiperPress ==
    proc.state = "engaged" /\ ~robot.excused =>
        /\ robot.sent = "target" => robot.from = proc.anchor
        /\ ~managed /\ script.at = "loop" /\ sub.cached = "live" /\ sub.action.engaged =>
             sub.action.press = proc.anchor
        /\ wire.full /\ ~wire.skipped /\ wire.frame.engaged
             /\ (managed \/ (script.at = "loop" /\ wire.frame.session = sub.session)) =>
             wire.frame.press = proc.anchor
        /\ Fed => \/ xr.engaged /\ xr.press = proc.anchor
                  \/ wire.full /\ (wire.skipped \/ ~wire.frame.engaged)

PiperInv ==
    Piper!TypeOK /\ PiperModes /\ PiperSent /\ PiperGate /\ PiperFrames /\ PiperPress

XrType == [up : BOOLEAN, session : 0 .. MaxSessions, engaged : BOOLEAN,
           press : Piper!Presses, seen : Piper!Handles]
GateType == [handle : Piper!Handles, armed : BOOLEAN, previous : BOOLEAN, controlling : BOOLEAN]
CtlType == [handle : Piper!Handles, granted : Piper!Handles, byHub : BOOLEAN,
            state : {"idle", "taking", "requested", "streaming"}]
WireType == [frame : Piper!Frames, full : BOOLEAN, skipped : BOOLEAN]
SubType == [session : 0 .. MaxSessions, armed : BOOLEAN,
            cached : {"none", "live", "stale"}, action : Piper!Frames]
ProcType == [state : {"unarmed", "idle", "engaged", "fault"}, anchor : Piper!Presses,
             validated : BOOLEAN, requires : BOOLEAN]
ScriptType == [at : {"start", "robot", "stable", "loop", "hold", "disconnect", "exited"},
               observed : BOOLEAN]
RobotType == [node : {"closed", "hold", "controlling"}, up : BOOLEAN,
              sent : {"none", "hold", "target"}, from : Piper!Presses,
              byHub : BOOLEAN, lost : BOOLEAN, excused : BOOLEAN, unheld : BOOLEAN]

\* The type invariant, variable by variable.
LEMMA PiperTypes ==
    Piper!TypeOK <=>
        /\ managed \in BOOLEAN /\ xr \in XrType /\ gate \in GateType /\ ctl \in CtlType
        /\ wire \in WireType /\ sub \in SubType /\ proc \in ProcType
        /\ script \in ScriptType /\ robot \in RobotType
BY DEF Piper!TypeOK, XrType, GateType, CtlType, WireType, SubType, ProcType, ScriptType,
       RobotType

\* The same of the next state.
LEMMA PiperTypesNext ==
    ASSUME managed' \in BOOLEAN, xr' \in XrType, gate' \in GateType, ctl' \in CtlType,
           wire' \in WireType, sub' \in SubType, proc' \in ProcType,
           script' \in ScriptType, robot' \in RobotType
    PROVE  Piper!TypeOK'
BY DEF Piper!TypeOK, XrType, GateType, CtlType, WireType, SubType, ProcType, ScriptType,
       RobotType

\* The values the program starts from and goes back to.
LEMMA PiperValues ==
    /\ 0 \in Piper!Presses /\ 0 \in Piper!Handles /\ 0 \in 0 .. MaxSessions
    /\ Piper!Presses \subseteq Nat /\ Piper!Handles \subseteq Nat
    /\ Piper!Neutral \in Piper!Frames /\ Piper!Empty \in WireType /\ Piper!NoGate \in GateType
    /\ Piper!Unarmed \in ProcType /\ Piper!ArmedAfterRelease \in ProcType
    /\ Piper!NoSub \in SubType
<1>1. 0 \in Piper!Presses /\ 0 \in Piper!Handles /\ 0 \in 0 .. MaxSessions /\ 1 \in 1 .. MaxSessions
  BY PiperConstants DEF Piper!Presses, Piper!Handles
<1>2. Piper!Presses \subseteq Nat /\ Piper!Handles \subseteq Nat
  BY PiperConstants DEF Piper!Presses, Piper!Handles
<1>3. Piper!Neutral \in Piper!Frames
  BY <1>1 DEF Piper!Neutral, Piper!Frames
<1>4. Piper!Empty \in WireType
  BY <1>3 DEF Piper!Empty, WireType
<1>5. Piper!NoGate \in GateType
  BY <1>1 DEF Piper!NoGate, GateType
<1>6. Piper!Unarmed \in ProcType /\ Piper!ArmedAfterRelease \in ProcType
  BY <1>1 DEF Piper!Unarmed, Piper!ArmedAfterRelease, ProcType
<1>7. Piper!NoSub \in SubType
  BY <1>1, <1>3 DEF Piper!NoSub, SubType
<1> QED
  BY <1>1, <1>2, <1>3, <1>4, <1>5, <1>6, <1>7

\* Sessions are numbered, also those of the frames in flight.
LEMMA PiperNumbers ==
    ASSUME PiperInv
    PROVE  /\ xr.session \in Nat /\ xr.press \in Nat /\ sub.session \in Nat
           /\ wire.frame \in Piper!Frames /\ wire.frame.session \in Nat
           /\ sub.action \in Piper!Frames /\ sub.action.session \in Nat
<1>1. xr \in XrType /\ sub \in SubType /\ wire \in WireType
  BY PiperTypes DEF PiperInv
<1>2. wire.frame \in Piper!Frames /\ sub.action \in Piper!Frames
  BY <1>1 DEF SubType, WireType
<1>3. wire.frame.session \in 1 .. MaxSessions /\ sub.action.session \in 1 .. MaxSessions
  BY <1>2 DEF Piper!Frames
<1>4. xr.session \in 0 .. MaxSessions /\ sub.session \in 0 .. MaxSessions
  BY <1>1 DEF XrType, SubType
<1>5. xr.press \in Nat
  BY <1>1, PiperValues DEF XrType
<1> QED
  BY <1>2, <1>3, <1>4, <1>5, PiperConstants

\* An accepted frame is kept with its session; an armed subscriber sees both
\* hands, a disarmed one none.
LEMMA AcceptedType ==
    ASSUME sub \in SubType, NEW f \in Piper!Frames
    PROVE  Piper!Accept(f) \in SubType
<1>1. f.session \in 0 .. MaxSessions /\ f.open \in BOOLEAN /\ sub.armed \in BOOLEAN
  BY PiperConstants DEF Piper!Frames, SubType
<1>2. [f EXCEPT !.open = TRUE] \in Piper!Frames
  BY DEF Piper!Frames
<1> QED
  BY <1>1, <1>2, PiperValues DEF Piper!Accept, SubType

\* The session ends with the gate released and the clutch with it.
LEMMA KeepsEndSession == PiperInv /\ Piper!EndSession => PiperInv'
<1> SUFFICES ASSUME PiperInv, Piper!EndSession PROVE PiperInv'
  OBVIOUS
<1>1. Piper!TypeOK'
  <2>0. /\ managed \in BOOLEAN /\ xr \in XrType /\ gate \in GateType /\ ctl \in CtlType
        /\ wire \in WireType /\ sub \in SubType /\ proc \in ProcType
        /\ script \in ScriptType /\ robot \in RobotType
    BY PiperTypes DEF PiperInv
  <2>1. xr' \in XrType
    BY <2>0, PiperValues, PiperConstants DEF Piper!EndSession, XrType
  <2>2. gate' \in GateType
    BY <2>0, PiperValues, PiperConstants DEF Piper!EndSession, GateType
  <2>3. ctl' \in CtlType
    BY <2>0, PiperValues, PiperConstants DEF Piper!EndSession, CtlType, Piper!Release,
       Piper!Without
  <2>4. UNCHANGED <<managed, wire, sub, proc, script, robot>>
    BY DEF Piper!EndSession
  <2> QED
    BY <2>0, <2>1, <2>2, <2>3, <2>4, PiperTypesNext
<1>2. PiperModes'
  BY PiperConstants, PiperNumbers DEF PiperInv, Piper!TypeOK, Piper!EndSession, PiperModes,
     PiperSent, PiperGate, PiperFrames, Piper!NoSub, Piper!NoGate, Piper!Release,
     Piper!Without
<1>3. PiperSent'
  BY PiperConstants, PiperNumbers DEF PiperInv, Piper!TypeOK, Piper!EndSession, PiperModes,
     PiperSent, PiperGate, PiperFrames, Piper!NoGate, Piper!Release, Piper!Without
<1>4. PiperGate'
  BY PiperConstants, PiperNumbers DEF PiperInv, Piper!TypeOK, Piper!EndSession, PiperModes,
     PiperSent, PiperGate, PiperFrames, Piper!Empty, Piper!Neutral, Piper!NoGate,
     Piper!Release, Piper!Without
<1>5. PiperFrames'
  BY PiperConstants, PiperNumbers DEF PiperInv, Piper!TypeOK, Piper!EndSession, PiperModes,
     PiperSent, PiperGate, PiperFrames, Piper!Empty, Piper!Neutral, Piper!NoGate,
     Piper!Release, Piper!Without
<1>6. PiperPress'
  BY PiperConstants, PiperNumbers DEF PiperInv, Piper!TypeOK, Piper!EndSession, PiperModes,
     PiperSent, PiperGate, PiperFrames, PiperPress, Fed, Piper!Empty, Piper!Neutral,
     Piper!NoGate, Piper!Release, Piper!Without
<1> QED
  BY <1>1, <1>2, <1>3, <1>4, <1>5, <1>6 DEF PiperInv

\* A new session follows what the old one left.
LEMMA KeepsStartSession == PiperInv /\ Piper!StartSession => PiperInv'
<1> SUFFICES ASSUME PiperInv, Piper!StartSession PROVE PiperInv'
  OBVIOUS
<1>1. Piper!TypeOK'
  <2>0. /\ managed \in BOOLEAN /\ xr \in XrType /\ gate \in GateType /\ ctl \in CtlType
        /\ wire \in WireType /\ sub \in SubType /\ proc \in ProcType
        /\ script \in ScriptType /\ robot \in RobotType
    BY PiperTypes DEF PiperInv
  <2>1. xr' \in XrType
    <3>1. xr.session + 1 \in 0 .. MaxSessions
      BY <2>0, PiperConstants DEF Piper!StartSession, XrType
    <3> QED
      BY <2>0, <3>1 DEF Piper!StartSession, XrType
  <2>2. UNCHANGED <<managed, gate, ctl, wire, sub, proc, script, robot>>
    BY DEF Piper!StartSession
  <2> QED
    BY <2>0, <2>1, <2>2, PiperTypesNext
<1>2. PiperModes'
  BY PiperConstants, PiperNumbers DEF PiperInv, Piper!TypeOK, Piper!StartSession,
     PiperModes, PiperSent, PiperGate, PiperFrames, Piper!NoSub
<1>3. PiperSent'
  BY PiperConstants, PiperNumbers DEF PiperInv, Piper!TypeOK, Piper!StartSession,
     PiperModes, PiperSent, PiperGate, PiperFrames
<1>4. PiperGate'
  BY PiperConstants, PiperNumbers DEF PiperInv, Piper!TypeOK, Piper!StartSession,
     PiperModes, PiperSent, PiperGate, PiperFrames, Piper!Empty, Piper!Neutral
<1>5. PiperFrames'
  BY PiperConstants, PiperNumbers DEF PiperInv, Piper!TypeOK, Piper!StartSession,
     PiperModes, PiperSent, PiperGate, PiperFrames, Piper!Empty, Piper!Neutral
<1>6. PiperPress'
  BY PiperConstants, PiperNumbers DEF PiperInv, Piper!TypeOK, Piper!StartSession,
     PiperModes, PiperSent, PiperGate, PiperFrames, PiperPress, Fed, Piper!Empty,
     Piper!Neutral
<1> QED
  BY <1>1, <1>2, <1>3, <1>4, <1>5, <1>6 DEF PiperInv

\* The Hub grants a Handle.
LEMMA KeepsGrant == PiperInv /\ Piper!Grant => PiperInv'
<1> SUFFICES ASSUME PiperInv, Piper!Grant PROVE PiperInv'
  OBVIOUS
<1>1. Piper!TypeOK'
  <2>0. /\ managed \in BOOLEAN /\ xr \in XrType /\ gate \in GateType /\ ctl \in CtlType
        /\ wire \in WireType /\ sub \in SubType /\ proc \in ProcType
        /\ script \in ScriptType /\ robot \in RobotType
    BY PiperTypes DEF PiperInv
  <2>1. ctl' \in CtlType
    <3>1. ctl.granted + 1 \in Piper!Handles
      BY <2>0, PiperConstants DEF Piper!Grant, CtlType, Piper!Handles
    <3> QED
      BY <2>0, <3>1 DEF Piper!Grant, CtlType
  <2>2. UNCHANGED <<managed, xr, gate, wire, sub, proc, script, robot>>
    BY DEF Piper!Grant
  <2> QED
    BY <2>0, <2>1, <2>2, PiperTypesNext
<1>2. PiperModes'
  BY PiperConstants, PiperNumbers DEF PiperInv, Piper!TypeOK, Piper!Grant, PiperModes,
     PiperSent, PiperGate, PiperFrames, Piper!NoSub
<1>3. PiperSent'
  BY PiperConstants, PiperNumbers DEF PiperInv, Piper!TypeOK, Piper!Grant, PiperModes,
     PiperSent, PiperGate, PiperFrames
<1>4. PiperGate'
  BY PiperConstants, PiperNumbers DEF PiperInv, Piper!TypeOK, Piper!Grant, PiperModes,
     PiperSent, PiperGate, PiperFrames, Piper!Empty, Piper!Neutral
<1>5. PiperFrames'
  BY PiperConstants, PiperNumbers DEF PiperInv, Piper!TypeOK, Piper!Grant, PiperModes,
     PiperSent, PiperGate, PiperFrames, Piper!Empty, Piper!Neutral
<1>6. PiperPress'
  BY PiperConstants, PiperNumbers DEF PiperInv, Piper!TypeOK, Piper!Grant, PiperModes,
     PiperSent, PiperGate, PiperFrames, PiperPress, Fed, Piper!Empty, Piper!Neutral
<1> QED
  BY <1>1, <1>2, <1>3, <1>4, <1>5, <1>6 DEF PiperInv

\* Authority ends.
LEMMA KeepsRevoke == PiperInv /\ Piper!Revoke => PiperInv'
<1> SUFFICES ASSUME PiperInv, Piper!Revoke PROVE PiperInv'
  OBVIOUS
<1>1. Piper!TypeOK'
  <2>0. /\ managed \in BOOLEAN /\ xr \in XrType /\ gate \in GateType /\ ctl \in CtlType
        /\ wire \in WireType /\ sub \in SubType /\ proc \in ProcType
        /\ script \in ScriptType /\ robot \in RobotType
    BY PiperTypes DEF PiperInv
  <2>1. ctl' \in CtlType
    BY <2>0, PiperValues, PiperConstants DEF Piper!Revoke, CtlType, Piper!Without
  <2>2. UNCHANGED <<managed, xr, gate, wire, sub, proc, script, robot>>
    BY DEF Piper!Revoke
  <2> QED
    BY <2>0, <2>1, <2>2, PiperTypesNext
<1>2. PiperModes'
  BY PiperConstants, PiperNumbers DEF PiperInv, Piper!TypeOK, Piper!Revoke, PiperModes,
     PiperSent, PiperGate, PiperFrames, Piper!NoSub, Piper!Without
<1>3. PiperSent'
  BY PiperConstants, PiperNumbers DEF PiperInv, Piper!TypeOK, Piper!Revoke, PiperModes,
     PiperSent, PiperGate, PiperFrames, Piper!Without
<1>4. PiperGate'
  BY PiperConstants, PiperNumbers DEF PiperInv, Piper!TypeOK, Piper!Revoke, PiperModes,
     PiperSent, PiperGate, PiperFrames, Piper!Empty, Piper!Neutral, Piper!Without
<1>5. PiperFrames'
  BY PiperConstants, PiperNumbers DEF PiperInv, Piper!TypeOK, Piper!Revoke, PiperModes,
     PiperSent, PiperGate, PiperFrames, Piper!Empty, Piper!Neutral, Piper!Without
<1>6. PiperPress'
  BY PiperConstants, PiperNumbers DEF PiperInv, Piper!TypeOK, Piper!Revoke, PiperModes,
     PiperSent, PiperGate, PiperFrames, PiperPress, Fed, Piper!Empty, Piper!Neutral,
     Piper!Without
<1> QED
  BY <1>1, <1>2, <1>3, <1>4, <1>5, <1>6 DEF PiperInv

\* An operator takes over on the Hub's page.
LEMMA KeepsHubTakeOver == PiperInv /\ Piper!HubTakeOver => PiperInv'
<1> SUFFICES ASSUME PiperInv, Piper!HubTakeOver PROVE PiperInv'
  OBVIOUS
<1>1. Piper!TypeOK'
  <2>0. /\ managed \in BOOLEAN /\ xr \in XrType /\ gate \in GateType /\ ctl \in CtlType
        /\ wire \in WireType /\ sub \in SubType /\ proc \in ProcType
        /\ script \in ScriptType /\ robot \in RobotType
    BY PiperTypes DEF PiperInv
  <2>1. ctl' \in CtlType
    BY <2>0, PiperValues, PiperConstants DEF Piper!HubTakeOver, CtlType
  <2>2. UNCHANGED <<managed, xr, gate, wire, sub, proc, script, robot>>
    BY DEF Piper!HubTakeOver
  <2> QED
    BY <2>0, <2>1, <2>2, PiperTypesNext
<1>2. PiperModes'
  BY PiperConstants, PiperNumbers DEF PiperInv, Piper!TypeOK, Piper!HubTakeOver, PiperModes,
     PiperSent, PiperGate, PiperFrames, Piper!NoSub
<1>3. PiperSent'
  BY PiperConstants, PiperNumbers DEF PiperInv, Piper!TypeOK, Piper!HubTakeOver, PiperModes,
     PiperSent, PiperGate, PiperFrames
<1>4. PiperGate'
  BY PiperConstants, PiperNumbers DEF PiperInv, Piper!TypeOK, Piper!HubTakeOver, PiperModes,
     PiperSent, PiperGate, PiperFrames, Piper!Empty, Piper!Neutral
<1>5. PiperFrames'
  BY PiperConstants, PiperNumbers DEF PiperInv, Piper!TypeOK, Piper!HubTakeOver, PiperModes,
     PiperSent, PiperGate, PiperFrames, Piper!Empty, Piper!Neutral
<1>6. PiperPress'
  BY PiperConstants, PiperNumbers DEF PiperInv, Piper!TypeOK, Piper!HubTakeOver, PiperModes,
     PiperSent, PiperGate, PiperFrames, PiperPress, Fed, Piper!Empty, Piper!Neutral
<1> QED
  BY <1>1, <1>2, <1>3, <1>4, <1>5, <1>6 DEF PiperInv

\* The Robot prepared the take-over.
LEMMA KeepsRobotReady == PiperInv /\ Piper!RobotReady => PiperInv'
<1> SUFFICES ASSUME PiperInv, Piper!RobotReady PROVE PiperInv'
  OBVIOUS
<1>1. Piper!TypeOK'
  <2>0. /\ managed \in BOOLEAN /\ xr \in XrType /\ gate \in GateType /\ ctl \in CtlType
        /\ wire \in WireType /\ sub \in SubType /\ proc \in ProcType
        /\ script \in ScriptType /\ robot \in RobotType
    BY PiperTypes DEF PiperInv
  <2>1. ctl' \in CtlType
    BY <2>0, PiperValues, PiperConstants DEF Piper!RobotReady, CtlType
  <2>2. robot' \in RobotType
    BY <2>0, PiperValues, PiperConstants DEF Piper!RobotReady, RobotType, CtlType
  <2>3. proc' \in ProcType
    BY <2>0, PiperValues, PiperConstants DEF Piper!RobotReady, ProcType
  <2>4. wire' \in WireType
    BY <2>0, PiperValues, PiperConstants DEF Piper!RobotReady, WireType
  <2>5. UNCHANGED <<managed, xr, gate, sub, script>>
    BY DEF Piper!RobotReady
  <2> QED
    BY <2>0, <2>1, <2>2, <2>3, <2>4, <2>5, PiperTypesNext
<1>2. PiperModes'
  BY PiperConstants, PiperNumbers DEF PiperInv, Piper!TypeOK, Piper!RobotReady, PiperModes,
     PiperSent, PiperGate, PiperFrames, Piper!NoSub, Piper!ArmedAfterRelease, Piper!Unarmed
<1>3. PiperSent'
  BY PiperConstants, PiperNumbers DEF PiperInv, Piper!TypeOK, Piper!RobotReady, PiperModes,
     PiperSent, PiperGate, PiperFrames, Piper!ArmedAfterRelease, Piper!Unarmed
<1>4. PiperGate'
  BY PiperConstants, PiperNumbers DEF PiperInv, Piper!TypeOK, Piper!RobotReady, PiperModes,
     PiperSent, PiperGate, PiperFrames, Piper!Empty, Piper!Neutral, Piper!ArmedAfterRelease,
     Piper!Unarmed
<1>5. PiperFrames'
  BY PiperConstants, PiperNumbers DEF PiperInv, Piper!TypeOK, Piper!RobotReady, PiperModes,
     PiperSent, PiperGate, PiperFrames, Piper!Empty, Piper!Neutral, Piper!ArmedAfterRelease,
     Piper!Unarmed
<1>6. PiperPress'
  BY PiperConstants, PiperNumbers DEF PiperInv, Piper!TypeOK, Piper!RobotReady, PiperModes,
     PiperSent, PiperGate, PiperFrames, PiperPress, Fed, Piper!Empty, Piper!Neutral,
     Piper!ArmedAfterRelease, Piper!Unarmed
<1> QED
  BY <1>1, <1>2, <1>3, <1>4, <1>5, <1>6 DEF PiperInv

\* The Robot holds and closes its receiver.
LEMMA KeepsRobotHold == PiperInv /\ Piper!RobotHold => PiperInv'
<1> SUFFICES ASSUME PiperInv, Piper!RobotHold PROVE PiperInv'
  OBVIOUS
<1>1. Piper!TypeOK'
  <2>0. /\ managed \in BOOLEAN /\ xr \in XrType /\ gate \in GateType /\ ctl \in CtlType
        /\ wire \in WireType /\ sub \in SubType /\ proc \in ProcType
        /\ script \in ScriptType /\ robot \in RobotType
    BY PiperTypes DEF PiperInv
  <2>1. robot' \in RobotType
    BY <2>0, PiperValues, PiperConstants DEF Piper!RobotHold, RobotType
  <2>2. proc' \in ProcType
    BY <2>0, PiperValues, PiperConstants DEF Piper!RobotHold, ProcType
  <2>3. wire' \in WireType
    BY <2>0, PiperValues, PiperConstants DEF Piper!RobotHold, WireType
  <2>4. UNCHANGED <<managed, xr, gate, ctl, sub, script>>
    BY DEF Piper!RobotHold
  <2> QED
    BY <2>0, <2>1, <2>2, <2>3, <2>4, PiperTypesNext
<1>2. PiperModes'
  BY PiperConstants, PiperNumbers DEF PiperInv, Piper!TypeOK, Piper!RobotHold, PiperModes,
     PiperSent, PiperGate, PiperFrames, Piper!NoSub, Piper!ArmedAfterRelease, Piper!Unarmed
<1>3. PiperSent'
  BY PiperConstants, PiperNumbers DEF PiperInv, Piper!TypeOK, Piper!RobotHold, PiperModes,
     PiperSent, PiperGate, PiperFrames, Piper!ArmedAfterRelease, Piper!Unarmed
<1>4. PiperGate'
  BY PiperConstants, PiperNumbers DEF PiperInv, Piper!TypeOK, Piper!RobotHold, PiperModes,
     PiperSent, PiperGate, PiperFrames, Piper!Empty, Piper!Neutral, Piper!ArmedAfterRelease,
     Piper!Unarmed
<1>5. PiperFrames'
  BY PiperConstants, PiperNumbers DEF PiperInv, Piper!TypeOK, Piper!RobotHold, PiperModes,
     PiperSent, PiperGate, PiperFrames, Piper!Empty, Piper!Neutral, Piper!ArmedAfterRelease,
     Piper!Unarmed
<1>6. PiperPress'
  BY PiperConstants, PiperNumbers DEF PiperInv, Piper!TypeOK, Piper!RobotHold, PiperModes,
     PiperSent, PiperGate, PiperFrames, PiperPress, Fed, Piper!Empty, Piper!Neutral,
     Piper!ArmedAfterRelease, Piper!Unarmed
<1> QED
  BY <1>1, <1>2, <1>3, <1>4, <1>5, <1>6 DEF PiperInv

\* The script takes its first frame.
LEMMA KeepsSubscribe == PiperInv /\ Piper!Subscribe => PiperInv'
<1> SUFFICES ASSUME PiperInv, Piper!Subscribe PROVE PiperInv'
  OBVIOUS
<1>1. Piper!TypeOK'
  <2>0. /\ managed \in BOOLEAN /\ xr \in XrType /\ gate \in GateType /\ ctl \in CtlType
        /\ wire \in WireType /\ sub \in SubType /\ proc \in ProcType
        /\ script \in ScriptType /\ robot \in RobotType
    BY PiperTypes DEF PiperInv
  <2>1. sub' \in SubType
    <3>1. wire.frame \in Piper!Frames
      BY <2>0 DEF WireType
    <3> QED
      BY <2>0, <3>1, AcceptedType DEF Piper!Subscribe
  <2>2. wire' \in WireType
    BY <2>0, PiperValues, PiperConstants DEF Piper!Subscribe, WireType
  <2>3. script' \in ScriptType
    BY <2>0, PiperValues, PiperConstants DEF Piper!Subscribe, ScriptType
  <2>4. UNCHANGED <<managed, xr, gate, ctl, proc, robot>>
    BY DEF Piper!Subscribe
  <2> QED
    BY <2>0, <2>1, <2>2, <2>3, <2>4, PiperTypesNext
<1>2. PiperModes'
  BY PiperConstants, PiperNumbers DEF PiperInv, Piper!TypeOK, Piper!Subscribe, PiperModes,
     PiperSent, PiperGate, PiperFrames, Piper!NoSub, Piper!Accept
<1>3. PiperSent'
  BY PiperConstants, PiperNumbers DEF PiperInv, Piper!TypeOK, Piper!Subscribe, PiperModes,
     PiperSent, PiperGate, PiperFrames, Piper!Accept
<1>4. PiperGate'
  BY PiperConstants, PiperNumbers DEF PiperInv, Piper!TypeOK, Piper!Subscribe, PiperModes,
     PiperSent, PiperGate, PiperFrames, Piper!Empty, Piper!Neutral, Piper!Accept
<1>5. PiperFrames'
  BY PiperConstants, PiperNumbers DEF PiperInv, Piper!TypeOK, Piper!Subscribe, PiperModes,
     PiperSent, PiperGate, PiperFrames, Piper!Empty, Piper!Neutral, Piper!Accept
<1>6. PiperPress'
  BY PiperConstants, PiperNumbers DEF PiperInv, Piper!TypeOK, Piper!Subscribe, PiperModes,
     PiperSent, PiperGate, PiperFrames, PiperPress, Fed, Piper!Empty, Piper!Neutral,
     Piper!Accept
<1> QED
  BY <1>1, <1>2, <1>3, <1>4, <1>5, <1>6 DEF PiperInv

\* The arm is connected.
LEMMA KeepsConnectRobot == PiperInv /\ Piper!ConnectRobot => PiperInv'
<1> SUFFICES ASSUME PiperInv, Piper!ConnectRobot PROVE PiperInv'
  OBVIOUS
<1>1. Piper!TypeOK'
  <2>0. /\ managed \in BOOLEAN /\ xr \in XrType /\ gate \in GateType /\ ctl \in CtlType
        /\ wire \in WireType /\ sub \in SubType /\ proc \in ProcType
        /\ script \in ScriptType /\ robot \in RobotType
    BY PiperTypes DEF PiperInv
  <2>1. robot' \in RobotType
    BY <2>0, PiperValues, PiperConstants DEF Piper!ConnectRobot, RobotType
  <2>2. script' \in ScriptType
    BY <2>0, PiperValues, PiperConstants DEF Piper!ConnectRobot, ScriptType
  <2>3. UNCHANGED <<managed, xr, gate, ctl, wire, sub, proc>>
    BY DEF Piper!ConnectRobot
  <2> QED
    BY <2>0, <2>1, <2>2, <2>3, PiperTypesNext
<1>2. PiperModes'
  BY PiperConstants, PiperNumbers DEF PiperInv, Piper!TypeOK, Piper!ConnectRobot,
     PiperModes, PiperSent, PiperGate, PiperFrames, Piper!NoSub
<1>3. PiperSent'
  BY PiperConstants, PiperNumbers DEF PiperInv, Piper!TypeOK, Piper!ConnectRobot,
     PiperModes, PiperSent, PiperGate, PiperFrames
<1>4. PiperGate'
  BY PiperConstants, PiperNumbers DEF PiperInv, Piper!TypeOK, Piper!ConnectRobot,
     PiperModes, PiperSent, PiperGate, PiperFrames, Piper!Empty, Piper!Neutral
<1>5. PiperFrames'
  BY PiperConstants, PiperNumbers DEF PiperInv, Piper!TypeOK, Piper!ConnectRobot,
     PiperModes, PiperSent, PiperGate, PiperFrames, Piper!Empty, Piper!Neutral
<1>6. PiperPress'
  BY PiperConstants, PiperNumbers DEF PiperInv, Piper!TypeOK, Piper!ConnectRobot,
     PiperModes, PiperSent, PiperGate, PiperFrames, PiperPress, Fed, Piper!Empty,
     Piper!Neutral
<1> QED
  BY <1>1, <1>2, <1>3, <1>4, <1>5, <1>6 DEF PiperInv

\* The processor is reset before the loop.
LEMMA KeepsStable == PiperInv /\ Piper!Stable => PiperInv'
<1> SUFFICES ASSUME PiperInv, Piper!Stable PROVE PiperInv'
  OBVIOUS
<1>1. Piper!TypeOK'
  <2>0. /\ managed \in BOOLEAN /\ xr \in XrType /\ gate \in GateType /\ ctl \in CtlType
        /\ wire \in WireType /\ sub \in SubType /\ proc \in ProcType
        /\ script \in ScriptType /\ robot \in RobotType
    BY PiperTypes DEF PiperInv
  <2>1. proc' \in ProcType
    BY <2>0, PiperValues, PiperConstants DEF Piper!Stable, ProcType
  <2>2. script' \in ScriptType
    BY <2>0, PiperValues, PiperConstants DEF Piper!Stable, ScriptType
  <2>3. UNCHANGED <<managed, xr, gate, ctl, wire, sub, robot>>
    BY DEF Piper!Stable
  <2> QED
    BY <2>0, <2>1, <2>2, <2>3, PiperTypesNext
<1>2. PiperModes'
  BY PiperConstants, PiperNumbers DEF PiperInv, Piper!TypeOK, Piper!Stable, PiperModes,
     PiperSent, PiperGate, PiperFrames, Piper!NoSub, Piper!Unarmed
<1>3. PiperSent'
  BY PiperConstants, PiperNumbers DEF PiperInv, Piper!TypeOK, Piper!Stable, PiperModes,
     PiperSent, PiperGate, PiperFrames, Piper!Unarmed
<1>4. PiperGate'
  BY PiperConstants, PiperNumbers DEF PiperInv, Piper!TypeOK, Piper!Stable, PiperModes,
     PiperSent, PiperGate, PiperFrames, Piper!Empty, Piper!Neutral, Piper!Unarmed
<1>5. PiperFrames'
  BY PiperConstants, PiperNumbers DEF PiperInv, Piper!TypeOK, Piper!Stable, PiperModes,
     PiperSent, PiperGate, PiperFrames, Piper!Empty, Piper!Neutral, Piper!Unarmed
<1>6. PiperPress'
  BY PiperConstants, PiperNumbers DEF PiperInv, Piper!TypeOK, Piper!Stable, PiperModes,
     PiperSent, PiperGate, PiperFrames, PiperPress, Fed, Piper!Empty, Piper!Neutral,
     Piper!Unarmed
<1> QED
  BY <1>1, <1>2, <1>3, <1>4, <1>5, <1>6 DEF PiperInv

\* The script fails before its loop.
LEMMA KeepsStartFails == PiperInv /\ Piper!StartFails => PiperInv'
<1> SUFFICES ASSUME PiperInv, Piper!StartFails PROVE PiperInv'
  OBVIOUS
<1>1. Piper!TypeOK'
  <2>0. /\ managed \in BOOLEAN /\ xr \in XrType /\ gate \in GateType /\ ctl \in CtlType
        /\ wire \in WireType /\ sub \in SubType /\ proc \in ProcType
        /\ script \in ScriptType /\ robot \in RobotType
    BY PiperTypes DEF PiperInv
  <2>1. script' \in ScriptType
    BY <2>0, PiperValues, PiperConstants DEF Piper!StartFails, ScriptType
  <2>2. UNCHANGED <<managed, xr, gate, ctl, wire, sub, proc, robot>>
    BY DEF Piper!StartFails
  <2> QED
    BY <2>0, <2>1, <2>2, PiperTypesNext
<1>2. PiperModes'
  BY PiperConstants, PiperNumbers DEF PiperInv, Piper!TypeOK, Piper!StartFails, PiperModes,
     PiperSent, PiperGate, PiperFrames, Piper!NoSub
<1>3. PiperSent'
  BY PiperConstants, PiperNumbers DEF PiperInv, Piper!TypeOK, Piper!StartFails, PiperModes,
     PiperSent, PiperGate, PiperFrames
<1>4. PiperGate'
  BY PiperConstants, PiperNumbers DEF PiperInv, Piper!TypeOK, Piper!StartFails, PiperModes,
     PiperSent, PiperGate, PiperFrames, Piper!Empty, Piper!Neutral
<1>5. PiperFrames'
  BY PiperConstants, PiperNumbers DEF PiperInv, Piper!TypeOK, Piper!StartFails, PiperModes,
     PiperSent, PiperGate, PiperFrames, Piper!Empty, Piper!Neutral
<1>6. PiperPress'
  BY PiperConstants, PiperNumbers DEF PiperInv, Piper!TypeOK, Piper!StartFails, PiperModes,
     PiperSent, PiperGate, PiperFrames, PiperPress, Fed, Piper!Empty, Piper!Neutral
<1> QED
  BY <1>1, <1>2, <1>3, <1>4, <1>5, <1>6 DEF PiperInv

\* The frame it has goes stale.
LEMMA KeepsExpire == PiperInv /\ Piper!Expire => PiperInv'
<1> SUFFICES ASSUME PiperInv, Piper!Expire PROVE PiperInv'
  OBVIOUS
<1>1. Piper!TypeOK'
  <2>0. /\ managed \in BOOLEAN /\ xr \in XrType /\ gate \in GateType /\ ctl \in CtlType
        /\ wire \in WireType /\ sub \in SubType /\ proc \in ProcType
        /\ script \in ScriptType /\ robot \in RobotType
    BY PiperTypes DEF PiperInv
  <2>1. sub' \in SubType
    BY <2>0, PiperValues, PiperConstants DEF Piper!Expire, SubType
  <2>2. UNCHANGED <<managed, xr, gate, ctl, wire, proc, script, robot>>
    BY DEF Piper!Expire
  <2> QED
    BY <2>0, <2>1, <2>2, PiperTypesNext
<1>2. PiperModes'
  BY PiperConstants, PiperNumbers DEF PiperInv, Piper!TypeOK, Piper!Expire, PiperModes,
     PiperSent, PiperGate, PiperFrames, Piper!NoSub
<1>3. PiperSent'
  BY PiperConstants, PiperNumbers DEF PiperInv, Piper!TypeOK, Piper!Expire, PiperModes,
     PiperSent, PiperGate, PiperFrames
<1>4. PiperGate'
  BY PiperConstants, PiperNumbers DEF PiperInv, Piper!TypeOK, Piper!Expire, PiperModes,
     PiperSent, PiperGate, PiperFrames, Piper!Empty, Piper!Neutral
<1>5. PiperFrames'
  BY PiperConstants, PiperNumbers DEF PiperInv, Piper!TypeOK, Piper!Expire, PiperModes,
     PiperSent, PiperGate, PiperFrames, Piper!Empty, Piper!Neutral
<1>6. PiperPress'
  BY PiperConstants, PiperNumbers DEF PiperInv, Piper!TypeOK, Piper!Expire, PiperModes,
     PiperSent, PiperGate, PiperFrames, PiperPress, Fed, Piper!Empty, Piper!Neutral
<1> QED
  BY <1>1, <1>2, <1>3, <1>4, <1>5, <1>6 DEF PiperInv

\* The loop ends.
LEMMA KeepsLoopEnds == PiperInv /\ Piper!LoopEnds => PiperInv'
<1> SUFFICES ASSUME PiperInv, Piper!LoopEnds PROVE PiperInv'
  OBVIOUS
<1>1. Piper!TypeOK'
  <2>0. /\ managed \in BOOLEAN /\ xr \in XrType /\ gate \in GateType /\ ctl \in CtlType
        /\ wire \in WireType /\ sub \in SubType /\ proc \in ProcType
        /\ script \in ScriptType /\ robot \in RobotType
    BY PiperTypes DEF PiperInv
  <2>1. script' \in ScriptType
    BY <2>0, PiperValues, PiperConstants DEF Piper!LoopEnds, ScriptType
  <2>2. UNCHANGED <<managed, xr, gate, ctl, wire, sub, proc, robot>>
    BY DEF Piper!LoopEnds
  <2> QED
    BY <2>0, <2>1, <2>2, PiperTypesNext
<1>2. PiperModes'
  BY PiperConstants, PiperNumbers DEF PiperInv, Piper!TypeOK, Piper!LoopEnds, PiperModes,
     PiperSent, PiperGate, PiperFrames, Piper!NoSub
<1>3. PiperSent'
  BY PiperConstants, PiperNumbers DEF PiperInv, Piper!TypeOK, Piper!LoopEnds, PiperModes,
     PiperSent, PiperGate, PiperFrames
<1>4. PiperGate'
  BY PiperConstants, PiperNumbers DEF PiperInv, Piper!TypeOK, Piper!LoopEnds, PiperModes,
     PiperSent, PiperGate, PiperFrames, Piper!Empty, Piper!Neutral
<1>5. PiperFrames'
  BY PiperConstants, PiperNumbers DEF PiperInv, Piper!TypeOK, Piper!LoopEnds, PiperModes,
     PiperSent, PiperGate, PiperFrames, Piper!Empty, Piper!Neutral
<1>6. PiperPress'
  BY PiperConstants, PiperNumbers DEF PiperInv, Piper!TypeOK, Piper!LoopEnds, PiperModes,
     PiperSent, PiperGate, PiperFrames, PiperPress, Fed, Piper!Empty, Piper!Neutral
<1> QED
  BY <1>1, <1>2, <1>3, <1>4, <1>5, <1>6 DEF PiperInv

\* The loop's robot is held, if it was observed.
LEMMA KeepsTerminationHold == PiperInv /\ Piper!TerminationHold => PiperInv'
<1> SUFFICES ASSUME PiperInv, Piper!TerminationHold PROVE PiperInv'
  OBVIOUS
<1>1. Piper!TypeOK'
  <2>0. /\ managed \in BOOLEAN /\ xr \in XrType /\ gate \in GateType /\ ctl \in CtlType
        /\ wire \in WireType /\ sub \in SubType /\ proc \in ProcType
        /\ script \in ScriptType /\ robot \in RobotType
    BY PiperTypes DEF PiperInv
  <2>1. script' \in ScriptType
    BY <2>0, PiperValues, PiperConstants DEF Piper!TerminationHold, ScriptType
  <2>2. robot' \in RobotType
    BY <2>0, PiperValues, PiperConstants DEF Piper!TerminationHold, RobotType
  <2>3. UNCHANGED <<managed, xr, gate, ctl, wire, sub, proc>>
    BY DEF Piper!TerminationHold
  <2> QED
    BY <2>0, <2>1, <2>2, <2>3, PiperTypesNext
<1>2. PiperModes'
  BY PiperConstants, PiperNumbers DEF PiperInv, Piper!TypeOK, Piper!TerminationHold,
     PiperModes, PiperSent, PiperGate, PiperFrames, Piper!NoSub
<1>3. PiperSent'
  BY PiperConstants, PiperNumbers DEF PiperInv, Piper!TypeOK, Piper!TerminationHold,
     PiperModes, PiperSent, PiperGate, PiperFrames
<1>4. PiperGate'
  BY PiperConstants, PiperNumbers DEF PiperInv, Piper!TypeOK, Piper!TerminationHold,
     PiperModes, PiperSent, PiperGate, PiperFrames, Piper!Empty, Piper!Neutral
<1>5. PiperFrames'
  BY PiperConstants, PiperNumbers DEF PiperInv, Piper!TypeOK, Piper!TerminationHold,
     PiperModes, PiperSent, PiperGate, PiperFrames, Piper!Empty, Piper!Neutral
<1>6. PiperPress'
  BY PiperConstants, PiperNumbers DEF PiperInv, Piper!TypeOK, Piper!TerminationHold,
     PiperModes, PiperSent, PiperGate, PiperFrames, PiperPress, Fed, Piper!Empty,
     Piper!Neutral
<1> QED
  BY <1>1, <1>2, <1>3, <1>4, <1>5, <1>6 DEF PiperInv

\* The robot is disconnected.
LEMMA KeepsDisconnect == PiperInv /\ Piper!Disconnect => PiperInv'
<1> SUFFICES ASSUME PiperInv, Piper!Disconnect PROVE PiperInv'
  OBVIOUS
<1>1. Piper!TypeOK'
  <2>0. /\ managed \in BOOLEAN /\ xr \in XrType /\ gate \in GateType /\ ctl \in CtlType
        /\ wire \in WireType /\ sub \in SubType /\ proc \in ProcType
        /\ script \in ScriptType /\ robot \in RobotType
    BY PiperTypes DEF PiperInv
  <2>1. script' \in ScriptType
    BY <2>0, PiperValues, PiperConstants DEF Piper!Disconnect, ScriptType
  <2>2. sub' \in SubType
    BY <2>0, PiperValues, PiperConstants DEF Piper!Disconnect, SubType
  <2>3. wire' \in WireType
    BY <2>0, PiperValues, PiperConstants DEF Piper!Disconnect, WireType
  <2>4. robot' \in RobotType
    BY <2>0, PiperValues, PiperConstants DEF Piper!Disconnect, RobotType
  <2>5. UNCHANGED <<managed, xr, gate, ctl, proc>>
    BY DEF Piper!Disconnect
  <2> QED
    BY <2>0, <2>1, <2>2, <2>3, <2>4, <2>5, PiperTypesNext
<1>2. PiperModes'
  BY PiperConstants, PiperNumbers DEF PiperInv, Piper!TypeOK, Piper!Disconnect, PiperModes,
     PiperSent, PiperGate, PiperFrames, Piper!NoSub
<1>3. PiperSent'
  BY PiperConstants, PiperNumbers DEF PiperInv, Piper!TypeOK, Piper!Disconnect, PiperModes,
     PiperSent, PiperGate, PiperFrames, Piper!NoSub
<1>4. PiperGate'
  BY PiperConstants, PiperNumbers DEF PiperInv, Piper!TypeOK, Piper!Disconnect, PiperModes,
     PiperSent, PiperGate, PiperFrames, Piper!Empty, Piper!Neutral, Piper!NoSub
<1>5. PiperFrames'
  BY PiperConstants, PiperNumbers DEF PiperInv, Piper!TypeOK, Piper!Disconnect, PiperModes,
     PiperSent, PiperGate, PiperFrames, Piper!Empty, Piper!Neutral, Piper!NoSub
<1>6. PiperPress'
  BY PiperConstants, PiperNumbers DEF PiperInv, Piper!TypeOK, Piper!Disconnect, PiperModes,
     PiperSent, PiperGate, PiperFrames, PiperPress, Fed, Piper!Empty, Piper!Neutral,
     Piper!NoSub
<1> QED
  BY <1>1, <1>2, <1>3, <1>4, <1>5, <1>6 DEF PiperInv

\* What the processor answers to a frame: a target is sent exactly where it follows
\* the hand, from the anchor it has or from this frame's squeeze.
LEMMA Processed ==
    ASSUME proc \in ProcType, NEW f \in Piper!Frames, NEW valid \in BOOLEAN,
           NEW out, out = Piper!Process(proc, f, valid)
    PROVE  /\ out.proc \in ProcType /\ out.act \in {"none", "hold", "target"}
           /\ out.act = "target" <=> out.proc.state = "engaged"
           /\ out.act = "none" => proc.state # "engaged"
           /\ out.act = "target" =>
                /\ f.tracked /\ f.engaged
                /\ \/ proc.state = "engaged" /\ out.proc = proc
                   \/ proc.state # "engaged" /\ out.proc.anchor = f.press
<1>1. /\ f.tracked \in BOOLEAN /\ f.engaged \in BOOLEAN /\ f.neutral \in BOOLEAN
      /\ f.press \in Piper!Presses
  BY DEF Piper!Frames
<1>2. /\ proc.state \in {"unarmed", "idle", "engaged", "fault"}
      /\ proc.requires \in BOOLEAN /\ proc.validated \in BOOLEAN
  BY DEF ProcType
<1>3. /\ Piper!Fault(proc) \in ProcType /\ Piper!Fault(proc).state = "fault"
      /\ Piper!Idle(proc) \in ProcType /\ Piper!Idle(proc).state = "idle"
      /\ Piper!Anchored(proc, f) \in ProcType /\ Piper!Anchored(proc, f).state = "engaged"
      /\ Piper!Anchored(proc, f).anchor = f.press
  BY <1>1, PiperValues DEF Piper!Fault, Piper!Idle, Piper!Anchored, ProcType
<1>4. /\ [Piper!Idle(proc) EXCEPT !.requires = FALSE] \in ProcType
      /\ [Piper!Idle(proc) EXCEPT !.requires = FALSE].state = "idle"
      /\ [Piper!Idle(proc) EXCEPT !.requires = ~f.tracked] \in ProcType
      /\ [Piper!Idle(proc) EXCEPT !.requires = ~f.tracked].state = "idle"
  BY <1>1, <1>3 DEF ProcType
<1>5. /\ [proc EXCEPT !.requires = ~(f.tracked /\ ~f.engaged)] \in ProcType
      /\ [proc EXCEPT !.requires = ~(f.tracked /\ ~f.engaged)].state = proc.state
      /\ [proc EXCEPT !.validated = FALSE, !.requires = TRUE] \in ProcType
      /\ [proc EXCEPT !.validated = FALSE, !.requires = TRUE].state = proc.state
  BY <1>1 DEF ProcType
<1>6. CASE ~valid
  BY <1>2, <1>3, <1>6 DEF Piper!Process, Piper!Yields
<1>7. CASE valid /\ proc.state = "fault"
  BY <1>4, <1>7 DEF Piper!Process, Piper!Yields
<1>8. CASE valid /\ proc.state = "unarmed"
  BY <1>3, <1>8 DEF Piper!Process, Piper!Yields
<1>9. CASE valid /\ proc.state = "idle"
  BY <1>1, <1>3, <1>5, <1>9 DEF Piper!Process, Piper!Yields
<1>10. CASE valid /\ proc.state = "engaged"
  BY <1>1, <1>4, <1>10 DEF Piper!Process, Piper!Yields
<1> QED
  BY <1>2, <1>6, <1>7, <1>8, <1>9, <1>10

\* What is commanded then.
LEMMA CommandedType ==
    ASSUME robot \in RobotType, managed \in BOOLEAN, NEW out, NEW f \in Piper!Frames,
           out.act \in {"none", "hold", "target"}, NEW skipped \in BOOLEAN,
           NEW r, r = Piper!Commanded(robot, out, f, skipped)
    PROVE  /\ r \in RobotType /\ r.node = robot.node /\ r.up = robot.up
           /\ r.byHub = robot.byHub /\ r.unheld = robot.unheld
           /\ r.sent = IF out.act = "none" THEN robot.sent ELSE out.act
           /\ out.act = "target" => r.from = f.press
           /\ out.act = "none" => r.from = robot.from
           /\ r.lost => managed /\ (robot.lost \/ ~f.tracked)
           /\ r.excused <=> out.act = "target" /\ proc.state = "engaged"
                            /\ (robot.excused \/ skipped)
<1>1. f.press \in Piper!Presses /\ f.tracked \in BOOLEAN
  BY DEF Piper!Frames
<1>2. /\ (IF out.act = "none" THEN robot.sent ELSE out.act) \in {"none", "hold", "target"}
      /\ (IF out.act = "target" THEN f.press ELSE IF out.act = "hold" THEN 0 ELSE robot.from)
           \in Piper!Presses
      /\ (managed /\ (robot.lost \/ ~f.tracked)) \in BOOLEAN
      /\ (out.act = "target" /\ proc.state = "engaged" /\ (robot.excused \/ skipped)) \in BOOLEAN
  BY <1>1, PiperValues DEF RobotType
<1> QED
  BY <1>2 DEF Piper!Commanded, RobotType

\* A Robot Node takes a frame.
LEMMA KeepsRobotFrame == PiperInv /\ Piper!RobotFrame => PiperInv'
<1> SUFFICES ASSUME PiperInv, Piper!RobotFrame PROVE PiperInv'
  OBVIOUS
<1>1. /\ managed \in BOOLEAN /\ xr \in XrType /\ gate \in GateType /\ ctl \in CtlType
      /\ wire \in WireType /\ sub \in SubType /\ proc \in ProcType
      /\ script \in ScriptType /\ robot \in RobotType
  BY PiperTypes DEF PiperInv
<1>2. PICK f, skipped : f = wire.frame /\ skipped = wire.skipped
  OBVIOUS
<1>3. f \in Piper!Frames /\ skipped \in BOOLEAN
  BY <1>1, <1>2 DEF WireType
<1>4. PICK valid \in BOOLEAN :
        LET g == wire.frame
            out == Piper!Process(proc, g, valid)
            r == Piper!Commanded(robot, out, g, wire.skipped)
        IN  IF out.act # "none"
            THEN proc' = out.proc /\ robot' = [r EXCEPT !.node = "controlling"]
            ELSE IF robot.node = "controlling"
            THEN proc' = Piper!ArmedAfterRelease
                 /\ robot' = [r EXCEPT !.node = "hold", !.sent = "hold"]
            ELSE proc' = out.proc /\ robot' = r
  BY DEF Piper!RobotFrame
<1>5. PICK out : out = Piper!Process(proc, f, valid)
  OBVIOUS
<1>6. PICK r : r = Piper!Commanded(robot, out, f, skipped)
  OBVIOUS
<1>7. IF out.act # "none"
      THEN proc' = out.proc /\ robot' = [r EXCEPT !.node = "controlling"]
      ELSE IF robot.node = "controlling"
      THEN proc' = Piper!ArmedAfterRelease
           /\ robot' = [r EXCEPT !.node = "hold", !.sent = "hold"]
      ELSE proc' = out.proc /\ robot' = r
  BY <1>2, <1>4, <1>5, <1>6
<1>8. /\ out.proc \in ProcType /\ out.act \in {"none", "hold", "target"}
      /\ out.act = "target" <=> out.proc.state = "engaged"
      /\ out.act = "none" => proc.state # "engaged"
      /\ out.act = "target" =>
           /\ f.tracked /\ f.engaged
           /\ \/ proc.state = "engaged" /\ out.proc = proc
              \/ proc.state # "engaged" /\ out.proc.anchor = f.press
  BY <1>1, <1>3, <1>5, Processed
<1>9. /\ r \in RobotType /\ r.node = robot.node /\ r.up = robot.up
      /\ r.byHub = robot.byHub /\ r.unheld = robot.unheld
      /\ r.sent = IF out.act = "none" THEN robot.sent ELSE out.act
      /\ out.act = "target" => r.from = f.press
      /\ out.act = "none" => r.from = robot.from
      /\ r.lost => managed /\ (robot.lost \/ ~f.tracked)
      /\ r.excused <=> out.act = "target" /\ proc.state = "engaged"
                       /\ (robot.excused \/ skipped)
  BY <1>1, <1>3, <1>6, <1>8, CommandedType
<1>10. /\ wire.full /\ robot.node # "closed" /\ wire' = Piper!Empty
       /\ UNCHANGED <<managed, xr, gate, ctl, sub, script>>
  BY DEF Piper!RobotFrame
<1>11. managed /\ script.at = "start"
  BY <1>1, <1>10 DEF PiperInv, PiperModes
<1>12. /\ ~wire'.full /\ Piper!ArmedAfterRelease.state = "idle"
  BY <1>10 DEF Piper!Empty, Piper!ArmedAfterRelease, Piper!Unarmed
<1>13. /\ proc' \in ProcType /\ robot' \in RobotType
       /\ robot'.byHub = robot.byHub /\ robot'.unheld = robot.unheld /\ robot'.up = robot.up
       /\ robot'.lost => robot.lost \/ ~f.tracked
       /\ robot'.excused = r.excused
       /\ \/ /\ out.act = "target" /\ proc' = out.proc
             /\ robot'.node = "controlling" /\ robot'.sent = "target" /\ robot'.from = f.press
          \/ proc'.state # "engaged" /\ robot'.sent # "target"
  <2>1. CASE out.act # "none"
    BY <1>7, <1>8, <1>9, <2>1 DEF RobotType
  <2>2. CASE out.act = "none" /\ robot.node = "controlling"
    BY <1>7, <1>9, <1>12, <2>2, PiperValues DEF RobotType
  <2>3. CASE out.act = "none" /\ robot.node # "controlling"
    <3>1. robot.sent # "target"
      BY <1>8, <1>11, <2>3 DEF PiperInv, PiperSent, PiperModes
    <3> QED
      BY <1>7, <1>8, <1>9, <2>3, <3>1
  <2> QED
    BY <2>1, <2>2, <2>3
<1>14. Piper!TypeOK'
  BY <1>1, <1>10, <1>13, PiperValues, PiperTypesNext
<1>15. PiperModes'
  BY <1>10, <1>11, <1>13 DEF PiperInv, PiperModes
<1>16. PiperSent'
  BY <1>8, <1>10, <1>11, <1>13 DEF PiperInv, PiperSent, PiperModes
<1>17. PiperGate'
  BY <1>2, <1>10, <1>11, <1>12, <1>13 DEF PiperInv, PiperGate
<1>18. PiperFrames'
  <2>1. wire'.frame.engaged = FALSE
    BY <1>10, <1>3 DEF Piper!Empty, Piper!Neutral, PiperInv, PiperFrames
  <2> QED
    BY <1>10, <1>11, <1>12, <2>1 DEF PiperInv, PiperFrames
<1>19. PiperPress'
  <2>1. CASE proc'.state # "engaged"
    BY <2>1 DEF PiperPress
  <2>2. CASE /\ out.act = "target" /\ proc' = out.proc
             /\ robot'.sent = "target" /\ robot'.from = f.press /\ ~robot'.excused
    <3>1. proc'.anchor = f.press
      <4>1. CASE proc.state = "engaged" /\ out.proc = proc
        BY <1>2, <1>8, <1>9, <1>10, <1>11, <1>13, <2>2, <4>1 DEF PiperInv, PiperPress
      <4> QED
        BY <1>8, <2>2, <4>1
    <3>2. Fed' => xr'.engaged /\ xr'.press = proc'.anchor
      BY <1>2, <1>8, <1>10, <1>11, <2>2, <3>1 DEF Fed, PiperInv, PiperFrames
    <3> QED
      BY <1>10, <1>11, <1>12, <2>2, <3>1, <3>2 DEF PiperPress
  <2> QED
    BY <1>13, <2>1, <2>2 DEF PiperPress
<1> QED
  BY <1>14, <1>15, <1>16, <1>17, <1>18, <1>19 DEF PiperInv

\* One iteration of the loop: the subscriber's frame, the processor, the arm.
LEMMA KeepsIterate == PiperInv /\ Piper!Iterate => PiperInv'
<1> SUFFICES ASSUME PiperInv, Piper!Iterate PROVE PiperInv'
  OBVIOUS
<1>1. /\ managed \in BOOLEAN /\ xr \in XrType /\ gate \in GateType /\ ctl \in CtlType
      /\ wire \in WireType /\ sub \in SubType /\ proc \in ProcType
      /\ script \in ScriptType /\ robot \in RobotType
  BY PiperTypes DEF PiperInv
<1>2. PICK garbled \in BOOLEAN, valid \in BOOLEAN, fails \in BOOLEAN :
        /\ garbled => wire.full
        /\ sub' = CASE garbled -> Piper!Invalidate
                    [] wire.full /\ ~garbled -> Piper!Accept(wire.frame)
                    [] ~wire.full -> [sub EXCEPT !.armed = @ /\ sub.cached = "live"]
        /\ wire' = Piper!Empty
        /\ LET f == IF sub'.cached = "live" THEN sub'.action ELSE Piper!Neutral
               out == Piper!Process(proc, f, valid)
           IN  /\ fails => out.act # "none"
               /\ proc' = out.proc
               /\ robot' = IF fails THEN [robot EXCEPT !.unheld = out.act = "hold"]
                           ELSE Piper!Commanded(robot, out, f, wire.skipped)
               /\ script' = [at |-> IF fails THEN "hold" ELSE "loop", observed |-> TRUE]
  BY DEF Piper!Iterate
<1>3. PICK f, skipped : /\ f = IF sub'.cached = "live" THEN sub'.action ELSE Piper!Neutral
                        /\ skipped = wire.skipped
  OBVIOUS
<1>4. PICK out : out = Piper!Process(proc, f, valid)
  OBVIOUS
<1>5. /\ fails => out.act # "none"
      /\ proc' = out.proc
      /\ robot' = IF fails THEN [robot EXCEPT !.unheld = out.act = "hold"]
                  ELSE Piper!Commanded(robot, out, f, skipped)
      /\ script' = [at |-> IF fails THEN "hold" ELSE "loop", observed |-> TRUE]
  BY <1>2, <1>3, <1>4
<1>6. /\ script.at = "loop" /\ wire' = Piper!Empty /\ ~wire'.full /\ ~wire'.frame.engaged
      /\ UNCHANGED <<managed, xr, gate, ctl>>
      /\ ~managed /\ ~robot.unheld
  BY <1>2 DEF Piper!Iterate, Piper!Empty, Piper!Neutral, PiperInv, PiperModes, PiperSent
<1>7. wire.frame \in Piper!Frames /\ sub.action \in Piper!Frames
  BY PiperNumbers
<1>8. /\ sub' \in SubType
      /\ sub'.session <= xr.session
      /\ sub'.cached = "live" /\ sub'.action.engaged =>
           \/ /\ wire.full /\ wire.frame.engaged /\ wire.frame.press = sub'.action.press
              /\ wire.frame.session = sub.session /\ sub'.session = sub.session
           \/ /\ ~wire.full /\ sub.cached = "live" /\ sub.action = sub'.action
              /\ sub'.session = sub.session
  <2>1. CASE garbled
    <3>1. sub' = Piper!Invalidate
      BY <1>2, <2>1
    <3> QED
      BY <1>1, <3>1, PiperValues, PiperNumbers DEF Piper!Invalidate, SubType, PiperInv, PiperFrames
  <2>2. CASE ~garbled /\ wire.full
    <3>1. sub' = Piper!Accept(wire.frame)
      BY <1>2, <2>2
    <3>2. sub' \in SubType
      BY <1>1, <1>7, <3>1, AcceptedType
    <3>3. /\ sub'.session = wire.frame.session
          /\ sub'.action.engaged =>
               /\ wire.frame.open \/ (sub.armed /\ wire.frame.session = sub.session)
               /\ sub'.action = [wire.frame EXCEPT !.open = TRUE]
      BY <3>1 DEF Piper!Accept, Piper!Neutral
    <3>4. /\ [wire.frame EXCEPT !.open = TRUE].engaged = wire.frame.engaged
          /\ [wire.frame EXCEPT !.open = TRUE].press = wire.frame.press
      BY <1>7 DEF Piper!Frames
    <3> QED
      BY <2>2, <3>2, <3>3, <3>4 DEF PiperInv, PiperFrames
  <2>3. CASE ~garbled /\ ~wire.full
    <3>1. sub' = [sub EXCEPT !.armed = sub.armed /\ sub.cached = "live"]
      BY <1>2, <2>3
    <3>2. /\ sub' \in SubType
          /\ sub'.session = sub.session /\ sub'.cached = sub.cached /\ sub'.action = sub.action
      BY <1>1, <3>1 DEF SubType
    <3> QED
      BY <2>3, <3>2 DEF PiperInv, PiperFrames
  <2> QED
    BY <2>1, <2>2, <2>3
<1>9. f \in Piper!Frames /\ skipped \in BOOLEAN
  BY <1>1, <1>3, <1>8, PiperValues DEF SubType, WireType
<1>10. f.engaged => sub'.cached = "live" /\ f = sub'.action
  BY <1>3 DEF Piper!Neutral
<1>11. /\ out.proc \in ProcType /\ out.act \in {"none", "hold", "target"}
       /\ out.act = "target" <=> out.proc.state = "engaged"
       /\ out.act = "none" => proc.state # "engaged"
       /\ out.act = "target" =>
            /\ f.tracked /\ f.engaged
            /\ \/ proc.state = "engaged" /\ out.proc = proc
               \/ proc.state # "engaged" /\ out.proc.anchor = f.press
  BY <1>1, <1>4, <1>9, Processed
<1>12. proc.state # "engaged" => robot.sent # "target"
  BY <1>6 DEF PiperInv, PiperSent
<1>13. /\ robot' \in RobotType /\ robot'.node = robot.node /\ robot'.up = robot.up
       /\ \/ /\ fails /\ script'.at = "hold" /\ out.act # "none"
             /\ robot'.sent = robot.sent /\ robot'.from = robot.from
             /\ robot'.excused = robot.excused /\ robot'.lost = robot.lost
             /\ robot'.unheld <=> out.act = "hold"
          \/ /\ ~fails /\ script'.at = "loop" /\ ~robot'.unheld
             /\ robot'.sent = IF out.act = "none" THEN robot.sent ELSE out.act
             /\ out.act = "target" => robot'.from = f.press
             /\ robot'.excused <=> out.act = "target" /\ proc.state = "engaged"
                                   /\ (robot.excused \/ skipped)
  <2>1. CASE fails
    <3>1. robot' = [robot EXCEPT !.unheld = out.act = "hold"] /\ (out.act = "hold") \in BOOLEAN
      BY <1>5, <2>1
    <3>2. script'.at = "hold" /\ out.act # "none"
      BY <1>5, <2>1
    <3>3. /\ robot' \in RobotType /\ robot'.node = robot.node /\ robot'.up = robot.up
          /\ robot'.sent = robot.sent /\ robot'.from = robot.from
          /\ robot'.excused = robot.excused /\ robot'.lost = robot.lost
          /\ robot'.unheld <=> out.act = "hold"
      BY <1>1, <3>1 DEF RobotType
    <3> QED
      BY <2>1, <3>2, <3>3
  <2>2. CASE ~fails
    <3>1. robot' = Piper!Commanded(robot, out, f, skipped) /\ script'.at = "loop"
      BY <1>5, <2>2
    <3>2. /\ robot' \in RobotType /\ robot'.node = robot.node /\ robot'.up = robot.up
          /\ robot'.unheld = robot.unheld
          /\ robot'.sent = IF out.act = "none" THEN robot.sent ELSE out.act
          /\ out.act = "target" => robot'.from = f.press
          /\ robot'.excused <=> out.act = "target" /\ proc.state = "engaged"
                                /\ (robot.excused \/ skipped)
      BY <1>1, <1>9, <1>11, <3>1, CommandedType
    <3> QED
      BY <1>6, <2>2, <3>1, <3>2
  <2> QED
    BY <2>1, <2>2
<1>14. script' \in ScriptType /\ script'.observed /\ script'.at \in {"hold", "loop"}
  BY <1>5 DEF ScriptType
<1>15. Piper!TypeOK'
  BY <1>1, <1>5, <1>6, <1>8, <1>11, <1>13, <1>14, PiperValues, PiperTypesNext
<1>16. PiperModes'
  BY <1>6, <1>13, <1>14 DEF PiperInv, PiperModes
<1>17. PiperSent'
  BY <1>5, <1>6, <1>11, <1>12, <1>13, <1>14 DEF PiperSent
<1>18. PiperGate'
  BY <1>1, <1>6 DEF PiperInv, PiperGate, PiperModes
<1>19. sub'.cached = "live" /\ sub'.action.engaged /\ xr.up /\ xr.session = sub'.session =>
         xr.engaged /\ xr.press = sub'.action.press
  BY <1>6, <1>8 DEF PiperInv, PiperFrames
<1>20. PiperFrames'
  BY <1>6, <1>8, <1>19 DEF PiperInv, PiperFrames
<1>21. PiperPress'
  <2>1. CASE proc'.state # "engaged"
    BY <2>1 DEF PiperPress
  <2>2. CASE proc'.state = "engaged" /\ fails /\ ~robot'.excused
    <3>1. out.act = "target" /\ script'.at = "hold"
      BY <1>5, <1>11, <1>13, <2>2
    <3>2. robot'.sent = "target" => robot'.from = proc'.anchor
      <4>1. robot'.sent = "target" => proc.state = "engaged" /\ proc' = proc /\ ~robot.excused
        BY <1>5, <1>11, <1>12, <1>13, <2>2, <3>1
      <4> QED
        BY <1>13, <2>2, <4>1 DEF PiperInv, PiperPress
    <3> QED
      BY <1>6, <3>1, <3>2 DEF PiperPress, Fed
  <2>3. CASE proc'.state = "engaged" /\ ~fails /\ ~robot'.excused
    <3>1. /\ out.act = "target" /\ script'.at = "loop" /\ robot'.from = f.press
          /\ sub'.cached = "live" /\ f = sub'.action /\ sub'.action.engaged
      BY <1>5, <1>10, <1>11, <1>13, <2>3
    <3>2. proc'.anchor = sub'.action.press
      <4>1. CASE proc.state # "engaged"
        BY <1>5, <1>11, <3>1, <4>1
      <4>2. CASE proc.state = "engaged"
        <5>1. proc' = proc /\ ~robot.excused /\ ~wire.skipped
          BY <1>3, <1>5, <1>11, <1>13, <2>3, <3>1, <4>2
        <5>2. /\ sub.cached = "live" /\ sub.action.engaged => sub.action.press = proc.anchor
              /\ wire.full /\ wire.frame.engaged /\ wire.frame.session = sub.session =>
                   wire.frame.press = proc.anchor
          BY <1>6, <4>2, <5>1 DEF PiperInv, PiperPress
        <5> QED
          BY <1>8, <3>1, <5>1, <5>2
      <4> QED
        BY <4>1, <4>2
    <3>3. Fed' => xr'.engaged /\ xr'.press = proc'.anchor
      BY <1>6, <1>19, <3>1, <3>2 DEF Fed
    <3> QED
      BY <1>6, <3>1, <3>2, <3>3 DEF PiperPress
  <2> QED
    BY <2>1, <2>2, <2>3 DEF PiperPress
<1> QED
  BY <1>15, <1>16, <1>17, <1>18, <1>20, <1>21 DEF PiperInv

\* One update of the gate, with the Controller's Handle as it read it or gone by
\* the time of the calls.
LEMMA GateUpdated ==
    ASSUME PiperInv, NEW f, f.tracked \in BOOLEAN, f.engaged \in BOOLEAN,
           NEW c \in {ctl, Piper!Without(ctl)}, NEW n, n = Piper!GateUpdate(f, c)
    PROVE  /\ n.gate \in GateType /\ n.ctl \in CtlType
           /\ n.ctl.handle \in {0, ctl.handle}
           /\ n.ctl.handle = 0 => n.ctl.state = "idle"
           /\ n.gate.armed =>
                /\ f.tracked
                /\ IF f.engaged THEN gate.armed /\ n.gate.handle = gate.handle
                                ELSE n.gate.handle = ctl.handle
           /\ n.gate.controlling => n.gate.armed /\ f.tracked /\ f.engaged
           /\ n.ctl.state # "idle" /\ ~n.ctl.byHub =>
                n.gate.controlling /\ n.gate.handle = n.ctl.handle
           /\ n.ctl.state = "streaming" =>
                ctl.state = "streaming" /\ n.ctl.byHub = ctl.byHub
<1>1. gate \in GateType /\ ctl \in CtlType
  BY PiperTypes DEF PiperInv
<1>2. /\ gate.handle \in Piper!Handles /\ gate.armed \in BOOLEAN /\ gate.previous \in BOOLEAN
      /\ gate.controlling \in BOOLEAN /\ ctl.handle \in Piper!Handles
  BY <1>1 DEF GateType, CtlType
<1>3. /\ Piper!Without(ctl) \in CtlType /\ Piper!Without(ctl).handle = 0
      /\ Piper!Without(ctl).state = "idle" /\ Piper!Without(ctl) = Piper!Without(Piper!Without(ctl))
  BY <1>1, PiperValues DEF Piper!Without, CtlType
<1>4. PICK fresh : fresh = [Piper!NoGate EXCEPT !.handle = ctl.handle]
  OBVIOUS
<1>5. /\ fresh \in GateType /\ fresh.handle = ctl.handle
      /\ ~fresh.armed /\ ~fresh.previous /\ ~fresh.controlling
  BY <1>2, <1>4, PiperValues DEF Piper!NoGate, GateType
<1>6. PICK g, old :
        /\ g = IF ctl.handle = gate.handle THEN gate ELSE fresh
        /\ old = IF ctl.handle = gate.handle THEN c ELSE Piper!Release(gate, c)
  OBVIOUS
<1>7. /\ g \in GateType /\ g.handle = ctl.handle
      /\ g.armed => gate.armed /\ g.handle = gate.handle
      /\ g.controlling => g.armed
  BY <1>1, <1>5, <1>6 DEF PiperInv, PiperGate
<1>8. \A d : d \in {ctl, Piper!Without(ctl)} =>
        \A h \in GateType : Piper!Release(h, d) \in {ctl, Piper!Without(ctl)}
  BY <1>3 DEF Piper!Release
<1>9. old \in {ctl, Piper!Without(ctl)}
  BY <1>1, <1>6, <1>8
<1>10. /\ ctl.handle = 0 => ctl.state = "idle"
       /\ ctl.state # "idle" /\ ~ctl.byHub => gate.controlling /\ gate.handle = ctl.handle
  BY DEF PiperInv, PiperGate, PiperModes
<1>11. /\ n = LET press == g.armed /\ ~g.previous /\ ~g.controlling
                  taken == press /\ old.handle = ctl.handle
              IN  IF ctl.handle = 0
                  THEN [gate |-> Piper!NoGate, ctl |-> Piper!Release(gate, c)]
                  ELSE IF f.tracked /\ f.engaged
                  THEN [gate |-> [g EXCEPT !.previous = TRUE,
                                           !.controlling = g.controlling \/ taken],
                        ctl |-> IF taken THEN Piper!TakeOver(old) ELSE old]
                  ELSE [gate |-> Piper!Opened(f), ctl |-> Piper!Release(g, old)]
  BY <1>4, <1>6 DEF Piper!GateUpdate
<1>12. CASE ctl.handle = 0
  <2>1. n.gate = Piper!NoGate /\ n.ctl = Piper!Release(gate, c)
    BY <1>11, <1>12
  <2>2. n.ctl \in {ctl, Piper!Without(ctl)}
    BY <1>1, <1>8, <2>1
  <2>3. n.ctl \in CtlType /\ n.ctl.handle = 0 /\ n.ctl.state = "idle"
    BY <1>1, <1>3, <1>10, <1>12, <2>2
  <2>4. ~Piper!NoGate.armed /\ ~Piper!NoGate.controlling
    BY DEF Piper!NoGate
  <2> QED
    BY <2>1, <2>3, <2>4, PiperValues
<1>13. CASE ctl.handle # 0 /\ f.tracked /\ f.engaged
  <2>0. PICK taken : taken = ((g.armed /\ ~g.previous /\ ~g.controlling)
                              /\ old.handle = ctl.handle)
    OBVIOUS
  <2>1. /\ taken \in BOOLEAN
        /\ taken => g.armed /\ old.handle = ctl.handle
        /\ n.gate = [g EXCEPT !.previous = TRUE, !.controlling = g.controlling \/ taken]
        /\ n.ctl = IF taken THEN Piper!TakeOver(old) ELSE old
    <3>1. n = [gate |-> [g EXCEPT !.previous = TRUE, !.controlling = g.controlling \/ taken],
               ctl |-> IF taken THEN Piper!TakeOver(old) ELSE old]
      BY <1>11, <1>13, <2>0
    <3>2. taken \in BOOLEAN
      BY <1>7, <2>0 DEF GateType
    <3>3. taken => g.armed /\ old.handle = ctl.handle
      BY <2>0
    <3> QED
      BY <3>1, <3>2, <3>3
  <2>2. /\ n.gate \in GateType /\ n.gate.handle = ctl.handle
        /\ n.gate.armed = g.armed
        /\ n.gate.controlling <=> g.controlling \/ taken
    BY <1>7, <2>1 DEF GateType
  <2>3. CASE ~taken
    <3>1. n.ctl = old
      BY <2>1, <2>3
    <3>2. n.ctl.state # "idle" => n.ctl = ctl
      BY <1>3, <1>9, <3>1
    <3>3. n.ctl.state # "idle" /\ ~n.ctl.byHub => g = gate /\ g.controlling
      BY <1>6, <1>10, <3>2
    <3>4. /\ n.ctl \in CtlType /\ n.ctl.handle \in {0, ctl.handle}
          /\ n.ctl.handle = 0 => n.ctl.state = "idle"
          /\ n.ctl.state = "streaming" => n.ctl = ctl
      BY <1>1, <1>3, <1>9, <1>10, <3>1
    <3>5. n.gate.controlling => n.gate.armed
      BY <1>7, <2>2, <2>3
    <3>6. n.ctl.state # "idle" /\ ~n.ctl.byHub =>
            n.gate.controlling /\ n.gate.handle = n.ctl.handle
      BY <2>2, <2>3, <3>2, <3>3
    <3>7. n.gate.armed => gate.armed /\ n.gate.handle = gate.handle
      BY <1>7, <2>2
    <3> QED
      BY <1>13, <2>2, <3>4, <3>5, <3>6, <3>7
  <2>4. CASE taken
    <3>1. old = ctl /\ n.ctl = Piper!TakeOver(ctl)
      BY <1>3, <1>9, <1>13, <2>1, <2>4
    <3>2. /\ n.ctl \in CtlType /\ n.ctl.handle = ctl.handle
          /\ \/ ctl.state = "streaming" /\ n.ctl = ctl
             \/ n.ctl.state = "taking"
      BY <1>1, <3>1 DEF Piper!TakeOver, CtlType
    <3> QED
      BY <1>7, <1>13, <2>1, <2>2, <2>4, <3>2
  <2> QED
    BY <2>3, <2>4
<1>14. CASE ctl.handle # 0 /\ ~(f.tracked /\ f.engaged)
  <2>1. n.gate = Piper!Opened(f) /\ n.ctl = Piper!Release(g, old)
    BY <1>11, <1>14
  <2>2. /\ n.gate \in GateType /\ n.gate.handle = ctl.handle
        /\ n.gate.armed = f.tracked /\ ~n.gate.controlling
    BY <1>2, <2>1, PiperValues DEF Piper!Opened, Piper!NoGate, GateType
  <2>3. n.ctl \in {ctl, Piper!Without(ctl)}
    BY <1>7, <1>8, <1>9, <2>1
  <2>4. n.ctl.state # "idle" => n.ctl = ctl /\ ctl.byHub
    <3>1. SUFFICES ASSUME n.ctl.state # "idle", ~ctl.byHub PROVE FALSE
      BY <1>1, <1>3, <2>3 DEF CtlType
    <3>2. n.ctl = ctl
      BY <1>3, <2>3, <3>1
    <3>3. gate.controlling /\ gate.handle = ctl.handle /\ g = gate
      BY <1>6, <1>10, <3>1, <3>2
    <3>4. n.ctl \in {Piper!Without(old)} \/ (old.handle # ctl.handle /\ n.ctl = old)
      BY <2>1, <3>3 DEF Piper!Release
    <3> QED
      BY <1>3, <1>9, <3>1, <3>2, <3>4
  <2> QED
    BY <1>1, <1>3, <1>10, <1>14, <2>2, <2>3, <2>4
<1> QED
  BY <1>12, <1>13, <1>14

\* One sample of the hand: the clutch, the gate, the frame.
LEMMA KeepsSample == PiperInv /\ Piper!Sample => PiperInv'
<1> SUFFICES ASSUME PiperInv, Piper!Sample PROVE PiperInv'
  OBVIOUS
<1>1. /\ managed \in BOOLEAN /\ xr \in XrType /\ gate \in GateType /\ ctl \in CtlType
      /\ wire \in WireType /\ sub \in SubType /\ proc \in ProcType
      /\ script \in ScriptType /\ robot \in RobotType
  BY PiperTypes DEF PiperInv
<1>2. PICK tracked \in BOOLEAN, moved \in BOOLEAN, open \in BOOLEAN,
           squeeze \in {"open", "held", "full"} :
         LET first == Piper!Engages(tracked, squeeze)
             engaged == first \/ Piper!StaysEngaged(tracked, squeeze)
             f == Piper!Frame(tracked, engaged, first, open, moved)
         IN  /\ first => xr.press < MaxPresses
             /\ open => squeeze = "open"
             /\ managed => ~open
             /\ ~tracked => squeeze = "open"
             /\ moved => engaged /\ ~first
             /\ xr' = [xr EXCEPT !.engaged = engaged,
                                 !.press = IF first THEN @ + 1 ELSE @,
                                 !.seen = IF ~tracked THEN 0
                                          ELSE IF engaged THEN @ ELSE ctl.handle]
             /\ IF ~managed
                THEN /\ wire' = IF script.at = "exited" THEN wire ELSE Piper!Put(f)
                     /\ UNCHANGED <<gate, ctl>>
                ELSE \E c \in {ctl, Piper!Without(ctl)} :
                       LET next == Piper!GateUpdate(f, c) IN
                       /\ gate' = next.gate
                       /\ ctl' = IF next.ctl.state # "taking" THEN next.ctl
                                 ELSE [next.ctl EXCEPT !.state = "requested"]
                       /\ wire' = IF next.ctl.state = "streaming" THEN Piper!Put(f) ELSE wire
  BY DEF Piper!Sample
<1>3. PICK first : first = Piper!Engages(tracked, squeeze)
  OBVIOUS
<1>4. PICK engaged : engaged = (first \/ Piper!StaysEngaged(tracked, squeeze))
  OBVIOUS
<1>5. PICK f : f = Piper!Frame(tracked, engaged, first, open, moved)
  OBVIOUS
<1>6. PICK press : press = IF first THEN xr.press + 1 ELSE xr.press
  OBVIOUS
<1>7. xr.engaged \in BOOLEAN /\ xr.press \in Piper!Presses /\ xr.seen \in Piper!Handles
      /\ xr.session \in 0 .. MaxSessions /\ ctl.handle \in Piper!Handles
  BY <1>1 DEF XrType, CtlType
<1>8. /\ first \in BOOLEAN /\ engaged \in BOOLEAN
      /\ first => ~xr.engaged /\ tracked
      /\ engaged => tracked /\ squeeze # "open" /\ (first \/ xr.engaged)
  BY <1>2, <1>3, <1>4, <1>7 DEF Piper!Engages, Piper!StaysEngaged
<1>9. /\ first => xr.press < MaxPresses
      /\ open => squeeze = "open"
      /\ managed => ~open
      /\ xr' = [xr EXCEPT !.engaged = engaged, !.press = press,
                          !.seen = IF ~tracked THEN 0
                                   ELSE IF engaged THEN xr.seen ELSE ctl.handle]
      /\ IF ~managed
         THEN /\ wire' = IF script.at = "exited" THEN wire ELSE Piper!Put(f)
              /\ UNCHANGED <<gate, ctl>>
         ELSE \E c \in {ctl, Piper!Without(ctl)} :
                LET next == Piper!GateUpdate(f, c) IN
                /\ gate' = next.gate
                /\ ctl' = IF next.ctl.state # "taking" THEN next.ctl
                          ELSE [next.ctl EXCEPT !.state = "requested"]
                /\ wire' = IF next.ctl.state = "streaming" THEN Piper!Put(f) ELSE wire
  BY <1>2, <1>3, <1>4, <1>5, <1>6
<1>10. /\ xr.up /\ xr.session # 0
       /\ UNCHANGED <<managed, sub, proc, script, robot>>
  BY DEF Piper!Sample, PiperInv, PiperFrames
<1>11. press \in Piper!Presses /\ press \in Nat
  BY <1>6, <1>7, <1>8, <1>9, PiperConstants DEF Piper!Presses
<1>12. /\ f \in Piper!Frames
       /\ f.session = xr.session /\ f.tracked = tracked /\ f.engaged = engaged /\ f.open = open
       /\ engaged => f.press = press
  <2>1. xr.session \in 1 .. MaxSessions
    BY <1>7, <1>10, PiperConstants
  <2>2. (~(engaged /\ ~first /\ moved)) \in BOOLEAN
    OBVIOUS
  <2>3. (IF ~engaged THEN 0 ELSE press) \in Piper!Presses
    BY <1>11, PiperValues
  <2>4. f = [session |-> xr.session, tracked |-> tracked, engaged |-> engaged, open |-> open,
             neutral |-> ~(engaged /\ ~first /\ moved),
             press |-> IF ~engaged THEN 0 ELSE press]
    BY <1>5, <1>6 DEF Piper!Frame
  <2> QED
    BY <1>2, <1>8, <2>1, <2>2, <2>3, <2>4 DEF Piper!Frames
<1>13. /\ xr' \in XrType /\ xr'.up = xr.up /\ xr'.session = xr.session
       /\ xr'.engaged = engaged /\ xr'.press = press
       /\ xr'.seen = IF ~tracked THEN 0 ELSE IF engaged THEN xr.seen ELSE ctl.handle
  <2>1. (IF ~tracked THEN 0 ELSE IF engaged THEN xr.seen ELSE ctl.handle) \in Piper!Handles
    BY <1>7, PiperValues
  <2> QED
    BY <1>1, <1>8, <1>9, <1>11, <2>1 DEF XrType
<1>14. PICK put : put = Piper!Put(f)
  OBVIOUS
<1>15. /\ put \in WireType /\ put.full /\ put.frame = f
       /\ put.skipped <=> wire.skipped \/ (wire.full /\ ~wire.frame.engaged)
  <2>1. (wire.skipped \/ (wire.full /\ ~wire.frame.engaged)) \in BOOLEAN
    OBVIOUS
  <2> QED
    BY <1>12, <1>14, <2>1 DEF Piper!Put, WireType
<1>16. /\ gate' \in GateType /\ ctl' \in CtlType
       /\ ~managed => UNCHANGED <<gate, ctl>>
       /\ managed =>
            /\ ctl'.handle = 0 => ctl'.state = "idle"
            /\ gate'.armed => xr'.seen = gate'.handle
            /\ gate'.controlling => gate'.armed /\ tracked /\ engaged
            /\ ctl'.state # "idle" /\ ~ctl'.byHub =>
                 gate'.controlling /\ gate'.handle = ctl'.handle
            /\ ctl'.state = "streaming" =>
                 ctl.state = "streaming" /\ ctl'.byHub = ctl.byHub
       /\ wire' = IF (IF managed THEN ctl'.state = "streaming" ELSE script.at # "exited")
                  THEN put ELSE wire
  <2>1. CASE ~managed
    BY <1>1, <1>9, <1>14, <2>1
  <2>2. CASE managed
    <3>1. PICK c \in {ctl, Piper!Without(ctl)} :
            LET next == Piper!GateUpdate(f, c) IN
            /\ gate' = next.gate
            /\ ctl' = IF next.ctl.state # "taking" THEN next.ctl
                      ELSE [next.ctl EXCEPT !.state = "requested"]
            /\ wire' = IF next.ctl.state = "streaming" THEN Piper!Put(f) ELSE wire
      BY <1>9, <2>2
    <3>2. PICK n : n = Piper!GateUpdate(f, c)
      OBVIOUS
    <3>3. /\ gate' = n.gate
          /\ ctl' = IF n.ctl.state # "taking" THEN n.ctl ELSE [n.ctl EXCEPT !.state = "requested"]
          /\ wire' = IF n.ctl.state = "streaming" THEN put ELSE wire
      BY <1>14, <3>1, <3>2
    <3>4. f.tracked \in BOOLEAN /\ f.engaged \in BOOLEAN
      BY <1>2, <1>8, <1>12
    <3>5. /\ n.gate \in GateType /\ n.ctl \in CtlType
          /\ n.ctl.handle \in {0, ctl.handle}
          /\ n.ctl.handle = 0 => n.ctl.state = "idle"
          /\ n.gate.armed =>
               /\ f.tracked
               /\ IF f.engaged THEN gate.armed /\ n.gate.handle = gate.handle
                               ELSE n.gate.handle = ctl.handle
          /\ n.gate.controlling => n.gate.armed /\ f.tracked /\ f.engaged
          /\ n.ctl.state # "idle" /\ ~n.ctl.byHub =>
               n.gate.controlling /\ n.gate.handle = n.ctl.handle
          /\ n.ctl.state = "streaming" =>
               ctl.state = "streaming" /\ n.ctl.byHub = ctl.byHub
      BY <3>2, <3>4, GateUpdated
    <3>6. /\ ctl' \in CtlType /\ ctl'.handle = n.ctl.handle /\ ctl'.byHub = n.ctl.byHub
          /\ ctl'.state = "streaming" <=> n.ctl.state = "streaming"
          /\ ctl'.state = "idle" <=> n.ctl.state = "idle"
      BY <3>3, <3>5 DEF CtlType
    <3>7. gate'.armed => xr'.seen = gate'.handle
      BY <1>12, <1>13, <3>3, <3>5 DEF PiperInv, PiperGate
    <3>8. /\ ctl'.handle = 0 => ctl'.state = "idle"
          /\ gate'.controlling => gate'.armed /\ tracked /\ engaged
          /\ ctl'.state # "idle" /\ ~ctl'.byHub =>
               gate'.controlling /\ gate'.handle = ctl'.handle
          /\ ctl'.state = "streaming" => ctl.state = "streaming" /\ ctl'.byHub = ctl.byHub
      BY <1>12, <3>3, <3>5, <3>6
    <3> QED
      BY <2>2, <3>3, <3>5, <3>6, <3>7, <3>8
  <2> QED
    BY <1>1, <2>1, <2>2
<1>17. wire' \in WireType
  BY <1>1, <1>15, <1>16
<1>18. Piper!TypeOK'
  BY <1>1, <1>10, <1>13, <1>16, <1>17, PiperTypesNext
<1>19. PiperModes'
  BY <1>10, <1>16 DEF PiperInv, PiperModes
<1>20. PiperSent'
  BY <1>10 DEF PiperInv, PiperSent
<1>21. PiperGate'
  <2>1. CASE ~managed
    <3>1. ~gate.armed /\ ~gate.controlling /\ ctl.state = "idle"
      BY <2>1 DEF PiperInv, PiperModes, PiperGate
    <3> QED
      BY <1>10, <1>16, <2>1, <3>1 DEF PiperGate
  <2>2. CASE managed
    <3>1. ctl'.state = "streaming" => robot.byHub = ctl'.byHub
      BY <1>16, <2>2 DEF PiperInv, PiperGate
    <3>2. wire'.full /\ ~robot.byHub => wire'.frame.tracked
      <4>1. CASE ctl'.state = "streaming"
        BY <1>12, <1>15, <1>16, <2>2, <3>1, <4>1
      <4>2. CASE ctl'.state # "streaming"
        BY <1>16, <2>2, <4>2 DEF PiperInv, PiperGate
      <4> QED
        BY <4>1, <4>2
    <3>3. gate'.controlling => gate'.armed /\ xr'.engaged
      BY <1>13, <1>16, <2>2
    <3> QED
      BY <1>10, <1>16, <2>2, <3>1, <3>2, <3>3 DEF PiperInv, PiperGate
  <2> QED
    BY <1>1, <2>1, <2>2
<1>22. PiperFrames'
  <2>1. CASE IF managed THEN ctl'.state = "streaming" ELSE script.at # "exited"
    <3>1. wire' = put
      BY <1>16, <2>1
    <3>2. f.open => ~f.engaged
      BY <1>8, <1>9, <1>12
    <3> QED
      BY <1>7, <1>10, <1>12, <1>13, <1>15, <3>1, <3>2 DEF PiperInv, PiperFrames
  <2>2. CASE ~IF managed THEN ctl'.state = "streaming" ELSE script.at # "exited"
    <3>1. wire' = wire
      BY <1>16, <2>2
    <3>2. ~managed => sub.cached = "none"
      BY <2>2 DEF PiperInv, PiperModes, Piper!NoSub
    <3> QED
      BY <1>10, <1>13, <2>2, <3>1, <3>2 DEF PiperInv, PiperFrames
  <2> QED
    BY <2>1, <2>2
<1>23. PiperPress'
  <2> SUFFICES ASSUME proc.state = "engaged", ~robot.excused PROVE PiperPress'
    BY <1>10 DEF PiperPress
  <2>1. /\ robot.sent = "target" => robot.from = proc.anchor
        /\ ~managed /\ script.at = "loop" /\ sub.cached = "live" /\ sub.action.engaged =>
             sub.action.press = proc.anchor
        /\ wire.full /\ ~wire.skipped /\ wire.frame.engaged
             /\ (managed \/ (script.at = "loop" /\ wire.frame.session = sub.session)) =>
             wire.frame.press = proc.anchor
        /\ Fed => \/ xr.engaged /\ xr.press = proc.anchor
                  \/ wire.full /\ (wire.skipped \/ ~wire.frame.engaged)
    BY DEF PiperInv, PiperPress
  <2>2. CASE IF managed THEN ctl'.state = "streaming" ELSE script.at # "exited"
    <3>1. wire' = put
      BY <1>16, <2>2
    <3>2. managed \/ (script.at = "loop" /\ xr.session = sub.session) => Fed
      BY <1>10, <1>16, <2>2 DEF Fed
    <3>3. Fed /\ ~put.skipped => xr.engaged /\ xr.press = proc.anchor
      BY <1>15, <2>1
    <3>4. Fed /\ ~put.skipped /\ engaged => press = proc.anchor
      BY <1>6, <1>8, <3>3
    <3>5. Fed' => Fed
      BY <1>10, <1>13, <1>16 DEF Fed
    <3>6. wire'.full /\ ~wire'.skipped /\ wire'.frame.engaged
            /\ (managed \/ (script.at = "loop" /\ wire'.frame.session = sub.session)) =>
            wire'.frame.press = proc.anchor
      BY <1>12, <1>15, <3>1, <3>2, <3>4
    <3>7. Fed' => \/ xr'.engaged /\ xr'.press = proc.anchor
                  \/ wire'.full /\ (wire'.skipped \/ ~wire'.frame.engaged)
      BY <1>8, <1>12, <1>13, <1>15, <3>1, <3>4, <3>5
    <3> QED
      BY <1>10, <2>1, <3>6, <3>7 DEF PiperPress
  <2>3. CASE ~IF managed THEN ctl'.state = "streaming" ELSE script.at # "exited"
    <3>1. wire' = wire /\ ~Fed'
      BY <1>10, <1>16, <2>3 DEF Fed
    <3> QED
      BY <1>10, <2>1, <3>1 DEF PiperPress
  <2> QED
    BY <2>2, <2>3
<1> QED
  BY <1>18, <1>19, <1>20, <1>21, <1>22, <1>23 DEF PiperInv

\* A Piper's teleoperation starts with nothing granted, squeezed or sent.
LEMMA PiperInit == Init => PiperInv
<1> SUFFICES ASSUME Init PROVE PiperInv
  OBVIOUS
<1>1. Piper!Init
  BY DEF Init
<1>2. Piper!TypeOK
  <2>1. /\ xr \in XrType /\ ctl \in CtlType /\ managed \in BOOLEAN
        /\ script \in ScriptType /\ robot \in RobotType
    BY <1>1, PiperValues DEF Piper!Init, XrType, CtlType, ScriptType, RobotType
  <2> QED
    BY <1>1, <2>1, PiperValues, PiperTypes DEF Piper!Init
<1>3. PiperModes /\ PiperSent /\ PiperGate /\ PiperFrames /\ PiperPress
  BY <1>1 DEF Piper!Init, PiperModes, PiperSent, PiperGate, PiperFrames, PiperPress, Piper!NoGate,
     Piper!NoSub, Piper!Unarmed, Piper!Empty, Piper!Neutral
<1> QED
  BY <1>2, <1>3 DEF PiperInv

\* Its invariant is about its own variables only.
LEMMA PiperStutter == PiperInv /\ UNCHANGED piperVars => PiperInv'
BY DEF piperVars, PiperInv, Piper!TypeOK, PiperModes, PiperSent, PiperGate, PiperFrames,
       PiperPress, Fed

\* Every step of moving a Piper keeps its invariant.
LEMMA PiperStep == PiperInv /\ Piper!Next => PiperInv'
BY KeepsSample, KeepsEndSession, KeepsStartSession, KeepsGrant, KeepsRevoke, KeepsHubTakeOver,
   KeepsRobotReady, KeepsRobotHold, KeepsRobotFrame, KeepsSubscribe, KeepsConnectRobot,
   KeepsStable, KeepsIterate, KeepsTerminationHold, KeepsDisconnect, KeepsStartFails,
   KeepsExpire, KeepsLoopEnds
   DEF Piper!Next, Piper!ScriptStep

----------------------------------------------------------------------------
(* The in-process runtime.                                                 *)

\* Of the slots of an endpoint only the newest can be open.
NewestOpen == \A s \in Memory!Slots : slots[s].open => s = latest

MemoryInv ==
    /\ Memory!TypeOK /\ NewestOpen
    /\ Memory!AcceptedIsDelivered /\ Memory!NoStaleHeartbeat

\* An empty inbox and no traffic: nothing is owed.
LEMMA NothingOwed ==
    /\ inbox = <<>> /\ link = Memory!NoTraffic
         => Memory!AcceptedIsDelivered /\ Memory!NoStaleHeartbeat
    /\ inbox' = <<>> /\ link' = Memory!NoTraffic
         => Memory!AcceptedIsDelivered' /\ Memory!NoStaleHeartbeat'
<1>1. \A p \in Peers, k \in Memory!Kinds :
         /\ Memory!NoTraffic[p]["accepted"][k] = 0
         /\ Memory!NoTraffic[p]["received"][k] = 0
  BY DEF Memory!NoTraffic
<1>2. Memory!Kinds = {"heartbeat", "command"} /\ 1 .. 0 = {}
  BY DEF Memory!Kinds
<1>3. ASSUME inbox = <<>>, link = Memory!NoTraffic
      PROVE  Memory!AcceptedIsDelivered /\ Memory!NoStaleHeartbeat
  BY <1>1, <1>2, <1>3 DEF Memory!AcceptedIsDelivered, Memory!Queued, Memory!NoStaleHeartbeat
<1>4. ASSUME inbox' = <<>>, link' = Memory!NoTraffic
      PROVE  Memory!AcceptedIsDelivered' /\ Memory!NoStaleHeartbeat'
  BY <1>1, <1>2, <1>4 DEF Memory!AcceptedIsDelivered, Memory!Queued, Memory!NoStaleHeartbeat
<1> QED
  BY <1>3, <1>4

\* A channel that is opened or closed starts with nothing accepted.
LEMMA NoTrafficType ==
    /\ Memory!NoTraffic \in
         [Peers -> [{"accepted", "received"} -> [Memory!Kinds -> 0 .. MaxSent]]]
    /\ <<>> \in Seq(Memory!Entry) /\ Len(<<>>) <= management_inbox_max
    /\ Memory!NoSlots \in [Memory!Slots -> [open : BOOLEAN, value : BOOLEAN]]
<1>1. 0 \in 0 .. MaxSent /\ management_inbox_max \in Nat
  BY MemoryConstants
<1> QED
  BY <1>1 DEF Memory!NoTraffic, Memory!NoSlots

\* The in-process runtime starts closed and empty.
LEMMA MemoryInit == Init => MemoryInv
<1> SUFFICES ASSUME Init PROVE MemoryInv
  OBVIOUS
<1>1. Memory!Init
  BY DEF Init
<1>2. Memory!TypeOK
  <2>1. 0 \in 0 .. MaxOpens
    BY MemoryConstants
  <2> QED
    BY <1>1, <2>1, NoTrafficType DEF Memory!Init, Memory!TypeOK
<1>3. NewestOpen
  BY <1>1 DEF NewestOpen, Memory!Init, Memory!NoSlots
<1> QED
  BY <1>1, <1>2, <1>3, NothingOwed DEF MemoryInv, Memory!Init

\* Its invariant is about its own variables only.
LEMMA MemoryStutter == MemoryInv /\ UNCHANGED memoryVars => MemoryInv'
<1> SUFFICES ASSUME MemoryInv, UNCHANGED memoryVars PROVE MemoryInv'
  OBVIOUS
<1>1. Memory!TypeOK' /\ NewestOpen'
  BY DEF memoryVars, MemoryInv, NewestOpen, Memory!TypeOK, Memory!Slots
<1>2. Memory!AcceptedIsDelivered' /\ Memory!NoStaleHeartbeat'
  BY DEF memoryVars, MemoryInv, Memory!AcceptedIsDelivered, Memory!Queued,
         Memory!NoStaleHeartbeat
<1> QED
  BY <1>1, <1>2 DEF MemoryInv

\* Neither end of an action endpoint nor a close() of one touches the inbox.
LEMMA MemoryEnds ==
    ASSUME MemoryInv,
           \/ \E end \in Memory!Ends : Memory!OpenEnd(end) \/ Memory!CloseEnd(end)
           \/ Memory!Publish \/ Memory!ReceiveLatest
    PROVE  MemoryInv'
<1> USE MemoryConstants
<1>1. UNCHANGED <<closed, hub, inbox, link>>
  BY DEF Memory!OpenEnd, Memory!CloseEnd, Memory!Publish, Memory!ReceiveLatest
<1>2. Memory!AcceptedIsDelivered' /\ Memory!NoStaleHeartbeat'
  BY <1>1 DEF MemoryInv, Memory!AcceptedIsDelivered, Memory!Queued, Memory!NoStaleHeartbeat
<1>3. /\ slots' \in [Memory!Slots -> [open : BOOLEAN, value : BOOLEAN]]
      /\ latest' \in 0 .. MaxOpens /\ held' \in [Memory!Ends -> 0 .. MaxOpens]
      /\ NewestOpen'
  <2> USE DEF MemoryInv, NewestOpen, Memory!TypeOK, Memory!Slots, Memory!Ends
  <2>1. ASSUME NEW end \in Memory!Ends, Memory!OpenEnd(end) PROVE <1>3!:
    <3>1. Memory!SlotFor \in 1 .. MaxOpens
      <4>1. Memory!SlotFor <= MaxOpens /\ latest \in 0 .. MaxOpens
        BY <2>1 DEF Memory!OpenEnd
      <4> QED
        BY <4>1 DEF Memory!SlotFor
    <3>2. \A r \in Memory!Slots : slots[r].open => r = Memory!SlotFor
      BY DEF Memory!SlotFor
    <3>3. PICK s \in 1 .. MaxOpens : s = Memory!SlotFor
      BY <3>1
    <3>4. /\ held' = [held EXCEPT ![end] = s] /\ latest' = s
          /\ slots' = [slots EXCEPT ![s].open = TRUE]
      BY <2>1, <3>3 DEF Memory!OpenEnd
    <3>5. s \in 0 .. MaxOpens /\ s \in Memory!Slots
      OBVIOUS
    <3>6. slots' \in [Memory!Slots -> [open : BOOLEAN, value : BOOLEAN]]
      BY <3>4, <3>5
    <3>7. held' \in [Memory!Ends -> 0 .. MaxOpens]
      BY <3>4, <3>5
    <3>8. NewestOpen'
      BY <3>2, <3>3, <3>4, <3>5
    <3> QED
      BY <3>4, <3>5, <3>6, <3>7, <3>8
  <2>2. ASSUME NEW end \in Memory!Ends, Memory!CloseEnd(end) PROVE <1>3!:
    <3>1. PICK s \in 0 .. MaxOpens : s = held[end]
      OBVIOUS
    <3>2. /\ s # 0 /\ held' = [held EXCEPT ![end] = 0] /\ latest' = latest
          /\ slots' = [slots EXCEPT ![s] = [open |-> FALSE, value |-> FALSE]]
      BY <2>2, <3>1 DEF Memory!CloseEnd
    <3>3. 0 \in 0 .. MaxOpens /\ s \in Memory!Slots
      BY <3>2
    <3>4. slots' \in [Memory!Slots -> [open : BOOLEAN, value : BOOLEAN]]
      BY <3>2, <3>3
    <3>5. held' \in [Memory!Ends -> 0 .. MaxOpens]
      BY <3>2, <3>3
    <3>6. NewestOpen'
      BY <3>2, <3>3
    <3> QED
      BY <3>2, <3>4, <3>5, <3>6
  <2>3. CASE Memory!Publish
    BY <2>3 DEF Memory!Publish
  <2>4. CASE Memory!ReceiveLatest
    BY <2>4 DEF Memory!ReceiveLatest
  <2> QED
    BY <2>1, <2>2, <2>3, <2>4
<1> QED
  BY <1>1, <1>2, <1>3 DEF MemoryInv, Memory!TypeOK

\* Another inbox, or none.
LEMMA MemoryEmptied ==
    ASSUME MemoryInv, Memory!OpenHub \/ Memory!Close
    PROVE  MemoryInv'
<1>1. inbox' = <<>> /\ link' = Memory!NoTraffic /\ UNCHANGED <<latest, held>>
  BY DEF Memory!OpenHub, Memory!Close
<1>2. UNCHANGED slots \/ slots' = Memory!NoSlots
  BY DEF Memory!OpenHub, Memory!Close
<1>3. closed' \in BOOLEAN /\ hub' \in 0 .. MaxOpens
  <2>1. closed \in BOOLEAN /\ hub \in 0 .. MaxOpens
    BY DEF MemoryInv, Memory!TypeOK
  <2>2. CASE Memory!OpenHub
    BY <2>1, <2>2, MemoryConstants DEF Memory!OpenHub
  <2>3. CASE Memory!Close
    BY <2>1, <2>3 DEF Memory!Close
  <2> QED
    BY <2>2, <2>3
<1>4. Memory!TypeOK'
  BY <1>1, <1>2, <1>3, NoTrafficType DEF MemoryInv, Memory!TypeOK
<1>5. NewestOpen'
  BY <1>1, <1>2 DEF MemoryInv, NewestOpen, Memory!NoSlots
<1> QED
  BY <1>1, <1>4, <1>5, NothingOwed DEF MemoryInv

\* AcceptedIsDelivered, Node by Node.
IsFrom(p, kind, i) == inbox[i].peer = p /\ inbox[i].kind = kind

Waiting(p) == link[p]["received"]["command"] + 1 .. link[p]["accepted"]["command"]

Commands(p) ==
    /\ link[p]["received"]["command"] <= link[p]["accepted"]["command"]
    /\ \A i \in DOMAIN inbox : IsFrom(p, "command", i) => inbox[i].id \in Waiting(p)
    /\ \A id \in Waiting(p) :
         \E i \in DOMAIN inbox : IsFrom(p, "command", i) /\ inbox[i].id = id
    /\ \A i, j \in DOMAIN inbox :
         IsFrom(p, "command", i) /\ IsFrom(p, "command", j) /\ i < j
           => inbox[i].id < inbox[j].id

Beats(p) ==
    /\ \A i, j \in DOMAIN inbox :
         IsFrom(p, "heartbeat", i) /\ IsFrom(p, "heartbeat", j) => i = j
    /\ \A i \in DOMAIN inbox :
         IsFrom(p, "heartbeat", i) => inbox[i].id = link[p]["accepted"]["heartbeat"]
    /\ (\A i \in DOMAIN inbox : ~IsFrom(p, "heartbeat", i)) =>
         link[p]["received"]["heartbeat"] = link[p]["accepted"]["heartbeat"]

\* What is delivered is a matter of each peer's commands and heartbeats.
LEMMA PeerByPeer ==
    /\ Memory!AcceptedIsDelivered <=> \A p \in Peers : Commands(p) /\ Beats(p)
    /\ Memory!AcceptedIsDelivered' <=> \A p \in Peers : Commands(p)' /\ Beats(p)'
<1>1. Memory!AcceptedIsDelivered <=> \A p \in Peers : Commands(p) /\ Beats(p)
  BY DEF Memory!AcceptedIsDelivered, Memory!Queued, Commands, Beats, IsFrom, Waiting
<1>2. Memory!AcceptedIsDelivered' <=> \A p \in Peers : Commands(p)' /\ Beats(p)'
  BY DEF Memory!AcceptedIsDelivered, Memory!Queued, Commands, Beats, IsFrom, Waiting
<1> QED
  BY <1>1, <1>2

\* The commands of a Node whose entries stay where they are, and so for heartbeats.
LEMMA CommandsStay ==
    ASSUME NEW p \in Peers, Commands(p),
           link'[p]["received"]["command"] = link[p]["received"]["command"],
           link'[p]["accepted"]["command"] = link[p]["accepted"]["command"],
           \A i \in DOMAIN inbox : IsFrom(p, "command", i) =>
              i \in DOMAIN inbox' /\ inbox'[i] = inbox[i],
           \A i \in DOMAIN inbox' : IsFrom(p, "command", i)' =>
              i \in DOMAIN inbox /\ inbox'[i] = inbox[i]
    PROVE  Commands(p)'
<1>1. Waiting(p)' = Waiting(p)
  BY DEF Waiting
<1>2. \A i \in DOMAIN inbox : IsFrom(p, "command", i) => IsFrom(p, "command", i)'
  BY DEF IsFrom
<1>3. \A i \in DOMAIN inbox' : IsFrom(p, "command", i)' => IsFrom(p, "command", i)
  BY DEF IsFrom
<1> QED
  BY <1>1, <1>2, <1>3 DEF Commands

\* A step that leaves a peer's heartbeats where they are.
LEMMA BeatsStay ==
    ASSUME NEW p \in Peers, Beats(p),
           link'[p]["received"]["heartbeat"] = link[p]["received"]["heartbeat"],
           link'[p]["accepted"]["heartbeat"] = link[p]["accepted"]["heartbeat"],
           \A i \in DOMAIN inbox : IsFrom(p, "heartbeat", i) =>
              i \in DOMAIN inbox' /\ inbox'[i] = inbox[i],
           \A i \in DOMAIN inbox' : IsFrom(p, "heartbeat", i)' =>
              i \in DOMAIN inbox /\ inbox'[i] = inbox[i]
    PROVE  Beats(p)'
<1>1. \A i \in DOMAIN inbox : IsFrom(p, "heartbeat", i) => IsFrom(p, "heartbeat", i)'
  BY DEF IsFrom
<1>2. \A i \in DOMAIN inbox' : IsFrom(p, "heartbeat", i)' => IsFrom(p, "heartbeat", i)
  BY DEF IsFrom
<1> QED
  BY <1>1, <1>2 DEF Beats

\* What the type says of the inbox and of the counters of one Node.
LEMMA InboxType ==
    ASSUME MemoryInv
    PROVE  /\ inbox \in Seq(Memory!Entry) /\ Len(inbox) \in Nat
           /\ DOMAIN inbox = 1 .. Len(inbox) /\ Len(inbox) <= management_inbox_max
           /\ \A i \in DOMAIN inbox :
                /\ inbox[i] \in Memory!Entry
                /\ inbox[i].peer \in Peers /\ inbox[i].kind \in {"heartbeat", "command"}
                /\ inbox[i].id \in 0 .. MaxSent /\ inbox[i].after \in 0 .. MaxSent
           /\ \A p \in Peers, d \in {"accepted", "received"}, k \in {"heartbeat", "command"} :
                link[p][d][k] \in 0 .. MaxSent
           /\ link \in [Peers -> [{"accepted", "received"} -> [Memory!Kinds -> 0 .. MaxSent]]]
<1>1. /\ inbox \in Seq(Memory!Entry) /\ Len(inbox) <= management_inbox_max
      /\ link \in [Peers -> [{"accepted", "received"} -> [Memory!Kinds -> 0 .. MaxSent]]]
  BY DEF MemoryInv, Memory!TypeOK
<1>2. Len(inbox) \in Nat /\ DOMAIN inbox = 1 .. Len(inbox)
  BY <1>1
<1>3. \A i \in DOMAIN inbox : inbox[i] \in Memory!Entry
  BY <1>1
<1>4. \A i \in DOMAIN inbox :
        /\ inbox[i].peer \in Peers /\ inbox[i].kind \in {"heartbeat", "command"}
        /\ inbox[i].id \in 0 .. MaxSent /\ inbox[i].after \in 0 .. MaxSent
  BY <1>3 DEF Memory!Entry, Memory!Kinds
<1>5. \A p \in Peers, d \in {"accepted", "received"}, k \in {"heartbeat", "command"} :
        link[p][d][k] \in 0 .. MaxSent
  BY <1>1 DEF Memory!Kinds
<1> QED
  BY <1>1, <1>2, <1>3, <1>4, <1>5

\* A heartbeat takes the place of the one its Node has queued, or a message is
\* queued last; what is queued of the others stays where it is.
LEMMA MemorySends ==
    ASSUME MemoryInv, NEW p \in Peers, NEW kind \in Memory!Kinds, Memory!Send(p, kind)
    PROVE  MemoryInv'
<1> DEFINE accepted == link[p]["accepted"]
           m == [peer |-> p, kind |-> kind, id |-> accepted[kind] + 1,
                 after |-> accepted["command"]]
<1>1. /\ accepted[kind] < MaxSent /\ kind \in {"heartbeat", "command"}
      /\ Memory!Put(m)
      /\ link' = [link EXCEPT ![p]["accepted"][kind] = @ + 1]
      /\ UNCHANGED <<closed, hub, slots, latest, held>>
  BY DEF Memory!Send, Memory!Kinds
<1>2. /\ \A d \in {"accepted", "received"}, k \in {"heartbeat", "command"} :
           link'[p][d][k] = IF d = "accepted" /\ k = kind THEN link[p][d][k] + 1
                            ELSE link[p][d][k]
      /\ \A q \in Peers \ {p} : link'[q] = link[q]
      /\ link' \in [Peers -> [{"accepted", "received"} -> [Memory!Kinds -> 0 .. MaxSent]]]
  <2>1. accepted[kind] + 1 \in 0 .. MaxSent
    BY <1>1, InboxType, MemoryConstants
  <2> QED
    BY <1>1, <2>1, InboxType DEF Memory!Kinds
<1>3. /\ m \in Memory!Entry /\ m.peer = p /\ m.kind = kind
      /\ m.id = accepted[kind] + 1 /\ m.after = accepted["command"]
  <2>1. accepted[kind] + 1 \in 0 .. MaxSent /\ accepted["command"] \in 0 .. MaxSent
    BY <1>1, InboxType, MemoryConstants
  <2> QED
    BY <2>1 DEF Memory!Entry
<1>4. \A q \in Peers : Commands(q) /\ Beats(q)
  BY PeerByPeer DEF MemoryInv
<1> HIDE DEF m
<1>5. CASE Memory!Replaced(m) # {}
  <2>1. PICK at \in DOMAIN inbox :
          /\ kind = "heartbeat" /\ inbox[at].kind = "heartbeat" /\ inbox[at].peer = p
    BY <1>3, <1>5 DEF Memory!Replaced
  <2>2. Memory!Replaced(m) = {at}
    BY <1>3, <1>4, <2>1 DEF Memory!Replaced, Beats, IsFrom
  <2>3. inbox' = [i \in DOMAIN inbox |-> IF i = at THEN m ELSE inbox[i]]
    BY <1>1, <1>5, <2>2 DEF Memory!Put
  <2>4. /\ inbox' \in Seq(Memory!Entry) /\ Len(inbox') = Len(inbox)
        /\ DOMAIN inbox' = DOMAIN inbox
        /\ inbox'[at] = m /\ \A i \in DOMAIN inbox \ {at} : inbox'[i] = inbox[i]
    BY <1>3, <2>3, InboxType
  <2>5. \A i \in DOMAIN inbox : /\ inbox'[i].peer = inbox[i].peer
                                /\ inbox'[i].kind = inbox[i].kind
                                /\ i # at => inbox'[i] = inbox[i]
    BY <1>3, <2>1, <2>4
  <2>6. ASSUME NEW q \in Peers PROVE Commands(q)' /\ Beats(q)'
    <3>1. /\ link'[q]["accepted"]["command"] = link[q]["accepted"]["command"]
          /\ link'[q]["received"]["command"] = link[q]["received"]["command"]
          /\ link'[q]["received"]["heartbeat"] = link[q]["received"]["heartbeat"]
          /\ q # p => link'[q]["accepted"]["heartbeat"] = link[q]["accepted"]["heartbeat"]
      BY <1>2, <2>1
    <3>2. Commands(q)'
      <4>1. \A i \in DOMAIN inbox : IsFrom(q, "command", i) => i # at
        BY <2>1 DEF IsFrom
      <4>2. \A i \in DOMAIN inbox' : IsFrom(q, "command", i)' => i # at
        BY <1>3, <2>1, <2>4 DEF IsFrom
      <4> QED
        BY <1>4, <2>4, <3>1, <4>1, <4>2, CommandsStay
    <3>3. CASE q # p
      <4>1. \A i \in DOMAIN inbox : IsFrom(q, "heartbeat", i) => i # at
        BY <2>1, <3>3 DEF IsFrom
      <4>2. \A i \in DOMAIN inbox' : IsFrom(q, "heartbeat", i)' => i # at
        BY <1>3, <2>4, <3>3 DEF IsFrom
      <4>3. Beats(q)'
        BY <1>4, <2>4, <3>1, <3>3, <4>1, <4>2, BeatsStay
      <4> QED
        BY <3>2, <4>3
    <3>4. CASE q = p
      <4>1. IsFrom(p, "heartbeat", at) /\ IsFrom(p, "heartbeat", at)'
        BY <1>3, <2>1, <2>4 DEF IsFrom
      <4>2. \A i \in DOMAIN inbox' : IsFrom(p, "heartbeat", i)' => i = at
        BY <1>4, <2>4, <2>5, <4>1 DEF IsFrom, Beats
      <4>3. inbox'[at].id = link'[p]["accepted"]["heartbeat"]
        BY <1>2, <1>3, <2>1, <2>4
      <4>4. Beats(p)'
        BY <2>4, <4>1, <4>2, <4>3 DEF Beats
      <4> QED
        BY <3>2, <3>4, <4>4
    <3> QED
      BY <3>3, <3>4
  <2>7. Memory!NoStaleHeartbeat'
    <3>1. \A q \in Peers : link'[q]["received"]["command"] = link[q]["received"]["command"]
      BY <1>2, <2>1
    <3>2. ASSUME NEW i \in DOMAIN inbox', inbox'[i].kind = "heartbeat"
          PROVE  /\ link'[inbox'[i].peer]["received"]["command"] <= inbox'[i].after
                 /\ \A j \in 1 .. i - 1 :
                      inbox'[j].peer = inbox'[i].peer /\ inbox'[j].kind = "command"
                        => inbox'[j].id <= inbox'[i].after
      <4>1. CASE i = at
        <5>1. inbox'[i].peer = p /\ inbox'[i].after = accepted["command"]
          BY <1>3, <2>4, <4>1
        <5>2. \A j \in 1 .. i - 1 : j \in DOMAIN inbox /\ j # at
          BY <2>4, <4>1, InboxType
        <5> QED
          <6>1. /\ link[p]["received"]["command"] <= accepted["command"]
                /\ \A j \in DOMAIN inbox : IsFrom(p, "command", j) =>
                     inbox[j].id \in Nat /\ inbox[j].id <= accepted["command"]
            BY <1>4, InboxType DEF Commands, Waiting
          <6>2. \A j \in 1 .. i - 1 : inbox'[j] = inbox[j]
            BY <2>5, <5>2
          <6> QED
            BY <3>1, <5>1, <5>2, <6>1, <6>2 DEF IsFrom
      <4>2. CASE i # at
        <5>1. inbox'[i] = inbox[i] /\ inbox[i].peer \in Peers
          BY <2>4, <2>5, <4>2, InboxType
        <5>2. \A j \in 1 .. i - 1 : j \in DOMAIN inbox
          BY <2>4, InboxType
        <5> QED
          BY <2>1, <2>4, <2>5, <3>1, <3>2, <5>1, <5>2 DEF MemoryInv, Memory!NoStaleHeartbeat
      <4> QED
        BY <4>1, <4>2
    <3> QED
      BY <3>2 DEF Memory!NoStaleHeartbeat
  <2> QED
    BY <1>1, <1>2, <2>4, <2>6, <2>7, PeerByPeer, InboxType
    DEF MemoryInv, Memory!TypeOK, NewestOpen
<1>6. CASE Memory!Replaced(m) = {}
  <2>1. Len(inbox) < management_inbox_max /\ inbox' = Append(inbox, m)
    BY <1>1, <1>6 DEF Memory!Put
  <2>2. /\ inbox' \in Seq(Memory!Entry) /\ Len(inbox') = Len(inbox) + 1
        /\ DOMAIN inbox' = 1 .. Len(inbox) + 1
        /\ inbox'[Len(inbox) + 1] = m
        /\ \A i \in DOMAIN inbox : i \in DOMAIN inbox' /\ inbox'[i] = inbox[i]
    BY <1>3, <2>1, InboxType
  <2>3. \A i \in DOMAIN inbox' : i \in DOMAIN inbox \/ i = Len(inbox) + 1
    BY <2>2, InboxType
  <2>4. Len(inbox) + 1 \in DOMAIN inbox' /\ Len(inbox) + 1 \notin DOMAIN inbox
    BY <2>2, InboxType
  <2>5. kind = "heartbeat" =>
          \A i \in DOMAIN inbox : ~(inbox[i].peer = p /\ inbox[i].kind = "heartbeat")
    BY <1>3, <1>6 DEF Memory!Replaced
  <2>6. ASSUME NEW q \in Peers PROVE Commands(q)' /\ Beats(q)'
    <3>1. ASSUME NEW k \in {"heartbeat", "command"}, ~(q = p /\ k = kind)
          PROVE  /\ \A i \in DOMAIN inbox : IsFrom(q, k, i) =>
                      i \in DOMAIN inbox' /\ inbox'[i] = inbox[i]
                 /\ \A i \in DOMAIN inbox' : IsFrom(q, k, i)' =>
                      i \in DOMAIN inbox /\ inbox'[i] = inbox[i]
                 /\ link'[q]["received"][k] = link[q]["received"][k]
                 /\ link'[q]["accepted"][k] = link[q]["accepted"][k]
      <4>1. \A i \in DOMAIN inbox' : IsFrom(q, k, i)' => i # Len(inbox) + 1
        BY <1>3, <2>2, <3>1 DEF IsFrom
      <4>2. /\ link'[q]["received"][k] = link[q]["received"][k]
            /\ link'[q]["accepted"][k] = link[q]["accepted"][k]
        BY <1>2, <3>1
      <4> QED
        BY <2>2, <2>3, <4>1, <4>2
    <3>2. ASSUME ~(q = p /\ kind = "command") PROVE Commands(q)'
      BY <1>4, <3>1, <3>2, CommandsStay
    <3>3. ASSUME ~(q = p /\ kind = "heartbeat") PROVE Beats(q)'
      BY <1>4, <3>1, <3>3, BeatsStay
    <3>4. ASSUME q = p, kind = "command" PROVE Commands(q)'
      <4>0. PICK n \in Nat : n = Len(inbox) + 1
        BY InboxType
      <4>1. /\ link'[p]["accepted"]["command"] = link[p]["accepted"]["command"] + 1
            /\ link'[p]["received"]["command"] = link[p]["received"]["command"]
            /\ link[p]["accepted"]["command"] \in Nat /\ link[p]["received"]["command"] \in Nat
            /\ link[p]["received"]["command"] <= link[p]["accepted"]["command"]
        BY <1>2, <1>4, <3>4, InboxType DEF Commands
      <4>2. /\ IsFrom(p, "command", n)' /\ n \in DOMAIN inbox'
            /\ inbox'[n].id = link[p]["accepted"]["command"] + 1
        <5>1. inbox'[n] = m /\ n \in DOMAIN inbox'
          BY <2>2, <2>4, <4>0
        <5> QED
          BY <1>3, <3>4, <5>1 DEF IsFrom
      <4>3. Waiting(p)' = Waiting(p) \cup {link[p]["accepted"]["command"] + 1}
        BY <4>1 DEF Waiting
      <4>4. \A i \in DOMAIN inbox :
              /\ i \in DOMAIN inbox' /\ inbox'[i] = inbox[i] /\ i < n
              /\ IsFrom(p, "command", i)' <=> IsFrom(p, "command", i)
        BY <2>2, <4>0, InboxType DEF IsFrom
      <4>5. \A i \in DOMAIN inbox' : i \in DOMAIN inbox \/ i = n
        BY <2>3, <4>0
      <4>6. \A i \in DOMAIN inbox : IsFrom(p, "command", i) =>
              inbox[i].id \in Waiting(p) /\ inbox[i].id < inbox'[n].id
        BY <1>4, <4>1, <4>2 DEF Commands, Waiting
      <4>7. \A i \in DOMAIN inbox' : IsFrom(p, "command", i)' => inbox'[i].id \in Waiting(p)'
        BY <4>2, <4>3, <4>4, <4>5, <4>6
      <4>8. ASSUME NEW id \in Waiting(p)'
            PROVE  \E i \in DOMAIN inbox' : IsFrom(p, "command", i)' /\ inbox'[i].id = id
        <5>1. CASE id \in Waiting(p)
          <6>1. PICK i \in DOMAIN inbox : IsFrom(p, "command", i) /\ inbox[i].id = id
            BY <1>4, <5>1 DEF Commands
          <6>2. i \in DOMAIN inbox' /\ IsFrom(p, "command", i)' /\ inbox'[i].id = id
            BY <4>4, <6>1
          <6> QED
            BY <6>2
        <5>2. CASE id = link[p]["accepted"]["command"] + 1
          BY <4>2, <5>2
        <5> QED
          BY <4>3, <5>1, <5>2
      <4>9. ASSUME NEW i \in DOMAIN inbox', NEW j \in DOMAIN inbox',
                   IsFrom(p, "command", i)', IsFrom(p, "command", j)', i < j
            PROVE  inbox'[i].id < inbox'[j].id
        <5>1. i \in DOMAIN inbox
          <6>1. i = n => j \in DOMAIN inbox \/ j = n
            BY <4>5
          <6>2. i \in Nat /\ j \in Nat /\ n \in Nat
            BY <2>2, InboxType, <4>0
          <6> QED
            BY <4>4, <4>5, <4>9, <6>1, <6>2
        <5>2. CASE j = n
          BY <4>4, <4>6, <4>9, <5>1, <5>2
        <5>3. CASE j \in DOMAIN inbox
          BY <1>4, <4>4, <4>9, <5>1, <5>3 DEF Commands
        <5> QED
          BY <4>5, <5>2, <5>3
      <4>10. Commands(p)'
        BY <4>1, <4>7, <4>8, <4>9 DEF Commands
      <4> QED
        BY <3>4, <4>10
    <3>5. ASSUME q = p, kind = "heartbeat" PROVE Beats(q)'
      <4>0. PICK n \in Nat : n = Len(inbox) + 1
        BY InboxType
      <4>1. \A i \in DOMAIN inbox' : IsFrom(p, "heartbeat", i)' => i = n
        BY <2>2, <2>3, <2>5, <3>5, <4>0 DEF IsFrom
      <4>2. /\ IsFrom(p, "heartbeat", n)' /\ n \in DOMAIN inbox'
            /\ inbox'[n].id = link'[p]["accepted"]["heartbeat"]
        <5>1. inbox'[n] = m /\ n \in DOMAIN inbox'
          BY <2>2, <2>4, <4>0
        <5>2. link'[p]["accepted"]["heartbeat"] = link[p]["accepted"]["heartbeat"] + 1
          BY <1>2, <3>5
        <5> QED
          BY <1>3, <3>5, <5>1, <5>2 DEF IsFrom
      <4>3. Beats(p)'
        BY <4>1, <4>2 DEF Beats
      <4> QED
        BY <3>5, <4>3
    <3> QED
      BY <1>1, <3>2, <3>3, <3>4, <3>5
  <2>7. Memory!NoStaleHeartbeat'
    <3>1. \A q \in Peers : link'[q]["received"]["command"] = link[q]["received"]["command"]
      BY <1>2
    <3>2. ASSUME NEW i \in DOMAIN inbox', inbox'[i].kind = "heartbeat"
          PROVE  /\ link'[inbox'[i].peer]["received"]["command"] <= inbox'[i].after
                 /\ \A j \in 1 .. i - 1 :
                      inbox'[j].peer = inbox'[i].peer /\ inbox'[j].kind = "command"
                        => inbox'[j].id <= inbox'[i].after
      <4>1. \A j \in 1 .. i - 1 : j \in DOMAIN inbox /\ inbox'[j] = inbox[j]
        <5>1. i \in 1 .. Len(inbox) + 1
          BY <2>2
        <5>2. \A j \in 1 .. i - 1 : j \in 1 .. Len(inbox)
          BY <5>1, InboxType
        <5> QED
          BY <2>2, <5>2, InboxType
      <4>2. CASE i = Len(inbox) + 1
        <5>1. inbox'[i].peer = p /\ inbox'[i].after = accepted["command"]
          BY <1>3, <2>2, <4>2
        <5>2. /\ link[p]["received"]["command"] <= accepted["command"]
              /\ \A j \in DOMAIN inbox : IsFrom(p, "command", j) =>
                   inbox[j].id \in Nat /\ inbox[j].id <= accepted["command"]
          BY <1>4, InboxType DEF Commands, Waiting
        <5> QED
          BY <3>1, <4>1, <5>1, <5>2 DEF IsFrom
      <4>3. CASE i \in DOMAIN inbox
        BY <2>2, <3>1, <3>2, <4>1, <4>3, InboxType DEF MemoryInv, Memory!NoStaleHeartbeat
      <4> QED
        BY <2>3, <4>2, <4>3
    <3> QED
      BY <3>2 DEF Memory!NoStaleHeartbeat
  <2> QED
    BY <1>1, <1>2, <2>1, <2>2, <2>6, <2>7, PeerByPeer, InboxType, MemoryConstants
    DEF MemoryInv, Memory!TypeOK, NewestOpen
<1> QED
  BY <1>5, <1>6

\* The head of the inbox is the next command of its Node, or its only heartbeat.
LEMMA MemoryReceives ==
    ASSUME MemoryInv, Memory!Receive
    PROVE  MemoryInv'
<1> DEFINE m == inbox[1]
<1>1. /\ 1 \in DOMAIN inbox /\ inbox' = Tail(inbox)
      /\ link' = [link EXCEPT ![m.peer]["received"][m.kind] = m.id]
      /\ UNCHANGED <<closed, hub, slots, latest, held>>
  <2>1. inbox # <<>> /\ Head(inbox) = inbox[1]
    BY InboxType DEF Memory!Receive
  <2>2. Len(inbox) # 0
    BY <2>1, InboxType
  <2>3. 1 \in DOMAIN inbox
    BY <2>2, InboxType
  <2> QED
    BY <2>1, <2>3 DEF Memory!Receive
<1>2. /\ m.peer \in Peers /\ m.kind \in {"heartbeat", "command"}
      /\ m.id \in 0 .. MaxSent /\ m.after \in 0 .. MaxSent
  BY <1>1, InboxType
<1> HIDE DEF m
<1>3. /\ \A d \in {"accepted", "received"}, k \in {"heartbeat", "command"} :
           link'[m.peer][d][k] = IF d = "received" /\ k = m.kind THEN m.id
                                 ELSE link[m.peer][d][k]
      /\ \A q \in Peers \ {m.peer} : link'[q] = link[q]
      /\ link' \in [Peers -> [{"accepted", "received"} -> [Memory!Kinds -> 0 .. MaxSent]]]
  BY <1>1, <1>2, InboxType DEF Memory!Kinds
<1>4. /\ inbox' \in Seq(Memory!Entry) /\ Len(inbox') = Len(inbox) - 1
      /\ DOMAIN inbox' = 1 .. Len(inbox) - 1
      /\ \A i \in DOMAIN inbox' : i + 1 \in DOMAIN inbox /\ inbox'[i] = inbox[i + 1]
  BY <1>1, InboxType
<1>5. /\ \A i \in DOMAIN inbox : i \in Nat /\ (i # 1 => i - 1 \in DOMAIN inbox')
      /\ \A i \in DOMAIN inbox' : i \in Nat
      /\ \A i \in DOMAIN inbox : i # 1 => inbox'[i - 1] = inbox[i]
  BY <1>4, InboxType
<1>6. \A q \in Peers : Commands(q) /\ Beats(q)
  BY PeerByPeer DEF MemoryInv
<1>7. m.kind = "command" => m.id = link[m.peer]["received"]["command"] + 1
  <2> SUFFICES ASSUME m.kind = "command" PROVE m.id = link[m.peer]["received"]["command"] + 1
    OBVIOUS
  <2> DEFINE a == link[m.peer]["accepted"]["command"]
             r == link[m.peer]["received"]["command"]
  <2>1. a \in Nat /\ r \in Nat /\ m.id \in r + 1 .. a
    BY <1>1, <1>2, <1>6, InboxType DEF Commands, IsFrom, Waiting, m
  <2>2. PICK i \in DOMAIN inbox :
          inbox[i].peer = m.peer /\ inbox[i].kind = "command" /\ inbox[i].id = r + 1
    BY <1>2, <1>6, <2>1 DEF Commands, IsFrom, Waiting
  <2>3. i # 1 => m.id < r + 1
    <3> SUFFICES ASSUME i # 1 PROVE m.id < r + 1
      OBVIOUS
    <3>1. IsFrom(m.peer, "command", 1) /\ IsFrom(m.peer, "command", i) /\ inbox[1] = m
      BY <2>2 DEF IsFrom, m
    <3>2. 1 < i
      BY <1>5
    <3> QED
      BY <1>1, <1>2, <1>6, <2>2, <3>1, <3>2 DEF Commands
  <2> QED
    BY <2>1, <2>2, <2>3 DEF m
<1>8. ASSUME NEW q \in Peers PROVE Commands(q)'
  <2>1. CASE ~(q = m.peer /\ m.kind = "command")
    <3>1. /\ link'[q]["accepted"]["command"] = link[q]["accepted"]["command"]
          /\ link'[q]["received"]["command"] = link[q]["received"]["command"]
      BY <1>2, <1>3, <2>1
    <3> QED
      <4>1. Waiting(q)' = Waiting(q)
        BY <3>1 DEF Waiting
      <4>2. \A i \in DOMAIN inbox' :
              /\ i + 1 \in DOMAIN inbox /\ inbox'[i] = inbox[i + 1]
              /\ IsFrom(q, "command", i)' => IsFrom(q, "command", i + 1)
        BY <1>4 DEF IsFrom
      <4>3. \A i \in DOMAIN inbox : IsFrom(q, "command", i) =>
              /\ i - 1 \in DOMAIN inbox' /\ inbox'[i - 1] = inbox[i]
              /\ inbox'[i - 1].peer = q /\ inbox'[i - 1].kind = "command"
        BY <1>5, <2>1 DEF IsFrom, m
      <4>4. Commands(q)
        BY <1>6
      <4>5. \A i \in DOMAIN inbox' : IsFrom(q, "command", i)' => inbox'[i].id \in Waiting(q)
        BY <4>2, <4>4 DEF Commands
      <4>6. ASSUME NEW id \in Waiting(q)
            PROVE  \E i \in DOMAIN inbox' :
                     inbox'[i].peer = q /\ inbox'[i].kind = "command" /\ inbox'[i].id = id
        BY <4>3, <4>4 DEF Commands
      <4>7. \A i, j \in DOMAIN inbox' :
              IsFrom(q, "command", i)' /\ IsFrom(q, "command", j)' /\ i < j
                => inbox'[i].id < inbox'[j].id
        <5>1. \A i, j \in DOMAIN inbox' : i < j => i + 1 < j + 1
          BY <1>5
        <5> QED
          BY <4>2, <4>4, <5>1 DEF Commands
      <4> QED
        BY <3>1, <4>1, <4>4, <4>5, <4>6, <4>7 DEF Commands, IsFrom
  <2>2. CASE q = m.peer /\ m.kind = "command"
    <3>1. /\ link'[q]["accepted"]["command"] = link[q]["accepted"]["command"]
          /\ link'[q]["received"]["command"] = m.id
          /\ m.id = link[q]["received"]["command"] + 1
          /\ link[q]["received"]["command"] \in Nat /\ link[q]["accepted"]["command"] \in Nat
      BY <1>2, <1>3, <1>7, <2>2, InboxType
    <3>2. m.id \in link[q]["received"]["command"] + 1 .. link[q]["accepted"]["command"]
      BY <1>1, <1>6, <2>2 DEF Commands, IsFrom, Waiting, m
    <3>3. ASSUME NEW i \in DOMAIN inbox', inbox'[i].peer = q, inbox'[i].kind = "command"
          PROVE  inbox'[i].id \in m.id + 1 .. link[q]["accepted"]["command"]
      <4>1. i + 1 \in DOMAIN inbox /\ inbox'[i] = inbox[i + 1] /\ 1 < i + 1
        BY <1>4, <1>5
      <4>2. m.id < inbox[i + 1].id
        BY <1>1, <1>6, <2>2, <3>3, <4>1 DEF Commands, IsFrom, Waiting, m
      <4>3. inbox[i + 1].id \in link[q]["received"]["command"] + 1
                                 .. link[q]["accepted"]["command"]
        BY <1>6, <3>3, <4>1 DEF Commands, IsFrom, Waiting
      <4> QED
        BY <3>1, <4>1, <4>2, <4>3
    <3>4. ASSUME NEW id \in m.id + 1 .. link[q]["accepted"]["command"]
          PROVE  \E i \in DOMAIN inbox' :
                   inbox'[i].peer = q /\ inbox'[i].kind = "command" /\ inbox'[i].id = id
      <4>1. id \in link[q]["received"]["command"] + 1 .. link[q]["accepted"]["command"]
        BY <3>1
      <4>2. PICK i \in DOMAIN inbox :
              inbox[i].peer = q /\ inbox[i].kind = "command" /\ inbox[i].id = id
        BY <1>6, <4>1 DEF Commands, IsFrom, Waiting
      <4>3. i # 1
        BY <3>1, <4>2 DEF m
      <4> QED
        BY <1>5, <4>2, <4>3
    <3>5. \A i, j \in DOMAIN inbox' :
            /\ inbox'[i].peer = q /\ inbox'[i].kind = "command"
            /\ inbox'[j].peer = q /\ inbox'[j].kind = "command" /\ i < j
            => inbox'[i].id < inbox'[j].id
      BY <1>4, <1>5, <1>6 DEF Commands, IsFrom, Waiting
    <3> QED
      BY <3>1, <3>2, <3>3, <3>4, <3>5 DEF Commands, IsFrom, Waiting
  <2> QED
    BY <2>1, <2>2
<1>9. ASSUME NEW q \in Peers PROVE Beats(q)'
  <2>1. link'[q]["accepted"]["heartbeat"] = link[q]["accepted"]["heartbeat"]
    BY <1>2, <1>3
  <2>2. \A i, j \in DOMAIN inbox' :
          /\ inbox'[i].peer = q /\ inbox'[i].kind = "heartbeat"
          /\ inbox'[j].peer = q /\ inbox'[j].kind = "heartbeat"
          => i = j
    BY <1>4, <1>5, <1>6 DEF Beats, IsFrom
  <2>3. \A i \in DOMAIN inbox' : inbox'[i].peer = q /\ inbox'[i].kind = "heartbeat"
          => inbox'[i].id = link'[q]["accepted"]["heartbeat"]
    BY <1>4, <1>6, <2>1 DEF Beats, IsFrom
  <2>4. ASSUME \A i \in DOMAIN inbox' : ~(inbox'[i].peer = q /\ inbox'[i].kind = "heartbeat")
        PROVE  link'[q]["received"]["heartbeat"] = link'[q]["accepted"]["heartbeat"]
    <3>1. CASE q = m.peer /\ m.kind = "heartbeat"
      BY <1>1, <1>3, <1>6, <2>1, <3>1 DEF Beats, IsFrom, m
    <3>2. CASE ~(q = m.peer /\ m.kind = "heartbeat")
      <4>1. link'[q]["received"]["heartbeat"] = link[q]["received"]["heartbeat"]
        BY <1>2, <1>3, <3>2
      <4>2. \A i \in DOMAIN inbox : ~(inbox[i].peer = q /\ inbox[i].kind = "heartbeat")
        BY <1>5, <2>4, <3>2 DEF m
      <4> QED
        BY <1>6, <2>1, <4>1, <4>2 DEF Beats, IsFrom
    <3> QED
      BY <3>1, <3>2
  <2> QED
    BY <2>2, <2>3, <2>4 DEF Beats, IsFrom
<1>10. Memory!NoStaleHeartbeat'
  <2> SUFFICES ASSUME NEW i \in DOMAIN inbox', inbox'[i].kind = "heartbeat"
               PROVE  /\ link'[inbox'[i].peer]["received"]["command"] <= inbox'[i].after
                      /\ \A j \in 1 .. i - 1 :
                           inbox'[j].peer = inbox'[i].peer /\ inbox'[j].kind = "command"
                             => inbox'[j].id <= inbox'[i].after
    BY DEF Memory!NoStaleHeartbeat
  <2>1. i + 1 \in DOMAIN inbox /\ inbox'[i] = inbox[i + 1] /\ i \in Nat /\ i # 0
    BY <1>4, <1>5
  <2>2. /\ link[inbox[i + 1].peer]["received"]["command"] <= inbox[i + 1].after
        /\ \A j \in 1 .. i + 1 - 1 :
             inbox[j].peer = inbox[i + 1].peer /\ inbox[j].kind = "command"
               => inbox[j].id <= inbox[i + 1].after
    BY <2>1 DEF MemoryInv, Memory!NoStaleHeartbeat
  <2>3. inbox[i + 1].peer \in Peers
    BY <2>1, InboxType
  <2>4. link'[inbox'[i].peer]["received"]["command"] <= inbox'[i].after
    <3>1. CASE m.peer = inbox[i + 1].peer /\ m.kind = "command"
      <4>1. m.id <= inbox[i + 1].after
        BY <2>1, <2>2, <3>1 DEF m
      <4> QED
        BY <1>2, <1>3, <2>1, <3>1, <4>1
    <3>2. CASE ~(m.peer = inbox[i + 1].peer /\ m.kind = "command")
      <4>1. link'[inbox[i + 1].peer]["received"]["command"]
              = link[inbox[i + 1].peer]["received"]["command"]
        BY <1>2, <1>3, <2>3, <3>2
      <4> QED
        BY <2>1, <2>2, <4>1
    <3> QED
      BY <3>1, <3>2
  <2>5. ASSUME NEW j \in 1 .. i - 1,
               inbox'[j].peer = inbox'[i].peer, inbox'[j].kind = "command"
        PROVE  inbox'[j].id <= inbox'[i].after
    <3>1. j \in DOMAIN inbox' /\ j + 1 \in 1 .. i + 1 - 1
      BY <1>4, <2>1, InboxType
    <3>2. inbox'[j] = inbox[j + 1]
      BY <1>4, <3>1
    <3> QED
      BY <2>1, <2>2, <2>5, <3>1, <3>2
  <2> QED
    BY <2>4, <2>5
<1>11. Memory!TypeOK' /\ NewestOpen'
  <2>1. Len(inbox') <= management_inbox_max
    BY <1>1, <1>4, InboxType, MemoryConstants
  <2>2. Memory!TypeOK'
    BY <1>1, <1>3, <1>4, <2>1 DEF MemoryInv, Memory!TypeOK
  <2> QED
    BY <1>1, <2>2 DEF MemoryInv, NewestOpen
<1> QED
  BY <1>8, <1>9, <1>10, <1>11, PeerByPeer DEF MemoryInv

\* Every step of the in-process runtime keeps its invariant.
LEMMA MemoryStep == MemoryInv /\ Memory!Next => MemoryInv'
BY MemoryEnds, MemoryEmptied, MemorySends, MemoryReceives DEF Memory!Next

----------------------------------------------------------------------------
(* Closing ZeroMQ channels.                                                *)

\* What every close() relies on: an open socket is still tracked by its owner ...
Tracked == \A c \in Zmq!Channels : socket[c] = "open" => c \in owner.channels

\* ... the first close() of the receiver is through when it says so, and what is
\* decoded came from a socket ...
Drained ==
    /\ receiver.close_complete =>
         /\ receiver.close_requested
         /\ socket["receiver"] = "closed" /\ receiver.inflight_decodes = 0
    /\ socket["receiver"] = "none" => receiver.inflight_decodes = 0

\* ... nothing is left when the context is terminated ...
NothingLeft == owner.terminated => owner.closed /\ owner.channels = {}

\* ... the thread of the first close() has closed the socket when it waits for the
\* decode, and a thread that closes the owner has all that is left of it to do.
Closer(t) ==
    /\ thread[t].at \in {"first", "draining", "second"} => receiver.close_requested
    /\ thread[t].at = "draining" => socket["receiver"] = "closed"
    /\ thread[t].role = "owner" => owner.closed /\ owner.channels \subseteq thread[t].todo

CloserType ==
    [at : {"idle", "closing", "first", "draining", "second", "following", "done"},
     todo : SUBSET Zmq!Channels, role : {"none", "user", "runtime", "owner"}]

ZmqInv ==
    /\ Zmq!TypeOK
    /\ Tracked /\ Drained /\ NothingLeft
    /\ \A t \in Threads : Closer(t)
    /\ Zmq!ClosedMeansReleased

\* Each closing thread is somewhere in its close().
LEMMA ThreadType == ZmqInv => thread \in [Threads -> CloserType]
BY DEF ZmqInv, Zmq!TypeOK, CloserType

\* The ZeroMQ runtime starts with nothing to release.
LEMMA ZmqInit == Init => ZmqInv
<1> SUFFICES ASSUME Init PROVE ZmqInv
  OBVIOUS
<1>1. Zmq!Init
  BY DEF Init
<1> QED
  BY <1>1, TeleoperationAssumption
  DEF ZmqInv, Tracked, Drained, NothingLeft, Closer, Zmq!TypeOK, Zmq!Init, Zmq!Channels,
      Zmq!Idle, Zmq!ClosedMeansReleased

\* Its invariant is about its own variables only.
LEMMA ZmqStutter == ZmqInv /\ UNCHANGED zmqVars => ZmqInv'
BY DEF zmqVars, ZmqInv, Tracked, Drained, NothingLeft, Closer, Zmq!TypeOK,
       Zmq!ClosedMeansReleased, Zmq!Channels

\* A channel is opened: the owner tracks it, and is not closed.
LEMMA ZmqOpens ==
    ASSUME ZmqInv, NEW c \in Zmq!Channels, Zmq!OpenChannel(c)
    PROVE  ZmqInv'
<1> USE TeleoperationAssumption DEF ZmqInv, Zmq!Channels, Zmq!OpenChannel, Zmq!Admit
<1>1. Zmq!TypeOK'
  <2>1. /\ runtime' \in [closed : BOOLEAN, channels : SUBSET Zmq!Channels]
        /\ owner' \in [closed : BOOLEAN, complete : BOOLEAN, channels : SUBSET Zmq!Channels,
                      terminated : BOOLEAN]
        /\ socket' \in [Zmq!Channels -> {"none", "open", "closed"}]
        /\ receiver' \in [close_requested : BOOLEAN, close_complete : BOOLEAN,
                         inflight_decodes : 0 .. 1]
        /\ reads' \in 0 .. MaxReads
    BY DEF Zmq!TypeOK
  <2>2. thread' \in [Threads -> CloserType]
    BY ThreadType DEF CloserType
  <2> QED
    BY <2>1, <2>2 DEF Zmq!TypeOK, CloserType
<1>2. Tracked' /\ Drained' /\ NothingLeft'
  BY DEF Zmq!TypeOK, Tracked, Drained, NothingLeft, Closer
<1>3. ASSUME NEW u \in Threads PROVE Closer(u)'
  <2>1. Closer(u)
    OBVIOUS
  <2> QED
    BY <2>1 DEF Zmq!TypeOK, Closer
<1>4. Zmq!ClosedMeansReleased'
  BY DEF Zmq!TypeOK, Zmq!ClosedMeansReleased, Tracked, Drained, NothingLeft, Closer
<1> QED
  BY <1>1, <1>2, <1>3, <1>4

\* A packet is taken only before the receiver is asked to close.
LEMMA ZmqTakes ==
    ASSUME ZmqInv, Zmq!Take
    PROVE  ZmqInv'
<1> USE TeleoperationAssumption DEF ZmqInv, Zmq!Channels, Zmq!Take
<1>1. Zmq!TypeOK'
  <2>1. /\ runtime' \in [closed : BOOLEAN, channels : SUBSET Zmq!Channels]
        /\ owner' \in [closed : BOOLEAN, complete : BOOLEAN, channels : SUBSET Zmq!Channels,
                      terminated : BOOLEAN]
        /\ socket' \in [Zmq!Channels -> {"none", "open", "closed"}]
        /\ receiver' \in [close_requested : BOOLEAN, close_complete : BOOLEAN,
                         inflight_decodes : 0 .. 1]
        /\ reads' \in 0 .. MaxReads
    BY DEF Zmq!TypeOK
  <2>2. thread' \in [Threads -> CloserType]
    BY ThreadType DEF CloserType
  <2> QED
    BY <2>1, <2>2 DEF Zmq!TypeOK, CloserType
<1>2. Tracked' /\ Drained' /\ NothingLeft'
  BY DEF Zmq!TypeOK, Tracked, Drained, NothingLeft, Closer
<1>3. ASSUME NEW u \in Threads PROVE Closer(u)'
  <2>1. Closer(u)
    OBVIOUS
  <2> QED
    BY <2>1 DEF Zmq!TypeOK, Closer
<1>4. Zmq!ClosedMeansReleased'
  BY DEF Zmq!TypeOK, Zmq!ClosedMeansReleased, Tracked, Drained, NothingLeft, Closer
<1> QED
  BY <1>1, <1>2, <1>3, <1>4

\* A decode ends.
LEMMA ZmqDecodes ==
    ASSUME ZmqInv, Zmq!Decoded
    PROVE  ZmqInv'
<1> USE TeleoperationAssumption DEF ZmqInv, Zmq!Channels, Zmq!Decoded
<1>1. Zmq!TypeOK'
  <2>1. /\ runtime' \in [closed : BOOLEAN, channels : SUBSET Zmq!Channels]
        /\ owner' \in [closed : BOOLEAN, complete : BOOLEAN, channels : SUBSET Zmq!Channels,
                      terminated : BOOLEAN]
        /\ socket' \in [Zmq!Channels -> {"none", "open", "closed"}]
        /\ receiver' \in [close_requested : BOOLEAN, close_complete : BOOLEAN,
                         inflight_decodes : 0 .. 1]
        /\ reads' \in 0 .. MaxReads
    BY DEF Zmq!TypeOK
  <2>2. thread' \in [Threads -> CloserType]
    BY ThreadType DEF CloserType
  <2> QED
    BY <2>1, <2>2 DEF Zmq!TypeOK, CloserType
<1>2. Tracked' /\ Drained' /\ NothingLeft'
  BY DEF Zmq!TypeOK, Tracked, Drained, NothingLeft, Closer
<1>3. ASSUME NEW u \in Threads PROVE Closer(u)'
  <2>1. Closer(u)
    OBVIOUS
  <2> QED
    BY <2>1 DEF Zmq!TypeOK, Closer
<1>4. Zmq!ClosedMeansReleased'
  BY DEF Zmq!TypeOK, Zmq!ClosedMeansReleased, Tracked, Drained, NothingLeft, Closer
<1> QED
  BY <1>1, <1>2, <1>3, <1>4

\* A channel without a decoding thread is closed in one step.
LEMMA ZmqClosesOther ==
    ASSUME ZmqInv, NEW t \in Threads, NEW c \in Others, Zmq!CloseOther(t, c)
    PROVE  ZmqInv'
<1> USE TeleoperationAssumption DEF ZmqInv, Zmq!Channels, Zmq!CloseOther, Zmq!Forget
<1>1. Zmq!TypeOK'
  <2>1. /\ runtime' \in [closed : BOOLEAN, channels : SUBSET Zmq!Channels]
        /\ owner' \in [closed : BOOLEAN, complete : BOOLEAN, channels : SUBSET Zmq!Channels,
                      terminated : BOOLEAN]
        /\ socket' \in [Zmq!Channels -> {"none", "open", "closed"}]
        /\ receiver' \in [close_requested : BOOLEAN, close_complete : BOOLEAN,
                         inflight_decodes : 0 .. 1]
        /\ reads' \in 0 .. MaxReads
    BY DEF Zmq!TypeOK
  <2>2. thread' \in [Threads -> CloserType]
    BY ThreadType DEF CloserType
  <2> QED
    BY <2>1, <2>2 DEF Zmq!TypeOK, CloserType
<1>2. Tracked' /\ Drained' /\ NothingLeft'
  BY DEF Zmq!TypeOK, Tracked, Drained, NothingLeft, Closer
<1>3. ASSUME NEW u \in Threads PROVE Closer(u)'
  <2>1. Closer(u)
    OBVIOUS
  <2> QED
    BY <2>1 DEF Zmq!TypeOK, Closer
<1>4. Zmq!ClosedMeansReleased'
  BY DEF Zmq!TypeOK, Zmq!ClosedMeansReleased, Tracked, Drained, NothingLeft, Closer
<1> QED
  BY <1>1, <1>2, <1>3, <1>4

\* The receiver is asked to close.
LEMMA ZmqClosesReceiver ==
    ASSUME ZmqInv, NEW t \in Threads, Zmq!CloseReceiver(t)
    PROVE  ZmqInv'
<1> USE TeleoperationAssumption DEF ZmqInv, Zmq!Channels, Zmq!CloseReceiver
<1>1. Zmq!TypeOK'
  <2>1. /\ runtime' \in [closed : BOOLEAN, channels : SUBSET Zmq!Channels]
        /\ owner' \in [closed : BOOLEAN, complete : BOOLEAN, channels : SUBSET Zmq!Channels,
                      terminated : BOOLEAN]
        /\ socket' \in [Zmq!Channels -> {"none", "open", "closed"}]
        /\ receiver' \in [close_requested : BOOLEAN, close_complete : BOOLEAN,
                         inflight_decodes : 0 .. 1]
        /\ reads' \in 0 .. MaxReads
    BY DEF Zmq!TypeOK
  <2>2. thread' \in [Threads -> CloserType]
    BY ThreadType DEF CloserType
  <2> QED
    BY <2>1, <2>2 DEF Zmq!TypeOK, CloserType
<1>2. Tracked' /\ Drained' /\ NothingLeft'
  BY DEF Zmq!TypeOK, Tracked, Drained, NothingLeft, Closer
<1>3. ASSUME NEW u \in Threads PROVE Closer(u)'
  <2>1. Closer(u)
    OBVIOUS
  <2> QED
    BY <2>1 DEF Zmq!TypeOK, Closer
<1>4. Zmq!ClosedMeansReleased'
  BY DEF Zmq!TypeOK, Zmq!ClosedMeansReleased, Tracked, Drained, NothingLeft, Closer
<1> QED
  BY <1>1, <1>2, <1>3, <1>4

\* The first close() closes the socket.
LEMMA ZmqClosesSocket ==
    ASSUME ZmqInv, NEW t \in Threads, Zmq!CloseSocket(t)
    PROVE  ZmqInv'
<1> USE TeleoperationAssumption DEF ZmqInv, Zmq!Channels, Zmq!CloseSocket
<1>1. Zmq!TypeOK'
  <2>1. /\ runtime' \in [closed : BOOLEAN, channels : SUBSET Zmq!Channels]
        /\ owner' \in [closed : BOOLEAN, complete : BOOLEAN, channels : SUBSET Zmq!Channels,
                      terminated : BOOLEAN]
        /\ socket' \in [Zmq!Channels -> {"none", "open", "closed"}]
        /\ receiver' \in [close_requested : BOOLEAN, close_complete : BOOLEAN,
                         inflight_decodes : 0 .. 1]
        /\ reads' \in 0 .. MaxReads
    BY DEF Zmq!TypeOK
  <2>2. thread' \in [Threads -> CloserType]
    BY ThreadType DEF CloserType
  <2> QED
    BY <2>1, <2>2 DEF Zmq!TypeOK, CloserType
<1>2. Tracked' /\ Drained' /\ NothingLeft'
  BY DEF Zmq!TypeOK, Tracked, Drained, NothingLeft, Closer
<1>3. ASSUME NEW u \in Threads PROVE Closer(u)'
  <2>1. Closer(u)
    OBVIOUS
  <2> QED
    BY <2>1 DEF Zmq!TypeOK, Closer
<1>4. Zmq!ClosedMeansReleased'
  BY DEF Zmq!TypeOK, Zmq!ClosedMeansReleased, Tracked, Drained, NothingLeft, Closer
<1> QED
  BY <1>1, <1>2, <1>3, <1>4

\* The first close() returns once no decode is in flight.
LEMMA ZmqFirstReturns ==
    ASSUME ZmqInv, NEW t \in Threads, Zmq!FirstReturns(t)
    PROVE  ZmqInv'
<1> USE TeleoperationAssumption DEF ZmqInv, Zmq!Channels, Zmq!FirstReturns, Zmq!Forget
<1>1. Zmq!TypeOK'
  <2>1. /\ runtime' \in [closed : BOOLEAN, channels : SUBSET Zmq!Channels]
        /\ owner' \in [closed : BOOLEAN, complete : BOOLEAN, channels : SUBSET Zmq!Channels,
                      terminated : BOOLEAN]
        /\ socket' \in [Zmq!Channels -> {"none", "open", "closed"}]
        /\ receiver' \in [close_requested : BOOLEAN, close_complete : BOOLEAN,
                         inflight_decodes : 0 .. 1]
        /\ reads' \in 0 .. MaxReads
    BY DEF Zmq!TypeOK
  <2>2. thread' \in [Threads -> CloserType]
    BY ThreadType DEF CloserType
  <2> QED
    BY <2>1, <2>2 DEF Zmq!TypeOK, CloserType
<1>2. Tracked' /\ Drained' /\ NothingLeft'
  BY DEF Zmq!TypeOK, Tracked, Drained, NothingLeft, Closer
<1>3. ASSUME NEW u \in Threads PROVE Closer(u)'
  <2>1. Closer(u)
    OBVIOUS
  <2> QED
    BY <2>1 DEF Zmq!TypeOK, Closer
<1>4. Zmq!ClosedMeansReleased'
  BY DEF Zmq!TypeOK, Zmq!ClosedMeansReleased, Tracked, Drained, NothingLeft, Closer
<1> QED
  BY <1>1, <1>2, <1>3, <1>4

\* A later close() returns after the first.
LEMMA ZmqSecondReturns ==
    ASSUME ZmqInv, NEW t \in Threads, Zmq!SecondReturns(t)
    PROVE  ZmqInv'
<1> USE TeleoperationAssumption DEF ZmqInv, Zmq!Channels, Zmq!SecondReturns, Zmq!Forget
<1>1. Zmq!TypeOK'
  <2>1. /\ runtime' \in [closed : BOOLEAN, channels : SUBSET Zmq!Channels]
        /\ owner' \in [closed : BOOLEAN, complete : BOOLEAN, channels : SUBSET Zmq!Channels,
                      terminated : BOOLEAN]
        /\ socket' \in [Zmq!Channels -> {"none", "open", "closed"}]
        /\ receiver' \in [close_requested : BOOLEAN, close_complete : BOOLEAN,
                         inflight_decodes : 0 .. 1]
        /\ reads' \in 0 .. MaxReads
    BY DEF Zmq!TypeOK
  <2>2. thread' \in [Threads -> CloserType]
    BY ThreadType DEF CloserType
  <2> QED
    BY <2>1, <2>2 DEF Zmq!TypeOK, CloserType
<1>2. Tracked' /\ Drained' /\ NothingLeft'
  BY DEF Zmq!TypeOK, Tracked, Drained, NothingLeft, Closer
<1>3. ASSUME NEW u \in Threads PROVE Closer(u)'
  <2>1. Closer(u)
    OBVIOUS
  <2> QED
    BY <2>1 DEF Zmq!TypeOK, Closer
<1>4. Zmq!ClosedMeansReleased'
  BY DEF Zmq!TypeOK, Zmq!ClosedMeansReleased, Tracked, Drained, NothingLeft, Closer
<1> QED
  BY <1>1, <1>2, <1>3, <1>4

\* The owner is closed, or its closing is followed.
LEMMA ZmqOwnerCloses ==
    ASSUME ZmqInv, NEW t \in Threads, Zmq!OwnerCloses(t)
    PROVE  ZmqInv'
<1> USE TeleoperationAssumption DEF ZmqInv, Zmq!Channels, Zmq!OwnerCloses, Zmq!Idle
<1>1. Zmq!TypeOK'
  <2>1. /\ runtime' \in [closed : BOOLEAN, channels : SUBSET Zmq!Channels]
        /\ owner' \in [closed : BOOLEAN, complete : BOOLEAN, channels : SUBSET Zmq!Channels,
                      terminated : BOOLEAN]
        /\ socket' \in [Zmq!Channels -> {"none", "open", "closed"}]
        /\ receiver' \in [close_requested : BOOLEAN, close_complete : BOOLEAN,
                         inflight_decodes : 0 .. 1]
        /\ reads' \in 0 .. MaxReads
    <3>1. UNCHANGED owner \/ owner' = [owner EXCEPT !.closed = TRUE]
      OBVIOUS
    <3> QED
      BY <3>1 DEF Zmq!TypeOK
  <2>2. thread' \in [Threads -> CloserType]
    <3>1. owner.channels \in SUBSET Zmq!Channels
      BY DEF Zmq!TypeOK
    <3> QED
      BY <3>1, ThreadType DEF CloserType
  <2> QED
    BY <2>1, <2>2 DEF Zmq!TypeOK, CloserType
<1>2. Tracked' /\ Drained' /\ NothingLeft'
  BY DEF Zmq!TypeOK, Tracked, Drained, NothingLeft, Closer
<1>3. ASSUME NEW u \in Threads PROVE Closer(u)'
  <2>1. Closer(u)
    OBVIOUS
  <2> QED
    BY <2>1 DEF Zmq!TypeOK, Closer
<1>4. Zmq!ClosedMeansReleased'
  BY DEF Zmq!TypeOK, Zmq!ClosedMeansReleased, Tracked, Drained, NothingLeft, Closer
<1> QED
  BY <1>1, <1>2, <1>3, <1>4

\* term() returns.
LEMMA ZmqTerminates ==
    ASSUME ZmqInv, NEW t \in Threads, Zmq!Terminate(t)
    PROVE  ZmqInv'
<1> USE TeleoperationAssumption DEF ZmqInv, Zmq!Channels, Zmq!Terminate
<1>1. Zmq!TypeOK'
  <2>1. /\ runtime' \in [closed : BOOLEAN, channels : SUBSET Zmq!Channels]
        /\ owner' \in [closed : BOOLEAN, complete : BOOLEAN, channels : SUBSET Zmq!Channels,
                      terminated : BOOLEAN]
        /\ socket' \in [Zmq!Channels -> {"none", "open", "closed"}]
        /\ receiver' \in [close_requested : BOOLEAN, close_complete : BOOLEAN,
                         inflight_decodes : 0 .. 1]
        /\ reads' \in 0 .. MaxReads
    BY DEF Zmq!TypeOK
  <2>2. thread' \in [Threads -> CloserType]
    BY ThreadType DEF CloserType
  <2> QED
    BY <2>1, <2>2 DEF Zmq!TypeOK, CloserType
<1>2. Tracked' /\ Drained' /\ NothingLeft'
  BY DEF Zmq!TypeOK, Tracked, Drained, NothingLeft, Closer
<1>3. ASSUME NEW u \in Threads PROVE Closer(u)'
  <2>1. Closer(u)
    OBVIOUS
  <2> QED
    BY <2>1 DEF Zmq!TypeOK, Closer
<1>4. Zmq!ClosedMeansReleased'
  BY DEF Zmq!TypeOK, Zmq!ClosedMeansReleased, Tracked, Drained, NothingLeft, Closer
<1> QED
  BY <1>1, <1>2, <1>3, <1>4

\* Any other close() returns.
LEMMA ZmqReturns ==
    ASSUME ZmqInv, NEW t \in Threads, Zmq!Returns(t)
    PROVE  ZmqInv'
<1> USE TeleoperationAssumption DEF ZmqInv, Zmq!Channels, Zmq!Returns
<1>1. Zmq!TypeOK'
  <2>1. /\ runtime' \in [closed : BOOLEAN, channels : SUBSET Zmq!Channels]
        /\ owner' \in [closed : BOOLEAN, complete : BOOLEAN, channels : SUBSET Zmq!Channels,
                      terminated : BOOLEAN]
        /\ socket' \in [Zmq!Channels -> {"none", "open", "closed"}]
        /\ receiver' \in [close_requested : BOOLEAN, close_complete : BOOLEAN,
                         inflight_decodes : 0 .. 1]
        /\ reads' \in 0 .. MaxReads
    BY DEF Zmq!TypeOK
  <2>2. thread' \in [Threads -> CloserType]
    BY ThreadType DEF CloserType
  <2> QED
    BY <2>1, <2>2 DEF Zmq!TypeOK, CloserType
<1>2. Tracked' /\ Drained' /\ NothingLeft'
  BY DEF Zmq!TypeOK, Tracked, Drained, NothingLeft, Closer
<1>3. ASSUME NEW u \in Threads PROVE Closer(u)'
  <2>1. Closer(u)
    OBVIOUS
  <2> QED
    BY <2>1 DEF Zmq!TypeOK, Closer
<1>4. Zmq!ClosedMeansReleased'
  BY DEF Zmq!TypeOK, Zmq!ClosedMeansReleased, Tracked, Drained, NothingLeft, Closer
<1> QED
  BY <1>1, <1>2, <1>3, <1>4

\* A thread closes a channel it uses.
LEMMA ZmqUserCloses ==
    ASSUME ZmqInv, NEW t \in Threads, Zmq!UserCloses(t)
    PROVE  ZmqInv'
<1> USE TeleoperationAssumption DEF ZmqInv, Zmq!Channels, Zmq!UserCloses
<1>1. Zmq!TypeOK'
  <2>1. /\ runtime' \in [closed : BOOLEAN, channels : SUBSET Zmq!Channels]
        /\ owner' \in [closed : BOOLEAN, complete : BOOLEAN, channels : SUBSET Zmq!Channels,
                      terminated : BOOLEAN]
        /\ socket' \in [Zmq!Channels -> {"none", "open", "closed"}]
        /\ receiver' \in [close_requested : BOOLEAN, close_complete : BOOLEAN,
                         inflight_decodes : 0 .. 1]
        /\ reads' \in 0 .. MaxReads
    BY DEF Zmq!TypeOK
  <2>2. thread' \in [Threads -> CloserType]
    BY ThreadType DEF CloserType
  <2> QED
    BY <2>1, <2>2 DEF Zmq!TypeOK, CloserType
<1>2. Tracked' /\ Drained' /\ NothingLeft'
  BY DEF Zmq!TypeOK, Tracked, Drained, NothingLeft, Closer
<1>3. ASSUME NEW u \in Threads PROVE Closer(u)'
  <2>1. Closer(u)
    OBVIOUS
  <2> QED
    BY <2>1 DEF Zmq!TypeOK, Closer
<1>4. Zmq!ClosedMeansReleased'
  BY DEF Zmq!TypeOK, Zmq!ClosedMeansReleased, Tracked, Drained, NothingLeft, Closer
<1> QED
  BY <1>1, <1>2, <1>3, <1>4

\* The runtime is closed.
LEMMA ZmqRuntimeCloses ==
    ASSUME ZmqInv, NEW t \in Threads, Zmq!RuntimeCloses(t)
    PROVE  ZmqInv'
<1> USE TeleoperationAssumption DEF ZmqInv, Zmq!Channels, Zmq!RuntimeCloses
<1>1. Zmq!TypeOK'
  <2>1. /\ runtime' \in [closed : BOOLEAN, channels : SUBSET Zmq!Channels]
        /\ owner' \in [closed : BOOLEAN, complete : BOOLEAN, channels : SUBSET Zmq!Channels,
                      terminated : BOOLEAN]
        /\ socket' \in [Zmq!Channels -> {"none", "open", "closed"}]
        /\ receiver' \in [close_requested : BOOLEAN, close_complete : BOOLEAN,
                         inflight_decodes : 0 .. 1]
        /\ reads' \in 0 .. MaxReads
    BY DEF Zmq!TypeOK
  <2>2. thread' \in [Threads -> CloserType]
    <3>1. runtime.channels \in SUBSET Zmq!Channels
      BY DEF Zmq!TypeOK
    <3> QED
      BY <3>1, ThreadType DEF CloserType
  <2> QED
    BY <2>1, <2>2 DEF Zmq!TypeOK, CloserType
<1>2. Tracked' /\ Drained' /\ NothingLeft'
  BY DEF Zmq!TypeOK, Tracked, Drained, NothingLeft, Closer
<1>3. ASSUME NEW u \in Threads PROVE Closer(u)'
  <2>1. Closer(u)
    OBVIOUS
  <2> QED
    BY <2>1 DEF Zmq!TypeOK, Closer
<1>4. Zmq!ClosedMeansReleased'
  BY DEF Zmq!TypeOK, Zmq!ClosedMeansReleased, Tracked, Drained, NothingLeft, Closer
<1> QED
  BY <1>1, <1>2, <1>3, <1>4

\* Every step of the ZeroMQ channels keeps their invariant.
LEMMA ZmqStep == ZmqInv /\ Zmq!Next => ZmqInv'
<1> SUFFICES ASSUME ZmqInv, Zmq!Next PROVE ZmqInv'
  OBVIOUS
<1>1. ASSUME NEW t \in Threads, Zmq!Proceed(t) PROVE ZmqInv'
  BY <1>1, ZmqClosesOther, ZmqClosesReceiver, ZmqClosesSocket, ZmqFirstReturns,
     ZmqSecondReturns, ZmqOwnerCloses, ZmqTerminates, ZmqReturns DEF Zmq!Proceed
<1> QED
  BY <1>1, ZmqOpens, ZmqTakes, ZmqDecodes, ZmqUserCloses, ZmqRuntimeCloses, ZmqOwnerCloses
  DEF Zmq!Next

----------------------------------------------------------------------------
(* Queues, by the entries at their positions.                              *)

\* A queue whose head is taken.
LEMMA TailFacts ==
    ASSUME NEW S, NEW q \in Seq(S), q # <<>>
    PROVE  /\ Tail(q) \in Seq(S) /\ 1 \in DOMAIN q /\ Head(q) = q[1] /\ q[1] \in S
           /\ \A i \in DOMAIN Tail(q) :
                /\ i + 1 \in DOMAIN q /\ i + 1 # 1
                /\ Tail(q)[i] = q[i + 1]
           /\ \A i, j \in DOMAIN Tail(q) : i + 1 = j + 1 => i = j
<1>1. Len(q) \in Nat /\ Len(q) # 0 /\ DOMAIN q = 1 .. Len(q)
  OBVIOUS
<1>2. 1 \in DOMAIN q /\ q[1] \in S /\ Head(q) = q[1]
  BY <1>1
<1>3. Tail(q) \in Seq(S) /\ DOMAIN Tail(q) = 1 .. Len(q) - 1
  BY <1>1
<1>4. \A i \in DOMAIN Tail(q) : /\ i + 1 \in DOMAIN q /\ i + 1 # 1
                                /\ Tail(q)[i] = q[i + 1]
  BY <1>1, <1>3
<1>5. \A i, j \in DOMAIN Tail(q) : i + 1 = j + 1 => i = j
  BY <1>3
<1> QED
  BY <1>2, <1>3, <1>4, <1>5

\* A queue that is appended to.
LEMMA AppendFacts ==
    ASSUME NEW S, NEW q \in Seq(S), NEW e \in S
    PROVE  /\ Append(q, e) \in Seq(S)
           /\ \E n \in Nat \ {0} :
                /\ n \notin DOMAIN q /\ DOMAIN Append(q, e) = DOMAIN q \cup {n}
                /\ Append(q, e)[n] = e
                /\ \A i \in DOMAIN q : Append(q, e)[i] = q[i]
<1>1. Len(q) \in Nat /\ DOMAIN q = 1 .. Len(q)
  OBVIOUS
<1>2. /\ Append(q, e) \in Seq(S) /\ DOMAIN Append(q, e) = 1 .. Len(q) + 1
      /\ Append(q, e)[Len(q) + 1] = e
      /\ \A i \in DOMAIN q : Append(q, e)[i] = q[i]
  BY <1>1
<1> DEFINE n == Len(q) + 1
<1>3. n \in Nat \ {0} /\ n \notin DOMAIN q /\ DOMAIN Append(q, e) = DOMAIN q \cup {n}
  BY <1>1, <1>2
<1> QED
  BY <1>1, <1>2, <1>3

----------------------------------------------------------------------------
(* Management sessions.                                                    *)

DealerType ==
    [open : BOOLEAN, endpoint : Sessions!Endpoints, peer : 0 .. MaxEpochs, event : BOOLEAN,
     hub_epoch : 0 .. MaxEpochs, registered : BOOLEAN]
MemberType ==
    [hub_epoch : 0 .. MaxEpochs, registering : BOOLEAN, beat : BOOLEAN,
     missed : 0 .. missed_acks]
MessageType == [kind : {"registered", "heartbeat_ack"}, epoch : Sessions!Epochs]

SessionType ==
    /\ Sessions!TypeOK
    /\ outbound \in [Sessions!Sessions -> Seq({"register", "heartbeat"})]
    /\ inbound \in [Sessions!Sessions -> Seq(MessageType)]

\* A session asks to be registered once, with its first message; it is answered
\* once, after the Hub has seen it; and it waits for that answer until it has it.
Asks(s) == \E i \in DOMAIN outbound[s] : outbound[s][i] = "register"
Answered(s) == \E i \in DOMAIN inbound[s] : inbound[s][i].kind = "registered"
Once(s) ==
    /\ \A i \in DOMAIN outbound[s] : outbound[s][i] = "register" => i = 1
    /\ \A i, j \in DOMAIN inbound[s] :
         inbound[s][i].kind = "registered" /\ inbound[s][j].kind = "registered" => i = j
    /\ Asks(s) => s \notin router.seen /\ member[s].registering /\ ~Answered(s)
    /\ Answered(s) => member[s].registering
    /\ dealer[s].registered => ~member[s].registering

\* A session that was not opened yet has left no trace.
Unopened(s) ==
    s > process.session =>
        /\ outbound[s] = <<>> /\ inbound[s] = <<>>
        /\ member[s] = Sessions!NewMember /\ ~dealer[s].open
        /\ s \notin router.seen

Pinned(s) ==
    dealer[s].open /\ dealer[s].registered => member[s].hub_epoch = dealer[s].hub_epoch

SessionInv ==
    /\ SessionType
    /\ router.up => router.epoch # 0
    /\ \A s \in Sessions!Sessions : Once(s) /\ Unopened(s) /\ Pinned(s)
    /\ Sessions!RouteFollowsRegistration

\* The sessions' type invariant, variable by variable.
LEMMA SessionParts ==
    ASSUME SessionInv
    PROVE  /\ hub_seed \in {"none", "home"}
           /\ router \in [up : BOOLEAN, epoch : 0 .. MaxEpochs, endpoint : Sessions!Endpoints,
                          identities : SUBSET Sessions!Sessions, active : 0 .. MaxNodeSessions,
                          pending : 0 .. MaxNodeSessions, current : 0 .. MaxNodeSessions,
                          seen : SUBSET Sessions!Sessions]
           /\ dealer \in [Sessions!Sessions -> DealerType]
           /\ member \in [Sessions!Sessions -> MemberType]
           /\ outbound \in [Sessions!Sessions -> Seq({"register", "heartbeat"})]
           /\ inbound \in [Sessions!Sessions -> Seq(MessageType)]
           /\ process \in [session : 0 .. MaxNodeSessions,
                           channel : {"none", "open", "lost", "dead"}]
           /\ process.session \in Nat /\ drops \in 0 .. MaxDrops
           /\ Sessions!Sessions = 1 .. MaxNodeSessions
<1>1. Sessions!TypeOK /\ SessionType
  BY DEF SessionInv, SessionType
<1>2. process.session \in 0 .. MaxNodeSessions
  BY <1>1 DEF Sessions!TypeOK
<1>3. process.session \in Nat
  BY <1>2, SessionConstants
<1>4. Sessions!Sessions = 1 .. MaxNodeSessions
  BY DEF Sessions!Sessions
<1> HIDE <1>4
<1>5. /\ outbound \in [Sessions!Sessions -> Seq({"register", "heartbeat"})]
      /\ inbound \in [Sessions!Sessions -> Seq(MessageType)]
  BY <1>1 DEF SessionType
<1> QED
  BY <1>1, <1>3, <1>4, <1>5 DEF Sessions!TypeOK, DealerType, MemberType

\* The same of the next state.
LEMMA TypeFromParts ==
    ASSUME /\ hub_seed' \in {"none", "home"}
           /\ router' \in [up : BOOLEAN, epoch : 0 .. MaxEpochs, endpoint : Sessions!Endpoints,
                           identities : SUBSET Sessions!Sessions, active : 0 .. MaxNodeSessions,
                           pending : 0 .. MaxNodeSessions, current : 0 .. MaxNodeSessions,
                           seen : SUBSET Sessions!Sessions]
           /\ dealer' \in [Sessions!Sessions -> DealerType]
           /\ member' \in [Sessions!Sessions -> MemberType]
           /\ outbound' \in [Sessions!Sessions -> Seq({"register", "heartbeat"})]
           /\ inbound' \in [Sessions!Sessions -> Seq(MessageType)]
           /\ process' \in [session : 0 .. MaxNodeSessions,
                            channel : {"none", "open", "lost", "dead"}]
           /\ drops' \in 0 .. MaxDrops
    PROVE  SessionType'
<1>1. \A s \in Sessions!Sessions :
        /\ outbound'[s] \in Seq({"register", "heartbeat"})
        /\ inbound'[s] \in Seq(MessageType)
  OBVIOUS
<1>2. \A s \in Sessions!Sessions :
        /\ \A i \in DOMAIN outbound'[s] : outbound'[s][i] \in {"register", "heartbeat"}
        /\ \A i \in DOMAIN inbound'[s] : inbound'[s][i] \in MessageType
  BY <1>1
<1> QED
  BY <1>2 DEF SessionType, Sessions!TypeOK, DealerType, MemberType, MessageType

\* No session is open before the Node and the Hub start.
LEMMA SessionInit == Init => SessionInv
<1> SUFFICES ASSUME Init PROVE SessionInv
  OBVIOUS
<1>1. Sessions!Init
  BY DEF Init
<1> USE DEF Sessions!Init, Sessions!NewRouter, Sessions!NewDealer, Sessions!NewMember,
            Sessions!ClosedDealer, Sessions!Unknown, Sessions!Endpoints
<1>2. SessionType
  <2>1. 0 \in 0 .. MaxNodeSessions /\ 0 \in 0 .. MaxEpochs /\ 0 \in 0 .. missed_acks
        /\ 0 \in 0 .. MaxDrops
    BY SessionConstants
  <2>2. <<>> \in Seq({"register", "heartbeat"}) /\ <<>> \in Seq(MessageType)
    OBVIOUS
  <2>3. /\ router \in [up : BOOLEAN, epoch : 0 .. MaxEpochs, endpoint : Sessions!Endpoints,
                       identities : SUBSET Sessions!Sessions, active : 0 .. MaxNodeSessions,
                       pending : 0 .. MaxNodeSessions, current : 0 .. MaxNodeSessions,
                       seen : SUBSET Sessions!Sessions]
        /\ dealer \in [Sessions!Sessions -> DealerType]
        /\ member \in [Sessions!Sessions -> MemberType]
        /\ process \in [session : 0 .. MaxNodeSessions,
                        channel : {"none", "open", "lost", "dead"}]
    BY <1>1, <2>1 DEF DealerType, MemberType
  <2>4. \A s \in Sessions!Sessions : DOMAIN outbound[s] = {} /\ DOMAIN inbound[s] = {}
    BY <1>1
  <2>5. Sessions!TypeOK
    BY <1>1, <2>1, <2>3, <2>4 DEF Sessions!TypeOK, DealerType, MemberType
  <2> QED
    BY <1>1, <2>2, <2>5 DEF SessionType
<1>3. \A s \in Sessions!Sessions : Once(s) /\ Unopened(s) /\ Pinned(s)
  BY <1>1 DEF Once, Unopened, Pinned, Asks, Answered
<1>4. Sessions!RouteFollowsRegistration
  BY <1>1 DEF Sessions!RouteFollowsRegistration
<1> QED
  BY <1>1, <1>2, <1>3, <1>4 DEF SessionInv

\* The sessions' invariant is about their own variables only.
LEMMA SessionStutter == SessionInv /\ UNCHANGED sessionVars => SessionInv'
BY DEF sessionVars, SessionInv, SessionType, Sessions!TypeOK, Once, Unopened, Pinned, Asks,
       Answered, Sessions!RouteFollowsRegistration

\* A session that neither asks again nor is answered.
LEMMA SessionKept ==
    ASSUME SessionInv, NEW u \in Sessions!Sessions,
           u <= process.session, process.session <= process'.session,
           process'.session \in Nat,
           dealer'[u].open => dealer[u].open,
           dealer'[u].registered => dealer[u].registered,
           dealer'[u].registered => dealer'[u].hub_epoch = dealer[u].hub_epoch,
           member'[u].hub_epoch = member[u].hub_epoch,
           member'[u].registering = member[u].registering,
           \A i \in DOMAIN inbound'[u] : inbound'[u][i].kind = "registered" =>
              i \in DOMAIN inbound[u] /\ inbound[u][i].kind = "registered",
           \A i \in DOMAIN outbound'[u] : outbound'[u][i] = "register" =>
              i \in DOMAIN outbound[u] /\ outbound[u][i] = "register",
           u \in router'.seen => u \in router.seen \/ ~Asks(u)'
    PROVE  Once(u)' /\ Unopened(u)' /\ Pinned(u)'
<1>1. Once(u) /\ Pinned(u)
  BY DEF SessionInv
<1>2. (Asks(u)' => Asks(u)) /\ (Answered(u)' => Answered(u))
  BY DEF Asks, Answered
<1>3. Once(u)'
  BY <1>1, <1>2 DEF Once
<1>4. Unopened(u)'
  BY SessionParts DEF Unopened
<1>5. Pinned(u)'
  BY <1>1 DEF Pinned
<1> QED
  BY <1>3, <1>4, <1>5

\* A session to which nothing happens, except that what it sent may be lost.
LEMMA SessionStays ==
    ASSUME SessionInv, NEW u \in Sessions!Sessions,
           dealer'[u].open = dealer[u].open, dealer'[u].registered = dealer[u].registered,
           dealer'[u].hub_epoch = dealer[u].hub_epoch,
           member'[u] = member[u], inbound'[u] = inbound[u],
           outbound'[u] = outbound[u] \/ outbound'[u] = <<>>,
           u \in router'.seen => u \in router.seen,
           u > process'.session => u > process.session
    PROVE  Once(u)' /\ Unopened(u)' /\ Pinned(u)'
<1>1. Once(u) /\ Unopened(u) /\ Pinned(u)
  BY DEF SessionInv
<1>2. \A i \in DOMAIN outbound'[u] :
        i \in DOMAIN outbound[u] /\ outbound'[u][i] = outbound[u][i]
  <2>1. DOMAIN <<>> = {}
    OBVIOUS
  <2> QED
    BY <2>1
<1>3. (Asks(u)' => Asks(u)) /\ (Answered(u)' <=> Answered(u))
  BY <1>2 DEF Asks, Answered
<1>4. Once(u)'
  BY <1>1, <1>2, <1>3 DEF Once
<1>5. Unopened(u)'
  BY <1>1 DEF Unopened
<1>6. Pinned(u)'
  BY <1>1 DEF Pinned
<1> QED
  BY <1>4, <1>5, <1>6

\* A session that is closed.
LEMMA SessionCloses ==
    ASSUME SessionInv, NEW u \in Sessions!Sessions,
           dealer'[u] = Sessions!ClosedDealer, member'[u] = Sessions!NewMember,
           inbound'[u] = <<>>, outbound'[u] = <<>>,
           router'.seen = router.seen, u <= process.session,
           process'.session \in Nat, process.session <= process'.session
    PROVE  Once(u)' /\ Unopened(u)' /\ Pinned(u)'
<1>1. ~dealer'[u].open /\ ~dealer'[u].registered
  BY DEF Sessions!ClosedDealer, Sessions!NewDealer
<1>2. DOMAIN <<>> = {}
  OBVIOUS
<1>3. ~Asks(u)' /\ ~Answered(u)'
  BY <1>2 DEF Asks, Answered
<1>4. Once(u)'
  BY <1>1, <1>2, <1>3 DEF Once
<1>5. Unopened(u)'
  BY SessionParts DEF Unopened
<1> QED
  BY <1>1, <1>4, <1>5 DEF Pinned

\* A session that is opened: it asks to be registered.
LEMMA SessionOpens ==
    ASSUME SessionInv, NEW u \in Sessions!Sessions, u > process.session,
           NEW endpoint, NEW epoch,
           dealer'[u] = Sessions!NewDealer(endpoint, epoch), member'[u] = member[u],
           inbound'[u] = inbound[u], outbound'[u] = <<"register">>,
           router'.seen = router.seen, process'.session = u
    PROVE  Once(u)' /\ Unopened(u)' /\ Pinned(u)'
<1>1. dealer'[u].open /\ ~dealer'[u].registered
  BY DEF Sessions!NewDealer
<1>2. /\ inbound'[u] = <<>> /\ member'[u].registering /\ u \notin router'.seen
  BY DEF SessionInv, Unopened, Sessions!NewMember
<1>3. DOMAIN <<>> = {} /\ \A i \in DOMAIN <<"register">> : i = 1
  OBVIOUS
<1>4. ~Answered(u)'
  BY <1>2, <1>3 DEF Answered
<1>5. Once(u)'
  BY <1>1, <1>2, <1>3, <1>4 DEF Once
<1>6. Unopened(u)'
  BY SessionParts DEF Unopened
<1> QED
  BY <1>1, <1>5, <1>6 DEF Pinned

\* Sessions are numbered from one; zero is none.
LEMMA SessionNames ==
    /\ 0 \notin Sessions!Sessions /\ Sessions!Unknown = 0
    /\ Sessions!Sessions \subseteq 0 .. MaxNodeSessions
    /\ Sessions!Sessions \subseteq Nat
BY SessionConstants DEF Sessions!Sessions, Sessions!Unknown

\* The Hub starts: it knows no session.
LEMMA HubComesUp ==
    ASSUME SessionInv, Sessions!HubStarts
    PROVE  SessionInv'
<1>1. PICK endpoint \in Sessions!Endpoints :
        router' = Sessions!NewRouter(router.epoch + 1, endpoint)
  BY DEF Sessions!HubStarts
<1>2. /\ router.epoch < MaxEpochs
      /\ UNCHANGED <<hub_seed, dealer, member, outbound, inbound, process, drops>>
  BY DEF Sessions!HubStarts
<1>3. router.epoch + 1 \in 0 .. MaxEpochs /\ router.epoch + 1 # 0
  BY <1>2, SessionParts, SessionConstants
<1>4. /\ router' \in [up : BOOLEAN, epoch : 0 .. MaxEpochs, endpoint : Sessions!Endpoints,
                      identities : SUBSET Sessions!Sessions, active : 0 .. MaxNodeSessions,
                      pending : 0 .. MaxNodeSessions, current : 0 .. MaxNodeSessions,
                      seen : SUBSET Sessions!Sessions]
      /\ router'.epoch # 0 /\ router'.active = 0 /\ router'.seen = {}
  <2>1. 0 \in 0 .. MaxNodeSessions
    BY SessionConstants
  <2> QED
    BY <1>1, <1>3, <2>1 DEF Sessions!NewRouter, Sessions!Unknown
<1>5. SessionType'
  BY <1>2, <1>4, SessionParts, TypeFromParts
<1>6. ASSUME NEW u \in Sessions!Sessions PROVE Once(u)' /\ Unopened(u)' /\ Pinned(u)'
  BY <1>2, <1>4, SessionStays
<1>7. Sessions!RouteFollowsRegistration'
  BY <1>4 DEF Sessions!RouteFollowsRegistration, Sessions!Unknown
<1> QED
  BY <1>4, <1>5, <1>6, <1>7 DEF SessionInv

\* Connections go: what was sent and not read is lost.
LEMMA Dropped ==
    ASSUME SessionInv, NEW S, Sessions!Drop(S)
    PROVE  /\ dealer' \in [Sessions!Sessions -> DealerType]
           /\ outbound' \in [Sessions!Sessions -> Seq({"register", "heartbeat"})]
           /\ \A u \in Sessions!Sessions :
                /\ dealer'[u].open = dealer[u].open
                /\ dealer'[u].registered = dealer[u].registered
                /\ dealer'[u].hub_epoch = dealer[u].hub_epoch
                /\ outbound'[u] = IF u \in S THEN <<>> ELSE outbound[u]
<1>1. 0 \in 0 .. MaxEpochs /\ <<>> \in Seq({"register", "heartbeat"})
  BY SessionConstants
<1>2. dealer \in [Sessions!Sessions -> DealerType]
  BY SessionParts
<1>3. dealer' = [s \in Sessions!Sessions |->
                   IF s \in S THEN [dealer[s] EXCEPT !.peer = 0, !.event = TRUE] ELSE dealer[s]]
  BY DEF Sessions!Drop, Sessions!Unknown
<1>4. outbound' = [s \in Sessions!Sessions |-> IF s \in S THEN <<>> ELSE outbound[s]]
  BY DEF Sessions!Drop
<1>5. dealer' \in [Sessions!Sessions -> DealerType]
  BY <1>1, <1>2, <1>3 DEF DealerType
<1>6. outbound' \in [Sessions!Sessions -> Seq({"register", "heartbeat"})]
  BY <1>1, <1>4, SessionParts
<1>7. ASSUME NEW u \in Sessions!Sessions
      PROVE  /\ dealer'[u].open = dealer[u].open
             /\ dealer'[u].registered = dealer[u].registered
             /\ dealer'[u].hub_epoch = dealer[u].hub_epoch
  BY <1>2, <1>3 DEF DealerType
<1> QED
  BY <1>4, <1>5, <1>6, <1>7

\* The Hub stops: its sockets and what it knew of sessions go.
LEMMA HubGoesDown ==
    ASSUME SessionInv, Sessions!HubStops
    PROVE  SessionInv'
<1>1. PICK S : Sessions!Drop(S)
  BY DEF Sessions!HubStops
<1>2. /\ router' = [Sessions!NewRouter(router.epoch, "home") EXCEPT !.up = FALSE]
      /\ UNCHANGED <<hub_seed, member, inbound, process, drops>>
  BY DEF Sessions!HubStops
<1>3. /\ router' \in [up : BOOLEAN, epoch : 0 .. MaxEpochs, endpoint : Sessions!Endpoints,
                      identities : SUBSET Sessions!Sessions, active : 0 .. MaxNodeSessions,
                      pending : 0 .. MaxNodeSessions, current : 0 .. MaxNodeSessions,
                      seen : SUBSET Sessions!Sessions]
      /\ ~router'.up /\ router'.seen = {}
  <2>1. 0 \in 0 .. MaxNodeSessions /\ router.epoch \in 0 .. MaxEpochs
    BY SessionParts, SessionConstants
  <2> QED
    BY <1>2, <2>1 DEF Sessions!NewRouter, Sessions!Unknown, Sessions!Endpoints
<1>4. SessionType'
  BY <1>1, <1>2, <1>3, Dropped, SessionParts, TypeFromParts
<1>5. ASSUME NEW u \in Sessions!Sessions PROVE Once(u)' /\ Unopened(u)' /\ Pinned(u)'
  <2>1. /\ dealer'[u].open = dealer[u].open /\ dealer'[u].registered = dealer[u].registered
        /\ dealer'[u].hub_epoch = dealer[u].hub_epoch
        /\ outbound'[u] = outbound[u] \/ outbound'[u] = <<>>
    BY <1>1, Dropped
  <2> QED
    BY <1>2, <1>3, <2>1, SessionStays
<1>6. Sessions!RouteFollowsRegistration'
  BY <1>3 DEF Sessions!RouteFollowsRegistration
<1> QED
  BY <1>3, <1>4, <1>5, <1>6 DEF SessionInv

\* The latest session's connection is lost.
LEMMA ConnectionGoes ==
    ASSUME SessionInv, NEW s \in Sessions!Sessions, Sessions!ConnectionLost(s)
    PROVE  SessionInv'
<1>1. /\ Sessions!Drop({s}) /\ drops < MaxDrops /\ drops' = drops + 1
      /\ UNCHANGED <<hub_seed, router, member, inbound, process>>
  BY DEF Sessions!ConnectionLost
<1>2. drops' \in 0 .. MaxDrops
  BY <1>1, SessionParts, SessionConstants
<1>3. SessionType'
  BY <1>1, <1>2, Dropped, SessionParts, TypeFromParts
<1>4. ASSUME NEW u \in Sessions!Sessions PROVE Once(u)' /\ Unopened(u)' /\ Pinned(u)'
  <2>1. /\ dealer'[u].open = dealer[u].open /\ dealer'[u].registered = dealer[u].registered
        /\ dealer'[u].hub_epoch = dealer[u].hub_epoch
        /\ outbound'[u] = outbound[u] \/ outbound'[u] = <<>>
    BY <1>1, Dropped
  <2> QED
    BY <1>1, <2>1, SessionStays
<1>5. Sessions!RouteFollowsRegistration' /\ (router'.up => router'.epoch # 0)
  BY <1>1 DEF SessionInv, Sessions!RouteFollowsRegistration
<1> QED
  BY <1>3, <1>4, <1>5 DEF SessionInv

\* A socket connects.
LEMMA ConnectionComes ==
    ASSUME SessionInv, NEW s \in Sessions!Sessions, Sessions!Connects(s)
    PROVE  SessionInv'
<1>1. /\ dealer' = [dealer EXCEPT ![s].peer = router.epoch]
      /\ UNCHANGED <<hub_seed, router, member, outbound, inbound, process, drops>>
  BY DEF Sessions!Connects
<1>2. router.epoch \in 0 .. MaxEpochs /\ dealer \in [Sessions!Sessions -> DealerType]
  BY SessionParts
<1>3. dealer' \in [Sessions!Sessions -> DealerType]
  BY <1>1, <1>2 DEF DealerType
<1>4. SessionType'
  BY <1>1, <1>3, SessionParts, TypeFromParts
<1>5. ASSUME NEW u \in Sessions!Sessions PROVE Once(u)' /\ Unopened(u)' /\ Pinned(u)'
  <2>1. /\ dealer'[u].open = dealer[u].open /\ dealer'[u].registered = dealer[u].registered
        /\ dealer'[u].hub_epoch = dealer[u].hub_epoch
    BY <1>1, <1>2 DEF DealerType
  <2> QED
    BY <1>1, <2>1, SessionStays
<1>6. Sessions!RouteFollowsRegistration' /\ (router'.up => router'.epoch # 0)
  BY <1>1 DEF SessionInv, Sessions!RouteFollowsRegistration
<1> QED
  BY <1>4, <1>5, <1>6 DEF SessionInv

\* An open channel is that of a session that was opened.
LEMMA OpenedBefore ==
    ASSUME SessionInv, NEW s \in Sessions!Sessions, dealer[s].open
    PROVE  s <= process.session
BY SessionParts, SessionNames DEF SessionInv, Unopened

\* Where the Hub's answer goes and what it is: a registration is answered to the
\* session that asked, and only while that session is the one registered.
LEMMA HubAnswers ==
    ASSUME SessionInv, NEW s \in Sessions!Sessions, Sessions!HubReceives(s)
    PROVE  /\ router' \in [up : BOOLEAN, epoch : 0 .. MaxEpochs,
                           endpoint : Sessions!Endpoints,
                           identities : SUBSET Sessions!Sessions,
                           active : 0 .. MaxNodeSessions, pending : 0 .. MaxNodeSessions,
                           current : 0 .. MaxNodeSessions, seen : SUBSET Sessions!Sessions]
           /\ router'.up /\ router'.epoch = router.epoch
           /\ Sessions!RouteFollowsRegistration'
           /\ \A u \in router'.seen : u \in router.seen \/ (u = s /\ outbound[s][1] = "register")
           /\ \/ UNCHANGED inbound
              \/ \E to \in Sessions!Sessions, m \in MessageType :
                   /\ inbound' = [inbound EXCEPT ![to] = Append(@, m)]
                   /\ dealer[to].open
                   /\ m.kind = "registered" => to = s /\ outbound[s][1] = "register"
<1> DEFINE kind == Head(outbound[s])
           noted == Sessions!Noted(s, kind)
           stale == s \in router.seen /\ router.current # s
<1>1. PICK gone \in {{}, {s}} :
        \/ /\ kind = "register" /\ ~stale
           /\ Sessions!Send([noted EXCEPT !.current = s, !.seen = @ \cup {s}],
                            "registered", gone)
        \/ /\ kind = "heartbeat" /\ router.current = s
           /\ Sessions!Send(noted, "heartbeat_ack", gone)
        \/ /\ IF kind = "register" THEN stale ELSE router.current # s
           /\ router' = noted
           /\ UNCHANGED inbound
  BY DEF Sessions!HubReceives
<1>2. /\ router.up /\ dealer[s].open /\ outbound[s] # <<>>
      /\ outbound[s] \in Seq({"register", "heartbeat"})
  BY SessionParts DEF Sessions!HubReceives, Sessions!Linked
<1>3. kind = outbound[s][1] /\ 1 \in DOMAIN outbound[s] /\ kind \in {"register", "heartbeat"}
  BY <1>2, TailFacts
<1>4. router.epoch \in Sessions!Epochs
  <2>1. router.epoch \in 0 .. MaxEpochs /\ router.epoch # 0
    BY <1>2, SessionParts DEF SessionInv
  <2> QED
    BY <2>1, SessionConstants DEF Sessions!Epochs
<1>5. \A k \in {"registered", "heartbeat_ack"} :
        [kind |-> k, epoch |-> router.epoch] \in MessageType
  BY <1>4 DEF MessageType
<1>6. kind = "register" => s \notin router.seen
  BY <1>3 DEF SessionInv, Once, Asks
<1>7. /\ s \in 0 .. MaxNodeSessions /\ s # 0 /\ 0 \in 0 .. MaxNodeSessions
  BY SessionNames, SessionConstants
<1>8. router \in [up : BOOLEAN, epoch : 0 .. MaxEpochs, endpoint : Sessions!Endpoints,
                  identities : SUBSET Sessions!Sessions, active : 0 .. MaxNodeSessions,
                  pending : 0 .. MaxNodeSessions, current : 0 .. MaxNodeSessions,
                  seen : SUBSET Sessions!Sessions]
  BY SessionParts
<1>9. /\ noted.pending = IF kind = "register" THEN s ELSE router.pending
      /\ noted.identities = router.identities \cup {s}
      /\ noted = [router EXCEPT !.identities = router.identities \cup {s},
                                !.pending = IF kind = "register" THEN s ELSE router.pending]
  BY <1>8 DEF Sessions!Noted
<1> HIDE DEF kind, noted, stale
<1>10. CASE /\ kind = "register"
            /\ Sessions!Send([noted EXCEPT !.current = s, !.seen = @ \cup {s}],
                             "registered", gone)
  <2>1. PICK r : r = [noted EXCEPT !.current = s, !.seen = @ \cup {s}]
    OBVIOUS
  <2>2. /\ r \in [up : BOOLEAN, epoch : 0 .. MaxEpochs, endpoint : Sessions!Endpoints,
                  identities : SUBSET Sessions!Sessions, active : 0 .. MaxNodeSessions,
                  pending : 0 .. MaxNodeSessions, current : 0 .. MaxNodeSessions,
                  seen : SUBSET Sessions!Sessions]
        /\ r.up /\ r.epoch = router.epoch /\ r.pending = s /\ r.current = s
        /\ r.seen = router.seen \cup {s}
    BY <1>2, <1>7, <1>8, <1>9, <1>10, <2>1
  <2>3. Sessions!Send(r, "registered", gone)
    BY <1>10, <2>1
  <2> HIDE <2>1
  <2>4. Sessions!Route(r, "registered") = s
    BY <1>7, <2>2 DEF Sessions!Route, Sessions!Unknown
  <2>5. \/ UNCHANGED inbound /\ router' = r
        \/ /\ inbound' = [inbound EXCEPT ![s] =
                            Append(@, [kind |-> "registered", epoch |-> router.epoch])]
           /\ router' = [r EXCEPT !.active = s, !.pending = 0]
    BY <2>2, <2>3, <2>4 DEF Sessions!Send, Sessions!Unknown
  <2>6. /\ router' \in [up : BOOLEAN, epoch : 0 .. MaxEpochs, endpoint : Sessions!Endpoints,
                        identities : SUBSET Sessions!Sessions, active : 0 .. MaxNodeSessions,
                        pending : 0 .. MaxNodeSessions, current : 0 .. MaxNodeSessions,
                        seen : SUBSET Sessions!Sessions]
        /\ router'.up /\ router'.epoch = router.epoch /\ router'.seen = router.seen \cup {s}
        /\ router'.current = s
        /\ router'.active = s \/ router'.pending = s
    BY <1>7, <2>2, <2>5
  <2>7. Sessions!RouteFollowsRegistration'
    BY <2>6 DEF Sessions!RouteFollowsRegistration
  <2> QED
    BY <1>2, <1>3, <1>5, <1>10, <2>5, <2>6, <2>7
<1>11. CASE /\ kind = "heartbeat" /\ router' = noted
            /\ \/ UNCHANGED inbound
               \/ \E to \in Sessions!Sessions :
                    /\ inbound' = [inbound EXCEPT ![to] =
                         Append(@, [kind |-> "heartbeat_ack", epoch |-> router.epoch])]
                    /\ dealer[to].open
  <2>1. /\ router' \in [up : BOOLEAN, epoch : 0 .. MaxEpochs, endpoint : Sessions!Endpoints,
                        identities : SUBSET Sessions!Sessions, active : 0 .. MaxNodeSessions,
                        pending : 0 .. MaxNodeSessions, current : 0 .. MaxNodeSessions,
                        seen : SUBSET Sessions!Sessions]
        /\ router'.up = router.up /\ router'.epoch = router.epoch /\ router'.seen = router.seen
        /\ router'.current = router.current
        /\ router'.active = router.active /\ router'.pending = router.pending
    BY <1>8, <1>9, <1>11
  <2>2. Sessions!RouteFollowsRegistration'
    BY <2>1 DEF SessionInv, Sessions!RouteFollowsRegistration
  <2>3. [kind |-> "heartbeat_ack", epoch |-> router.epoch].kind # "registered"
    OBVIOUS
  <2> QED
    BY <1>2, <1>5, <1>11, <2>1, <2>2, <2>3
<1>12. CASE kind = "heartbeat" /\ Sessions!Send(noted, "heartbeat_ack", gone)
  <2>1. PICK to : to = Sessions!Route(noted, "heartbeat_ack")
    OBVIOUS
  <2>2. noted.epoch = router.epoch /\ noted.identities \subseteq Sessions!Sessions
    BY <1>8, <1>9
  <2>3. /\ router' = noted
        /\ \/ UNCHANGED inbound
           \/ /\ inbound' = [inbound EXCEPT ![to] =
                   Append(@, [kind |-> "heartbeat_ack", epoch |-> router.epoch])]
              /\ to \in noted.identities /\ Sessions!Linked(to)
    BY <1>12, <2>1, <2>2 DEF Sessions!Send
  <2> QED
    BY <1>11, <1>12, <2>2, <2>3 DEF Sessions!Linked
<1>13. CASE /\ IF kind = "register" THEN stale ELSE router.current # s
            /\ router' = noted
            /\ UNCHANGED inbound
  BY <1>3, <1>6, <1>11, <1>13 DEF stale
<1> QED
  BY <1>1, <1>10, <1>12, <1>13

\* The Hub's service loop takes a message.
LEMMA HubServes ==
    ASSUME SessionInv, NEW s \in Sessions!Sessions, Sessions!HubReceives(s)
    PROVE  SessionInv'
<1>1. /\ UNCHANGED <<hub_seed, member, process>>
      /\ dealer[s].open /\ outbound[s] # <<>>
  BY DEF Sessions!HubReceives, Sessions!Linked
<1>2. /\ outbound[s] \in Seq({"register", "heartbeat"})
      /\ Tail(outbound[s]) \in Seq({"register", "heartbeat"})
      /\ \A i \in DOMAIN Tail(outbound[s]) :
           i + 1 \in DOMAIN outbound[s] /\ i + 1 # 1 /\ Tail(outbound[s])[i] = outbound[s][i + 1]
      /\ 1 \in DOMAIN outbound[s]
  BY <1>1, SessionParts, TailFacts
<1>3. /\ dealer' \in [Sessions!Sessions -> DealerType]
      /\ outbound' \in [Sessions!Sessions -> Seq({"register", "heartbeat"})]
      /\ drops' \in 0 .. MaxDrops
      /\ \A u \in Sessions!Sessions :
           /\ dealer'[u].open = dealer[u].open
           /\ dealer'[u].registered = dealer[u].registered
           /\ dealer'[u].hub_epoch = dealer[u].hub_epoch
           /\ u # s => outbound'[u] = outbound[u]
      /\ outbound'[s] = Tail(outbound[s]) \/ outbound'[s] = <<>>
  <2>1. CASE /\ outbound' = [outbound EXCEPT ![s] = Tail(@)]
             /\ UNCHANGED <<dealer, drops>>
    BY <1>2, <2>1, SessionParts
  <2>2. CASE drops < MaxDrops /\ Sessions!Drop({s}) /\ drops' = drops + 1
    <3>1. drops' \in 0 .. MaxDrops
      BY <2>2, SessionParts, SessionConstants
    <3> QED
      BY <2>2, <3>1, Dropped
  <2> QED
    BY <2>1, <2>2 DEF Sessions!HubReceives
<1>4. inbound' \in [Sessions!Sessions -> Seq(MessageType)]
  <2>1. inbound \in [Sessions!Sessions -> Seq(MessageType)]
    BY SessionParts
  <2>2. CASE UNCHANGED inbound
    BY <2>1, <2>2
  <2>3. ASSUME NEW to \in Sessions!Sessions, NEW m \in MessageType,
               inbound' = [inbound EXCEPT ![to] = Append(@, m)]
        PROVE  inbound' \in [Sessions!Sessions -> Seq(MessageType)]
    <3>1. inbound[to] \in Seq(MessageType)
      BY <2>1
    <3>2. Append(inbound[to], m) \in Seq(MessageType)
      BY <3>1, AppendFacts
    <3> QED
      BY <2>1, <2>3, <3>2
  <2>4. \/ UNCHANGED inbound
        \/ \E to \in Sessions!Sessions, m \in MessageType :
             inbound' = [inbound EXCEPT ![to] = Append(@, m)]
    BY HubAnswers
  <2> QED
    BY <2>2, <2>3, <2>4
<1>5. SessionType'
  BY <1>1, <1>3, <1>4, HubAnswers, SessionParts, TypeFromParts
<1>6. s <= process.session /\ process'.session = process.session /\ process.session \in Nat
  BY <1>1, OpenedBefore, SessionParts
<1>7. ~Asks(s)'
  <2>1. \A i \in DOMAIN outbound'[s] : i \in DOMAIN Tail(outbound[s])
                                       /\ outbound'[s][i] = Tail(outbound[s])[i]
    <3>1. DOMAIN <<>> = {}
      OBVIOUS
    <3> QED
      BY <1>3, <3>1
  <2> QED
    BY <1>2, <2>1 DEF SessionInv, Once, Asks
<1>8. \A i \in DOMAIN outbound'[s] : outbound'[s][i] # "register"
  BY <1>7 DEF Asks
<1>9. CASE UNCHANGED inbound
  <2>1. ASSUME NEW u \in Sessions!Sessions PROVE Once(u)' /\ Unopened(u)' /\ Pinned(u)'
    <3>1. CASE u = s
      BY <1>1, <1>3, <1>6, <1>7, <1>8, <1>9, <3>1, SessionKept
    <3>2. CASE u # s
      <4>1. u \in router'.seen => u \in router.seen
        BY <3>2, HubAnswers
      <4> QED
        BY <1>1, <1>3, <1>9, <3>2, <4>1, SessionStays
    <3> QED
      BY <3>1, <3>2
  <2> QED
    BY <1>5, <2>1, HubAnswers DEF SessionInv, Sessions!HubReceives, Sessions!Linked
<1>10. ASSUME NEW to \in Sessions!Sessions, NEW m \in MessageType,
              inbound' = [inbound EXCEPT ![to] = Append(@, m)],
              dealer[to].open,
              m.kind = "registered" => to = s /\ outbound[s][1] = "register"
       PROVE  SessionInv'
  <2>1. inbound[to] \in Seq(MessageType)
    BY SessionParts
  <2>2. /\ inbound'[to] = Append(inbound[to], m)
        /\ \A u \in Sessions!Sessions \ {to} : inbound'[u] = inbound[u]
    BY <1>10, SessionParts
  <2>3. PICK n \in Nat \ {0} :
          /\ n \notin DOMAIN inbound[to] /\ DOMAIN inbound'[to] = DOMAIN inbound[to] \cup {n}
          /\ inbound'[to][n] = m
          /\ \A i \in DOMAIN inbound[to] : inbound'[to][i] = inbound[to][i]
    BY <2>1, <2>2, AppendFacts
  <2>4. to <= process.session
    BY <1>10, OpenedBefore
  <2>5. ASSUME m.kind # "registered" PROVE SessionInv'
    <3>1. ASSUME NEW u \in Sessions!Sessions PROVE Once(u)' /\ Unopened(u)' /\ Pinned(u)'
      <4>1. \A i \in DOMAIN inbound'[u] : inbound'[u][i].kind = "registered" =>
               i \in DOMAIN inbound[u] /\ inbound[u][i].kind = "registered"
        <5>1. CASE u = to
          BY <2>3, <2>5, <5>1
        <5>2. CASE u # to
          BY <2>2, <5>2
        <5> QED
          BY <5>1, <5>2
      <4>2. CASE u = s
        BY <1>1, <1>3, <1>6, <1>7, <1>8, <4>1, <4>2, SessionKept
      <4>3. CASE u = to /\ u # s
        <5>1. /\ outbound'[u] = outbound[u] /\ u <= process.session
              /\ u \in router'.seen => u \in router.seen
          BY <1>3, <2>4, <4>3, HubAnswers
        <5>2. \A i \in DOMAIN outbound'[u] : outbound'[u][i] = "register" =>
                i \in DOMAIN outbound[u] /\ outbound[u][i] = "register"
          BY <5>1
        <5>3. /\ process'.session \in Nat /\ process.session <= process'.session
              /\ dealer'[u].open = dealer[u].open
              /\ dealer'[u].registered = dealer[u].registered
              /\ dealer'[u].hub_epoch = dealer[u].hub_epoch
              /\ member'[u] = member[u]
          BY <1>1, <1>3, <1>6
        <5>4. \A i \in DOMAIN inbound'[u] : inbound'[u][i].kind = "registered" =>
                i \in DOMAIN inbound[u] /\ inbound[u][i].kind = "registered"
          BY <4>1
        <5> QED
          BY <5>1, <5>2, <5>3, <5>4, SessionKept
      <4>4. CASE u # to /\ u # s
        <5>1. /\ outbound'[u] = outbound[u] /\ inbound'[u] = inbound[u]
              /\ u \in router'.seen => u \in router.seen
          BY <1>3, <2>2, <4>4, HubAnswers
        <5> QED
          BY <1>1, <1>3, <5>1, SessionStays
      <4> QED
        BY <4>2, <4>3, <4>4
    <3> QED
      BY <1>5, <3>1, HubAnswers DEF SessionInv, Sessions!HubReceives, Sessions!Linked
  <2>6. ASSUME m.kind = "registered" PROVE SessionInv'
    <3>1. to = s /\ Asks(s) /\ ~Answered(s) /\ member[s].registering /\ ~dealer[s].registered
      BY <1>2, <1>10, <2>6 DEF Asks, SessionInv, Once
    <3>2. ASSUME NEW u \in Sessions!Sessions PROVE Once(u)' /\ Unopened(u)' /\ Pinned(u)'
      <4>1. CASE u = s
        <5>1. Once(s)'
          <6>1. \A i \in DOMAIN inbound'[s] : inbound'[s][i].kind = "registered" => i = n
            BY <2>3, <3>1 DEF Answered
          <6> QED
            BY <1>1, <1>3, <1>7, <1>8, <3>1, <6>1 DEF Once
        <5>2. Unopened(s)'
          BY <1>6, SessionNames DEF Unopened
        <5>3. Pinned(s)'
          BY <1>3, <3>1 DEF Pinned
        <5> QED
          BY <4>1, <5>1, <5>2, <5>3
      <4>2. CASE u # s
        <5>1. /\ outbound'[u] = outbound[u] /\ inbound'[u] = inbound[u]
              /\ u \in router'.seen => u \in router.seen
          BY <1>3, <2>2, <3>1, <4>2, HubAnswers
        <5> QED
          BY <1>1, <1>3, <5>1, SessionStays
      <4> QED
        BY <4>1, <4>2
    <3> QED
      BY <1>5, <3>2, HubAnswers DEF SessionInv, Sessions!HubReceives, Sessions!Linked
  <2> QED
    BY <2>5, <2>6
<1>11. \/ UNCHANGED inbound
       \/ \E to \in Sessions!Sessions, m \in MessageType :
            /\ inbound' = [inbound EXCEPT ![to] = Append(@, m)]
            /\ dealer[to].open
            /\ m.kind = "registered" => to = s /\ outbound[s][1] = "register"
  BY HubAnswers
<1> QED
  BY <1>9, <1>10, <1>11

\* What the resolver finds is an endpoint, with the epoch of the Hub or none.
LEMMA FoundType ==
    ASSUME SessionInv, NEW prefer, NEW found \in Sessions!Resolve(prefer)
    PROVE  Sessions!NewDealer(found.endpoint, found.epoch) \in DealerType
<1>1. router.endpoint \in Sessions!Endpoints /\ router.epoch \in 0 .. MaxEpochs
  BY SessionParts
<1>2. 0 \in 0 .. MaxEpochs /\ "home" \in Sessions!Endpoints
  BY SessionConstants DEF Sessions!Endpoints
<1>3. found \in Sessions!Beacon \/ found \in Sessions!Seed
  BY DEF Sessions!Resolve
<1>4. found.endpoint \in Sessions!Endpoints /\ found.epoch \in 0 .. MaxEpochs
  BY <1>1, <1>2, <1>3 DEF Sessions!Beacon, Sessions!Seed, Sessions!Unknown
<1> QED
  BY <1>2, <1>4 DEF Sessions!NewDealer, Sessions!Unknown, DealerType

\* What a closed or a new session holds has its type.
LEMMA ClosedType ==
    /\ Sessions!ClosedDealer \in DealerType /\ Sessions!NewMember \in MemberType
    /\ <<>> \in Seq({"register", "heartbeat"}) /\ <<"register">> \in Seq({"register", "heartbeat"})
    /\ <<>> \in Seq(MessageType)
<1>1. 0 \in 0 .. MaxEpochs /\ 0 \in 0 .. missed_acks /\ "home" \in Sessions!Endpoints
  BY SessionConstants DEF Sessions!Endpoints
<1>2. Sessions!ClosedDealer \in DealerType
  BY <1>1 DEF Sessions!ClosedDealer, Sessions!NewDealer, Sessions!Unknown, DealerType
<1>3. Sessions!NewMember \in MemberType
  BY <1>1 DEF Sessions!NewMember, Sessions!Unknown, MemberType
<1> QED
  BY <1>2, <1>3

\* A process opens the next session, which nobody used before.
LEMMA NextOpens ==
    ASSUME SessionInv, NEW n \in Sessions!Sessions, n = process.session + 1,
           NEW prefer, NEW found \in Sessions!Resolve(prefer),
           dealer' = [dealer EXCEPT ![n] = Sessions!NewDealer(found.endpoint, found.epoch)],
           outbound' = [outbound EXCEPT ![n] = <<"register">>],
           process' = [session |-> n, channel |-> "open"],
           UNCHANGED <<hub_seed, router, member, inbound, drops>>
    PROVE  SessionInv'
<1>1. /\ dealer' \in [Sessions!Sessions -> DealerType]
      /\ outbound' \in [Sessions!Sessions -> Seq({"register", "heartbeat"})]
  BY FoundType, ClosedType, SessionParts
<1>2. process' \in [session : 0 .. MaxNodeSessions, channel : {"none", "open", "lost", "dead"}]
      /\ process'.session = n
  BY SessionNames
<1>3. SessionType'
  BY <1>1, <1>2, SessionParts, TypeFromParts
<1>4. n > process.session /\ process.session \in Nat /\ n \in Nat
  BY SessionParts
<1>5. ASSUME NEW u \in Sessions!Sessions PROVE Once(u)' /\ Unopened(u)' /\ Pinned(u)'
  <2>1. CASE u = n
    <3>1. /\ dealer'[u] = Sessions!NewDealer(found.endpoint, found.epoch)
          /\ outbound'[u] = <<"register">> /\ member'[u] = member[u] /\ inbound'[u] = inbound[u]
          /\ router'.seen = router.seen /\ process'.session = u /\ u > process.session
      BY <1>2, <1>4, <2>1, SessionParts
    <3> QED
      BY <3>1, SessionOpens
  <2>2. CASE u # n
    <3>1. /\ dealer'[u] = dealer[u] /\ outbound'[u] = outbound[u]
          /\ member'[u] = member[u] /\ inbound'[u] = inbound[u]
          /\ router'.seen = router.seen
          /\ u > process'.session => u > process.session
      BY <1>2, <1>4, <2>2, SessionParts, SessionNames
    <3> QED
      BY <3>1, SessionStays
  <2> QED
    BY <2>1, <2>2
<1>6. Sessions!RouteFollowsRegistration' /\ (router'.up => router'.epoch # 0)
  BY DEF SessionInv, Sessions!RouteFollowsRegistration
<1> QED
  BY <1>3, <1>5, <1>6 DEF SessionInv

\* A process of the Node starts, or a Robot reconnects.
LEMMA NodeOpens ==
    ASSUME SessionInv, Sessions!NodeStarts \/ Sessions!RobotReconnects
    PROVE  SessionInv'
<1>1. process.session < MaxNodeSessions
  <2>1. process.session < MaxStarts \/ process.session < MaxNodeSessions
    BY DEF Sessions!NodeStarts, Sessions!RobotReconnects, Sessions!Live
  <2>2. /\ process.session \in Nat /\ MaxStarts \in Nat /\ MaxNodeSessions \in Nat
        /\ MaxStarts <= MaxNodeSessions
    BY SessionParts, SessionConstants
  <2> QED
    BY <2>1, <2>2
<1>2. PICK n : n = process.session + 1
  OBVIOUS
<1>3. n \in Sessions!Sessions
  BY <1>1, <1>2, SessionParts, SessionConstants
<1>4. PICK found \in Sessions!Resolve(TRUE) :
        /\ dealer' = [dealer EXCEPT ![Sessions!Live + 1] =
                        Sessions!NewDealer(found.endpoint, found.epoch)]
        /\ outbound' = [outbound EXCEPT ![Sessions!Live + 1] = <<"register">>]
  BY DEF Sessions!NodeStarts, Sessions!RobotReconnects
<1>5. /\ process' = [session |-> n, channel |-> "open"]
      /\ UNCHANGED <<hub_seed, router, member, inbound, drops>>
      /\ Sessions!Live + 1 = n
  BY <1>2 DEF Sessions!NodeStarts, Sessions!RobotReconnects, Sessions!Live
<1>6. /\ dealer' = [dealer EXCEPT ![n] = Sessions!NewDealer(found.endpoint, found.epoch)]
      /\ outbound' = [outbound EXCEPT ![n] = <<"register">>]
  BY <1>4, <1>5
<1> QED
  BY <1>2, <1>3, <1>5, <1>6, NextOpens

\* The older process ends.
LEMMA OlderCloses ==
    ASSUME SessionInv, NEW s \in Sessions!Sessions, Sessions!OlderEnds(s)
    PROVE  SessionInv'
<1>1. /\ s < process.session
      /\ dealer' = [dealer EXCEPT ![s] = Sessions!ClosedDealer]
      /\ member' = [member EXCEPT ![s] = Sessions!NewMember]
      /\ outbound' = [outbound EXCEPT ![s] = <<>>]
      /\ inbound' = [inbound EXCEPT ![s] = <<>>]
      /\ UNCHANGED <<hub_seed, router, process, drops>>
  BY DEF Sessions!OlderEnds, Sessions!Live
<1>2. /\ dealer' \in [Sessions!Sessions -> DealerType]
      /\ member' \in [Sessions!Sessions -> MemberType]
      /\ outbound' \in [Sessions!Sessions -> Seq({"register", "heartbeat"})]
      /\ inbound' \in [Sessions!Sessions -> Seq(MessageType)]
  BY <1>1, ClosedType, SessionParts
<1>3. SessionType'
  BY <1>1, <1>2, SessionParts, TypeFromParts
<1>4. ASSUME NEW u \in Sessions!Sessions PROVE Once(u)' /\ Unopened(u)' /\ Pinned(u)'
  <2>1. CASE u = s
    <3>1. /\ dealer'[u] = Sessions!ClosedDealer /\ member'[u] = Sessions!NewMember
          /\ inbound'[u] = <<>> /\ outbound'[u] = <<>>
          /\ router'.seen = router.seen /\ u <= process.session
          /\ process'.session \in Nat /\ process.session <= process'.session
      BY <1>1, <2>1, SessionParts, SessionNames
    <3> QED
      BY <3>1, SessionCloses
  <2>2. CASE u # s
    <3>1. /\ dealer'[u] = dealer[u] /\ outbound'[u] = outbound[u]
          /\ member'[u] = member[u] /\ inbound'[u] = inbound[u]
      BY <1>1, <2>2, SessionParts
    <3> QED
      BY <1>1, <3>1, SessionStays
  <2> QED
    BY <2>1, <2>2
<1>5. Sessions!RouteFollowsRegistration' /\ (router'.up => router'.epoch # 0)
  BY <1>1 DEF SessionInv, Sessions!RouteFollowsRegistration
<1> QED
  BY <1>3, <1>4, <1>5 DEF SessionInv

\* Management is lost: the session is closed, and the next opened when the Hub is
\* found.
LEMMA LostCloses ==
    ASSUME SessionInv, NEW s \in Sessions!Sessions, s = process.session,
           Sessions!ManagementLost(s)
    PROVE  SessionInv'
<1>1. /\ inbound' = [inbound EXCEPT ![s] = <<>>]
      /\ member' = [member EXCEPT ![s] = Sessions!NewMember]
      /\ UNCHANGED <<hub_seed, router, drops>>
  BY DEF Sessions!ManagementLost
<1>2. /\ member' \in [Sessions!Sessions -> MemberType]
      /\ inbound' \in [Sessions!Sessions -> Seq(MessageType)]
      /\ member'[s] = Sessions!NewMember /\ inbound'[s] = <<>>
      /\ \A u \in Sessions!Sessions \ {s} : member'[u] = member[u] /\ inbound'[u] = inbound[u]
  BY <1>1, ClosedType, SessionParts
<1>3. Sessions!RouteFollowsRegistration' /\ (router'.up => router'.epoch # 0)
  BY <1>1 DEF SessionInv, Sessions!RouteFollowsRegistration
<1>4. process.session \in Nat /\ s \in Nat
  BY SessionParts
<1>5. ASSUME /\ dealer' = [dealer EXCEPT ![s] = Sessions!ClosedDealer]
             /\ outbound' = [outbound EXCEPT ![s] = <<>>],
             NEW ended \in {"lost", "dead"}, process' = [process EXCEPT !.channel = ended]
      PROVE  SessionInv'
  <2>1. /\ dealer' \in [Sessions!Sessions -> DealerType]
        /\ outbound' \in [Sessions!Sessions -> Seq({"register", "heartbeat"})]
    BY <1>5, ClosedType, SessionParts
  <2>2. process' \in [session : 0 .. MaxNodeSessions, channel : {"none", "open", "lost", "dead"}]
        /\ process'.session = process.session
    BY <1>5, SessionParts
  <2>3. SessionType'
    BY <1>1, <1>2, <2>1, <2>2, SessionParts, TypeFromParts
  <2>4. ASSUME NEW u \in Sessions!Sessions PROVE Once(u)' /\ Unopened(u)' /\ Pinned(u)'
    <3>1. CASE u = s
      <4>1. /\ dealer'[u] = Sessions!ClosedDealer /\ member'[u] = Sessions!NewMember
            /\ inbound'[u] = <<>> /\ outbound'[u] = <<>>
            /\ router'.seen = router.seen /\ u <= process.session
            /\ process'.session \in Nat /\ process.session <= process'.session
        BY <1>1, <1>2, <1>4, <1>5, <2>2, <3>1, SessionParts
      <4> QED
        BY <4>1, SessionCloses
    <3>2. CASE u # s
      <4>1. /\ dealer'[u] = dealer[u] /\ outbound'[u] = outbound[u]
            /\ member'[u] = member[u] /\ inbound'[u] = inbound[u]
        BY <1>2, <1>5, <3>2, SessionParts
      <4> QED
        BY <1>1, <2>2, <4>1, SessionStays
    <3> QED
      BY <3>1, <3>2
  <2> QED
    BY <1>3, <2>3, <2>4 DEF SessionInv
<1>6. ASSUME process.session < MaxNodeSessions,
             NEW found \in Sessions!Resolve(TRUE),
             dealer' = [[dealer EXCEPT ![s] = Sessions!ClosedDealer] EXCEPT ![s + 1] =
                          Sessions!NewDealer(found.endpoint, found.epoch)],
             outbound' = [[outbound EXCEPT ![s] = <<>>] EXCEPT ![s + 1] = <<"register">>],
             process' = [session |-> s + 1, channel |-> "open"]
      PROVE  SessionInv'
  <2>1. PICK n : n = s + 1
    OBVIOUS
  <2>2. n \in Sessions!Sessions /\ n # s /\ n > process.session /\ n \in Nat
    BY <1>4, <1>6, <2>1, SessionParts, SessionConstants
  <2>3. /\ dealer' = [[dealer EXCEPT ![s] = Sessions!ClosedDealer] EXCEPT ![n] =
                        Sessions!NewDealer(found.endpoint, found.epoch)]
        /\ outbound' = [[outbound EXCEPT ![s] = <<>>] EXCEPT ![n] = <<"register">>]
        /\ process' = [session |-> n, channel |-> "open"]
    BY <1>6, <2>1
  <2>4. Sessions!NewDealer(found.endpoint, found.epoch) \in DealerType
    BY <1>6, FoundType
  <2>5. /\ dealer' \in [Sessions!Sessions -> DealerType]
        /\ dealer'[n] = Sessions!NewDealer(found.endpoint, found.epoch)
        /\ dealer'[s] = Sessions!ClosedDealer
        /\ \A u \in Sessions!Sessions \ {s, n} : dealer'[u] = dealer[u]
    BY <2>2, <2>3, <2>4, ClosedType, SessionParts
  <2>6. /\ outbound' \in [Sessions!Sessions -> Seq({"register", "heartbeat"})]
        /\ outbound'[n] = <<"register">> /\ outbound'[s] = <<>>
        /\ \A u \in Sessions!Sessions \ {s, n} : outbound'[u] = outbound[u]
    BY <2>2, <2>3, ClosedType, SessionParts
  <2>7. process' \in [session : 0 .. MaxNodeSessions, channel : {"none", "open", "lost", "dead"}]
        /\ process'.session = n
    BY <2>2, <2>3, SessionNames
  <2>8. SessionType'
    BY <1>1, <1>2, <2>5, <2>6, <2>7, SessionParts, TypeFromParts
  <2>9. ASSUME NEW u \in Sessions!Sessions PROVE Once(u)' /\ Unopened(u)' /\ Pinned(u)'
    <3>1. CASE u = s
      <4>1. /\ dealer'[u] = Sessions!ClosedDealer /\ member'[u] = Sessions!NewMember
            /\ inbound'[u] = <<>> /\ outbound'[u] = <<>>
            /\ router'.seen = router.seen /\ u <= process.session
            /\ process'.session \in Nat /\ process.session <= process'.session
        BY <1>1, <1>2, <1>4, <2>2, <2>5, <2>6, <2>7, <3>1
      <4> QED
        BY <4>1, SessionCloses
    <3>2. CASE u = n
      <4>1. /\ dealer'[u] = Sessions!NewDealer(found.endpoint, found.epoch)
            /\ outbound'[u] = <<"register">> /\ member'[u] = member[u]
            /\ inbound'[u] = inbound[u]
            /\ router'.seen = router.seen /\ process'.session = u /\ u > process.session
        BY <1>1, <1>2, <2>2, <2>5, <2>6, <2>7, <3>2
      <4> QED
        BY <4>1, SessionOpens
    <3>3. CASE u \notin {s, n}
      <4>1. /\ dealer'[u] = dealer[u] /\ outbound'[u] = outbound[u]
            /\ member'[u] = member[u] /\ inbound'[u] = inbound[u]
            /\ router'.seen = router.seen
            /\ u > process'.session => u > process.session
        BY <1>1, <1>2, <1>4, <2>2, <2>5, <2>6, <2>7, <3>3, SessionNames
      <4> QED
        BY <4>1, SessionStays
    <3> QED
      BY <3>1, <3>2, <3>3
  <2> QED
    BY <1>3, <2>8, <2>9 DEF SessionInv
<1>7. \/ /\ dealer' = [dealer EXCEPT ![s] = Sessions!ClosedDealer]
         /\ outbound' = [outbound EXCEPT ![s] = <<>>]
         /\ \E ended \in {"lost", "dead"} : process' = [process EXCEPT !.channel = ended]
      \/ /\ process.session < MaxNodeSessions
         /\ \E found \in Sessions!Resolve(TRUE) :
              /\ dealer' = [[dealer EXCEPT ![s] = Sessions!ClosedDealer] EXCEPT ![s + 1] =
                              Sessions!NewDealer(found.endpoint, found.epoch)]
              /\ outbound' = [[outbound EXCEPT ![s] = <<>>] EXCEPT ![s + 1] = <<"register">>]
         /\ process' = [session |-> s + 1, channel |-> "open"]
  BY DEF Sessions!ManagementLost, Sessions!Live
<1> QED
  BY <1>5, <1>6, <1>7

\* A replaced socket starts anew; the same Hub keeps it.
LEMMA Rediscovers ==
    ASSUME SessionInv, NEW s \in Sessions!Sessions, Sessions!Rediscover(s)
    PROVE  SessionInv'
<1>1. dealer[s].open /\ s <= process.session
  BY OpenedBefore DEF Sessions!Rediscover
<1>2. ASSUME s = process.session, Sessions!ManagementLost(s)
      PROVE  SessionInv'
  BY <1>2, LostCloses
<1>3. ASSUME dealer' = [dealer EXCEPT ![s].event = FALSE],
             UNCHANGED <<hub_seed, router, member, outbound, inbound, drops>>,
             process' = process \/ process' = [process EXCEPT !.channel = "dead"]
      PROVE  SessionInv'
  <2>0. dealer \in [Sessions!Sessions -> DealerType]
    BY SessionParts
  <2>1. dealer' \in [Sessions!Sessions -> DealerType]
    BY <1>3, <2>0 DEF DealerType
  <2>2. process' \in [session : 0 .. MaxNodeSessions, channel : {"none", "open", "lost", "dead"}]
        /\ process'.session = process.session
    BY <1>3, SessionParts
  <2>3. SessionType'
    BY <1>3, <2>1, <2>2, SessionParts, TypeFromParts
  <2>4. ASSUME NEW u \in Sessions!Sessions PROVE Once(u)' /\ Unopened(u)' /\ Pinned(u)'
    <3>1. /\ dealer'[u].open = dealer[u].open /\ dealer'[u].registered = dealer[u].registered
          /\ dealer'[u].hub_epoch = dealer[u].hub_epoch
      BY <1>3, <2>0 DEF DealerType
    <3> QED
      BY <1>3, <2>2, <3>1, SessionStays
  <2>5. Sessions!RouteFollowsRegistration' /\ (router'.up => router'.epoch # 0)
    BY <1>3 DEF SessionInv, Sessions!RouteFollowsRegistration
  <2> QED
    BY <2>3, <2>4, <2>5 DEF SessionInv
<1>4. ASSUME NEW found \in Sessions!Resolve(FALSE),
             dealer' = [dealer EXCEPT ![s] = Sessions!NewDealer(found.endpoint, found.epoch)],
             outbound' = [outbound EXCEPT ![s] = <<>>],
             inbound' = [inbound EXCEPT ![s] = <<>>],
             UNCHANGED <<hub_seed, router, member, process, drops>>
      PROVE  SessionInv'
  <2>1. /\ dealer' \in [Sessions!Sessions -> DealerType]
        /\ outbound' \in [Sessions!Sessions -> Seq({"register", "heartbeat"})]
        /\ inbound' \in [Sessions!Sessions -> Seq(MessageType)]
    BY <1>4, FoundType, ClosedType, SessionParts
  <2>2. SessionType'
    BY <1>4, <2>1, SessionParts, TypeFromParts
  <2>3. ASSUME NEW u \in Sessions!Sessions PROVE Once(u)' /\ Unopened(u)' /\ Pinned(u)'
    <3>1. CASE u = s
      <4>1. ~dealer'[u].registered
        BY <1>4, <3>1, SessionParts DEF Sessions!NewDealer
      <4>2. outbound'[u] = <<>> /\ inbound'[u] = <<>> /\ DOMAIN <<>> = {}
        BY <1>4, <3>1, SessionParts
      <4>3. ~Asks(u)' /\ ~Answered(u)'
        BY <4>2 DEF Asks, Answered
      <4>4. Once(u)'
        BY <4>1, <4>2, <4>3 DEF Once
      <4>5. Unopened(u)'
        BY <1>1, <1>4, <3>1, SessionParts, SessionNames DEF Unopened
      <4> QED
        BY <4>1, <4>4, <4>5 DEF Pinned
    <3>2. CASE u # s
      <4>1. dealer'[u] = dealer[u] /\ outbound'[u] = outbound[u] /\ inbound'[u] = inbound[u]
        BY <1>4, <3>2, SessionParts
      <4> QED
        BY <1>4, <4>1, SessionStays
    <3> QED
      BY <3>1, <3>2
  <2>4. Sessions!RouteFollowsRegistration' /\ (router'.up => router'.epoch # 0)
    BY <1>4 DEF SessionInv, Sessions!RouteFollowsRegistration
  <2> QED
    BY <2>2, <2>3, <2>4 DEF SessionInv
<1>5. ASSUME NEW found \in Sessions!Resolve(FALSE), Sessions!Rediscovered(s, found),
             UNCHANGED <<hub_seed, router, member, process, drops>>
      PROVE  SessionInv'
  <2>1. CASE /\ dealer' = [dealer EXCEPT ![s].event = FALSE]
             /\ UNCHANGED <<outbound, inbound>>
    BY <1>3, <1>5, <2>1
  <2>2. CASE /\ dealer' = [dealer EXCEPT ![s] = Sessions!NewDealer(found.endpoint, found.epoch)]
             /\ outbound' = [outbound EXCEPT ![s] = <<>>]
             /\ inbound' = [inbound EXCEPT ![s] = <<>>]
    BY <1>4, <1>5, <2>2
  <2> QED
    BY <1>5, <2>1, <2>2 DEF Sessions!Rediscovered
<1> QED
  BY <1>2, <1>3, <1>5 DEF Sessions!Rediscover, Sessions!Live

\* The Node receives: the registration it waits for pins the epoch on both sides.
LEMMA NodeReceives ==
    ASSUME SessionInv, NEW s \in Sessions!Sessions, Sessions!Receive(s)
    PROVE  SessionInv'
<1>1. /\ dealer[s].open /\ inbound[s] # <<>> /\ s <= process.session
      /\ inbound' = [inbound EXCEPT ![s] = Tail(@)]
      /\ UNCHANGED <<hub_seed, router, outbound, process, drops>>
  BY OpenedBefore DEF Sessions!Receive
<1>2. PICK m : m = Head(inbound[s])
  OBVIOUS
<1>3. \/ /\ Sessions!Passes(s, m)
         /\ dealer' = [dealer EXCEPT ![s].registered = TRUE, ![s].hub_epoch = m.epoch]
         /\ member' = [member EXCEPT ![s] = Sessions!Taken(s, m)]
      \/ UNCHANGED <<dealer, member>>
  BY <1>2 DEF Sessions!Receive
<1>4. inbound[s] \in Seq(MessageType)
  BY SessionParts
<1>5. /\ Tail(inbound[s]) \in Seq(MessageType) /\ 1 \in DOMAIN inbound[s]
      /\ m = inbound[s][1] /\ m \in MessageType
      /\ \A i \in DOMAIN Tail(inbound[s]) :
           /\ i + 1 \in DOMAIN inbound[s] /\ i + 1 # 1
           /\ Tail(inbound[s])[i] = inbound[s][i + 1]
      /\ \A i, j \in DOMAIN Tail(inbound[s]) : i + 1 = j + 1 => i = j
  BY <1>1, <1>2, <1>4, TailFacts
<1>6. /\ inbound' \in [Sessions!Sessions -> Seq(MessageType)]
      /\ inbound'[s] = Tail(inbound[s])
      /\ \A u \in Sessions!Sessions \ {s} : inbound'[u] = inbound[u]
  BY <1>1, <1>5, SessionParts
<1>7. /\ m.epoch \in 0 .. MaxEpochs /\ m.kind \in {"registered", "heartbeat_ack"}
      /\ 0 \in 0 .. missed_acks
  BY <1>5, SessionConstants DEF MessageType, Sessions!Epochs
<1>8. member[s] \in MemberType /\ dealer[s] \in DealerType
  BY SessionParts
<1>9. /\ dealer' \in [Sessions!Sessions -> DealerType]
      /\ member' \in [Sessions!Sessions -> MemberType]
      /\ \A u \in Sessions!Sessions \ {s} : dealer'[u] = dealer[u] /\ member'[u] = member[u]
      /\ dealer'[s].open = dealer[s].open
      /\ \/ /\ m.kind = "registered" /\ ~dealer[s].registered
            /\ dealer'[s].hub_epoch = m.epoch
            /\ member[s].registering => member'[s].hub_epoch = m.epoch /\ ~member'[s].registering
         \/ /\ dealer'[s].registered = dealer[s].registered
            /\ dealer'[s].hub_epoch = dealer[s].hub_epoch
            /\ member'[s].hub_epoch = member[s].hub_epoch
            /\ member'[s].registering = member[s].registering
         \/ m.kind = "registered" /\ dealer[s].registered
  <2>1. CASE UNCHANGED <<dealer, member>>
    BY <2>1, SessionParts
  <2>2. CASE /\ Sessions!Passes(s, m)
             /\ dealer' = [dealer EXCEPT ![s].registered = TRUE, ![s].hub_epoch = m.epoch]
             /\ member' = [member EXCEPT ![s] = Sessions!Taken(s, m)]
    <3>1. Sessions!Taken(s, m) \in MemberType
      BY <1>7, <1>8 DEF Sessions!Taken, MemberType
    <3>2. /\ dealer' \in [Sessions!Sessions -> DealerType]
          /\ \A u \in Sessions!Sessions \ {s} : dealer'[u] = dealer[u]
          /\ dealer'[s].open = dealer[s].open /\ dealer'[s].registered
          /\ dealer'[s].hub_epoch = m.epoch
      <4>1. dealer \in [Sessions!Sessions -> DealerType]
        BY SessionParts
      <4>2. dealer' = [dealer EXCEPT ![s] =
                         [[dealer[s] EXCEPT !.registered = TRUE] EXCEPT !.hub_epoch = m.epoch]]
        BY <2>2, <4>1
      <4>3. /\ [[dealer[s] EXCEPT !.registered = TRUE] EXCEPT !.hub_epoch = m.epoch] \in DealerType
            /\ dealer'[s] = [[dealer[s] EXCEPT !.registered = TRUE] EXCEPT !.hub_epoch = m.epoch]
        BY <1>7, <1>8, <4>1, <4>2 DEF DealerType
      <4> QED
        BY <1>8, <4>1, <4>2, <4>3 DEF DealerType
    <3>3. /\ member' \in [Sessions!Sessions -> MemberType]
          /\ \A u \in Sessions!Sessions \ {s} : member'[u] = member[u]
          /\ member'[s] = Sessions!Taken(s, m)
      BY <2>2, <3>1, SessionParts
    <3>4. CASE m.kind = "registered"
      <4>1. member[s].registering => Sessions!Taken(s, m).hub_epoch = m.epoch
                                     /\ ~Sessions!Taken(s, m).registering
        BY <1>8, <3>4 DEF Sessions!Taken, MemberType
      <4> QED
        BY <3>2, <3>3, <3>4, <4>1
    <3>5. CASE m.kind # "registered"
      <4>1. dealer[s].registered /\ m.epoch = dealer[s].hub_epoch
        BY <2>2, <3>5 DEF Sessions!Passes
      <4>2. /\ Sessions!Taken(s, m).hub_epoch = member[s].hub_epoch
            /\ Sessions!Taken(s, m).registering = member[s].registering
        BY <1>8, <3>5 DEF Sessions!Taken, MemberType
      <4>3. dealer'[s].registered = dealer[s].registered
        BY <1>8, <3>2, <4>1 DEF DealerType
      <4> QED
        BY <3>2, <3>3, <4>1, <4>2, <4>3
    <3> QED
      BY <3>4, <3>5
  <2> QED
    BY <1>3, <2>1, <2>2
<1>10. SessionType'
  BY <1>1, <1>6, <1>9, SessionParts, TypeFromParts
<1>11. Once(s) /\ Pinned(s) /\ process.session \in Nat /\ s \in Nat
  BY SessionParts, SessionNames DEF SessionInv
<1>12. \A i \in DOMAIN inbound'[s] :
         inbound'[s][i].kind = "registered" => Answered(s) /\ m.kind # "registered"
  BY <1>5, <1>6, <1>11 DEF Once, Answered
<1>13. m.kind = "registered" => Answered(s)
  BY <1>5 DEF Answered
<1>14. Once(s)'
  <2>1. \A i, j \in DOMAIN inbound'[s] :
          inbound'[s][i].kind = "registered" /\ inbound'[s][j].kind = "registered" => i = j
    BY <1>5, <1>6, <1>11 DEF Once
  <2>2. outbound' = outbound /\ router' = router /\ (Asks(s)' <=> Asks(s))
    BY <1>1 DEF Asks
  <2>3. Answered(s)' => Answered(s) /\ m.kind # "registered"
    BY <1>12 DEF Answered
  <2>4. CASE m.kind = "registered"
    <3>1. ~Asks(s) /\ ~Answered(s)' /\ member[s].registering /\ ~dealer[s].registered
      BY <1>11, <1>13, <2>3, <2>4 DEF Once
    <3>2. dealer'[s].registered => ~member'[s].registering
      BY <1>3, <1>9, <3>1, <2>4
    <3> QED
      BY <1>11, <2>1, <2>2, <3>1, <3>2 DEF Once
  <2>5. CASE m.kind # "registered"
    BY <1>9, <1>11, <2>1, <2>2, <2>3, <2>5 DEF Once
  <2> QED
    BY <2>4, <2>5
<1>15. Pinned(s)'
  BY <1>9, <1>11, <1>13 DEF Pinned, Once
<1>16. Unopened(s)'
  BY <1>1, <1>11 DEF Unopened
<1>17. ASSUME NEW u \in Sessions!Sessions, u # s
       PROVE  Once(u)' /\ Unopened(u)' /\ Pinned(u)'
  <2>1. dealer'[u] = dealer[u] /\ member'[u] = member[u] /\ inbound'[u] = inbound[u]
    BY <1>6, <1>9, <1>17
  <2> QED
    BY <1>1, <2>1, SessionStays
<1>18. Sessions!RouteFollowsRegistration' /\ (router'.up => router'.epoch # 0)
  BY <1>1 DEF SessionInv, Sessions!RouteFollowsRegistration
<1> QED
  BY <1>10, <1>14, <1>15, <1>16, <1>17, <1>18 DEF SessionInv

\* A heartbeat is sent, or the session given up.
LEMMA NodeBeats ==
    ASSUME SessionInv, NEW s \in Sessions!Sessions, Sessions!Heartbeat(s)
    PROVE  SessionInv'
<1>1. dealer[s].open /\ s <= process.session
  BY OpenedBefore DEF Sessions!Heartbeat
<1>2. CASE Sessions!ManagementLost(s) /\ member[s].beat
  <2>1. s = process.session
    BY <1>2 DEF Sessions!Heartbeat, Sessions!Live
  <2> QED
    BY <1>2, <2>1, LostCloses
<1>3. ASSUME ~(member[s].beat /\ member[s].missed + 1 >= missed_acks),
             member' = [member EXCEPT ![s].beat = TRUE,
                                      ![s].missed = IF member[s].beat THEN @ + 1 ELSE @],
             outbound' = [outbound EXCEPT ![s] = Append(@, "heartbeat")],
             UNCHANGED <<hub_seed, router, dealer, inbound, process, drops>>
      PROVE  SessionInv'
  <2>1. member[s] \in MemberType /\ outbound[s] \in Seq({"register", "heartbeat"})
    BY SessionParts
  <2>2. (IF member[s].beat THEN member[s].missed + 1 ELSE member[s].missed) \in 0 .. missed_acks
    BY <1>3, <2>1, SessionConstants DEF MemberType
  <2>3. /\ member' \in [Sessions!Sessions -> MemberType]
        /\ \A u \in Sessions!Sessions : /\ member'[u].hub_epoch = member[u].hub_epoch
                                        /\ member'[u].registering = member[u].registering
                                        /\ u # s => member'[u] = member[u]
    <3>1. member \in [Sessions!Sessions -> MemberType]
      BY SessionParts
    <3>2. PICK beaten : beaten = IF member[s].beat THEN member[s].missed + 1 ELSE member[s].missed
      OBVIOUS
    <3>3. member' = [member EXCEPT ![s] =
                       [[member[s] EXCEPT !.beat = TRUE] EXCEPT !.missed = beaten]]
      BY <1>3, <3>1, <3>2
    <3>4. /\ [[member[s] EXCEPT !.beat = TRUE] EXCEPT !.missed = beaten] \in MemberType
          /\ member'[s] = [[member[s] EXCEPT !.beat = TRUE] EXCEPT !.missed = beaten]
      BY <2>1, <2>2, <3>1, <3>2, <3>3 DEF MemberType
    <3> QED
      BY <2>1, <3>1, <3>3, <3>4 DEF MemberType
  <2>4. /\ Append(outbound[s], "heartbeat") \in Seq({"register", "heartbeat"})
        /\ \E n \in Nat \ {0} :
             /\ n \notin DOMAIN outbound[s]
             /\ DOMAIN Append(outbound[s], "heartbeat") = DOMAIN outbound[s] \cup {n}
             /\ Append(outbound[s], "heartbeat")[n] = "heartbeat"
             /\ \A i \in DOMAIN outbound[s] :
                  Append(outbound[s], "heartbeat")[i] = outbound[s][i]
    BY <2>1, AppendFacts
  <2>5. /\ outbound' \in [Sessions!Sessions -> Seq({"register", "heartbeat"})]
        /\ outbound'[s] = Append(outbound[s], "heartbeat")
        /\ \A u \in Sessions!Sessions \ {s} : outbound'[u] = outbound[u]
    BY <1>3, <2>4, SessionParts
  <2>6. SessionType'
    BY <1>3, <2>3, <2>5, SessionParts, TypeFromParts
  <2>7. ASSUME NEW u \in Sessions!Sessions PROVE Once(u)' /\ Unopened(u)' /\ Pinned(u)'
    <3>1. CASE u = s
      <4>1. \A i \in DOMAIN outbound'[u] : outbound'[u][i] = "register" =>
              i \in DOMAIN outbound[u] /\ outbound[u][i] = "register"
        BY <2>4, <2>5, <3>1
      <4>2. /\ u <= process.session /\ process.session <= process'.session
            /\ process'.session \in Nat
        BY <1>1, <1>3, <3>1, SessionParts
      <4>3. /\ member'[u].hub_epoch = member[u].hub_epoch
            /\ member'[u].registering = member[u].registering
            /\ inbound'[u] = inbound[u] /\ dealer'[u] = dealer[u] /\ router'.seen = router.seen
        BY <1>3, <2>3
      <4>4. \A i \in DOMAIN inbound'[u] : inbound'[u][i].kind = "registered" =>
              i \in DOMAIN inbound[u] /\ inbound[u][i].kind = "registered"
        BY <4>3
      <4> QED
        BY <4>1, <4>2, <4>3, <4>4, SessionKept
    <3>2. CASE u # s
      <4>1. outbound'[u] = outbound[u] /\ member'[u] = member[u]
        BY <2>3, <2>5, <3>2
      <4> QED
        BY <1>3, <4>1, SessionStays
    <3> QED
      BY <3>1, <3>2
  <2>8. Sessions!RouteFollowsRegistration' /\ (router'.up => router'.epoch # 0)
    BY <1>3 DEF SessionInv, Sessions!RouteFollowsRegistration
  <2> QED
    BY <2>6, <2>7, <2>8 DEF SessionInv
<1> QED
  BY <1>2, <1>3 DEF Sessions!Heartbeat

\* Every step of the sessions keeps their invariant.
LEMMA SessionStep == SessionInv /\ Sessions!Next => SessionInv'
<1> SUFFICES ASSUME SessionInv, Sessions!Next PROVE SessionInv'
  OBVIOUS
<1>1. CASE Sessions!HubStarts \/ Sessions!HubStops
  BY <1>1, HubComesUp, HubGoesDown
<1>2. CASE Sessions!NodeStarts \/ Sessions!RobotReconnects
  BY <1>2, NodeOpens
<1>3. ASSUME NEW s \in Sessions!Sessions,
             \/ Sessions!ConnectionLost(s) \/ Sessions!Connects(s) \/ Sessions!HubReceives(s)
             \/ Sessions!OlderEnds(s) \/ Sessions!Rediscover(s) \/ Sessions!Receive(s)
             \/ Sessions!Heartbeat(s)
      PROVE  SessionInv'
  BY <1>3, ConnectionGoes, ConnectionComes, HubServes, OlderCloses, Rediscovers, NodeReceives,
     NodeBeats
<1> QED
  BY <1>1, <1>2, <1>3 DEF Sessions!Next

----------------------------------------------------------------------------
(* One of the five runs; each keeps its invariant and the others rest.     *)

Inv == part \in Parts /\ RecordInv /\ PiperInv /\ MemoryInv /\ ZmqInv /\ SessionInv

\* Every part starts in its invariant.
LEMMA InvInit == Init => Inv
BY RecordInit, PiperInit, MemoryInit, ZmqInit, SessionInit DEF Inv, Init

\* A step of one part keeps its invariant and leaves the others'.
LEMMA InvStep == Inv /\ [Next]_vars => Inv'
<1> SUFFICES ASSUME Inv, [Next]_vars PROVE Inv'
  OBVIOUS
<1>1. CASE RecordOnly /\ Record!Next
  BY <1>1, RecordStep, PiperStutter, MemoryStutter, ZmqStutter, SessionStutter
  DEF Inv, RecordOnly
<1>2. CASE PiperOnly /\ Piper!Next
  BY <1>2, PiperStep, RecordStutter, MemoryStutter, ZmqStutter, SessionStutter
  DEF Inv, PiperOnly
<1>3. CASE MemoryOnly /\ Memory!Next
  BY <1>3, MemoryStep, RecordStutter, PiperStutter, ZmqStutter, SessionStutter
  DEF Inv, MemoryOnly
<1>4. CASE ZmqOnly /\ Zmq!Next
  BY <1>4, ZmqStep, RecordStutter, PiperStutter, MemoryStutter, SessionStutter
  DEF Inv, ZmqOnly
<1>5. CASE SessionsOnly /\ Sessions!Next
  BY <1>5, SessionStep, RecordStutter, PiperStutter, MemoryStutter, ZmqStutter
  DEF Inv, SessionsOnly
<1>6. CASE UNCHANGED vars
  <2>1. /\ part' = part
        /\ UNCHANGED recordVars /\ UNCHANGED piperVars /\ UNCHANGED memoryVars
        /\ UNCHANGED zmqVars /\ UNCHANGED sessionVars
    BY <1>6 DEF vars
  <2> QED
    BY <2>1, RecordStutter, PiperStutter, MemoryStutter, ZmqStutter, SessionStutter DEF Inv
<1> QED
  BY <1>1, <1>2, <1>3, <1>4, <1>5, <1>6 DEF Next

\* The recorder counts with the Cardinality of FiniteSets.
LEMMA CardinalityOfRecord == \A S : Record!Cardinality(S) = Cardinality(S)
BY DEF Record!Cardinality, Cardinality

\* Every part's state has its type.
THEOREM TypeCorrect == Spec => []TypeOK
<1>1. Inv => TypeOK
  BY DEF Inv, TypeOK, RecordInv, PiperInv, MemoryInv, ZmqInv, SessionInv, SessionType
<1> QED
  BY InvInit, InvStep, <1>1, PTL DEF Spec

\* Whatever interrupts a squeeze, a target starts from where the arm was when that
\* squeeze began: the recorder's clutch (PosesAreFresh) and the Piper processor's
\* anchor (SameSqueeze).
THEOREM NoJump == Spec => []TargetsAreFresh
<1>1. Inv => TargetsAreFresh
  <2>1. RecordInv => Record!PosesAreFresh
    BY DEF RecordInv, PoseInv, Record!PosesAreFresh
  <2>2. PiperInv => Piper!SameSqueeze
    BY DEF PiperInv, PiperPress, Piper!SameSqueeze
  <2> QED
    BY <2>1, <2>2 DEF Inv, TargetsAreFresh
<1> QED
  BY InvInit, InvStep, <1>1, PTL DEF Spec

\* The arm is moved while the operator squeezes and held otherwise, and the engage
\* gate has authority only after a tracked release with this very Handle.
THEOREM OnlyTheOperatorMoves == Spec => []MovedByOperator
<1>1. Inv => MovedByOperator
  <2>1. RecordInv => Record!ServoOnDeadman
    BY DEF RecordInv, ServoInv, Record!ServoOnDeadman
  <2>2. PiperInv => Piper!HeldUnlessEngaged
    BY DEF PiperInv, PiperSent, Piper!HeldUnlessEngaged
  <2>3. PiperInv => Piper!GateNeedsRelease
    BY DEF PiperInv, PiperGate, Piper!GateNeedsRelease
  <2>4. PiperInv => Piper!LossStopsMotion
    BY DEF PiperInv, PiperGate, Piper!LossStopsMotion
  <2> QED
    BY <2>1, <2>2, <2>3, <2>4 DEF Inv, MovedByOperator
<1> QED
  BY InvInit, InvStep, <1>1, PTL DEF Spec

\* A saved episode is exactly one take nobody threw away, and a press of a button
\* or the trigger counts once.
THEOREM EpisodesAreWhole == Spec => []RecordingIsWhole
<1>1. Inv => RecordingIsWhole
  <2> SUFFICES ASSUME RecordInv PROVE RecordingIsWhole
    BY DEF Inv
  <2>1. ASSUME NEW s \in data.saved PROVE Record!Cardinality(s) = 1 /\ s \cap data.discarded = {}
    BY FS_Singleton, CardinalityOfRecord DEF RecordInv, TakesInv
  <2>2. data.pending \subseteq {episode.take}
    BY DEF RecordInv, TakesInv
  <2>3. \A b \in {"a", "b"} : button[b].sent <= 1
    <3> SUFFICES ASSUME NEW b \in {"a", "b"} PROVE button[b].sent <= 1
      OBVIOUS
    <3>1. button[b].sent \in Nat
      BY DEF RecordInv, Record!TypeOK
    <3> QED
      BY <3>1 DEF RecordInv, PressInv
  <2> QED
    <3>1. Record!TakesWhole
      BY <2>1, <2>2 DEF Record!TakesWhole
    <3>2. Record!PressesCounted
      BY <2>3 DEF RecordInv, PressInv, Record!PressesCounted
    <3> QED
      BY <3>1, <3>2 DEF RecordingIsWhole
<1> QED
  BY InvInit, InvStep, <1>1, PTL DEF Spec

\* The recorder and the teleoperation script end with the robot stopped and
\* released, and a ZeroMQ close() that returned has closed its socket with no decode
\* in flight.
THEOREM EndsAreAccounted == Spec => []TeardownAccounted
<1>1. Inv => TeardownAccounted
  <2>1. RecordInv => Record!TeardownAccounted
    BY DEF RecordInv, ServoInv, Record!TeardownAccounted
  <2>2. PiperInv => Piper!TeardownAccounted
    BY DEF PiperInv, PiperSent, Piper!TeardownAccounted
  <2>3. ZmqInv => Zmq!ClosedMeansReleased
    BY DEF ZmqInv
  <2> QED
    BY <2>1, <2>2, <2>3 DEF Inv, TeardownAccounted
<1> QED
  BY InvInit, InvStep, <1>1, PTL DEF Spec

\* The in-process runtime delivers what it accepted, in order and not stale, into
\* one live slot; over ZeroMQ messages go to the session that is registered, from
\* the Hub it registered with.
THEOREM NothingGoesAstray == Spec => []MessagesAccounted
<1>1. Inv => MessagesAccounted
  <2>1. MemoryInv => Memory!OneLiveSlot
    <3> SUFFICES ASSUME MemoryInv PROVE Memory!OneLiveSlot
      OBVIOUS
    <3>1. \A e \in {"publisher", "receiver"} : held[e] # 0 => held[e] \in Memory!Slots
      BY MemoryConstants DEF MemoryInv, Memory!TypeOK, Memory!Slots, Memory!Ends
    <3> QED
      BY <3>1 DEF MemoryInv, NewestOpen, Memory!OneLiveSlot
  <2>2. SessionInv => Sessions!EpochPinned
    BY DEF SessionInv, Pinned, Sessions!EpochPinned
  <2> QED
    BY <2>1, <2>2 DEF Inv, MemoryInv, SessionInv, MessagesAccounted
<1> QED
  BY InvInit, InvStep, <1>1, PTL DEF Spec
=============================================================================
