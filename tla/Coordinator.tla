---------------------------- MODULE Coordinator ----------------------------
(***************************************************************************)
(* The multi-task dashboard (scripts/dashboard.py): the main loop prepares  *)
(* the selected task, asks for confirmation, runs it and goes on with a     *)
(* batch; the keyboard thread handles one key at a time.  They share the    *)
(* dictionary `state`.  A handler looks at the status without the lock and  *)
(* writes afterwards, so the main loop may be elsewhere by then.            *)
(***************************************************************************)
EXTENDS Integers, Sequences

CONSTANT NumTasks       \* tasks of the configuration; the last is rule-based

VARIABLES
    batch,    \* the configured batch: ids of tasks, known or not
    state,    \* the shared dictionary
    job,      \* the main loop: where it is and what it took from `state`
    key,      \* the handler in progress, between its check and its writes
    requested,\* the proxy's request thread was asked for an action since it started,
              \* so a request may be under way
    history   \* [lagging, derailed, aborted]: what the properties account for

vars == <<batch, state, job, key, requested, history>>

Tasks == 1 .. NumTasks
NoTask == 0
Batches == {<<>>, <<NumTasks + 1>>, <<1, NumTasks + 1>>, <<1, NumTasks>>}

\* Mutant: a task can be selected while another is prepared.
SelectableBusy == {"selecting", "error", "done", "aborted", "presetting"}

Selectable == {"selecting", "error", "done", "aborted"}
Running == {"executing", "paused"}
Asking == "awaiting_confirm"
Answers == {"none", "yes", "no"}

\* A question of user_confirm: its kind and its task.
Questions == [kind : {"none", "start", "retry", "again"}, task : {NoTask} \cup Tasks]
NoQuestion == [kind |-> "none", task |-> NoTask]

Idle == [at |-> "idle", task |-> NoTask, policy |-> NoTask, old |-> "selecting",
         question |-> NoQuestion, confirmed |-> NoQuestion, manual |-> FALSE]
NoKey == [name |-> "none", task |-> NoTask, question |-> NoQuestion]

TypeOK ==
    /\ batch \in Batches
    /\ state \in [status : Selectable \cup Running \cup {Asking, "presetting"},
                  curr_task : {NoTask} \cup Tasks, pause : BOOLEAN, abort : BOOLEAN,
                  finish : BOOLEAN, retry : BOOLEAN, batch_index : -1 .. 1,
                  running : BOOLEAN, confirm_result : Answers, answered : Questions]
    /\ job \in [at : {"idle", "claimed", "proxy", "robot", "execute", "started", "asking",
                      "reset", "loop", "acting", "finished", "advance", "blocked", "ended"},
                task : {NoTask} \cup Tasks, policy : {NoTask} \cup Tasks,
                old : Selectable \cup Running \cup {Asking}, question : Questions,
                confirmed : Questions, manual : BOOLEAN]
    /\ key.name \in {"none", "digit", "status", "enter", "esc", "yes", "no", "batch", "retry",
                     "pause", "abort", "finish"}
    /\ key.task \in {NoTask} \cup Tasks /\ key.question \in Questions
    /\ requested \in BOOLEAN
    /\ history \in [lagging : BOOLEAN, derailed : BOOLEAN, aborted : BOOLEAN]

Init ==
    /\ batch \in Batches
    /\ state = [status |-> "selecting", curr_task |-> NoTask, pause |-> FALSE, abort |-> FALSE,
                finish |-> FALSE, retry |-> FALSE, batch_index |-> -1, running |-> TRUE,
                confirm_result |-> "none", answered |-> NoQuestion]
    /\ job = Idle /\ key = NoKey /\ requested = FALSE
    /\ history = [lagging |-> FALSE, derailed |-> FALSE, aborted |-> FALSE]

----------------------------------------------------------------------------
(* The main loop: run, process_selected_task, execute_single_task.         *)

Goto(where) == job' = [job EXCEPT !.at = where]

\* An exception anywhere in a task leaves the status to the operator.
Fail == /\ state' = [state EXCEPT !.status = "error"]
        /\ job' = Idle
        /\ history' = [history EXCEPT !.derailed = @ \/ state.batch_index >= 0]

Claim ==
    /\ job.at = "idle"
    /\ IF ~state.running THEN Goto("ended")
       ELSE state.curr_task # NoTask /\ state.status = "selecting" /\ Goto("claimed")
    /\ UNCHANGED <<state, history>>

\* The status is written before the task is read; Escape may have cleared it.
BeginPreset ==
    /\ job.at = "claimed"
    /\ IF state.curr_task = NoTask THEN Fail
       ELSE /\ state' = [state EXCEPT !.status = "presetting"]
            /\ Goto("proxy")
            /\ UNCHANGED history

\* set_proxy: switch to the task's policy.  The old request thread is joined
\* without a time-out, and a request the server never answers holds it for ever;
\* a thread that was joined is gone, whether the new connection fails or not.
SetProxy ==
    /\ job.at = "proxy"
    /\ \/ state.curr_task = NoTask /\ Fail /\ UNCHANGED requested
       \/ /\ state.curr_task # NoTask /\ requested
          /\ Goto("blocked")
          /\ UNCHANGED <<state, requested, history>>
       \/ state.curr_task # NoTask /\ Fail /\ requested' = FALSE
       \/ /\ state.curr_task # NoTask
          /\ job' = [job EXCEPT !.at = "robot", !.policy = state.curr_task]
          /\ requested' = FALSE
          /\ UNCHANGED <<state, history>>

\* set_robot: bring arms, chassis and torso into place.
SetRobot ==
    /\ job.at = "robot"
    /\ \/ Fail
       \/ /\ state.curr_task # NoTask
          /\ state' = [state EXCEPT !.status = "executing"]
          /\ Goto("execute")
          /\ UNCHANGED history

\* Mutant: an earlier answer is still there.
AskAgain(kind, task) ==
    /\ job' = [job EXCEPT !.at = "asking", !.task = task, !.old = state.status,
                          !.manual = @ \/ kind = "start",
                          !.question = [kind |-> kind, task |-> task]]
    /\ state' = [state EXCEPT !.status = Asking]

\* user_confirm: the previous answer is discarded.
Ask(kind, task) ==
    /\ job' = [job EXCEPT !.at = "asking", !.task = task, !.old = state.status,
                          !.manual = @ \/ kind = "start",
                          !.question = [kind |-> kind, task |-> task]]
    /\ state' = [state EXCEPT !.status = Asking, !.confirm_result = "none",
                              !.answered = NoQuestion]

Execute ==
    /\ job.at = "execute"
    /\ IF state.curr_task = NoTask THEN Fail
       ELSE /\ IF state.batch_index < 0 THEN Ask("start", state.curr_task)
               ELSE /\ job' = [job EXCEPT !.at = "started", !.task = state.curr_task]
                    /\ UNCHANGED state
            /\ UNCHANGED history

\* A retry is confirmed a second time, before it begins.
Started ==
    /\ job.at = "started"
    /\ IF state.retry THEN Ask("retry", job.task) ELSE Goto("reset") /\ UNCHANGED state
    /\ UNCHANGED history

\* The answer, or No once the program ends, and what follows from it.
Answered ==
    /\ job.at = "asking" /\ (state.confirm_result # "none" \/ ~state.running)
    /\ LET yes == state.confirm_result = "yes"
           confirmed == IF yes THEN state.answered ELSE job.confirmed
           next == IF job.question.kind = "again" THEN (IF yes THEN "idle" ELSE "advance")
                   ELSE IF ~yes THEN "finished"
                   ELSE IF job.question.kind = "start" THEN "started" ELSE "reset"
       IN /\ state' = [state EXCEPT
                 !.status = IF next \in {"idle", "finished"} THEN "selecting" ELSE job.old,
                 !.curr_task = IF next = "finished" THEN NoTask ELSE @,
                 !.answered = NoQuestion,
                 !.retry = IF next = "idle" THEN TRUE ELSE IF next = "reset" THEN FALSE ELSE @]
          /\ job' = IF next = "idle" THEN Idle
                    ELSE [job EXCEPT !.at = next, !.confirmed = confirmed,
                                     !.question = NoQuestion, !.old = "selecting"]
    /\ UNCHANGED history

Reset ==
    /\ job.at = "reset"
    /\ state' = [state EXCEPT !.pause = FALSE, !.abort = FALSE, !.finish = FALSE]
    /\ history' = [history EXCEPT !.aborted = FALSE]
    /\ Goto("loop")

\* Mutant: finish wins over abort.
EndingFinish == IF state.abort /\ ~state.finish THEN "aborted" ELSE "done"

\* The end of execute_single_task: aborted if it was asked for, else done.
Ending == IF state.abort THEN "aborted" ELSE "done"

\* The budget may be used up at any time.
Loop ==
    /\ job.at = "loop"
    /\ \/ /\ state' = [state EXCEPT !.status = Ending]
          /\ Goto("finished")
       \/ /\ state.running /\ ~state.abort /\ ~state.finish
          /\ state' = [state EXCEPT !.status = IF state.pause THEN "paused" ELSE "executing"]
          /\ Goto(IF state.pause THEN "loop" ELSE "acting")
    /\ UNCHANGED history

\* The rest of an iteration.  A rule-based task is one move.  A policy is asked
\* for an action, which require_action awaits for ever when the server or the
\* request thread is gone, or the proxy was stopped.
Act ==
    /\ job.at = "acting"
    /\ \/ /\ job.policy = NumTasks
          /\ state' = [state EXCEPT !.status = Ending] /\ Goto("finished")
          /\ UNCHANGED <<requested, history>>
       \/ /\ job.policy # NumTasks
          /\ requested' = TRUE
          /\ Goto("loop") \/ Goto("blocked")
          /\ UNCHANGED <<state, history>>
       \/ Fail /\ requested' \in {requested, requested \/ job.policy # NumTasks}

\* process_selected_task goes on with the batch, or leaves the rest to the operator.
Finished ==
    /\ job.at = "finished"
    /\ CASE state.batch_index < 0 -> job' = Idle /\ UNCHANGED <<state, history>>
         [] state.batch_index >= 0 /\ state.status = "done" ->
                Goto("advance") /\ UNCHANGED <<state, history>>
         [] state.batch_index >= 0 /\ state.status # "done" /\ state.curr_task # NoTask ->
                Ask("again", state.curr_task) /\ UNCHANGED history
         [] OTHER -> Fail

\* Mutant: the end of the batch does not clear the index.
AdvanceKeepsIndex ==
    /\ job.at = "advance"
    /\ LET i == state.batch_index + 1
           more == i < Len(batch) /\ batch[i + 1] \in Tasks
       IN state' = [state EXCEPT !.status = "selecting",
              !.curr_task = IF more THEN batch[i + 1] ELSE NoTask,
              !.batch_index = IF more THEN i ELSE @]
    /\ job' = Idle
    /\ UNCHANGED history

Advance ==
    /\ job.at = "advance"
    /\ LET i == state.batch_index + 1
           more == i < Len(batch) /\ batch[i + 1] \in Tasks
       IN state' = [state EXCEPT !.status = "selecting",
              !.curr_task = IF more THEN batch[i + 1] ELSE NoTask,
              !.batch_index = IF more THEN i ELSE -1]
    /\ job' = Idle
    /\ UNCHANGED history

JobStep ==
    /\ \/ /\ \/ Claim \/ BeginPreset \/ SetRobot \/ Execute \/ Started \/ Answered
             \/ Reset \/ Loop \/ Finished \/ Advance
          /\ UNCHANGED requested
       \/ SetProxy \/ Act
    /\ UNCHANGED <<batch, key>>

----------------------------------------------------------------------------
(* The keyboard thread: a handler's check, then what it writes.            *)

Check(name, task) ==
    key' = [name |-> name, task |-> task, question |-> job.question]

\* select_task_by_key is refused while a batch runs; Enter then only replays.
\* Bound: no further key once a handler wrote on a status that had changed.
PressKey ==
    /\ key = NoKey /\ state.running /\ ~history.lagging
    /\ \/ \E task \in Tasks :
            /\ state.status \in Selectable /\ state.batch_index < 0
            /\ Check("digit", task)
       \/ /\ state.status \in {"error", "done", "aborted"} /\ state.batch_index >= 0
          /\ state.curr_task # NoTask /\ Check("enter", NoTask)
       \/ state.status \in Selectable /\ Check("esc", NoTask)
       \/ state.status = Asking /\ \E name \in {"yes", "no"} : Check(name, NoTask)
       \/ state.status = "selecting" /\ batch # <<>> /\ Check("batch", NoTask)
       \/ state.status = "error" /\ Check("retry", NoTask)
       \/ state.status \in Running
          /\ \E name \in {"pause", "abort", "finish"} : Check(name, NoTask)
    /\ UNCHANGED <<batch, state, job, requested, history>>

\* The status the handler saw no longer is what it decided on.
Stale(statuses) ==
    \/ state.status \notin statuses
    \/ key.name \in {"yes", "no"} /\ job.question # key.question

WriteWhen(statuses, changes) ==
    /\ state' = changes
    /\ history' = [history EXCEPT !.lagging = @ \/ Stale(statuses)]

Select ==
    /\ key.name = "digit"
    /\ WriteWhen(Selectable, [state EXCEPT !.curr_task = key.task])
    /\ key' = [key EXCEPT !.name = "status"]

SelectStatus ==
    /\ key.name = "status"
    /\ WriteWhen(Selectable, [state EXCEPT !.status = "selecting"])
    /\ key' = NoKey

Retry ==
    /\ key.name \in {"enter", "retry"}
    /\ WriteWhen({"error", "done", "aborted"}, [state EXCEPT !.status = "selecting"])
    /\ key' = NoKey

Escape ==
    /\ key.name = "esc"
    /\ state' = [state EXCEPT !.curr_task = NoTask, !.status = "selecting"]
    /\ history' = [history EXCEPT !.lagging = @ \/ Stale(Selectable),
                                  !.derailed = @ \/ state.batch_index >= 0]
    /\ key' = NoKey

Confirm ==
    /\ key.name \in {"yes", "no"}
    /\ WriteWhen({Asking}, [state EXCEPT !.confirm_result = key.name, !.answered = key.question])
    /\ key' = NoKey

\* handle_batch: the index is set even if the first task is not known.
StartBatch ==
    /\ key.name = "batch"
    /\ LET known == batch[1] \in Tasks IN
       /\ state' = [state EXCEPT !.batch_index = 0,
                                 !.curr_task = IF known THEN batch[1] ELSE NoTask]
       /\ history' = [history EXCEPT !.lagging = @ \/ Stale({"selecting"}),
                                     !.derailed = ~known]
    /\ key' = NoKey

Pause ==
    /\ key.name = "pause"
    /\ WriteWhen(Running, [state EXCEPT !.pause = ~@,
                               !.status = IF state.pause THEN "executing" ELSE "paused"])
    /\ key' = NoKey

Abort ==
    /\ key.name = "abort"
    /\ state' = [state EXCEPT !.abort = TRUE]
    /\ history' = [history EXCEPT !.lagging = @ \/ Stale(Running),
                                  !.aborted = @ \/ job.at \in {"loop", "acting"}]
    /\ key' = NoKey

Finish ==
    /\ key.name = "finish"
    /\ WriteWhen(Running, [state EXCEPT !.finish = TRUE])
    /\ key' = NoKey

\* stop_main_loop: the flag the loop and its questions look at; the components
\* it then stops, the proxy among them, are why require_action may not return.
Quit ==
    /\ key = NoKey /\ state.running
    /\ state' = [state EXCEPT !.running = FALSE]
    /\ UNCHANGED <<batch, job, key, requested, history>>

HandlerStep ==
    /\ \/ Select \/ SelectStatus \/ Retry \/ Escape \/ Confirm \/ StartBatch
       \/ Pause \/ Abort \/ Finish
    /\ UNCHANGED <<batch, job, requested>>

Next == JobStep \/ PressKey \/ HandlerStep \/ Quit

Fairness == WF_vars(JobStep) /\ WF_vars(HandlerStep)
Spec == Init /\ [][Next]_vars /\ Fairness

----------------------------------------------------------------------------
\* The policy that moves the robot is that of the task that runs.
PolicyOfTask ==
    job.at \in {"loop", "acting"} /\ ~history.lagging => job.policy = job.task

\* A task the operator chose runs after the operator said Yes to its question,
\* and a retry of a batch task after Yes to that one.
StartConfirmed ==
    job.at \in {"loop", "acting"} /\ ~history.lagging /\ (job.manual \/ job.confirmed # NoQuestion)
        => job.confirmed.task = job.task /\ job.confirmed.kind \in {"start", "retry"}

\* An abort that came after the flags were cleared ends the task as aborted.
AbortHonoured == job.at = "finished" /\ state.status = "done" => ~history.aborted

\* An idle dashboard takes keys: its status is one a handler accepts.
NeverStuck ==
    job.at = "idle" /\ state.running /\ ~history.lagging => state.status \in Selectable

\* Tasks can be selected again once a batch has come to its end; an error or
\* Escape in the middle of one, or an unknown first task, leaves it running.
BatchLockAccounted ==
    job.at = "idle" /\ state.curr_task = NoTask /\ state.batch_index >= 0
        => history.lagging \/ history.derailed

\* What must come to an end: the main loop once the operator quits, unless it
\* waits for a request that is not answered: in require_action, or to switch the
\* policy after such a request.
Pending == ~state.running /\ job.at \notin {"ended", "blocked"}
=============================================================================
