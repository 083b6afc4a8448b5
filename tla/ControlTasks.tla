---------------------------- MODULE ControlTasks ----------------------------
(***************************************************************************)
(* Tasks of the control centre: scans submitted over HTTP, agent turns,    *)
(* and the scans an agent turn runs inline on its own thread.              *)
(*                                                                         *)
(* Two kinds of actor share the table ctf_tasks and the event log.  The    *)
(* request handlers create and cancel tasks; they are coroutines that      *)
(* never await, so the event loop runs one at a time, to the end.  The     *)
(* executors are threads of two pools.  Both read a task, and later        *)
(* overwrite its whole row (TaskRepository.update): every read and every   *)
(* save is a step of its own.  The queue of a pool is a set: which of the  *)
(* queued tasks is taken first is left open.                               *)
(***************************************************************************)
EXTENDS Naturals, FiniteSets

CONSTANTS
  Scan,         \* scan tasks
  Agent,        \* agent_analysis tasks
  ScanPool,     \* threads of ScannerTaskRuntime
  AgentPool,    \* threads of CTFAgentTaskRuntime
  NoTask,       \* no task in hand
  MaxRestarts   \* bound: restarts of the server

Task == Scan \cup Agent

ASSUME TaskAssumption ==
  /\ Scan \cap Agent = {}
  /\ NoTask \notin Task
  /\ MaxRestarts \in Nat

VARIABLES
  row,       \* the table: status, and the ok of result_json
  event,     \* the kind of the last status event logged for each task
  evidence,  \* tasks whose candidates have been persisted, even in part
  stage,     \* where the executor of each task stands
  hand,      \* the executor: result.ok, and whether it saw a cancellation
  caller,    \* the agent task on whose thread a scan runs, if any
  loop,      \* the event loop: the handler it runs, its task, the row it read
  caught,    \* history: where the executor stood when a cancellation was
             \* saved last
  restarts   \* restarts so far

stored == <<row, event, evidence>>
thread == <<stage, hand, caller>>
vars   == <<stored, thread, loop, caught, restarts>>

Settled == {"succeeded", "failed", "cancelled"}
Row     == [status : {"absent", "pending", "running"} \cup Settled,
            result : {"none", "good", "bad"}]
Event   == {"none", "queued", "started"} \cup Settled

\* Up to the save of RUNNING, while the tool runs, and from its end on.
Arriving == {"created", "queued", "taken", "admitted", "starting"}
Working  == {"started", "running", "ended"}
Leaving  == {"closing", "settling", "persisting", "reporting"}
Held     == (Arriving \cup Working \cup Leaving) \ {"created", "queued"}
Stage    == {"none", "over", "broken", "dropped", "lost"}
              \cup Arriving \cup Working \cup Leaving

Idle == [op |-> "idle", task |-> NoTask, row |-> [status |-> "absent",
                                                  result |-> "none"]]

Init ==
  /\ row = [t \in Task |-> Idle.row]
  /\ event = [t \in Task |-> "none"]
  /\ evidence = {}
  /\ stage = [t \in Task |-> "none"]
  /\ hand = [t \in Task |-> [good |-> FALSE, stop |-> FALSE]]
  /\ caller = [t \in Task |-> NoTask]
  /\ loop = Idle
  /\ caught = [t \in Task |-> "never"]
  /\ restarts = 0

-----------------------------------------------------------------------------
(* Plausible slips, each in place of a definition below in a mutant run.   *)

\* The last save of a scan does not look at the row again.
SawCancelMutant(t) == FALSE
\* The tool's result is taken as it is, cancelled or not.
StillWantedMutant(t) == TRUE
\* The event carries the outcome of the tool, not the status saved.
ReportedMutant(t) == IF hand[t].good THEN "succeeded" ELSE "failed"
\* A turn goes on only after a scan that did not raise.
ReturnedMutant(a) == \A u \in Scan : caller[u] = a => stage[u] = "over"

-----------------------------------------------------------------------------
(* Executors.                                                              *)

Cancelled(t)   == row[t].status = "cancelled"
\* _execute_task, the row read again once the tool has ended.
SawCancel(t)   == Cancelled(t)
\* _run_adapter, the row read again once the process has ended.
StillWanted(t) == ~Cancelled(t)

\* The status an executor settles its task with.
Verdict(t) == IF hand[t].stop THEN "cancelled"
              ELSE IF hand[t].good THEN "succeeded" ELSE "failed"

\* The status its last event tells of.
Reported(t) == Verdict(t)

Move(t, from, to) == stage[t] = from /\ stage' = [stage EXCEPT ![t] = to]

\* The tasks of a pool that hold a thread of it.
Busy(pool) == {u \in pool : stage[u] \in Held /\ caller[u] = NoTask}

Room(t) == IF t \in Scan THEN Cardinality(Busy(Scan)) < ScanPool
                         ELSE Cardinality(Busy(Agent)) < AgentPool

Take(t) ==
  /\ Room(t) /\ Move(t, "queued", "taken")
  /\ UNCHANGED <<stored, hand, caller, loop, caught, restarts>>

\* execute_pending_task and run_agent_task: the first look at the row.  A
\* scan that is not PENDING raises; an agent turn does not ask.
FirstLook(t) ==
  /\ Move(t, "taken",
       IF Cancelled(t) \/ (t \in Scan /\ row[t].status # "pending") THEN "over"
       ELSE IF t \in Scan THEN "admitted" ELSE "starting")
  /\ UNCHANGED <<stored, hand, caller, loop, caught, restarts>>

\* _execute_task: the second look.
SecondLook(t) ==
  /\ Move(t, "admitted", IF Cancelled(t) THEN "over" ELSE "starting")
  /\ UNCHANGED <<stored, hand, caller, loop, caught, restarts>>

\* The object of the first look is saved as RUNNING.
SaveRunning(t) ==
  /\ Move(t, "starting", "started")
  /\ row' = [row EXCEPT ![t] = [status |-> "running", result |-> "none"]]
  /\ UNCHANGED <<event, evidence, hand, caller, loop, caught, restarts>>

LogStarted(t) ==
  /\ Move(t, "started", "running")
  /\ event' = [event EXCEPT ![t] = "started"]
  /\ UNCHANGED <<row, evidence, hand, caller, loop, caught, restarts>>

\* The process ends by itself, at its deadline, or never started.
EndTool(t) ==
  /\ t \in Scan /\ Move(t, "running", "ended")
  /\ \E good \in BOOLEAN : hand' = [hand EXCEPT ![t].good = good]
  /\ UNCHANGED <<stored, caller, loop, caught, restarts>>

\* The probe sees the cancellation and the process is stopped.
StopTool(t) ==
  /\ t \in Scan /\ Cancelled(t) /\ Move(t, "running", "closing")
  /\ hand' = [hand EXCEPT ![t].good = FALSE]
  /\ UNCHANGED <<stored, caller, loop, caught, restarts>>

CloseTool(t) ==
  /\ Move(t, "ended", "closing")
  /\ hand' = [hand EXCEPT ![t].good = @ /\ StillWanted(t)]
  /\ UNCHANGED <<stored, caller, loop, caught, restarts>>

LookAgain(t) ==
  /\ Move(t, "closing", "settling")
  /\ hand' = [hand EXCEPT ![t].stop = SawCancel(t)]
  /\ UNCHANGED <<stored, caller, loop, caught, restarts>>

\* The scans run for a turn are over, whether they returned or raised.
Returned(a) == \A u \in Scan : caller[u] = a => stage[u] \notin Held

\* A tool call of the agent's turn: create_scan_task creates a scan and
\* executes it on the agent's thread.
RunInline(a, s) ==
  /\ a \in Agent /\ stage[a] = "running" /\ Returned(a)
  /\ s \in Scan /\ row[s].status = "absent"
  /\ row' = [row EXCEPT ![s] = [status |-> "pending", result |-> "none"]]
  /\ stage' = [stage EXCEPT ![s] = "admitted"]
  /\ caller' = [caller EXCEPT ![s] = a]
  /\ UNCHANGED <<event, evidence, hand, loop, caught, restarts>>

\* The turn ends; the row is not looked at again.
EndTurn(a) ==
  /\ a \in Agent /\ Returned(a) /\ Move(a, "running", "settling")
  /\ \E good \in BOOLEAN : hand' = [hand EXCEPT ![a].good = good]
  /\ UNCHANGED <<stored, caller, loop, caught, restarts>>

SaveSettled(t) ==
  /\ Move(t, "settling",
          IF t \in Scan /\ hand[t].good THEN "persisting" ELSE "reporting")
  /\ row' = [row EXCEPT ![t] =
       [status |-> Verdict(t),
        result |-> IF hand[t].good THEN "good" ELSE "bad"]]
  /\ UNCHANGED <<event, evidence, hand, caller, loop, caught, restarts>>

\* Evidence, findings and attack path nodes, one insertion each; an exception
\* half way leaves the future, and the terminal event is never logged.
Persist(t) ==
  /\ \E next \in {"reporting", "broken"} : Move(t, "persisting", next)
  /\ evidence' \in {evidence, evidence \cup {t}}
  /\ UNCHANGED <<row, event, hand, caller, loop, caught, restarts>>

LogSettled(t) ==
  /\ Move(t, "reporting", "over")
  /\ event' = [event EXCEPT ![t] = Reported(t)]
  /\ UNCHANGED <<row, evidence, hand, caller, loop, caught, restarts>>

Execute(t) ==
  \/ Take(t)     \/ FirstLook(t) \/ SecondLook(t) \/ SaveRunning(t)
  \/ LogStarted(t) \/ EndTool(t) \/ StopTool(t)   \/ CloseTool(t)
  \/ LookAgain(t)  \/ EndTurn(t) \/ SaveSettled(t) \/ Persist(t)
  \/ LogSettled(t)

-----------------------------------------------------------------------------
(* Request handlers, one at a time.                                        *)

Handle(from, to) == loop.op = from /\ loop' = [loop EXCEPT !.op = to]
Finish(from)     == loop.op = from /\ loop' = Idle

\* POST /tasks, /tasks/{id}/rerun and /agent/messages.
CreateTask(t) ==
  /\ loop.op = "idle" /\ row[t].status = "absent"
  /\ row' = [row EXCEPT ![t] = [status |-> "pending", result |-> "none"]]
  /\ stage' = [stage EXCEPT ![t] = "created"]
  /\ loop' = [Idle EXCEPT !.op = "announce", !.task = t]
  /\ UNCHANGED <<event, evidence, hand, caller, caught, restarts>>

Announce ==
  /\ Handle("announce", "submit")
  /\ event' = [event EXCEPT ![loop.task] = "queued"]
  /\ UNCHANGED <<row, evidence, thread, caught, restarts>>

Submit ==
  /\ Finish("submit") /\ Move(loop.task, "created", "queued")
  /\ UNCHANGED <<stored, hand, caller, caught, restarts>>

\* POST /tasks/{id}/cancel: any task that is neither settled nor absent.
ReadForCancel(t) ==
  /\ loop.op = "idle" /\ row[t].status \in {"pending", "running"}
  /\ loop' = [op |-> "cancel", task |-> t, row |-> row[t]]
  /\ UNCHANGED <<stored, thread, caught, restarts>>

SaveCancel ==
  /\ Handle("cancel", "cancelled")
  /\ row' = [row EXCEPT ![loop.task] =
               [loop.row EXCEPT !.status = "cancelled", !.result = "bad"]]
  /\ caught' = [caught EXCEPT ![loop.task] = stage[loop.task]]
  /\ UNCHANGED <<event, evidence, thread, restarts>>

LogCancelled ==
  /\ Handle("cancelled", "drop")
  /\ event' = [event EXCEPT ![loop.task] = "cancelled"]
  /\ UNCHANGED <<row, evidence, thread, caught, restarts>>

\* cancel_pending: only the scanner runtime is asked, and only a future that
\* no thread has taken is cancelled.
Droppable(t) == t \in Scan /\ stage[t] = "queued"

DropFuture ==
  /\ Finish("drop")
  /\ stage' = IF Droppable(loop.task)
                THEN [stage EXCEPT ![loop.task] = "dropped"] ELSE stage
  /\ UNCHANGED <<stored, hand, caller, caught, restarts>>

Handler == Announce \/ Submit \/ SaveCancel \/ LogCancelled \/ DropFuture

-----------------------------------------------------------------------------
\* The server ends, and another begins with empty pools; no task found in the
\* table is submitted to them.  When it stops, between requests, the queues
\* are emptied and the threads finish their tasks; when it is killed, nothing
\* goes on.
Restart(lost) ==
  /\ restarts < MaxRestarts
  /\ restarts' = restarts + 1
  /\ stage' = [t \in Task |-> IF stage[t] \in lost THEN "lost" ELSE stage[t]]
  /\ loop' = Idle
  /\ UNCHANGED <<stored, hand, caller, caught>>

Stop == loop.op = "idle" /\ Restart({"queued"})
Kill == Restart(Arriving \cup Working \cup Leaving)

Next ==
  \/ \E t \in Task : Execute(t) \/ CreateTask(t) \/ ReadForCancel(t)
  \/ \E a \in Agent, s \in Scan : RunInline(a, s)
  \/ Handler
  \/ Stop
  \/ Kill

Spec == Init /\ [][Next]_vars

\* A thread runs on, a tool ends (ProcessRunner has a deadline), a turn makes
\* a bounded number of calls, a handler never waits.
Fairness == WF_vars(Handler) /\ \A t \in Task : WF_vars(Execute(t))

FairSpec == Spec /\ Fairness

-----------------------------------------------------------------------------
(* Properties.                                                             *)

TypeOK ==
  /\ row \in [Task -> Row]
  /\ event \in [Task -> Event]
  /\ evidence \subseteq Scan
  /\ stage \in [Task -> Stage]
  /\ hand \in [Task -> [good : BOOLEAN, stop : BOOLEAN]]
  /\ caller \in [Task -> Agent \cup {NoTask}]
  /\ loop \in [op : {"idle", "announce", "submit", "cancel", "cancelled", "drop"},
               task : Task \cup {NoTask}, row : Row]
  /\ loop.op # "idle" => loop.task \in Task
  /\ caught \in [Task -> Stage \cup {"never"}]
  /\ restarts \in 0..MaxRestarts

\* A saved cancellation of a scan is lost only if it came between the
\* executor's last look at the row and its save; while the task is queued,
\* while the tool runs and until the last look, it is final.
CancelKept ==
  \A s \in Scan :
    caught[s] # "never" /\ ~Cancelled(s) => caught[s] \in {"starting", "settling"}

\* A scan cancelled before its tool had ended leaves no evidence, unless the
\* cancellation itself was lost at the start.
NoEvidenceOnceStopped ==
  \A s \in evidence : caught[s] \notin (Arriving \cup Working) \ {"starting"}

\* Once a scan is over and no handler is at it, the last event logged for it
\* tells the status of its row, unless a cancellation came while the executor
\* was about to save or to report.
EventsAgree ==
  \A s \in Scan :
    stage[s] \in {"over", "dropped"} /\ loop.task # s /\ restarts = 0 =>
      \/ event[s] = row[s].status
      \/ caught[s] \in {"starting", "settling", "persisting", "reporting"}

\* Without a restart, every submitted task is settled: queued behind others,
\* cancelled, or started by an agent's turn.
EverySubmittedSettles ==
  \A t \in Task :
    stage[t] = "queued" ~> (row[t].status \in Settled \/ restarts > 0)

\* "cancellation marks queued/running tasks cancelled": a cancelled task
\* stays cancelled.
CancelIsFinal ==
  [][\A t \in Task : Cancelled(t) => row'[t].status = "cancelled"]_row
=============================================================================
