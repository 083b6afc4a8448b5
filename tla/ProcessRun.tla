------------------------------ MODULE ProcessRun ------------------------------
(***************************************************************************)
(* ProcessRunner.run: a scanner process, the two threads that read what it *)
(* writes, and the thread that watches it, until it has ended by itself,   *)
(* was cancelled or took too long.  ControlTasks has this as one step      *)
(* (EndTool or StopTool).                                                  *)
(*                                                                         *)
(* The process may ignore the signal to terminate, and may leave children  *)
(* behind that keep its pipes open.  The callbacks (an event for each line *)
(* of output, a look at the row of the task) use the database and may      *)
(* raise.  Left out: the output files, which get the lines the result      *)
(* gets, and what the lines say.                                           *)
(***************************************************************************)
EXTENDS Naturals, FiniteSets

CONSTANT MaxLines  \* lines a pipe holds; bound: lines in the queue

ASSUME ProcessRunAssumption == MaxLines \in Nat \ {0}

Stream == {"stdout", "stderr"}

VARIABLES
  process,    \* none, running or ended
  orphan,     \* a child keeps the pipes open
  pipe,       \* lines of each stream that were not read
  reading,    \* the streams whose thread goes on
  queue,      \* output_queue: how many lines are in it
  watcher,    \* what the thread in run does next; "idle" before
  verdict,    \* timed_out, cancelled, or neither
  requested,  \* the task is cancelled
  late,       \* the deadline is past
  joined      \* history: both readers ended before they were given up

outside == <<process, orphan, requested, late>>
runVars    == <<outside, pipe, reading, queue, watcher, verdict, joined>>

RunInit ==
  /\ process = "none" /\ orphan = FALSE /\ requested = FALSE /\ late = FALSE
  /\ pipe = [s \in Stream |-> 0] /\ reading = {} /\ queue = 0
  /\ watcher = "idle" /\ verdict = "none" /\ joined = FALSE

-----------------------------------------------------------------------------
(* Plausible slips, for the mutant runs.                                   *)

\* The deadline is not looked at when the row can be.
AfterProbeMutant(found) == IF found = "cancelled" THEN "stop" ELSE "poll"

-----------------------------------------------------------------------------
(* Outside: the process, its children, the operator and the clock.         *)

Write(s) ==
  /\ process = "running" \/ orphan
  /\ pipe[s] < MaxLines /\ pipe' = [pipe EXCEPT ![s] = @ + 1]
  /\ UNCHANGED <<outside, reading, queue, watcher, verdict, joined>>

\* By itself or because it was told to, with or without leaving a child.
End ==
  /\ process = "running" /\ process' = "ended" /\ orphan' \in BOOLEAN
  /\ UNCHANGED <<requested, late, pipe, reading, queue, watcher, verdict, joined>>

\* The last child that was left closes the pipes.
ChildEnds ==
  /\ orphan /\ orphan' = FALSE
  /\ UNCHANGED <<process, requested, late, pipe, reading, queue, watcher, verdict, joined>>

CancelTask ==
  /\ ~requested /\ requested' = TRUE
  /\ UNCHANGED <<process, orphan, late, pipe, reading, queue, watcher, verdict, joined>>

Expire ==
  /\ watcher # "idle" /\ ~late /\ late' = TRUE
  /\ UNCHANGED <<process, orphan, requested, pipe, reading, queue, watcher, verdict, joined>>

-----------------------------------------------------------------------------
(* _read_stream.                                                           *)

ReadLine(s) ==
  /\ s \in reading /\ pipe[s] > 0 /\ queue < MaxLines
  /\ pipe' = [pipe EXCEPT ![s] = @ - 1] /\ queue' = queue + 1
  /\ UNCHANGED <<outside, reading, watcher, verdict, joined>>

EndOfStream(s) ==
  /\ s \in reading /\ pipe[s] = 0 /\ process = "ended" /\ ~orphan
  /\ reading' = reading \ {s}
  /\ UNCHANGED <<outside, pipe, queue, watcher, verdict, joined>>

-----------------------------------------------------------------------------
(* run.                                                                    *)

\* A program that cannot be started is a result at once.
Launch ==
  /\ watcher = "idle"
  /\ \/ process' = "running" /\ reading' = Stream /\ watcher' = "poll"
     \/ process' = "ended" /\ watcher' = "done" /\ UNCHANGED reading
  /\ UNCHANGED <<orphan, requested, late, pipe, queue, verdict, joined>>

Goes(next) == watcher' = next /\ UNCHANGED <<outside, pipe, reading, queue, verdict, joined>>

Peek == watcher = "poll" /\ Goes(IF process = "ended" THEN "wait" ELSE "drain")

\* _drain_output_queue: a line, and the event that tells it.
HandOn ==
  /\ watcher \in {"drain", "rest"} /\ queue > 0 /\ queue' = queue - 1
  /\ UNCHANGED <<outside, pipe, reading, watcher, verdict, joined>>

\* Only an empty queue lets the loop go on.
Drained ==
  /\ watcher \in {"drain", "rest"} /\ queue = 0
  /\ Goes(IF watcher = "drain" THEN "probe" ELSE "report")

\* The row first, the clock second.
Found == IF requested THEN "cancelled" ELSE IF late THEN "timed_out" ELSE "none"
AfterProbe(found) == IF found = "none" THEN "poll" ELSE "stop"

Probe ==
  /\ watcher = "probe"
  /\ verdict' = Found /\ watcher' = AfterProbe(Found)
  /\ UNCHANGED <<outside, pipe, reading, queue, joined>>

\* _stop_process: the process is told to terminate, and after three seconds it
\* is killed.
Stop == watcher = "stop" /\ Goes("wait")

\* Three seconds later it is killed once more, and waited for.
Kill ==
  /\ watcher = "wait" /\ process = "running"
  /\ process' = "ended" /\ orphan' \in BOOLEAN
  /\ watcher' = "join"
  /\ UNCHANGED <<requested, late, pipe, reading, queue, verdict, joined>>

Waited == watcher = "wait" /\ process = "ended" /\ Goes("join")

\* A reader that does not end within a second is given up.
Join ==
  /\ watcher = "join" /\ watcher' = "rest"
  /\ joined' = (reading = {})
  /\ UNCHANGED <<outside, pipe, reading, queue, verdict>>

Report == watcher = "report" /\ Goes("done")

\* A callback raises; run is left, and nothing ends the process.
Raise ==
  /\ \/ watcher \in {"drain", "rest"} /\ queue > 0
     \/ watcher = "probe"
  /\ Goes("raised")

Watch == Peek \/ HandOn \/ Drained \/ Probe \/ Stop \/ Kill \/ Waited \/ Join \/ Report

RunNext ==
  \/ Launch \/ Watch \/ Raise \/ End \/ ChildEnds \/ CancelTask \/ Expire
  \/ \E s \in Stream : Write(s) \/ ReadLine(s) \/ EndOfStream(s)

RunSpec == RunInit /\ [][RunNext]_runVars

\* Threads run and the clock goes on.  The process, its children and the
\* operator may do nothing at all.
RunFair ==
  /\ WF_runVars(Watch) /\ WF_runVars(Expire)
  /\ \A s \in Stream : WF_runVars(ReadLine(s)) /\ WF_runVars(EndOfStream(s))

-----------------------------------------------------------------------------
\* What a result says: the process has ended, and no line is missing if the
\* readers had ended when they were joined.
Whole ==
  watcher = "done" /\ process = "ended" /\ (joined => queue = 0 /\ \A s \in Stream : pipe[s] = 0)

\* process_runner.py:114: a run that was begun ends with a whole result, even of
\* a process that hangs and ignores signals, unless a callback raises or lines
\* come for ever: then the drain of the queue may never get to the probe and the
\* deadline.
EveryRunEnds ==
  []<>(watcher \in {"idle", "raised"} \/ Whole \/ (watcher # "done" /\ queue > 0))
=============================================================================
