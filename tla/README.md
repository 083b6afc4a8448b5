# Formal model of red_agent

TLA+ specifications of red_agent, checked with TLC and, for the safety
properties that matter most, proved with TLAPS. Paths below are relative to the
repository; `src/...` is its Python source.

## 1. The system

One process on an operator's machine (the command line, or the server of the
desktop client) works over one SQLite file. Almost every write has the same
shape: read a row, decide, change the object, and save **all its columns** with
`UPDATE ... WHERE id = :id`. Nothing re-checks the row at the save. Threads,
request handlers and a possible second process all do this at the same time;
that, together with crashes between two saves, is where the system is hard. The
handlers of the server are coroutines without an `await`: they never interleave
with one another, only with the threads.

| part | state it keeps | operations | interacts with | what is hard | what makes it correct | model |
|---|---|---|---|---|---|---|
| **Session job runtime** `src/orchestration/job_service.py`, `scheduler.py`, `src/runtime/worker.py`, `leases.py` | table `session_jobs`: status, lease, retries, cancellation request | scheduler pass, claim, heartbeat, execute, record outcome, request cancellation | session status, scoped execution, operator | stale whole-row saves, lapsing leases, crashed workers, cancellation at any moment | a lease exactly while running; budget kept; cancellation wins; order of dependencies; every job settles | `JobRuntime` |
| **Scoped execution, admission** `src/app/scoped_execution_service.py`, `src/orchestration/admission.py`, `rate_limits.py`, `src/app/security_tool_execution_service.py`, `evidence_pipeline_service.py` | events of executions, evidence files and rows | validate, admit, confirm, execute in a subprocess, persist | job runtime, session, operator's confirmation | stale whole-row saves under a worker that executes; counters tested before the event they count is written; evidence stored before the outcome | limits kept; an approval is no admission; success has its evidence | `ScopedExecution` |
| **Scope, target admission** `src/orchestration/scope_validator.py`, `src/app/target_admission_service.py` | `ctf_targets`, one policy row | evaluate, propose, approve, reject, patch, request a scan | handlers and the agent's thread | several saves of one decision; lists of a policy that contradict each other | what is approved is in scope; what is rejected is not scanned | `Scope`, `TargetPool` |
| **Planner** `src/orchestration/planner_runtime.py`, `src/app/planner_service.py` | plans, proposals, memory entries | create a plan of facts and a model's answer, apply it | scope policy, job runtime, memory | proposals read once and saved one by one; two consoles; a crash between job and link | a plan within its limits and its policy; one job for each proposal | `PlanBuilder`, `Planner` |
| **Scanner tasks** `src/app/scanner_service.py`, `src/runtime/scanner_tasks.py`, `src/scanners/process_runner.py` | `ctf_tasks`, event log, futures of a pool | create, rerun, cancel, execute | event loop, agent turns, evidence | cancellation against two saves of the executor, restart; a process that writes, hangs or leaves children | a cancelled scan stays cancelled and leaves no evidence; every task settles; a process is over when its result is given | `ControlTasks`, `ProcessRun` |
| **CTF agent** `src/app/ctf_agent_service.py`, `agent_orchestrator.py` | its task, a one-thread pool | a turn, tool calls, inline scans | tasks, targets, records, events | its thread works beside every handler | a turn settles, and so do the scans it runs | `ControlTasks`, `TargetPool`, `Records`, `EventStream` |
| **Event stream** `src/server/ws.py`, `src/app/event_stream_service.py`, `desktop-client/src/lib/` | cursors of each socket, the chat of the client | connect, replay, poll when idle, reply, reconnect, fold into a chat | event log, client | two cursors, pages, sockets that were replaced | no event skipped or shown twice; every event arrives | `EventStream` |
| **Terminals** `src/app/terminal_service.py`, `src/terminal/` | contexts, PTY sessions, active commands, descriptors | open, input, close, tag a command, read loop | reader threads, the kernel's descriptor numbers | a reader that runs before its terminal is registered; numbers that are reused | a terminal is read and written through its own descriptor; commands end; exits are told | `Terminals` |
| **Web conversations, command line, agent loop** `src/web/`, `src/app/execution_service.py`, `session_interaction_service.py`, `src/tools/executor.py`, `src/agent/`, `src/main.py` | a future for each confirmation, session memory | message, module run, tool call, confirm, append, compress | risk policy file, scope, operator | decision against timeout, overlapping turns over one memory | what runs was approved and is in scope; every stream ends | `ToolGate`, `Conversation` |
| **Evidence, findings, attack paths, writeups** `src/scanners/`, `src/app/attack_path_service.py`, `writeup_service.py`, `terminal_service.py` | rows that refer to each other by public ids | persist a scan, clip a command, add node, flag, finding, write up | scans, agent, event loop | identifiers read outside the lock, lists read one after another | references stay in a session; a writeup cites what it read | `Records` |
| **Projects and sessions of the control centre** `src/app/project_service.py`, `target_session_service.py` | rows, directories, `project.json` | create, update, archive | file system | files written before the commit | no row without its files; archived together | `Projects` |
| **Reports of the runtime** `src/app/report_flow_service.py`, `report_service.py`, `src/reporting/` | rows, links, output files | get or create a report, export a session | workers that store records meanwhile | lists read one after another; a file written inside a transaction; two consoles; tables that the control centre drops | a report has its file, links what it names, is made once and stays | `Reports` |
| **Checkpoints** `src/storage/checkpoints.py`, `src/app/checkpoint_service.py` | rows, blobs in files | migrate at every start, save, delete, prune | every process that starts | files moved outside the transaction; two processes; crashes | no row without its blob; a start succeeds in the end | `Checkpoints` |
| **Sessions of the runtime** `src/app/session_service.py` | rows | create, read, update | admission | - | - | status, in `JobRuntime` and `ScopedExecution` |
| **Security tools, modules, tool capabilities** `src/tools/`, `src/app/execution_service.py`, `src/capabilities/` | none | validate, plan steps, classify | scope | - | - | `SecurityTools`, `ToolGate` |
| **Server shell and login, records and queries, rendering, desktop forms** | rows, tokens, text | single inserts, queries, text | everything above | - | - | not modelled (section 5) |

## 2. Modules

```
DependencyOrder     JobRows                                 EventFeed
      ^                ^                                        ^
      | refinement  JobRuntime                                  | refinement
      |                ^                                        |
      +---------- JobProperties <--- MCJobRuntime          EventStream <--- MCEventStream
                       ^                                        ^
                  JobInvariant                            EventStream_proofs
                       ^
                JobRuntime_proofs                 ControlTasks <--- MCControlTasks, ControlTasks_proofs

Scope <------ TargetPool <---- MCProject                  ScopedExecution <--- MCScopedExecution
  ^               |                                             |
  |           Records, Projects                              Reports
  |               |                                             |
  |           Project_proofs (all three)                  ScopedExecution_proofs (both)
  |
SecurityTools <--- PlanBuilder <--- Planner <--- MCPlanner, Planner_proofs
  ^
  +--------------- ToolGate <--- Conversation <--- MCConversation, Conversation_proofs

Terminals, Checkpoints <--- Processes_proofs
Terminals, Checkpoints, ProcessRun <--- MCProcesses
```

An arrow points from a module to what it extends, or implements; the `MC`
modules are the instances for TLC, the `_proofs` modules hold the theorems.

`Scope` is the heart of four of them: what a policy says of a target is one set
of definitions, and the pool of a project, the planner, the gate of the agent
loop and the modules are all built on it. `ScopedExecution` is `JobRuntime` seen
from the other side: there the execution of a claimed job is two steps and its
outcome open; here the row is that of `JobRuntime` without its instants, the
passes are reduced to the rows they read and save, and the execution is taken
apart.

### Job runtime

* `JobRows` - a row, and what each operation writes to it (`Requeued`,
  `Claimed`, `Resolved`, ...), and what a pass looks for (`IsStale`,
  `IsRevoked`, `Doomed`, `Ready`, `IsClaimable`). Instants are kept as the
  comparisons the code makes of them: `lapsed`, `backoff`, `cancel`.
* `JobRuntime` - when rows are read and saved.

  | state | code |
  |---|---|
  | `jobs` | table `session_jobs` |
  | `session` | status of the session, terminal ones merged |
  | `pc`, `todo`, `snap` | where a thread is in `Scheduler.run_once` or `WorkerRuntime.run_once`, the rows its loop has still to save, the copies it holds |
  | `run` | claimed job, lease token, outcome |
  | `request`, `asked` | an operator inside `request_cancellation` |
  | `executions`, `succeeded`, `disturbed` | history; the last are the jobs of which a lease has lapsed or a request was saved |

  A pass is `StartPass`, `RecoverStale`*, `StartCancelLoop`, `CancelWaiting`*,
  `StartBlockLoop`, `BlockDependent`*, `StartEnqueueLoop`, `EnqueueReady`*,
  `EndPass`: one step for each listing, one for each save. A run is `Claim`,
  `FirstHeartbeat`, `CheckCancel` (and `CancelBeforeExecution`), `Admit` or
  `Refuse`, `StartExecution`, `FinishExecution`, `LastHeartbeat`,
  `ReadForOutcome`, `RecordOutcome`, with `HeartbeatLoop` beside it from before
  admission on. `Crash` drops what a thread holds; an exception that leaves
  `run_once` (the `ValueError` of `record_attempt_outcome`, a locked database)
  looks the same to the table. `SaveCancel` writes the row that
  `ReadForCancel` read.

  The claim and the refresh of a lease are single steps, as each is one
  guarded statement or one `BEGIN IMMEDIATE` transaction; everything else is
  read in one step and saved in a later one. The order in which rows are
  visited and claimable jobs are chosen (creation time in the code) is open.
* `DependencyOrder` - the abstract promise: a job starts only after its
  dependencies are done, and is done only after it started. `JobProperties`
  gives the refinement mapping (`started` is `{j : executions[j] > 0}`, `done`
  is `succeeded`).
* `JobProperties`, `JobInvariant`, `MCJobRuntime` - the properties, the
  inductive invariants (`IInv` of any instance, `FleetInv` of one with a single
  scheduler thread, `DrainInv` of a single drain), and the instances for TLC.

### Scoped execution

`ScopedExecution`: workers `Claim` a job and take it through `CheckCancel`,
`Validate`, `Ask` (session and policy), `Confirm`, `CountRunning`, `CountRecent`,
`Start` (which writes the event the rate limit counts), `EndTool`, and then, for
each evidence candidate, `WriteFile`, `AllocateArtifactId`, `InsertArtifact`, then
`AllocateFindingId`, `InsertFinding`, `LinkArtifact`, and at the end `Report`
(the read of `record_attempt_outcome`) and `SaveOutcome`. Each is one transaction
or one file. After an approval the request is admitted **again** from the start
(`AfterApproval`). A worker that dies is one that never steps again.

Beside them are savers, the passes and requests of `JobOrchestrationService`. A
saver reads a row (`ReadRow`: to enqueue it, to close it, to record a request, or
to recover it because its lease has lapsed) and later saves all of it (`SaveRow`),
whatever the row has become. That is how a job is taken from a worker that
executes it, given to another, or given back to one that had lost it; a lapse is
only one of the ways. A pass that holds several copies is several savers. The
claim alone looks at the table.

| state | code |
|---|---|
| `row` | status, retries, cancellation request and lease in `session_jobs`; the attempt stands for the lease token |
| `issued` | how many leases were handed out for a job, so that each has a number of its own |
| `copy` | the `Job` objects that were read, and what each will be saved as |
| `recent` | `execution_started` events younger than a minute; `Age` makes one older |
| `file`, `artifact`, `finding`, `link` | payload files, named by job and ordinal, and the three tables |
| `run`, `pc` | the worker's locals: approval, outcome, ordinal, highest identifier read |
| `moves` | the bound: leases and copies so far |
| `lapses`, `overwritten`, `sawActive` | history: jobs a pass found lapsed, jobs whose row was saved from a copy that was out of date, workers that have seen the session active |

### Scope, the target pool and the planner

* `Scope` - `evaluate` of the scope validator over a policy and a request. A
  target is a record of what its text says (host, URL or not, port, protocol);
  which domains and ranges a host falls under are functions of the instance.
  `Describe` and `Spellings` are the conversions the decision depends on: what
  is asked for must agree with the text, and an entry of the denied list means a
  target in any of its three spellings. `WithTarget` is what an approval adds.
* `TargetPool` - the service, one step for each repository call. A proposal is
  `Propose`, `MatchKey`, `ReadPolicy` (`CreatePolicy`), `Number`, `Insert`,
  `RecordProposal`; an approval `Approve`, `Activate`, `RecordDecision`; a
  rejection `Reject`, `Deny`, `RecordDecision`; `Patch` replaces fields; a scan
  is `RequestScan`, `Gate`, `CreateTask`, `StartScan`. `policy` and `pool` are the
  tables, `last` the last event of each target, `act` what the event loop and the
  agent's thread hold; `approved` and `banned` are history.
* `SecurityTools` - `Validate` is what each of the five tools asks the policy
  for, `Evidence` and `Findings` what a success leaves.
* `PlanBuilder` - `create_plan` as functions of the facts and the model's
  answer: candidates, duplicates, the precheck under the policy, the limit, the
  memory entries. `FallbackCandidates` and `ModelCandidates` are the two ways to
  a plan, `Finalized` what makes proposals of both. The fallback takes up to four
  candidates of a fact (`Slots`); what the code appends one by one unless it has
  seen it is the set of places where a candidate stands first (`FirstOfEach`),
  read in order (`InOrder`). Nothing is recursive, so that it can be proved about.
* `Planner` - `plans` with their rows, `jobs`, `artifacts`, `findings`, `memory`
  are tables, `cons` what a console read. An apply is `Apply` (plan, rows and
  policy are read), then for each row `SkipApplied`, `SkipInvalid` or
  `CreateJob` and `Link`, then `ListRows` and `SavePlan`, with `Crash` anywhere
  in between. `Succeed` feeds the next plan.

### Agent loop, web conversations and command line

* `ToolGate` - what is asked of a tool call before it runs: `Access` of red-team
  mode, `InSessionScope` (the policy a session's targets amount to, evaluated by
  `Scope`), `RiskVerdict` under the risk policy file, `Local` for the executor's
  own checks; and the steps modules plan (`SurfaceRecon`, `WebEnum`).
* `Conversation` - `Start`, then for each call `Invoke`, `CheckRisk`, a wait
  (`Submit`, `Expire`, `Resume`, or `Prompt` on the command line),
  `CheckLocal`, `EndTool`; at the end `StopChoosing`, `AppendQuestion`,
  `AppendSteps`, `Compress`, `Finish`. `pending` is `_pending_confirmations`,
  `risk` the file, `history` and `summary` the shared `SessionState`,
  `snapshot` what a compression was given, `told` how a stream ended;
  `answered`, `inForce`, `age` and `crowded` are history.

### Control centre

* `ControlTasks` - tasks of both pools and inline scans.

  | state | code |
  |---|---|
  | `row` | status and `result_json.ok` in `ctf_tasks` |
  | `event` | the last `task.*` / `agent.workflow.*` event that tells a status |
  | `evidence` | tasks some of whose candidates were persisted |
  | `stage`, `hand`, `caller` | the executor: its place in `execute_pending_task`, `_execute_task`, `_run_adapter` or `run_agent_task`; `result.ok` and the status it saw at its last look; the turn whose thread it uses |
  | `loop` | the event loop, inside at most one handler |
  | `caught` | history: the stage at which a cancellation was saved last |

  `Take` is the pool starting a future, `FirstLook` and `SecondLook` the two
  reads before RUNNING is saved, `SaveRunning`, `LogStarted`; `EndTool` or
  `StopTool` the end of the process, `CloseTool` the look after it,
  `LookAgain` the last read, then `SaveSettled`, `Persist`, `LogSettled`. A
  turn takes the short way: `FirstLook`, `SaveRunning`, `LogStarted`,
  `RunInline`*, `EndTurn`, `SaveSettled`, `LogSettled`. `Stop` is a graceful
  end of the server (queues emptied, threads finish, `lifespan`), `Kill` any
  other end. Tasks of a former server are never submitted again.
* `ProcessRun` - one `ProcessRunner.run`, which `ControlTasks` has as a single
  step. `watcher` is where its loop is: `Launch`, then `Peek`, `HandOn`* and
  `Drained` (the drain of `output_queue`), `Probe`, `Stop`, then `Waited` or
  `Kill`, `Join`, the last drain, `Report`. Readers are `ReadLine` and
  `EndOfStream`; the process may `Write`, `End` and leave a child that keeps its
  pipes (`orphan`) until `ChildEnds`; `CancelTask` and `Expire` are the operator
  and the clock; `Raise` is a callback that fails.
* `EventStream` - `events` is `ctf_events`; each element of `link` is a socket
  with its handler in the server: the page it has still to send (`todo`), the
  cursor of the poll (`last`), the number of the next reply (`sequence`), the
  client's messages (`inbox`) and what is under way (`wire`). The server steps
  with `Accept`, `Refuse`, `SendRow`, `Poll`, `Receive`; the client with
  `Dispatch`, `Send`, `Closes`, `Reconnect`, `Show`. `taken` are the events
  the client has seen of the session it shows, `chat` the steps of each turn as
  `appendExecutionMessage` leaves them (`WithStep`).
* `EventFeed` - the abstract promise: events are logged, and the view of the
  session shown takes them over one by one, in order, none left out and none
  twice. `EventStream` implements it (`FeedSpec`) with `log`, `shown` and `view`
  mapped to the table, the session and what the client has taken; sockets,
  cursors, pages and replays are stutters.
* `Terminals` - `context`, `sessions` and `active` are the dictionaries of the
  service, the manager and the command logger; `table` is the kernel's table of
  descriptors, where a closed number is given away again; `rows` are the
  commands. The event loop opens (`Spawn`, `Register`), types (`Input`,
  `Retire`, `SaveEnd`, `Create`, `Activate`), closes (`Close`, `Release`) and
  tags (`ReadRow`, `SaveTags`); a reader thread is `Poll`, `Select`, `Read`,
  `Leave`, `Exit`, `Finalize`, `SaveExit`, `Tell`; shells `Emit` and `Die`.
* `Records` - `rows` of five kinds, each with its session and the records it
  refers to. A plain create is `Allocate` and `Store` (or `Refused` when the
  number was taken); operations of `AttackPathService` are one transaction;
  a writeup reads list after list (`ReadList`), is checked (`Validate`) and
  stored. `work` is what each thread is in the middle of.
* `Projects` - `draft` is what the open transaction sees, `saved` what is
  committed, `disk` and `manifest` what is in the file system. `Fail` is an
  exception, `Crash` the end of the process.
* `Reports` - clients (consoles, request handlers) `AskFor` one of three
  reports (which is reused when there is one) or `Export` three at once; each
  then takes lists one by one (`ReadList`, in the order `PlanOf` gives), and stores a
  report with `Begin`, `Insert`, `WriteOutput` and `Commit`, unless it meets the
  transaction of another, fails (`Fail`) or dies (`Vanish`). Workers store
  meanwhile. Every construction of a control-centre repository, on the same
  database file, drops the links of the reports and then the reports
  (`DropLinks`, `DropRows`, `control_center.py:289`); the repositories of the
  reports create a missing table again when they are constructed
  (`CreateTable`), and who needs one in between gets an error. `tables` are those
  that exist; `died` and `dropped` are history.
* `Checkpoints` - a start is `Start`, then for each row of the earlier version
  `Look`, `Move`, `Record`, and `Ready`, or `Refuse`, after which the process is
  to be started `Again`. A save is `MakeFolder`, `WriteBlob`, `InsertRow`; a
  delete `Delete`, `DeleteRow`, `Unlink`, `RemoveFolder`; a prune is a list of
  deletes (`Prune`, `TakeNext`). `row` and `file` are what all processes share,
  `writer` is who holds the transaction of a migration, `left` is history.
* `MCControlTasks` has three instances of `ControlTasks` in one, which differ in
  which tasks there are and how many are cancelled.
* `MCProject` puts `TargetPool`, `Records` and `Projects` into one instance:
  they are parts of the same project but share no variable, so each moves alone.
  `MCScopedExecution` does the same with `ScopedExecution` and `Reports`, which
  are made of what it stores, and `MCProcesses` with `Terminals`, `ProcessRun`
  and `Checkpoints`, in which processes and their files are shared with the
  operating system.

## 3. Runs

| run | instance | shows |
|---|---|---|
| `job_drain` | `fetch`, and `report` which depends on it; `fetch` may be retried once; one drain, an operator with one request, one crash | `LeasedIffRunning`, `CancellationPrevails`, `RetryBudgetKept`; and for a single drain: only a stale request can reopen a finished job or buy an execution more than the budget (`ReopenedOnlyByCancel`, `OverspentOnlyByCancel`); `EverySettles`, `CancelAnswered` |
| `job_fleet` | two workers beside one scheduler thread, `fetch` may be retried once | `OneExecutorPerLease`, refinement of `DependencyOrder` (`OrderSpec`) |
| `job_terminal_reopened` | one drain, one request | **violated** `TerminalIsFinal` |
| `execution` | two jobs, one of them gated, one retry; two workers and two savers, four leases or copies in all; both limits 1; two candidates; reports: two clients, lists of one, two records, three reports, and the same with one record while the tables are dropped once | `LimitsKept`, `ApprovalIsRechecked`, `EvidenceKept`; `ReportKept` |
| `reports_dropped` | one client, one report, one construction of a control-centre repository | **violated** `ReportsPersist` |
| `project` | targets: two names of a domain and an address, two rows, one scan, two decisions; records: two sessions, a scan thread, the agent, the event loop, three rows; rows: a project with two sessions | `PolicyBeforeTargets`, `ApprovedStaysInScope`, `DenialBinds`, `ApprovalReportedTrue`, `RejectedKeyBars`; `PathSound`, `WriteupsGrounded`; `ProjectKept` |
| `planner` | two consoles, two policies, an answer with duplicates, garbage and too many entries or none that parses; two plans, two applies, one crash | `JobsAllowed`, `ApplyKept` |
| `conversation` | two messages of one conversation, two one-shot modules, three versions of the risk policy and one edit; two calls each | `RunsAllowed`, `ApprovalHonoured`, `SummaryIncludesTurn`, `EveryStreamEnds` |
| `tasks_turn` | one thread for each pool, and three sizes: a scan that may be submitted or run inline by a turn, both cancelled, one restart; two scans, both cancelled; two scans and two turns | `CancelKept`, `NoEvidenceOnceStopped`, `EventsAgree`, `EverySubmittedSettles` |
| `task_cancel_lost` | one scan | **violated** `CancelIsFinal` |
| `stream` | a turn in each of two sessions, three events, two sockets, replay of two rows and pages of one | refinement of `EventFeed` (`FeedSpec`), `OneVisibleAnswer`, `EveryEventArrives` |
| `processes` | terminals: two, two descriptor numbers, two commands, two close requests; a scanner process: two streams, pipes and a queue of two lines; starts: two processes, two checkpoints left by an earlier version and one to be saved, one crash, a prune that keeps one | `DescriptorKept`, `CommandsEnd`, `EveryExitTold`; `EveryRunEnds`; `BlobsKept`, `EveryStartSucceeds` |

Five properties are conjunctions, named after what they have in common:
`RunsAllowed` of `RunsApproved` and `RunsInScope`; `JobsAllowed` of `PlanSound`
and `JobsWereAllowed`; `ApplyKept` of `TwiceOnlyByRace` and `StatusSumsUp`;
`ReportKept` of `NothingPartial`, `TextMatchesLinks` and `RemadeOnlyByRace`; and
`BlobsKept` of `BlobKept`, `OrphansExplained` and `PruneKeepsLatest`.

The three violations are disagreements between the text and the code:

* **A finished job comes back.** `request_cancellation` reads at
  `job_service.py:123` and saves at 129; what finished in between is
  overwritten. The review note says a terminal job records no request.
* **A cancelled scan runs.** `_execute_task` looks at `scanner_service.py:302`
  and saves RUNNING at 307. The platform document says queued and running
  tasks are marked cancelled.
* **A report is lost.** `ensure_schema` of the control centre drops the three
  tables of the reports (`control_center.py:289`) that `report_service.py` fills
  in the same database file. The repository's README says the project keeps
  persistent reports.

Not a violation of anything the documents say, but a reader should know of it:
with *two* scheduling drains `enqueue_ready_jobs` saves at `job_service.py:105` a
copy listed while the job was pending, although the other drain has enqueued and
claimed it since, and two workers execute one job without any lapse. With one
scheduler thread this takes a lapse or a request (`OneExecutorPerLease`), and
`ScopedExecution`, which has any number of passes, counts it among the saves of
copies out of date.

### What the properties had to concede

Several properties hold only with an exception in them. The exception is
behaviour of the code a reader should know of:

* `OneExecutorPerLease` is of the job, not of the lease: a worker whose lease
  lapsed goes on, the retry lapses too, and the pass that recovers the second
  lease saves its copy over a third claim. Two attempts then execute whose own
  leases never lapsed.
* `LimitsKept`: the rate limit is tested before the event it counts is
  written. A minute may hold one start more for each further worker. And a save
  of an old copy may give a lease back to a worker that goes on executing, after
  another one has counted and not seen it: one holder more than `max_concurrency`
  for each job whose row that happened to. Without such a save the limit is kept.
* `EvidenceKept`: payload files are named by job and ordinal. A worker whose
  lease lapsed, or whose row was saved from a copy out of date, may overwrite the
  file of the attempt that succeeded. The tables have every record of that
  attempt in any case.
* `EverySettles`: a job that admission denies is blocked for good, also when a
  limit was all that stood in its way, and counts as settled.
* `EventsAgree`: a scan whose candidates could not all be persisted has no
  terminal event, and one cancelled just before its executor saves or reports may
  end with the other event.
* `RejectedKeyBars` is of proposals that began after the rejection; one that had
  looked before is stored.
* `DenialBinds`: a rejection is remembered as the target was spelled, and only
  the rejection of a plain host binds every URL of it. A scan that is queued
  when its target is rejected still runs: `execute_pending_task` looks at the
  task only.
* `ApprovedStaysInScope` speaks of hosts and domains: the first approval under
  an empty policy makes a list of it, and what was allowed before by the empty
  list is not any more. Only a patch takes an approved host away.
* `TwiceOnlyByRace`, `StatusSumsUp`: a crash between job and link, or two
  consoles, makes a second job of a proposal; a status derived from rows read
  before another console changed them stays.
* `SummaryIncludesTurn`: what is appended while another turn is being compressed
  is lost with the history, and a second compression is not given the summary of
  the first.
* `ApprovalHonoured`: an approval that is acknowledged just as the wait runs out
  is overruled by the timeout.
* `EveryEventArrives`: the server polls only when no message came for a quarter
  of a second; the property is of a client that goes silent at last.
* `DescriptorKept`: `close` sets a flag nobody looks at. A second close of the
  same terminal closes whatever has its number by then.
* `CommandsEnd`, `EveryExitTold`: a shell that ends before its terminal is
  registered leaves a terminal that is open for ever; tags saved over the end of
  a command reopen it. The master descriptor of a shell that ends by itself is
  never closed.
* `PathSound`: evidence stored before its node was looked up, or before a number
  was refused as not unique, stays off the attack path.
* `EveryRunEnds`: unless the process writes for ever. `_drain_output_queue`
  (`process_runner.py:242`) takes lines until the queue is empty, and each line
  is a stored event: while the process writes as fast as events are stored, the
  probe and the deadline are never reached, although the platform document says
  running processes observe the cancellation probe. A callback that raises (a
  locked database is enough) leaves the process alive. What a child writes after
  the readers were given up is not in the result.
* `NothingPartial`, `TextMatchesLinks`: a client that dies between file and commit
  leaves the file, and so does a drop of the tables; a report between the two
  drops has lost its links.
* `RemadeOnlyByRace`: two clients that look before either has stored make a
  report each, and a report that was dropped is made again. Reuse never asks how
  old a report is.
* `OrphansExplained`: a crash, or an insert that meets a long transaction, leaves
  a blob without a row, and nothing removes it later.
* `EveryStartSucceeds`: a start may be refused while another process migrates or
  deletes; it has to be tried again. Another file where a blob belongs refuses
  every start.
* `ProjectKept`: an update of a session never looks at its project, so a session
  of an archived project can be opened again; the manifest is written before the
  commit and may be ahead of the row after a crash.

### Bounds, and why they are enough

* *Two jobs* give a dependency that fails, is blocked, retried or cancelled
  while its dependent waits. Rows influence each other only through `Doomed`
  and `Ready`. Chains of any length and shape are covered by the proof of
  `OrderSpec` and of the row invariants.
* *One retry* separates "budget left" from "budget spent" and lets both the
  outcome and the recovery of a lease spend it.
* `MaxRequests` = 1 and `MaxCrashes` = 1 in `job_drain`: one request is read in one state of a
  row and saved in another, which is all it takes to undo what happened in
  between; a thread holds at most one run, and a second crash finds the states
  the first one left. Tokens: eight, more than copies of rows can hold at a time
  in these instances; `Claim` needs a free one, and deadlock is checked.
* *Two workers* are enough for the pairwise `OneExecutorPerLease`, and with one
  retry a lapse lets both have a claim of the same job. No request is made in
  that run: it would only put the job among those the property excuses, and
  requests are in `job_drain` (the theorem has any number of them). In
  `execution` two workers are one more than both limits allow.
* `MaxMoves` = 4 and two savers: two copies of one row can be read before either
  is saved, with a claim before and after, so that two workers execute one job, by
  a lapse or without one, or a lease goes back to a worker that had lost it while
  another was admitted. `Candidates` = 2: a pipeline that ends between two
  candidates.
* *Targets*: two names of one registrable domain, of which one is also proposed
  as a URL, and an address in a range; so a key that bars another target, a host
  reached by two spellings, and a value no domain covers all occur. Two rows and
  two decisions: approve and reject, or either with a patch, of the same target
  or of two.
* *Records*: `MaxRows` = 3 counts rows stored or begun; evidence, finding and
  node of one scan fit, or two scans that race for a number, or a writeup beside
  a scan. The instance was also explored with four rows without the scan thread.
* *Planner*: the answer is longer than `MaxProposed` (2) and its margin; two
  applies of two plans, by one console or both; a policy that shrinks in between.
* *Stream*: three events exceed the replay (2) and the page (1); two sockets give
  one that was replaced.
* *Conversation*: two messages overlap at every step; two calls each allow a
  confirmation after another. *Terminals*: two numbers, so that the second
  terminal gets the number of the first; two closes, so that a close can come
  after that.
* *Reports*: lists of one are shorter than two artifacts; three reports are an
  export, or three kinds, or one kind asked for again. One drop meets a report in
  every stage of another client and of an export; with it, one record is enough
  for there to be links or none. *Process*: a queue of two
  is empty, in between and full. *Checkpoints*: two old ones, so that a migration
  can be cut short between them; one that is saved and one that is kept, so that
  a prune deletes several; one crash, of either process at any step.
* *Tasks*: two scans and two turns are more than each pool has threads, so that
  tasks wait behind one another while turns run scans inline, which is what could
  block; two scans that are both cancelled, one of them in the queue. A restart
  and a cancellation of a turn are in the instance with one of each: executors of
  different tasks touch no common row, and after a restart every task of the
  former server is in the same stage `lost`.
* Symmetry is used where the permuted set is used for nothing but its members
  (workers, consoles), and in no run that checks liveness. Deadlock is checked
  for the job runtime, where the session, the operators or the passes can always
  step. Elsewhere the system really may stop: all tasks are settled, all bounds
  reached, the operator asks for nothing.

### Fairness

*Job runtime.* Each thread that can step does: passes and runs are loops of
plain calls, the subprocess has a deadline (`normalize_timeout` gives every
tool one and `isolation.py` enforces it). This also says that `drain` is called
again and again. It leaves off after a pass without changes and nothing to
claim (`worker.py:165`), and no service, route or command of the repository
calls it yet, only its tests, so liveness is liveness *while somebody drains*.
Instants pass: `retry_after`, and the lease of a job no live worker refreshes. A
lease in use need not lapse. Nothing is asked of operators, session or crashes;
`EverySettles` asks the session to be active from some time on.

*Tasks.* The pools' threads step, a scanner process does not write for ever (it
is then cut off by the deadline, `EveryRunEnds` of `ProcessRun`), a turn makes
a bounded number of calls and handlers never wait. No request need come.

*Event stream.* The event loop runs every handler, the network delivers what is
under way, a socket the server closed is noticed and the client's timer fires.
Nobody need log an event, send a message or drop a connection.

*Conversation.* The steps of a message: the event loop goes on, the thread of a
turn runs, a tool and the model answer, and the timeout of a confirmation fires.
The operator need not answer, and the command line, which waits for a person
without a timeout, is under no fairness.

*Terminals.* The handlers of the event loop finish, reader threads step, and a
shell that was hung up ends. A shell need not end or write by itself.

*Process.* The watcher and the readers step, and the clock passes the deadline.
The process may hang, ignore the signal or leave its pipes to a child.

*Checkpoints.* A process that is to start goes on with its migration, and is
started again when it was refused or died. Nobody need save or delete.

## 4. Proofs

TLC looks at the instances of section 3; TLAPS proves the theorems below for
every value of the constants. They assume what the modules assume of their
constants (that dependencies and budgets are functions, that a placeholder such
as `NoJob` is none of the things it stands beside, that bounds are numbers) and,
for two theorems about fewer threads, what is named there. Every inductive
invariant was first checked with TLC.

| property | theorem | for any |
|---|---|---|
| `LeasedIffRunning`, `CancellationPrevails`, `RetryBudgetKept` | `LeaseMatchesStatus`, `CancellationWins`, `RetriesBounded` | jobs, dependencies, budgets, threads, operators, requests, crashes |
| `OrderSpec` | `OrderImplemented` | the same |
| `OneExecutorPerLease` | `ExecutorIsAlone` | the same, with one scheduler thread (`OneScheduler`) |
| `OverspentOnlyByCancel`, `ReopenedOnlyByCancel` | `ExecutionsBounded`, `TerminalUnlessCancelled` | the same, with one thread that is scheduler and worker (`SingleDrain`) |
| `CancelKept`, `NoEvidenceOnceStopped`, `EventsAgree` | `CancelOutlastsScan`, `CancelledLeavesNothing`, `EventsTellStatus` | scans, turns, pools, restarts |
| `LimitsKept`, `ApprovalIsRechecked`, `EvidenceKept` | `LimitsHold`, `ApprovalRechecked`, `EvidenceHolds` | jobs, workers, passes and requests, limits, retries, lapses, candidates |
| `ReportKept` | `ReportsHold` | clients, artifacts, findings, reports, lengths of lists, drops |
| `PolicyBeforeTargets`, `ApprovedStaysInScope`, `DenialBinds`, `ApprovalReportedTrue`, `RejectedKeyBars` | `PolicyFirst`, `ApprovedHolds`, `DenialHolds`, `ReportHolds`, `RejectedBars` | hosts, domains, ranges, targets, patches, decisions |
| `PathSound`, `WriteupsGrounded` | `PathHolds`, `WriteupsHold` | sessions, rows, threads, refused numbers |
| `ProjectKept` | `ProjectHolds` | sessions, updates, failures, crashes |
| `DescriptorKept`, `CommandsEnd` | `DescriptorHolds`, `CommandsEnded` | terminals, descriptor numbers, commands, close requests |
| `BlobsKept` | `BlobsHold` | processes, checkpoints, crashes |
| `JobsAllowed`, `ApplyKept` | `JobsHold`, `ApplyHolds` | hosts, policies, answers, limits, consoles, applies, crashes |
| `RunsAllowed`, `ApprovalHonoured`, `SummaryIncludesTurn` | `RunsHold`, `ApprovalHolds`, `SummaryHolds` | messages, module runs, targets, versions of the policy, calls |
| `FeedSpec`, `OneVisibleAnswer` | `FeedImplemented`, `AnswerAlone` | sessions, turns, events, sockets, messages, limits |

`TypeCorrect`, `TasksTyped`, `ExecutionTyped`, `PoolTyped`, `StreamTyped`,
`PlannerTyped` and `ConversationTyped` are the type invariants; the other modules have theirs inside
the invariant of the proof, where nothing but the proof needs it.
`InvariantHolds`, `TasksInvariant`, `ConversationInvariance`,
`PlannerInvariance` and the theorems `Invariance` state the inductive invariants
themselves.

### The arguments

*Job runtime.* None of the properties is inductive as it stands: a stale copy may
be saved over anything, so a statement about the table says nothing of the next
save. `IInv` therefore states `Sound` of *every copy of every row in the
system*: table, passes, workers, requests. Each operation makes a sound row of a
sound one (`SoundGrows`, `ClosedSound`, `RequeuedSound`, ...), so no copy need be
current. Two things are needed beside it: what kind of rows a loop listed
(`ListedAsKind`), because `EnqueueReady` clears nothing of the lease, and that
requests are of rows that were not terminal (`RequestSound`). Sound copies carry
that whoever is queued or running has all dependencies recorded as succeeded
(`succeeded` never shrinks), so `StartExecution` maps to `Start` of
`DependencyOrder`, a recorded success to `Complete`, and everything else to a
stutter.

The other two need copies that *are* current, and hold only with fewer threads.
`FleetInv` (one scheduler): of a job not `disturbed`, no copy has a lapsed lease,
at most one worker has it in hand, and whoever is about to enqueue it still finds
it pending, for only the scheduler itself takes a row out of that status. With
two schedulers it is false. `DrainInv` (one drain): a row that
asks for no cancellation accounts for every execution (`Accounted`), and a row
about to be overwritten is not terminal (`HeldOpen`); with a second thread the
copies a pass holds would have to be current again.

*Tasks.* The history `caught` splits the cancellations by the stage they met.
`KeptRow`: a scan cancelled at any stage but `starting` and `settling` keeps its
row, is never about to save RUNNING, and once about to settle has seen the
cancellation. `CleanHand`: cancelled before the tool had ended, it holds no good
result from then on. `NothingYet`: before the tool has ended there is no evidence
to take back. For the events, `Told` says which are still to come, and from whom:
the handler and the executor may both be about to log one, in either order.

*Scoped execution.* Stale saves are what makes this hard, so the invariant says of
every copy in hand what its save can do (`Copied`): a worker saves the end of the
attempt in its hands, a saver the lease it has read, given up only if it had
lapsed. Leases are numbered, so no two workers hold the same one (`Distinct`), and
only a lapse or a copy out of date parts a worker from its row (`Parted`). The
concurrency limit is of the *steady* holders, those whose row was never
overwritten (`SteadyInv`): they have distinct jobs, and each of these rows was
counted by whoever checked after it. Every other holder has an overwritten job of
its own, which is the bound of `LimitsKept`. The rate limit counts the workers
between its test and their event (`RateInv`), which is where the one start more
for each further worker comes from. Evidence needs how far each attempt is in the
tables (`Tabled`) and, while nothing has parted its worker from the row, in the
files (`Filed`); an approval, that it leads back to the check of the session
(`Awake`).

*Reports.* That nothing partial is left needs that ids are handed out once and
that whoever has inserted a row holds the write lock (`Making`). That a text names
and counts nothing the report does not link needs the order of the lists: what
is counted is read before what is linked, and nothing is taken away in between
(`Drafted`); and that a report with links is one that the drop of the links marks.
That a report is made again only by a race needs that what a client has seen is
none of what is being made (`Seen`, `Looked`). A drop takes rows away and no file,
which is why ids and not positions are compared (`DroppingKeeps`).

*Targets.* `Fits` says of each step in hand what the tables have done for it: what
is about to be inserted has found a policy; what was barred when it began is
still barred or was given the status rejected; whoever remembers that a host was
banned scans another. `PoolInv` adds that what was approved is in a list of the
policy and what was banned is in its denied list, whose members no operation but
a patch removes.

*Planner.* A plan is sound when it is made (`BuiltSound`), whatever the facts and
the answer are: the number of a proposal is its rank among the proposed rows, so
the ranks up to the limit are 1 to their number (`FirstRanks`); two proposals of
the fallback are different candidates, and its candidates have default arguments,
so they differ in tool or target. It stays sound because an apply saves rows that
propose what was read (`SameJobs`), and what was read proposes what is stored,
however old it is (`Reads`). One apply creates one job of a row because the rows
a console has left are distinct and none of them has a job of this apply
(`JobsMade`). For the status, a console that applies a plan which is not torn is
alone with it (`Alone`): what it lists at the end is what is stored when it saves
the status. Steps in which nobody applies a plan keep all of that by one lemma
(`QuietSteps`). `PlannerTyped` needs what the rows refer to (`Referred`): a console
that is about to link a row holds the job that it made of it, an artifact or a
finding is of a host that a job worked on (`EvidenceHost`), and so are the entries
made of them (`MemoryOfJobs`); jobs are only ever added (`JobsGrow`).

*Conversation.* A call keeps, from the moment it is invoked until its tool ends,
that the policy file of now is among those in force and that it is in the scope
of its session (`InHand`); what that scope covers follows from the definitions
of `Scope`, tool by tool. The future of a request, as long as somebody waits for
it, tells the first answer or that the wait expired (`Answered`), and a call past
the gate that had to be confirmed was approved in time (`Cleared`). For the
summary, a turn that the compression under way is to include was in the copy it
was given, or was appended beside it (`Seen`).

*Records.* A record is stored with references to ids known when it was read, and
tables only grow (`Grown`), so that what a scan, an agent or a writeup has in
hand stays good however many records are stored meanwhile (`WorkFits`). *Projects.*
`ProjectKept` is of what is committed; it needs what the handler at work may have
put into its transaction (`Drafted`) and that the directory and the manifest were
written first (`Prepared`).

*Terminals.* `Numbers`: a descriptor number is its owner's, and a terminal that
has lost its number was closed, or the one that had it before was closed twice.
`Commands` and `Lifecycle` say who is to end a command that runs; registering and
exiting happen once each, in either order. *Checkpoints.* `Sound` says for each
process what its copies still allow it to do to a row and its files: a file is
moved before its row is recorded, removed only after it, and no two saves have
the same id.

*Event stream.* `Gapless` says of the socket the client listens to that nothing
can be skipped: every event of the session before one that is on the wire was
taken or comes earlier on that wire; one before a row of the page still to send
may be in the page too; and those up to the cursor of the poll are out of the
page. Of replaced sockets nothing is assumed, nor of the numbers of the replies.
A message then either repeats what was taken or is the next event (`NextIs`), so
`Dispatch` maps to `TakeNext` or a stutter, a `Record` to `LogEvent`, and changing
the session to `Show`. For the chat, a turn records its answer once, after its
drafts and before its summary (`Answered`), and what the client has taken is an
initial part of the session's events (`Prefix`): a draft can never follow the
answer it would stand beside.

### Only model-checked

* Liveness (`EverySettles`, `CancelAnswered`, `EverySubmittedSettles`,
  `EveryEventArrives`, `EveryStreamEnds`, `EveryExitTold`, `EveryRunEnds`,
  `EveryStartSucceeds`), which is out of the prover's reach.
* What `ProcessRun` does within one run of a process: its one property,
  `EveryRunEnds`, is a liveness property.
* The violations of section 3, which are counterexamples.

## 5. What is left out

Everywhere: texts, messages, log entries, tool output, layout. Statuses and the
fields that decide about them are kept.

* *Checkpoints* are modelled although only tests save, delete or prune at this
  commit; the migration runs at every start. Other sessions and what a blob
  contains are left out.
* *Server shell and login*: routing and serialisation; tokens are a set in
  memory that one thread adds to and removes from.
* *Records and queries, dashboards*: single inserts and reads.
* A crash of the server in the middle of one operation of `Records`, as between
  the evidence of a terminal and its node (`terminal_service.py:158` and 179):
  what was stored by then stays, as after a refusal.
* *Drops of the report tables*: links to artifacts and links to findings are one
  table in `Reports`, dropped in one step.
* *Command line*: commands that call one service and print what it returns; the
  parsing of input. The agent loop, module runs and the prompt are modelled.
* *Tools and scanners*: what the network, `nmap`, `ffuf`, `nuclei` and the shell
  answer is an argument; so is what the language model says.
* *Desktop client*: everything but its socket and its chat.
* SQLite failures other than as a `Crash` of the job runtime, a `Fail` or `Crash`
  of `Projects`, a refused public id in `ScopedExecution`, `TargetPool` and
  `Records`; in the tasks only the persisting of candidates may raise. `Terminals`
  has no failing repositories.
* The scheduler of one session only: jobs of different sessions never meet.
* `max_iterations` of a drain, the order of claims, the one-minute windows other
  than as `Age`.
* `create_initial_target` and the module bridge of the controller
  (`MODULE_RUNTIME`), which nothing at this commit calls.
* Descriptors that anything but a terminal opens, and the sizes of terminals.

## 6. What could come next

What is modelled is complete as far as it was planned: every safety property and
every refinement a run checks has a theorem, and what is left to TLC is liveness.
A model for which there is no need yet: the commands of the prompt that change
what a session is (`src/main.py`), which call one service each; and, once a
command or route drains a session by itself, its loop in place of the fairness
that `job_drain` assumes.
