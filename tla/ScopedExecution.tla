-------------------------- MODULE ScopedExecution ---------------------------
(***************************************************************************)
(* What a claimed job goes through before its outcome is recorded:         *)
(* validation, admission (session, scope, confirmation, concurrency, rate  *)
(* limit), the tool in its subprocess, and the evidence pipeline that      *)
(* writes files, artifact rows, findings and links.                        *)
(*                                                                         *)
(* Admission is a series of reads in transactions of their own, and the    *)
(* event that the rate limit counts is written after the last of them; a   *)
(* public identifier is the highest one read before the insert, plus one.  *)
(* The row is that of JobRuntime without its instants: a claim and the     *)
(* tests of ownership look at the table, every other save overwrites the   *)
(* row with a copy that was read earlier.  Passes and requests are         *)
(* reduced to that: savers, each with one copy in hand (a pass that has    *)
(* listed several rows is several savers).  Left open are whether a row's  *)
(* lease has lapsed, which jobs it depends on, and whether the policy has  *)
(* the target in scope (module Scope says which targets it has).  A job    *)
(* that failed, timed out, was blocked or was cancelled is over.           *)
(***************************************************************************)
EXTENDS Naturals, FiniteSets

CONSTANTS
  Job,             \* the jobs of one session
  Worker,          \* threads that execute them
  Saver,           \* threads in scheduler passes and requests of operators
  NoJob,           \* an idle worker's job
  Gated,           \* jobs whose tool or category is in confirmation_required_actions
  RetryLimit,      \* retry_limit of every job
  MaxConcurrency,  \* policy.max_concurrency (positive)
  RateLimit,       \* policy.rate_limit_per_minute
  Candidates,      \* evidence candidates a successful tool returns
  MaxMoves         \* bound: leases handed out, and rows read by savers

ASSUME ExecutionAssumption ==
  /\ IsFiniteSet(Job) /\ IsFiniteSet(Worker)
  /\ NoJob \notin Job /\ Worker \cap Saver = {}
  /\ Gated \subseteq Job
  /\ RetryLimit \in Nat
  /\ MaxConcurrency \in Nat \ {0}
  /\ RateLimit \in Nat \ {0}
  /\ Candidates \in Nat \ {0}
  /\ MaxMoves \in Nat

VARIABLES
  row,         \* table session_jobs: status, retries, attempt, cancel requested
  issued,      \* leases handed out per job: a token is the number of its lease
  copy,        \* rows that were read, and what each thread will save instead
  moves,       \* leases handed out and rows read by savers, so far
  session,     \* status of the session
  pc,          \* what each worker does next
  run,         \* the attempt in its hands, what it has read and what it will report
  recent,      \* execution_started events of the last minute
  file,        \* the attempt whose payload is in the file of <<job, ordinal>>, or 0
  artifact,    \* rows of artifacts: job, ordinal, and the attempt their hash is of
  finding,     \* findings: <<job, attempt>>
  link,        \* artifacts linked to the finding of their attempt
  lapses,      \* history: jobs whose lease a pass has found lapsed
  overwritten, \* history: jobs whose row was saved from a copy that was out of date
  sawActive    \* history: the session has been active since the claim or approval

rowVars  == <<row, issued, copy, moves>>
evidence == <<file, artifact, finding, link>>
past     == <<lapses, overwritten>>
vars     == <<rowVars, session, pc, run, recent, evidence, past, sawActive>>

Thread  == Worker \cup Saver
Ordinal == 1..Candidates
Paths   == Job \X Ordinal

NoRun == [job |-> NoJob, attempt |-> 0, approved |-> FALSE, outcome |-> "none",
          ordinal |-> 1, seen |-> 0]

\* A row's attempt is its lease, or the last one once that is given back.
NewRow == [status |-> "pending", retries |-> 0, attempt |-> 0, cancel |-> FALSE]
NoCopy == [job |-> NoJob, from |-> NewRow, to |-> NewRow]

Enqueued(r)       == [r EXCEPT !.status = "queued"]
Closed(r, status) == [r EXCEPT !.status = status]

\* The jobs have been created, and earlier passes have enqueued some of them.
Init ==
  /\ row \in [Job -> {NewRow, Enqueued(NewRow)}]
  /\ issued = [j \in Job |-> 0]
  /\ copy = [t \in Thread |-> NoCopy] /\ moves = 0
  /\ session = "active"
  /\ pc = [w \in Worker |-> "idle"]
  /\ run = [w \in Worker |-> NoRun]
  /\ recent = 0
  /\ file = [p \in Paths |-> 0]
  /\ artifact = {} /\ finding = {} /\ link = {}
  /\ lapses = {} /\ overwritten = {}
  /\ sawActive = [w \in Worker |-> TRUE]

-----------------------------------------------------------------------------
(* Plausible slips in the operators below, for the mutant runs.            *)

\* A limit is tested with <= instead of <.
HasRoomMutant(used, limit) == used <= limit
\* An approval is taken for an admission.
AfterApprovalMutant == "admitted"
\* A finding that was inserted ends the pipeline.
AfterFindingMutant == "report"

-----------------------------------------------------------------------------
(* Helpers.                                                                *)

Owns(w) == /\ run[w].job \in Job
           /\ row[run[w].job].status = "running"
           /\ row[run[w].job].attempt = run[w].attempt

Goto(w, place) == pc' = [pc EXCEPT ![w] = place]

\* The execution is over and execute_job returns this outcome; what else the
\* worker held is of no use any more.
Outcome(w, status) ==
  /\ run' = [run EXCEPT ![w] = [NoRun EXCEPT !.job = run[w].job,
                                             !.attempt = run[w].attempt,
                                             !.outcome = status]]
  /\ Goto(w, "report")

\* JobRepository.count_running with exclude_job_id.
OthersRunning(w) == {j \in Job \ {run[w].job} : row[j].status = "running"}

\* check_concurrency and check_rate_limit.
HasRoom(used, limit) == used < limit

\* artifact_payload_relative_path: job label, ordinal, type of the candidate.
Path(j, n) == <<j, n>>

ArtifactRow(w) == [job |-> run[w].job, ordinal |-> run[w].ordinal,
                   attempt |-> run[w].attempt]

\* claim_next_queued: a new lease (the token, a uuid, is one nobody had).
Claimed(j) == [row[j] EXCEPT !.status = "running", !.attempt = issued[j] + 1]

\* record_attempt_outcome and recover_stale_leases, once the row has been read.  A
\* request to cancel comes first; another attempt follows if the budget allows.
Retried(r) ==
  IF r.retries < RetryLimit THEN [r EXCEPT !.status = "queued", !.retries = @ + 1]
                            ELSE Closed(r, "over")

Resolved(r, outcome) ==
  IF r.cancel \/ outcome = "refused" THEN Closed(r, "over")
  ELSE IF outcome = "succeeded" THEN Closed(r, "succeeded") ELSE Retried(r)

\* A thread has read the row of job j and will save r instead.
Prepare(t, j, r) == copy' = [copy EXCEPT ![t] = [job |-> j, from |-> row[j], to |-> r]]

\* JobRepository.update: the row as computed, whatever the table holds.
Save(t) ==
  LET j == copy[t].job IN
  /\ row' = [row EXCEPT ![j] = copy[t].to]
  /\ overwritten' = IF row[j] = copy[t].from THEN overwritten ELSE overwritten \cup {j}
  /\ copy' = [copy EXCEPT ![t] = NoCopy]

-----------------------------------------------------------------------------
(* Claim and validation.                                                   *)

\* claim_next_queued_job looks for jobs of active sessions only.  A worker that
\* had this row may be executing it still.
Claim(w) ==
  /\ pc[w] = "idle" /\ session = "active"
  /\ moves < MaxMoves /\ moves' = moves + 1
  /\ \E j \in Job :
       /\ row[j].status = "queued"
       /\ row' = [row EXCEPT ![j] = Claimed(j)]
       /\ issued' = [issued EXCEPT ![j] = @ + 1]
       /\ run' = [run EXCEPT ![w] = [NoRun EXCEPT !.job = j, !.attempt = issued[j] + 1]]
  /\ Goto(w, "check")
  /\ sawActive' = [sawActive EXCEPT ![w] = TRUE]
  /\ UNCHANGED <<copy, session, recent, evidence, past>>

\* cancel_running_if_requested, its read.
CheckCancel(w) ==
  /\ pc[w] = "check"
  /\ IF Owns(w) /\ row[run[w].job].cancel
       THEN /\ Prepare(w, run[w].job, Closed(row[run[w].job], "over"))
            /\ Goto(w, "save")
       ELSE Goto(w, "validate") /\ UNCHANGED copy
  /\ UNCHANGED <<row, issued, moves, session, run, recent, evidence, past, sawActive>>

\* The tool refuses the arguments or the target: nothing is admitted.
Validate(w) ==
  /\ pc[w] = "validate"
  /\ \/ Outcome(w, "failed")
     \/ Goto(w, "ask") /\ UNCHANGED run
  /\ UNCHANGED <<rowVars, session, recent, evidence, past, sawActive>>

-----------------------------------------------------------------------------
(* SessionAdmissionService.admit.                                          *)

\* The session is read, then the policy decides; confirmation comes before
\* the limits.
Ask(w) ==
  /\ pc[w] = "ask"
  /\ \/ Outcome(w, "refused")
     \/ /\ session = "active"
        /\ Goto(w, IF run[w].job \in Gated /\ ~run[w].approved
                     THEN "confirm" ELSE "count")
        /\ UNCHANGED run
  /\ UNCHANGED <<rowVars, session, recent, evidence, past, sawActive>>

CountRunning(w) ==
  /\ pc[w] = "count"
  /\ IF HasRoom(Cardinality(OthersRunning(w)), MaxConcurrency)
       THEN Goto(w, "rate") /\ UNCHANGED run
       ELSE Outcome(w, "refused")
  /\ UNCHANGED <<rowVars, session, recent, evidence, past, sawActive>>

CountRecent(w) ==
  /\ pc[w] = "rate"
  /\ IF HasRoom(recent, RateLimit)
       THEN Goto(w, "admitted") /\ UNCHANGED run
       ELSE Outcome(w, "refused")
  /\ UNCHANGED <<rowVars, session, recent, evidence, past, sawActive>>

\* Where execute goes on after confirm has returned true.
AfterApproval == "ask"

\* The operator answers, or there is nobody to ask.
Confirm(w) ==
  /\ pc[w] = "confirm"
  /\ \/ Outcome(w, "refused") /\ UNCHANGED sawActive
     \/ /\ run' = [run EXCEPT ![w].approved = TRUE]
        /\ sawActive' = [sawActive EXCEPT ![w] = session = "active"]
        /\ Goto(w, AfterApproval)
  /\ UNCHANGED <<rowVars, session, recent, evidence, past>>

-----------------------------------------------------------------------------
(* ScopedExecutionService.execute and the subprocess.                      *)

\* execution_started is written.
Start(w) ==
  /\ pc[w] = "admitted"
  /\ recent' = recent + 1
  /\ run' = [run EXCEPT ![w].approved = FALSE]
  /\ Goto(w, "executing")
  /\ UNCHANGED <<rowVars, session, evidence, past, sawActive>>

\* The subprocess returns a result, fails or is cancelled, or its deadline passes.
EndTool(w) ==
  /\ pc[w] = "executing"
  /\ \/ Outcome(w, "failed")
     \/ Goto(w, "file") /\ UNCHANGED run
  /\ UNCHANGED <<rowVars, session, recent, evidence, past, sawActive>>

-----------------------------------------------------------------------------
(* EvidencePipelineService.persist_security_result.                        *)

WriteFile(w) ==
  /\ pc[w] = "file"
  /\ file' = [file EXCEPT ![Path(run[w].job, run[w].ordinal)] = run[w].attempt]
  /\ Goto(w, "artifact_id")
  /\ UNCHANGED <<rowVars, session, run, recent, artifact, finding, link, past, sawActive>>

\* allocate_public_id: one more than the highest identifier of the table.
Allocate(w, from, to, table) ==
  /\ pc[w] = from
  /\ run' = [run EXCEPT ![w].seen = Cardinality(table)]
  /\ Goto(w, to)
  /\ UNCHANGED <<rowVars, session, recent, evidence, past, sawActive>>

AllocateArtifactId(w) == Allocate(w, "artifact_id", "artifact", artifact)
AllocateFindingId(w)  == Allocate(w, "finding_id", "finding", finding)

\* The unique index on public_id: an identifier taken meanwhile is an error,
\* and the tool's success is reported as a failure.
Taken(w, table) == run[w].seen # Cardinality(table)

InsertArtifact(w) ==
  /\ pc[w] = "artifact"
  /\ IF Taken(w, artifact)
       THEN Outcome(w, "failed") /\ UNCHANGED artifact
       ELSE /\ artifact' = artifact \cup {ArtifactRow(w)}
            /\ IF run[w].ordinal < Candidates
                 THEN /\ run' = [run EXCEPT ![w].ordinal = @ + 1, ![w].seen = 0]
                      /\ Goto(w, "file")
                 ELSE /\ run' = [run EXCEPT ![w].ordinal = 1, ![w].seen = 0]
                      /\ Goto(w, "finding_id")
  /\ UNCHANGED <<rowVars, session, recent, file, finding, link, past, sawActive>>

\* Where the pipeline goes on after a finding was inserted.
AfterFinding == "link"

InsertFinding(w) ==
  /\ pc[w] = "finding"
  /\ IF Taken(w, finding)
       THEN Outcome(w, "failed") /\ UNCHANGED finding
       ELSE /\ finding' = finding \cup {<<run[w].job, run[w].attempt>>}
            /\ run' = [run EXCEPT ![w].outcome = "succeeded", ![w].seen = 0]
            /\ Goto(w, AfterFinding)
  /\ UNCHANGED <<rowVars, session, recent, file, artifact, link, past, sawActive>>

LinkArtifact(w) ==
  /\ pc[w] = "link"
  /\ link' = link \cup {ArtifactRow(w)}
  /\ IF run[w].ordinal < Candidates
       THEN /\ run' = [run EXCEPT ![w].ordinal = @ + 1]
            /\ UNCHANGED pc
       ELSE Outcome(w, "succeeded")
  /\ UNCHANGED <<rowVars, session, recent, file, artifact, finding, past, sawActive>>

-----------------------------------------------------------------------------
(* The end of an attempt.                                                  *)

\* record_attempt_outcome, its read: an error when the lease is no longer this
\* worker's.
Report(w) ==
  /\ pc[w] = "report"
  /\ IF Owns(w)
       THEN /\ Prepare(w, run[w].job, Resolved(row[run[w].job], run[w].outcome))
            /\ Goto(w, "save") /\ UNCHANGED run
       ELSE /\ run' = [run EXCEPT ![w] = NoRun]
            /\ Goto(w, "idle") /\ UNCHANGED copy
  /\ UNCHANGED <<row, issued, moves, session, recent, evidence, past, sawActive>>

\* Its save, and that of cancel_running_if_requested.  A worker that died is one
\* that does not step again.
SaveOutcome(w) ==
  /\ pc[w] = "save"
  /\ Save(w)
  /\ run' = [run EXCEPT ![w] = NoRun]
  /\ Goto(w, "idle")
  /\ UNCHANGED <<issued, moves, session, recent, evidence, lapses, sawActive>>

-----------------------------------------------------------------------------
(* Passes and requests: a row is read, and saved later.                    *)

\* enqueue_ready_jobs.
WillEnqueue(s, j) ==
  /\ session = "active" /\ row[j].status = "pending" /\ ~row[j].cancel
  /\ Prepare(s, j, Enqueued(row[j]))

\* cancel_requested_jobs, and block_jobs_with_failed_dependencies.
WillClose(s, j) ==
  /\ row[j].status \in {"pending", "queued"}
  /\ Prepare(s, j, Closed(row[j], "over"))

\* request_cancellation.
WillRequest(s, j) ==
  /\ row[j].status \in {"pending", "queued", "running"}
  /\ Prepare(s, j, [row[j] EXCEPT !.cancel = TRUE])

\* recover_stale_leases.
WillRecover(s, j) ==
  /\ row[j].status = "running"
  /\ Prepare(s, j, Resolved(row[j], "failed"))

ReadRow(s, j) ==
  /\ copy[s] = NoCopy
  /\ moves < MaxMoves /\ moves' = moves + 1
  /\ \/ (WillEnqueue(s, j) \/ WillClose(s, j) \/ WillRequest(s, j)) /\ UNCHANGED lapses
     \/ WillRecover(s, j) /\ lapses' = lapses \cup {j}
  /\ UNCHANGED <<row, issued, session, pc, run, recent, evidence, overwritten, sawActive>>

SaveRow(s) ==
  /\ copy[s] # NoCopy
  /\ Save(s)
  /\ UNCHANGED <<issued, moves, session, pc, run, recent, evidence, lapses, sawActive>>

-----------------------------------------------------------------------------
(* The session and the clock.                                              *)

\* The operator pauses and resumes the session.
SetSession(status) ==
  /\ session # status
  /\ session' = status
  /\ sawActive' = [w \in Worker |-> sawActive[w] \/ status = "active"]
  /\ UNCHANGED <<rowVars, pc, run, recent, evidence, past>>

\* An execution_started event becomes older than a minute.
Age ==
  /\ recent > 0
  /\ recent' = recent - 1
  /\ UNCHANGED <<rowVars, session, pc, run, evidence, past, sawActive>>

-----------------------------------------------------------------------------
Admission(w) == Ask(w) \/ CountRunning(w) \/ CountRecent(w) \/ Confirm(w)

Pipeline(w) ==
  \/ WriteFile(w)
  \/ AllocateArtifactId(w) \/ InsertArtifact(w)
  \/ AllocateFindingId(w) \/ InsertFinding(w) \/ LinkArtifact(w)

Execute(w) ==
  \/ Claim(w) \/ CheckCancel(w) \/ Validate(w)
  \/ Admission(w)
  \/ Start(w) \/ EndTool(w)
  \/ Pipeline(w)
  \/ Report(w) \/ SaveOutcome(w)

Next ==
  \/ \E w \in Worker : Execute(w)
  \/ \E s \in Saver : SaveRow(s) \/ \E j \in Job : ReadRow(s, j)
  \/ \E status \in {"active", "paused"} : SetSession(status)
  \/ Age

Spec == Init /\ [][Next]_vars

-----------------------------------------------------------------------------
(* Properties.                                                             *)

Place == {"idle", "check", "validate", "ask", "count", "rate", "admitted",
          "confirm", "executing", "file", "artifact_id", "artifact", "finding_id",
          "finding", "link", "report", "save"}
Reported == {"none", "succeeded", "failed", "refused"}
Row      == [status : {"pending", "queued", "running", "succeeded", "over"},
             retries : 0..RetryLimit, attempt : Nat, cancel : BOOLEAN]

\* Every variable holds what the tables and the threads can hold; a worker is
\* idle exactly when it has no job.
TypeOK ==
  /\ row \in [Job -> Row]
  /\ issued \in [Job -> Nat] /\ moves \in Nat
  /\ copy \in [Thread -> [job : Job \cup {NoJob}, from : Row, to : Row]]
  /\ session \in {"active", "paused"}
  /\ pc \in [Worker -> Place]
  /\ run \in [Worker -> [job : Job \cup {NoJob}, attempt : Nat,
                         approved : BOOLEAN, outcome : Reported,
                         ordinal : Ordinal, seen : Nat]]
  /\ \A w \in Worker : pc[w] = "idle" <=> run[w].job = NoJob
  /\ recent \in Nat
  /\ file \in [Paths -> Nat]
  /\ artifact \subseteq [job : Job, ordinal : Ordinal, attempt : Nat]
  /\ finding \subseteq Job \X Nat
  /\ link \subseteq artifact
  /\ lapses \subseteq Job /\ overwritten \subseteq Job
  /\ sawActive \in [Worker -> BOOLEAN]

Admitted == {"rate", "admitted", "executing"}
Holders  == {w \in Worker : pc[w] \in Admitted /\ Owns(w)}

\* admission.py:78, rate_limits.py:12: workers that hold the lease of their job
\* are never more than max_concurrency past the concurrency check at a time,
\* though each of them counted before the others went on.  A save of an old copy
\* may give a lease back to a worker whose row did not count: one more holder,
\* and no more, for each job that happened to.
ConcurrencyKept ==
  Cardinality(Holders)
    <= MaxConcurrency + Cardinality({run[w].job : w \in Holders} \cap overwritten)

\* admission.py:91, scoped_execution_service.py:95: the limit is tested before
\* the event it counts is written, so a minute may hold more starts than the
\* limit, but only one more for every other worker.
RateOvershootBounded ==
  recent < RateLimit + Cardinality(Worker)

LimitsKept == ConcurrencyKept /\ RateOvershootBounded

\* scoped_execution_service.py:81, architecture.md:357: an approval only clears
\* the human gate; an operation never starts in a session that has not been
\* active at any moment since the operator approved it.
ApprovalIsRechecked ==
  \A w \in Worker : pc[w] \in {"admitted", "executing"} => sawActive[w]

\* evidence_pipeline_service.py:127: a job recorded as succeeded has every
\* artifact, the finding and the links of the attempt it was recorded for,
\* whatever other attempts left half done.
SuccessHasEvidence ==
  \A j \in Job : row[j].status = "succeeded" =>
    /\ <<j, row[j].attempt>> \in finding
    /\ \A n \in Ordinal :
         [job |-> j, ordinal |-> n, attempt |-> row[j].attempt] \in artifact \cap link

\* evidence_pipeline_service.py:57: the files are named by job and ordinal, so
\* every attempt writes over the last; unless its lease lapsed, or its row was
\* saved from a copy out of date, what a succeeded job's artifacts are hashes of
\* is what is there, though passes and requests save its row meanwhile.
EvidenceMatchesFiles ==
  \A j \in Job : row[j].status = "succeeded" /\ j \notin lapses \cup overwritten =>
    \A n \in Ordinal : file[<<j, n>>] = row[j].attempt

EvidenceKept == SuccessHasEvidence /\ EvidenceMatchesFiles

=============================================================================
