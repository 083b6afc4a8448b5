--------------------------- MODULE JobProperties ----------------------------
(***************************************************************************)
(* What is claimed of the job runtime.  The first group holds for any      *)
(* threads and operators; the second needs a single drain() (one process,  *)
(* "intentionally single-process and local-first"), with operators and     *)
(* heartbeats beside it; the third is what the documentation says and the  *)
(* code does not do.                                                       *)
(***************************************************************************)
EXTENDS JobRuntime

\* Types of all variables; the row a thread or an operator holds is a row.
TypeOK ==
  /\ jobs \in [Job -> Row]
  /\ session \in {"draft", "active", "paused", "closed"}
  /\ pc \in [Thread -> SchedulerPc \cup WorkerPc]
  /\ todo \in [Thread -> SUBSET Job]
  /\ snap \in [Thread -> [Job -> Row]]
  /\ run \in [Thread -> [job : Job \cup {NoJob}, token : Token \cup {NoToken},
                         outcome : Outcome \cup {"none"}]]
  /\ request \in [Operator -> [job : Job \cup {NoJob}, row : Row]]
  /\ asked \in [Operator -> 0..MaxRequests]
  /\ crashes \in 0..MaxCrashes
  /\ executions \in [Job -> Nat]
  /\ succeeded \subseteq Job
  /\ disturbed \subseteq Job

-----------------------------------------------------------------------------
(* For any number of threads and operators.                                *)

\* A row is leased exactly while it is running: whatever stale copy was saved
\* over it, no running job escapes recovery and no waiting or finished job
\* carries a token a worker could pass the ownership test with.
LeasedIffRunning ==
  \A j \in Job : jobs[j].status = "running" <=> jobs[j].token # NoToken

\* A job whose row records a cancellation request never ends as succeeded,
\* failed or timed out: "cancelled" (or blocked by a dependency) wins over
\* any outcome that comes late.
CancellationPrevails ==
  \A j \in Job : jobs[j].cancel =>
     jobs[j].status \notin {"absent", "succeeded", "failed", "timed_out"}

\* No row is ever charged more retries than its budget, however many passes
\* and workers requeue it from stale copies.
RetryBudgetKept == \A j \in Job : jobs[j].retries <= RetryLimit[j]

\* The runtime implements the abstract dependency order: no execution starts
\* before every dependency has been recorded as succeeded, and no success is
\* recorded for a job that was not executed.
Order == INSTANCE DependencyOrder
           WITH started <- {j \in Job : executions[j] > 0}, done <- succeeded

OrderSpec == Order!Spec

-----------------------------------------------------------------------------
(* For a single drain() with operators beside it.                          *)

\* A job is executed at most once more than it may be retried, crashes,
\* recoveries and reopened rows included; only a job whose row asks for
\* cancellation can be over (a stale request undid a claim, and the worker
\* took the row it no longer owned for one that is not cancelled).
OverspentOnlyByCancel ==
  \A j \in Job : executions[j] > RetryLimit[j] + 1 => jobs[j].cancel

\* A terminal job changes only when a request read before it finished is
\* saved over it: the row that comes back always asks for cancellation.
ReopenedOnlyByCancel ==
  [][\A j \in Job : jobs[j].status \in TerminalStatus =>
        jobs'[j] = jobs[j] \/ jobs'[j].cancel]_jobs

\* Every job settles for good if the session stays active: crashes, lapsed
\* leases, failed dependencies and late requests leave none behind.
EverySettles ==
  <>[](session = "active") =>
    \A j \in Job : (jobs[j].status # "absent")
                      ~> [](jobs[j].status \in TerminalStatus)

\* A recorded request ends in a terminal job even when the session is paused
\* or closed, unless another save wipes the request out.
CancelAnswered ==
  \A j \in Job : jobs[j].cancel
                   ~> (jobs[j].status \in TerminalStatus \/ ~jobs[j].cancel)

-----------------------------------------------------------------------------
(* For one scheduler thread and any number of workers.                     *)

\* Two workers execute the same job at once only if a lease of it has lapsed
\* (perhaps that of a third attempt: the pass that recovers it may save its
\* copy over a claim made since) or a request for it was saved.
OneExecutorPerLease ==
  \A t, u \in WorkerThread :
    /\ t # u
    /\ pc[t] = "executing" /\ pc[u] = "executing" /\ run[t].job = run[u].job
    => run[t].job \in disturbed

-----------------------------------------------------------------------------
(* What the documentation says.                                            *)

\* A terminal job stays as it is ("the job is already terminal and no
\* cancellation request was recorded").
TerminalIsFinal ==
  [][\A j \in Job : jobs[j].status \in TerminalStatus =>
        jobs'[j] = jobs[j]]_jobs
=============================================================================
