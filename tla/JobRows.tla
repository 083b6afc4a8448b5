------------------------------ MODULE JobRows -------------------------------
(***************************************************************************)
(* One row of the table session_jobs, and what each operation of the job   *)
(* runtime writes to it.  The operators of this module are the bodies of   *)
(* the handlers once the row has been read: JobRuntime says when the row   *)
(* is read, when the result is saved, and what happens in between.         *)
(*                                                                         *)
(* Instants are kept only as what the code compares them with: "lapsed" is *)
(* lease_expires_at <= now, "backoff" is retry_after > now, "cancel" is    *)
(* cancel_requested_at IS NOT NULL.  finished_at, started_at, queued_at    *)
(* and last_error follow the status and are left out.                      *)
(***************************************************************************)
EXTENDS Naturals

CONSTANTS
  Job,          \* the jobs of one session
  Deps,         \* Deps[j]: dependency_job_ids of job j
  RetryLimit,   \* RetryLimit[j]: retry_limit of job j
  Token,        \* lease tokens (uuid4)
  NoToken       \* lease_token IS NULL

ASSUME JobAssumption ==
  /\ Deps \in [Job -> SUBSET Job]
  /\ RetryLimit \in [Job -> Nat]
  /\ NoToken \notin Token

-----------------------------------------------------------------------------
FailureStatus  == {"failed", "timed_out", "blocked", "cancelled"}
TerminalStatus == FailureStatus \cup {"succeeded"}
WaitingStatus  == {"pending", "queued"}
JobStatus      == WaitingStatus \cup {"running"} \cup TerminalStatus

\* "absent" stands for a row that has not been inserted yet.
Row == [status  : JobStatus \cup {"absent"},
        retries : Nat,
        token   : Token \cup {NoToken},
        lapsed  : BOOLEAN,
        backoff : BOOLEAN,
        cancel  : BOOLEAN]

\* What execute_job can report to record_attempt_outcome.
Outcome == {"succeeded", "failed", "timed_out", "blocked"}

Blank(status) == [status |-> status, retries |-> 0, token |-> NoToken,
                  lapsed |-> FALSE, backoff |-> FALSE, cancel |-> FALSE]
NoRow  == Blank("absent")
NewRow == Blank("pending")

-----------------------------------------------------------------------------
(* Plausible slips in the operators below: each replaces one of them in a  *)
(* mutant run.                                                             *)

\* The lease is left on the row when the attempt is over.
UnleasedMutant(r) == [r EXCEPT !.lapsed = FALSE]
\* The budget is tested after the increment instead of before it.
MayRetryMutant(j, r) == r.retries <= RetryLimit[j]
\* The outcome of the tool wins over a recorded cancellation.
PrefersCancelMutant(r) == FALSE
\* Reclaiming a lapsed lease does not charge a retry.
RequeuedMutant(r) == [r EXCEPT !.token = NoToken, !.lapsed = FALSE,
                               !.status = "queued", !.backoff = TRUE]
\* Rows without a lease are taken for stale ones whatever their status.
IsStaleMutant(r) == r.token = NoToken \/ r.lapsed
\* Only pending rows are looked at for cancellation.
IsRevokedMutant(r) == r.status = "pending" /\ r.cancel
\* A running row may be claimed again.
IsClaimableMutant(r) == r.status \in {"queued", "running"} /\ ~r.backoff
\* A dependency that is over counts, however it ended.
ReadyMutant(rows, j) ==
  /\ rows[j].status = "pending"
  /\ ~rows[j].cancel
  /\ \A d \in Deps[j] : rows[d].status \in TerminalStatus
\* Only failed dependencies doom a job, not blocked or cancelled ones.
DoomedMutant(rows, j) ==
  /\ rows[j].status \in WaitingStatus
  /\ \E d \in Deps[j] : rows[d].status \in {"failed", "timed_out"}

-----------------------------------------------------------------------------
Unleased(r) == [r EXCEPT !.token = NoToken, !.lapsed = FALSE]

Closed(r, status) == [Unleased(r) EXCEPT !.status = status, !.backoff = FALSE]

Requeued(r) == [Unleased(r) EXCEPT !.status = "queued", !.backoff = TRUE,
                                   !.retries = @ + 1]

Enqueued(r) == [r EXCEPT !.status = "queued", !.backoff = FALSE]

Claimed(r, token) == [r EXCEPT !.status = "running", !.token = token,
                               !.lapsed = FALSE]

PrefersCancel(r) == r.cancel
MayRetry(j, r)   == r.retries < RetryLimit[j]

\* An attempt that did not settle the job: another one, or the given end.
RetriedOr(status, j, r) ==
  IF MayRetry(j, r) THEN Requeued(r) ELSE Closed(r, status)

Recovered(j, r) ==
  IF PrefersCancel(r) THEN Closed(r, "cancelled") ELSE RetriedOr("failed", j, r)

Resolved(j, r, outcome) ==
  CASE PrefersCancel(r)                    -> Closed(r, "cancelled")
    [] ~PrefersCancel(r) /\ outcome \in {"succeeded", "blocked"}
                                           -> Closed(r, outcome)
    [] ~PrefersCancel(r) /\ outcome \in {"failed", "timed_out"}
                                           -> RetriedOr(outcome, j, r)

-----------------------------------------------------------------------------
(* What a scheduler pass looks for in the rows it has read.                *)

IsStale(r) == r.status = "running" /\ (r.token = NoToken \/ r.lapsed)

IsRevoked(r) == r.status \in WaitingStatus /\ r.cancel

Doomed(rows, j) ==
  /\ rows[j].status \in WaitingStatus
  /\ \E d \in Deps[j] : rows[d].status \in FailureStatus \cup {"absent"}

Ready(rows, j) ==
  /\ rows[j].status = "pending"
  /\ ~rows[j].cancel
  /\ \A d \in Deps[j] : rows[d].status = "succeeded"

IsClaimable(r) == r.status = "queued" /\ ~r.backoff

OwnedBy(r, token) == r.status = "running" /\ r.token = token
=============================================================================
