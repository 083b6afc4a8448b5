---------------------------- MODULE JobInvariant ----------------------------
(***************************************************************************)
(* The inductive invariant behind the safety properties of the runtime.    *)
(* Rows travel: a pass, a worker or an operator carries a copy and saves a *)
(* row computed from it later, over anything.  What makes the table sound  *)
(* is therefore that EVERY copy in the system is sound, and that each      *)
(* operation makes a sound row of a sound one; no copy need be current.    *)
(***************************************************************************)
EXTENDS JobProperties

\* What every copy r of row j satisfies, given the jobs recorded as succeeded.
Sound(j, r, done) ==
  /\ r.status = "running" <=> r.token # NoToken
  /\ r.retries <= RetryLimit[j]
  /\ r.cancel => r.status \notin {"absent", "succeeded", "failed", "timed_out"}
  /\ r.status \in {"queued", "running", "succeeded"} => Deps[j] \subseteq done
  /\ r.status = "succeeded" => j \in done

TableSound == \A j \in Job : Sound(j, jobs[j], succeeded)

HeldSound == \A t \in Thread, j \in Job : Sound(j, snap[t][j], succeeded)

\* A request is only ever made of a row that was not terminal.
RequestSound ==
  \A o \in Operator : request[o].job # NoJob =>
    /\ Sound(request[o].job, request[o].row, succeeded)
    /\ request[o].row.status \notin TerminalStatus \cup {"absent"}

\* The rows a loop has still to save are of the kind it listed.
ListedAsKind ==
  \A t \in Thread : \A j \in todo[t] :
    /\ pc[t] = "recover" => snap[t][j].status = "running"
    /\ pc[t] = "enqueue" => /\ snap[t][j].status = "pending"
                            /\ Deps[j] \subseteq succeeded

\* A worker past its claim has a job whose dependencies have succeeded, and
\* reports a success only of a job it has executed.
RunSound ==
  \A t \in Thread : pc[t] \in WorkerPc \ {"claim"} =>
    /\ run[t].job \in Job
    /\ Deps[run[t].job] \subseteq succeeded
    /\ pc[t] = "executing" => executions[run[t].job] > 0
    /\ pc[t] \in {"closing", "record", "recording"} =>
         /\ run[t].outcome \in Outcome
         /\ run[t].outcome = "succeeded" => executions[run[t].job] > 0

IInv == /\ TypeOK
        /\ TableSound
        /\ HeldSound
        /\ RequestSound
        /\ ListedAsKind
        /\ RunSound

-----------------------------------------------------------------------------
(* One scheduler thread, any workers and operators.  Once a job is claimed  *)
(* nothing makes it claimable again before its worker has let go of it,     *)
(* unless its lease lapses or an old copy of the row is saved over it; the  *)
(* scheduler's own copies are harmless, for nobody but itself takes a row   *)
(* out of "pending".                                                        *)

OneScheduler == \A s, t \in SchedulerThread : s = t

\* Only a scheduler thread is in the middle of a pass.
PassesInPlace == \A t \in Thread : pc[t] \in SchedulerPc => t \in SchedulerThread

Undisturbed(j) ==
  /\ ~jobs[j].lapsed
  /\ \A t \in Thread : ~snap[t][j].lapsed
  /\ \A t, u \in Thread : run[t].job = j /\ run[u].job = j => t = u
  /\ jobs[j].status \in WaitingStatus \cup {"absent"} => \A t \in Thread : run[t].job # j
  /\ \A t \in Thread : j \in todo[t] =>
       pc[t] # "recover" /\ (pc[t] = "enqueue" => jobs[j].status = "pending")

FleetInv == PassesInPlace /\ \A j \in Job \ disturbed : Undisturbed(j)

-----------------------------------------------------------------------------
(* One drain(), any operators.  Only the drain makes rows terminal and only *)
(* it executes, one after the other: a row it is about to save has not been *)
(* made terminal since it read it, and a row that does not ask for          *)
(* cancellation accounts for every execution.                               *)

SingleDrain == OneScheduler /\ WorkerThread = SchedulerThread

\* The executions that a row, or a copy of it, accounts for.
Accounted(j, r) ==
  ~r.cancel =>
    /\ r.status \in {"absent", "pending"} => executions[j] = 0
    /\ r.status = "queued"  => executions[j] <= r.retries
    /\ r.status = "running" => executions[j] <= r.retries + 1
    /\ r.status \in TerminalStatus => executions[j] <= RetryLimit[j] + 1

\* The drain holds no copies between its passes and its saves.
CopiesInPlace ==
  \A t \in Thread, j \in Job :
    snap[t][j].status # "absent" =>
      /\ pc[t] \in {"recover", "cancel", "block", "enqueue", "cancelling", "recording"}
      /\ Accounted(j, snap[t][j])

\* A row that is about to be overwritten is not terminal.
Overwritten(t, j) ==
  \/ pc[t] \in {"recover", "cancel", "enqueue"} /\ j \in todo[t]
  \/ pc[t] = "block" /\ snap[t][j].status \in WaitingStatus
  \/ pc[t] \in {"cancelling", "recording"} /\ run[t].job = j

HeldOpen ==
  \A t \in Thread, j \in Job : Overwritten(t, j) =>
    /\ jobs[j].status \notin TerminalStatus
    /\ snap[t][j].status # "absent"
    /\ pc[t] = "cancel" => snap[t][j].status \in WaitingStatus /\ snap[t][j].cancel
    /\ pc[t] = "recording" => snap[t][j].status = "running"
    /\ pc[t] = "cancelling" => snap[t][j].cancel

\* What is about to be executed was claimed for it, and not charged yet.
AboutToExecute ==
  \A t \in Thread : pc[t] \in {"leased", "check", "admit", "admitted"} =>
    LET r == jobs[run[t].job]
    IN r.cancel \/ (r.status = "running" /\ executions[run[t].job] <= r.retries)

DrainInv ==
  /\ PassesInPlace
  /\ \A j \in Job : /\ Accounted(j, jobs[j])
                    /\ jobs[j].status \in TerminalStatus => ~jobs[j].backoff
  /\ CopiesInPlace /\ HeldOpen /\ AboutToExecute
=============================================================================
