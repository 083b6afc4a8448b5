----------------------------- MODULE JobRuntime -----------------------------
(***************************************************************************)
(* The job runtime: scheduler passes (Scheduler.run_once), worker runs     *)
(* (WorkerRuntime.run_once), their heartbeat thread, the operator's        *)
(* request_cancellation, job creation and the session's status, all over   *)
(* one SQLite table.                                                       *)
(*                                                                         *)
(* Only two operations touch a row under a guard of their own:             *)
(* claim_next_queued_job and refresh_lease.  Every other one reads rows in *)
(* one transaction and later overwrites every column of a row in another   *)
(* (JobRepository.update has no WHERE but the id), so here a read and the  *)
(* saves that follow it are separate steps and anything may come between.  *)
(*                                                                         *)
(* A thread in both SchedulerThread and WorkerThread is a drain():         *)
(* passes and runs in alternation.  Which job of several claimable ones is *)
(* claimed, and the order in which a pass visits rows, are left open.      *)
(***************************************************************************)
EXTENDS JobRows, FiniteSets

CONSTANTS
  SchedulerThread,  \* threads that run scheduler passes
  WorkerThread,     \* threads that claim and execute jobs
  Operator,         \* callers of request_cancellation
  NoJob,            \* a thread or an operator that has no job in hand
  MaxRequests,      \* bound: cancellation requests per operator
  MaxCrashes        \* bound: threads lost in the middle of an operation

Thread == SchedulerThread \cup WorkerThread

ASSUME RuntimeAssumption ==
  /\ NoJob \notin Job
  /\ MaxRequests \in Nat
  /\ MaxCrashes \in Nat

VARIABLES
  jobs,        \* the table: one row per job
  session,     \* status of the session; "closed" is any terminal one
  pc,          \* what each thread does next
  todo,        \* a pass: rows the current loop has still to save
  snap,        \* the rows a thread read and has not written back
  run,         \* a worker run: claimed job, lease token, outcome
  request,     \* an operator's request: the row it read
  asked,       \* requests each operator has made
  crashes,     \* threads lost so far
  executions,  \* history: executions started per job (saturating)
  succeeded,   \* history: jobs some attempt was recorded as succeeded for
  disturbed    \* history: jobs of which a lease has lapsed, or over whose
               \* rows a request was saved

local == <<pc, todo, snap, run>>
human == <<request, asked>>
past  == <<executions, succeeded, disturbed>>
vars  == <<jobs, session, local, human, crashes, past>>

SchedulerPc == {"pass", "recover", "cancel", "block", "enqueue"}
WorkerPc    == {"claim", "leased", "check", "cancelling", "admit", "admitted",
                "executing", "closing", "record", "recording"}
NoRun       == [job |-> NoJob, token |-> NoToken, outcome |-> "none"]
NoRequest   == [job |-> NoJob, row |-> NoRow]
Nothing     == [j \in Job |-> NoRow]

Home(t) == IF t \in SchedulerThread THEN "pass" ELSE "claim"

Init ==
  /\ jobs = Nothing
  /\ session \in {"draft", "active"}
  /\ pc = [t \in Thread |-> Home(t)]
  /\ todo = [t \in Thread |-> {}]
  /\ snap = [t \in Thread |-> Nothing]
  /\ run = [t \in Thread |-> NoRun]
  /\ request = [o \in Operator |-> NoRequest]
  /\ asked = [o \in Operator |-> 0]
  /\ crashes = 0
  /\ executions = [j \in Job |-> 0]
  /\ succeeded = {} /\ disturbed = {}

-----------------------------------------------------------------------------
(* Reading and saving.                                                     *)

\* The rows of S as the table holds them now.
View(S) == [j \in Job |-> IF j \in S THEN jobs[j] ELSE NoRow]

\* JobRepository.update: the row as computed, whatever the table holds.
Save(j, r) == jobs' = [jobs EXCEPT ![j] = r]

\* A thread gives up what it holds and goes to its next operation.
Return(t, next) ==
  /\ pc' = [pc EXCEPT ![t] = next]
  /\ todo' = [todo EXCEPT ![t] = {}]
  /\ snap' = [snap EXCEPT ![t] = Nothing]
  /\ run' = [run EXCEPT ![t] = NoRun]

-----------------------------------------------------------------------------
(* Scheduler.run_once: four loops, each over rows listed once.             *)

\* The thread lists the rows of "view" and will save those of S.
Enter(t, loop, S, view) ==
  /\ pc' = [pc EXCEPT ![t] = loop]
  /\ todo' = [todo EXCEPT ![t] = S]
  /\ snap' = [snap EXCEPT ![t] = view]
  /\ UNCHANGED <<jobs, session, run, human, crashes, past>>

Finished(t, loop) == pc[t] = loop /\ todo[t] = {}

StartPass(t) ==
  /\ pc[t] = "pass"
  /\ LET stale == {j \in Job : IsStale(jobs[j])}
     IN Enter(t, "recover", stale, View(stale))

StartCancelLoop(t) ==
  /\ Finished(t, "recover")
  /\ LET revoked == {j \in Job : IsRevoked(jobs[j])}
     IN Enter(t, "cancel", revoked, View(revoked))

StartBlockLoop(t) ==
  /\ Finished(t, "cancel")
  /\ Enter(t, "block", {j \in Job : Doomed(jobs, j)}, jobs)

\* The session is looked at once, right after the listing.
StartEnqueueLoop(t) ==
  /\ Finished(t, "block")
  /\ LET ready == {j \in Job : session = "active" /\ Ready(jobs, j)}
     IN Enter(t, "enqueue", ready, View(ready))

EndPass(t) ==
  /\ Finished(t, "enqueue")
  /\ Return(t, IF t \in WorkerThread THEN "claim" ELSE "pass")
  /\ UNCHANGED <<jobs, session, human, crashes, past>>

\* One turn of a loop: row j, as listed, is replaced by r.
SaveListed(t, j, r, left) ==
  /\ Save(j, r)
  /\ todo' = [todo EXCEPT ![t] = @ \ {j}]
  /\ snap' = [snap EXCEPT ![t][j] = left]
  /\ UNCHANGED <<session, pc, run, human, crashes, past>>

RecoverStale(t, j) ==
  /\ pc[t] = "recover" /\ j \in todo[t]
  /\ SaveListed(t, j, Recovered(j, snap[t][j]), NoRow)

CancelWaiting(t, j) ==
  /\ pc[t] = "cancel" /\ j \in todo[t]
  /\ SaveListed(t, j, Closed(snap[t][j], "cancelled"), NoRow)

\* The listed objects are changed in place: a job whose dependency was
\* blocked earlier in the same loop may be blocked too.
BlockDependent(t, j) ==
  /\ pc[t] = "block" /\ Doomed(snap[t], j)
  /\ LET r == Closed(snap[t][j], "blocked") IN SaveListed(t, j, r, r)

EnqueueReady(t, j) ==
  /\ pc[t] = "enqueue" /\ j \in todo[t]
  /\ SaveListed(t, j, Enqueued(snap[t][j]), NoRow)

PassStep(t) ==
  \/ StartPass(t) \/ StartCancelLoop(t) \/ StartBlockLoop(t)
  \/ StartEnqueueLoop(t) \/ EndPass(t)
  \/ \E j \in Job : \/ RecoverStale(t, j)   \/ CancelWaiting(t, j)
                    \/ BlockDependent(t, j) \/ EnqueueReady(t, j)

-----------------------------------------------------------------------------
(* WorkerRuntime.run_once.                                                 *)

\* uuid4: a token nothing in the system holds.
TokensInUse ==
  {jobs[j].token : j \in Job} \cup {run[t].token : t \in Thread}
    \cup {snap[t][j].token : t \in Thread, j \in Job}
    \cup {request[o].row.token : o \in Operator}

FreshToken == CHOOSE k \in Token : k \notin TokensInUse

\* Who may be claimed: neither the cancellation request nor the
\* dependencies are looked at.
Claimable == {j \in Job : session = "active" /\ IsClaimable(jobs[j])}

Claim(t) ==
  /\ pc[t] = "claim"
  /\ Token \ TokensInUse # {}
  /\ \E j \in Claimable :
       /\ Save(j, Claimed(jobs[j], FreshToken))
       /\ run' = [run EXCEPT ![t] = [job |-> j, token |-> FreshToken,
                                     outcome |-> "none"]]
  /\ pc' = [pc EXCEPT ![t] = "leased"]
  /\ UNCHANGED <<session, todo, snap, human, crashes, past>>

NoWork(t) ==
  /\ pc[t] = "claim" /\ Claimable = {}
  /\ Return(t, Home(t))
  /\ UNCHANGED <<jobs, session, human, crashes, past>>

Owns(t) == OwnedBy(jobs[run[t].job], run[t].token)

\* refresh_lease: guarded by the status and the token, its answer ignored.
Refresh(t) ==
  IF Owns(t) THEN Save(run[t].job, [jobs[run[t].job] EXCEPT !.lapsed = FALSE])
             ELSE UNCHANGED jobs

Goto(t, next) == /\ pc' = [pc EXCEPT ![t] = next]
                 /\ UNCHANGED <<session, todo, human, crashes>>

FirstHeartbeat(t) ==
  /\ pc[t] = "leased" /\ Refresh(t)
  /\ Goto(t, "check") /\ UNCHANGED <<snap, run, past>>

\* cancel_running_if_requested, its read: a job that is no longer this
\* worker's counts as not cancelled.
CheckCancel(t) ==
  /\ pc[t] = "check"
  /\ IF Owns(t) /\ jobs[run[t].job].cancel
       THEN /\ snap' = [snap EXCEPT ![t] = View({run[t].job})]
            /\ Goto(t, "cancelling")
       ELSE /\ Goto(t, "admit")
            /\ UNCHANGED snap
  /\ UNCHANGED <<jobs, run, past>>

CancelBeforeExecution(t) ==
  /\ pc[t] = "cancelling"
  /\ Save(run[t].job, Closed(snap[t][run[t].job], "cancelled"))
  /\ Return(t, Home(t))
  /\ UNCHANGED <<session, human, crashes, past>>

\* Validation fails, or admission denies: always when the session is not
\* active, otherwise by scope, limits or a declined confirmation.
Refuse(t) ==
  /\ pc[t] = "admit"
  /\ \/ run' = [run EXCEPT ![t].outcome = "blocked"]
     \/ run' = [run EXCEPT ![t].outcome = "failed"]
  /\ Goto(t, "closing") /\ UNCHANGED <<jobs, snap, past>>

\* Admission reads the session; what it allowed is not looked at again.
Admit(t) ==
  /\ pc[t] = "admit" /\ session = "active"
  /\ Goto(t, "admitted") /\ UNCHANGED <<jobs, snap, run, past>>

\* execution_started is written and the subprocess runs.
StartExecution(t) ==
  /\ pc[t] = "admitted"
  /\ executions' = [executions EXCEPT ![run[t].job] =
                      IF @ > RetryLimit[run[t].job] + 1 THEN @ ELSE @ + 1]
  /\ Goto(t, "executing") /\ UNCHANGED <<jobs, snap, run, succeeded, disturbed>>

\* The thread beside execute_job, from before admission to after the tool.
HeartbeatLoop(t) ==
  /\ pc[t] \in {"admit", "admitted", "executing"} /\ Refresh(t)
  /\ UNCHANGED <<session, local, human, crashes, past>>

\* A cancellation the probe sees ends the subprocess as "failed".
FinishExecution(t) ==
  /\ pc[t] = "executing"
  /\ \E outcome \in Outcome \ {"blocked"} :
       run' = [run EXCEPT ![t].outcome = outcome]
  /\ Goto(t, "closing") /\ UNCHANGED <<jobs, snap, past>>

LastHeartbeat(t) ==
  /\ pc[t] = "closing" /\ Refresh(t)
  /\ Goto(t, "record") /\ UNCHANGED <<snap, run, past>>

\* record_attempt_outcome, its read: the ValueError of a worker that is no
\* longer the owner leaves the run and the drain() around it.
ReadForOutcome(t) ==
  /\ pc[t] = "record"
  /\ IF Owns(t)
       THEN /\ snap' = [snap EXCEPT ![t] = View({run[t].job})]
            /\ Goto(t, "recording") /\ UNCHANGED run
       ELSE Return(t, Home(t)) /\ UNCHANGED <<session, human, crashes>>
  /\ UNCHANGED <<jobs, past>>

RecordOutcome(t) ==
  /\ pc[t] = "recording"
  /\ LET j == run[t].job
         r == Resolved(j, snap[t][j], run[t].outcome)
     IN /\ Save(j, r)
        /\ succeeded' = IF r.status = "succeeded" THEN succeeded \cup {j}
                                                  ELSE succeeded
  /\ Return(t, Home(t))
  /\ UNCHANGED <<session, human, crashes, executions, disturbed>>

RunStep(t) ==
  \/ Claim(t) \/ NoWork(t) \/ FirstHeartbeat(t) \/ CheckCancel(t)
  \/ CancelBeforeExecution(t) \/ Refuse(t) \/ Admit(t) \/ StartExecution(t)
  \/ FinishExecution(t) \/ LastHeartbeat(t) \/ ReadForOutcome(t)
  \/ RecordOutcome(t)

\* The thread dies, or an exception leaves run_once: what it held is lost,
\* the row stays as it was saved last.
Crash(t) ==
  /\ pc[t] # Home(t) /\ crashes < MaxCrashes
  /\ crashes' = crashes + 1
  /\ Return(t, Home(t))
  /\ UNCHANGED <<jobs, session, human, past>>

-----------------------------------------------------------------------------
(* The operator, the session and the clock.                                *)

\* create_job: dependencies are looked up, so they exist already.
CreateJob(j) ==
  /\ jobs[j].status = "absent"
  /\ \A d \in Deps[j] : jobs[d].status # "absent"
  /\ Save(j, NewRow)
  /\ UNCHANGED <<session, local, human, crashes, past>>

\* request_cancellation, its read: refused for a terminal job.
ReadForCancel(o, j) ==
  /\ request[o].job = NoJob /\ asked[o] < MaxRequests
  /\ jobs[j].status \notin TerminalStatus \cup {"absent"}
  /\ request' = [request EXCEPT ![o] = [job |-> j, row |-> jobs[j]]]
  /\ asked' = [asked EXCEPT ![o] = @ + 1]
  /\ UNCHANGED <<jobs, session, local, crashes, past>>

SaveCancel(o) ==
  /\ request[o].job # NoJob
  /\ Save(request[o].job, [request[o].row EXCEPT !.cancel = TRUE])
  /\ request' = [request EXCEPT ![o] = NoRequest]
  /\ disturbed' = disturbed \cup {request[o].job}
  /\ UNCHANGED <<session, local, asked, crashes, executions, succeeded>>

SessionMoves == [draft  |-> {"active", "closed"}, active |-> {"paused", "closed"},
                 paused |-> {"active", "closed"}, closed |-> {}]

MoveSession ==
  /\ session' \in SessionMoves[session]
  /\ UNCHANGED <<jobs, local, human, crashes, past>>

\* Time passes lease_expires_at, or retry_after.
Lapse(j) ==
  /\ jobs[j].status = "running" /\ ~jobs[j].lapsed
  /\ Save(j, [jobs[j] EXCEPT !.lapsed = TRUE])
  /\ disturbed' = disturbed \cup {j}
  /\ UNCHANGED <<session, local, human, crashes, executions, succeeded>>

EndBackoff(j) ==
  /\ jobs[j].backoff
  /\ Save(j, [jobs[j] EXCEPT !.backoff = FALSE])
  /\ UNCHANGED <<session, local, human, crashes, past>>

Next ==
  \/ \E t \in SchedulerThread : PassStep(t)
  \/ \E t \in WorkerThread : RunStep(t) \/ HeartbeatLoop(t)
  \/ \E t \in Thread : Crash(t)
  \/ \E j \in Job : CreateJob(j) \/ Lapse(j) \/ EndBackoff(j)
  \/ \E o \in Operator : SaveCancel(o) \/ \E j \in Job : ReadForCancel(o, j)
  \/ MoveSession

Spec == Init /\ [][Next]_vars

-----------------------------------------------------------------------------
(* Fairness: a thread that has something to do does it (drain() loops, the *)
(* subprocess has a deadline), and instants pass.  A lease that its worker *)
(* still refreshes need not lapse; operators and sessions owe nothing.     *)

Abandoned(j) == \A t \in WorkerThread : run[t].job = j => ~Owns(t)

Fairness ==
  /\ \A t \in Thread : WF_vars(PassStep(t) \/ RunStep(t))
  /\ \A j \in Job : /\ WF_vars(Abandoned(j) /\ Lapse(j))
                    /\ WF_vars(EndBackoff(j))

FairSpec == Spec /\ Fairness
=============================================================================
