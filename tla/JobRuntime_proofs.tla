------------------------- MODULE JobRuntime_proofs --------------------------
(***************************************************************************)
(* Proofs about the job runtime, for any jobs, dependencies, budgets,      *)
(* threads and operators.                                                  *)
(***************************************************************************)
EXTENDS JobInvariant, TLAPS

-----------------------------------------------------------------------------
(* What the operations on one row preserve.                                *)

\* A copy stays sound when more jobs have succeeded.
LEMMA SoundGrows ==
  ASSUME NEW j, NEW r, NEW done, NEW more, done \subseteq more,
         Sound(j, r, done)
  PROVE  Sound(j, r, more)
BY DEF Sound

\* The placeholder of a row that is not held is sound.
LEMMA NoRowSound ==
  ASSUME NEW j \in Job, NEW done
  PROVE  NoRow \in Row /\ Sound(j, NoRow, done)
BY JobAssumption DEF NoRow, Blank, Row, Sound, JobStatus, WaitingStatus,
  TerminalStatus, FailureStatus

\* create_job inserts a sound row.
LEMMA NewRowSound ==
  ASSUME NEW j \in Job, NEW done
  PROVE  NewRow \in Row /\ Sound(j, NewRow, done)
BY JobAssumption DEF NewRow, Blank, Row, Sound, JobStatus, WaitingStatus,
  TerminalStatus, FailureStatus

\* A terminal save clears the lease; only "cancelled" and "blocked" may be
\* given to a row that asks for cancellation.
LEMMA ClosedSound ==
  ASSUME NEW j \in Job, NEW r \in Row, NEW done, Sound(j, r, done),
         NEW s \in TerminalStatus,
         r.cancel => s \in {"cancelled", "blocked"},
         s = "succeeded" => j \in done /\ Deps[j] \subseteq done
  PROVE  Closed(r, s) \in Row /\ Sound(j, Closed(r, s), done)
BY JobAssumption DEF Closed, Unleased, Row, Sound, JobStatus, WaitingStatus,
  TerminalStatus, FailureStatus

\* A job goes back to the queue with one retry more, within its budget.
LEMMA RequeuedSound ==
  ASSUME NEW j \in Job, NEW r \in Row, NEW done, Sound(j, r, done),
         MayRetry(j, r), Deps[j] \subseteq done
  PROVE  Requeued(r) \in Row /\ Sound(j, Requeued(r), done)
<1>1. /\ r.retries \in Nat /\ r.cancel \in BOOLEAN
      /\ RetryLimit[j] \in Nat /\ r.retries + 1 <= RetryLimit[j]
  BY JobAssumption DEF MayRetry, Row
<1>. DEFINE u   == Unleased(r)
            n   == u.retries + 1
            new == [u EXCEPT !.status = "queued", !.backoff = TRUE,
                             !.retries = n]
<1>2. u \in Row /\ u.retries = r.retries /\ u.token = NoToken
  BY DEF Unleased, Row
<1>3. n \in Nat /\ n <= RetryLimit[j]
  BY <1>1, <1>2
<1>4. Requeued(r) = new
  BY DEF Requeued
<1>. HIDE DEF u, n
<1>5. new \in Row /\ Sound(j, new, done)
  BY <1>2, <1>3 DEF Row, Sound, JobStatus, WaitingStatus
<1>. QED
  BY <1>4, <1>5

\* One attempt that settled nothing.
LEMMA RetriedOrSound ==
  ASSUME NEW j \in Job, NEW r \in Row, NEW done, Sound(j, r, done),
         ~r.cancel, Deps[j] \subseteq done, NEW s \in {"failed", "timed_out"}
  PROVE  /\ RetriedOr(s, j, r) \in Row
         /\ Sound(j, RetriedOr(s, j, r), done)
         /\ RetriedOr(s, j, r).status # "succeeded"
<1>1. CASE MayRetry(j, r)
  <2>1. RetriedOr(s, j, r) = Requeued(r)
    BY <1>1 DEF RetriedOr
  <2>2. Requeued(r).status = "queued"
    BY DEF Requeued, Unleased, Row
  <2>. QED BY <1>1, <2>1, <2>2, RequeuedSound
<1>2. CASE ~MayRetry(j, r)
  <2>1. RetriedOr(s, j, r) = Closed(r, s)
    BY <1>2 DEF RetriedOr
  <2>2. Closed(r, s).status = s
    BY DEF Closed, Unleased, Row
  <2>3. s \in TerminalStatus
    BY DEF TerminalStatus, FailureStatus
  <2>. QED BY <2>1, <2>2, <2>3, ClosedSound
<1>. QED BY <1>1, <1>2

\* recover_stale_leases, one row.
LEMMA RecoveredSound ==
  ASSUME NEW j \in Job, NEW r \in Row, NEW done, Sound(j, r, done),
         r.status = "running"
  PROVE  Recovered(j, r) \in Row /\ Sound(j, Recovered(j, r), done)
<1>1. Deps[j] \subseteq done
  BY DEF Sound
<1>2. CASE r.cancel
  <2>1. Recovered(j, r) = Closed(r, "cancelled")
    BY <1>2 DEF Recovered, PrefersCancel
  <2>. QED BY <2>1, ClosedSound DEF TerminalStatus, FailureStatus
<1>3. CASE ~r.cancel
  <2>1. Recovered(j, r) = RetriedOr("failed", j, r)
    BY <1>3 DEF Recovered, PrefersCancel
  <2>. QED BY <1>1, <1>3, <2>1, RetriedOrSound
<1>. QED BY <1>2, <1>3

\* record_attempt_outcome, once the row is read: only the outcome "succeeded"
\* makes a row succeeded.
LEMMA ResolvedSound ==
  ASSUME NEW j \in Job, NEW r \in Row, NEW done, Sound(j, r, done),
         Deps[j] \subseteq done, NEW outcome \in Outcome
  PROVE  /\ Resolved(j, r, outcome) \in Row
         /\ Resolved(j, r, outcome).status = "succeeded"
              => outcome = "succeeded"
         /\ \A more : /\ done \subseteq more
                      /\ Resolved(j, r, outcome).status = "succeeded"
                           => j \in more
                      => Sound(j, Resolved(j, r, outcome), more)
<1>. DEFINE new == Resolved(j, r, outcome)
<1>0. \A s : Closed(r, s).status = s
  BY DEF Closed, Unleased, Row
<1>1. CASE r.cancel
  <2>1. new = Closed(r, "cancelled")
    BY <1>1 DEF Resolved, PrefersCancel
  <2>2. new.status = "cancelled"
    BY <1>0, <2>1
  <2>3. new \in Row /\ Sound(j, new, done)
    BY <2>1, ClosedSound DEF TerminalStatus, FailureStatus
  <2>. QED BY <2>2, <2>3, SoundGrows
<1>2. CASE ~r.cancel /\ outcome \in {"succeeded", "blocked"}
  <2>1. new = Closed(r, outcome)
    BY <1>2 DEF Resolved, PrefersCancel
  <2>2. new.status = outcome
    BY <1>0, <2>1
  <2>3. outcome \in TerminalStatus
    BY <1>2 DEF TerminalStatus, FailureStatus
  <2>4. ASSUME NEW more, done \subseteq more, outcome = "succeeded" => j \in more
        PROVE  new \in Row /\ Sound(j, new, more)
    <3>1. Sound(j, r, more) /\ Deps[j] \subseteq more
      BY <2>4, SoundGrows
    <3>. QED BY <1>2, <2>1, <2>3, <2>4, <3>1, ClosedSound
  <2>5. new \in Row
    <3>1. done \subseteq done \cup {j} /\ j \in done \cup {j}
      OBVIOUS
    <3>. QED BY <2>4, <3>1
  <2>. QED BY <2>2, <2>4, <2>5
<1>3. CASE ~r.cancel /\ outcome \in {"failed", "timed_out"}
  <2>1. new = RetriedOr(outcome, j, r)
    BY <1>3 DEF Resolved, PrefersCancel
  <2>2. new \in Row /\ Sound(j, new, done) /\ new.status # "succeeded"
    BY <1>3, <2>1, RetriedOrSound
  <2>. QED BY <2>2, SoundGrows
<1>. QED BY <1>1, <1>2, <1>3 DEF Outcome

\* enqueue_ready_jobs, one row.
LEMMA EnqueuedSound ==
  ASSUME NEW j \in Job, NEW r \in Row, NEW done, Sound(j, r, done),
         r.status = "pending", Deps[j] \subseteq done
  PROVE  Enqueued(r) \in Row /\ Sound(j, Enqueued(r), done)
BY DEF Enqueued, Row, Sound, JobStatus, WaitingStatus, TerminalStatus,
  FailureStatus

\* claim_next_queued_job, the UPDATE.
LEMMA ClaimedSound ==
  ASSUME NEW j \in Job, NEW r \in Row, NEW done, Sound(j, r, done),
         r.status = "queued", NEW k \in Token
  PROVE  Claimed(r, k) \in Row /\ Sound(j, Claimed(r, k), done)
BY JobAssumption DEF Claimed, Row, Sound, JobStatus, WaitingStatus,
  TerminalStatus, FailureStatus

\* request_cancellation, the save.
LEMMA CancelSetSound ==
  ASSUME NEW j \in Job, NEW r \in Row, NEW done, Sound(j, r, done),
         r.status \notin TerminalStatus \cup {"absent"}
  PROVE  /\ [r EXCEPT !.cancel = TRUE] \in Row
         /\ Sound(j, [r EXCEPT !.cancel = TRUE], done)
BY DEF Row, Sound, TerminalStatus, FailureStatus

\* The clock and the heartbeat only move the deadlines of a row.
LEMMA ClockSound ==
  ASSUME NEW j \in Job, NEW r \in Row, NEW done, Sound(j, r, done),
         NEW b \in BOOLEAN
  PROVE  /\ [r EXCEPT !.lapsed = b] \in Row
         /\ Sound(j, [r EXCEPT !.lapsed = b], done)
         /\ [r EXCEPT !.backoff = b] \in Row
         /\ Sound(j, [r EXCEPT !.backoff = b], done)
BY DEF Row, Sound

-----------------------------------------------------------------------------
(* What the pieces of a step preserve.                                     *)

\* A sound row is saved.
LEMMA SaveSound ==
  ASSUME TypeOK, TableSound, NEW j \in Job, NEW r \in Row, Save(j, r),
         succeeded \subseteq succeeded', Sound(j, r, succeeded')
  PROVE  jobs' \in [Job -> Row] /\ TableSound'
<1>1. jobs' \in [Job -> Row]
  BY DEF Save, TypeOK
<1>2. ASSUME NEW i \in Job PROVE Sound(i, jobs'[i], succeeded')
  <2>1. CASE i = j
    BY <2>1 DEF Save, TypeOK
  <2>2. CASE i # j
    <3>1. jobs'[i] = jobs[i]
      BY <2>2 DEF Save, TypeOK
    <3>. QED BY <3>1, SoundGrows DEF TableSound
  <2>. QED BY <2>1, <2>2
<1>. QED BY <1>1, <1>2 DEF TableSound

\* A thread drops what it holds and goes home.
LEMMA ReturnSound ==
  ASSUME TypeOK, HeldSound, ListedAsKind, RunSound,
         NEW t \in Thread, NEW next \in {"pass", "claim"}, Return(t, next),
         succeeded \subseteq succeeded', UNCHANGED executions
  PROVE  /\ pc' \in [Thread -> SchedulerPc \cup WorkerPc]
         /\ todo' \in [Thread -> SUBSET Job]
         /\ snap' \in [Thread -> [Job -> Row]]
         /\ run' \in [Thread -> [job : Job \cup {NoJob},
                                 token : Token \cup {NoToken},
                                 outcome : Outcome \cup {"none"}]]
         /\ HeldSound' /\ ListedAsKind' /\ RunSound'
<1>1. Nothing \in [Job -> Row] /\ \A j \in Job : Nothing[j] = NoRow
  BY NoRowSound DEF Nothing
<1>2. NoRun \in [job : Job \cup {NoJob}, token : Token \cup {NoToken},
                 outcome : Outcome \cup {"none"}]
  BY DEF NoRun
<1>3. /\ pc' \in [Thread -> SchedulerPc \cup WorkerPc]
      /\ todo' \in [Thread -> SUBSET Job]
      /\ snap' \in [Thread -> [Job -> Row]]
      /\ run' \in [Thread -> [job : Job \cup {NoJob},
                              token : Token \cup {NoToken},
                              outcome : Outcome \cup {"none"}]]
  BY <1>1, <1>2 DEF Return, TypeOK, SchedulerPc, WorkerPc
<1>4. \A u \in Thread : u # t => /\ pc'[u] = pc[u] /\ todo'[u] = todo[u]
                                 /\ snap'[u] = snap[u] /\ run'[u] = run[u]
  BY DEF Return, TypeOK
<1>5. /\ pc'[t] = next /\ todo'[t] = {} /\ snap'[t] = Nothing
  BY DEF Return, TypeOK
<1>6. HeldSound'
  BY <1>1, <1>4, <1>5, NoRowSound, SoundGrows DEF HeldSound
<1>7. ListedAsKind'
  BY <1>4, <1>5 DEF ListedAsKind
<1>8. RunSound'
  BY <1>4, <1>5 DEF RunSound, WorkerPc
<1>. QED BY <1>3, <1>6, <1>7, <1>8

\* The threads are left alone.
LEMMA LocalSound ==
  ASSUME TypeOK, HeldSound, ListedAsKind, RunSound, UNCHANGED local,
         succeeded \subseteq succeeded', UNCHANGED executions
  PROVE  HeldSound' /\ ListedAsKind' /\ RunSound'
<1>1. HeldSound'
  BY SoundGrows DEF HeldSound, local
<1>2. ListedAsKind'
  BY DEF ListedAsKind, local
<1>3. RunSound'
  BY DEF RunSound, local
<1>. QED BY <1>1, <1>2, <1>3

\* The operators are left alone.
LEMMA RequestKept ==
  ASSUME RequestSound, UNCHANGED request, succeeded \subseteq succeeded'
  PROVE  RequestSound'
BY SoundGrows DEF RequestSound

\* The table is left alone.
LEMMA TableKept ==
  ASSUME TableSound, UNCHANGED jobs, succeeded \subseteq succeeded'
  PROVE  TableSound'
BY SoundGrows DEF TableSound

\* A view of the table is made of sound rows.
LEMMA ViewSound ==
  ASSUME TypeOK, TableSound, NEW S \in SUBSET Job
  PROVE  /\ View(S) \in [Job -> Row]
         /\ \A j \in Job : Sound(j, View(S)[j], succeeded)
         /\ \A j \in S : View(S)[j] = jobs[j]
<1>1. \A j \in Job : View(S)[j] = IF j \in S THEN jobs[j] ELSE NoRow
  BY DEF View
<1>2. ASSUME NEW j \in Job
      PROVE  View(S)[j] \in Row /\ Sound(j, View(S)[j], succeeded)
  <2>1. jobs[j] \in Row /\ Sound(j, jobs[j], succeeded)
    BY DEF TypeOK, TableSound
  <2>2. NoRow \in Row /\ Sound(j, NoRow, succeeded)
    BY NoRowSound
  <2>3. View(S)[j] = jobs[j] \/ View(S)[j] = NoRow
    BY <1>1
  <2>. QED BY <2>1, <2>2, <2>3
<1>3. View(S) \in [Job -> Row]
  BY <1>2 DEF View
<1>. QED BY <1>1, <1>2, <1>3

-----------------------------------------------------------------------------
(* Initially.                                                              *)

\* The invariant holds at first.
LEMMA InitSound == Init => IInv
<1>. SUFFICES ASSUME Init PROVE IInv
  OBVIOUS
<1>1. Nothing \in [Job -> Row] /\ \A j \in Job : Nothing[j] = NoRow
  BY NoRowSound DEF Nothing
<1>2. NoRow \in Row
  BY DEF NoRow, Blank, Row
<1>3. TypeOK
  BY <1>1, <1>2, RuntimeAssumption DEF Init, TypeOK, SchedulerPc, WorkerPc,
    Home, NoRun, NoRequest
<1>4. TableSound /\ HeldSound
  BY <1>1, NoRowSound DEF Init, TableSound, HeldSound
<1>5. RequestSound
  BY DEF Init, RequestSound, NoRequest
<1>6. ListedAsKind /\ RunSound
  BY DEF Init, ListedAsKind, RunSound, WorkerPc, Home
<1>. QED BY <1>3, <1>4, <1>5, <1>6 DEF IInv

-----------------------------------------------------------------------------
(* The scheduler pass.                                                     *)

\* A loop begins with sound copies of the right kind.
LEMMA EnterSound ==
  ASSUME IInv, NEW t \in Thread,
         NEW loop \in {"recover", "cancel", "block", "enqueue"},
         NEW S \in SUBSET Job, NEW view \in [Job -> Row],
         \A j \in Job : Sound(j, view[j], succeeded),
         loop = "recover" => \A j \in S : view[j].status = "running",
         loop = "enqueue" => \A j \in S : /\ view[j].status = "pending"
                                          /\ Deps[j] \subseteq succeeded,
         Enter(t, loop, S, view)
  PROVE  IInv'
<1>1. UNCHANGED <<jobs, session, run, request, asked, crashes, executions,
                  succeeded, disturbed>>
  BY DEF Enter, human, past
<1>2. TypeOK'
  BY <1>1 DEF IInv, TypeOK, Enter, SchedulerPc
<1>3. /\ pc'[t] = loop /\ todo'[t] = S /\ snap'[t] = view
      /\ \A u \in Thread : u # t => /\ pc'[u] = pc[u] /\ todo'[u] = todo[u]
                                    /\ snap'[u] = snap[u]
  BY DEF IInv, TypeOK, Enter
<1>4. TableSound' /\ RequestSound'
  BY <1>1, TableKept, RequestKept DEF IInv
<1>5. HeldSound'
  BY <1>1, <1>3 DEF IInv, HeldSound
<1>6. ListedAsKind'
  BY <1>1, <1>3 DEF IInv, ListedAsKind
<1>7. RunSound'
  BY <1>1, <1>3 DEF IInv, RunSound, WorkerPc
<1>. QED BY <1>2, <1>4, <1>5, <1>6, <1>7 DEF IInv

\* A turn of a loop saves a sound row and keeps a sound copy or none.
LEMMA SaveListedSound ==
  ASSUME IInv, NEW t \in Thread, NEW j \in Job, NEW r \in Row, NEW left \in Row,
         Sound(j, r, succeeded), Sound(j, left, succeeded),
         SaveListed(t, j, r, left)
  PROVE  IInv'
<1>1. UNCHANGED <<session, pc, run, request, asked, crashes, executions,
                  succeeded, disturbed>>
  BY DEF SaveListed, human, past
<1>2. jobs' \in [Job -> Row] /\ TableSound'
  BY <1>1, SaveSound DEF IInv, SaveListed
<1>3. /\ todo' \in [Thread -> SUBSET Job] /\ snap' \in [Thread -> [Job -> Row]]
      /\ todo'[t] = todo[t] \ {j}
      /\ snap'[t] = [snap[t] EXCEPT ![j] = left]
      /\ \A u \in Thread : u # t => todo'[u] = todo[u] /\ snap'[u] = snap[u]
  BY DEF IInv, TypeOK, SaveListed
<1>4. TypeOK'
  BY <1>1, <1>2, <1>3 DEF IInv, TypeOK
<1>5. \A u \in Thread, i \in Job :
         snap'[u][i] = snap[u][i] \/ (u = t /\ i = j /\ snap'[u][i] = left)
  BY <1>3 DEF IInv, TypeOK
<1>6. HeldSound'
  BY <1>1, <1>5 DEF IInv, HeldSound
<1>7. \A u \in Thread : \A i \in todo'[u] :
         i \in todo[u] /\ i \in Job /\ snap'[u][i] = snap[u][i]
  BY <1>3 DEF IInv, TypeOK
<1>8. ListedAsKind'
  BY <1>1, <1>7 DEF IInv, ListedAsKind
<1>9. RequestSound' /\ RunSound'
  BY <1>1, RequestKept DEF IInv, RunSound
<1>. QED BY <1>2, <1>4, <1>6, <1>8, <1>9 DEF IInv

\* Every step of a pass preserves the invariant.
LEMMA PassStepSound ==
  ASSUME IInv, NEW t \in SchedulerThread, PassStep(t)
  PROVE  IInv'
<1>. USE DEF Thread
<1>1. CASE StartPass(t)
  <2>. DEFINE stale == {j \in Job : IsStale(jobs[j])}
  <2>1. \A j \in stale : View(stale)[j].status = "running"
    BY ViewSound DEF IInv, IsStale
  <2>. QED BY <1>1, <2>1, EnterSound, ViewSound DEF IInv, StartPass
<1>2. CASE StartCancelLoop(t)
  BY <1>2, EnterSound, ViewSound DEF IInv, StartCancelLoop
<1>3. CASE StartBlockLoop(t)
  BY <1>3, EnterSound DEF IInv, StartBlockLoop, TypeOK, TableSound
<1>4. CASE StartEnqueueLoop(t)
  <2>. DEFINE ready == {j \in Job : session = "active" /\ Ready(jobs, j)}
  <2>1. ASSUME NEW j \in ready
        PROVE  View(ready)[j].status = "pending" /\ Deps[j] \subseteq succeeded
    <3>1. View(ready)[j] = jobs[j]
      BY ViewSound DEF IInv
    <3>2. \A d \in Deps[j] : d \in Job /\ jobs[d].status = "succeeded"
      BY JobAssumption DEF Ready
    <3>3. \A d \in Deps[j] : d \in succeeded
      BY <3>2 DEF IInv, TableSound, Sound
    <3>. QED BY <3>1, <3>3 DEF Ready
  <2>. QED BY <1>4, <2>1, EnterSound, ViewSound DEF IInv, StartEnqueueLoop
<1>5. CASE EndPass(t)
  <2>1. PICK next \in {"pass", "claim"} : Return(t, next)
    BY <1>5 DEF EndPass
  <2>2. UNCHANGED <<jobs, session, request, asked, crashes, executions,
                    succeeded, disturbed>>
    BY <1>5 DEF EndPass, human, past
  <2>3. TypeOK' /\ HeldSound' /\ ListedAsKind' /\ RunSound'
    BY <2>1, <2>2, ReturnSound DEF IInv, TypeOK
  <2>. QED BY <2>2, <2>3, TableKept, RequestKept DEF IInv
<1>6. ASSUME NEW j \in Job, RecoverStale(t, j) PROVE IInv'
  <2>1. /\ snap[t][j] \in Row /\ Sound(j, snap[t][j], succeeded)
        /\ snap[t][j].status = "running"
    BY <1>6 DEF IInv, TypeOK, HeldSound, ListedAsKind, RecoverStale
  <2>. QED
    BY <1>6, <2>1, RecoveredSound, NoRowSound, SaveListedSound
      DEF RecoverStale
<1>7. ASSUME NEW j \in Job, CancelWaiting(t, j) PROVE IInv'
  <2>1. snap[t][j] \in Row /\ Sound(j, snap[t][j], succeeded)
    BY DEF IInv, TypeOK, HeldSound
  <2>2. "cancelled" \in TerminalStatus
    BY DEF TerminalStatus, FailureStatus
  <2>. QED
    BY <1>7, <2>1, <2>2, ClosedSound, NoRowSound, SaveListedSound
      DEF CancelWaiting
<1>8. ASSUME NEW j \in Job, BlockDependent(t, j) PROVE IInv'
  <2>1. snap[t][j] \in Row /\ Sound(j, snap[t][j], succeeded)
    BY DEF IInv, TypeOK, HeldSound
  <2>2. "blocked" \in TerminalStatus
    BY DEF TerminalStatus, FailureStatus
  <2>. QED
    BY <1>8, <2>1, <2>2, ClosedSound, SaveListedSound DEF BlockDependent
<1>9. ASSUME NEW j \in Job, EnqueueReady(t, j) PROVE IInv'
  <2>1. /\ snap[t][j] \in Row /\ Sound(j, snap[t][j], succeeded)
        /\ snap[t][j].status = "pending" /\ Deps[j] \subseteq succeeded
    BY <1>9 DEF IInv, TypeOK, HeldSound, ListedAsKind, EnqueueReady
  <2>. QED
    BY <1>9, <2>1, EnqueuedSound, NoRowSound, SaveListedSound
      DEF EnqueueReady
<1>. QED BY <1>1, <1>2, <1>3, <1>4, <1>5, <1>6, <1>7, <1>8, <1>9 DEF PassStep

-----------------------------------------------------------------------------
(* The worker run.                                                         *)

\* A worker goes on to "next" with the copy and the run it then has: what has
\* to be shown of a step that keeps its job and takes nothing else.
LEMMA GotoSound ==
  ASSUME IInv, NEW t \in Thread, NEW next \in WorkerPc \ {"claim"},
         Goto(t, next),
         jobs' \in [Job -> Row], TableSound',
         snap' \in [Thread -> [Job -> Row]], HeldSound',
         \A u \in Thread : u # t => snap'[u] = snap[u] /\ run'[u] = run[u],
         run' \in [Thread -> [job : Job \cup {NoJob},
                              token : Token \cup {NoToken},
                              outcome : Outcome \cup {"none"}]],
         run'[t].job = run[t].job, pc[t] \in WorkerPc \ {"claim"},
         executions' \in [Job -> Nat],
         \A j \in Job : executions[j] > 0 => executions'[j] > 0,
         UNCHANGED <<succeeded, disturbed>>,
         next = "executing" => executions'[run[t].job] > 0,
         next \in {"closing", "record", "recording"} =>
           /\ run'[t].outcome \in Outcome
           /\ run'[t].outcome = "succeeded" => executions'[run[t].job] > 0
  PROVE  IInv'
<1>1. UNCHANGED <<session, todo, request, asked, crashes>>
  BY DEF Goto, human
<1>2. /\ pc' \in [Thread -> SchedulerPc \cup WorkerPc]
      /\ pc'[t] = next /\ \A u \in Thread : u # t => pc'[u] = pc[u]
  BY DEF IInv, TypeOK, Goto
<1>3. TypeOK'
  BY <1>1, <1>2 DEF IInv, TypeOK
<1>4. RequestSound'
  BY <1>1, RequestKept DEF IInv
<1>5. ListedAsKind'
  BY <1>1, <1>2 DEF IInv, ListedAsKind, WorkerPc
<1>6. RunSound'
  BY <1>2 DEF IInv, RunSound
<1>. QED BY <1>3, <1>4, <1>5, <1>6 DEF IInv

\* A heartbeat refreshes a row it owns, or nothing.
LEMMA RefreshSound ==
  ASSUME IInv, NEW t \in Thread, run[t].job \in Job, Refresh(t),
         UNCHANGED succeeded
  PROVE  jobs' \in [Job -> Row] /\ TableSound'
<1>. DEFINE j == run[t].job
<1>1. CASE Owns(t)
  <2>1. jobs[j] \in Row /\ Sound(j, jobs[j], succeeded)
    BY DEF IInv, TypeOK, TableSound
  <2>2. Save(j, [jobs[j] EXCEPT !.lapsed = FALSE])
    BY <1>1 DEF Refresh
  <2>3. /\ [jobs[j] EXCEPT !.lapsed = FALSE] \in Row
        /\ Sound(j, [jobs[j] EXCEPT !.lapsed = FALSE], succeeded)
    BY <2>1, ClockSound
  <2>. QED BY <2>2, <2>3, SaveSound DEF IInv
<1>2. CASE ~Owns(t)
  BY <1>2, TableKept DEF IInv, TypeOK, Refresh
<1>. QED BY <1>1, <1>2

\* A run that ends with a sound row saved.
LEMMA RunEndSound ==
  ASSUME IInv, NEW t \in Thread, NEW next \in {"pass", "claim"},
         Return(t, next), jobs' \in [Job -> Row], TableSound',
         UNCHANGED <<session, human, executions, disturbed>>,
         crashes' \in 0..MaxCrashes,
         succeeded \subseteq succeeded', succeeded' \subseteq Job
  PROVE  IInv'
<1>1. UNCHANGED <<session, request, asked, executions, disturbed>>
  BY DEF human
<1>2. TypeOK' /\ HeldSound' /\ ListedAsKind' /\ RunSound'
  BY <1>1, ReturnSound DEF IInv, TypeOK
<1>. QED BY <1>1, <1>2, RequestKept DEF IInv

\* What the invariant says of a worker past its claim.
LEMMA InRun ==
  ASSUME IInv, NEW t \in Thread, pc[t] \in WorkerPc \ {"claim"}
  PROVE  /\ run[t].job \in Job
         /\ Deps[run[t].job] \subseteq succeeded
         /\ jobs[run[t].job] \in Row
         /\ Sound(run[t].job, jobs[run[t].job], succeeded)
         /\ snap[t][run[t].job] \in Row
         /\ Sound(run[t].job, snap[t][run[t].job], succeeded)
BY DEF IInv, TypeOK, TableSound, HeldSound, RunSound

\* Where a thread begins.
LEMMA HomeIsHome == \A t \in Thread : Home(t) \in {"pass", "claim"}
BY DEF Home

\* A claim gives a queued row to one worker.
LEMMA ClaimSound ==
  ASSUME IInv, NEW t \in Thread, Claim(t)
  PROVE  IInv'
<1>. DEFINE k == FreshToken
<1>1. PICK j \in Claimable :
        /\ Save(j, Claimed(jobs[j], k))
        /\ run' = [run EXCEPT ![t] = [job |-> j, token |-> k,
                                      outcome |-> "none"]]
  BY DEF Claim
<1>2. k \in Token
  BY DEF Claim, FreshToken
<1>3. UNCHANGED <<session, todo, snap, request, asked, crashes, executions,
                  succeeded, disturbed>>
  BY DEF Claim, human, past
<1>4. pc' = [pc EXCEPT ![t] = "leased"]
  BY DEF Claim
<1>. HIDE DEF k
<1>5. j \in Job /\ jobs[j] \in Row /\ Sound(j, jobs[j], succeeded)
        /\ jobs[j].status = "queued"
  BY DEF IInv, TypeOK, TableSound, Claimable, IsClaimable
<1>6. Claimed(jobs[j], k) \in Row /\ Sound(j, Claimed(jobs[j], k), succeeded)
  BY <1>2, <1>5, ClaimedSound
<1>7. jobs' \in [Job -> Row] /\ TableSound'
  BY <1>1, <1>3, <1>5, <1>6, SaveSound DEF IInv
<1>8. TypeOK'
  BY <1>1, <1>2, <1>3, <1>4, <1>5, <1>7 DEF IInv, TypeOK, WorkerPc
<1>9. HeldSound' /\ RequestSound'
  BY <1>3, RequestKept DEF IInv, HeldSound
<1>10. ListedAsKind'
  BY <1>3, <1>4 DEF IInv, TypeOK, ListedAsKind
<1>11. RunSound'
  <2>1. /\ run'[t].job = j /\ pc'[t] = "leased"
        /\ \A u \in Thread : u # t => run'[u] = run[u] /\ pc'[u] = pc[u]
    BY <1>1, <1>4 DEF IInv, TypeOK
  <2>2. Deps[j] \subseteq succeeded
    BY <1>5 DEF Sound
  <2>. QED BY <1>3, <1>5, <2>1, <2>2 DEF IInv, RunSound
<1>. QED BY <1>7, <1>8, <1>9, <1>10, <1>11 DEF IInv

\* An outcome is recorded; a success only of a job that was executed.
LEMMA RecordOutcomeSound ==
  ASSUME IInv, NEW t \in Thread, RecordOutcome(t)
  PROVE  /\ IInv'
         /\ succeeded' # succeeded =>
              \E j \in Job : executions[j] > 0 /\ succeeded' = succeeded \cup {j}
<1>. DEFINE j == run[t].job
            r == Resolved(j, snap[t][j], run[t].outcome)
<1>1. pc[t] \in WorkerPc \ {"claim"} /\ pc[t] = "recording"
  BY DEF RecordOutcome, WorkerPc
<1>2. /\ run[t].outcome \in Outcome
      /\ run[t].outcome = "succeeded" => executions[j] > 0
  BY <1>1 DEF IInv, RunSound
<1>3. /\ Save(j, r)
      /\ succeeded' = IF r.status = "succeeded" THEN succeeded \cup {j}
                                                ELSE succeeded
      /\ Return(t, Home(t))
      /\ UNCHANGED <<session, human, crashes, executions, disturbed>>
  BY DEF RecordOutcome
<1>4. j \in Job
  BY <1>1, InRun
<1>5. /\ r \in Row
      /\ r.status = "succeeded" => run[t].outcome = "succeeded"
      /\ Sound(j, r, succeeded')
  BY <1>1, <1>2, <1>3, InRun, ResolvedSound
<1>. HIDE DEF j, r
<1>6. succeeded \subseteq succeeded' /\ succeeded' \subseteq Job
  BY <1>3, <1>4 DEF IInv, TypeOK
<1>7. jobs' \in [Job -> Row] /\ TableSound'
  BY <1>3, <1>4, <1>5, <1>6, SaveSound DEF IInv
<1>8. IInv'
  BY <1>3, <1>6, <1>7, RunEndSound, HomeIsHome DEF IInv, TypeOK
<1>9. succeeded' # succeeded => executions[j] > 0 /\ succeeded' = succeeded \cup {j}
  BY <1>2, <1>3, <1>5
<1>. QED BY <1>4, <1>8, <1>9

\* Every step of a worker preserves the invariant.
LEMMA RunStepSound ==
  ASSUME IInv, NEW t \in WorkerThread, RunStep(t)
  PROVE  IInv'
<1>. t \in Thread
  BY DEF Thread
<1>t. TypeOK /\ TableSound /\ HeldSound
  BY DEF IInv
<1>1. CASE Claim(t)
  BY <1>1, ClaimSound
<1>2. CASE NoWork(t)
  BY <1>2, <1>t, RunEndSound, HomeIsHome, TableKept DEF NoWork, past, TypeOK
<1>3. CASE FirstHeartbeat(t)
  <2>1. pc[t] \in WorkerPc \ {"claim"} /\ "check" \in WorkerPc \ {"claim"}
    BY <1>3 DEF FirstHeartbeat, WorkerPc
  <2>2. Goto(t, "check") /\ Refresh(t) /\ UNCHANGED <<snap, run>>
          /\ UNCHANGED <<executions, succeeded, disturbed>>
    BY <1>3 DEF FirstHeartbeat, past
  <2>3. jobs' \in [Job -> Row] /\ TableSound'
    BY <2>1, <2>2, InRun, RefreshSound
  <2>. QED BY <1>t, <2>1, <2>2, <2>3, GotoSound DEF TypeOK, HeldSound
<1>4. CASE CheckCancel(t)
  <2>1. pc[t] \in WorkerPc \ {"claim"}
          /\ {"cancelling", "admit"} \subseteq WorkerPc \ {"claim"}
    BY <1>4 DEF CheckCancel, WorkerPc
  <2>2. UNCHANGED <<jobs, run, executions, succeeded, disturbed>>
    BY <1>4 DEF CheckCancel, past
  <2>3. TableSound' /\ jobs' \in [Job -> Row]
    BY <1>t, <2>2, TableKept DEF TypeOK
  <2>4. CASE Owns(t) /\ jobs[run[t].job].cancel
    <3>1. /\ snap' = [snap EXCEPT ![t] = View({run[t].job})]
          /\ Goto(t, "cancelling")
      BY <1>4, <2>4 DEF CheckCancel
    <3>2. /\ View({run[t].job}) \in [Job -> Row]
          /\ \A j \in Job : Sound(j, View({run[t].job})[j], succeeded)
      BY <1>t, <2>1, InRun, ViewSound
    <3>3. /\ snap' \in [Thread -> [Job -> Row]]
          /\ snap'[t] = View({run[t].job})
          /\ \A u \in Thread : u # t => snap'[u] = snap[u]
      BY <1>t, <3>1, <3>2 DEF TypeOK
    <3>4. HeldSound'
      BY <1>t, <2>2, <3>2, <3>3 DEF HeldSound
    <3>. QED BY <1>t, <2>1, <2>2, <2>3, <3>1, <3>3, <3>4, GotoSound DEF TypeOK
  <2>5. CASE ~(Owns(t) /\ jobs[run[t].job].cancel)
    <3>1. Goto(t, "admit") /\ UNCHANGED snap
      BY <1>4, <2>5 DEF CheckCancel
    <3>. QED BY <1>t, <2>1, <2>2, <2>3, <3>1, GotoSound DEF TypeOK, HeldSound
  <2>. QED BY <2>4, <2>5
<1>5. CASE CancelBeforeExecution(t)
  <2>1. pc[t] \in WorkerPc \ {"claim"} /\ "cancelled" \in TerminalStatus
    BY <1>5 DEF CancelBeforeExecution, WorkerPc, TerminalStatus, FailureStatus
  <2>2. /\ Save(run[t].job, Closed(snap[t][run[t].job], "cancelled"))
        /\ Return(t, Home(t))
        /\ UNCHANGED <<session, human, crashes, executions, succeeded, disturbed>>
    BY <1>5 DEF CancelBeforeExecution, past
  <2>3. jobs' \in [Job -> Row] /\ TableSound'
    BY <1>t, <2>1, <2>2, InRun, ClosedSound, SaveSound
  <2>. QED BY <1>t, <2>2, <2>3, RunEndSound, HomeIsHome DEF TypeOK
<1>6. CASE Refuse(t)
  <2>1. pc[t] \in WorkerPc \ {"claim"} /\ "closing" \in WorkerPc \ {"claim"}
    BY <1>6 DEF Refuse, WorkerPc
  <2>2. /\ Goto(t, "closing")
        /\ UNCHANGED <<jobs, snap, executions, succeeded, disturbed>>
    BY <1>6 DEF Refuse, past
  <2>3. PICK outcome \in {"blocked", "failed"} :
          run' = [run EXCEPT ![t].outcome = outcome]
    BY <1>6 DEF Refuse
  <2>4. /\ run' \in [Thread -> [job : Job \cup {NoJob},
                                token : Token \cup {NoToken},
                                outcome : Outcome \cup {"none"}]]
        /\ run'[t].job = run[t].job
        /\ run'[t].outcome = outcome /\ outcome \in Outcome
        /\ \A u \in Thread : u # t => run'[u] = run[u]
    BY <1>t, <2>3 DEF TypeOK, Outcome
  <2>. QED
    BY <1>t, <2>1, <2>2, <2>4, GotoSound, TableKept DEF TypeOK, HeldSound
<1>7. CASE StartExecution(t)
  <2>. DEFINE j == run[t].job
  <2>1. pc[t] \in WorkerPc \ {"claim"} /\ "executing" \in WorkerPc \ {"claim"}
    BY <1>7 DEF StartExecution, WorkerPc
  <2>2. /\ Goto(t, "executing")
        /\ UNCHANGED <<jobs, snap, run, succeeded, disturbed>>
    BY <1>7 DEF StartExecution
  <2>3. j \in Job /\ executions[j] \in Nat /\ RetryLimit[j] \in Nat
    BY <1>t, <2>1, InRun, JobAssumption DEF TypeOK
  <2>4. PICK n : executions' = [executions EXCEPT ![j] = n]
                 /\ n = IF executions[j] > RetryLimit[j] + 1
                          THEN executions[j] ELSE executions[j] + 1
    BY <1>7 DEF StartExecution
  <2>5. n \in Nat /\ n > 0
    BY <2>3, <2>4
  <2>6. /\ executions' \in [Job -> Nat] /\ executions'[j] > 0
        /\ \A i \in Job : executions[i] > 0 => executions'[i] > 0
    BY <1>t, <2>3, <2>4, <2>5 DEF TypeOK
  <2>. QED
    BY <1>t, <2>1, <2>2, <2>6, GotoSound, TableKept DEF TypeOK, HeldSound
<1>8. CASE FinishExecution(t)
  <2>1. pc[t] \in WorkerPc \ {"claim"} /\ "closing" \in WorkerPc \ {"claim"}
    BY <1>8 DEF FinishExecution, WorkerPc
  <2>2. /\ Goto(t, "closing")
        /\ UNCHANGED <<jobs, snap, executions, succeeded, disturbed>>
    BY <1>8 DEF FinishExecution, past
  <2>3. PICK outcome \in Outcome : run' = [run EXCEPT ![t].outcome = outcome]
    BY <1>8 DEF FinishExecution
  <2>4. /\ run' \in [Thread -> [job : Job \cup {NoJob},
                                token : Token \cup {NoToken},
                                outcome : Outcome \cup {"none"}]]
        /\ run'[t].job = run[t].job
        /\ run'[t].outcome = outcome
        /\ \A u \in Thread : u # t => run'[u] = run[u]
    BY <1>t, <2>3 DEF TypeOK
  <2>5. executions[run[t].job] > 0
    BY <1>8 DEF FinishExecution, IInv, RunSound, WorkerPc
  <2>. QED
    BY <1>t, <2>1, <2>2, <2>4, <2>5, GotoSound, TableKept DEF TypeOK, HeldSound
<1>9. CASE LastHeartbeat(t)
  <2>1. pc[t] \in WorkerPc \ {"claim"} /\ "record" \in WorkerPc \ {"claim"}
          /\ pc[t] = "closing"
    BY <1>9 DEF LastHeartbeat, WorkerPc
  <2>2. Goto(t, "record") /\ Refresh(t) /\ UNCHANGED <<snap, run>>
          /\ UNCHANGED <<executions, succeeded, disturbed>>
    BY <1>9 DEF LastHeartbeat, past
  <2>3. jobs' \in [Job -> Row] /\ TableSound'
    BY <2>1, <2>2, InRun, RefreshSound
  <2>4. /\ run[t].outcome \in Outcome
        /\ run[t].outcome = "succeeded" => executions[run[t].job] > 0
    BY <2>1 DEF IInv, RunSound
  <2>. QED BY <1>t, <2>1, <2>2, <2>3, <2>4, GotoSound DEF TypeOK, HeldSound
<1>10. CASE ReadForOutcome(t)
  <2>1. pc[t] \in WorkerPc \ {"claim"} /\ "recording" \in WorkerPc \ {"claim"}
          /\ pc[t] = "record"
    BY <1>10 DEF ReadForOutcome, WorkerPc
  <2>2. UNCHANGED <<jobs, executions, succeeded, disturbed>>
    BY <1>10 DEF ReadForOutcome, past
  <2>3. TableSound' /\ jobs' \in [Job -> Row]
    BY <1>t, <2>2, TableKept DEF TypeOK
  <2>4. CASE Owns(t)
    <3>1. /\ snap' = [snap EXCEPT ![t] = View({run[t].job})]
          /\ Goto(t, "recording") /\ UNCHANGED run
      BY <1>10, <2>4 DEF ReadForOutcome
    <3>2. /\ View({run[t].job}) \in [Job -> Row]
          /\ \A j \in Job : Sound(j, View({run[t].job})[j], succeeded)
      BY <1>t, <2>1, InRun, ViewSound
    <3>3. /\ snap' \in [Thread -> [Job -> Row]]
          /\ snap'[t] = View({run[t].job})
          /\ \A u \in Thread : u # t => snap'[u] = snap[u]
      BY <1>t, <3>1, <3>2 DEF TypeOK
    <3>4. HeldSound'
      BY <1>t, <2>2, <3>2, <3>3 DEF HeldSound
    <3>5. /\ run[t].outcome \in Outcome
          /\ run[t].outcome = "succeeded" => executions[run[t].job] > 0
      BY <2>1 DEF IInv, RunSound
    <3>. QED
      BY <1>t, <2>1, <2>2, <2>3, <3>1, <3>3, <3>4, <3>5, GotoSound DEF TypeOK
  <2>5. CASE ~Owns(t)
    <3>1. Return(t, Home(t)) /\ UNCHANGED <<session, human, crashes>>
      BY <1>10, <2>5 DEF ReadForOutcome
    <3>. QED BY <1>t, <2>2, <2>3, <3>1, RunEndSound, HomeIsHome DEF TypeOK
  <2>. QED BY <2>4, <2>5
<1>11. CASE RecordOutcome(t)
  BY <1>11, RecordOutcomeSound
<1>12. CASE Admit(t)
  <2>1. pc[t] \in WorkerPc \ {"claim"} /\ "admitted" \in WorkerPc \ {"claim"}
    BY <1>12 DEF Admit, WorkerPc
  <2>2. /\ Goto(t, "admitted")
        /\ UNCHANGED <<jobs, snap, run, executions, succeeded, disturbed>>
    BY <1>12 DEF Admit, past
  <2>. QED BY <1>t, <2>1, <2>2, GotoSound, TableKept DEF TypeOK, HeldSound
<1>. QED BY <1>1, <1>2, <1>3, <1>4, <1>5, <1>6, <1>7, <1>8, <1>9, <1>10,
  <1>11, <1>12 DEF RunStep

-----------------------------------------------------------------------------
(* Everything beside the two loops.                                        *)

\* Steps that only save one sound row, and move no thread and no operator.
LEMMA RowOnlySound ==
  ASSUME IInv, NEW j \in Job, NEW r \in Row, Sound(j, r, succeeded), Save(j, r),
         UNCHANGED <<session, local, human, crashes, past>>
  PROVE  IInv'
<1>1. UNCHANGED <<session, local, pc, todo, snap, run, request, asked, crashes,
                  executions, succeeded, disturbed>>
  BY DEF local, human, past
<1>2. jobs' \in [Job -> Row] /\ TableSound'
  BY <1>1, SaveSound DEF IInv
<1>3. TypeOK'
  BY <1>1, <1>2 DEF IInv, TypeOK
<1>. QED BY <1>1, <1>2, <1>3, LocalSound, RequestKept DEF IInv

\* The heartbeat beside the execution.
LEMMA HeartbeatLoopSound ==
  ASSUME IInv, NEW t \in WorkerThread, HeartbeatLoop(t)
  PROVE  IInv'
<1>1. t \in Thread /\ pc[t] \in WorkerPc \ {"claim"}
  BY DEF Thread, HeartbeatLoop, WorkerPc
<1>2. UNCHANGED <<session, local, pc, todo, snap, run, request, asked, crashes,
                  executions, succeeded, disturbed>>
  BY DEF HeartbeatLoop, local, human, past
<1>3. jobs' \in [Job -> Row] /\ TableSound'
  BY <1>1, <1>2, InRun, RefreshSound DEF HeartbeatLoop
<1>4. TypeOK'
  BY <1>2, <1>3 DEF IInv, TypeOK
<1>. QED BY <1>2, <1>3, <1>4, LocalSound, RequestKept DEF IInv

\* A thread that dies takes only its copies with it.
LEMMA CrashSound ==
  ASSUME IInv, NEW t \in Thread, Crash(t)
  PROVE  IInv'
<1>1. crashes' \in 0..MaxCrashes
  BY RuntimeAssumption DEF IInv, TypeOK, Crash
<1>2. UNCHANGED <<jobs, session, human, executions, succeeded, disturbed>>
  BY DEF Crash, past
<1>3. TableSound' /\ jobs' \in [Job -> Row]
  BY <1>2, TableKept DEF IInv, TypeOK
<1>. QED BY <1>1, <1>2, <1>3, RunEndSound, HomeIsHome DEF IInv, TypeOK, Crash

\* An operator takes a copy of a row that is not terminal.
LEMMA ReadForCancelSound ==
  ASSUME IInv, NEW o \in Operator, NEW j \in Job, ReadForCancel(o, j)
  PROVE  IInv'
<1>1. UNCHANGED <<jobs, session, local, pc, todo, snap, run, crashes,
                  executions, succeeded, disturbed>>
  BY DEF ReadForCancel, local, past
<1>2. /\ request' = [request EXCEPT ![o] = [job |-> j, row |-> jobs[j]]]
      /\ asked' = [asked EXCEPT ![o] = @ + 1]
      /\ asked[o] < MaxRequests
      /\ jobs[j].status \notin TerminalStatus \cup {"absent"}
  BY DEF ReadForCancel
<1>3. jobs[j] \in Row /\ Sound(j, jobs[j], succeeded)
  BY DEF IInv, TypeOK, TableSound
<1>4. /\ request' \in [Operator -> [job : Job \cup {NoJob}, row : Row]]
      /\ request'[o].job = j /\ request'[o].row = jobs[j]
      /\ \A p \in Operator : p # o => request'[p] = request[p]
  BY <1>2, <1>3 DEF IInv, TypeOK
<1>5. asked' \in [Operator -> 0..MaxRequests]
  BY <1>2, RuntimeAssumption DEF IInv, TypeOK
<1>6. TypeOK'
  BY <1>1, <1>4, <1>5 DEF IInv, TypeOK
<1>7. RequestSound'
  BY <1>1, <1>2, <1>3, <1>4 DEF IInv, RequestSound
<1>. QED BY <1>1, <1>6, <1>7, LocalSound, TableKept DEF IInv

\* The copy of an operator is saved with the request.
LEMMA SaveCancelSound ==
  ASSUME IInv, NEW o \in Operator, SaveCancel(o)
  PROVE  IInv'
<1>. DEFINE j == request[o].job
            r == [request[o].row EXCEPT !.cancel = TRUE]
<1>1. UNCHANGED <<session, local, pc, todo, snap, run, asked, crashes,
                  executions, succeeded>>
  BY DEF SaveCancel, local
<1>2. j \in Job /\ r \in Row /\ Sound(j, r, succeeded)
  BY CancelSetSound DEF IInv, TypeOK, RequestSound, SaveCancel
<1>3. jobs' \in [Job -> Row] /\ TableSound'
  BY <1>1, <1>2, SaveSound DEF IInv, SaveCancel
<1>4. NoRequest \in [job : Job \cup {NoJob}, row : Row] /\ NoRequest.job = NoJob
  BY DEF NoRequest, NoRow, Blank, Row
<1>5. /\ request' \in [Operator -> [job : Job \cup {NoJob}, row : Row]]
      /\ request'[o] = NoRequest
      /\ \A p \in Operator : p # o => request'[p] = request[p]
  BY <1>4 DEF IInv, TypeOK, SaveCancel
<1>6. TypeOK'
  <2>1. disturbed' \subseteq Job
    BY <1>2 DEF IInv, TypeOK, SaveCancel
  <2>. QED BY <1>1, <1>3, <1>5, <2>1 DEF IInv, TypeOK
<1>7. RequestSound'
  BY <1>1, <1>4, <1>5 DEF IInv, RequestSound
<1>. QED BY <1>1, <1>3, <1>6, <1>7, LocalSound DEF IInv

\* The history notes that a lease lapsed; no copy moves.
LEMMA LapseSound ==
  ASSUME IInv, NEW j \in Job, Lapse(j)
  PROVE  IInv'
<1>1. UNCHANGED <<session, local, pc, todo, snap, run, request, asked, crashes,
                  executions, succeeded>>
  BY DEF Lapse, local, human
<1>2. jobs' \in [Job -> Row] /\ TableSound'
  <2>1. jobs[j] \in Row /\ Sound(j, jobs[j], succeeded)
    BY DEF IInv, TypeOK, TableSound
  <2>. QED BY <1>1, <2>1, ClockSound, SaveSound DEF IInv, Lapse
<1>3. TypeOK'
  <2>1. disturbed' \subseteq Job
    BY DEF IInv, TypeOK, Lapse
  <2>. QED BY <1>1, <1>2, <2>1 DEF IInv, TypeOK
<1>. QED BY <1>1, <1>2, <1>3, LocalSound, RequestKept DEF IInv

\* The session moves, and no row does.
LEMMA MoveSessionSound ==
  ASSUME IInv, MoveSession
  PROVE  IInv'
<1>1. UNCHANGED <<jobs, local, pc, todo, snap, run, request, asked, crashes,
                  executions, succeeded, disturbed>>
  BY DEF MoveSession, local, human, past
<1>2. session' \in {"draft", "active", "paused", "closed"}
  BY DEF IInv, TypeOK, MoveSession, SessionMoves
<1>3. TypeOK'
  BY <1>1, <1>2 DEF IInv, TypeOK
<1>. QED BY <1>1, <1>3, LocalSound, RequestKept, TableKept DEF IInv

-----------------------------------------------------------------------------
(* The invariant is inductive, and implies the properties.                 *)

\* The invariant is inductive.
LEMMA StepSound == IInv /\ [Next]_vars => IInv'
<1>. SUFFICES ASSUME IInv, [Next]_vars PROVE IInv'
  OBVIOUS
<1>1. CASE UNCHANGED vars
  <2>1. UNCHANGED <<jobs, session, local, pc, todo, snap, run, request, asked,
                    crashes, executions, succeeded, disturbed>>
    BY <1>1 DEF vars, local, human, past
  <2>2. TypeOK'
    BY <2>1 DEF IInv, TypeOK
  <2>. QED BY <2>1, <2>2, LocalSound, RequestKept, TableKept DEF IInv
<1>2. ASSUME NEW t \in SchedulerThread, PassStep(t) PROVE IInv'
  BY <1>2, PassStepSound
<1>3. ASSUME NEW t \in WorkerThread, RunStep(t) \/ HeartbeatLoop(t) PROVE IInv'
  BY <1>3, RunStepSound, HeartbeatLoopSound
<1>4. ASSUME NEW t \in Thread, Crash(t) PROVE IInv'
  BY <1>4, CrashSound
<1>5. ASSUME NEW j \in Job, CreateJob(j) PROVE IInv'
  BY <1>5, NewRowSound, RowOnlySound DEF CreateJob
<1>6. ASSUME NEW j \in Job, EndBackoff(j) PROVE IInv'
  <2>1. jobs[j] \in Row /\ Sound(j, jobs[j], succeeded)
    BY DEF IInv, TypeOK, TableSound
  <2>. QED BY <1>6, <2>1, ClockSound, RowOnlySound DEF EndBackoff
<1>7. ASSUME NEW j \in Job, Lapse(j) PROVE IInv'
  BY <1>7, LapseSound
<1>8. ASSUME NEW o \in Operator,
             SaveCancel(o) \/ \E j \in Job : ReadForCancel(o, j)
      PROVE  IInv'
  BY <1>8, SaveCancelSound, ReadForCancelSound
<1>9. CASE MoveSession
  BY <1>9, MoveSessionSound
<1>. QED BY <1>1, <1>2, <1>3, <1>4, <1>5, <1>6, <1>7, <1>8, <1>9 DEF Next

\* Every copy of every row is sound, in every reachable state.
THEOREM InvariantHolds == Spec => []IInv
<1>. QED BY InitSound, StepSound, PTL DEF Spec

\* All variables keep their types; no handler fails to resolve an outcome.
THEOREM TypeCorrect == Spec => []TypeOK
<1>1. IInv => TypeOK
  BY DEF IInv
<1>. QED BY <1>1, InvariantHolds, PTL

\* A row is leased exactly while it is running, for any number of passes,
\* workers and operators.
THEOREM LeaseMatchesStatus == Spec => []LeasedIffRunning
<1>1. IInv => LeasedIffRunning
  BY DEF IInv, TableSound, Sound, LeasedIffRunning
<1>. QED BY <1>1, InvariantHolds, PTL

\* No row with a cancellation request ends as succeeded, failed or timed out.
THEOREM CancellationWins == Spec => []CancellationPrevails
<1>1. IInv => CancellationPrevails
  BY DEF IInv, TableSound, Sound, CancellationPrevails
<1>. QED BY <1>1, InvariantHolds, PTL

\* No row is charged more retries than its budget.
THEOREM RetriesBounded == Spec => []RetryBudgetKept
<1>1. IInv => RetryBudgetKept
  BY DEF IInv, TableSound, Sound, RetryBudgetKept
<1>. QED BY <1>1, InvariantHolds, PTL

-----------------------------------------------------------------------------
(* The runtime implements the dependency order.                            *)

Started == {j \in Job : executions[j] > 0}

\* An execution starts only a job whose dependencies have succeeded.
LEMMA StartImplemented ==
  ASSUME IInv, NEW t \in WorkerThread, StartExecution(t)
  PROVE  /\ \E j \in Job : Deps[j] \subseteq succeeded /\ Started' = Started \cup {j}
         /\ UNCHANGED succeeded
<1>. DEFINE j == run[t].job
<1>1. t \in Thread /\ pc[t] \in WorkerPc \ {"claim"}
  BY DEF Thread, StartExecution, WorkerPc
<1>2. /\ j \in Job /\ Deps[j] \subseteq succeeded
      /\ RetryLimit[j] \in Nat /\ executions \in [Job -> Nat]
  BY <1>1, InRun, JobAssumption DEF IInv, TypeOK
<1>3. PICK n : executions' = [executions EXCEPT ![j] = n]
               /\ n = IF executions[j] > RetryLimit[j] + 1
                        THEN executions[j] ELSE executions[j] + 1
  BY DEF StartExecution
<1>4. n > 0 /\ executions'[j] = n
        /\ \A i \in Job : i # j => executions'[i] = executions[i]
  BY <1>2, <1>3
<1>5. Started' = Started \cup {j}
  BY <1>2, <1>4 DEF Started
<1>. QED BY <1>2, <1>5 DEF StartExecution

\* What any step may do to the two histories.
LEMMA HistoryStep ==
  ASSUME IInv, [Next]_vars
  PROVE  \/ UNCHANGED <<Started, succeeded>>
         \/ /\ \E j \in Job : /\ Deps[j] \subseteq succeeded
                              /\ Started' = Started \cup {j}
            /\ UNCHANGED succeeded
         \/ /\ \E j \in Started : succeeded' = succeeded \cup {j}
            /\ UNCHANGED Started
<1>. USE DEF past
<1>1. CASE UNCHANGED vars
  BY <1>1 DEF vars, Started
<1>2. ASSUME NEW t \in SchedulerThread, PassStep(t)
      PROVE  UNCHANGED <<executions, succeeded>>
  BY <1>2 DEF PassStep, StartPass, StartCancelLoop, StartBlockLoop,
    StartEnqueueLoop, EndPass, Enter, RecoverStale, CancelWaiting,
    BlockDependent, EnqueueReady, SaveListed
<1>3. ASSUME NEW t \in WorkerThread, RunStep(t), ~StartExecution(t),
             ~RecordOutcome(t)
      PROVE  UNCHANGED <<executions, succeeded>>
  BY <1>3 DEF RunStep, Claim, NoWork, FirstHeartbeat, CheckCancel,
    CancelBeforeExecution, Refuse, Admit, FinishExecution, LastHeartbeat,
    ReadForOutcome
<1>4. ASSUME NEW t \in WorkerThread, RecordOutcome(t)
      PROVE  \/ UNCHANGED <<Started, succeeded>>
             \/ /\ \E j \in Started : succeeded' = succeeded \cup {j}
                /\ UNCHANGED Started
  <2>1. t \in Thread /\ UNCHANGED executions
    BY <1>4 DEF Thread, RecordOutcome
  <2>. QED BY <1>4, <2>1, RecordOutcomeSound DEF Started
<1>5. ASSUME \/ \E t \in WorkerThread : HeartbeatLoop(t)
             \/ \E t \in Thread : Crash(t)
             \/ \E j \in Job : CreateJob(j) \/ Lapse(j) \/ EndBackoff(j)
             \/ \E o \in Operator : \/ SaveCancel(o)
                                    \/ \E j \in Job : ReadForCancel(o, j)
             \/ MoveSession
      PROVE  UNCHANGED <<executions, succeeded>>
  BY <1>5 DEF HeartbeatLoop, Crash, CreateJob, Lapse, EndBackoff, SaveCancel,
    ReadForCancel, MoveSession
<1>6. UNCHANGED executions => UNCHANGED Started
  BY DEF Started
<1>. QED
  BY <1>1, <1>2, <1>3, <1>4, <1>5, <1>6, StartImplemented DEF Next

\* For any jobs, dependencies, threads and operators: no execution before the
\* dependencies have succeeded, no success without an execution.
THEOREM OrderImplemented == Spec => OrderSpec
<1>1. Init => Order!Init
  BY DEF Init, Order!Init
<1>2. IInv /\ [Next]_vars => [Order!Next]_<<Started, succeeded>>
  BY HistoryStep DEF Order!Next, Order!Start, Order!Complete, Started
<1>. QED
  BY <1>1, <1>2, InvariantHolds, PTL DEF Spec, OrderSpec, Order!Spec, Started

-----------------------------------------------------------------------------
(* What the steps of a thread do, written out: which thread they are of,    *)
(* and which row they save.                                                 *)

Only(t) ==
  \A u \in Thread : u # t =>
    pc'[u] = pc[u] /\ todo'[u] = todo[u] /\ snap'[u] = snap[u] /\ run'[u] = run[u]

Saved(j, r) == jobs'[j] = r /\ \A i \in Job : i # j => jobs'[i] = jobs[i]

\* The rows that the operations make, field by field.
LEMMA MadeRows ==
  ASSUME NEW r \in Row
  PROVE  /\ \A s : /\ Closed(r, s).status = s /\ ~Closed(r, s).lapsed
                   /\ ~Closed(r, s).backoff /\ Closed(r, s).cancel = r.cancel
         /\ Enqueued(r).status = "queued" /\ Enqueued(r).lapsed = r.lapsed
         /\ Enqueued(r).cancel = r.cancel /\ Enqueued(r).retries = r.retries
         /\ \A k : /\ Claimed(r, k).status = "running" /\ ~Claimed(r, k).lapsed
                   /\ Claimed(r, k).cancel = r.cancel
                   /\ Claimed(r, k).retries = r.retries
                   /\ Claimed(r, k).token = k
BY DEF Closed, Unleased, Enqueued, Claimed, Row

\* A row that goes back to the queue is charged one retry.
LEMMA RequeuedRow ==
  ASSUME NEW r \in Row
  PROVE  /\ Requeued(r).status = "queued" /\ ~Requeued(r).lapsed
         /\ Requeued(r).retries = r.retries + 1 /\ Requeued(r).cancel = r.cancel
<1>. DEFINE u   == Unleased(r)
            n   == u.retries + 1
            new == [u EXCEPT !.status = "queued", !.backoff = TRUE, !.retries = n]
<1>1. u \in Row /\ u.retries = r.retries /\ ~u.lapsed /\ u.cancel = r.cancel
  BY DEF Unleased, Row
<1>2. Requeued(r) = new
  BY DEF Requeued
<1>3. n = r.retries + 1
  BY <1>1
<1>. HIDE DEF u, n
<1>4. /\ new.status = "queued" /\ new.lapsed = u.lapsed /\ new.cancel = u.cancel
      /\ new.retries = n
  BY <1>1 DEF Row
<1>. QED BY <1>1, <1>2, <1>3, <1>4

\* A loop is entered with the rows it lists.
LEMMA EnterShape ==
  ASSUME IInv, NEW t \in Thread, NEW loop, NEW S, NEW view, Enter(t, loop, S, view)
  PROVE  /\ Only(t) /\ pc'[t] = loop /\ todo'[t] = S /\ snap'[t] = view
         /\ UNCHANGED <<jobs, run, executions, disturbed>>
BY DEF IInv, TypeOK, Enter, Only, past

\* One row of a loop is saved.
LEMMA ListedShape ==
  ASSUME IInv, NEW t \in Thread, NEW j \in Job, NEW r \in Row, NEW left \in Row,
         SaveListed(t, j, r, left)
  PROVE  /\ Only(t) /\ Saved(j, r) /\ todo'[t] = todo[t] \ {j}
         /\ snap'[t][j] = left
         /\ \A i \in Job : i # j => snap'[t][i] = snap[t][i]
         /\ UNCHANGED <<pc, run, executions, disturbed>>
<1>1. jobs \in [Job -> Row] /\ todo \in [Thread -> SUBSET Job]
      /\ snap \in [Thread -> [Job -> Row]] /\ snap[t] \in [Job -> Row]
  BY DEF IInv, TypeOK
<1>2. /\ snap'[t] = [snap[t] EXCEPT ![j] = left]
      /\ \A u \in Thread : u # t => snap'[u] = snap[u]
  BY <1>1 DEF SaveListed
<1>3. snap'[t][j] = left /\ \A i \in Job : i # j => snap'[t][i] = snap[t][i]
  BY <1>1, <1>2
<1>4. Saved(j, r)
  BY <1>1 DEF SaveListed, Save, Saved
<1>5. /\ todo'[t] = todo[t] \ {j}
      /\ \A u \in Thread : u # t => todo'[u] = todo[u]
  BY <1>1 DEF SaveListed
<1>6. UNCHANGED <<pc, run, executions, disturbed>>
  BY DEF SaveListed, past
<1>. QED BY <1>2, <1>3, <1>4, <1>5, <1>6 DEF Only

\* A thread that returns holds nothing.
LEMMA ReturnShape ==
  ASSUME IInv, NEW t \in Thread, NEW next, Return(t, next)
  PROVE  Only(t) /\ pc'[t] = next /\ todo'[t] = {} /\ snap'[t] = Nothing /\ run'[t] = NoRun
BY DEF IInv, TypeOK, Return, Only

\* Nothing held is an absent row.
LEMMA NothingHeld ==
  /\ \A j \in Job : Nothing[j] \in Row /\ Nothing[j].status = "absent" /\ ~Nothing[j].lapsed
  /\ NoRun.job = NoJob
BY JobAssumption DEF Nothing, NoRow, Blank, NoRun, Row

\* A heartbeat moves no row to another status.
LEMMA RefreshShape ==
  ASSUME IInv, NEW t \in Thread, run[t].job \in Job, Refresh(t)
  PROVE  \A i \in Job : /\ jobs'[i].status = jobs[i].status
                        /\ jobs'[i].retries = jobs[i].retries
                        /\ jobs'[i].cancel = jobs[i].cancel
                        /\ jobs'[i].backoff = jobs[i].backoff
                        /\ jobs'[i].lapsed => jobs[i].lapsed
<1>. DEFINE j == run[t].job
            r == [jobs[j] EXCEPT !.lapsed = FALSE]
<1>1. jobs \in [Job -> Row] /\ jobs[j] \in Row
  BY DEF IInv, TypeOK
<1>2. CASE Owns(t)
  <2>1. jobs' = [jobs EXCEPT ![j] = r]
    BY <1>2 DEF Refresh, Save
  <2>2. /\ r.status = jobs[j].status /\ r.retries = jobs[j].retries
        /\ r.cancel = jobs[j].cancel /\ r.backoff = jobs[j].backoff /\ ~r.lapsed
    BY <1>1 DEF Row
  <2>. HIDE DEF r
  <2>. QED BY <1>1, <2>1, <2>2
<1>3. CASE ~Owns(t)
  BY <1>3 DEF Refresh
<1>. QED BY <1>2, <1>3

-----------------------------------------------------------------------------
(* One scheduler thread: one executor for a job that nothing disturbed.     *)

\* Workers go on to work, and only a scheduler begins or resumes a pass.
LEMMA PlacesKept ==
  ASSUME IInv, PassesInPlace, [Next]_vars
  PROVE  PassesInPlace'
<1>1. CASE UNCHANGED vars
  BY <1>1 DEF vars, local, PassesInPlace
<1>2. ASSUME NEW t \in SchedulerThread, PassStep(t) PROVE PassesInPlace'
  <2>1. t \in Thread /\ \A u \in Thread : u # t => pc'[u] = pc[u]
    BY <1>2 DEF Thread, IInv, TypeOK, PassStep, StartPass, StartCancelLoop, StartBlockLoop,
      StartEnqueueLoop, EndPass, Enter, Return, RecoverStale, CancelWaiting, BlockDependent,
      EnqueueReady, SaveListed
  <2>. QED BY <2>1 DEF PassesInPlace
<1>3. ASSUME NEW t \in Thread,
             \/ RunStep(t) \/ HeartbeatLoop(t)
             \/ Crash(t)
      PROVE  PassesInPlace'
  <2>1. Home(t) \in SchedulerPc => t \in SchedulerThread
    BY DEF Home, SchedulerPc
  <2>2. \/ UNCHANGED pc
        \/ \E next \in (WorkerPc \ {"claim"}) \cup {Home(t)} : pc' = [pc EXCEPT ![t] = next]
    <3>1. CASE HeartbeatLoop(t)
      BY <3>1 DEF HeartbeatLoop, local
    <3>2. CASE Crash(t)
      BY <3>2 DEF Crash, Return
    <3>3. CASE RunStep(t)
      BY <3>3 DEF RunStep, Claim, NoWork, FirstHeartbeat, CheckCancel, CancelBeforeExecution,
        Refuse, Admit, StartExecution, FinishExecution, LastHeartbeat, ReadForOutcome,
        RecordOutcome, Goto, Return, WorkerPc
    <3>. QED BY <1>3, <3>1, <3>2, <3>3
  <2>3. \A next \in WorkerPc : next \notin SchedulerPc
    BY DEF WorkerPc, SchedulerPc
  <2>. QED BY <2>1, <2>2, <2>3 DEF IInv, TypeOK, PassesInPlace
<1>4. ASSUME \/ \E j \in Job : CreateJob(j) \/ Lapse(j) \/ EndBackoff(j)
             \/ \E o \in Operator : \/ SaveCancel(o)
                                    \/ \E j \in Job : ReadForCancel(o, j)
             \/ MoveSession
      PROVE  PassesInPlace'
  BY <1>4 DEF CreateJob, Lapse, EndBackoff, SaveCancel, ReadForCancel, MoveSession, local,
    PassesInPlace
<1>. QED BY <1>1, <1>2, <1>3, <1>4 DEF Next, Thread

\* What a loop lists of an undisturbed job.
LEMMA FleetEnter ==
  ASSUME IInv, FleetInv, OneScheduler, NEW t \in SchedulerThread,
         NEW loop \in SchedulerPc, NEW S \in SUBSET Job, NEW view,
         \A j \in Job \ disturbed :
           /\ ~view[j].lapsed
           /\ j \in S => loop # "recover" /\ (loop = "enqueue" => jobs[j].status = "pending"),
         Enter(t, loop, S, view)
  PROVE  \A j \in Job \ disturbed' : Undisturbed(j)'
<1>1. /\ Only(t) /\ pc'[t] = loop /\ todo'[t] = S /\ snap'[t] = view
      /\ UNCHANGED <<jobs, run, executions, disturbed>>
  BY EnterShape DEF Thread
<1>. TAKE j \in Job \ disturbed'
<1>2. j \in Job \ disturbed /\ Undisturbed(j)
  BY <1>1 DEF FleetInv
<1>. QED BY <1>1, <1>2 DEF Undisturbed, Only

\* What a loop saves of an undisturbed job: its end, or a pending row queued.
LEMMA FleetListed ==
  ASSUME IInv, FleetInv, OneScheduler, NEW t \in SchedulerThread, NEW j \in Job,
         NEW r \in Row, NEW left \in Row, SaveListed(t, j, r, left),
         pc[t] \in SchedulerPc,
         j \notin disturbed =>
           /\ ~r.lapsed /\ ~left.lapsed
           /\ r.status \in TerminalStatus \/ (r.status = "queued" /\ jobs[j].status = "pending")
  PROVE  \A i \in Job \ disturbed' : Undisturbed(i)'
<1>1. /\ Only(t) /\ Saved(j, r) /\ todo'[t] = todo[t] \ {j} /\ snap'[t][j] = left
      /\ \A i \in Job : i # j => snap'[t][i] = snap[t][i]
      /\ UNCHANGED <<pc, run, executions, disturbed>>
  BY ListedShape DEF Thread
<1>. TAKE i \in Job \ disturbed'
<1>2. i \in Job \ disturbed /\ Undisturbed(i) /\ PassesInPlace
  BY <1>1 DEF FleetInv
<1>3. CASE i # j
  BY <1>1, <1>2, <1>3 DEF Undisturbed, Only, Saved
<1>4. CASE i = j
  <2>1. jobs'[j] = r /\ ~r.lapsed
    BY <1>1, <1>2, <1>4 DEF Saved
  <2>2. \A u \in Thread : ~snap'[u][j].lapsed
    BY <1>1, <1>2, <1>4 DEF Undisturbed, Only
  <2>3. \A u, v \in Thread : run'[u].job = j /\ run'[v].job = j => u = v
    BY <1>1, <1>2, <1>4 DEF Undisturbed
  <2>4. r.status \in WaitingStatus \cup {"absent"} => \A u \in Thread : run'[u].job # j
    BY <1>1, <1>2, <1>4 DEF Undisturbed, WaitingStatus, TerminalStatus, FailureStatus
  <2>5. \A u \in Thread : j \in todo'[u] => pc'[u] \notin {"recover", "enqueue"}
    <3>. TAKE u \in Thread
    <3>1. CASE u = t
      BY <1>1, <3>1
    <3>2. CASE u # t
      <4>1. pc'[u] = pc[u] /\ u \notin SchedulerThread
        BY <1>1, <3>2 DEF Only, OneScheduler
      <4>. QED BY <1>2, <4>1 DEF PassesInPlace, SchedulerPc
    <3>. QED BY <3>1, <3>2
  <2>. QED BY <1>4, <2>1, <2>2, <2>3, <2>4, <2>5 DEF Undisturbed
<1>. QED BY <1>3, <1>4

\* Whatever a pass does, undisturbed jobs stay so.
LEMMA FleetPass ==
  ASSUME IInv, FleetInv, OneScheduler, NEW t \in SchedulerThread, PassStep(t)
  PROVE  \A j \in Job \ disturbed' : Undisturbed(j)'
<1>t. /\ t \in Thread /\ jobs \in [Job -> Row] /\ snap[t] \in [Job -> Row]
      /\ \A j \in Job : jobs[j] \in Row /\ snap[t][j] \in Row
      /\ \A j \in Job : (j \in todo[t] => j \in Job)
      /\ TableSound /\ HeldSound /\ ListedAsKind
  BY DEF Thread, IInv, TypeOK
<1>u. \A j \in Job \ disturbed : Undisturbed(j)
  BY DEF FleetInv
<1>v. \A S : \A j \in Job : View(S)[j] = jobs[j] \/ View(S)[j] = NoRow
  BY DEF View
<1>n. NoRow \in Row /\ ~NoRow.lapsed
  BY JobAssumption DEF NoRow, Blank, Row, JobStatus, WaitingStatus
<1>w. \A S : \A j \in Job \ disturbed : ~View(S)[j].lapsed
  BY <1>u, <1>v, <1>n DEF Undisturbed
<1>1. CASE StartPass(t)
  <2>. DEFINE S == {j \in Job : IsStale(jobs[j])}
  <2>1. Enter(t, "recover", S, View(S))
    BY <1>1 DEF StartPass
  <2>2. \A j \in Job \ disturbed : j \notin S
    BY <1>t, <1>u DEF IsStale, Undisturbed, TableSound, Sound
  <2>3. S \in SUBSET Job /\ "recover" \in SchedulerPc
    BY DEF SchedulerPc
  <2>. HIDE DEF S
  <2>. QED BY <1>w, <2>1, <2>2, <2>3, FleetEnter
<1>2. CASE StartCancelLoop(t)
  <2>. DEFINE S == {j \in Job : IsRevoked(jobs[j])}
  <2>1. Enter(t, "cancel", S, View(S)) /\ S \in SUBSET Job /\ "cancel" \in SchedulerPc
    BY <1>2 DEF StartCancelLoop, SchedulerPc
  <2>. HIDE DEF S
  <2>. QED BY <1>w, <2>1, FleetEnter
<1>3. CASE StartBlockLoop(t)
  <2>. DEFINE S == {j \in Job : Doomed(jobs, j)}
  <2>1. Enter(t, "block", S, jobs) /\ S \in SUBSET Job /\ "block" \in SchedulerPc
    BY <1>3 DEF StartBlockLoop, SchedulerPc
  <2>2. \A j \in Job \ disturbed : ~jobs[j].lapsed
    BY <1>u DEF Undisturbed
  <2>. HIDE DEF S
  <2>. QED BY <2>1, <2>2, FleetEnter
<1>4. CASE StartEnqueueLoop(t)
  <2>. DEFINE S == {j \in Job : session = "active" /\ Ready(jobs, j)}
  <2>1. Enter(t, "enqueue", S, View(S)) /\ S \in SUBSET Job /\ "enqueue" \in SchedulerPc
    BY <1>4 DEF StartEnqueueLoop, SchedulerPc
  <2>2. \A j \in S : jobs[j].status = "pending"
    BY DEF Ready
  <2>. HIDE DEF S
  <2>. QED BY <1>w, <2>1, <2>2, FleetEnter
<1>5. CASE EndPass(t)
  <2>1. PICK next \in {"pass", "claim"} : Return(t, next)
    BY <1>5 DEF EndPass
  <2>2. /\ Only(t) /\ pc'[t] = next /\ todo'[t] = {} /\ snap'[t] = Nothing /\ run'[t] = NoRun
        /\ UNCHANGED <<jobs, disturbed>>
    BY <1>t, <1>5, <2>1, ReturnShape DEF EndPass, past
  <2>. TAKE j \in Job \ disturbed'
  <2>3. Undisturbed(j) /\ j # NoJob
    BY <1>u, <2>2, RuntimeAssumption
  <2>. QED BY <2>2, <2>3, NothingHeld DEF Undisturbed, Only
<1>6. ASSUME NEW j \in Job, RecoverStale(t, j)
      PROVE  \A i \in Job \ disturbed' : Undisturbed(i)'
  <2>. DEFINE r == Recovered(j, snap[t][j])
  <2>1. SaveListed(t, j, r, NoRow) /\ pc[t] = "recover" /\ j \in todo[t]
    BY <1>6 DEF RecoverStale
  <2>2. r \in Row
    BY <1>t, <2>1, RecoveredSound DEF HeldSound, ListedAsKind
  <2>3. j \in disturbed
    BY <1>t, <1>u, <2>1 DEF Undisturbed
  <2>. HIDE DEF r
  <2>. QED BY <1>n, <2>1, <2>2, <2>3, FleetListed DEF SchedulerPc
<1>7. ASSUME NEW j \in Job, CancelWaiting(t, j)
      PROVE  \A i \in Job \ disturbed' : Undisturbed(i)'
  <2>. DEFINE r == Closed(snap[t][j], "cancelled")
  <2>1. SaveListed(t, j, r, NoRow) /\ pc[t] = "cancel"
    BY <1>7 DEF CancelWaiting
  <2>2. r \in Row /\ r.status = "cancelled" /\ ~r.lapsed /\ "cancelled" \in TerminalStatus
    BY <1>t, ClosedSound, MadeRows DEF HeldSound, TerminalStatus, FailureStatus
  <2>. HIDE DEF r
  <2>. QED BY <1>n, <2>1, <2>2, FleetListed DEF SchedulerPc
<1>8. ASSUME NEW j \in Job, BlockDependent(t, j)
      PROVE  \A i \in Job \ disturbed' : Undisturbed(i)'
  <2>. DEFINE r == Closed(snap[t][j], "blocked")
  <2>1. SaveListed(t, j, r, r) /\ pc[t] = "block"
    BY <1>8 DEF BlockDependent
  <2>2. r \in Row /\ r.status = "blocked" /\ ~r.lapsed /\ "blocked" \in TerminalStatus
    BY <1>t, ClosedSound, MadeRows DEF HeldSound, TerminalStatus, FailureStatus
  <2>. HIDE DEF r
  <2>. QED BY <2>1, <2>2, FleetListed DEF SchedulerPc
<1>9. ASSUME NEW j \in Job, EnqueueReady(t, j)
      PROVE  \A i \in Job \ disturbed' : Undisturbed(i)'
  <2>. DEFINE r == Enqueued(snap[t][j])
  <2>1. SaveListed(t, j, r, NoRow) /\ pc[t] = "enqueue" /\ j \in todo[t]
    BY <1>9 DEF EnqueueReady
  <2>2. r \in Row /\ r.status = "queued" /\ r.lapsed = snap[t][j].lapsed
    BY <1>t, MadeRows, EnqueuedSound, <2>1 DEF HeldSound, ListedAsKind
  <2>3. j \notin disturbed => ~snap[t][j].lapsed /\ jobs[j].status = "pending"
    BY <1>t, <1>u, <2>1 DEF Undisturbed
  <2>. HIDE DEF r
  <2>. QED BY <1>n, <2>1, <2>2, <2>3, FleetListed DEF SchedulerPc
<1>. QED BY <1>1, <1>2, <1>3, <1>4, <1>5, <1>6, <1>7, <1>8, <1>9 DEF PassStep

\* A worker that keeps its job, or lets go of it, and leaves the statuses alone.
LEMMA FleetGoes ==
  ASSUME IInv, FleetInv, NEW t \in Thread, Only(t), UNCHANGED disturbed,
         todo'[t] \subseteq todo[t], todo'[t] = {} \/ pc'[t] \in WorkerPc,
         run'[t].job \in {run[t].job, NoJob},
         \A j \in Job \ disturbed : ~snap'[t][j].lapsed,
         \A j \in Job : /\ jobs'[j].status = jobs[j].status
                        /\ jobs'[j].lapsed => jobs[j].lapsed
  PROVE  \A j \in Job \ disturbed' : Undisturbed(j)'
<1>. TAKE j \in Job \ disturbed'
<1>1. Undisturbed(j) /\ j # NoJob /\ j \in Job \ disturbed
  BY RuntimeAssumption DEF FleetInv
<1>2. \A u \in Thread : run'[u].job = j => run[u].job = j
  BY <1>1 DEF Only
<1>3. \A u \in Thread : ~snap'[u][j].lapsed
  BY <1>1 DEF Undisturbed, Only
<1>4. \A u \in Thread : j \in todo'[u] =>
         pc'[u] # "recover" /\ (pc'[u] = "enqueue" => jobs'[j].status = "pending")
  BY <1>1 DEF Undisturbed, Only, WorkerPc
<1>. QED BY <1>1, <1>2, <1>3, <1>4 DEF Undisturbed

\* A worker that lets go of its job with a row that is over, or back in the
\* queue.
LEMMA FleetLetsGo ==
  ASSUME IInv, FleetInv, NEW t \in Thread, UNCHANGED disturbed,
         NEW next, Return(t, next), run[t].job \in Job, NEW r \in Row,
         Save(run[t].job, r), ~r.lapsed,
         r.status \in TerminalStatus \cup {"queued"}
  PROVE  \A j \in Job \ disturbed' : Undisturbed(j)'
<1>1. /\ Only(t) /\ pc'[t] = next /\ todo'[t] = {} /\ snap'[t] = Nothing /\ run'[t] = NoRun
  BY ReturnShape
<1>. DEFINE k == run[t].job
<1>2. Saved(k, r) /\ k \in Job
  BY DEF IInv, TypeOK, Save, Saved
<1>. HIDE DEF k
<1>. TAKE j \in Job \ disturbed'
<1>3. Undisturbed(j) /\ j # NoJob /\ j \in Job \ disturbed
  BY RuntimeAssumption DEF FleetInv
<1>4. \A u \in Thread : run'[u].job = j => u # t /\ run[u].job = j
  BY <1>1, <1>3, NothingHeld DEF Only
<1>5. \A u \in Thread : ~snap'[u][j].lapsed
  BY <1>1, <1>3, NothingHeld DEF Undisturbed, Only
<1>6. CASE j # k
  BY <1>1, <1>2, <1>3, <1>4, <1>5, <1>6 DEF Undisturbed, Only, Saved
<1>7. CASE j = k
  <2>1. \A u \in Thread : run'[u].job # j
    BY <1>3, <1>4, <1>7 DEF Undisturbed, k
  <2>2. \A u \in Thread : j \in todo'[u] => pc'[u] # "recover" /\ pc'[u] # "enqueue"
    <3>1. jobs[j].status # "pending"
      BY <1>3, <1>7 DEF Undisturbed, k, WaitingStatus
    <3>. QED BY <1>1, <1>3, <3>1 DEF Undisturbed, Only
  <2>3. jobs'[j] = r
    BY <1>2, <1>7 DEF Saved
  <2>. QED BY <1>5, <2>1, <2>2, <2>3 DEF Undisturbed
<1>. QED BY <1>6, <1>7

\* An undisturbed job is claimed by one worker.
LEMMA FleetClaim ==
  ASSUME IInv, FleetInv, NEW t \in Thread, Claim(t)
  PROVE  \A j \in Job \ disturbed' : Undisturbed(j)'
<1>. DEFINE k == FreshToken
<1>1. PICK c \in Claimable :
        /\ Save(c, Claimed(jobs[c], k))
        /\ run' = [run EXCEPT ![t] = [job |-> c, token |-> k, outcome |-> "none"]]
  BY DEF Claim
<1>. HIDE DEF k
<1>2. c \in Job /\ jobs[c] \in Row /\ jobs[c].status = "queued"
  BY DEF IInv, TypeOK, Claimable, IsClaimable
<1>. DEFINE r == Claimed(jobs[c], k)
<1>3. Saved(c, r) /\ r.status = "running" /\ ~r.lapsed
  BY <1>1, <1>2, MadeRows DEF IInv, TypeOK, Save, Saved
<1>. HIDE DEF r
<1>4. /\ run'[t].job = c /\ \A u \in Thread : u # t => run'[u] = run[u]
      /\ pc'[t] = "leased" /\ \A u \in Thread : u # t => pc'[u] = pc[u]
      /\ UNCHANGED <<todo, snap, disturbed>>
  BY <1>1 DEF IInv, TypeOK, Claim, past
<1>. TAKE j \in Job \ disturbed'
<1>5. Undisturbed(j) /\ j \in Job \ disturbed
  BY <1>4 DEF FleetInv
<1>6. CASE j # c
  BY <1>3, <1>4, <1>5, <1>6 DEF Undisturbed, Saved
<1>7. CASE j = c
  <2>1. \A u \in Thread : run[u].job # j
    BY <1>2, <1>5, <1>7 DEF Undisturbed, WaitingStatus
  <2>2. \A u \in Thread : j \in todo'[u] => pc'[u] # "recover" /\ pc'[u] # "enqueue"
    BY <1>2, <1>4, <1>5, <1>7 DEF Undisturbed
  <2>3. jobs'[j] = r
    BY <1>3, <1>7 DEF Saved
  <2>. QED BY <1>3, <1>4, <1>5, <1>7, <2>1, <2>2, <2>3 DEF Undisturbed, WaitingStatus
<1>. QED BY <1>6, <1>7

\* What a worker records: the end of the job, or another attempt.
LEMMA RecordedRow ==
  ASSUME NEW j \in Job, NEW r \in Row, NEW outcome \in Outcome
  PROVE  LET n == Resolved(j, r, outcome) IN
         /\ ~n.lapsed /\ n.status \in TerminalStatus \cup {"queued"}
         /\ n.status = "queued" => n = Requeued(r) /\ MayRetry(j, r) /\ ~r.cancel
         /\ n.status # "queued" => ~n.backoff /\ n.cancel = r.cancel
<1>. DEFINE n == Resolved(j, r, outcome)
<1>1. \A s : /\ Closed(r, s).status = s /\ ~Closed(r, s).lapsed
             /\ ~Closed(r, s).backoff /\ Closed(r, s).cancel = r.cancel
  BY MadeRows
<1>2. Requeued(r).status = "queued" /\ ~Requeued(r).lapsed
  BY RequeuedRow
<1>3. \/ /\ n = Requeued(r) /\ MayRetry(j, r) /\ ~r.cancel
      \/ \E s \in TerminalStatus : n = Closed(r, s)
  BY DEF Resolved, RetriedOr, PrefersCancel, Outcome, TerminalStatus, FailureStatus
<1>. HIDE DEF n
<1>4. "queued" \notin TerminalStatus
  BY DEF TerminalStatus, FailureStatus
<1>5. /\ ~n.lapsed /\ n.status \in TerminalStatus \cup {"queued"}
      /\ n.status = "queued" => n = Requeued(r) /\ MayRetry(j, r) /\ ~r.cancel
      /\ n.status # "queued" => ~n.backoff /\ n.cancel = r.cancel
  BY <1>1, <1>2, <1>3, <1>4
<1>. QED BY <1>5 DEF n

\* Whatever a worker does, undisturbed jobs stay so.
LEMMA FleetRun ==
  ASSUME IInv, FleetInv, NEW t \in WorkerThread, RunStep(t) \/ HeartbeatLoop(t)
  PROVE  \A j \in Job \ disturbed' : Undisturbed(j)'
<1>t. /\ t \in Thread /\ run[t] \in [job : Job \cup {NoJob}, token : Token \cup {NoToken},
                                     outcome : Outcome \cup {"none"}]
      /\ jobs \in [Job -> Row] /\ snap \in [Thread -> [Job -> Row]]
      /\ \A j \in Job : jobs[j] \in Row /\ snap[t][j] \in Row
      /\ pc \in [Thread -> SchedulerPc \cup WorkerPc] /\ run \in [Thread -> [job : Job \cup {NoJob},
           token : Token \cup {NoToken}, outcome : Outcome \cup {"none"}]]
      /\ HeldSound
  BY DEF Thread, IInv, TypeOK
<1>u. \A j \in Job \ disturbed : Undisturbed(j)
  BY DEF FleetInv
<1>n. NoRow \in Row /\ ~NoRow.lapsed
  BY JobAssumption DEF NoRow, Blank, Row, JobStatus, WaitingStatus
<1>s. \A j \in Job \ disturbed : ~snap[t][j].lapsed /\ \A S : ~View(S)[j].lapsed
  BY <1>t, <1>u, <1>n DEF Undisturbed, View
<1>r. /\ pc[t] \in WorkerPc \ {"claim"} => run[t].job \in Job
      /\ pc[t] = "recording" => run[t].outcome \in Outcome
  BY <1>t DEF IInv, RunSound, WorkerPc
<1>1. CASE Claim(t)
  BY <1>1, <1>t, FleetClaim
<1>2. ASSUME NoWork(t) \/ (ReadForOutcome(t) /\ ~Owns(t))
      PROVE  \A j \in Job \ disturbed' : Undisturbed(j)'
  <2>1. Return(t, Home(t)) /\ UNCHANGED <<jobs, disturbed>>
    BY <1>2 DEF NoWork, ReadForOutcome, past
  <2>2. /\ Only(t) /\ todo'[t] = {} /\ snap'[t] = Nothing /\ run'[t] = NoRun
    BY <1>t, <2>1, ReturnShape
  <2>3. \A j \in Job : ~snap'[t][j].lapsed
    BY <2>2, NothingHeld
  <2>. QED BY <1>t, <2>1, <2>2, <2>3, FleetGoes, NothingHeld
<1>3. ASSUME FirstHeartbeat(t) \/ LastHeartbeat(t) \/ HeartbeatLoop(t)
      PROVE  \A j \in Job \ disturbed' : Undisturbed(j)'
  <2>1. /\ Refresh(t) /\ UNCHANGED <<todo, snap, run, disturbed>>
        /\ pc[t] \in WorkerPc \ {"claim"}
        /\ UNCHANGED pc \/ \E next \in {"check", "record"} : pc' = [pc EXCEPT ![t] = next]
    BY <1>3 DEF FirstHeartbeat, LastHeartbeat, HeartbeatLoop, Goto, local, past, WorkerPc
  <2>2. Only(t) /\ pc'[t] \in WorkerPc
    BY <1>t, <2>1 DEF Only, WorkerPc
  <2>3. \A j \in Job : /\ jobs'[j].status = jobs[j].status
                       /\ jobs'[j].lapsed => jobs[j].lapsed
    BY <1>t, <1>r, <2>1, RefreshShape
  <2>. QED BY <1>t, <1>s, <2>1, <2>2, <2>3, FleetGoes
<1>4. ASSUME CheckCancel(t) \/ (ReadForOutcome(t) /\ Owns(t))
      PROVE  \A j \in Job \ disturbed' : Undisturbed(j)'
  <2>1. /\ UNCHANGED <<jobs, todo, run, disturbed>>
        /\ \E next \in {"cancelling", "admit", "recording"} : pc' = [pc EXCEPT ![t] = next]
        /\ UNCHANGED snap \/ snap' = [snap EXCEPT ![t] = View({run[t].job})]
    BY <1>4 DEF CheckCancel, ReadForOutcome, Goto, past
  <2>2. /\ Only(t) /\ pc'[t] \in WorkerPc
        /\ snap'[t] = snap[t] \/ snap'[t] = View({run[t].job})
    BY <1>t, <2>1 DEF Only, WorkerPc
  <2>. QED BY <1>t, <1>s, <2>1, <2>2, FleetGoes
<1>5. CASE CancelBeforeExecution(t)
  <2>. DEFINE j == run[t].job
              r == Closed(snap[t][j], "cancelled")
  <2>1. /\ pc[t] = "cancelling" /\ Save(j, r) /\ Return(t, Home(t)) /\ UNCHANGED disturbed
    BY <1>5 DEF CancelBeforeExecution, past
  <2>2. j \in Job /\ snap[t][j] \in Row
    BY <1>t, <1>r, <2>1 DEF WorkerPc
  <2>3. r \in Row /\ r.status = "cancelled" /\ ~r.lapsed /\ "cancelled" \in TerminalStatus
    BY <1>t, <2>2, ClosedSound, MadeRows DEF HeldSound, TerminalStatus, FailureStatus
  <2>. HIDE DEF r
  <2>. QED BY <1>t, <2>1, <2>2, <2>3, FleetLetsGo
<1>6. ASSUME Refuse(t) \/ Admit(t) \/ StartExecution(t) \/ FinishExecution(t)
      PROVE  \A j \in Job \ disturbed' : Undisturbed(j)'
  <2>1. /\ UNCHANGED <<jobs, todo, snap, disturbed>>
        /\ \E next \in {"closing", "admitted", "executing"} : pc' = [pc EXCEPT ![t] = next]
        /\ UNCHANGED run \/ \E outcome : run' = [run EXCEPT ![t].outcome = outcome]
    BY <1>6 DEF Refuse, Admit, StartExecution, FinishExecution, Goto, past
  <2>2. /\ Only(t) /\ pc'[t] \in WorkerPc /\ run'[t].job = run[t].job
    BY <1>t, <2>1 DEF Only, WorkerPc
  <2>. QED BY <1>t, <1>s, <2>1, <2>2, FleetGoes
<1>7. CASE RecordOutcome(t)
  <2>. DEFINE j == run[t].job
              r == Resolved(j, snap[t][j], run[t].outcome)
  <2>1. /\ pc[t] = "recording" /\ Save(j, r) /\ Return(t, Home(t)) /\ UNCHANGED disturbed
    BY <1>7 DEF RecordOutcome
  <2>2. /\ j \in Job /\ snap[t][j] \in Row /\ run[t].outcome \in Outcome
        /\ Deps[j] \subseteq succeeded
    BY <1>t, <1>r, <2>1, InRun DEF WorkerPc
  <2>3. r \in Row
    BY <1>t, <2>2, ResolvedSound DEF HeldSound
  <2>4. ~r.lapsed /\ r.status \in TerminalStatus \cup {"queued"}
    BY <2>2, RecordedRow
  <2>. HIDE DEF r
  <2>. QED BY <1>t, <2>1, <2>2, <2>3, <2>4, FleetLetsGo
<1>. QED BY <1>1, <1>2, <1>3, <1>4, <1>5, <1>6, <1>7 DEF RunStep

\* One job moves, disturbed or with the status it had; or it is created.
LEMMA FleetRowMoves ==
  ASSUME IInv, FleetInv, UNCHANGED local, NEW j \in Job, NEW r \in Row, Save(j, r),
         disturbed \subseteq disturbed',
         j \notin disturbed' => /\ r.lapsed => jobs[j].lapsed
                                /\ \/ r.status = jobs[j].status
                                   \/ r.status = "pending" /\ jobs[j].status = "absent"
  PROVE  \A i \in Job \ disturbed' : Undisturbed(i)'
<1>1. Saved(j, r) /\ UNCHANGED <<pc, todo, snap, run>>
  BY DEF IInv, TypeOK, Save, Saved, local
<1>. TAKE i \in Job \ disturbed'
<1>2. Undisturbed(i) /\ i \in Job \ disturbed
  BY DEF FleetInv
<1>3. CASE i # j
  BY <1>1, <1>2, <1>3 DEF Undisturbed, Saved
<1>4. CASE i = j
  <2>1. jobs'[j] = r
    BY <1>1 DEF Saved
  <2>2. r.status \in WaitingStatus \cup {"absent"} => jobs[j].status \in WaitingStatus \cup {"absent"}
    BY <1>4
  <2>3. jobs[j].status = "pending" => r.status = "pending"
    BY <1>4
  <2>. QED BY <1>1, <1>2, <1>4, <2>1, <2>2, <2>3 DEF Undisturbed
<1>. QED BY <1>3, <1>4

\* In a reachable state an undisturbed job has one worker at most.
LEMMA FleetStep ==
  ASSUME IInv, FleetInv, OneScheduler, [Next]_vars
  PROVE  FleetInv'
<1>p. PassesInPlace'
  BY PlacesKept DEF FleetInv
<1>t. jobs \in [Job -> Row] /\ request \in [Operator -> [job : Job \cup {NoJob}, row : Row]]
      /\ \A j \in Job : jobs[j] \in Row
  BY DEF IInv, TypeOK
<1>1. CASE UNCHANGED vars
  <2>1. UNCHANGED <<jobs, pc, todo, snap, run, disturbed>>
    BY <1>1 DEF vars, local, past
  <2>. QED BY <1>p, <2>1 DEF FleetInv, Undisturbed
<1>2. ASSUME NEW t \in SchedulerThread, PassStep(t) PROVE FleetInv'
  BY <1>p, <1>2, FleetPass DEF FleetInv
<1>3. ASSUME NEW t \in WorkerThread, RunStep(t) \/ HeartbeatLoop(t) PROVE FleetInv'
  BY <1>p, <1>3, FleetRun DEF FleetInv
<1>4. ASSUME NEW t \in Thread, Crash(t) PROVE FleetInv'
  <2>1. Return(t, Home(t)) /\ UNCHANGED <<jobs, disturbed>>
    BY <1>4 DEF Crash, past
  <2>2. /\ Only(t) /\ todo'[t] = {} /\ snap'[t] = Nothing /\ run'[t] = NoRun
    BY <2>1, ReturnShape
  <2>3. \A j \in Job : ~snap'[t][j].lapsed
    BY <2>2, NothingHeld
  <2>4. \A j \in Job \ disturbed' : Undisturbed(j)'
    BY <2>1, <2>2, <2>3, FleetGoes, NothingHeld
  <2>. QED BY <1>p, <2>4 DEF FleetInv
<1>5. ASSUME NEW j \in Job, CreateJob(j) \/ Lapse(j) \/ EndBackoff(j) PROVE FleetInv'
  <2>1. CASE CreateJob(j)
    <3>1. /\ Save(j, NewRow) /\ UNCHANGED <<local, disturbed>> /\ jobs[j].status = "absent"
      BY <2>1 DEF CreateJob, past
    <3>2. NewRow \in Row /\ NewRow.status = "pending" /\ ~NewRow.lapsed
      BY NewRowSound DEF NewRow, Blank
    <3>3. \A i \in Job \ disturbed' : Undisturbed(i)'
      BY <3>1, <3>2, FleetRowMoves
    <3>. QED BY <1>p, <3>3 DEF FleetInv
  <2>2. CASE Lapse(j)
    <3>. DEFINE r == [jobs[j] EXCEPT !.lapsed = TRUE]
    <3>1. /\ Save(j, r) /\ UNCHANGED local /\ disturbed' = disturbed \cup {j}
      BY <2>2 DEF Lapse
    <3>2. r \in Row
      BY <1>t DEF Row
    <3>. HIDE DEF r
    <3>3. \A i \in Job \ disturbed' : Undisturbed(i)'
      BY <3>1, <3>2, FleetRowMoves
    <3>. QED BY <1>p, <3>3 DEF FleetInv
  <2>3. CASE EndBackoff(j)
    <3>. DEFINE r == [jobs[j] EXCEPT !.backoff = FALSE]
    <3>1. /\ Save(j, r) /\ UNCHANGED <<local, disturbed>>
      BY <2>3 DEF EndBackoff, past
    <3>2. r \in Row /\ r.status = jobs[j].status /\ r.lapsed = jobs[j].lapsed
      BY <1>t DEF Row
    <3>. HIDE DEF r
    <3>3. \A i \in Job \ disturbed' : Undisturbed(i)'
      BY <3>1, <3>2, FleetRowMoves
    <3>. QED BY <1>p, <3>3 DEF FleetInv
  <2>. QED BY <1>5, <2>1, <2>2, <2>3
<1>6. ASSUME NEW o \in Operator, SaveCancel(o) PROVE FleetInv'
  <2>. DEFINE j == request[o].job
              r == [request[o].row EXCEPT !.cancel = TRUE]
  <2>1. /\ Save(j, r) /\ UNCHANGED local /\ disturbed' = disturbed \cup {j} /\ j \in Job
    BY <1>t, <1>6 DEF SaveCancel
  <2>2. r \in Row
    <3>1. request[o].row \in Row
      BY <1>t
    <3>. QED BY <3>1 DEF Row
  <2>. HIDE DEF r, j
  <2>3. \A i \in Job \ disturbed' : Undisturbed(i)'
    BY <2>1, <2>2, FleetRowMoves
  <2>. QED BY <1>p, <2>3 DEF FleetInv
<1>7. ASSUME NEW o \in Operator, NEW j \in Job, ReadForCancel(o, j) PROVE FleetInv'
  <2>1. UNCHANGED <<jobs, pc, todo, snap, run, disturbed>>
    BY <1>7 DEF ReadForCancel, local, past
  <2>. QED BY <1>p, <2>1 DEF FleetInv, Undisturbed
<1>8. CASE MoveSession
  <2>1. UNCHANGED <<jobs, pc, todo, snap, run, disturbed>>
    BY <1>8 DEF MoveSession, local, past
  <2>. QED BY <1>p, <2>1 DEF FleetInv, Undisturbed
<1>. QED BY <1>1, <1>2, <1>3, <1>4, <1>5, <1>6, <1>7, <1>8 DEF Next

\* With one scheduler thread, and any workers and operators: two workers
\* execute a job at once only if a lease of it has lapsed or a request for it
\* was saved.
THEOREM ExecutorIsAlone ==
  ASSUME OneScheduler
  PROVE  Spec => []OneExecutorPerLease
<1>1. Init => FleetInv
  <2>. SUFFICES ASSUME Init PROVE FleetInv
    OBVIOUS
  <2>1. PassesInPlace
    BY DEF Init, PassesInPlace, Home, SchedulerPc
  <2>2. \A j \in Job : Undisturbed(j)
    BY NothingHeld, RuntimeAssumption DEF Init, Undisturbed
  <2>. QED BY <2>1, <2>2 DEF FleetInv
<1>2. IInv /\ FleetInv /\ [Next]_vars => FleetInv'
  BY FleetStep
<1>3. IInv /\ FleetInv => OneExecutorPerLease
  <2>. SUFFICES ASSUME IInv, FleetInv, NEW t \in WorkerThread, NEW u \in WorkerThread,
                       t # u, pc[t] = "executing", run[t].job = run[u].job,
                       run[t].job \notin disturbed
                PROVE  FALSE
    BY DEF OneExecutorPerLease
  <2>1. t \in Thread /\ u \in Thread /\ run[t].job \in Job
    BY InRun DEF Thread, WorkerPc
  <2>. QED BY <2>1 DEF FleetInv, Undisturbed
<1>. QED BY <1>1, <1>2, <1>3, InvariantHolds, PTL DEF Spec

-----------------------------------------------------------------------------
(* A single drain(): executions are accounted for, and only a request makes *)
(* a row change that is terminal.                                           *)

RowsOpen ==
  \A j \in Job : /\ Accounted(j, jobs[j])
                 /\ jobs[j].status \in TerminalStatus => ~jobs[j].backoff

\* What the steps do to a terminal row.
Finality ==
  \A j \in Job : jobs[j].status \in TerminalStatus => jobs'[j] = jobs[j] \/ jobs'[j].cancel

Held == RowsOpen /\ CopiesInPlace /\ HeldOpen /\ AboutToExecute

Pass == {"recover", "cancel", "block", "enqueue"}

\* The drain is the only thread; the types its proofs need.
LEMMA DrainTypes ==
  ASSUME IInv, SingleDrain
  PROVE  /\ Thread = SchedulerThread /\ Thread = WorkerThread
         /\ \A t, u \in Thread : t = u
         /\ jobs \in [Job -> Row] /\ \A j \in Job : jobs[j] \in Row
         /\ \A t \in Thread : /\ snap[t] \in [Job -> Row] /\ \A j \in Job : snap[t][j] \in Row
                              /\ pc[t] \in SchedulerPc \cup WorkerPc
         /\ \A j \in Job : executions[j] \in Nat /\ RetryLimit[j] \in Nat
BY JobAssumption DEF IInv, TypeOK, SingleDrain, OneScheduler, Thread

\* Ends of a job that accounts for what was executed.
LEMMA AccountedClosed ==
  ASSUME NEW j \in Job, NEW r \in Row, executions[j] \in Nat, Sound(j, r, succeeded),
         Accounted(j, r), r.status \in WaitingStatus \cup {"running"},
         NEW s \in TerminalStatus
  PROVE  Accounted(j, Closed(r, s)) /\ Closed(r, s).status = s /\ ~Closed(r, s).backoff
<1>. DEFINE n == Closed(r, s)
<1>1. n.status = s /\ ~n.backoff /\ n.cancel = r.cancel
  BY MadeRows
<1>2. r.retries \in Nat /\ RetryLimit[j] \in Nat /\ r.retries <= RetryLimit[j]
  BY JobAssumption DEF Sound, Row
<1>3. ~r.cancel => executions[j] <= RetryLimit[j] + 1
  <2>. SUFFICES ASSUME ~r.cancel PROVE executions[j] <= RetryLimit[j] + 1
    OBVIOUS
  <2>1. CASE r.status = "pending"
    BY <1>2, <2>1 DEF Accounted
  <2>2. CASE r.status = "queued"
    BY <1>2, <2>2 DEF Accounted
  <2>3. CASE r.status = "running"
    BY <1>2, <2>3 DEF Accounted
  <2>. QED BY <2>1, <2>2, <2>3 DEF WaitingStatus
<1>. HIDE DEF n
<1>4. Accounted(j, n)
  BY <1>1, <1>3 DEF Accounted, TerminalStatus, FailureStatus
<1>. QED BY <1>1, <1>4 DEF n

\* Another attempt accounts for the one before.
LEMMA AccountedRequeued ==
  ASSUME NEW j \in Job, NEW r \in Row, executions[j] \in Nat, Accounted(j, r),
         r.status = "running"
  PROVE  Accounted(j, Requeued(r)) /\ Requeued(r).status = "queued"
BY RequeuedRow DEF Accounted, Row, TerminalStatus, FailureStatus

\* A loop of a pass is entered.
LEMMA DrainEnter ==
  ASSUME IInv, SingleDrain, Held, NEW t \in Thread, NEW loop \in Pass, NEW S \in SUBSET Job,
         NEW view, Enter(t, loop, S, view),
         \A j \in Job : view[j] = jobs[j] \/ view[j] = NoRow,
         \A j \in S : /\ view[j] = jobs[j]
                      /\ jobs[j].status \notin TerminalStatus \cup {"absent"}
                      /\ loop = "cancel" => jobs[j].status \in WaitingStatus /\ jobs[j].cancel
  PROVE  Held' /\ Finality
<1>1. /\ pc'[t] = loop /\ todo'[t] = S /\ snap'[t] = view
      /\ UNCHANGED <<jobs, run, executions>> /\ \A u \in Thread : u = t
  BY EnterShape, DrainTypes
<1>2. loop \notin {"cancelling", "recording", "leased", "check", "admit", "admitted"}
  BY DEF Pass
<1>n. NoRow.status = "absent" /\ "absent" \notin WaitingStatus
  BY DEF NoRow, Blank, WaitingStatus
<1>3. RowsOpen' /\ Finality
  BY <1>1 DEF Held, RowsOpen, Finality, Accounted
<1>4. CopiesInPlace'
  <2>. SUFFICES ASSUME NEW j \in Job, view[j].status # "absent"
                PROVE  Accounted(j, view[j])'
    BY <1>1 DEF CopiesInPlace, Pass
  <2>1. Accounted(j, jobs[j]) /\ view[j] = jobs[j]
    BY <1>n DEF Held, RowsOpen
  <2>. QED BY <1>1, <2>1 DEF Accounted
<1>5. HeldOpen'
  <2>. SUFFICES ASSUME NEW j \in Job, Overwritten(t, j)'
                PROVE  /\ jobs[j].status \notin TerminalStatus
                       /\ view[j].status # "absent"
                       /\ loop = "cancel" => view[j].status \in WaitingStatus /\ view[j].cancel
    BY <1>1, <1>2 DEF HeldOpen
  <2>1. CASE j \in S
    BY <2>1
  <2>2. CASE j \notin S
    <3>1. loop = "block" /\ view[j].status \in WaitingStatus
      BY <1>1, <1>2, <2>2 DEF Overwritten
    <3>2. view[j] = jobs[j]
      BY <1>n, <3>1
    <3>. QED BY <1>n, <3>1, <3>2 DEF WaitingStatus, TerminalStatus, FailureStatus
  <2>. QED BY <2>1, <2>2
<1>6. AboutToExecute'
  BY <1>1, <1>2 DEF AboutToExecute
<1>. QED BY <1>3, <1>4, <1>5, <1>6 DEF Held

\* A loop of a pass saves one of the rows it holds.
LEMMA DrainListed ==
  ASSUME IInv, SingleDrain, Held, NEW t \in Thread, NEW j \in Job, NEW r \in Row,
         NEW left \in {r, NoRow}, SaveListed(t, j, r, left),
         pc[t] \in Pass, Overwritten(t, j), Accounted(j, r),
         r.status \in TerminalStatus => ~r.backoff,
         left = r => r.status \in TerminalStatus, pc[t] = "block" => left = r
  PROVE  Held' /\ Finality
<1>n. NoRow.status = "absent" /\ NoRow \in Row
  BY NoRowSound DEF NoRow, Blank
<1>1. /\ Saved(j, r) /\ todo'[t] = todo[t] \ {j} /\ snap'[t][j] = left
      /\ \A i \in Job : i # j => snap'[t][i] = snap[t][i]
      /\ UNCHANGED <<pc, run, executions>> /\ \A u \in Thread : u = t
  BY <1>n, ListedShape, DrainTypes
<1>2. pc[t] \notin {"cancelling", "recording", "leased", "check", "admit", "admitted"}
  BY DEF Pass
<1>3. \A i \in Job : \A x : Accounted(i, x) => Accounted(i, x)'
  BY <1>1 DEF Accounted
<1>4. RowsOpen'
  BY <1>1, <1>3 DEF Held, RowsOpen, Saved, Accounted
<1>5. Finality
  BY <1>1 DEF Held, HeldOpen, Finality, Saved
<1>6. CopiesInPlace'
  <2>. SUFFICES ASSUME NEW i \in Job, snap'[t][i].status # "absent"
                PROVE  Accounted(i, snap[t][i])'
    BY <1>1 DEF CopiesInPlace, Pass
  <2>1. CASE i = j
    BY <1>n, <1>1, <2>1 DEF Accounted
  <2>2. CASE i # j
    BY <1>1, <2>2 DEF Accounted, Held, CopiesInPlace
  <2>. QED BY <2>1, <2>2
<1>7. HeldOpen'
  <2>. SUFFICES ASSUME NEW i \in Job, Overwritten(t, i)'
                PROVE  /\ jobs'[i].status \notin TerminalStatus
                       /\ snap'[t][i].status # "absent"
                       /\ pc[t] = "cancel" => snap'[t][i].status \in WaitingStatus /\ snap'[t][i].cancel
    BY <1>1, <1>2 DEF HeldOpen
  <2>1. i # j
    BY <1>1, <1>2 DEF Overwritten, WaitingStatus, TerminalStatus, FailureStatus
  <2>2. Overwritten(t, i)
    BY <1>1, <2>1 DEF Overwritten
  <2>. QED BY <1>1, <2>1, <2>2 DEF Held, HeldOpen, Saved
<1>8. AboutToExecute'
  BY <1>1, <1>2 DEF AboutToExecute
<1>. QED BY <1>4, <1>5, <1>6, <1>7, <1>8 DEF Held

\* A thread that returns holds no copy any more.
LEMMA DrainReturns ==
  ASSUME IInv, SingleDrain, NEW t \in Thread, NEW next \in {"pass", "claim"},
         Return(t, next), RowsOpen'
  PROVE  Held'
<1>1. /\ pc'[t] = next /\ todo'[t] = {} /\ snap'[t] = Nothing /\ \A u \in Thread : u = t
  BY ReturnShape, DrainTypes
<1>2. CopiesInPlace'
  BY <1>1, NothingHeld DEF CopiesInPlace
<1>3. HeldOpen'
  BY <1>1 DEF HeldOpen, Overwritten
<1>4. AboutToExecute'
  BY <1>1 DEF AboutToExecute
<1>. QED BY <1>2, <1>3, <1>4 DEF Held

\* Every step of a pass of the drain.
LEMMA DrainPass ==
  ASSUME IInv, SingleDrain, Held, NEW t \in Thread, PassStep(t)
  PROVE  Held' /\ Finality
<1>t. /\ snap[t] \in [Job -> Row]
      /\ \A j \in Job : /\ jobs[j] \in Row /\ snap[t][j] \in Row /\ executions[j] \in Nat
                        /\ Sound(j, snap[t][j], succeeded)
      /\ RowsOpen /\ CopiesInPlace /\ HeldOpen
  BY DrainTypes DEF Held, IInv, HeldSound
<1>v. \A S : \A j \in Job : /\ View(S)[j] = jobs[j] \/ View(S)[j] = NoRow
                            /\ j \in S => View(S)[j] = jobs[j]
  BY DEF View
<1>w. /\ Pass = {"recover", "cancel", "block", "enqueue"}
      /\ \A s \in WaitingStatus \cup {"running"} : s \notin TerminalStatus \cup {"absent"}
      /\ {"cancelled", "blocked"} \subseteq TerminalStatus
      /\ "pending" \in WaitingStatus /\ "queued" \notin TerminalStatus
  BY DEF Pass, WaitingStatus, TerminalStatus, FailureStatus
<1>c. \A j \in Job : snap[t][j].status # "absent" => Accounted(j, snap[t][j])
  BY <1>t DEF CopiesInPlace
<1>1. CASE StartPass(t)
  <2>. DEFINE S == {j \in Job : IsStale(jobs[j])}
  <2>1. Enter(t, "recover", S, View(S)) /\ S \in SUBSET Job /\ "recover" \in Pass
    BY <1>1, <1>w DEF StartPass
  <2>2. \A j \in S : jobs[j].status = "running"
    BY DEF IsStale
  <2>. HIDE DEF S
  <2>. QED BY <1>v, <1>w, <2>1, <2>2, DrainEnter
<1>2. CASE StartCancelLoop(t)
  <2>. DEFINE S == {j \in Job : IsRevoked(jobs[j])}
  <2>1. Enter(t, "cancel", S, View(S)) /\ S \in SUBSET Job /\ "cancel" \in Pass
    BY <1>2, <1>w DEF StartCancelLoop
  <2>2. \A j \in S : jobs[j].status \in WaitingStatus /\ jobs[j].cancel
    BY DEF IsRevoked
  <2>. HIDE DEF S
  <2>. QED BY <1>v, <1>w, <2>1, <2>2, DrainEnter
<1>3. CASE StartBlockLoop(t)
  <2>. DEFINE S == {j \in Job : Doomed(jobs, j)}
  <2>1. Enter(t, "block", S, jobs) /\ S \in SUBSET Job /\ "block" \in Pass
    BY <1>3, <1>w DEF StartBlockLoop
  <2>2. \A j \in S : jobs[j].status \in WaitingStatus
    BY DEF Doomed
  <2>. HIDE DEF S
  <2>. QED BY <1>w, <2>1, <2>2, DrainEnter
<1>4. CASE StartEnqueueLoop(t)
  <2>. DEFINE S == {j \in Job : session = "active" /\ Ready(jobs, j)}
  <2>1. Enter(t, "enqueue", S, View(S)) /\ S \in SUBSET Job /\ "enqueue" \in Pass
    BY <1>4, <1>w DEF StartEnqueueLoop
  <2>2. \A j \in S : jobs[j].status = "pending"
    BY DEF Ready
  <2>. HIDE DEF S
  <2>. QED BY <1>v, <1>w, <2>1, <2>2, DrainEnter
<1>5. CASE EndPass(t)
  <2>1. PICK next \in {"pass", "claim"} : Return(t, next)
    BY <1>5 DEF EndPass
  <2>2. UNCHANGED <<jobs, executions>>
    BY <1>5 DEF EndPass, past
  <2>3. RowsOpen' /\ Finality
    BY <1>t, <2>2 DEF RowsOpen, Accounted, Finality
  <2>. QED BY <2>1, <2>3, DrainReturns
<1>6. ASSUME NEW j \in Job, RecoverStale(t, j) PROVE Held' /\ Finality
  <2>. DEFINE c == snap[t][j]
              r == Recovered(j, c)
  <2>1. SaveListed(t, j, r, NoRow) /\ pc[t] = "recover" /\ j \in todo[t]
    BY <1>6 DEF RecoverStale
  <2>2. c.status = "running" /\ Overwritten(t, j)
    BY <2>1 DEF IInv, ListedAsKind, Overwritten
  <2>3. r \in Row /\ c \in Row /\ Accounted(j, c) /\ Sound(j, c, succeeded) /\ executions[j] \in Nat
    BY <1>c, <1>t, <2>2, RecoveredSound
  <2>4. \/ r = Requeued(c)
        \/ \E s \in TerminalStatus : r = Closed(c, s)
    BY DEF Recovered, RetriedOr, TerminalStatus, FailureStatus
  <2>. HIDE DEF r, c
  <2>5. Accounted(j, r) /\ (r.status \in TerminalStatus => ~r.backoff) /\ r.status # "absent"
    <3>1. CASE r = Requeued(c)
      BY <1>w, <2>2, <2>3, <3>1, AccountedRequeued
    <3>2. ASSUME NEW s \in TerminalStatus, r = Closed(c, s)
          PROVE  Accounted(j, r) /\ r.status = s /\ ~r.backoff
      BY <1>w, <2>2, <2>3, <3>2, AccountedClosed
    <3>. QED BY <1>w, <2>4, <3>1, <3>2 DEF TerminalStatus, FailureStatus
  <2>6. NoRow # r
    BY <2>5 DEF NoRow, Blank
  <2>. QED BY <1>w, <2>1, <2>2, <2>3, <2>5, <2>6, DrainListed
<1>7. ASSUME NEW j \in Job, CancelWaiting(t, j) PROVE Held' /\ Finality
  <2>. DEFINE c == snap[t][j]
              r == Closed(c, "cancelled")
  <2>1. SaveListed(t, j, r, NoRow) /\ pc[t] = "cancel" /\ j \in todo[t]
    BY <1>7 DEF CancelWaiting
  <2>2. Overwritten(t, j) /\ c.status \in WaitingStatus /\ c.status # "absent"
    BY <1>t, <2>1 DEF HeldOpen, Overwritten
  <2>3. c \in Row /\ Accounted(j, c) /\ Sound(j, c, succeeded) /\ executions[j] \in Nat
    BY <1>c, <1>t, <2>2
  <2>4. r \in Row
    BY <1>w, <2>3, ClosedSound
  <2>5. Accounted(j, r) /\ r.status = "cancelled" /\ ~r.backoff
    BY <1>w, <2>2, <2>3, AccountedClosed
  <2>6. NoRow # r
    BY <2>5 DEF NoRow, Blank
  <2>. HIDE DEF r, c
  <2>. QED BY <1>w, <2>1, <2>2, <2>4, <2>5, <2>6, DrainListed
<1>8. ASSUME NEW j \in Job, BlockDependent(t, j) PROVE Held' /\ Finality
  <2>. DEFINE c == snap[t][j]
              r == Closed(c, "blocked")
  <2>1. SaveListed(t, j, r, r) /\ pc[t] = "block" /\ c.status \in WaitingStatus
    BY <1>8 DEF BlockDependent, Doomed
  <2>2. Overwritten(t, j) /\ c.status # "absent"
    BY <1>w, <2>1 DEF Overwritten
  <2>3. c \in Row /\ Accounted(j, c) /\ Sound(j, c, succeeded) /\ executions[j] \in Nat
    BY <1>c, <1>t, <2>2
  <2>4. r \in Row
    BY <1>w, <2>3, ClosedSound
  <2>5. Accounted(j, r) /\ r.status = "blocked" /\ ~r.backoff
    BY <1>w, <2>1, <2>3, AccountedClosed
  <2>. HIDE DEF r, c
  <2>. QED BY <1>w, <2>1, <2>2, <2>4, <2>5, DrainListed
<1>9. ASSUME NEW j \in Job, EnqueueReady(t, j) PROVE Held' /\ Finality
  <2>. DEFINE c == snap[t][j]
              r == Enqueued(c)
  <2>1. SaveListed(t, j, r, NoRow) /\ pc[t] = "enqueue" /\ j \in todo[t]
    BY <1>9 DEF EnqueueReady
  <2>2. /\ c.status = "pending" /\ Overwritten(t, j) /\ Deps[j] \subseteq succeeded
        /\ c \in Row /\ c.retries \in Nat
    BY <1>t, <2>1 DEF IInv, ListedAsKind, Overwritten, Row
  <2>3. Accounted(j, c) /\ executions[j] \in Nat
    BY <1>c, <1>t, <2>2
  <2>4. /\ r \in Row /\ r.status = "queued" /\ r.cancel = c.cancel /\ r.retries = c.retries
    BY <1>t, <2>2, EnqueuedSound, MadeRows
  <2>. HIDE DEF r, c
  <2>5. Accounted(j, r)
    BY <2>2, <2>3, <2>4 DEF Accounted, TerminalStatus, FailureStatus
  <2>6. NoRow # r
    BY <2>4 DEF NoRow, Blank
  <2>. QED BY <1>w, <2>1, <2>2, <2>4, <2>5, <2>6, DrainListed
<1>. QED BY <1>1, <1>2, <1>3, <1>4, <1>5, <1>6, <1>7, <1>8, <1>9 DEF PassStep

\* A step of a run that moves no row to another status and holds no copy.
LEMMA DrainGoes ==
  ASSUME IInv, SingleDrain, Held, NEW t \in Thread,
         pc'[t] \notin Pass \cup {"cancelling", "recording"},
         \A j \in Job : snap'[t][j].status = "absent",
         \A j \in Job : /\ jobs'[j].status = jobs[j].status
                        /\ jobs'[j].retries = jobs[j].retries
                        /\ jobs'[j].cancel = jobs[j].cancel
                        /\ jobs'[j].backoff = jobs[j].backoff,
         jobs' \in [Job -> Row],
         \A j \in Job : jobs[j].status \in TerminalStatus => jobs'[j] = jobs[j],
         UNCHANGED executions,
         pc'[t] \in {"leased", "check", "admit", "admitted"} =>
           pc[t] \in {"leased", "check", "admit", "admitted"} /\ run'[t].job = run[t].job
                     /\ run[t].job \in Job
  PROVE  Held' /\ Finality
<1>t. \A u \in Thread : u = t
  BY DrainTypes
<1>1. RowsOpen' /\ Finality
  BY DEF Held, RowsOpen, Accounted, Finality
<1>2. CopiesInPlace'
  BY <1>t DEF CopiesInPlace
<1>3. HeldOpen'
  BY <1>t DEF HeldOpen, Overwritten, Pass
<1>4. AboutToExecute'
  BY <1>t DEF Held, AboutToExecute
<1>. QED BY <1>1, <1>2, <1>3, <1>4 DEF Held

\* The row of a run is read, to be saved.
LEMMA DrainReads ==
  ASSUME IInv, SingleDrain, Held, NEW t \in Thread, NEW next \in {"cancelling", "recording"},
         pc'[t] = next, run[t].job \in Job, UNCHANGED <<jobs, run, executions>>,
         snap'[t] = View({run[t].job}), Owns(t),
         next = "cancelling" => jobs[run[t].job].cancel
  PROVE  Held' /\ Finality
<1>t. \A u \in Thread : u = t
  BY DrainTypes
<1>. DEFINE k == run[t].job
<1>n. NoRow.status = "absent" /\ jobs[k].status = "running"
  BY DEF NoRow, Blank, Owns, OwnedBy
<1>v. snap'[t][k] = jobs[k] /\ \A j \in Job : j # k => snap'[t][j] = NoRow
  BY DEF View
<1>1. RowsOpen' /\ Finality
  BY DEF Held, RowsOpen, Accounted, Finality
<1>2. CopiesInPlace'
  <2>. SUFFICES ASSUME NEW j \in Job, snap'[t][j].status # "absent"
                PROVE  Accounted(j, snap[t][j])'
    BY <1>t DEF CopiesInPlace
  <2>1. j = k
    BY <1>n, <1>v
  <2>. QED BY <1>v, <2>1 DEF Held, RowsOpen, Accounted
<1>3. HeldOpen'
  <2>. SUFFICES ASSUME NEW j \in Job, Overwritten(t, j)'
                PROVE  /\ jobs[j].status \notin TerminalStatus
                       /\ snap'[t][j].status = "running"
                       /\ pc'[t] = "cancelling" => snap'[t][j].cancel
    BY <1>t DEF HeldOpen
  <2>1. j = k
    BY DEF Overwritten
  <2>. QED BY <1>n, <1>v, <2>1 DEF TerminalStatus, FailureStatus
<1>4. AboutToExecute'
  BY <1>t DEF AboutToExecute
<1>. QED BY <1>1, <1>2, <1>3, <1>4 DEF Held

\* A run saves what it made of the row it read.
LEMMA DrainSaves ==
  ASSUME IInv, SingleDrain, Held, NEW t \in Thread, NEW j \in Job, NEW r \in Row,
         Overwritten(t, j), Save(j, r), UNCHANGED executions,
         NEW next \in {"pass", "claim"}, Return(t, next),
         Accounted(j, r), r.status \in TerminalStatus => ~r.backoff
  PROVE  Held' /\ Finality
<1>1. Saved(j, r)
  BY DrainTypes DEF Save, Saved
<1>2. RowsOpen' /\ Finality
  BY <1>1 DEF Held, HeldOpen, RowsOpen, Saved, Accounted, Finality
<1>. QED BY <1>2, DrainReturns

\* The drain claims a job that accounts for what was executed before.
LEMMA DrainClaim ==
  ASSUME IInv, SingleDrain, Held, NEW t \in Thread, Claim(t)
  PROVE  Held' /\ Finality
<1>. DEFINE k == FreshToken
<1>1. PICK c \in Claimable :
        /\ Save(c, Claimed(jobs[c], k))
        /\ run' = [run EXCEPT ![t] = [job |-> c, token |-> k, outcome |-> "none"]]
  BY DEF Claim
<1>. HIDE DEF k
<1>2. c \in Job /\ jobs[c] \in Row /\ jobs[c].status = "queued" /\ executions[c] \in Nat
  BY DrainTypes DEF Claimable, IsClaimable
<1>. DEFINE r == Claimed(jobs[c], k)
<1>3. /\ Saved(c, r) /\ r.status = "running" /\ r.cancel = jobs[c].cancel
      /\ r.retries = jobs[c].retries /\ r.retries \in Nat
  BY <1>1, <1>2, MadeRows, DrainTypes DEF Save, Saved, Row
<1>. HIDE DEF r
<1>4. /\ run'[t].job = c /\ pc[t] = "claim" /\ pc'[t] = "leased"
      /\ \A u \in Thread : u = t
      /\ UNCHANGED <<todo, snap, executions>>
  BY <1>1, DrainTypes DEF IInv, TypeOK, Claim, past
<1>5. r.cancel \/ executions[c] <= r.retries
  BY <1>2, <1>3 DEF Held, RowsOpen, Accounted
<1>6. Accounted(c, r)
  BY <1>2, <1>3, <1>5 DEF Accounted, TerminalStatus, FailureStatus
<1>7. RowsOpen' /\ Finality
  BY <1>2, <1>3, <1>4, <1>6
  DEF Held, RowsOpen, Saved, Accounted, Finality, TerminalStatus, FailureStatus
<1>8. CopiesInPlace'
  <2>. SUFFICES ASSUME NEW j \in Job PROVE snap'[t][j].status = "absent"
    BY <1>4 DEF CopiesInPlace
  <2>. QED BY <1>4 DEF Held, CopiesInPlace
<1>9. HeldOpen'
  BY <1>4 DEF HeldOpen, Overwritten
<1>10. AboutToExecute'
  BY <1>3, <1>4, <1>5 DEF AboutToExecute, Saved
<1>. QED BY <1>7, <1>8, <1>9, <1>10 DEF Held

\* Only what was claimed for it, and not charged yet, is executed.
LEMMA DrainExecutes ==
  ASSUME IInv, SingleDrain, Held, NEW t \in Thread, StartExecution(t)
  PROVE  Held' /\ Finality
<1>. DEFINE j == run[t].job
            n == executions'[j]
<1>1. /\ pc[t] = "admitted" /\ pc'[t] = "executing" /\ UNCHANGED <<jobs, snap, run>>
      /\ \A u \in Thread : u = t
  BY DrainTypes DEF IInv, TypeOK, StartExecution, Goto
<1>2. j \in Job /\ executions[j] \in Nat /\ RetryLimit[j] \in Nat /\ jobs[j].retries \in Nat
  BY <1>1, InRun, DrainTypes DEF WorkerPc, Row
<1>3. /\ n \in Nat /\ n <= executions[j] + 1
      /\ \A i \in Job : i # j => executions'[i] = executions[i]
  BY <1>2 DEF IInv, TypeOK, StartExecution
<1>4. jobs[j].cancel \/ (jobs[j].status = "running" /\ executions[j] <= jobs[j].retries)
  BY <1>1 DEF Held, AboutToExecute
<1>. HIDE DEF n
<1>5. Accounted(j, jobs[j])'
  <2>1. ~jobs[j].cancel => n <= jobs[j].retries + 1
    BY <1>2, <1>3, <1>4
  <2>2. UNCHANGED <<jobs[j], j>>
    BY <1>1
  <2>. QED BY <1>4, <2>1, <2>2 DEF Accounted, n, TerminalStatus, FailureStatus
<1>6. RowsOpen' /\ Finality
  <2>. SUFFICES ASSUME NEW i \in Job PROVE Accounted(i, jobs[i])'
    BY <1>1 DEF Held, RowsOpen, Finality
  <2>1. CASE i = j
    BY <1>1, <1>5, <2>1
  <2>2. CASE i # j
    BY <1>1, <1>3, <2>2 DEF Held, RowsOpen, Accounted
  <2>. QED BY <2>1, <2>2
<1>7. CopiesInPlace'
  <2>. SUFFICES ASSUME NEW i \in Job PROVE snap'[t][i].status = "absent"
    BY <1>1 DEF CopiesInPlace
  <2>. QED BY <1>1 DEF Held, CopiesInPlace
<1>8. HeldOpen'
  BY <1>1 DEF HeldOpen, Overwritten
<1>9. AboutToExecute'
  BY <1>1 DEF AboutToExecute
<1>. QED BY <1>6, <1>7, <1>8, <1>9 DEF Held

\* Every step of a run of the drain.
LEMMA DrainRun ==
  ASSUME IInv, SingleDrain, Held, NEW t \in Thread, RunStep(t) \/ HeartbeatLoop(t)
  PROVE  Held' /\ Finality
<1>t. /\ jobs \in [Job -> Row] /\ snap \in [Thread -> [Job -> Row]]
      /\ \A j \in Job : /\ jobs[j] \in Row /\ snap[t][j] \in Row /\ executions[j] \in Nat
                        /\ Sound(j, snap[t][j], succeeded)
      /\ pc \in [Thread -> SchedulerPc \cup WorkerPc]
      /\ run \in [Thread -> [job : Job \cup {NoJob}, token : Token \cup {NoToken},
                             outcome : Outcome \cup {"none"}]]
      /\ RowsOpen /\ CopiesInPlace /\ HeldOpen /\ TableSound
  BY DrainTypes DEF Held, IInv, TypeOK, HeldSound
<1>h. Home(t) \in {"pass", "claim"}
  BY HomeIsHome
<1>r. /\ pc[t] \in WorkerPc \ {"claim"} => run[t].job \in Job
      /\ pc[t] = "recording" => run[t].outcome \in Outcome
  BY <1>t DEF IInv, RunSound, WorkerPc
<1>c. \A j \in Job : snap[t][j].status # "absent" => Accounted(j, snap[t][j])
  BY <1>t DEF CopiesInPlace
<1>1. CASE Claim(t)
  BY <1>1, DrainClaim
<1>2. ASSUME NoWork(t) \/ (ReadForOutcome(t) /\ ~Owns(t)) PROVE Held' /\ Finality
  <2>1. Return(t, Home(t)) /\ UNCHANGED <<jobs, executions>>
    BY <1>2 DEF NoWork, ReadForOutcome, past
  <2>2. RowsOpen' /\ Finality
    BY <1>t, <2>1 DEF RowsOpen, Accounted, Finality
  <2>. QED BY <1>h, <2>1, <2>2, DrainReturns
<1>3. ASSUME FirstHeartbeat(t) \/ LastHeartbeat(t) \/ HeartbeatLoop(t)
      PROVE  Held' /\ Finality
  <2>1. /\ Refresh(t) /\ UNCHANGED <<snap, run, executions, succeeded>>
        /\ pc[t] \in {"leased", "closing", "admit", "admitted", "executing"}
        /\ \/ UNCHANGED pc
           \/ pc[t] = "leased" /\ pc' = [pc EXCEPT ![t] = "check"]
           \/ pc' = [pc EXCEPT ![t] = "record"]
    BY <1>3 DEF FirstHeartbeat, LastHeartbeat, HeartbeatLoop, Goto, local, past
  <2>2. pc[t] \in WorkerPc \ {"claim"} /\ run[t].job \in Job
    BY <1>r, <2>1 DEF WorkerPc
  <2>3. jobs' \in [Job -> Row]
    BY <2>1, <2>2, InRun, RefreshSound DEF IInv
  <2>4. \A j \in Job : /\ jobs'[j].status = jobs[j].status
                       /\ jobs'[j].retries = jobs[j].retries
                       /\ jobs'[j].cancel = jobs[j].cancel
                       /\ jobs'[j].backoff = jobs[j].backoff
    BY <2>1, <2>2, RefreshShape
  <2>5. \A j \in Job : jobs[j].status \in TerminalStatus => jobs'[j] = jobs[j]
    BY <1>t, <2>1, <2>2 DEF Refresh, Save, Owns, OwnedBy, TerminalStatus, FailureStatus
  <2>6. \A j \in Job : snap'[t][j].status = "absent"
    BY <1>t, <2>1 DEF CopiesInPlace
  <2>7. /\ pc'[t] \notin Pass \cup {"cancelling", "recording"}
        /\ pc'[t] \in {"leased", "check", "admit", "admitted"} =>
             pc[t] \in {"leased", "check", "admit", "admitted"}
    BY <1>t, <2>1 DEF Pass
  <2>. QED BY <2>1, <2>2, <2>3, <2>4, <2>5, <2>6, <2>7, DrainGoes
<1>4. ASSUME CheckCancel(t) /\ Owns(t) /\ jobs[run[t].job].cancel PROVE Held' /\ Finality
  <2>1. /\ UNCHANGED <<jobs, run, executions>> /\ pc[t] = "check"
        /\ pc' = [pc EXCEPT ![t] = "cancelling"]
        /\ snap' = [snap EXCEPT ![t] = View({run[t].job})]
    BY <1>4 DEF CheckCancel, Goto, past
  <2>2. pc'[t] = "cancelling" /\ snap'[t] = View({run[t].job}) /\ run[t].job \in Job
    BY <1>t, <1>r, <2>1 DEF WorkerPc
  <2>. QED BY <1>4, <2>1, <2>2, DrainReads
<1>5. ASSUME ReadForOutcome(t) /\ Owns(t) PROVE Held' /\ Finality
  <2>1. /\ UNCHANGED <<jobs, run, executions>> /\ pc[t] = "record"
        /\ pc' = [pc EXCEPT ![t] = "recording"]
        /\ snap' = [snap EXCEPT ![t] = View({run[t].job})]
    BY <1>5 DEF ReadForOutcome, Goto, past
  <2>2. pc'[t] = "recording" /\ snap'[t] = View({run[t].job}) /\ run[t].job \in Job
    BY <1>t, <1>r, <2>1 DEF WorkerPc
  <2>. QED BY <1>5, <2>1, <2>2, DrainReads
<1>6. ASSUME \/ CheckCancel(t) /\ ~(Owns(t) /\ jobs[run[t].job].cancel)
             \/ Refuse(t) \/ Admit(t) \/ FinishExecution(t)
      PROVE  Held' /\ Finality
  <2>1. /\ UNCHANGED <<jobs, snap, executions>>
        /\ \/ pc[t] \in {"admit", "executing"} /\ pc' = [pc EXCEPT ![t] = "closing"]
           \/ /\ pc[t] \in {"check", "admit"} /\ UNCHANGED run
              /\ pc' = [pc EXCEPT ![t] = "admit"] \/ pc' = [pc EXCEPT ![t] = "admitted"]
    BY <1>6 DEF CheckCancel, Refuse, Admit, FinishExecution, Goto, past
  <2>2. /\ pc'[t] \notin Pass \cup {"cancelling", "recording"}
        /\ pc'[t] \in {"leased", "check", "admit", "admitted"} =>
             pc[t] \in {"leased", "check", "admit", "admitted"} /\ UNCHANGED run
                       /\ run[t].job \in Job
    BY <1>t, <1>r, <2>1 DEF Pass, WorkerPc
  <2>3. \A j \in Job : snap'[t][j].status = "absent"
    BY <1>t, <2>1 DEF CopiesInPlace
  <2>. QED BY <1>t, <2>1, <2>2, <2>3, DrainGoes
<1>7. CASE StartExecution(t)
  BY <1>7, DrainExecutes
<1>8. CASE CancelBeforeExecution(t)
  <2>. DEFINE j == run[t].job
              c == snap[t][j]
              r == Closed(c, "cancelled")
  <2>1. /\ pc[t] = "cancelling" /\ Save(j, r) /\ Return(t, Home(t)) /\ UNCHANGED executions
    BY <1>8 DEF CancelBeforeExecution, past
  <2>2. j \in Job /\ c \in Row /\ Sound(j, c, succeeded)
    BY <1>t, <1>r, <2>1 DEF WorkerPc
  <2>3. Overwritten(t, j) /\ c.cancel
    BY <1>t, <2>1, <2>2 DEF HeldOpen, Overwritten
  <2>4. r \in Row /\ r.cancel /\ ~r.backoff
    BY <2>2, <2>3, ClosedSound, MadeRows DEF TerminalStatus, FailureStatus
  <2>. HIDE DEF r, c
  <2>5. Accounted(j, r)
    BY <2>4 DEF Accounted
  <2>. QED BY <1>h, <2>1, <2>2, <2>3, <2>4, <2>5, DrainSaves
<1>9. CASE RecordOutcome(t)
  <2>. DEFINE j == run[t].job
              c == snap[t][j]
              r == Resolved(j, c, run[t].outcome)
  <2>1. /\ pc[t] = "recording" /\ Save(j, r) /\ Return(t, Home(t)) /\ UNCHANGED executions
    BY <1>9 DEF RecordOutcome
  <2>2. /\ j \in Job /\ c \in Row /\ Sound(j, c, succeeded) /\ run[t].outcome \in Outcome
        /\ Deps[j] \subseteq succeeded /\ executions[j] \in Nat
    BY <1>t, <1>r, <2>1, InRun DEF WorkerPc
  <2>3. Overwritten(t, j) /\ c.status = "running" /\ Accounted(j, c)
    BY <1>t, <1>c, <2>1, <2>2 DEF HeldOpen, Overwritten
  <2>4. r \in Row
    BY <2>2, ResolvedSound
  <2>5. \/ r = Requeued(c)
        \/ \E s \in TerminalStatus : r = Closed(c, s)
    BY <2>2 DEF Resolved, RetriedOr, Outcome, TerminalStatus, FailureStatus
  <2>. HIDE DEF r, c
  <2>6. Accounted(j, r) /\ (r.status \in TerminalStatus => ~r.backoff)
    <3>1. CASE r = Requeued(c)
      BY <2>2, <2>3, <3>1, AccountedRequeued DEF TerminalStatus, FailureStatus
    <3>2. ASSUME NEW s \in TerminalStatus, r = Closed(c, s)
          PROVE  Accounted(j, r) /\ ~r.backoff
      BY <2>2, <2>3, <3>2, AccountedClosed
    <3>. QED BY <2>5, <3>1, <3>2
  <2>. QED BY <1>h, <2>1, <2>2, <2>3, <2>4, <2>6, DrainSaves
<1>. QED BY <1>1, <1>2, <1>3, <1>4, <1>5, <1>6, <1>7, <1>8, <1>9 DEF RunStep

\* One row moves: its clock, by a request, or because it is created.
LEMMA DrainRowMoves ==
  ASSUME IInv, SingleDrain, Held, UNCHANGED <<local, executions>>, NEW j \in Job, NEW r \in Row,
         Save(j, r), r.status \notin TerminalStatus \/ r = jobs[j], Accounted(j, r),
         jobs[j].status \in TerminalStatus => r = jobs[j] \/ r.cancel,
         \/ r.cancel
         \/ /\ r.status = jobs[j].status /\ r.retries = jobs[j].retries
            /\ r.cancel = jobs[j].cancel
         \/ jobs[j].status = "absent"
  PROVE  Held' /\ Finality
<1>1. Saved(j, r) /\ UNCHANGED <<pc, todo, snap, run>>
  BY DrainTypes DEF Save, Saved, local
<1>2. RowsOpen' /\ Finality
  BY <1>1 DEF Held, RowsOpen, Accounted, Saved, Finality
<1>3. CopiesInPlace'
  BY <1>1 DEF Held, CopiesInPlace, Accounted
<1>4. HeldOpen'
  BY <1>1 DEF Held, HeldOpen, Overwritten, Saved
<1>5. AboutToExecute'
  <2>. SUFFICES ASSUME NEW t \in Thread, pc[t] \in {"leased", "check", "admit", "admitted"}
                PROVE  LET x == jobs'[run[t].job] IN
                       x.cancel \/ (x.status = "running" /\ executions[run[t].job] <= x.retries)
    BY <1>1 DEF AboutToExecute
  <2>. DEFINE k == run[t].job
  <2>1. k \in Job
    BY InRun DEF WorkerPc
  <2>2. jobs[k].cancel \/ (jobs[k].status = "running" /\ executions[k] <= jobs[k].retries)
    BY DEF Held, AboutToExecute
  <2>3. jobs[k].status # "absent"
    BY <2>1, <2>2 DEF IInv, TableSound, Sound
  <2>. QED BY <1>1, <2>1, <2>2, <2>3 DEF Saved
<1>. QED BY <1>2, <1>3, <1>4, <1>5 DEF Held

\* Whatever the drain and the operators do.
LEMMA DrainStep ==
  ASSUME IInv, SingleDrain, DrainInv, [Next]_vars
  PROVE  DrainInv' /\ Finality
<1>p. PassesInPlace'
  BY PlacesKept DEF DrainInv
<1>d. Held
  BY DEF DrainInv, Held, RowsOpen
<1>t. /\ jobs \in [Job -> Row] /\ request \in [Operator -> [job : Job \cup {NoJob}, row : Row]]
      /\ \A j \in Job : /\ jobs[j] \in Row /\ Sound(j, jobs[j], succeeded)
                        /\ Accounted(j, jobs[j]) /\ executions[j] \in Nat
                        /\ jobs[j].status \in TerminalStatus => ~jobs[j].backoff
      /\ SchedulerThread = Thread /\ WorkerThread = Thread
  BY DrainTypes DEF IInv, TypeOK, TableSound, DrainInv
<1>. SUFFICES Held' /\ Finality
  BY <1>p DEF DrainInv, Held, RowsOpen
<1>1. ASSUME UNCHANGED <<jobs, pc, todo, snap, run, executions>> PROVE Held' /\ Finality
  <2>2. RowsOpen' /\ Finality
    BY <1>1, <1>d DEF Held, RowsOpen, Accounted, Finality
  <2>3. CopiesInPlace'
    BY <1>1, <1>d DEF Held, CopiesInPlace, Accounted
  <2>4. HeldOpen' /\ AboutToExecute'
    BY <1>1, <1>d DEF Held, HeldOpen, Overwritten, AboutToExecute
  <2>. QED BY <2>2, <2>3, <2>4 DEF Held
<1>2. ASSUME NEW t \in Thread, PassStep(t) PROVE Held' /\ Finality
  BY <1>d, <1>2, DrainPass
<1>3. ASSUME NEW t \in Thread, RunStep(t) \/ HeartbeatLoop(t) PROVE Held' /\ Finality
  BY <1>d, <1>3, DrainRun
<1>4. ASSUME NEW t \in Thread, Crash(t) PROVE Held' /\ Finality
  <2>1. Return(t, Home(t)) /\ UNCHANGED <<jobs, executions>>
    BY <1>4 DEF Crash, past
  <2>2. RowsOpen' /\ Finality
    BY <1>d, <2>1 DEF Held, RowsOpen, Accounted, Finality
  <2>. QED BY <2>1, <2>2, DrainReturns, HomeIsHome
<1>5. ASSUME NEW j \in Job, CreateJob(j) PROVE Held' /\ Finality
  <2>1. /\ Save(j, NewRow) /\ UNCHANGED <<local, executions>> /\ jobs[j].status = "absent"
    BY <1>5 DEF CreateJob, past
  <2>2. NewRow \in Row /\ NewRow.status = "pending" /\ ~NewRow.cancel
    BY NewRowSound DEF NewRow, Blank
  <2>3. executions[j] = 0
    BY <1>t, <2>1 DEF Sound, Accounted
  <2>4. Accounted(j, NewRow)
    BY <2>2, <2>3 DEF Accounted, TerminalStatus, FailureStatus
  <2>. QED BY <1>d, <2>1, <2>2, <2>4, DrainRowMoves DEF TerminalStatus, FailureStatus
<1>6. ASSUME NEW j \in Job, Lapse(j) PROVE Held' /\ Finality
  <2>. DEFINE r == [jobs[j] EXCEPT !.lapsed = TRUE]
  <2>1. /\ Save(j, r) /\ UNCHANGED <<local, executions>> /\ jobs[j].status = "running"
    BY <1>6 DEF Lapse
  <2>2. /\ r \in Row /\ r.status = jobs[j].status /\ r.retries = jobs[j].retries
        /\ r.cancel = jobs[j].cancel
    BY <1>t DEF Row
  <2>. HIDE DEF r
  <2>3. Accounted(j, r)
    BY <1>t, <2>2 DEF Accounted
  <2>. QED BY <1>d, <2>1, <2>2, <2>3, DrainRowMoves DEF TerminalStatus, FailureStatus
<1>7. ASSUME NEW j \in Job, EndBackoff(j) PROVE Held' /\ Finality
  <2>. DEFINE r == [jobs[j] EXCEPT !.backoff = FALSE]
  <2>1. /\ Save(j, r) /\ UNCHANGED <<local, executions>>
        /\ jobs[j].status \notin TerminalStatus
    BY <1>t, <1>7 DEF EndBackoff, past
  <2>2. /\ r \in Row /\ r.status = jobs[j].status /\ r.retries = jobs[j].retries
        /\ r.cancel = jobs[j].cancel
    BY <1>t DEF Row
  <2>. HIDE DEF r
  <2>3. Accounted(j, r)
    BY <1>t, <2>2 DEF Accounted
  <2>. QED BY <1>d, <2>1, <2>2, <2>3, DrainRowMoves
<1>8. ASSUME NEW o \in Operator, SaveCancel(o) PROVE Held' /\ Finality
  <2>. DEFINE j == request[o].job
              r == [request[o].row EXCEPT !.cancel = TRUE]
  <2>1. /\ Save(j, r) /\ UNCHANGED <<local, executions>> /\ j \in Job
        /\ request[o].row.status \notin TerminalStatus
    BY <1>t, <1>8 DEF SaveCancel, IInv, RequestSound
  <2>2. r \in Row /\ r.status \notin TerminalStatus /\ r.cancel
    <3>1. request[o].row \in Row
      BY <1>t, <2>1
    <3>2. r \in Row /\ r.status = request[o].row.status /\ r.cancel
      BY <3>1 DEF Row
    <3>. QED BY <2>1, <3>2
  <2>. HIDE DEF r, j
  <2>3. Accounted(j, r)
    BY <2>2 DEF Accounted
  <2>. QED BY <1>d, <2>1, <2>2, <2>3, DrainRowMoves
<1>9. ASSUME \/ \E o \in Operator, j \in Job : ReadForCancel(o, j)
             \/ MoveSession
             \/ UNCHANGED vars
      PROVE  Held' /\ Finality
  BY <1>1, <1>9 DEF ReadForCancel, MoveSession, local, past, vars
<1>. QED BY <1>t, <1>2, <1>3, <1>4, <1>5, <1>6, <1>7, <1>8, <1>9 DEF Next

\* The invariant of a single drain() holds in every reachable state.
LEMMA DrainHolds ==
  ASSUME SingleDrain
  PROVE  Spec => []DrainInv
<1>1. Init => DrainInv
  <2>. SUFFICES ASSUME Init PROVE DrainInv
    OBVIOUS
  <2>1. PassesInPlace
    BY DEF Init, PassesInPlace, Home, SchedulerPc
  <2>2. \A t \in Thread : Home(t) \in {"pass", "claim"}
    BY HomeIsHome
  <2>3. \A j \in Job : Nothing[j].status = "absent"
    BY NothingHeld
  <2>. QED BY <2>1, <2>2, <2>3
    DEF Init, DrainInv, Accounted, CopiesInPlace, HeldOpen, Overwritten, AboutToExecute,
        TerminalStatus, FailureStatus
<1>2. IInv /\ DrainInv /\ [Next]_vars => DrainInv'
  BY DrainStep
<1>. QED BY <1>1, <1>2, InvariantHolds, PTL DEF Spec

\* With a single drain(), and any operators and crashes: a job is executed at
\* most once more than it may be retried, unless its row asks for cancellation.
THEOREM ExecutionsBounded ==
  ASSUME SingleDrain
  PROVE  Spec => []OverspentOnlyByCancel
<1>1. IInv /\ DrainInv => OverspentOnlyByCancel
  <2>. SUFFICES ASSUME IInv, DrainInv, NEW j \in Job, ~jobs[j].cancel
                PROVE  ~(executions[j] > RetryLimit[j] + 1)
    BY DEF OverspentOnlyByCancel
  <2>1. /\ jobs[j] \in Row /\ Accounted(j, jobs[j]) /\ executions[j] \in Nat
        /\ RetryLimit[j] \in Nat /\ jobs[j].retries \in Nat /\ jobs[j].retries <= RetryLimit[j]
    BY DrainTypes DEF DrainInv, IInv, TableSound, Sound, Row
  <2>2. jobs[j].status \in {"absent", "pending", "queued", "running"} \cup TerminalStatus
    BY <2>1 DEF Row, JobStatus, WaitingStatus
  <2>3. CASE jobs[j].status \in {"absent", "pending"}
    BY <2>1, <2>3 DEF Accounted
  <2>4. CASE jobs[j].status = "queued"
    BY <2>1, <2>4 DEF Accounted
  <2>5. CASE jobs[j].status = "running"
    BY <2>1, <2>5 DEF Accounted
  <2>6. CASE jobs[j].status \in TerminalStatus
    BY <2>1, <2>6 DEF Accounted, TerminalStatus, FailureStatus
  <2>. QED BY <2>2, <2>3, <2>4, <2>5, <2>6
<1>. QED BY <1>1, DrainHolds, InvariantHolds, PTL

\* With a single drain(): only a request that was read before a job finished
\* changes its row afterwards, and the row that comes back asks for it.
THEOREM TerminalUnlessCancelled ==
  ASSUME SingleDrain
  PROVE  Spec => ReopenedOnlyByCancel
<1>1. IInv /\ DrainInv /\ [Next]_vars =>
        [\A j \in Job : jobs[j].status \in TerminalStatus =>
           jobs'[j] = jobs[j] \/ jobs'[j].cancel]_jobs
  BY DrainStep DEF Finality
<1>. QED BY <1>1, DrainHolds, InvariantHolds, PTL DEF Spec, ReopenedOnlyByCancel
=============================================================================
