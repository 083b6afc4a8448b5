----------------------- MODULE ScopedExecution_proofs ------------------------
(***************************************************************************)
(* What ScopedExecution promises, for any number of jobs, workers, savers, *)
(* candidates, retries and moves, and for any limits.                      *)
(*                                                                         *)
(* None of the promises is inductive.  They need what each thread is about *)
(* to save (Copied): a worker the end of the attempt in its hands, a saver *)
(* the lease it has read, given up only if it had lapsed.  Leases are      *)
(* numbered, so that no two workers hold the same one (Distinct), and only *)
(* a lapse or a copy out of date parts a worker from its row (Parted).     *)
(* For the concurrency limit, the holders whose row was never overwritten  *)
(* are steady: they have distinct jobs, each of which the next one to      *)
(* check counts (SteadyInv), and every other holder has an overwritten job *)
(* of its own.  The rate limit counts the workers between its test and     *)
(* their event (RateInv).  A recorded success needs to know how far each   *)
(* attempt is in the tables (Tabled) and in the files (Filed).  An         *)
(* approved operation needs that the approval leads back to the check of   *)
(* the session (Awake).                                                    *)
(*                                                                         *)
(* What Reports promises, for any number of clients, artifacts, findings,  *)
(* reports and drops of their tables.                                      *)
(*                                                                         *)
(* That nothing partial is left needs that ids are handed out once, and    *)
(* that whoever has inserted a row holds the write lock (Making).  That a  *)
(* text does not count or name what the report does not link needs the     *)
(* order the lists are read in (Drafted): what is counted and named is     *)
(* read before what is linked, and nothing is taken away in between; and   *)
(* that a report that links something is one that a drop marks.  That a    *)
(* report is made again only by a race needs that the ones a client has    *)
(* seen are none of those that are being made (Seen, Looked).              *)
(***************************************************************************)
EXTENDS ScopedExecution, Reports, FiniteSetTheorems, SequenceTheorems, TLAPS

-----------------------------------------------------------------------------
(* The inductive invariant.                                                *)

Busy(w)  == pc[w] # "idle"
Saving   == {"file", "artifact_id", "artifact"}
Stored   == {"finding_id", "finding", "link"}
Succeeds(w) == pc[w] \in {"report", "save"} /\ run[w].outcome = "succeeded"

\* The artifact of an attempt for one of its candidates.
RowOf(w, n) == [job |-> run[w].job, ordinal |-> n, attempt |-> run[w].attempt]

\* The candidates of an attempt whose artifact is stored, and whose file is.
InTable(w) ==
  {n \in Ordinal : \/ pc[w] \in Saving /\ n < run[w].ordinal
                   \/ pc[w] \in Stored \/ Succeeds(w)}
InFiles(w) ==
  {n \in Ordinal : n \in InTable(w) \/ (pc[w] \in Saving \ {"file"} /\ n = run[w].ordinal)}

TypeInv ==
  /\ TypeOK
  /\ IsFiniteSet(artifact) /\ IsFiniteSet(finding)
  /\ \A w \in Worker :
       /\ pc[w] \notin Saving \cup {"link"} => run[w].ordinal = 1
       /\ pc[w] = "report" => run[w].outcome # "none"
       /\ pc[w] = "check" => run[w].outcome = "none"

\* No two workers hold the same lease, and none holds one that was not issued.
Distinct ==
  /\ \A w \in Worker : Busy(w) => run[w].attempt \in 1..issued[run[w].job]
  /\ \A v, w \in Worker :
       v # w /\ Busy(v) /\ Busy(w) /\ run[v].job = run[w].job =>
         run[v].attempt # run[w].attempt

\* What a worker will save: the end of the attempt in its hands.
OwnCopy(w) ==
  /\ copy[w].job = run[w].job
  /\ copy[w].from.status = "running" /\ copy[w].from.attempt = run[w].attempt
  /\ copy[w].to.status # "running" /\ copy[w].to.attempt = run[w].attempt
  /\ copy[w].to.status = "succeeded" => run[w].outcome = "succeeded"

\* What a saver will save: the lease it has read, held only if it was held when it
\* was read, and taken away only if it had lapsed.
PassCopy(s) ==
  /\ copy[s].job \in Job
  /\ copy[s].to.attempt = copy[s].from.attempt /\ copy[s].to.status # "succeeded"
  /\ \/ copy[s].from.status \in {"pending", "queued"} /\ copy[s].to.status # "running"
     \/ copy[s].from.status = "running"
          /\ (copy[s].to.status = "running" \/ copy[s].job \in lapses)

Copied ==
  /\ \A w \in Worker : pc[w] = "save" => OwnCopy(w)
  /\ \A s \in Saver : copy[s] # NoCopy => PassCopy(s)

\* Only the lapse of a lease and a copy out of date part a worker from its row.
Disturbed == lapses \cup overwritten
Parted == \A w \in Worker : Busy(w) /\ run[w].job \notin Disturbed => Owns(w)

\* Whoever asks an active session has seen it active.
Awake ==
  /\ session = "active" => \A w \in Worker : sawActive[w]
  /\ \A w \in Worker :
       pc[w] \in {"count", "rate", "admitted", "executing"} => sawActive[w]

\* What is left of each attempt in the tables.
Tabled ==
  \A w \in Worker :
    /\ \A n \in InTable(w) : RowOf(w, n) \in artifact
    /\ pc[w] = "link" \/ Succeeds(w) => <<run[w].job, run[w].attempt>> \in finding
    /\ \A n \in Ordinal :
         (pc[w] = "link" /\ n < run[w].ordinal) \/ Succeeds(w) => RowOf(w, n) \in link

\* And in the files, which a worker that was parted from its row may have written over.
Filed ==
  \A w \in Worker : Busy(w) /\ run[w].job \notin Disturbed =>
    \A n \in InFiles(w) : file[<<run[w].job, n>>] = run[w].attempt

\* Workers between the test of the rate limit and the event it counts.
Passed == {w \in Worker : pc[w] = "admitted"}
RateInv == recent + Cardinality(Passed) < RateLimit + Cardinality(Worker)

\* Holders whose row no copy out of date was saved to.
Steady == {w \in Holders : run[w].job \notin overwritten}
SteadyInv == Cardinality(Steady) <= MaxConcurrency

IInv ==
  /\ TypeInv /\ Distinct /\ Copied /\ Parted /\ Awake
  /\ Tabled /\ Filed /\ SuccessHasEvidence /\ EvidenceMatchesFiles
  /\ RateInv /\ SteadyInv

-----------------------------------------------------------------------------
(* Types.                                                                  *)

Runs   == [job : Job \cup {NoJob}, attempt : Nat, approved : BOOLEAN,
           outcome : Reported, ordinal : Ordinal, seen : Nat]
Copies == [job : Job \cup {NoJob}, from : Row, to : Row]

\* The table, the copies of its rows and their history are typed.
RowsTyped ==
  /\ row \in [Job -> Row] /\ issued \in [Job -> Nat] /\ moves \in Nat
  /\ copy \in [Thread -> Copies]
  /\ lapses \subseteq Job /\ overwritten \subseteq Job

\* A worker that has taken nothing up.
LEMMA NoRunTyped ==
  /\ NoRun \in Runs
  /\ NoRun.job = NoJob /\ NoRun.ordinal = 1 /\ NoRun.outcome = "none"
  BY ExecutionAssumption DEF NoRun, Runs, Ordinal, Reported

\* A worker whose execution is over keeps its job and its attempt.
LEMMA OutcomeIs ==
  ASSUME TypeOK, NEW w \in Worker, NEW status \in Reported, Outcome(w, status)
  PROVE  /\ pc' = [pc EXCEPT ![w] = "report"]
         /\ run' \in [Worker -> Runs]
         /\ \A v \in Worker \ {w} : run'[v] = run[v]
         /\ run'[w].job = run[w].job /\ run'[w].attempt = run[w].attempt
         /\ run'[w].outcome = status /\ run'[w].ordinal = 1
<1>1. run \in [Worker -> Runs] /\ run[w] \in Runs
  BY DEF TypeOK, Runs
<1>2. run[w].job \in Job \cup {NoJob} /\ run[w].attempt \in Nat
  BY <1>1 DEF Runs
<1>. DEFINE r == [NoRun EXCEPT !.job = run[w].job, !.attempt = run[w].attempt,
                               !.outcome = status]
<1>3. /\ r \in Runs /\ r.job = run[w].job /\ r.attempt = run[w].attempt
      /\ r.outcome = status /\ r.ordinal = 1
  BY <1>2, NoRunTyped DEF Runs
<1>4. run' = [run EXCEPT ![w] = r] /\ pc' = [pc EXCEPT ![w] = "report"]
  BY DEF Outcome, Goto
<1>. HIDE DEF r
<1>. QED
  BY <1>1, <1>3, <1>4

\* A row with another status is a row.
LEMMA ClosedTyped ==
  ASSUME NEW r \in Row,
         NEW status \in {"pending", "queued", "running", "succeeded", "over"}
  PROVE  /\ Closed(r, status) \in Row
         /\ Closed(r, status).attempt = r.attempt /\ Closed(r, status).status = status
  BY DEF Closed, Row

\* So is the one that is saved at the end of an attempt: it keeps the lease, is not
\* running any more, and succeeded only if the tool did.
LEMMA ResolvedTyped ==
  ASSUME NEW r \in Row, NEW outcome \in Reported
  PROVE  /\ Resolved(r, outcome) \in Row
         /\ Resolved(r, outcome).attempt = r.attempt
         /\ Resolved(r, outcome).status \in {"queued", "succeeded", "over"}
         /\ Resolved(r, outcome).status = "succeeded" => outcome = "succeeded"
<1>1. CASE r.cancel \/ outcome = "refused"
  BY <1>1, ClosedTyped DEF Resolved
<1>2. CASE ~(r.cancel \/ outcome = "refused") /\ outcome = "succeeded"
  BY <1>2, ClosedTyped DEF Resolved
<1>3. CASE ~(r.cancel \/ outcome = "refused") /\ outcome # "succeeded"
  <2>1. Resolved(r, outcome) = Retried(r)
    BY <1>3 DEF Resolved
  <2>2. CASE r.retries < RetryLimit
    <3>. DEFINE n == r.retries + 1
    <3>1. n \in 0..RetryLimit
      BY <2>2, ExecutionAssumption DEF Row
    <3>2. Retried(r) = [r EXCEPT !.status = "queued", !.retries = n]
      BY <2>2 DEF Retried
    <3>. HIDE DEF n
    <3>. QED
      BY <2>1, <3>1, <3>2 DEF Row
  <2>3. CASE ~(r.retries < RetryLimit)
    BY <2>1, <2>3, ClosedTyped DEF Retried
  <2>. QED
    BY <2>2, <2>3
<1>. QED
  BY <1>1, <1>2, <1>3

\* An empty hand.
LEMMA NoCopyTyped == NoCopy \in Copies
  BY ExecutionAssumption DEF NoCopy, NewRow, Copies, Row

\* The initial states satisfy the invariant: nothing was claimed.
LEMMA InitInv == Init => IInv
<1>. SUFFICES ASSUME Init PROVE IInv
  OBVIOUS
<1>. USE ExecutionAssumption DEF Init, NoRun
<1>1. TypeInv
  <2>1. RowsTyped
    <3>1. NewRow \in Row /\ Enqueued(NewRow) = Closed(NewRow, "queued")
      BY DEF NewRow, Row, Enqueued, Closed
    <3>2. Enqueued(NewRow) \in Row
      BY <3>1, ClosedTyped
    <3>. QED
      BY <3>1, <3>2, NoCopyTyped DEF RowsTyped
  <2>2. run \in [Worker -> Runs]
    BY DEF Runs, Reported, Ordinal
  <2>3. IsFiniteSet(artifact) /\ IsFiniteSet(finding)
    BY FS_EmptySet
  <2>. QED
    BY <2>1, <2>2, <2>3 DEF TypeInv, TypeOK, Runs, RowsTyped, Copies, Place, Saving
<1>2. Distinct /\ Copied /\ Parted /\ Awake
  BY DEF Distinct, Copied, Parted, Awake, Busy, Thread
<1>3. Tabled /\ Filed
  BY DEF Tabled, Filed, InTable, InFiles, Saving, Stored, Succeeds, Busy
<1>4. SuccessHasEvidence /\ EvidenceMatchesFiles
  <2>1. NewRow.status = "pending" /\ Enqueued(NewRow).status = "queued"
    BY DEF NewRow, Enqueued
  <2>2. \A j \in Job : row[j].status # "succeeded"
    BY <2>1
  <2>. QED
    BY <2>2 DEF SuccessHasEvidence, EvidenceMatchesFiles
<1>5. RateInv
  <2>1. Passed = {}
    BY DEF Passed
  <2>. QED
    BY <2>1, FS_EmptySet, FS_CardinalityType DEF RateInv
<1>6. SteadyInv
  <2>1. Steady = {}
    BY DEF Steady, Holders, Admitted
  <2>2. Cardinality({}) <= MaxConcurrency
    BY FS_EmptySet
  <2>. QED
    BY <2>1, <2>2 DEF SteadyInv
<1>. QED
  BY <1>1, <1>2, <1>3, <1>4, <1>5, <1>6 DEF IInv


\* What the evidence pipeline wrote is typed.
EvidenceTyped ==
  /\ file \in [Paths -> Nat]
  /\ artifact \subseteq [job : Job, ordinal : Ordinal, attempt : Nat]
  /\ finding \subseteq Job \X Nat
  /\ link \subseteq artifact
  /\ IsFiniteSet(artifact) /\ IsFiniteSet(finding)

\* A step of one worker keeps the types if what it touches stays typed.
LEMMA TypedAfter ==
  ASSUME TypeInv, NEW w \in Worker, NEW place \in Place,
         pc' = [pc EXCEPT ![w] = place],
         run' \in [Worker -> Runs], \A v \in Worker \ {w} : run'[v] = run[v],
         place = "idle" <=> run'[w].job = NoJob,
         place \notin Saving \cup {"link"} => run'[w].ordinal = 1,
         place = "report" => run'[w].outcome # "none",
         place = "check" => run'[w].outcome = "none",
         RowsTyped', recent' \in Nat, EvidenceTyped',
         sawActive' \in [Worker -> BOOLEAN], session' = session
  PROVE  TypeInv'
<1>1. /\ pc' \in [Worker -> Place]
      /\ \A v \in Worker : pc'[v] = IF v = w THEN place ELSE pc[v]
  BY DEF TypeInv, TypeOK
<1>2. \A v \in Worker : pc'[v] = "idle" <=> run'[v].job = NoJob
  BY <1>1 DEF TypeInv, TypeOK
<1>3. \A v \in Worker :
        /\ pc'[v] \notin Saving \cup {"link"} => run'[v].ordinal = 1
        /\ pc'[v] = "report" => run'[v].outcome # "none"
        /\ pc'[v] = "check" => run'[v].outcome = "none"
  BY <1>1 DEF TypeInv
<1>. QED
  BY <1>1, <1>2, <1>3 DEF TypeInv, TypeOK, RowsTyped, Copies, Runs, EvidenceTyped

\* The type invariant, by the sets the lemmas below speak of.
LEMMA OldTyped ==
  TypeInv => /\ RowsTyped /\ run \in [Worker -> Runs]
             /\ row \in [Job -> Row] /\ issued \in [Job -> Nat]
             /\ copy \in [Thread -> Copies]
             /\ pc \in [Worker -> Place] /\ recent \in Nat
             /\ EvidenceTyped /\ sawActive \in [Worker -> BOOLEAN]
  BY DEF TypeInv, TypeOK, RowsTyped, Copies, Runs, EvidenceTyped

\* What the table and its history hold stays typed when they stay.
LEMMA RowsKept == TypeInv /\ UNCHANGED <<rowVars, past>> => RowsTyped'
  BY DEF TypeInv, TypeOK, RowsTyped, Copies, rowVars, past

\* An execution that is over leaves everything but its worker alone.
LEMMA OutcomeTyped ==
  ASSUME TypeInv, NEW w \in Worker, NEW status \in Reported \ {"none"},
         Outcome(w, status), pc[w] # "idle",
         EvidenceTyped', UNCHANGED <<rowVars, session, recent, past>>,
         sawActive' \in [Worker -> BOOLEAN]
  PROVE  TypeInv'
<1>1. TypeOK /\ run[w].job # NoJob
  BY DEF TypeInv, TypeOK
<1>2. RowsTyped' /\ recent' \in Nat
  BY OldTyped, RowsKept
<1>. QED
  BY <1>1, <1>2, OutcomeIs, TypedAfter DEF Place, Saving

\* A claim puts a new lease into its worker's hands.
LEMMA ClaimIs ==
  ASSUME TypeInv, NEW w \in Worker, Claim(w)
  PROVE  /\ RowsTyped' /\ run' \in [Worker -> Runs]
         /\ \E j \in Job :
              /\ row[j].status = "queued"
              /\ run'[w].job = j /\ run'[w].attempt = issued[j] + 1
              /\ row'[j].status = "running" /\ row'[j].attempt = issued[j] + 1
              /\ issued'[j] = issued[j] + 1
              /\ \A i \in Job \ {j} : row'[i] = row[i] /\ issued'[i] = issued[i]
         /\ run'[w].ordinal = 1 /\ run'[w].outcome = "none"
         /\ \A v \in Worker \ {w} : run'[v] = run[v]
<1>1. PICK j \in Job :
        /\ row[j].status = "queued"
        /\ row' = [row EXCEPT ![j] = Claimed(j)]
        /\ issued' = [issued EXCEPT ![j] = @ + 1]
        /\ run' = [run EXCEPT ![w] = [NoRun EXCEPT !.job = j, !.attempt = issued[j] + 1]]
  BY DEF Claim
<1>. DEFINE a == issued[j] + 1
            r == [NoRun EXCEPT !.job = j, !.attempt = a]
            n == Claimed(j)
<1>2. row[j] \in Row /\ a \in Nat
  BY OldTyped
<1>3. run' = [run EXCEPT ![w] = r] /\ issued' = [issued EXCEPT ![j] = a]
  BY <1>1
<1>4. row' = [row EXCEPT ![j] = n] /\ n = [row[j] EXCEPT !.status = "running", !.attempt = a]
  BY <1>1 DEF Claimed
<1>. HIDE DEF a
<1>5. r \in Runs /\ r.job = j /\ r.attempt = a /\ r.ordinal = 1 /\ r.outcome = "none"
  BY <1>2, NoRunTyped DEF Runs
<1>6. n \in Row /\ n.status = "running" /\ n.attempt = a
  BY <1>2, <1>4 DEF Row
<1>. HIDE DEF r, n
<1>7. /\ run' \in [Worker -> Runs] /\ run'[w] = r
      /\ \A v \in Worker \ {w} : run'[v] = run[v]
  BY <1>3, <1>5, OldTyped
<1>8. /\ row' \in [Job -> Row] /\ row'[j] = n /\ \A i \in Job \ {j} : row'[i] = row[i]
      /\ issued' \in [Job -> Nat] /\ issued'[j] = a
      /\ \A i \in Job \ {j} : issued'[i] = issued[i]
  BY <1>2, <1>3, <1>4, <1>6, OldTyped
<1>9. /\ row[j].status = "queued"
      /\ run'[w].job = j /\ run'[w].attempt = issued[j] + 1
      /\ row'[j].status = "running" /\ row'[j].attempt = issued[j] + 1
      /\ issued'[j] = issued[j] + 1
      /\ \A i \in Job \ {j} : row'[i] = row[i] /\ issued'[i] = issued[i]
  BY <1>1, <1>5, <1>6, <1>7, <1>8 DEF a
<1>10. RowsTyped'
  BY <1>8, OldTyped DEF Claim, RowsTyped, past
<1>. QED
  BY <1>5, <1>7, <1>9, <1>10

\* A row that was read is in its thread's hands, with what it will be.
LEMMA PrepareIs ==
  ASSUME TypeInv, NEW t \in Thread, NEW j \in Job, NEW r \in Row, Prepare(t, j, r)
  PROVE  /\ copy' \in [Thread -> Copies]
         /\ copy'[t].job = j /\ copy'[t].from = row[j] /\ copy'[t].to = r
         /\ \A u \in Thread \ {t} : copy'[u] = copy[u]
<1>. DEFINE c == [job |-> j, from |-> row[j], to |-> r]
<1>1. c \in Copies /\ c.job = j /\ c.from = row[j] /\ c.to = r
  BY OldTyped DEF Copies
<1>2. copy' = [copy EXCEPT ![t] = c]
  BY DEF Prepare
<1>. HIDE DEF c
<1>. QED
  BY <1>1, <1>2, OldTyped

\* A save replaces one row; if the row had changed since it was read, that is
\* remembered.
LEMMA SaveIs ==
  ASSUME TypeInv, NEW t \in Thread, copy[t].job \in Job, Save(t)
  PROVE  /\ row' \in [Job -> Row] /\ row'[copy[t].job] = copy[t].to
         /\ \A i \in Job \ {copy[t].job} : row'[i] = row[i]
         /\ overwritten' \subseteq Job /\ overwritten \subseteq overwritten'
         /\ copy[t].job \notin overwritten' => row[copy[t].job] = copy[t].from
         /\ copy' \in [Thread -> Copies] /\ copy'[t] = NoCopy
         /\ \A u \in Thread \ {t} : copy'[u] = copy[u]
<1>. DEFINE j == copy[t].job
            n == copy[t].to
<1>1. n \in Row /\ j \in Job /\ overwritten \subseteq Job
  BY OldTyped DEF Copies, RowsTyped
<1>2. /\ row' = [row EXCEPT ![j] = n]
      /\ overwritten' = IF row[j] = copy[t].from THEN overwritten ELSE overwritten \cup {j}
      /\ copy' = [copy EXCEPT ![t] = NoCopy]
  BY DEF Save
<1>. HIDE DEF j, n
<1>3. /\ row' \in [Job -> Row] /\ row'[j] = n /\ \A i \in Job \ {j} : row'[i] = row[i]
      /\ overwritten' \subseteq Job /\ overwritten \subseteq overwritten'
      /\ j \notin overwritten' => row[j] = copy[t].from
      /\ copy' \in [Thread -> Copies] /\ copy'[t] = NoCopy
      /\ \A u \in Thread \ {t} : copy'[u] = copy[u]
  BY <1>1, <1>2, NoCopyTyped, OldTyped
<1>. QED
  BY <1>3 DEF j, n

\* A worker that lets go of its attempt.
LEMMA IdleIs ==
  ASSUME TypeInv, NEW w \in Worker, run' = [run EXCEPT ![w] = NoRun], Goto(w, "idle")
  PROVE  /\ run' \in [Worker -> Runs] /\ run'[w].job = NoJob /\ run'[w].ordinal = 1
         /\ pc' = [pc EXCEPT ![w] = "idle"] /\ ~Busy(w)'
         /\ \A v \in Worker \ {w} : pc'[v] = pc[v] /\ run'[v] = run[v]
  BY NoRunTyped, OldTyped DEF Goto, Busy

\* Only the owner's outcome is prepared.
LEMMA ReportIs ==
  ASSUME TypeInv, NEW w \in Worker, Report(w)
  PROVE  /\ RowsTyped'
         /\ Owns(w) => OwnCopy(w)' /\ pc' = [pc EXCEPT ![w] = "save"] /\ run' = run
         /\ ~Owns(w) => run' = [run EXCEPT ![w] = NoRun] /\ Goto(w, "idle")
         /\ \A t \in Thread \ {w} : copy'[t] = copy[t]
<1>. USE DEF Thread
<1>1. CASE ~Owns(w)
  BY <1>1, OldTyped DEF Report, RowsTyped, past
<1>2. CASE Owns(w)
  <2>. DEFINE r == Resolved(row[run[w].job], run[w].outcome)
  <2>1. /\ run[w].job \in Job /\ row[run[w].job] \in Row /\ run[w].outcome \in Reported
        /\ row[run[w].job].status = "running" /\ row[run[w].job].attempt = run[w].attempt
    BY <1>2, OldTyped DEF Owns, Runs
  <2>2. /\ r \in Row /\ r.attempt = run[w].attempt /\ r.status # "running"
        /\ r.status = "succeeded" => run[w].outcome = "succeeded"
    BY <2>1, ResolvedTyped
  <2>3. Prepare(w, run[w].job, r) /\ UNCHANGED run /\ Goto(w, "save")
    BY <1>2 DEF Report
  <2>. HIDE DEF r
  <2>4. /\ copy' \in [Thread -> Copies]
        /\ copy'[w].job = run[w].job /\ copy'[w].from = row[run[w].job] /\ copy'[w].to = r
        /\ \A u \in Thread \ {w} : copy'[u] = copy[u]
    BY <2>1, <2>2, <2>3, PrepareIs
  <2>5. RowsTyped'
    BY <2>4, OldTyped DEF Report, RowsTyped, past
  <2>. QED
    BY <1>2, <2>1, <2>2, <2>3, <2>4, <2>5 DEF OwnCopy, Goto
<1>. QED
  BY <1>1, <1>2

\* So is a cancellation that was requested before the attempt began.
LEMMA CheckIs ==
  ASSUME TypeInv, NEW w \in Worker, CheckCancel(w)
  PROVE  /\ RowsTyped' /\ run' = run
         /\ \/ OwnCopy(w)' /\ pc' = [pc EXCEPT ![w] = "save"]
            \/ pc' = [pc EXCEPT ![w] = "validate"]
         /\ \A t \in Thread \ {w} : copy'[t] = copy[t]
<1>. USE DEF Thread
<1>1. CASE Goto(w, "validate") /\ UNCHANGED copy
  BY <1>1, OldTyped DEF CheckCancel, RowsTyped, past, Goto
<1>2. CASE /\ Owns(w) /\ Goto(w, "save")
           /\ Prepare(w, run[w].job, Closed(row[run[w].job], "over"))
  <2>. DEFINE r == Closed(row[run[w].job], "over")
  <2>1. /\ run[w].job \in Job /\ row[run[w].job] \in Row
        /\ row[run[w].job].status = "running" /\ row[run[w].job].attempt = run[w].attempt
    BY <1>2, OldTyped DEF Owns
  <2>2. r \in Row /\ r.attempt = run[w].attempt /\ r.status = "over"
    BY <2>1, ClosedTyped
  <2>3. Prepare(w, run[w].job, r) /\ UNCHANGED run
    BY <1>2 DEF CheckCancel
  <2>. HIDE DEF r
  <2>4. /\ copy' \in [Thread -> Copies]
        /\ copy'[w].job = run[w].job /\ copy'[w].from = row[run[w].job] /\ copy'[w].to = r
        /\ \A u \in Thread \ {w} : copy'[u] = copy[u]
    BY <2>1, <2>2, <2>3, PrepareIs
  <2>5. RowsTyped'
    BY <2>4, OldTyped DEF CheckCancel, RowsTyped, past
  <2>. QED
    BY <1>2, <2>1, <2>2, <2>3, <2>4, <2>5 DEF OwnCopy, Goto
<1>. QED
  BY <1>1, <1>2 DEF CheckCancel

\* The end of an attempt is saved, and the worker is idle again.
LEMMA OutcomeSaved ==
  ASSUME TypeInv, Distinct, Copied, NEW w \in Worker, SaveOutcome(w)
  PROVE  /\ RowsTyped' /\ run[w].job \in Job /\ OwnCopy(w) /\ Busy(w)
         /\ row'[run[w].job] = copy[w].to
         /\ \A i \in Job \ {run[w].job} : row'[i] = row[i]
         /\ overwritten \subseteq overwritten'
         /\ run[w].job \notin overwritten' => row[run[w].job] = copy[w].from
         /\ \A t \in Thread \ {w} : copy'[t] = copy[t]
<1>1. OwnCopy(w) /\ Busy(w) /\ Save(w) /\ w \in Thread
  BY DEF SaveOutcome, Copied, Busy, Thread
<1>2. run[w].job \in Job /\ copy[w].job = run[w].job
  BY <1>1, OldTyped DEF TypeInv, TypeOK, Busy, Runs, OwnCopy
<1>3. RowsTyped'
  BY <1>1, <1>2, SaveIs, OldTyped DEF RowsTyped, SaveOutcome
<1>. QED
  BY <1>1, <1>2, <1>3, SaveIs

\* A row that a pass or a request has computed is saved.
LEMMA RowSaved ==
  ASSUME TypeInv, Copied, NEW s \in Saver, SaveRow(s)
  PROVE  /\ RowsTyped' /\ PassCopy(s)
         /\ row'[copy[s].job] = copy[s].to
         /\ \A i \in Job \ {copy[s].job} : row'[i] = row[i]
         /\ overwritten \subseteq overwritten'
         /\ copy[s].job \notin overwritten' => row[copy[s].job] = copy[s].from
         /\ \A t \in Thread \ {s} : copy'[t] = copy[t]
         /\ copy'[s] = NoCopy
<1>1. PassCopy(s) /\ Save(s) /\ s \in Thread
  BY DEF SaveRow, Copied, Thread
<1>2. copy[s].job \in Job
  BY <1>1 DEF PassCopy
<1>3. RowsTyped'
  BY <1>1, <1>2, SaveIs, OldTyped DEF RowsTyped, SaveRow
<1>. QED
  BY <1>1, <1>2, <1>3, SaveIs

\* A pass or a request that reads a row has it in hand as PassCopy says.
LEMMA RowRead ==
  ASSUME TypeInv, NEW s \in Saver, NEW j \in Job, ReadRow(s, j)
  PROVE  /\ RowsTyped' /\ PassCopy(s)' /\ lapses \subseteq lapses'
         /\ \A t \in Thread \ {s} : copy'[t] = copy[t]
<1>0. /\ s \in Thread /\ row[j] \in Row /\ lapses' \in {lapses, lapses \cup {j}}
      /\ UNCHANGED <<row, issued, overwritten>> /\ moves' \in Nat
  BY OldTyped DEF Thread, ReadRow, RowsTyped
<1>1. \E r \in Row :
        /\ Prepare(s, j, r) /\ r.attempt = row[j].attempt /\ r.status # "succeeded"
        /\ \/ row[j].status \in {"pending", "queued"} /\ r.status # "running"
           \/ row[j].status = "running" /\ (r.status = "running" \/ j \in lapses')
  <2>1. CASE WillEnqueue(s, j)
    <3>1. Enqueued(row[j]) = Closed(row[j], "queued")
      BY DEF Enqueued, Closed
    <3>. QED
      BY <1>0, <2>1, <3>1, ClosedTyped DEF WillEnqueue
  <2>2. CASE WillClose(s, j)
    BY <1>0, <2>2, ClosedTyped DEF WillClose
  <2>3. CASE WillRequest(s, j)
    <3>. DEFINE r == [row[j] EXCEPT !.cancel = TRUE]
    <3>1. r \in Row /\ r.attempt = row[j].attempt /\ r.status = row[j].status
      BY <1>0 DEF Row
    <3>2. Prepare(s, j, r) /\ row[j].status \in {"pending", "queued", "running"}
      BY <2>3 DEF WillRequest
    <3>. HIDE DEF r
    <3>. QED
      BY <3>1, <3>2
  <2>4. CASE WillRecover(s, j) /\ lapses' = lapses \cup {j}
    BY <1>0, <2>4, ResolvedTyped DEF WillRecover, Reported
  <2>. QED
    BY <2>1, <2>2, <2>3, <2>4 DEF ReadRow
<1>2. PICK r \in Row :
        /\ Prepare(s, j, r) /\ r.attempt = row[j].attempt /\ r.status # "succeeded"
        /\ \/ row[j].status \in {"pending", "queued"} /\ r.status # "running"
           \/ row[j].status = "running" /\ (r.status = "running" \/ j \in lapses')
  BY <1>1
<1>3. /\ copy' \in [Thread -> Copies]
      /\ copy'[s].job = j /\ copy'[s].from = row[j] /\ copy'[s].to = r
      /\ \A u \in Thread \ {s} : copy'[u] = copy[u]
  BY <1>0, <1>2, PrepareIs
<1>4. RowsTyped'
  BY <1>0, <1>3, OldTyped DEF RowsTyped
<1>. QED
  BY <1>0, <1>2, <1>3, <1>4 DEF PassCopy

\* A busy worker has a job and an attempt that was begun.
LEMMA HeldTyped ==
  ASSUME TypeInv, NEW w \in Worker, Busy(w)
  PROVE  /\ run[w].job \in Job /\ run[w].attempt \in Nat /\ run[w].ordinal \in Ordinal
         /\ run[w] \in Runs
  BY OldTyped DEF TypeInv, TypeOK, Busy, Runs

\* The pipeline only adds to what is stored, except that it writes over files.
LEMMA EvidenceStep ==
  ASSUME TypeInv, Distinct, Tabled, NEW w \in Worker, Execute(w)
  PROVE  /\ EvidenceTyped'
         /\ artifact \subseteq artifact' /\ finding \subseteq finding' /\ link \subseteq link'
<1>. USE OldTyped DEF EvidenceTyped
<1>1. ASSUME UNCHANGED evidence PROVE EvidenceTyped' /\ artifact' = artifact /\ finding' = finding /\ link' = link
  BY <1>1 DEF evidence
<1>2. CASE Claim(w) \/ CheckCancel(w) \/ Validate(w) \/ Ask(w) \/ CountRunning(w)
           \/ CountRecent(w) \/ Confirm(w) \/ Start(w) \/ EndTool(w) \/ Report(w)
           \/ SaveOutcome(w)
  BY <1>1, <1>2 DEF Claim, CheckCancel, Validate, Ask, CountRunning, CountRecent, Confirm,
                    Start, EndTool, Report, SaveOutcome
<1>3. CASE AllocateArtifactId(w) \/ AllocateFindingId(w)
  BY <1>1, <1>3 DEF AllocateArtifactId, AllocateFindingId, Allocate
<1>4. CASE WriteFile(w)
  <2>1. Busy(w)
    BY <1>4 DEF WriteFile, Busy
  <2>2. file' \in [Paths -> Nat] /\ UNCHANGED <<artifact, finding, link>>
    BY <1>4, <2>1, HeldTyped DEF WriteFile, Path, Paths
  <2>. QED
    BY <2>2
<1>5. CASE InsertArtifact(w)
  <2>1. Busy(w)
    BY <1>5 DEF InsertArtifact, Busy
  <2>2. ArtifactRow(w) \in [job : Job, ordinal : Ordinal, attempt : Nat]
    BY <2>1, HeldTyped DEF ArtifactRow
  <2>3. artifact' \in {artifact, artifact \cup {ArtifactRow(w)}} /\ UNCHANGED <<file, finding, link>>
    BY <1>5 DEF InsertArtifact
  <2>4. IsFiniteSet(artifact')
    BY <2>3, FS_AddElement
  <2>. QED
    BY <2>2, <2>3, <2>4
<1>6. CASE InsertFinding(w)
  <2>1. Busy(w)
    BY <1>6 DEF InsertFinding, Busy
  <2>2. <<run[w].job, run[w].attempt>> \in Job \X Nat
    BY <2>1, HeldTyped
  <2>. DEFINE f == <<run[w].job, run[w].attempt>>
  <2>3. finding' \in {finding, finding \cup {f}} /\ UNCHANGED <<file, artifact, link>>
    BY <1>6 DEF InsertFinding
  <2>. HIDE DEF f
  <2>4. IsFiniteSet(finding')
    BY <2>3, FS_AddElement
  <2>. QED
    BY <2>2, <2>3, <2>4 DEF f
<1>7. CASE LinkArtifact(w)
  <2>1. pc[w] = "link" /\ Busy(w)
    BY <1>7 DEF LinkArtifact, Busy
  <2>2. run[w].ordinal \in InTable(w)
    BY <2>1, HeldTyped DEF InTable, Stored
  <2>3. ArtifactRow(w) \in artifact
    BY <2>2 DEF Tabled, RowOf, ArtifactRow
  <2>4. link' = link \cup {ArtifactRow(w)} /\ UNCHANGED <<file, artifact, finding>>
    BY <1>7 DEF LinkArtifact
  <2>. QED
    BY <2>3, <2>4
<1>. QED
  BY <1>2, <1>3, <1>4, <1>5, <1>6, <1>7 DEF Execute, Admission, Pipeline

\* A worker goes on with the same attempt.
RunKept(w) ==
  /\ run' \in [Worker -> Runs]
  /\ \A v \in Worker \ {w} : run'[v] = run[v]
  /\ run'[w].job = run[w].job /\ run'[w].attempt = run[w].attempt

\* A worker that replaces what it holds by a typed record of the same attempt.
LEMMA KeptTyped ==
  ASSUME TypeInv, NEW w \in Worker, NEW r \in Runs, run' = [run EXCEPT ![w] = r],
         r.job = run[w].job, r.attempt = run[w].attempt
  PROVE  RunKept(w) /\ run'[w] = r
  BY OldTyped DEF RunKept

\* A worker that goes on to another candidate.
LEMMA NextTyped ==
  ASSUME TypeInv, NEW w \in Worker, NEW n \in Ordinal, NEW seen \in Nat,
         \/ run' = [run EXCEPT ![w].ordinal = n]
         \/ run' = [run EXCEPT ![w].ordinal = n, ![w].seen = seen]
  PROVE  RunKept(w) /\ run'[w].ordinal = n /\ run'[w].outcome = run[w].outcome
  BY OldTyped DEF RunKept, Runs

\* A worker whose finding was inserted.
LEMMA FoundTyped ==
  ASSUME TypeInv, NEW w \in Worker,
         run' = [run EXCEPT ![w].outcome = "succeeded", ![w].seen = 0]
  PROVE  RunKept(w) /\ run'[w].ordinal = run[w].ordinal /\ run'[w].outcome = "succeeded"
  BY OldTyped DEF RunKept, Runs, Reported

\* Every action keeps the types.
LEMMA TypeStep == TypeInv /\ Distinct /\ Copied /\ Tabled /\ [Next]_vars => TypeInv'
<1>. SUFFICES ASSUME TypeInv, Distinct, Copied, Tabled, [Next]_vars PROVE TypeInv'
  OBVIOUS
<1>. USE OldTyped DEF evidence, Place
<1>1. ASSUME NEW w \in Worker, Execute(w) PROVE TypeInv'
  <2>0. /\ EvidenceTyped' /\ run[w] \in Runs
        /\ pc[w] # "idle" <=> run[w].job # NoJob
        /\ pc[w] \notin Saving \cup {"link"} => run[w].ordinal = 1
        /\ UNCHANGED <<rowVars, past>> => RowsTyped'
    BY <1>1, EvidenceStep, RowsKept DEF TypeInv, TypeOK
  <2>1. CASE Claim(w)
    <3>1. PICK j \in Job : run'[w].job = j
      BY <2>1, ClaimIs
    <3>2. run'[w].job # NoJob
      BY <3>1, ExecutionAssumption
    <3>. QED
      BY <2>0, <2>1, <3>2, ClaimIs, TypedAfter DEF Claim, Goto
  <2>2. CASE Validate(w)
    BY <2>0, <2>2, OutcomeTyped, TypedAfter DEF Validate, Goto, Reported, Saving
  <2>3. CASE Ask(w)
    BY <2>0, <2>3, OutcomeTyped, TypedAfter DEF Ask, Goto, Reported, Saving
  <2>4. CASE CountRunning(w)
    BY <2>0, <2>4, OutcomeTyped, TypedAfter DEF CountRunning, Goto, Reported, Saving
  <2>5. CASE CountRecent(w)
    BY <2>0, <2>5, OutcomeTyped, TypedAfter DEF CountRecent, Goto, Reported, Saving
  <2>6. CASE Confirm(w)
    <3>1. CASE Outcome(w, "refused") /\ UNCHANGED sawActive
      BY <2>0, <2>6, <3>1, OutcomeTyped DEF Confirm, Reported
    <3>2. CASE run' = [run EXCEPT ![w].approved = TRUE]
               /\ sawActive' = [sawActive EXCEPT ![w] = session = "active"]
               /\ Goto(w, AfterApproval)
      <4>1. run' = [run EXCEPT ![w] = [run[w] EXCEPT !.approved = TRUE]]
        BY <3>2
      <4>2. RunKept(w) /\ run'[w].ordinal = 1
        BY <2>0, <2>6, <4>1, KeptTyped DEF Confirm, Runs, Saving
      <4>. QED
        BY <2>0, <2>6, <3>2, <4>2, TypedAfter DEF Confirm, Goto, AfterApproval, RunKept, Saving
    <3>. QED
      BY <2>6, <3>1, <3>2 DEF Confirm
  <2>7. CASE Start(w)
    <3>1. run' = [run EXCEPT ![w] = [run[w] EXCEPT !.approved = FALSE]]
      BY <2>7 DEF Start
    <3>. DEFINE r == [run[w] EXCEPT !.approved = FALSE]
    <3>2. r \in Runs /\ r.job = run[w].job /\ r.attempt = run[w].attempt /\ r.ordinal = 1
      BY <2>0, <2>7 DEF Start, Runs, Saving
    <3>. HIDE DEF r
    <3>3. RunKept(w) /\ run'[w].ordinal = 1
      BY <3>1, <3>2, KeptTyped DEF r
    <3>4. recent' \in Nat
      BY <2>7 DEF Start
    <3>. QED
      BY <2>0, <2>7, <3>3, <3>4, TypedAfter DEF Start, Goto, RunKept, Saving
  <2>8. CASE EndTool(w)
    BY <2>0, <2>8, OutcomeTyped, TypedAfter DEF EndTool, Goto, Reported, Saving
  <2>9. CASE WriteFile(w)
    BY <2>0, <2>9, TypedAfter DEF WriteFile, Goto, Saving
  <2>10. CASE AllocateArtifactId(w)
    <3>1. run' = [run EXCEPT ![w] = [run[w] EXCEPT !.seen = Cardinality(artifact)]]
          /\ Cardinality(artifact) \in Nat
      BY <2>10, FS_CardinalityType DEF AllocateArtifactId, Allocate, TypeInv
    <3>2. RunKept(w)
      BY <2>0, <3>1, KeptTyped DEF Runs
    <3>. QED
      BY <2>0, <2>10, <3>2, TypedAfter DEF AllocateArtifactId, Allocate, Goto, RunKept, Saving
  <2>11. CASE AllocateFindingId(w)
    <3>1. run' = [run EXCEPT ![w] = [run[w] EXCEPT !.seen = Cardinality(finding)]]
          /\ Cardinality(finding) \in Nat
      BY <2>11, FS_CardinalityType DEF AllocateFindingId, Allocate, TypeInv
    <3>. DEFINE r == [run[w] EXCEPT !.seen = Cardinality(finding)]
    <3>2. r \in Runs /\ r.job = run[w].job /\ r.attempt = run[w].attempt /\ r.ordinal = 1
      BY <2>0, <2>11, <3>1 DEF AllocateFindingId, Allocate, Runs, Saving
    <3>. HIDE DEF r
    <3>3. RunKept(w) /\ run'[w].ordinal = 1
      BY <3>1, <3>2, KeptTyped DEF r
    <3>. QED
      BY <2>0, <2>11, <3>3, TypedAfter DEF AllocateFindingId, Allocate, Goto, RunKept, Saving
  <2>12. CASE InsertArtifact(w)
    <3>1. CASE Outcome(w, "failed")
      BY <2>0, <2>12, <3>1, OutcomeTyped DEF InsertArtifact, Reported
    <3>2. CASE /\ run[w].ordinal < Candidates /\ Goto(w, "file")
               /\ run' = [run EXCEPT ![w].ordinal = @ + 1, ![w].seen = 0]
      <4>0. run[w].ordinal + 1 \in Ordinal
        BY <2>0, <3>2, ExecutionAssumption DEF Runs, Ordinal
      <4>1. RunKept(w)
        BY <3>2, <4>0, NextTyped
      <4>. QED
        BY <2>0, <2>12, <3>2, <4>1, TypedAfter DEF InsertArtifact, Goto, RunKept, Saving
    <3>3. CASE /\ Goto(w, "finding_id")
               /\ run' = [run EXCEPT ![w].ordinal = 1, ![w].seen = 0]
      <4>0. 1 \in Ordinal
        BY ExecutionAssumption DEF Ordinal
      <4>1. RunKept(w) /\ run'[w].ordinal = 1
        BY <3>3, <4>0, NextTyped
      <4>. QED
        BY <2>0, <2>12, <3>3, <4>1, TypedAfter DEF InsertArtifact, Goto, RunKept, Saving
    <3>. QED
      BY <2>12, <3>1, <3>2, <3>3 DEF InsertArtifact
  <2>13. CASE InsertFinding(w)
    <3>1. CASE Outcome(w, "failed")
      BY <2>0, <2>13, <3>1, OutcomeTyped DEF InsertFinding, Reported
    <3>2. CASE /\ Goto(w, AfterFinding)
               /\ run' = [run EXCEPT ![w].outcome = "succeeded", ![w].seen = 0]
      <4>1. RunKept(w)
        BY <2>0, <3>2, FoundTyped
      <4>. QED
        BY <2>0, <2>13, <3>2, <4>1, TypedAfter
        DEF InsertFinding, AfterFinding, Goto, RunKept, Saving
    <3>. QED
      BY <2>13, <3>1, <3>2 DEF InsertFinding
  <2>14. CASE LinkArtifact(w)
    <3>1. CASE Outcome(w, "succeeded")
      BY <2>0, <2>14, <3>1, OutcomeTyped DEF LinkArtifact, Reported
    <3>2. CASE /\ run[w].ordinal < Candidates /\ UNCHANGED pc
               /\ run' = [run EXCEPT ![w].ordinal = @ + 1]
      <4>0. run[w].ordinal + 1 \in Ordinal
        BY <2>0, <3>2, ExecutionAssumption DEF Runs, Ordinal
      <4>1. RunKept(w)
        BY <3>2, <4>0, NextTyped
      <4>2. pc' = [pc EXCEPT ![w] = "link"]
        BY <2>14, <3>2 DEF LinkArtifact
      <4>. QED
        BY <2>0, <2>14, <4>1, <4>2, TypedAfter DEF LinkArtifact, RunKept
    <3>. QED
      BY <2>14, <3>1, <3>2 DEF LinkArtifact
  <2>15. CASE CheckCancel(w)
    BY <2>0, <2>15, CheckIs, TypedAfter DEF CheckCancel, Saving
  <2>16. CASE Report(w)
    <3>1. CASE Owns(w)
      BY <2>0, <2>16, <3>1, ReportIs, TypedAfter DEF Report, Saving
    <3>2. CASE ~Owns(w)
      BY <2>0, <2>16, <3>2, ReportIs, IdleIs, TypedAfter DEF Report
    <3>. QED
      BY <3>1, <3>2
  <2>17. CASE SaveOutcome(w)
    BY <2>0, <2>17, OutcomeSaved, IdleIs, TypedAfter DEF SaveOutcome
  <2>. QED
    BY <1>1, <2>1, <2>2, <2>3, <2>4, <2>5, <2>6, <2>7, <2>8, <2>9, <2>10, <2>11, <2>12,
       <2>13, <2>14, <2>15, <2>16, <2>17 DEF Execute, Admission, Pipeline
<1>2. ASSUME RowsTyped', UNCHANGED <<session, pc, run, recent, evidence, sawActive>>
      PROVE  TypeInv'
  BY <1>2 DEF RowsTyped, Copies, TypeInv, TypeOK
<1>3. ASSUME NEW s \in Saver, NEW j \in Job, ReadRow(s, j) PROVE TypeInv'
  BY <1>2, <1>3, RowRead DEF ReadRow
<1>4. ASSUME NEW s \in Saver, SaveRow(s) PROVE TypeInv'
  BY <1>2, <1>4, RowSaved DEF SaveRow
<1>5. ASSUME NEW status \in {"active", "paused"}, SetSession(status) PROVE TypeInv'
  BY <1>5 DEF SetSession, TypeInv, TypeOK, rowVars, past
<1>6. CASE Age
  BY <1>6 DEF Age, TypeInv, TypeOK, rowVars, past
<1>7. CASE UNCHANGED vars
  BY <1>7 DEF vars, TypeInv, TypeOK, rowVars, past
<1>. QED
  BY <1>1, <1>3, <1>4, <1>5, <1>6, <1>7 DEF Next

-----------------------------------------------------------------------------
(* What the steps have in common.                                          *)

\* A step of a worker between its claim and its report: it keeps its attempt,
\* and nothing that the others or the scheduler do is part of it.
Works(w) ==
  /\ RunKept(w) /\ Busy(w) /\ Busy(w)'
  /\ \A v \in Worker \ {w} : pc'[v] = pc[v]
  /\ UNCHANGED <<rowVars, session, past>>

\* An execution that is over.
Ends(w, status) ==
  /\ pc'[w] = "report" /\ run'[w].outcome = status /\ run'[w].ordinal = 1

\* A worker whose execution is over keeps its attempt.
LEMMA OutcomeWorks ==
  ASSUME TypeInv, NEW w \in Worker, NEW status \in Reported, Outcome(w, status),
         Busy(w), UNCHANGED <<rowVars, session, past>>
  PROVE  Works(w) /\ Ends(w, status)
<1>1. TypeOK
  BY DEF TypeInv
<1>. QED
  BY <1>1, OutcomeIs, OldTyped DEF Works, Ends, RunKept, Busy

\* A worker that goes on with its attempt.
LEMMA GotoWorks ==
  ASSUME TypeInv, NEW w \in Worker, NEW place \in Place \ {"idle"}, Goto(w, place),
         RunKept(w), Busy(w), UNCHANGED <<rowVars, session, past>>
  PROVE  Works(w) /\ pc'[w] = place
  BY OldTyped DEF Goto, Works, Busy

\* Validation and admission: the execution ends, or the worker goes on as far as
\* the action says.
LEMMA AdmissionWorks ==
  ASSUME TypeInv, NEW w \in Worker, Validate(w) \/ Admission(w) \/ Start(w) \/ EndTool(w)
  PROVE  /\ Works(w) /\ UNCHANGED evidence
         /\ \/ \E status \in {"failed", "refused"} : Ends(w, status)
            \/ /\ pc'[w] \notin {"report", "save", "artifact_id", "artifact"} \cup Stored
               /\ run'[w].ordinal = run[w].ordinal
<1>. USE OldTyped DEF Reported, Place, Saving, Stored
<1>0. UNCHANGED run => RunKept(w) /\ run'[w] = run[w]
  BY DEF RunKept
<1>1. CASE Validate(w)
  BY <1>0, <1>1, OutcomeWorks, GotoWorks DEF Validate, Busy
<1>2. CASE Ask(w)
  BY <1>0, <1>2, OutcomeWorks, GotoWorks DEF Ask, Busy
<1>3. CASE CountRunning(w)
  BY <1>0, <1>3, OutcomeWorks, GotoWorks DEF CountRunning, Busy
<1>4. CASE CountRecent(w)
  BY <1>0, <1>4, OutcomeWorks, GotoWorks DEF CountRecent, Busy
<1>5. CASE Confirm(w)
  <2>1. ASSUME run' = [run EXCEPT ![w].approved = TRUE]
        PROVE  RunKept(w) /\ run'[w].ordinal = run[w].ordinal
    BY <2>1 DEF RunKept, Runs
  <2>. QED
    BY <2>1, <1>5, OutcomeWorks, GotoWorks DEF Confirm, Busy, AfterApproval
<1>6. CASE Start(w)
  <2>1. ASSUME run' = [run EXCEPT ![w].approved = FALSE]
        PROVE  RunKept(w) /\ run'[w].ordinal = run[w].ordinal
    BY <2>1 DEF RunKept, Runs
  <2>. QED
    BY <2>1, <1>6, GotoWorks DEF Start, Busy
<1>7. CASE EndTool(w)
  BY <1>0, <1>7, OutcomeWorks, GotoWorks DEF EndTool, Busy
<1>. QED
  BY <1>1, <1>2, <1>3, <1>4, <1>5, <1>6, <1>7 DEF Admission

\* The pipeline: each action stores one thing, or gives the attempt up.
LEMMA PipelineWorks ==
  ASSUME TypeInv, NEW w \in Worker, Pipeline(w)
  PROVE
    /\ Works(w)
    /\ \/ /\ Ends(w, "failed") /\ UNCHANGED evidence
       \/ /\ pc[w] = "file" /\ pc'[w] = "artifact_id" /\ run'[w] = run[w]
          /\ file' = [file EXCEPT ![<<run[w].job, run[w].ordinal>>] = run[w].attempt]
       \/ /\ pc[w] = "artifact_id" /\ pc'[w] = "artifact"
          /\ run'[w].ordinal = run[w].ordinal /\ UNCHANGED evidence
       \/ /\ pc[w] = "artifact" /\ RowOf(w, run[w].ordinal) \in artifact' /\ file' = file
          /\ \/ pc'[w] = "file" /\ run'[w].ordinal = run[w].ordinal + 1
             \/ pc'[w] = "finding_id" /\ run[w].ordinal = Candidates /\ run'[w].ordinal = 1
       \/ /\ pc[w] = "finding_id" /\ pc'[w] = "finding"
          /\ run'[w].ordinal = run[w].ordinal /\ UNCHANGED evidence
       \/ /\ pc[w] = "finding" /\ <<run[w].job, run[w].attempt>> \in finding'
          /\ pc'[w] = "link" /\ run'[w].ordinal = run[w].ordinal /\ file' = file
       \/ /\ pc[w] = "link" /\ RowOf(w, run[w].ordinal) \in link' /\ file' = file
          /\ \/ pc'[w] = "link" /\ run'[w].ordinal = run[w].ordinal + 1
             \/ run[w].ordinal = Candidates /\ Ends(w, "succeeded")
<1>. USE OldTyped DEF Reported, Place
<1>0. /\ UNCHANGED run => RunKept(w) /\ run'[w] = run[w]
      /\ run[w] \in Runs /\ run[w].ordinal \in 1..Candidates
      /\ Candidates \in Nat \ {0}
  BY ExecutionAssumption DEF RunKept, Runs, Ordinal
<1>1. CASE WriteFile(w)
  BY <1>0, <1>1, GotoWorks DEF WriteFile, Busy, Path
<1>2. CASE AllocateArtifactId(w)
  <2>1. RunKept(w) /\ run'[w].ordinal = run[w].ordinal
    <3>1. run' = [run EXCEPT ![w] = [run[w] EXCEPT !.seen = Cardinality(artifact)]]
          /\ Cardinality(artifact) \in Nat
      BY <1>2, FS_CardinalityType DEF AllocateArtifactId, Allocate, TypeInv
    <3>. QED
      BY <1>0, <3>1, KeptTyped DEF Runs
  <2>. QED
    BY <1>2, <2>1, GotoWorks DEF AllocateArtifactId, Allocate, Busy, evidence
<1>3. CASE AllocateFindingId(w)
  <2>1. RunKept(w) /\ run'[w].ordinal = run[w].ordinal
    <3>1. run' = [run EXCEPT ![w] = [run[w] EXCEPT !.seen = Cardinality(finding)]]
          /\ Cardinality(finding) \in Nat
      BY <1>3, FS_CardinalityType DEF AllocateFindingId, Allocate, TypeInv
    <3>. QED
      BY <1>0, <3>1, KeptTyped DEF Runs
  <2>. QED
    BY <1>3, <2>1, GotoWorks DEF AllocateFindingId, Allocate, Busy, evidence
<1>4. CASE InsertArtifact(w)
  <2>1. CASE Outcome(w, "failed") /\ UNCHANGED artifact
    BY <1>4, <2>1, OutcomeWorks DEF InsertArtifact, Busy, evidence
  <2>2. CASE /\ run[w].ordinal < Candidates /\ Goto(w, "file")
             /\ run' = [run EXCEPT ![w].ordinal = @ + 1, ![w].seen = 0]
             /\ artifact' = artifact \cup {ArtifactRow(w)}
    <3>1. run[w].ordinal + 1 \in Ordinal
      BY <1>0, <2>2 DEF Ordinal
    <3>2. RunKept(w) /\ run'[w].ordinal = run[w].ordinal + 1
      BY <2>2, <3>1, NextTyped
    <3>. QED
      BY <1>4, <2>2, <3>2, GotoWorks DEF InsertArtifact, Busy, ArtifactRow, RowOf
  <2>3. CASE /\ ~(run[w].ordinal < Candidates) /\ Goto(w, "finding_id")
             /\ run' = [run EXCEPT ![w].ordinal = 1, ![w].seen = 0]
             /\ artifact' = artifact \cup {ArtifactRow(w)}
    <3>1. 1 \in Ordinal /\ run[w].ordinal = Candidates
      BY <1>0, <2>3 DEF Ordinal
    <3>2. RunKept(w) /\ run'[w].ordinal = 1
      BY <2>3, <3>1, NextTyped
    <3>. QED
      BY <1>4, <2>3, <3>1, <3>2, GotoWorks DEF InsertArtifact, Busy, ArtifactRow, RowOf
  <2>. QED
    BY <1>4, <2>1, <2>2, <2>3 DEF InsertArtifact
<1>5. CASE InsertFinding(w)
  <2>1. CASE Outcome(w, "failed") /\ UNCHANGED finding
    BY <1>5, <2>1, OutcomeWorks DEF InsertFinding, Busy, evidence
  <2>2. CASE /\ Goto(w, AfterFinding)
             /\ run' = [run EXCEPT ![w].outcome = "succeeded", ![w].seen = 0]
             /\ finding' = finding \cup {<<run[w].job, run[w].attempt>>}
    BY <1>5, <2>2, FoundTyped, GotoWorks DEF InsertFinding, Busy, AfterFinding
  <2>. QED
    BY <1>5, <2>1, <2>2 DEF InsertFinding
<1>6. CASE LinkArtifact(w)
  <2>1. pc[w] = "link" /\ Busy(w) /\ RowOf(w, run[w].ordinal) \in link' /\ file' = file
        /\ UNCHANGED <<rowVars, session, past>>
    BY <1>6 DEF LinkArtifact, Busy, ArtifactRow, RowOf
  <2>2. CASE /\ run[w].ordinal < Candidates /\ UNCHANGED pc
             /\ run' = [run EXCEPT ![w].ordinal = @ + 1]
    <3>1. run[w].ordinal + 1 \in Ordinal
      BY <1>0, <2>2 DEF Ordinal
    <3>2. RunKept(w) /\ run'[w].ordinal = run[w].ordinal + 1
      BY <2>2, <3>1, NextTyped
    <3>. QED
      BY <2>1, <2>2, <3>2 DEF Works, Busy
  <2>3. CASE ~(run[w].ordinal < Candidates) /\ Outcome(w, "succeeded")
    BY <1>0, <2>1, <2>3, OutcomeWorks
  <2>. QED
    BY <1>6, <2>2, <2>3 DEF LinkArtifact
<1>. QED
  BY <1>1, <1>2, <1>3, <1>4, <1>5, <1>6 DEF Pipeline

\* A worker claims, reports, or works on what it has claimed.
LEMMA WorkerStep ==
  ASSUME TypeInv, NEW w \in Worker, Execute(w)
  PROVE  Claim(w) \/ CheckCancel(w) \/ Report(w) \/ SaveOutcome(w) \/ Works(w)
  BY AdmissionWorks, PipelineWorks DEF Execute

\* A worker's step leaves the others where they are.
LEMMA OtherWorkers ==
  ASSUME TypeInv, Distinct, Copied, NEW w \in Worker, Execute(w), NEW v \in Worker \ {w}
  PROVE  pc'[v] = pc[v] /\ run'[v] = run[v] /\ lapses' = lapses /\ overwritten \subseteq overwritten'
<1>1. CASE Claim(w)
  BY <1>1, ClaimIs, OldTyped DEF Claim, Goto, past
<1>2. CASE CheckCancel(w)
  BY <1>2, CheckIs, OldTyped DEF CheckCancel, past
<1>3. CASE Report(w)
  BY <1>3, ReportIs, IdleIs, OldTyped DEF Report, past
<1>4. CASE SaveOutcome(w)
  BY <1>4, OutcomeSaved, IdleIs DEF SaveOutcome
<1>5. CASE Works(w)
  BY <1>5 DEF Works, RunKept, past
<1>. QED
  BY <1>1, <1>2, <1>3, <1>4, <1>5, WorkerStep

-----------------------------------------------------------------------------
(* Who holds what.                                                         *)

\* A claim hands out a lease that nobody holds yet.
LEMMA DistinctStep == TypeInv /\ Copied /\ Distinct /\ [Next]_vars => Distinct'
<1>. SUFFICES ASSUME TypeInv, Copied, Distinct, [Next]_vars PROVE Distinct'
  OBVIOUS
<1>. USE OldTyped DEF Distinct, Busy
<1>0. \A v \in Worker : Busy(v) => run[v].job \in Job
  BY HeldTyped
<1>a. \A i \in Job : issued[i] \in Nat
  OBVIOUS
<1>1. ASSUME NEW w \in Worker, Execute(w) PROVE Distinct'
  <2>1. CASE Claim(w)
    <3>1. PICK j \in Job :
            /\ run'[w].job = j /\ run'[w].attempt = issued[j] + 1
            /\ issued'[j] = issued[j] + 1
            /\ \A i \in Job \ {j} : issued'[i] = issued[i]
      BY <2>1, ClaimIs
    <3>2. \A v \in Worker \ {w} : pc'[v] = pc[v] /\ run'[v] = run[v]
      BY <2>1, ClaimIs DEF Claim, Goto
    <3>3. \A v \in Worker \ {w} : Busy(v)' =>
            /\ run'[v].attempt \in 1..issued'[run'[v].job]
            /\ run'[v].job = j => run'[v].attempt < run'[w].attempt
      BY <1>0, <1>a, <3>1, <3>2
    <3>4. run'[w].attempt \in 1..issued'[run'[w].job]
      BY <1>a, <3>1
    <3>. QED
      BY <1>a, <3>1, <3>2, <3>3, <3>4
  <2>2. CASE CheckCancel(w)
    <3>1. run' = run /\ issued' = issued /\ \A v \in Worker : Busy(v)' <=> Busy(v)
      BY <2>2, CheckIs DEF CheckCancel
    <3>. QED
      BY <3>1
  <2>3. CASE Report(w) \/ SaveOutcome(w)
    <3>1. CASE run' = run /\ pc' = [pc EXCEPT ![w] = "save"]
      <4>1. issued' = issued /\ \A v \in Worker : Busy(v)' <=> Busy(v)
        BY <2>3, <3>1 DEF Report, SaveOutcome
      <4>. QED
        BY <3>1, <4>1
    <3>2. CASE run' = [run EXCEPT ![w] = NoRun] /\ Goto(w, "idle")
      <4>1. issued' = issued /\ ~Busy(w)' /\ \A v \in Worker \ {w} : pc'[v] = pc[v] /\ run'[v] = run[v]
        BY <2>3, <3>2, IdleIs DEF Report, SaveOutcome
      <4>. QED
        BY <4>1
    <3>. QED
      BY <2>3, <3>1, <3>2, ReportIs DEF SaveOutcome
  <2>4. CASE Works(w)
    BY <2>4 DEF Works, RunKept, rowVars
  <2>. QED
    BY <1>1, <2>1, <2>2, <2>3, <2>4, WorkerStep
<1>2. CASE UNCHANGED <<issued, pc, run>>
  BY <1>2
<1>. QED
  BY <1>1, <1>2 DEF Next, ReadRow, SaveRow, SetSession, Age, vars, rowVars

\* Who has a row in hand has it as OwnCopy and PassCopy say.
LEMMA CopiedStep == TypeInv /\ Distinct /\ Copied /\ [Next]_vars => Copied'
<1>. SUFFICES ASSUME TypeInv, Distinct, Copied, [Next]_vars PROVE Copied'
  OBVIOUS
<1>. USE OldTyped, ExecutionAssumption DEF Copied, Thread
<1>a. ASSUME NEW w \in Worker, pc'[w] = pc[w], run'[w] = run[w], copy'[w] = copy[w]
      PROVE  pc'[w] = "save" => OwnCopy(w)'
  BY <1>a DEF OwnCopy
<1>b. ASSUME NEW s \in Saver, copy'[s] = copy[s], lapses \subseteq lapses'
      PROVE  copy'[s] # NoCopy => PassCopy(s)'
  BY <1>b DEF PassCopy
<1>1. ASSUME NEW w \in Worker, Execute(w) PROVE Copied'
  <2>1. /\ \A t \in Thread \ {w} : copy'[t] = copy[t]
        /\ \A v \in Worker \ {w} : pc'[v] = pc[v] /\ run'[v] = run[v]
        /\ lapses' = lapses
    <3>1. CASE Claim(w)
      BY <3>1, ClaimIs DEF Claim, Goto, past
    <3>2. CASE CheckCancel(w)
      BY <3>2, CheckIs DEF CheckCancel, past
    <3>3. CASE Report(w)
      BY <3>3, ReportIs, IdleIs DEF Report, past
    <3>4. CASE SaveOutcome(w)
      BY <3>4, OutcomeSaved, IdleIs DEF SaveOutcome
    <3>5. CASE Works(w)
      BY <3>5 DEF Works, RunKept, rowVars, past
    <3>. QED
      BY <1>1, <3>1, <3>2, <3>3, <3>4, <3>5, WorkerStep
  <2>2. pc'[w] = "save" => OwnCopy(w)'
    <3>1. CASE Claim(w)
      BY <3>1 DEF Claim, Goto
    <3>2. CASE CheckCancel(w)
      BY <3>2, CheckIs
    <3>3. CASE Report(w)
      BY <3>3, ReportIs, IdleIs DEF Busy
    <3>4. CASE SaveOutcome(w)
      BY <3>4, IdleIs DEF SaveOutcome, Busy
    <3>5. CASE Validate(w) \/ Admission(w) \/ Start(w) \/ EndTool(w)
      BY <3>5 DEF Validate, Admission, Ask, CountRunning, CountRecent, Confirm, Start, EndTool,
                  Outcome, Goto, AfterApproval
    <3>6. CASE Pipeline(w)
      BY <3>6, PipelineWorks DEF Ends
    <3>. QED
      BY <1>1, <3>1, <3>2, <3>3, <3>4, <3>5, <3>6 DEF Execute
  <2>. QED
    BY <1>a, <1>b, <2>1, <2>2
<1>2. ASSUME NEW s \in Saver, NEW j \in Job, ReadRow(s, j) PROVE Copied'
  <2>1. UNCHANGED <<pc, run>>
    BY <1>2 DEF ReadRow
  <2>. QED
    BY <1>a, <1>b, <1>2, <2>1, RowRead
<1>3. ASSUME NEW s \in Saver, SaveRow(s) PROVE Copied'
  <2>1. UNCHANGED <<pc, run, lapses>>
    BY <1>3 DEF SaveRow
  <2>. QED
    BY <1>a, <1>b, <1>3, <2>1, RowSaved
<1>4. CASE UNCHANGED <<copy, pc, run, lapses>>
  BY <1>a, <1>b, <1>4
<1>. QED
  BY <1>1, <1>2, <1>3, <1>4 DEF Next, SetSession, Age, vars, rowVars, past

\* A row that a save leaves undisturbed was held by the saving worker, or was held
\* by nobody or the same one before.
LEMMA HeldAfterSave ==
  ASSUME TypeInv, Copied, Distinct, NEW w \in Worker, Busy(w), Owns(w),
         run'[w] = run[w], run[w].job \notin Disturbed',
         \/ \E s \in Saver : SaveRow(s)
         \/ \E v \in Worker \ {w} : SaveOutcome(v)
  PROVE  Owns(w)'
<1>. USE OldTyped DEF Owns, Disturbed
<1>0. run[w].job \in Job
  BY HeldTyped
<1>1. ASSUME NEW s \in Saver, SaveRow(s) PROVE Owns(w)'
  <2>1. CASE copy[s].job # run[w].job
    BY <1>0, <1>1, <2>1, RowSaved
  <2>2. CASE copy[s].job = run[w].job
    <3>1. /\ PassCopy(s) /\ copy[s].from = row[run[w].job] /\ row'[run[w].job] = copy[s].to
      BY <1>1, <2>2, RowSaved
    <3>2. lapses' = lapses
      BY <1>1 DEF SaveRow
    <3>. QED
      BY <1>0, <2>2, <3>1, <3>2 DEF PassCopy
  <2>. QED
    BY <2>1, <2>2
<1>2. ASSUME NEW v \in Worker \ {w}, SaveOutcome(v) PROVE Owns(w)'
  <2>1. CASE run[v].job # run[w].job
    BY <1>0, <1>2, <2>1, OutcomeSaved
  <2>2. CASE run[v].job = run[w].job
    <3>1. OwnCopy(v) /\ Busy(v) /\ row[run[v].job] = copy[v].from
      BY <1>2, <2>2, OutcomeSaved
    <3>2. run[v].attempt = run[w].attempt
      BY <2>2, <3>1 DEF OwnCopy
    <3>. QED
      BY <2>2, <3>1, <3>2 DEF Distinct
  <2>. QED
    BY <2>1, <2>2
<1>. QED
  BY <1>1, <1>2

\* Only a lapse and a copy out of date take a row from its worker: a claim finds it
\* queued, and whoever saves a row as it was read saves the same lease, or gives
\* back its own.
LEMMA PartedStep == TypeInv /\ Copied /\ Distinct /\ Parted /\ [Next]_vars => Parted'
<1>. SUFFICES ASSUME TypeInv, Copied, Distinct, Parted, [Next]_vars PROVE Parted'
  OBVIOUS
<1>. USE OldTyped DEF Parted, Owns, Busy, Disturbed
<1>0. \A v \in Worker : Busy(v) => run[v].job \in Job
  BY HeldTyped
<1>1. ASSUME NEW w \in Worker, Execute(w) PROVE Parted'
  <2>1. CASE Claim(w)
    <3>1. PICK j \in Job :
            /\ row[j].status = "queued"
            /\ run'[w].job = j /\ run'[w].attempt = issued[j] + 1
            /\ row'[j].status = "running" /\ row'[j].attempt = issued[j] + 1
            /\ \A i \in Job \ {j} : row'[i] = row[i]
      BY <2>1, ClaimIs
    <3>2. \A v \in Worker \ {w} : pc'[v] = pc[v] /\ run'[v] = run[v]
      BY <2>1, ClaimIs DEF Claim, Goto
    <3>3. lapses' = lapses /\ overwritten' = overwritten
      BY <2>1 DEF Claim, past
    <3>. QED
      BY <1>0, <3>1, <3>2, <3>3
  <2>2. CASE CheckCancel(w)
    <3>1. run' = run /\ UNCHANGED <<row, lapses, overwritten>> /\ \A v \in Worker : Busy(v)' <=> Busy(v)
      BY <2>2, CheckIs DEF CheckCancel, past
    <3>. QED
      BY <3>1
  <2>3. CASE Report(w)
    <3>1. UNCHANGED <<row, lapses, overwritten>>
      BY <2>3 DEF Report, past
    <3>2. CASE Owns(w)
      <4>1. run' = run /\ \A v \in Worker : Busy(v)' <=> Busy(v)
        BY <2>3, <3>2, ReportIs DEF Report
      <4>. QED
        BY <3>1, <4>1
    <3>3. CASE ~Owns(w)
      <4>1. ~Busy(w)' /\ \A v \in Worker \ {w} : pc'[v] = pc[v] /\ run'[v] = run[v]
        BY <2>3, <3>3, ReportIs, IdleIs
      <4>. QED
        BY <3>1, <4>1
    <3>. QED
      BY <3>2, <3>3
  <2>4. CASE SaveOutcome(w)
    <3>1. ~Busy(w)' /\ \A v \in Worker \ {w} : pc'[v] = pc[v] /\ run'[v] = run[v]
      BY <2>4, IdleIs DEF SaveOutcome
    <3>2. lapses' = lapses /\ overwritten \subseteq overwritten'
      BY <2>4, OutcomeSaved DEF SaveOutcome
    <3>3. ASSUME NEW v \in Worker, Busy(v)', run'[v].job \notin Disturbed' PROVE Owns(v)'
      <4>1. v # w /\ Busy(v) /\ Owns(v) /\ run'[v] = run[v]
        BY <3>1, <3>2, <3>3
      <4>. QED
        BY <2>4, <3>3, <4>1, HeldAfterSave
    <3>. QED
      BY <3>3
  <2>5. CASE Works(w)
    BY <2>5 DEF Works, RunKept, rowVars, past
  <2>. QED
    BY <1>1, <2>1, <2>2, <2>3, <2>4, <2>5, WorkerStep
<1>2. ASSUME NEW s \in Saver, SaveRow(s) PROVE Parted'
  <2>1. UNCHANGED <<pc, run, lapses>> /\ overwritten \subseteq overwritten'
    BY <1>2, RowSaved DEF SaveRow
  <2>2. ASSUME NEW v \in Worker, Busy(v)', run'[v].job \notin Disturbed' PROVE Owns(v)'
    <3>1. Busy(v) /\ Owns(v) /\ run'[v] = run[v]
      BY <2>1, <2>2
    <3>. QED
      BY <1>2, <2>2, <3>1, HeldAfterSave
  <2>. QED
    BY <2>2
<1>3. CASE UNCHANGED <<row, pc, run, overwritten>> /\ lapses \subseteq lapses'
  BY <1>3
<1>. QED
  BY <1>1, <1>2, <1>3 DEF Next, ReadRow, SetSession, Age, vars, rowVars, past

\* An approval leads back to the check of the session.
LEMMA AwakeStep == TypeInv /\ Awake /\ [Next]_vars => Awake'
<1>. SUFFICES ASSUME TypeInv, Awake, [Next]_vars PROVE Awake'
  OBVIOUS
<1>. USE OldTyped DEF Awake, Goto
<1>1. ASSUME NEW w \in Worker, Execute(w) PROVE Awake'
  <2>1. CASE Claim(w)
    BY <2>1 DEF Claim
  <2>2. CASE Validate(w)
    BY <2>2 DEF Validate, Outcome
  <2>3. CASE Ask(w)
    BY <2>3 DEF Ask, Outcome
  <2>4. CASE CountRunning(w)
    BY <2>4 DEF CountRunning, Outcome
  <2>5. CASE CountRecent(w)
    BY <2>5 DEF CountRecent, Outcome
  <2>6. CASE Confirm(w)
    BY <2>6 DEF Confirm, Outcome, AfterApproval
  <2>7. CASE Start(w)
    BY <2>7 DEF Start
  <2>8. CASE EndTool(w)
    BY <2>8 DEF EndTool, Outcome
  <2>9. CASE Pipeline(w)
    <3>1. pc'[w] \notin {"count", "rate", "admitted", "executing"}
          /\ \A v \in Worker \ {w} : pc'[v] = pc[v]
      BY <2>9, PipelineWorks DEF Works, Ends
    <3>2. UNCHANGED <<session, sawActive>>
      BY <2>9 DEF Pipeline, WriteFile, AllocateArtifactId, AllocateFindingId, Allocate,
                  InsertArtifact, InsertFinding, LinkArtifact
    <3>. QED
      BY <3>1, <3>2
  <2>10. CASE CheckCancel(w) \/ Report(w) \/ SaveOutcome(w)
    BY <2>10 DEF CheckCancel, Report, SaveOutcome
  <2>. QED
    BY <1>1, <2>1, <2>2, <2>3, <2>4, <2>5, <2>6, <2>7, <2>8, <2>9, <2>10
    DEF Execute, Admission
<1>2. CASE UNCHANGED <<session, pc, sawActive>>
  BY <1>2
<1>3. ASSUME NEW status \in {"active", "paused"}, SetSession(status) PROVE Awake'
  BY <1>3 DEF SetSession
<1>. QED
  BY <1>1, <1>2, <1>3 DEF Next, ReadRow, SaveRow, Age, vars

-----------------------------------------------------------------------------
(* Evidence.                                                               *)

\* What an attempt has stored stays stored, and its worker knows how far it is.
LEMMA TabledStep == TypeInv /\ Distinct /\ Copied /\ Tabled /\ [Next]_vars => Tabled'
<1>. SUFFICES ASSUME TypeInv, Distinct, Copied, Tabled, [Next]_vars PROVE Tabled'
  OBVIOUS
<1>. DEFINE Of(v) ==
        /\ \A n \in InTable(v) : RowOf(v, n) \in artifact
        /\ pc[v] = "link" \/ Succeeds(v) => <<run[v].job, run[v].attempt>> \in finding
        /\ \A n \in Ordinal :
             (pc[v] = "link" /\ n < run[v].ordinal) \/ Succeeds(v) => RowOf(v, n) \in link
<1>0. \A v \in Worker : Of(v)
  BY DEF Tabled
<1>1. ASSUME NEW w \in Worker, Execute(w) PROVE \A v \in Worker : Of(v)'
  <2>1. /\ artifact \subseteq artifact' /\ finding \subseteq finding' /\ link \subseteq link'
    BY <1>1, EvidenceStep
  <2>2. \A v \in Worker \ {w} : pc'[v] = pc[v] /\ run'[v] = run[v]
    BY <1>1, OtherWorkers
  <2>3. \A v \in Worker \ {w} : Of(v)'
    BY <1>0, <2>1, <2>2 DEF InTable, Succeeds, RowOf
  <2>4. Of(w)'
    <3>1. CASE Claim(w)
      BY <3>1, OldTyped DEF Claim, Goto, InTable, Succeeds, Saving, Stored
    <3>2. CASE SaveOutcome(w) \/ (Report(w) /\ ~Owns(w))
      <4>1. pc'[w] = "idle"
        BY <3>2, ReportIs, IdleIs, OldTyped DEF SaveOutcome, Goto
      <4>. QED
        BY <4>1 DEF InTable, Succeeds, Saving, Stored
    <3>5. CASE Report(w) /\ Owns(w)
      <4>1. pc[w] = "report" /\ pc'[w] = "save" /\ run'[w] = run[w]
        BY <3>5, ReportIs, OldTyped DEF Report
      <4>. QED
        BY <1>0, <2>1, <4>1 DEF InTable, Succeeds, Saving, Stored, RowOf
    <3>6. CASE CheckCancel(w)
      <4>1. pc'[w] \in {"save", "validate"} /\ run'[w].outcome = "none"
        BY <3>6, CheckIs, OldTyped DEF CheckCancel, TypeInv
      <4>. QED
        BY <4>1 DEF InTable, Succeeds, Saving, Stored
    <3>3. CASE Validate(w) \/ Admission(w) \/ Start(w) \/ EndTool(w)
      <4>1. pc[w] \notin Saving \cup {"link"}
        BY <3>3 DEF Validate, Admission, Ask, CountRunning, CountRecent, Confirm, Start, EndTool,
                    Saving
      <4>2. run[w].ordinal = 1
        BY <4>1 DEF TypeInv
      <4>3. /\ pc'[w] = "file" => run'[w].ordinal = 1
            /\ pc'[w] = "report" => run'[w].outcome # "succeeded"
            /\ pc'[w] \notin {"artifact_id", "artifact", "save"} \cup Stored
        BY <3>3, <4>2, AdmissionWorks DEF Ends, Stored
      <4>. QED
        BY <4>3 DEF InTable, Succeeds, Saving, Ordinal, Stored
    <3>4. CASE Pipeline(w)
      <4>0. /\ \A n \in Ordinal : RowOf(w, n)' = RowOf(w, n)
            /\ run'[w].job = run[w].job /\ run'[w].attempt = run[w].attempt
            /\ run[w].ordinal \in Ordinal /\ Ordinal \subseteq Nat
            /\ Ordinal = 1..Candidates /\ Candidates \in Nat
        <5>1. Works(w)
          BY <3>4, PipelineWorks
        <5>2. run[w].ordinal \in Ordinal
          BY <5>1, HeldTyped DEF Works
        <5>. QED
          BY <5>1, <5>2, ExecutionAssumption DEF Works, RunKept, RowOf, Ordinal
      <4>. USE DEF InTable, Succeeds, Saving, Stored
      <4>1. CASE Ends(w, "failed")
        BY <4>1 DEF Ends
      <4>2. CASE pc[w] = "file" /\ pc'[w] = "artifact_id" /\ run'[w] = run[w]
        BY <1>0, <2>1, <4>0, <4>2
      <4>3. CASE pc[w] = "artifact_id" /\ pc'[w] = "artifact" /\ run'[w].ordinal = run[w].ordinal
        BY <1>0, <2>1, <4>0, <4>3
      <4>4. CASE pc[w] = "artifact" /\ RowOf(w, run[w].ordinal) \in artifact'
                 /\ pc'[w] = "file" /\ run'[w].ordinal = run[w].ordinal + 1
        <5>1. \A n \in Ordinal : n < run'[w].ordinal => n < run[w].ordinal \/ n = run[w].ordinal
          BY <4>0, <4>4
        <5>. QED
          BY <1>0, <2>1, <4>0, <4>4, <5>1
      <4>5. CASE pc[w] = "artifact" /\ RowOf(w, run[w].ordinal) \in artifact'
                 /\ pc'[w] = "finding_id" /\ run[w].ordinal = Candidates
        <5>1. \A n \in Ordinal : n < run[w].ordinal \/ n = run[w].ordinal
          BY <4>0, <4>5
        <5>. QED
          BY <1>0, <2>1, <4>0, <4>5, <5>1
      <4>6. CASE pc[w] = "finding_id" /\ pc'[w] = "finding"
        BY <1>0, <2>1, <4>0, <4>6
      <4>7. CASE pc[w] = "finding" /\ <<run[w].job, run[w].attempt>> \in finding'
                 /\ pc'[w] = "link" /\ run'[w].ordinal = run[w].ordinal
        <5>1. run'[w].ordinal = 1
          BY <4>7 DEF TypeInv
        <5>. QED
          BY <1>0, <2>1, <4>0, <4>7, <5>1
      <4>8. CASE pc[w] = "link" /\ RowOf(w, run[w].ordinal) \in link'
                 /\ pc'[w] = "link" /\ run'[w].ordinal = run[w].ordinal + 1
        <5>1. \A n \in Ordinal : n < run'[w].ordinal => n < run[w].ordinal \/ n = run[w].ordinal
          BY <4>0, <4>8
        <5>. QED
          BY <1>0, <2>1, <4>0, <4>8, <5>1
      <4>9. CASE pc[w] = "link" /\ RowOf(w, run[w].ordinal) \in link'
                 /\ run[w].ordinal = Candidates /\ Ends(w, "succeeded")
        <5>1. \A n \in Ordinal : n < run[w].ordinal \/ n = run[w].ordinal
          BY <4>0, <4>9
        <5>. QED
          BY <1>0, <2>1, <4>0, <4>9, <5>1 DEF Ends
      <4>. QED
        BY <3>4, PipelineWorks, <4>1, <4>2, <4>3, <4>4, <4>5, <4>6, <4>7, <4>8, <4>9
    <3>. QED
      BY <1>1, <3>1, <3>2, <3>3, <3>4, <3>5, <3>6 DEF Execute
  <2>. QED
    BY <2>3, <2>4
<1>2. ASSUME UNCHANGED <<pc, run, evidence>> PROVE \A v \in Worker : Of(v)'
  <2>1. pc' = pc /\ run' = run /\ artifact' = artifact /\ finding' = finding /\ link' = link
    BY <1>2 DEF evidence
  <2>. QED
    BY <1>0, <2>1 DEF InTable, Succeeds, RowOf, Saving, Stored
<1>3. (\E w \in Worker : Execute(w)) \/ UNCHANGED <<pc, run, evidence>>
  BY DEF Next, ReadRow, SaveRow, SetSession, Age, vars, evidence
<1>. QED
  BY <1>1, <1>2, <1>3 DEF Tabled

\* A file is written by a worker on its own job.
LEMMA FileStep ==
  ASSUME TypeInv, Distinct, NEW w \in Worker, Execute(w), NEW p \in Paths
  PROVE  file'[p] = file[p] \/ (Busy(w) /\ pc[w] = "file" /\ p = <<run[w].job, run[w].ordinal>>)
<1>1. CASE Claim(w) \/ CheckCancel(w) \/ Validate(w) \/ Admission(w) \/ Start(w) \/ EndTool(w)
           \/ Report(w) \/ SaveOutcome(w)
  <2>1. UNCHANGED evidence
    BY <1>1, AdmissionWorks DEF Claim, CheckCancel, Report, SaveOutcome
  <2>. QED
    BY <2>1 DEF evidence
<1>2. CASE Pipeline(w)
  <2>1. CASE pc[w] = "file" /\ file' = [file EXCEPT ![<<run[w].job, run[w].ordinal>>] = run[w].attempt]
    BY <2>1, OldTyped DEF EvidenceTyped, Busy
  <2>2. CASE file' = file
    BY <2>2
  <2>. QED
    BY <1>2, <2>1, <2>2, PipelineWorks DEF evidence
<1>. QED
  BY <1>1, <1>2 DEF Execute

\* Two workers that hold the lease of the same job are one.
LEMMA OneOwner ==
  ASSUME Distinct, NEW v \in Worker, NEW w \in Worker, Busy(v), Busy(w), Owns(v), Owns(w),
         run[v].job = run[w].job
  PROVE  v = w
  BY DEF Distinct, Owns

\* The files of an attempt whose row nothing disturbed are its own.
LEMMA FiledStep == TypeInv /\ Distinct /\ Copied /\ Parted /\ Filed /\ [Next]_vars => Filed'
<1>. SUFFICES ASSUME TypeInv, Distinct, Copied, Parted, Filed, [Next]_vars PROVE Filed'
  OBVIOUS
<1>. DEFINE Of(v) == Busy(v) /\ run[v].job \notin Disturbed =>
                       \A n \in InFiles(v) : file[<<run[v].job, n>>] = run[v].attempt
<1>0. \A v \in Worker : Of(v)
  BY DEF Filed
<1>1. ASSUME NEW w \in Worker, Execute(w) PROVE \A v \in Worker : Of(v)'
  <2>1. lapses' = lapses /\ overwritten \subseteq overwritten'
    <3>1. ASSUME SaveOutcome(w) PROVE lapses' = lapses /\ overwritten \subseteq overwritten'
      BY <3>1, OutcomeSaved DEF SaveOutcome
    <3>. QED
      BY <1>1, <3>1, WorkerStep DEF Claim, CheckCancel, Report, Works, past
  <2>a. Disturbed \subseteq Disturbed'
    BY <2>1 DEF Disturbed
  <2>2. \A v \in Worker \ {w} : pc'[v] = pc[v] /\ run'[v] = run[v]
    BY <1>1, OtherWorkers
  <2>3. ASSUME NEW v \in Worker \ {w}, Busy(v)', run'[v].job \notin Disturbed',
               NEW n \in InFiles(v)'
        PROVE  file'[<<run'[v].job, n>>] = run'[v].attempt
    <3>1. Busy(v) /\ run[v].job \notin Disturbed /\ n \in InFiles(v) /\ Owns(v)
      BY <2>a, <2>2, <2>3 DEF Busy, InFiles, InTable, Succeeds, Saving, Stored, Parted
    <3>2. <<run[v].job, n>> \in Paths /\ file[<<run[v].job, n>>] = run[v].attempt
      BY <1>0, <3>1, HeldTyped DEF Paths, InFiles
    <3>3. ~(Busy(w) /\ run[w].job = run[v].job)
      BY <2>3, <3>1, OneOwner DEF Parted
    <3>4. file'[<<run[v].job, n>>] = file[<<run[v].job, n>>]
      BY <1>1, <3>2, <3>3, FileStep
    <3>. QED
      BY <2>2, <3>2, <3>4
  <2>4. Of(w)'
    <3>1. CASE Claim(w)
      BY <3>1, OldTyped DEF Claim, Goto, InFiles, InTable, Succeeds, Saving, Stored
    <3>2. CASE SaveOutcome(w) \/ (Report(w) /\ ~Owns(w))
      BY <3>2, ReportIs, IdleIs DEF SaveOutcome
    <3>5. CASE Report(w) /\ Owns(w)
      <4>1. pc[w] = "report" /\ pc'[w] = "save" /\ run'[w] = run[w] /\ file' = file
        BY <3>5, ReportIs, OldTyped DEF Report, evidence
      <4>. QED
        BY <1>0, <2>a, <4>1 DEF InFiles, InTable, Succeeds, Saving, Stored, Busy
    <3>6. CASE CheckCancel(w)
      <4>1. pc'[w] \in {"save", "validate"} /\ run'[w].outcome = "none"
        BY <3>6, CheckIs, OldTyped DEF CheckCancel, TypeInv
      <4>. QED
        BY <4>1 DEF InFiles, InTable, Succeeds, Saving, Stored
    <3>3. CASE Validate(w) \/ Admission(w) \/ Start(w) \/ EndTool(w)
      <4>1. pc[w] \notin Saving \cup {"link"}
        BY <3>3 DEF Validate, Admission, Ask, CountRunning, CountRecent, Confirm, Start, EndTool,
                    Saving
      <4>2. run[w].ordinal = 1
        BY <4>1 DEF TypeInv
      <4>3. /\ pc'[w] = "file" => run'[w].ordinal = 1
            /\ pc'[w] = "report" => run'[w].outcome # "succeeded"
            /\ pc'[w] \notin {"artifact_id", "artifact", "save"} \cup Stored
        BY <3>3, <4>2, AdmissionWorks DEF Ends, Stored
      <4>. QED
        BY <4>3 DEF InFiles, InTable, Succeeds, Saving, Ordinal, Stored
    <3>4. CASE Pipeline(w)
      <4>0. /\ run'[w].job = run[w].job /\ run'[w].attempt = run[w].attempt
            /\ Busy(w) /\ run[w].ordinal \in Ordinal /\ Ordinal \subseteq Nat
            /\ run[w].job \in Job
            /\ Ordinal = 1..Candidates /\ Candidates \in Nat
        <5>1. Works(w)
          BY <3>4, PipelineWorks
        <5>2. run[w].ordinal \in Ordinal /\ run[w].job \in Job
          BY <5>1, HeldTyped DEF Works
        <5>. QED
          BY <5>1, <5>2, ExecutionAssumption DEF Works, RunKept, Ordinal
      <4>. USE DEF InFiles, InTable, Succeeds, Saving, Stored
      <4>1. CASE Ends(w, "failed")
        BY <4>1 DEF Ends
      <4>2. CASE pc[w] = "file" /\ pc'[w] = "artifact_id" /\ run'[w] = run[w]
                 /\ file' = [file EXCEPT ![<<run[w].job, run[w].ordinal>>] = run[w].attempt]
        <5>1. \A n \in Ordinal : n < run[w].ordinal => n # run[w].ordinal
          BY <4>0
        <5>2. file \in [Paths -> Nat] /\ \A n \in Ordinal : <<run[w].job, n>> \in Paths
          BY <4>0, OldTyped DEF EvidenceTyped, Paths
        <5>. QED
          BY <1>0, <2>a, <4>0, <4>2, <5>1, <5>2
      <4>3. CASE pc[w] = "artifact_id" /\ pc'[w] = "artifact" /\ run'[w].ordinal = run[w].ordinal
                 /\ file' = file
        BY <1>0, <2>a, <4>0, <4>3
      <4>4. CASE pc[w] = "artifact" /\ file' = file
                 /\ pc'[w] = "file" /\ run'[w].ordinal = run[w].ordinal + 1
        <5>1. \A n \in Ordinal : n < run'[w].ordinal => n < run[w].ordinal \/ n = run[w].ordinal
          BY <4>0, <4>4
        <5>. QED
          BY <1>0, <2>a, <4>0, <4>4, <5>1
      <4>5. CASE pc[w] = "artifact" /\ file' = file
                 /\ pc'[w] = "finding_id" /\ run[w].ordinal = Candidates
        <5>1. \A n \in Ordinal : n < run[w].ordinal \/ n = run[w].ordinal
          BY <4>0, <4>5
        <5>. QED
          BY <1>0, <2>a, <4>0, <4>5, <5>1
      <4>6. CASE pc[w] \in Stored /\ pc'[w] \in {"finding", "link", "report"} /\ file' = file
        BY <1>0, <2>a, <4>0, <4>6
      <4>. QED
        BY <3>4, PipelineWorks, <4>1, <4>2, <4>3, <4>4, <4>5, <4>6 DEF Ends, evidence
    <3>. QED
      BY <1>1, <3>1, <3>2, <3>3, <3>4, <3>5, <3>6 DEF Execute
  <2>. QED
    BY <2>3, <2>4
<1>2. ASSUME UNCHANGED <<pc, run, evidence>>, Disturbed \subseteq Disturbed' PROVE \A v \in Worker : Of(v)'
  <2>1. pc' = pc /\ run' = run /\ file' = file
    BY <1>2 DEF evidence
  <2>. QED
    BY <1>0, <1>2, <2>1 DEF Busy, InFiles, InTable, Succeeds, Saving, Stored
<1>3. ASSUME NEW s \in Saver, SaveRow(s)
      PROVE  UNCHANGED <<pc, run, evidence>> /\ Disturbed \subseteq Disturbed'
  BY <1>3, RowSaved DEF SaveRow, Disturbed
<1>4. (\E w \in Worker : Execute(w)) \/ (UNCHANGED <<pc, run, evidence>> /\ Disturbed \subseteq Disturbed')
  BY <1>3 DEF Next, ReadRow, SetSession, Age, vars, evidence, past, Disturbed
<1>. QED
  BY <1>1, <1>2, <1>4 DEF Filed

\* Whose row becomes a success: the worker that saves the end of its attempt, and
\* that has stored everything.
LEMMA SuccessIs ==
  ASSUME TypeInv, Distinct, Copied, [Next]_vars,
         NEW j \in Job, row'[j].status = "succeeded", row'[j] # row[j]
  PROVE  \E w \in Worker :
           /\ Execute(w) /\ SaveOutcome(w) /\ Busy(w) /\ Succeeds(w) /\ run[w].job = j
           /\ row'[j].attempt = run[w].attempt /\ UNCHANGED evidence
           /\ j \notin Disturbed' => Owns(w) /\ j \notin Disturbed
<1>1. ASSUME NEW w \in Worker, Execute(w) PROVE SaveOutcome(w)
  <2>1. ASSUME Claim(w) PROVE FALSE
    <3>1. PICK i \in Job : row'[i].status = "running" /\ \A k \in Job \ {i} : row'[k] = row[k]
      BY <2>1, ClaimIs
    <3>. QED
      BY <3>1
  <2>. QED
    BY <1>1, <2>1, WorkerStep DEF CheckCancel, Report, Works, rowVars
<1>2. ASSUME NEW s \in Saver, SaveRow(s) PROVE FALSE
  BY <1>2, RowSaved DEF PassCopy
<1>3. PICK w \in Worker : Execute(w)
  BY <1>2 DEF Next, ReadRow, SetSession, Age, vars, rowVars
<1>4. SaveOutcome(w)
  BY <1>1, <1>3
<1>5. /\ OwnCopy(w) /\ Busy(w) /\ run[w].job = j /\ row'[j] = copy[w].to
      /\ overwritten \subseteq overwritten'
      /\ j \notin overwritten' => row[j] = copy[w].from
  BY <1>4, OutcomeSaved
<1>6. Succeeds(w) /\ row'[j].attempt = run[w].attempt
  BY <1>4, <1>5 DEF OwnCopy, Succeeds, SaveOutcome
<1>7. UNCHANGED evidence /\ lapses' = lapses
  BY <1>4 DEF SaveOutcome
<1>8. j \notin Disturbed' => Owns(w) /\ j \notin Disturbed
  BY <1>5, <1>7 DEF Disturbed, Owns, OwnCopy
<1>. QED
  BY <1>3, <1>4, <1>5, <1>6, <1>7, <1>8

\* Success is recorded by a worker that has stored everything.
LEMMA SuccessStep ==
  ASSUME TypeInv, Distinct, Copied, Tabled, SuccessHasEvidence, [Next]_vars
  PROVE  SuccessHasEvidence'
<1>. DEFINE Has(j) == /\ <<j, row[j].attempt>> \in finding
                      /\ \A n \in Ordinal :
                           [job |-> j, ordinal |-> n, attempt |-> row[j].attempt] \in artifact \cap link
<1>1. /\ artifact \subseteq artifact' /\ finding \subseteq finding' /\ link \subseteq link'
  <2>1. (\E w \in Worker : Execute(w)) \/ UNCHANGED evidence
    BY DEF Next, ReadRow, SaveRow, SetSession, Age, vars
  <2>. QED
    BY <2>1, EvidenceStep DEF evidence
<1>2. ASSUME NEW j \in Job, row'[j].status = "succeeded" PROVE Has(j)'
  <2>1. CASE row'[j] = row[j]
    BY <1>1, <1>2, <2>1 DEF SuccessHasEvidence
  <2>2. CASE row'[j] # row[j]
    <3>1. PICK w \in Worker : Succeeds(w) /\ run[w].job = j /\ row'[j].attempt = run[w].attempt
      BY <1>2, <2>2, SuccessIs
    <3>2. \A n \in Ordinal : n \in InTable(w)
      BY <3>1 DEF InTable
    <3>. QED
      BY <1>1, <3>1, <3>2 DEF Tabled, RowOf
  <2>. QED
    BY <2>1, <2>2
<1>. QED
  BY <1>2 DEF SuccessHasEvidence

\* Nobody writes over the files of a success whose row nothing disturbed.
LEMMA FilesStep ==
  ASSUME TypeInv, Distinct, Copied, Parted, Filed, EvidenceMatchesFiles, [Next]_vars
  PROVE  EvidenceMatchesFiles'
<1>. DEFINE Fits(j) == \A n \in Ordinal : file[<<j, n>>] = row[j].attempt
<1>0. Disturbed \subseteq Disturbed'
  <2>1. ASSUME NEW w \in Worker, Execute(w) PROVE Disturbed \subseteq Disturbed'
    <3>1. ASSUME SaveOutcome(w) PROVE Disturbed \subseteq Disturbed'
      BY <3>1, OutcomeSaved DEF SaveOutcome, Disturbed
    <3>. QED
      BY <2>1, <3>1, WorkerStep DEF Claim, CheckCancel, Report, Works, past, Disturbed
  <2>2. ASSUME NEW s \in Saver, SaveRow(s) PROVE Disturbed \subseteq Disturbed'
    BY <2>2, RowSaved DEF SaveRow, Disturbed
  <2>. QED
    BY <2>1, <2>2 DEF Next, ReadRow, SetSession, Age, vars, past, Disturbed
<1>1. ASSUME NEW j \in Job, row'[j].status = "succeeded", j \notin Disturbed', row'[j] = row[j]
      PROVE  Fits(j)'
  <2>1. Fits(j) /\ j \notin Disturbed
    BY <1>0, <1>1 DEF EvidenceMatchesFiles, Disturbed
  <2>2. ASSUME NEW w \in Worker, Execute(w) PROVE \A n \in Ordinal : file'[<<j, n>>] = file[<<j, n>>]
    <3>1. ~(Busy(w) /\ run[w].job = j)
      BY <1>1, <2>1 DEF Parted, Owns
    <3>. QED
      BY <2>2, <3>1, FileStep DEF Paths
  <2>3. (\E w \in Worker : Execute(w)) \/ file' = file
    BY DEF Next, ReadRow, SaveRow, SetSession, Age, vars, evidence
  <2>. QED
    BY <1>1, <2>1, <2>2, <2>3
<1>2. ASSUME NEW j \in Job, row'[j].status = "succeeded", j \notin Disturbed', row'[j] # row[j]
      PROVE  Fits(j)'
  <2>1. PICK w \in Worker :
          /\ Busy(w) /\ Succeeds(w) /\ run[w].job = j /\ row'[j].attempt = run[w].attempt
          /\ UNCHANGED evidence /\ j \notin Disturbed
    BY <1>2, SuccessIs
  <2>2. \A n \in Ordinal : n \in InFiles(w)
    BY <2>1 DEF InFiles, InTable
  <2>. QED
    BY <2>1, <2>2 DEF Filed, evidence
<1>. QED
  BY <1>1, <1>2 DEF EvidenceMatchesFiles, Disturbed

-----------------------------------------------------------------------------
(* The limits.                                                             *)

\* A worker that passes the test of the rate limit found fewer events than the
\* limit, and every other worker can be ahead of it by one.
LEMMA RateStep == TypeInv /\ Distinct /\ Copied /\ RateInv /\ [Next]_vars => RateInv'
<1>. SUFFICES ASSUME TypeInv, Distinct, Copied, RateInv, [Next]_vars PROVE RateInv'
  OBVIOUS
<1>. USE OldTyped, ExecutionAssumption
<1>0. /\ Passed \subseteq Worker /\ Passed' \subseteq Worker
      /\ IsFiniteSet(Passed) /\ IsFiniteSet(Passed')
      /\ Cardinality(Passed) \in Nat /\ Cardinality(Passed') \in Nat
      /\ Cardinality(Worker) \in Nat
      /\ Cardinality(Passed') <= Cardinality(Worker)
  BY FS_Subset, FS_CardinalityType DEF Passed
<1>1. ASSUME NEW w \in Worker, Execute(w) PROVE RateInv'
  <2>0. \A v \in Worker \ {w} : pc'[v] = pc[v]
    BY <1>1, OtherWorkers
  <2>1. CASE CountRecent(w)
    <3>1. recent' = recent
      BY <2>1 DEF CountRecent
    <3>2. CASE HasRoom(recent, RateLimit)
      BY <1>0, <3>1, <3>2 DEF HasRoom, RateInv
    <3>3. CASE ~HasRoom(recent, RateLimit)
      <4>1. pc' = [pc EXCEPT ![w] = "report"]
        BY <2>1, <3>3 DEF CountRecent, Outcome, Goto
      <4>2. Passed' \subseteq Passed
        BY <4>1 DEF Passed
      <4>3. Cardinality(Passed') <= Cardinality(Passed)
        BY <1>0, <4>2, FS_Subset
      <4>. QED
        BY <1>0, <3>1, <4>3 DEF RateInv
    <3>. QED
      BY <3>2, <3>3
  <2>2. CASE Start(w)
    <3>1. recent' = recent + 1 /\ w \in Passed
      BY <2>2 DEF Start, Passed
    <3>2. pc' = [pc EXCEPT ![w] = "executing"]
      BY <2>2 DEF Start, Goto
    <3>3. Passed' = Passed \ {w}
      BY <3>2 DEF Passed
    <3>4. Cardinality(Passed') = Cardinality(Passed) - 1
      BY <1>0, <3>1, <3>3, FS_RemoveElement
    <3>. QED
      BY <1>0, <3>1, <3>4 DEF RateInv
  <2>3. CASE ~CountRecent(w) /\ ~Start(w)
    <3>1. recent' = recent /\ pc'[w] # "admitted"
      <4>1. CASE Claim(w) \/ CheckCancel(w) \/ Report(w) \/ SaveOutcome(w)
        BY <4>1 DEF Claim, CheckCancel, Report, SaveOutcome, Goto
      <4>2. CASE Validate(w) \/ Ask(w) \/ CountRunning(w) \/ Confirm(w) \/ EndTool(w)
        BY <4>2 DEF Validate, Ask, CountRunning, Confirm, EndTool, Outcome, Goto, AfterApproval
      <4>3. CASE Pipeline(w)
        <5>1. pc'[w] # "admitted"
          BY <4>3, PipelineWorks DEF Ends
        <5>2. recent' = recent
          BY <4>3 DEF Pipeline, WriteFile, AllocateArtifactId, AllocateFindingId, Allocate,
                      InsertArtifact, InsertFinding, LinkArtifact
        <5>. QED
          BY <5>1, <5>2
      <4>. QED
        BY <1>1, <2>3, <4>1, <4>2, <4>3 DEF Execute, Admission
    <3>2. Passed' \subseteq Passed
      BY <2>0, <3>1 DEF Passed
    <3>3. Cardinality(Passed') <= Cardinality(Passed)
      BY <1>0, <3>2, FS_Subset
    <3>. QED
      BY <1>0, <3>1, <3>3 DEF RateInv
  <2>. QED
    BY <2>1, <2>2, <2>3
<1>2. CASE pc' = pc /\ recent' \in {recent, recent - 1}
  <2>1. Passed' = Passed
    BY <1>2 DEF Passed
  <2>. QED
    BY <1>0, <1>2, <2>1 DEF RateInv
<1>. QED
  BY <1>1, <1>2 DEF Next, ReadRow, SaveRow, SetSession, Age, vars

\* The steady holders, other than the one that counts, have distinct jobs among
\* those it counts.
LEMMA HoldersCounted ==
  ASSUME TypeInv, Distinct, NEW w \in Worker, pc[w] = "count"
  PROVE  /\ Owns(w) => Cardinality(Steady) <= Cardinality(OthersRunning(w))
         /\ Cardinality(OthersRunning(w)) \in Nat
<1>1. IsFiniteSet(Steady) /\ IsFiniteSet(OthersRunning(w))
  BY FS_Subset, ExecutionAssumption DEF Steady, Holders, OthersRunning
<1>2. ASSUME Owns(w) PROVE Cardinality(Steady) <= Cardinality(OthersRunning(w))
  <2>. DEFINE f == [v \in Steady |-> run[v].job]
  <2>1. \A v \in Steady : v # w /\ v \in Worker /\ Busy(v) /\ Owns(v)
    BY DEF Steady, Holders, Admitted, Busy
  <2>2. Busy(w)
    BY DEF Busy
  <2>3. \A v \in Steady : run[v].job \in OthersRunning(w)
    BY <1>2, <2>1, <2>2, OneOwner DEF OthersRunning, Owns
  <2>4. \A u, v \in Steady : f[u] = f[v] => u = v
    BY <2>1, OneOwner
  <2>5. f \in Injection(Steady, OthersRunning(w))
    BY <2>3, <2>4 DEF Injection, IsInjective
  <2>. QED
    BY <1>1, <2>5, FS_Injection
<1>. QED
  BY <1>1, <1>2, FS_CardinalityType

\* Nobody becomes the holder of a steady row but by a claim, and it is then only
\* about to be looked at.
LEMMA SteadyShrinks ==
  ASSUME TypeInv, Distinct, Copied, [Next]_vars, NEW v \in Worker,
         v \in Steady', pc[v] # "count"
  PROVE  v \in Steady
<1>. USE OldTyped DEF Steady, Holders, Admitted
<1>1. ASSUME NEW w \in Worker, Execute(w)
      PROVE pc[v] \in Admitted /\ Owns(v) /\ run[v].job \notin overwritten
  <2>1. CASE Claim(w)
    <3>1. PICK j \in Job :
            /\ row'[j].attempt = issued[j] + 1
            /\ \A i \in Job \ {j} : row'[i] = row[i]
      BY <2>1, ClaimIs
    <3>2. v # w
      BY <2>1 DEF Claim, Goto
    <3>3. pc'[v] = pc[v] /\ run'[v] = run[v] /\ overwritten' = overwritten
      BY <2>1, <3>2, ClaimIs DEF Claim, Goto, past
    <3>4. Busy(v) /\ run[v].job \in Job /\ run[v].attempt \in 1..issued[run[v].job]
      BY <3>3, HeldTyped DEF Busy, Distinct
    <3>5. run[v].job # j
      BY <3>1, <3>3, <3>4 DEF Owns
    <3>. QED
      BY <3>1, <3>3, <3>4, <3>5 DEF Owns
  <2>2. CASE CheckCancel(w) \/ Report(w)
    <3>1. v # w
      BY <2>2, CheckIs, ReportIs DEF CheckCancel, Goto
    <3>2. pc'[v] = pc[v] /\ run'[v] = run[v]
      BY <1>1, <3>1, OtherWorkers
    <3>3. row' = row /\ overwritten' = overwritten
      BY <2>2 DEF CheckCancel, Report, past
    <3>. QED
      BY <3>2, <3>3 DEF Owns
  <2>3. CASE SaveOutcome(w)
    <3>1. v # w
      BY <2>3 DEF SaveOutcome, Goto
    <3>2. pc'[v] = pc[v] /\ run'[v] = run[v] /\ overwritten \subseteq overwritten'
      BY <1>1, <3>1, OtherWorkers
    <3>3. CASE run[v].job = run[w].job
      BY <2>3, <3>2, <3>3, OutcomeSaved DEF Owns, OwnCopy
    <3>4. CASE run[v].job # run[w].job
      BY <2>3, <3>2, <3>4, OutcomeSaved DEF Owns
    <3>. QED
      BY <3>3, <3>4
  <2>4. CASE Works(w)
    <3>1. Owns(v) /\ run[v].job \notin overwritten
      BY <2>4 DEF Works, RunKept, Owns, rowVars, past
    <3>2. CASE v # w
      BY <2>4, <3>1, <3>2 DEF Works
    <3>3. CASE v = w
      <4>1. CASE Validate(w) \/ Ask(w) \/ Confirm(w) \/ EndTool(w)
        BY <4>1, <3>3 DEF Validate, Ask, Confirm, EndTool, Outcome, Goto, AfterApproval
      <4>2. CASE CountRunning(w)
        BY <4>2, <3>3 DEF CountRunning
      <4>3. CASE CountRecent(w) \/ Start(w)
        BY <4>3, <3>1, <3>3 DEF CountRecent, Start
      <4>4. CASE Pipeline(w)
        BY <4>4, <3>3, PipelineWorks DEF Ends
      <4>5. CASE Claim(w) \/ CheckCancel(w) \/ Report(w) \/ SaveOutcome(w)
        BY <4>5, <3>3 DEF Claim, CheckCancel, Report, SaveOutcome, Goto
      <4>. QED
        BY <1>1, <4>1, <4>2, <4>3, <4>4, <4>5 DEF Execute, Admission
    <3>. QED
      BY <3>2, <3>3
  <2>. QED
    BY <1>1, <2>1, <2>2, <2>3, <2>4, WorkerStep
<1>2. ASSUME NEW s \in Saver, SaveRow(s)
      PROVE pc[v] \in Admitted /\ Owns(v) /\ run[v].job \notin overwritten
  <2>1. pc' = pc /\ run' = run /\ overwritten \subseteq overwritten'
    BY <1>2, RowSaved DEF SaveRow
  <2>2. CASE run[v].job = copy[s].job
    BY <1>2, <2>1, <2>2, RowSaved DEF Owns, PassCopy
  <2>3. CASE run[v].job # copy[s].job
    BY <1>2, <2>1, <2>3, RowSaved DEF Owns
  <2>. QED
    BY <2>1, <2>2, <2>3
<1>3. CASE UNCHANGED <<row, pc, run, overwritten>>
  BY <1>3 DEF Owns
<1>. QED
  BY <1>1, <1>2, <1>3 DEF Next, ReadRow, SetSession, Age, vars, rowVars, past

\* A worker passes the concurrency check when the holders past it, each of which it
\* counted, are fewer than the limit.
LEMMA ConcurrencyStep ==
  ASSUME TypeInv, Distinct, Copied, SteadyInv, [Next]_vars PROVE SteadyInv'
<1>. USE ExecutionAssumption
<1>0. /\ IsFiniteSet(Steady) /\ Cardinality(Steady) \in Nat
      /\ IsFiniteSet(Steady') /\ Cardinality(Steady') \in Nat
      /\ Cardinality(Steady) <= MaxConcurrency
  BY FS_Subset, FS_CardinalityType DEF Steady, Holders, SteadyInv
<1>1. CASE \E w \in Worker : CountRunning(w) /\ w \in Steady'
  <2>1. PICK w \in Worker : CountRunning(w) /\ w \in Steady'
    BY <1>1
  <2>2. /\ pc[w] = "count" /\ pc'[w] # "report" /\ Owns(w)
        /\ \A v \in Worker \ {w} : pc'[v] = pc[v]
    BY <2>1, AdmissionWorks
    DEF CountRunning, Steady, Holders, Admitted, Works, RunKept, Owns, Admission, rowVars
  <2>3. Cardinality(OthersRunning(w)) < MaxConcurrency
    BY <2>1, <2>2, OldTyped DEF CountRunning, HasRoom, Outcome, Goto
  <2>4. Cardinality(Steady) <= Cardinality(OthersRunning(w)) /\ Cardinality(OthersRunning(w)) \in Nat
    BY <2>2, HoldersCounted
  <2>5. Steady' \subseteq Steady \cup {w}
    BY <2>2, SteadyShrinks DEF Steady, Holders, Admitted
  <2>6. Cardinality(Steady \cup {w}) <= Cardinality(Steady) + 1 /\ IsFiniteSet(Steady \cup {w})
        /\ Cardinality(Steady \cup {w}) \in Nat
    <3>1. /\ IsFiniteSet(Steady \cup {w})
          /\ Cardinality(Steady \cup {w}) = IF w \in Steady THEN Cardinality(Steady)
                                                           ELSE Cardinality(Steady) + 1
      BY <1>0, FS_AddElement
    <3>. QED
      BY <1>0, <3>1
  <2>7. Cardinality(Steady') <= Cardinality(Steady \cup {w})
    BY <2>5, <2>6, FS_Subset
  <2>. QED
    BY <1>0, <2>3, <2>4, <2>6, <2>7 DEF SteadyInv
<1>2. CASE ~ \E w \in Worker : CountRunning(w) /\ w \in Steady'
  <2>1. ASSUME NEW v \in Worker, v \in Steady' PROVE pc[v] # "count"
    <3>1. ASSUME NEW w \in Worker, Execute(w), pc[v] = "count" PROVE FALSE
      <4>1. CASE v = w
        BY <1>2, <2>1, <3>1, <4>1 DEF Execute, Admission, Claim, CheckCancel, Validate, Ask,
           CountRecent, Confirm, Start, EndTool, Pipeline, WriteFile, AllocateArtifactId,
           AllocateFindingId, Allocate, InsertArtifact, InsertFinding, LinkArtifact, Report,
           SaveOutcome
      <4>2. CASE v # w
        BY <2>1, <3>1, <4>2, OtherWorkers DEF Steady, Holders, Admitted
      <4>. QED
        BY <4>1, <4>2
    <3>2. CASE pc' = pc
      BY <2>1, <3>2 DEF Steady, Holders, Admitted
    <3>. QED
      BY <3>1, <3>2 DEF Next, ReadRow, SaveRow, SetSession, Age, vars
  <2>2. Steady' \subseteq Steady
    BY <2>1, SteadyShrinks DEF Steady, Holders
  <2>3. Cardinality(Steady') <= Cardinality(Steady)
    BY <1>0, <2>2, FS_Subset
  <2>. QED
    BY <1>0, <2>3 DEF SteadyInv
<1>. QED
  BY <1>1, <1>2

\* The holders that are not steady have distinct jobs, whose rows a copy out of date
\* was saved to.
LEMMA HoldersBounded ==
  ASSUME TypeInv, Distinct, SteadyInv PROVE ConcurrencyKept
<1>. DEFINE Shaken == Holders \ Steady
            Jobs   == {run[w].job : w \in Holders} \cap overwritten
            f      == [w \in Shaken |-> run[w].job]
<1>1. /\ IsFiniteSet(Holders) /\ IsFiniteSet(Steady) /\ IsFiniteSet(Shaken) /\ IsFiniteSet(Jobs)
      /\ Steady \subseteq Holders
  <2>1. Holders \subseteq Worker /\ Steady \subseteq Holders /\ Shaken \subseteq Holders /\ Jobs \subseteq Job
    BY DEF Holders, Steady, TypeInv, TypeOK
  <2>. QED
    BY <2>1, FS_Subset, ExecutionAssumption
<1>2. f \in Injection(Shaken, Jobs)
  <2>1. \A w \in Shaken : run[w].job \in Jobs
    BY DEF Holders, Steady
  <2>2. \A u, v \in Shaken : f[u] = f[v] => u = v
    BY OneOwner DEF Holders, Admitted, Busy
  <2>. QED
    BY <2>1, <2>2 DEF Injection, IsInjective
<1>. HIDE DEF f
<1>3. Cardinality(Shaken) <= Cardinality(Jobs)
  BY <1>1, <1>2, FS_Injection
<1>4. Cardinality(Holders) = Cardinality(Steady) + Cardinality(Shaken)
  <2>1. Holders \cap Steady = Steady
    BY <1>1
  <2>2. Cardinality(Shaken) = Cardinality(Holders) - Cardinality(Holders \cap Steady)
    BY <1>1, FS_Difference
  <2>3. Cardinality(Holders) \in Nat /\ Cardinality(Steady) \in Nat
    BY <1>1, FS_CardinalityType
  <2>4. Cardinality(Shaken) = Cardinality(Holders) - Cardinality(Steady)
    BY <2>1, <2>2
  <2>. HIDE DEF Shaken
  <2>. QED
    BY <2>3, <2>4
<1>5. /\ Cardinality(Steady) \in Nat /\ Cardinality(Shaken) \in Nat /\ Cardinality(Jobs) \in Nat
  BY <1>1, FS_CardinalityType
<1>. QED
  BY <1>3, <1>4, <1>5, ExecutionAssumption DEF SteadyInv, ConcurrencyKept

-----------------------------------------------------------------------------
(* The theorems.                                                           *)

\* Every step keeps the invariant.
LEMMA InvStep == IInv /\ [Next]_vars => IInv'
  BY TypeStep, DistinctStep, CopiedStep, PartedStep, AwakeStep, TabledStep, FiledStep,
     SuccessStep, FilesStep, RateStep, ConcurrencyStep DEF IInv

\* The invariant holds in every reachable state.
THEOREM Invariance == Spec => []IInv
  BY InitInv, InvStep, PTL DEF Spec

\* Every variable holds what the tables and the workers can hold
\* (storage/repositories/jobs.py, security/admission.py): the types.
THEOREM ExecutionTyped == Spec => []TypeOK
<1>1. IInv => TypeOK
  BY DEF IInv, TypeInv
<1>. QED
  BY <1>1, Invariance, PTL

\* admission.py:78 and :91: the workers past the concurrency check that hold a
\* lease are never more than max_concurrency, and one for each job whose row was
\* saved from a copy out of date; a minute holds at most one start beyond the rate
\* limit for every other worker, though each check is a read of its own.
THEOREM LimitsHold == Spec => []LimitsKept
<1>1. IInv => LimitsKept
  <2>1. ASSUME IInv PROVE RateOvershootBounded
    <3>1. Passed \subseteq Worker
      BY DEF Passed
    <3>2. Cardinality(Passed) \in Nat /\ Cardinality(Worker) \in Nat
      BY <3>1, FS_Subset, FS_CardinalityType, ExecutionAssumption
    <3>3. recent \in Nat /\ RateInv
      BY <2>1 DEF IInv, TypeInv, TypeOK
    <3>. QED
      BY <3>2, <3>3, ExecutionAssumption DEF RateInv, RateOvershootBounded
  <2>2. ASSUME IInv PROVE ConcurrencyKept
    BY <2>2, HoldersBounded DEF IInv, SteadyInv
  <2>. QED
    BY <2>1, <2>2 DEF LimitsKept
<1>. QED
  BY <1>1, Invariance, PTL

\* scoped_execution_service.py:81: an operation never starts in a session that
\* has not been active at any moment since the operator approved it.
THEOREM ApprovalRechecked == Spec => []ApprovalIsRechecked
<1>1. IInv => ApprovalIsRechecked
  BY DEF IInv, Awake, ApprovalIsRechecked
<1>. QED
  BY <1>1, Invariance, PTL

\* evidence_pipeline_service.py:57 and :127: a job recorded as succeeded has all
\* the evidence of the attempt it was recorded for, and unless a lease lapsed or a
\* copy out of date was saved over its row, its files are the ones the artifacts
\* are hashes of.
THEOREM EvidenceHolds == Spec => []EvidenceKept
<1>1. IInv => EvidenceKept
  BY DEF IInv, EvidenceKept
<1>. QED
  BY <1>1, Invariance, PTL

-----------------------------------------------------------------------------
(* The reports.                                                            *)

-----------------------------------------------------------------------------
(* The inductive invariant.                                                *)

Kinds     == Flow \cup {"findings", "artifact_index"}
ReportRec == [id : Nat, kind : Kinds, flow : BOOLEAN, before : SUBSET Nat, tally : Nat,
              named : SUBSET Nat, artifacts : SUBSET Nat, linked : BOOLEAN]
WorkRec   == [pc : {"idle", "reading", "begun", "inserted", "written"}, kinds : Seq(Kinds),
              flow : BOOLEAN, read : Nat, before : SUBSET Nat, tally : Nat, artifacts : SUBSET Nat,
              findings : SUBSET Nat, named : SUBSET Nat, linked : BOOLEAN, id : Nat]

Typed ==
  /\ {artifactCount, findingCount, begun} \subseteq Nat
  /\ reports \in Seq(ReportRec) /\ work \in [Client -> WorkRec]
  /\ writer \in Client \cup {Nobody}

\* A client has an id, and no report has it yet.
Numbered(c) == work[c].pc \in {"begun", "inserted", "written"}

\* A client is inside a transaction that writes.
Writes(c) == work[c].pc \in {"inserted", "written"}

Making ==
  /\ \A c \in Client : Writes(c) <=> writer = c
  /\ \A n \in DOMAIN reports : reports[n].id <= begun
  /\ \A c \in Client : Numbered(c) =>
       work[c].id <= begun /\ \A n \in DOMAIN reports : reports[n].id # work[c].id
  /\ \A c, d \in Client : c # d /\ Numbered(c) /\ Numbered(d) => work[c].id # work[d].id
  /\ \A c \in Client : work[c].pc = "written" => work[c].id \in output

\* What a client has seen is not what somebody is about to make.
Seen ==
  \A c \in Client :
    /\ \A id \in work[c].before : id <= begun
    /\ \A d \in Client : Numbered(d) => work[d].id \notin work[c].before

\* As many artifacts as are counted.
Enough(kind, artifacts, tally) ==
  /\ IsFiniteSet(artifacts)
  /\ Cardinality(artifacts) >= IF kind = "operator_report" THEN Min({tally, Recent}) ELSE tally

\* How far a client is with its lists.
Drafted(w) ==
  /\ w.kinds # <<>> /\ w.read <= Len(PlanOf(w))
  /\ w.flow => Len(w.kinds) = 1 /\ Head(w.kinds) \in Flow
  /\ w.pc # "reading" => AllRead(w) /\ (w.artifacts # {} => w.linked)
  /\ w.tally <= artifactCount /\ IsFiniteSet(w.artifacts)
  /\ w.flow /\ Head(w.kinds) = "session_summary" =>
       /\ w.read < 2 => w.named = {}
       /\ w.named \subseteq IF w.read < 3 THEN 1..artifactCount ELSE w.artifacts
       /\ w.read >= 3 => Enough("session_summary", w.artifacts, w.tally)
  /\ w.flow /\ Head(w.kinds) = "operator_report" =>
       /\ w.named = {}
       /\ w.read = 3 => Enough("operator_report", w.artifacts, w.tally)
  /\ ~w.flow \/ Head(w.kinds) = "findings_summary" =>
       /\ w.tally = 0 /\ w.named \subseteq w.artifacts
       /\ w.read < 3 => w.named = {}

\* A report that a client has seen is not of the kind it makes.
Looked(w) ==
  w.flow => \A n \in DOMAIN reports : reports[n].id \in w.before => reports[n].kind # Head(w.kinds)

\* The text of a report is about what it links.
Whole(r) == r.named \subseteq r.artifacts /\ Enough(r.kind, r.artifacts, r.tally)

ReportsInv ==
  /\ Typed /\ Making /\ Seen /\ NothingPartial /\ RemadeOnlyByRace
  /\ \A c \in Client : work[c].pc # "idle" => Drafted(work[c]) /\ Looked(work[c])
  /\ \A n \in DOMAIN reports :
       /\ reports[n].artifacts # {} => reports[n].linked
       /\ reports[n].id \notin dropped => Whole(reports[n])

-----------------------------------------------------------------------------
(* Lists that are cut.                                                     *)

\* The lesser of two numbers is no more than each.
LEMMA LesserOf ==
  ASSUME NEW a \in Nat, NEW b \in Nat
  PROVE  Min({a, b}) \in Nat /\ Min({a, b}) <= a /\ Min({a, b}) <= b
<1>1. \E x \in {a, b} : \A y \in {a, b} : x <= y
  OBVIOUS
<1>. QED BY <1>1 DEF Min

\* A list that is cut to its latest has as many as were counted before, or as
\* many as the cut leaves.
LEMMA CutEnough ==
  ASSUME NEW n \in Nat, NEW t \in Nat, t <= n
  PROVE  /\ Enough("operator_report", Latest(n), t) /\ Latest(n) \subseteq Nat
         /\ Latest(n) \subseteq 1..n /\ IsFiniteSet(Latest(n))
         /\ Enough("session_summary", 1..n, t) /\ 1..n \subseteq Nat /\ IsFiniteSet(1..n)
<1>0. Recent \in Nat \ {0}
  BY ReportsAssumption
<1>1. IsFiniteSet(1..n) /\ Cardinality(1..n) = n
  BY FS_Interval
<1>2. Latest(n) \subseteq 1..n /\ IsFiniteSet(Latest(n))
  BY <1>1, FS_Subset DEF Latest
<1>3. Cardinality(Latest(n)) >= Min({t, Recent})
  <2>1. Min({t, Recent}) \in Nat /\ Min({t, Recent}) <= t /\ Min({t, Recent}) <= Recent
    BY <1>0, LesserOf
  <2>2. CASE n <= Recent
    <3>1. Latest(n) = 1..n
      BY <1>0, <2>2 DEF Latest
    <3>. QED BY <1>1, <2>1, <3>1
  <2>3. CASE n > Recent
    <3>1. Latest(n) = (n - Recent + 1)..n
      BY <1>0, <2>3 DEF Latest
    <3>2. Cardinality((n - Recent + 1)..n) = Recent
      <4>1. n - Recent + 1 \in Int /\ n \in Int /\ ~(n - Recent + 1 > n)
        BY <1>0, <2>3
      <4>2. n - (n - Recent + 1) + 1 = Recent
        BY <1>0, <2>3
      <4>. QED BY <4>1, <4>2, FS_Interval
    <3>. QED BY <1>0, <2>1, <3>1, <3>2
  <2>. QED BY <1>0, <2>2, <2>3
<1>. QED BY <1>1, <1>2, <1>3 DEF Enough

-----------------------------------------------------------------------------
(* What each step keeps.                                                   *)

Others(c) == \A d \in Client : d # c => work'[d] = work[d]

\* The text so far is the same.
SameDraft(v, w) ==
  /\ v.kinds = w.kinds /\ v.flow = w.flow /\ v.read = w.read /\ v.before = w.before
  /\ v.tally = w.tally /\ v.artifacts = w.artifacts /\ v.named = w.named

\* A draft stays one as long as nothing that was read is taken away.
LEMMA DraftStays ==
  ASSUME NEW v \in WorkRec, NEW w \in WorkRec, Drafted(w), SameDraft(v, w),
         v.pc # "reading" => AllRead(w) /\ (v.artifacts # {} => v.linked),
         artifactCount \in Nat, artifactCount' \in Nat, artifactCount <= artifactCount'
  PROVE  v.kinds # <<>> /\ PlanOf(v) = PlanOf(w) /\ (AllRead(v) <=> AllRead(w)) /\ Drafted(v)
BY DEF Drafted, SameDraft, PlanOf, AllRead

\* Types of the parts, for the steps that follow.
LEMMA Parts ==
  ASSUME ReportsInv
  PROVE  /\ artifactCount \in Nat /\ findingCount \in Nat /\ begun \in Nat
         /\ reports \in Seq(ReportRec) /\ Len(reports) \in Nat
         /\ DOMAIN reports = 1..Len(reports)
         /\ \A n \in DOMAIN reports : reports[n] \in ReportRec /\ reports[n].id \in Nat
         /\ work \in [Client -> WorkRec]
         /\ \A c \in Client : work[c] \in WorkRec /\ work[c].id \in Nat
              /\ work[c].before \subseteq Nat
<1>1. /\ artifactCount \in Nat /\ findingCount \in Nat /\ begun \in Nat
      /\ reports \in Seq(ReportRec) /\ work \in [Client -> WorkRec]
  BY DEF ReportsInv, Typed
<1>2. Len(reports) \in Nat /\ DOMAIN reports = 1..Len(reports)
  BY <1>1
<1>3. \A n \in DOMAIN reports : reports[n] \in ReportRec
  BY <1>1, <1>2, ElementOfSeq
<1>. QED BY <1>1, <1>2, <1>3 DEF ReportRec, WorkRec

\* A client that does nothing.
LEMMA FreeIs == Free \in WorkRec /\ Free.pc = "idle" /\ Free.before = {}
<1>1. <<>> \in Seq(Kinds)
  OBVIOUS
<1>. QED BY <1>1 DEF Free, WorkRec

\* What clients have seen stays apart from what they make.
LEMMA SeenStays ==
  ASSUME ReportsInv, begun' \in Nat, begun <= begun',
         \A c \in Client : work'[c].before \in {work[c].before, {}, Ids},
         \A d \in Client : Numbered(d)' =>
           work'[d].id > begun \/ (Numbered(d) /\ work'[d].id = work[d].id)
  PROVE  Seen'
<1>. SUFFICES ASSUME NEW c \in Client
              PROVE  /\ \A id \in work'[c].before : id <= begun'
                     /\ \A d \in Client : Numbered(d)' => work'[d].id \notin work'[c].before
  BY DEF Seen
<1>1. \A id \in work'[c].before :
        id \in Nat /\ id <= begun /\ \A d \in Client : Numbered(d) => id # work[d].id
  <2>1. CASE work'[c].before = work[c].before
    BY <2>1, Parts DEF ReportsInv, Seen
  <2>2. CASE work'[c].before = Ids
    <3>1. \A n \in DOMAIN reports :
            /\ reports[n].id \in Nat /\ reports[n].id <= begun
            /\ \A d \in Client : Numbered(d) => reports[n].id # work[d].id
      BY Parts DEF ReportsInv, Making
    <3>. QED BY <2>2, <3>1 DEF Ids
  <2>. QED BY <2>1, <2>2
<1>2. begun \in Nat
  BY Parts
<1>. QED BY <1>1, <1>2

\* What workers store takes nothing away from a draft.
LEMMA StoringKeeps ==
  ASSUME ReportsInv, StoreArtifact \/ StoreFinding \/ LinkFinding
  PROVE  ReportsInv'
<1>1. /\ UNCHANGED <<reports, output, begun, writer, died, dropped, work>>
      /\ artifactCount' \in Nat /\ findingCount' \in Nat /\ artifactCount <= artifactCount'
  BY Parts DEF StoreArtifact, StoreFinding, LinkFinding, Saves
<1>2. Typed' /\ Making'
  BY <1>1 DEF ReportsInv, Typed, Making, Writes, Numbered
<1>5. Seen'
  BY <1>1 DEF ReportsInv, Seen, Numbered
<1>3. NothingPartial' /\ RemadeOnlyByRace'
  BY <1>1 DEF ReportsInv, NothingPartial, RemadeOnlyByRace
<1>4. ASSUME NEW c \in Client, work'[c].pc # "idle" PROVE Drafted(work[c])' /\ Looked(work[c])'
  <2>1. Drafted(work[c]) /\ Looked(work[c]) /\ work[c].tally \in Nat /\ artifactCount \in Nat
    BY <1>1, <1>4, Parts DEF ReportsInv, WorkRec
  <2>2. 1..artifactCount \subseteq 1..artifactCount'
    BY <1>1, <2>1
  <2>3. Drafted(work[c])'
    BY <1>1, <2>1, <2>2 DEF Drafted, AllRead, PlanOf
  <2>. QED BY <1>1, <2>1, <2>3 DEF Looked
<1>. QED BY <1>1, <1>2, <1>3, <1>4, <1>5 DEF ReportsInv, Whole, Enough

\* A step of one client that makes nothing.
LEMMA QuietStep ==
  ASSUME ReportsInv, NEW c \in Client, Others(c), work' \in [Client -> WorkRec],
         UNCHANGED <<records, reports, output, writer, died, dropped>>,
         begun' \in Nat, begun <= begun', ~Writes(c), ~Numbered(c)',
         work'[c].before \in {work[c].before, {}, Ids},
         work'[c].pc # "idle" => Drafted(work'[c]) /\ Looked(work'[c])
  PROVE  ReportsInv'
<1>1. Typed' /\ RemadeOnlyByRace' /\ UNCHANGED <<artifactCount, reports>>
  BY DEF ReportsInv, Typed, RemadeOnlyByRace, records
<1>2. Making'
  <2>1. \A d \in Client : Writes(d)' <=> Writes(d)
    BY DEF ReportsInv, Making, Writes, Numbered, Others
  <2>2. \A d \in Client : Numbered(d)' => Numbered(d) /\ work'[d] = work[d] /\ work[d].id \in Nat
    BY Parts DEF Numbered, Others
  <2>3. /\ begun \in Nat /\ \A n \in DOMAIN reports : reports[n].id \in Nat
    BY Parts
  <2>4. \A d \in Client : work'[d].pc = "written" => Writes(d) /\ work'[d] = work[d]
    BY DEF Writes, Numbered, Others
  <2>. QED BY <2>1, <2>2, <2>3, <2>4 DEF ReportsInv, Making, Writes
<1>5. Seen'
  <2>1. \A d \in Client : Numbered(d)' => Numbered(d) /\ work'[d] = work[d]
    BY DEF Numbered, Others
  <2>2. \A d \in Client : work'[d].before \in {work[d].before, {}, Ids}
    BY DEF Others
  <2>. QED BY <2>1, <2>2, SeenStays
<1>3. NothingPartial'
  BY DEF ReportsInv, Making, NothingPartial, Others
<1>4. ASSUME NEW d \in Client, work'[d].pc # "idle" PROVE Drafted(work[d])' /\ Looked(work[d])'
  <2>1. Drafted(work'[d]) /\ Looked(work'[d])
    BY <1>4 DEF ReportsInv, Others
  <2>. QED BY <1>1, <2>1 DEF Drafted, Looked, AllRead, PlanOf
<1>. QED BY <1>1, <1>2, <1>3, <1>4, <1>5 DEF ReportsInv, Whole, Enough

\* Who gives up is free, and what was made is gone or remembered.
LEMMA GivingUp ==
  ASSUME ReportsInv, NEW c \in Client, Writes(c), work' = [work EXCEPT ![c] = Free],
         writer' = Nobody, UNCHANGED <<records, reports, begun, dropped>>,
         \/ output' = output \ {work[c].id} /\ died' = died
         \/ output' = output /\ died' = died \cup {work[c].id}
  PROVE  ReportsInv'
<1>1. Free \in WorkRec /\ Free.pc = "idle" /\ Free.before = {}
  BY FreeIs
<1>2. /\ Others(c) /\ work' \in [Client -> WorkRec]
      /\ work'[c].pc = "idle" /\ work'[c].before = {}
  BY <1>1, Parts DEF Others
<1>3. /\ UNCHANGED <<artifactCount, findingCount, links, reports>>
      /\ writer = c /\ Numbered(c) /\ \A d \in Client : Writes(d) => d = c
  BY DEF ReportsInv, Making, records, Numbered, Writes
<1>4. Typed' /\ RemadeOnlyByRace'
  BY <1>2, <1>3 DEF ReportsInv, Typed, RemadeOnlyByRace
<1>5. /\ \A n \in DOMAIN reports : reports[n].id # work[c].id
      /\ \A d \in Client : d # c /\ Numbered(d) => work[d].id # work[c].id
  BY <1>3 DEF ReportsInv, Making
<1>6. Making'
  <2>1. \A d \in Client : Writes(d)' <=> writer' = d
    BY <1>2, <1>3, ReportsAssumption DEF Writes, Others
  <2>2. \A d \in Client : d # c => work'[d] = work[d]
    BY <1>2 DEF Others
  <2>3. \A d \in Client : work'[d].pc = "written" => work'[d].id \in output'
    BY <1>2, <1>3, <2>2 DEF Writes
  <2>. QED BY <1>2, <1>3, <2>1, <2>2, <2>3 DEF ReportsInv, Making, Numbered
<1>9. Seen'
  <2>1. \A d \in Client : Numbered(d)' => Numbered(d) /\ work'[d] = work[d]
    BY <1>2 DEF Numbered, Others
  <2>2. \A d \in Client : work'[d].before \in {work[d].before, {}, Ids}
    BY <1>2 DEF Others
  <2>. QED BY <2>1, <2>2, SeenStays, Parts
<1>7. NothingPartial'
  <2>1. \A n \in DOMAIN reports : reports[n].id \in output'
    BY <1>5 DEF ReportsInv, NothingPartial
  <2>2. \A id \in output' : \/ \E n \in DOMAIN reports : reports[n].id = id
                            \/ id \in (died \cup dropped)'
    BY <1>3 DEF ReportsInv, NothingPartial
  <2>. QED BY <1>3, <2>1, <2>2 DEF NothingPartial
<1>8. ASSUME NEW d \in Client, work'[d].pc # "idle" PROVE Drafted(work[d])' /\ Looked(work[d])'
  <2>1. d # c /\ work'[d] = work[d]
    BY <1>2, <1>8 DEF Others
  <2>2. Drafted(work[d]) /\ Looked(work[d])
    BY <1>8, <2>1 DEF ReportsInv
  <2>. QED BY <1>3, <2>1, <2>2 DEF Drafted, Looked, AllRead, PlanOf
<1>. QED BY <1>3, <1>4, <1>6, <1>7, <1>8, <1>9 DEF ReportsInv, Whole, Enough

\* Whoever asks has read nothing yet, and has seen every report there is.
LEMMA AskingKeeps ==
  ASSUME ReportsInv, NEW c \in Client, Export(c) \/ \E kind \in Flow : AskFor(c, kind)
  PROVE  ReportsInv'
<1>0. {"session_summary", "findings", "artifact_index"} \subseteq Kinds /\ Flow \subseteq Kinds
  BY DEF Kinds, Flow
<1>1. PICK kinds \in Seq(Kinds), flow \in BOOLEAN :
        /\ work' = [work EXCEPT ![c] = Reading(kinds, flow)] /\ kinds # <<>>
        /\ flow => \E kind \in Flow : kinds = <<kind>> /\ Reusable(kind) = {}
  <2>1. Exported \in Seq(Kinds) /\ Exported # <<>>
    BY <1>0 DEF Exported
  <2>2. \A kind \in Flow : <<kind>> \in Seq(Kinds) /\ <<kind>> # <<>>
    BY <1>0
  <2>3. CASE Export(c)
    BY <2>1, <2>3 DEF Export
  <2>4. ASSUME NEW kind \in Flow, AskFor(c, kind)
        PROVE  \E kinds \in Seq(Kinds), flow \in BOOLEAN :
                 /\ work' = [work EXCEPT ![c] = Reading(kinds, flow)] /\ kinds # <<>>
                 /\ flow => \E k \in Flow : kinds = <<k>> /\ Reusable(k) = {}
    <3>1. work' = [work EXCEPT ![c] = Reading(<<kind>>, TRUE)] /\ Reusable(kind) = {}
      BY <2>4 DEF AskFor
    <3>. QED BY <2>2, <3>1
  <2>. QED BY <2>3, <2>4
<1>2. work[c] = Free /\ UNCHANGED <<records, reports, output, begun, writer, died, dropped>>
  BY DEF Export, AskFor, MakesNothing, Stays
<1>. DEFINE w == Reading(kinds, flow)
<1>3. /\ w \in WorkRec /\ w.pc = "reading" /\ w.kinds = kinds /\ w.flow = flow
      /\ w.before = Ids /\ w.read = 0 /\ w.tally = 0 /\ w.named = {} /\ w.artifacts = {}
  <2>1. Ids \subseteq Nat
    BY Parts DEF Ids
  <2>. QED BY <2>1 DEF Free, Reading, WorkRec
<1>4. work[c].pc = "idle" /\ work'[c] = w /\ Others(c) /\ work' \in [Client -> WorkRec]
  BY <1>1, <1>2, <1>3, Parts DEF Free, Others
<1>. HIDE DEF w
<1>5. flow => /\ Len(kinds) = 1 /\ Head(kinds) \in Flow /\ Reusable(Head(kinds)) = {}
  BY <1>1
<1>6. Drafted(w)
  <2>1. 0 <= Len(PlanOf(w))
    BY <1>3, <1>5 DEF PlanOf, Plan, Flow, ExportPlan
  <2>2. IsFiniteSet({})
    BY FS_EmptySet
  <2>. QED BY <1>1, <1>3, <1>5, <2>1, <2>2, Parts DEF Drafted
<1>7. Looked(w)
  BY <1>3, <1>5 DEF Looked, Reusable
<1>8. ~Writes(c) /\ ~Numbered(c)'
  BY <1>3, <1>4 DEF Writes, Numbered
<1>. QED BY <1>2, <1>3, <1>4, <1>6, <1>7, <1>8, Parts, QuietStep

\* How many lists there are, and which comes when.
LEMMA Plans ==
  ASSUME NEW w \in WorkRec, w.flow => Head(w.kinds) \in Flow
  PROVE  /\ Len(PlanOf(w)) = IF w.flow /\ Head(w.kinds) = "session_summary" THEN 4 ELSE 3
         /\ w.flow /\ Head(w.kinds) = "session_summary" =>
              /\ PlanOf(w)[1] = "count" /\ PlanOf(w)[2] = "recent"
              /\ PlanOf(w)[3] = "artifacts" /\ PlanOf(w)[4] = "findings"
         /\ w.flow /\ Head(w.kinds) = "operator_report" =>
              /\ PlanOf(w)[1] = "count" /\ PlanOf(w)[2] = "findings" /\ PlanOf(w)[3] = "artifacts"
         /\ w.flow /\ Head(w.kinds) = "findings_summary" =>
              /\ PlanOf(w)[1] = "findings" /\ PlanOf(w)[2] = "artifacts" /\ PlanOf(w)[3] = "links"
         /\ ~w.flow =>
              /\ PlanOf(w)[1] = "artifacts" /\ PlanOf(w)[2] = "findings" /\ PlanOf(w)[3] = "links"
<1>1. CASE ~w.flow
  BY <1>1 DEF PlanOf, ExportPlan
<1>2. CASE w.flow /\ Head(w.kinds) = "session_summary"
  <2>1. PlanOf(w) = <<"count", "recent", "artifacts", "findings">>
    BY <1>2 DEF PlanOf, Plan
  <2>. QED BY <1>2, <2>1
<1>3. CASE w.flow /\ Head(w.kinds) = "findings_summary"
  <2>1. PlanOf(w) = <<"findings", "artifacts", "links">>
    BY <1>3 DEF PlanOf, Plan
  <2>. QED BY <1>3, <2>1
<1>4. CASE w.flow /\ Head(w.kinds) = "operator_report"
  <2>1. PlanOf(w) = <<"count", "findings", "artifacts">>
    BY <1>4 DEF PlanOf, Plan
  <2>. QED BY <1>4, <2>1
<1>. QED BY <1>1, <1>2, <1>3, <1>4 DEF Flow

\* What was counted or named was there when what is linked was listed.
LEMMA ReadingKeeps ==
  ASSUME ReportsInv, NEW c \in Client, ReadList(c)
  PROVE  ReportsInv'
<1>1. PICK w \in WorkRec : w = work[c]
  BY Parts
<1>2. PICK list : list = PlanOf(w)[w.read + 1]
  OBVIOUS
<1>. DEFINE v == AfterRead(w, list)
<1>3. /\ w.pc = "reading" /\ ~AllRead(w) /\ Drafted(w) /\ Looked(w)
      /\ work' = [work EXCEPT ![c] = v] \/ work' = [work EXCEPT ![c] = Free]
      /\ UNCHANGED <<records, reports, output, begun, writer, died, dropped>>
  BY <1>1, <1>2 DEF ReadList, MakesNothing, Stays, ReportsInv
<1>4. /\ w.read \in Nat /\ w.tally \in Nat /\ w.named \subseteq Nat /\ w.artifacts \subseteq Nat
      /\ artifactCount \in Nat /\ findingCount \in Nat /\ w.kinds # <<>>
  BY <1>3, Parts DEF WorkRec, Drafted
<1>5. /\ Cut(w, artifactCount) \subseteq Nat /\ Cut(w, findingCount) \subseteq Nat
      /\ IsFiniteSet(Cut(w, artifactCount)) /\ Latest(artifactCount) \subseteq 1..artifactCount
      /\ Traced(w) \subseteq w.artifacts
      /\ Enough("session_summary", 1..artifactCount, w.tally)
      /\ Enough("operator_report", Latest(artifactCount), w.tally)
  <2>1. w.tally <= artifactCount /\ 0 <= findingCount
    BY <1>3, <1>4 DEF Drafted
  <2>2. /\ IsFiniteSet(1..artifactCount) /\ IsFiniteSet(Latest(artifactCount))
        /\ Latest(artifactCount) \subseteq Nat /\ 1..artifactCount \subseteq Nat
        /\ Latest(artifactCount) \subseteq 1..artifactCount
        /\ Enough("session_summary", 1..artifactCount, w.tally)
        /\ Enough("operator_report", Latest(artifactCount), w.tally)
    BY <1>4, <2>1, CutEnough
  <2>3. Latest(findingCount) \subseteq Nat /\ 1..findingCount \subseteq Nat
    BY <1>4, <2>1, CutEnough
  <2>. QED BY <2>2, <2>3 DEF Cut, Traced
<1>6. /\ v.pc = w.pc /\ v.kinds = w.kinds /\ v.flow = w.flow /\ v.before = w.before
      /\ v.read = w.read + 1
      /\ v.tally = (IF list = "count" THEN artifactCount ELSE w.tally)
      /\ v.artifacts = (IF list = "artifacts" THEN Cut(w, artifactCount) ELSE w.artifacts)
      /\ v.named = (IF list = "recent" THEN Latest(artifactCount)
                    ELSE IF list = "links" THEN Traced(w) ELSE w.named)
  BY DEF AfterRead, WorkRec
<1>14. v \in WorkRec
  <2>1. /\ v.read \in Nat /\ v.tally \in Nat /\ v.artifacts \in SUBSET Nat /\ v.named \in SUBSET Nat
    BY <1>4, <1>5, <1>6
  <2>2. (IF list = "findings" THEN Cut(w, findingCount) ELSE w.findings) \in SUBSET Nat
    BY <1>4, <1>5 DEF WorkRec
  <2>. QED BY <1>4, <1>5, <2>1, <2>2 DEF AfterRead, WorkRec
<1>. HIDE DEF v
<1>7. PlanOf(v) = PlanOf(w)
  BY <1>6 DEF PlanOf
<1>8. /\ Len(PlanOf(w)) \in Nat /\ w.read < Len(PlanOf(w)) /\ Len(PlanOf(w)) \in {3, 4}
      /\ Len(PlanOf(w)) = IF w.flow /\ Head(w.kinds) = "session_summary" THEN 4 ELSE 3
  <2>1. w.flow => Head(w.kinds) \in Flow
    BY <1>3 DEF Drafted
  <2>. QED BY <1>3, <1>4, <2>1, Plans DEF Drafted, AllRead
<1>9. w.read \in {0, 1, 2, 3} /\ (w.read = 3 => w.flow /\ Head(w.kinds) = "session_summary")
  BY <1>4, <1>8
<1>10. /\ v.flow => Len(v.kinds) = 1 /\ Head(v.kinds) \in Flow
       /\ v.tally \in Nat /\ v.tally <= artifactCount /\ IsFiniteSet(v.artifacts)
  BY <1>3, <1>4, <1>5, <1>6 DEF Drafted
<1>11. ASSUME w.flow, Head(w.kinds) = "session_summary"
       PROVE  /\ v.read < 2 => v.named = {}
              /\ v.named \subseteq IF v.read < 3 THEN 1..artifactCount ELSE v.artifacts
              /\ v.read >= 3 => Enough("session_summary", v.artifacts, v.tally)
  <2>1. /\ PlanOf(w)[1] = "count" /\ PlanOf(w)[2] = "recent" /\ PlanOf(w)[3] = "artifacts"
        /\ PlanOf(w)[4] = "findings"
    BY <1>11, Plans DEF Flow
  <2>2. /\ w.read < 2 => w.named = {}
        /\ w.named \subseteq IF w.read < 3 THEN 1..artifactCount ELSE w.artifacts
        /\ w.read >= 3 => Enough("session_summary", w.artifacts, w.tally)
    BY <1>3, <1>11 DEF Drafted
  <2>3. Cut(w, artifactCount) = 1..artifactCount
    BY <1>11 DEF Cut
  <2>4. CASE w.read = 0
    <3>1. list = "count"
      BY <1>2, <2>1, <2>4
    <3>. QED BY <1>6, <2>2, <2>4, <3>1
  <2>5. CASE w.read = 1
    <3>1. list = "recent"
      BY <1>2, <2>1, <2>5
    <3>. QED BY <1>5, <1>6, <2>5, <3>1
  <2>6. CASE w.read = 2
    <3>1. list = "artifacts"
      BY <1>2, <2>1, <2>6
    <3>. QED BY <1>5, <1>6, <2>2, <2>3, <2>6, <3>1
  <2>7. CASE w.read = 3
    <3>1. list = "findings"
      BY <1>2, <2>1, <2>7
    <3>. QED BY <1>6, <2>2, <2>7, <3>1
  <2>. QED BY <1>9, <2>4, <2>5, <2>6, <2>7
<1>12. ASSUME w.flow, Head(w.kinds) = "operator_report"
       PROVE  v.named = {} /\ (v.read = 3 => Enough("operator_report", v.artifacts, v.tally))
  <2>1. /\ PlanOf(w)[1] = "count" /\ PlanOf(w)[2] = "findings" /\ PlanOf(w)[3] = "artifacts"
    BY <1>12, Plans DEF Flow
  <2>2. w.named = {} /\ Cut(w, artifactCount) = Latest(artifactCount)
    BY <1>3, <1>12 DEF Drafted, Cut
  <2>3. w.read \in {0, 1, 2}
    BY <1>9, <1>12
  <2>4. list \in {"count", "findings", "artifacts"} /\ (w.read = 2 => list = "artifacts")
    BY <1>2, <2>1, <2>3
  <2>. QED BY <1>5, <1>6, <2>2, <2>3, <2>4
<1>13. ASSUME ~w.flow \/ Head(w.kinds) = "findings_summary"
       PROVE  v.tally = 0 /\ v.named \subseteq v.artifacts /\ (v.read < 3 => v.named = {})
  <2>1. \/ PlanOf(w)[1] = "artifacts" /\ PlanOf(w)[2] = "findings" /\ PlanOf(w)[3] = "links"
        \/ PlanOf(w)[1] = "findings" /\ PlanOf(w)[2] = "artifacts" /\ PlanOf(w)[3] = "links"
    <3>1. CASE ~w.flow
      BY <3>1, Plans
    <3>2. CASE w.flow
      BY <1>13, <3>2, Plans DEF Flow
    <3>. QED BY <3>1, <3>2
  <2>2. w.tally = 0 /\ w.named \subseteq w.artifacts /\ (w.read < 3 => w.named = {})
    BY <1>3, <1>13 DEF Drafted
  <2>3. w.read \in {0, 1, 2}
    BY <1>9, <1>13
  <2>4. /\ list \in {"artifacts", "findings", "links"} /\ (w.read = 2 => list = "links")
        /\ w.read < 2 => list # "links"
    BY <1>2, <2>1, <2>3
  <2>5. w.read < 3
    BY <2>3
  <2>6. CASE w.read = 2
    BY <1>5, <1>6, <2>2, <2>4, <2>6
  <2>7. CASE w.read < 2
    BY <1>6, <2>2, <2>4, <2>5, <2>7
  <2>. QED BY <2>3, <2>6, <2>7
<1>15. Drafted(v)
  <2>1. v.kinds # <<>> /\ v.read <= Len(PlanOf(v)) /\ v.pc = "reading"
    BY <1>3, <1>4, <1>6, <1>7, <1>8
  <2>2. w.flow /\ Head(w.kinds) = "session_summary" =>
          /\ v.read < 2 => v.named = {}
          /\ v.named \subseteq IF v.read < 3 THEN 1..artifactCount ELSE v.artifacts
          /\ v.read >= 3 => Enough("session_summary", v.artifacts, v.tally)
    BY <1>11
  <2>3. w.flow /\ Head(w.kinds) = "operator_report" =>
          v.named = {} /\ (v.read = 3 => Enough("operator_report", v.artifacts, v.tally))
    BY <1>12
  <2>4. ~w.flow \/ Head(w.kinds) = "findings_summary" =>
          v.tally = 0 /\ v.named \subseteq v.artifacts /\ (v.read < 3 => v.named = {})
    BY <1>13
  <2>. QED BY <1>6, <1>10, <2>1, <2>2, <2>3, <2>4 DEF Drafted
<1>16. Looked(v)
  BY <1>3, <1>6 DEF Looked
<1>17. /\ ~Writes(c) /\ Others(c) /\ work' \in [Client -> WorkRec] /\ ~Numbered(c)'
       /\ work'[c].before \in {work[c].before, {}} /\ (work'[c] = v \/ work'[c].pc = "idle")
  BY <1>1, <1>3, <1>6, <1>14, FreeIs, Parts DEF Writes, Numbered, Others
<1>. QED BY <1>3, <1>15, <1>16, <1>17, Parts, QuietStep

\* A client goes on with the report it has put together.
LEMMA GoingOn ==
  ASSUME ReportsInv, NEW c \in Client, NEW v \in WorkRec, work' = [work EXCEPT ![c] = v],
         SameDraft(v, work[c]), work[c].pc # "idle",
         v.pc # "reading" => AllRead(work[c]) /\ (v.artifacts # {} => v.linked),
         UNCHANGED <<records, reports>>
  PROVE  /\ Others(c) /\ work' \in [Client -> WorkRec] /\ work'[c] = v
         /\ UNCHANGED <<artifactCount, findingCount, links>>
         /\ \A d \in Client : work'[d].pc # "idle" => (Drafted(work[d]) /\ Looked(work[d]))'
<1>1. Others(c) /\ work' \in [Client -> WorkRec] /\ work'[c] = v
  BY Parts DEF Others
<1>2. UNCHANGED <<artifactCount, findingCount, links>>
  BY DEF records
<1>3. ASSUME NEW d \in Client, work'[d].pc # "idle" PROVE (Drafted(work[d]) /\ Looked(work[d]))'
  <2>1. Drafted(work'[d]) /\ Looked(work'[d])
    <3>1. CASE d # c
      BY <1>1, <1>3, <3>1 DEF ReportsInv, Others
    <3>2. CASE d = c
      <4>1. Drafted(work[c]) /\ Looked(work[c]) /\ work[c] \in WorkRec /\ artifactCount \in Nat
        BY Parts DEF ReportsInv
      <4>2. Drafted(v)
        BY <4>1, DraftStays, <1>2
      <4>. QED BY <1>1, <3>2, <4>1, <4>2 DEF Looked, SameDraft
    <3>. QED BY <3>1, <3>2
  <2>. QED BY <1>2, <2>1 DEF Drafted, Looked, AllRead, PlanOf
<1>. QED BY <1>1, <1>2, <1>3

\* The id of a report is a new one.
LEMMA BeginningKeeps ==
  ASSUME ReportsInv, NEW c \in Client, Begin(c)
  PROVE  ReportsInv'
<1>1. PICK w \in WorkRec : w = work[c]
  BY Parts
<1>0. /\ w.pc = "reading" /\ AllRead(w) /\ begun' = begun + 1 /\ begun \in Nat
      /\ UNCHANGED <<records, reports, output, writer, died, dropped>>
      /\ work' = [work EXCEPT ![c] = Begun(w)] \/ work' = [work EXCEPT ![c] = Free]
  BY <1>1, Parts DEF Begin
<1>. SUFFICES ASSUME work' = [work EXCEPT ![c] = Begun(w)] PROVE ReportsInv'
  <2>1. CASE work' = [work EXCEPT ![c] = Free]
    <3>1. /\ Others(c) /\ work' \in [Client -> WorkRec] /\ work'[c].pc = "idle"
          /\ work'[c].before = {} /\ ~Writes(c) /\ ~Numbered(c)'
      BY <1>0, <1>1, <2>1, FreeIs, Parts DEF Others, Writes, Numbered
    <3>. QED BY <1>0, <3>1, QuietStep
  <2>. QED BY <1>0, <2>1
<1>. DEFINE v == Begun(w)
<1>2. /\ w.pc = "reading" /\ AllRead(w) /\ begun' = begun + 1 /\ begun \in Nat
      /\ work' = [work EXCEPT ![c] = v]
      /\ UNCHANGED <<records, reports, output, writer, died, dropped>>
  BY <1>0
<1>3. /\ v \in WorkRec /\ v.pc = "begun" /\ v.id = begun + 1 /\ SameDraft(v, w)
      /\ v.artifacts # {} => v.linked
  <2>1. /\ v.pc = "begun" /\ v.id = begun + 1 /\ SameDraft(v, w)
        /\ v.linked = (w.linked \/ w.artifacts # {} \/ w.findings # {})
        /\ v.artifacts = w.artifacts
    BY <1>2 DEF Begun, WorkRec, SameDraft
  <2>2. v \in WorkRec
    <3>1. begun + 1 \in Nat /\ {} \in SUBSET Nat
      BY <1>2
    <3>2. (w.linked \/ w.artifacts # {} \/ w.findings # {}) \in BOOLEAN
      BY DEF WorkRec
    <3>. QED BY <1>2, <3>1, <3>2 DEF Begun, WorkRec
  <2>. QED BY <2>1, <2>2
<1>. HIDE DEF v
<1>4. /\ Others(c) /\ work' \in [Client -> WorkRec] /\ work'[c] = v
      /\ UNCHANGED <<artifactCount, findingCount, links>>
      /\ \A d \in Client : work'[d].pc # "idle" => (Drafted(work[d]) /\ Looked(work[d]))'
  BY <1>1, <1>2, <1>3, GoingOn
<1>5. Typed' /\ RemadeOnlyByRace'
  BY <1>2, <1>4 DEF ReportsInv, Typed, RemadeOnlyByRace
<1>6. Making'
  <2>1. /\ \A n \in DOMAIN reports : reports[n].id <= begun' /\ reports[n].id # begun'
        /\ \A d \in Client : Numbered(d) => work[d].id <= begun' /\ work[d].id # begun'
    BY <1>2, Parts DEF ReportsInv, Making
  <2>2. /\ \A d \in Client : d # c => /\ work'[d] = work[d] /\ (Numbered(d)' <=> Numbered(d))
                                      /\ Writes(d)' <=> Writes(d)
        /\ ~Writes(c) /\ ~Writes(c)' /\ Numbered(c)' /\ work'[c].id = begun'
    BY <1>1, <1>2, <1>3, <1>4 DEF Others, Numbered, Writes
  <2>3. \A d \in Client : work'[d].pc = "written" => work'[d].id \in output'
    BY <1>2, <1>3, <1>4 DEF ReportsInv, Making, Others
  <2>. QED BY <1>2, <2>1, <2>2, <2>3 DEF ReportsInv, Making
<1>7. NothingPartial'
  <2>1. writer # c
    BY <1>1, <1>2 DEF ReportsInv, Making, Writes
  <2>. QED BY <1>2, <1>4, <2>1 DEF ReportsInv, NothingPartial, Others
<1>8. Seen'
  <2>1. \A d \in Client : work'[d].before = work[d].before
    BY <1>1, <1>3, <1>4 DEF Others, SameDraft
  <2>2. \A d \in Client : Numbered(d)' =>
          work'[d].id > begun \/ (Numbered(d) /\ work'[d].id = work[d].id)
    BY <1>2, <1>3, <1>4 DEF Others, Numbered
  <2>. QED BY <1>2, <2>1, <2>2, SeenStays
<1>. QED BY <1>2, <1>4, <1>5, <1>6, <1>7, <1>8 DEF ReportsInv, Whole, Enough

\* One client at a time has a row that is not committed.
LEMMA InsertingKeeps ==
  ASSUME ReportsInv, NEW c \in Client, Insert(c)
  PROVE  ReportsInv'
<1>0. /\ work[c].pc = "begun" /\ UNCHANGED <<records, reports, output, begun, died, dropped>>
      /\ \/ writer = Nobody /\ writer' = c /\ work' = [work EXCEPT ![c].pc = "inserted"]
         \/ work' = [work EXCEPT ![c] = Free] /\ UNCHANGED writer
  BY DEF Insert, Stays
<1>1. CASE writer = Nobody /\ writer' = c /\ work' = [work EXCEPT ![c].pc = "inserted"]
  <2>1. PICK w \in WorkRec : w = work[c]
    BY Parts
  <2>. DEFINE v == [w EXCEPT !.pc = "inserted"]
  <2>2. /\ w.pc = "begun" /\ work' = [work EXCEPT ![c] = v] /\ writer' = c
        /\ UNCHANGED <<records, reports, output, begun, died, dropped>>
    BY <1>0, <1>1, <2>1
  <2>3. /\ v \in WorkRec /\ v.pc = "inserted" /\ v.id = w.id /\ SameDraft(v, w)
        /\ v.linked = w.linked /\ v.artifacts = w.artifacts
    BY DEF WorkRec, SameDraft
  <2>. HIDE DEF v
  <2>4. AllRead(w) /\ (w.artifacts # {} => w.linked)
    BY <2>1, <2>2 DEF ReportsInv, Drafted
  <2>5. /\ Others(c) /\ work' \in [Client -> WorkRec] /\ work'[c] = v
        /\ UNCHANGED <<artifactCount, findingCount, links>>
        /\ \A d \in Client : work'[d].pc # "idle" => (Drafted(work[d]) /\ Looked(work[d]))'
    BY <2>1, <2>2, <2>3, <2>4, GoingOn
  <2>6. Typed' /\ RemadeOnlyByRace'
    BY <2>2, <2>5 DEF ReportsInv, Typed, RemadeOnlyByRace
  <2>7. Making'
    <3>1. /\ \A d \in Client : work'[d].id = work[d].id /\ (Numbered(d)' <=> Numbered(d))
          /\ \A d \in Client : Writes(d)' <=> d = c
      BY <1>1, <2>1, <2>2, <2>3, <2>5, ReportsAssumption DEF ReportsInv, Making, Others, Numbered, Writes
    <3>2. \A d \in Client : work'[d].pc = "written" => work'[d].id \in output'
      BY <2>2, <2>3, <2>5 DEF ReportsInv, Making, Others
    <3>. QED BY <2>2, <3>1, <3>2 DEF ReportsInv, Making
  <2>8. NothingPartial'
    BY <1>1, <2>2, <2>5, ReportsAssumption DEF ReportsInv, NothingPartial
  <2>9. Seen'
    <3>1. \A d \in Client : /\ work'[d].before = work[d].before /\ work'[d].id = work[d].id
                            /\ Numbered(d)' => Numbered(d)
      BY <2>1, <2>2, <2>3, <2>5 DEF Others, SameDraft, Numbered
    <3>. QED BY <2>2, <3>1, SeenStays, Parts
  <2>. QED BY <2>2, <2>5, <2>6, <2>7, <2>8, <2>9 DEF ReportsInv, Whole, Enough
<1>2. CASE work' = [work EXCEPT ![c] = Free] /\ UNCHANGED writer
  <2>1. /\ Others(c) /\ work' \in [Client -> WorkRec] /\ work'[c].pc = "idle"
        /\ work'[c].before = {} /\ ~Writes(c) /\ ~Numbered(c)'
    BY <1>0, <1>2, FreeIs, Parts DEF Others, Writes, Numbered
  <2>. QED BY <1>0, <1>2, <2>1, Parts, QuietStep
<1>. QED BY <1>0, <1>1, <1>2

\* The file comes before the row is there for others.
LEMMA WritingKeeps ==
  ASSUME ReportsInv, NEW c \in Client, WriteOutput(c)
  PROVE  ReportsInv'
<1>1. PICK w \in WorkRec : w = work[c]
  BY Parts
<1>. DEFINE v == [w EXCEPT !.pc = "written"]
<1>2. /\ w.pc = "inserted" /\ work' = [work EXCEPT ![c] = v] /\ output' = output \cup {w.id}
      /\ UNCHANGED <<records, reports, begun, writer, died, dropped>>
  BY <1>1 DEF WriteOutput, Stays
<1>3. /\ v \in WorkRec /\ v.pc = "written" /\ v.id = w.id /\ SameDraft(v, w)
      /\ v.linked = w.linked /\ v.artifacts = w.artifacts
  BY DEF WorkRec, SameDraft
<1>. HIDE DEF v
<1>4. AllRead(w) /\ (w.artifacts # {} => w.linked) /\ writer = c
  BY <1>1, <1>2 DEF ReportsInv, Making, Writes, Drafted
<1>5. /\ Others(c) /\ work' \in [Client -> WorkRec] /\ work'[c] = v
      /\ UNCHANGED <<artifactCount, findingCount, links>>
      /\ \A d \in Client : work'[d].pc # "idle" => (Drafted(work[d]) /\ Looked(work[d]))'
  BY <1>1, <1>2, <1>3, <1>4, GoingOn
<1>6. Typed' /\ RemadeOnlyByRace'
  BY <1>2, <1>5 DEF ReportsInv, Typed, RemadeOnlyByRace
<1>7. Making'
  <2>1. \A d \in Client : /\ work'[d].id = work[d].id /\ (Numbered(d)' <=> Numbered(d))
                          /\ Writes(d)' <=> Writes(d)
    BY <1>1, <1>2, <1>3, <1>5 DEF Others, Numbered, Writes
  <2>2. \A d \in Client : work'[d].pc = "written" => work'[d].id \in output'
    BY <1>2, <1>3, <1>5 DEF ReportsInv, Making, Others
  <2>. QED BY <1>2, <2>1, <2>2 DEF ReportsInv, Making
<1>8. NothingPartial'
  BY <1>1, <1>2, <1>3, <1>4, <1>5 DEF ReportsInv, NothingPartial, Others
<1>9. Seen'
  <2>1. \A d \in Client : /\ work'[d].before = work[d].before /\ work'[d].id = work[d].id
                          /\ Numbered(d)' => Numbered(d)
    BY <1>1, <1>2, <1>3, <1>5 DEF Others, SameDraft, Numbered
  <2>. QED BY <1>2, <2>1, SeenStays, Parts
<1>. QED BY <1>2, <1>5, <1>6, <1>7, <1>8, <1>9 DEF ReportsInv, Whole, Enough

\* A text that is done links what it names, and as many as it counts.
LEMMA DoneIsEnough ==
  ASSUME NEW w \in WorkRec, Drafted(w), AllRead(w)
  PROVE  w.named \subseteq w.artifacts /\ Enough(Head(w.kinds), w.artifacts, w.tally)
<1>1. /\ w.tally \in Nat /\ Len(w.kinds) \in Nat /\ w.read \in Nat
      /\ w.flow => Head(w.kinds) \in Flow
      /\ w.read = Len(PlanOf(w))
  BY DEF WorkRec, Drafted, AllRead
<1>2. w.read = IF w.flow /\ Head(w.kinds) = "session_summary" THEN 4 ELSE 3
  BY <1>1, Plans
<1>3. CASE w.flow /\ Head(w.kinds) = "session_summary"
  BY <1>2, <1>3 DEF Drafted
<1>4. CASE w.flow /\ Head(w.kinds) = "operator_report"
  BY <1>2, <1>4 DEF Drafted
<1>5. CASE ~w.flow \/ Head(w.kinds) = "findings_summary"
  <2>1. w.tally = 0 /\ w.named \subseteq w.artifacts /\ IsFiniteSet(w.artifacts)
    BY <1>5 DEF Drafted
  <2>2. Cardinality(w.artifacts) \in Nat /\ 0 \in Nat /\ Recent \in Nat
    BY <2>1, FS_CardinalityType, ReportsAssumption
  <2>3. Min({0, Recent}) \in Nat /\ Min({0, Recent}) <= 0
    BY <2>2, LesserOf
  <2>4. Cardinality(w.artifacts) >= 0 /\ Cardinality(w.artifacts) >= Min({0, Recent})
    BY <2>2, <2>3
  <2>. QED BY <2>1, <2>4 DEF Enough
<1>. QED BY <1>1, <1>3, <1>4, <1>5 DEF Flow

\* A report that is committed has its output, its links and a new id.
LEMMA CommittingKeeps ==
  ASSUME ReportsInv, NEW c \in Client, Commit(c)
  PROVE  ReportsInv'
<1>1. PICK w \in WorkRec : w = work[c]
  BY Parts
<1>. DEFINE next == [w EXCEPT !.pc = "reading", !.kinds = Tail(@), !.id = 0]
            r    == ReportRow(w)
            n    == Len(reports) + 1
<1>2. /\ w.pc = "written" /\ writer' = Nobody /\ reports' = Append(reports, r)
      /\ work' = [work EXCEPT ![c] = IF Len(w.kinds) = 1 THEN Free ELSE next]
      /\ UNCHANGED <<records, output, begun, died, dropped>>
  BY <1>1 DEF Commit, Stays
<1>3. /\ AllRead(w) /\ (w.artifacts # {} => w.linked) /\ Drafted(w) /\ Looked(w) /\ writer = c /\ w.id \in output
      /\ Writes(c) /\ Numbered(c) /\ w.id <= begun
      /\ \A m \in DOMAIN reports : reports[m].id # w.id
  BY <1>1, <1>2 DEF ReportsInv, Making, Writes, Numbered, Drafted
<1>4. /\ w.kinds \in Seq(Kinds) /\ w.kinds # <<>> /\ Len(w.kinds) \in Nat /\ Head(w.kinds) \in Kinds
      /\ Len(w.kinds) # 1 => Tail(w.kinds) \in Seq(Kinds) /\ Tail(w.kinds) # <<>>
  <2>1. w.kinds \in Seq(Kinds) /\ w.kinds # <<>>
    BY <1>3 DEF WorkRec, Drafted
  <2>2. /\ Head(w.kinds) \in Kinds /\ Tail(w.kinds) \in Seq(Kinds)
        /\ Len(Tail(w.kinds)) = Len(w.kinds) - 1 /\ Len(w.kinds) \in Nat
    BY <2>1, HeadTailProperties
  <2>3. Len(w.kinds) # 1 => Len(Tail(w.kinds)) # 0
    BY <2>2
  <2>4. Len(<<>>) = 0
    OBVIOUS
  <2>. QED BY <2>1, <2>2, <2>3, <2>4
<1>5. /\ r \in ReportRec /\ r.id = w.id /\ r.kind = Head(w.kinds) /\ r.flow = w.flow
      /\ r.before = w.before /\ r.tally = w.tally /\ r.named = w.named /\ r.artifacts = w.artifacts
      /\ r.linked = w.linked
  BY <1>4 DEF ReportRow, ReportRec, WorkRec
<1>6. Whole(r) /\ (r.artifacts # {} => r.linked)
  BY <1>3, <1>5, DoneIsEnough DEF Whole
<1>7. /\ next \in WorkRec \/ Len(w.kinds) = 1
      /\ next.pc = "reading" /\ next.kinds = Tail(w.kinds) /\ next.flow = w.flow /\ next.read = w.read
      /\ next.before = w.before /\ next.tally = w.tally /\ next.artifacts = w.artifacts
      /\ next.named = w.named
  <2>1. /\ next.pc = "reading" /\ next.kinds = Tail(w.kinds) /\ next.flow = w.flow /\ next.read = w.read
        /\ next.before = w.before /\ next.tally = w.tally /\ next.artifacts = w.artifacts
        /\ next.named = w.named
    BY DEF WorkRec
  <2>2. Len(w.kinds) # 1 => next \in WorkRec
    BY <1>4 DEF WorkRec
  <2>. QED BY <2>1, <2>2
<1>8. Free \in WorkRec /\ Free.pc = "idle" /\ Free.before = {}
  BY FreeIs
<1>. HIDE DEF next, r
<1>9. Len(w.kinds) # 1 => Drafted(next)
  <2>. SUFFICES ASSUME Len(w.kinds) # 1 PROVE Drafted(next)
    OBVIOUS
  <2>1. ~w.flow
    BY <1>3 DEF Drafted
  <2>2. PlanOf(next) = PlanOf(w)
    BY <1>7, <2>1 DEF PlanOf
  <2>. QED BY <1>3, <1>4, <1>7, <2>1, <2>2 DEF Drafted, AllRead
<1>10. /\ Others(c) /\ work' \in [Client -> WorkRec] /\ ~Numbered(c)' /\ ~Writes(c)'
       /\ work'[c].pc # "idle" => Len(w.kinds) # 1 /\ work'[c] = next
  <2>1. CASE Len(w.kinds) = 1
    BY <1>2, <1>8, <2>1, Parts DEF Others, Numbered, Writes
  <2>2. CASE Len(w.kinds) # 1
    BY <1>2, <1>7, <2>2, Parts DEF Others, Numbered, Writes
  <2>. QED BY <2>1, <2>2
<1>11. /\ reports' \in Seq(ReportRec) /\ Len(reports') = n /\ DOMAIN reports' = 1..n
       /\ reports'[n] = r /\ n \in Nat /\ n \in DOMAIN reports' /\ DOMAIN reports = 1..Len(reports) /\ Len(reports) \in Nat
       /\ \A m \in DOMAIN reports : m \in DOMAIN reports' /\ m # n /\ reports'[m] = reports[m]
       /\ \A m \in DOMAIN reports' : m = n \/ m \in DOMAIN reports
  BY <1>2, <1>5, Parts
<1>. HIDE DEF n
<1>12. UNCHANGED <<artifactCount, findingCount, links>>
  BY <1>2 DEF records
<1>13. Typed'
  BY <1>2, <1>10, <1>11, <1>12 DEF ReportsInv, Typed
<1>14. \A d \in Client : /\ Numbered(d)' => d # c /\ Numbered(d) /\ work'[d].id = work[d].id
                         /\ work[d].id # w.id \/ ~Numbered(d)'
                         /\ ~Writes(d)'
  BY <1>1, <1>3, <1>10 DEF ReportsInv, Making, Numbered, Writes, Others
<1>15. Making'
  <2>1. \A d \in Client : Writes(d)' <=> writer' = d
    BY <1>2, <1>14, ReportsAssumption
  <2>2. \A m \in DOMAIN reports' : reports'[m].id <= begun'
    BY <1>2, <1>3, <1>5, <1>11 DEF ReportsInv, Making
  <2>3. \A d \in Client : Numbered(d)' =>
          work'[d].id <= begun' /\ \A m \in DOMAIN reports' : reports'[m].id # work'[d].id
    BY <1>2, <1>5, <1>11, <1>14 DEF ReportsInv, Making
  <2>4. \A d, e \in Client : d # e /\ Numbered(d)' /\ Numbered(e)' => work'[d].id # work'[e].id
    BY <1>14 DEF ReportsInv, Making
  <2>5. \A d \in Client : work'[d].pc = "written" => work'[d].id \in output'
    BY <1>14 DEF Writes
  <2>. QED BY <2>1, <2>2, <2>3, <2>4, <2>5 DEF Making
<1>16. NothingPartial'
  <2>1. \A m \in DOMAIN reports' : reports'[m].id \in output'
    BY <1>2, <1>3, <1>5, <1>11 DEF ReportsInv, NothingPartial
  <2>2. \A id \in output' : \/ \E m \in DOMAIN reports' : reports'[m].id = id
                            \/ id \in (died \cup dropped)'
    <3>. SUFFICES ASSUME NEW id \in output, id \notin died \cup dropped
                  PROVE  \E m \in DOMAIN reports' : reports'[m].id = id
      BY <1>2
    <3>1. CASE id = w.id
      BY <1>5, <1>11, <3>1
    <3>2. CASE id # w.id
      <4>1. PICK m \in DOMAIN reports : reports[m].id = id
        BY <1>1, <1>3, <3>2 DEF ReportsInv, NothingPartial
      <4>. QED BY <1>11, <4>1
    <3>. QED BY <3>1, <3>2
  <2>. QED BY <2>1, <2>2 DEF NothingPartial
<1>17. RemadeOnlyByRace'
  <2>. SUFFICES ASSUME NEW l \in DOMAIN reports', NEW m \in DOMAIN reports',
                       l < m, reports'[m].flow, reports'[l].kind = reports'[m].kind
                PROVE  reports'[l].id \notin reports'[m].before
    BY DEF RemadeOnlyByRace
  <2>1. l \in DOMAIN reports /\ reports'[l] = reports[l]
    BY <1>11 DEF n
  <2>2. CASE m \in DOMAIN reports
    BY <1>11, <2>1, <2>2 DEF ReportsInv, RemadeOnlyByRace
  <2>3. CASE m = n
    <3>1. w.flow /\ reports[l].kind = Head(w.kinds) /\ reports'[m].before = w.before
      BY <1>5, <1>11, <2>1, <2>3
    <3>. QED BY <1>3, <2>1, <3>1 DEF Looked
  <2>. QED BY <1>11, <2>2, <2>3
<1>18. ASSUME NEW d \in Client, work'[d].pc # "idle" PROVE Drafted(work[d])' /\ Looked(work[d])'
  <2>1. Drafted(work'[d])
    BY <1>9, <1>10, <1>18 DEF ReportsInv, Others
  <2>2. CASE d = c
    <3>1. ~work'[d].flow
      BY <1>3, <1>7, <1>10, <1>18, <2>2 DEF Drafted
    <3>. QED BY <1>12, <2>1, <3>1 DEF Drafted, Looked, AllRead, PlanOf
  <2>3. CASE d # c
    <3>1. work'[d] = work[d] /\ Looked(work[d]) /\ w.id \notin work[d].before
      BY <1>1, <1>3, <1>10, <1>18, <2>3 DEF ReportsInv, Seen, Others
    <3>2. \A m \in DOMAIN reports' : reports'[m].id \in work[d].before =>
            m \in DOMAIN reports /\ reports'[m] = reports[m]
      BY <1>5, <1>11, <3>1
    <3>. QED BY <1>12, <2>1, <3>1, <3>2 DEF Drafted, Looked, AllRead, PlanOf
  <2>. QED BY <2>2, <2>3
<1>19. \A m \in DOMAIN reports' :
         /\ reports'[m].artifacts # {} => reports'[m].linked
         /\ reports'[m].id \notin dropped' => Whole(reports'[m])
  BY <1>2, <1>6, <1>11 DEF ReportsInv
<1>20. Seen'
  <2>1. \A d \in Client : work'[d].before \in {work[d].before, {}}
    BY <1>1, <1>2, <1>7, <1>8, <1>10 DEF Others, Numbered
  <2>. QED BY <1>2, <1>14, <2>1, SeenStays, Parts
<1>. QED BY <1>13, <1>15, <1>16, <1>17, <1>18, <1>19, <1>20 DEF ReportsInv, Whole, Enough

\* A drop takes links and rows, and nothing from who is making a report.
LEMMA DroppingKeeps ==
  ASSUME ReportsInv, DropLinks \/ DropRows \/ \E table \in Tables : CreateTable(table)
  PROVE  ReportsInv'
<1>1. UNCHANGED <<artifactCount, findingCount, links, output, begun, writer, work, died>>
  BY DEF DropLinks, DropRows, CreateTable, Alone, records
<1>2. /\ dropped \subseteq dropped' /\ reports' \in Seq(ReportRec)
      /\ \A n \in DOMAIN reports' :
           /\ n \in DOMAIN reports /\ reports'[n].id = reports[n].id
           /\ reports'[n].kind = reports[n].kind /\ reports'[n].flow = reports[n].flow
           /\ reports'[n].before = reports[n].before
      /\ \A n \in DOMAIN reports : n \in DOMAIN reports' \/ reports[n].id \in dropped'
      /\ \A n \in DOMAIN reports' :
           /\ reports'[n].artifacts # {} => reports'[n].linked
           /\ reports'[n].id \notin dropped' => Whole(reports'[n])
  <2>1. CASE DropLinks
    <3>. DEFINE bare(r) == [r EXCEPT !.artifacts = {}, !.linked = FALSE]
    <3>1. /\ reports' = [n \in DOMAIN reports |-> bare(reports[n])]
          /\ dropped' = dropped \cup {reports[n].id : n \in Linked}
      BY <2>1 DEF DropLinks
    <3>2. \A r \in ReportRec :
            /\ bare(r) \in ReportRec /\ bare(r).id = r.id /\ bare(r).kind = r.kind
            /\ bare(r).flow = r.flow /\ bare(r).before = r.before
            /\ bare(r).tally = r.tally /\ bare(r).named = r.named
            /\ bare(r).artifacts = {} /\ bare(r).linked = FALSE
      BY DEF ReportRec
    <3>. HIDE DEF bare
    <3>3. /\ DOMAIN reports' = DOMAIN reports
          /\ \A n \in DOMAIN reports : reports'[n] = bare(reports[n]) /\ reports[n] \in ReportRec
      BY <3>1, Parts
    <3>4. reports' \in Seq(ReportRec)
      <4>1. reports' \in [1..Len(reports) -> ReportRec] /\ Len(reports) \in Nat
        BY <3>1, <3>2, <3>3, Parts
      <4>. QED BY <4>1, SeqDef
    <3>5. ASSUME NEW n \in DOMAIN reports', reports'[n].id \notin dropped'
          PROVE  Whole(reports'[n])
      <4>1. n \in DOMAIN reports /\ n \notin Linked /\ reports[n].id \notin dropped
        BY <3>1, <3>2, <3>3, <3>5
      <4>2. reports[n].artifacts = {} /\ Whole(reports[n])
        BY <4>1 DEF ReportsInv, Linked
      <4>3. /\ reports'[n].kind = reports[n].kind /\ reports'[n].tally = reports[n].tally
            /\ reports'[n].named = reports[n].named /\ reports'[n].artifacts = reports[n].artifacts
        BY <3>2, <3>3, <4>1, <4>2
      <4>. QED BY <4>2, <4>3 DEF Whole
    <3>. QED BY <3>1, <3>2, <3>3, <3>4, <3>5
  <2>2. CASE reports' = <<>> /\ dropped' = dropped \cup Ids
    BY <2>2 DEF Ids
  <2>3. CASE UNCHANGED <<reports, dropped>>
    BY <2>3, Parts DEF ReportsInv
  <2>. QED BY <2>1, <2>2, <2>3 DEF DropRows, CreateTable
<1>3. Typed' /\ Making' /\ Seen'
  BY <1>1, <1>2 DEF ReportsInv, Typed, Making, Seen, Writes, Numbered
<1>4. NothingPartial'
  <2>1. \A n \in DOMAIN reports' : reports'[n].id \in output'
    BY <1>1, <1>2 DEF ReportsInv, NothingPartial
  <2>2. \A id \in output : (\E n \in DOMAIN reports : reports[n].id = id) =>
          id \in dropped' \/ \E n \in DOMAIN reports' : reports'[n].id = id
    BY <1>2
  <2>. QED BY <1>1, <1>2, <2>1, <2>2 DEF ReportsInv, NothingPartial
<1>5. RemadeOnlyByRace'
  BY <1>2 DEF ReportsInv, RemadeOnlyByRace
<1>6. ASSUME NEW c \in Client, work'[c].pc # "idle" PROVE Drafted(work[c])' /\ Looked(work[c])'
  BY <1>1, <1>2, <1>6 DEF ReportsInv, Drafted, Looked, AllRead, PlanOf
<1>. QED BY <1>2, <1>3, <1>4, <1>5, <1>6 DEF ReportsInv, Whole, Enough

\* The invariant holds at the start.
LEMMA ReportsStart == ReportsInit => ReportsInv
<1>. SUFFICES ASSUME ReportsInit PROVE ReportsInv
  OBVIOUS
<1>1. Free \in WorkRec /\ Free.pc = "idle" /\ Free.before = {}
  BY FreeIs
<1>2. reports = <<>> /\ DOMAIN reports = {} /\ reports \in Seq(ReportRec)
  BY DEF ReportsInit
<1>3. Typed /\ Making /\ Seen
  BY <1>1, <1>2, ReportsAssumption DEF ReportsInit, Typed, Making, Seen, Writes, Numbered
<1>4. NothingPartial /\ RemadeOnlyByRace
  BY <1>2 DEF ReportsInit, NothingPartial, RemadeOnlyByRace
<1>. QED BY <1>1, <1>2, <1>3, <1>4 DEF ReportsInit, ReportsInv

\* report_service.py:143, report_flow_service.py:151 and :274: a stored report
\* has its output, and an output without a report is being made, or was when its
\* client died, or is what a drop of the tables left behind; a report links what
\* its text names, and as many as its text counts, unless its links were
\* dropped; and one of a kind that is stored was made by a client that looked
\* before the other was.
THEOREM ReportsHold == ReportsSpec => []ReportKept
<1>1. ReportsInv /\ [ReportsNext]_reportVars => ReportsInv'
  <2>. SUFFICES ASSUME ReportsInv, [ReportsNext]_reportVars PROVE ReportsInv'
    OBVIOUS
  <2>1. CASE UNCHANGED reportVars
    <3>1. UNCHANGED <<artifactCount, findingCount, reports, output, begun, writer, work, died, dropped>>
      BY <2>1 DEF reportVars, records
    <3>2. Typed' /\ Making' /\ Seen' /\ NothingPartial' /\ RemadeOnlyByRace'
      BY <3>1 DEF ReportsInv, Typed, Making, Seen, Numbered, Writes, NothingPartial, RemadeOnlyByRace
    <3>3. ASSUME NEW c \in Client, work'[c].pc # "idle" PROVE Drafted(work[c])' /\ Looked(work[c])'
      BY <3>1, <3>3 DEF ReportsInv, Drafted, Looked, AllRead, PlanOf
    <3>. QED BY <3>1, <3>2, <3>3 DEF ReportsInv, Whole, Enough
  <2>2. ASSUME NEW c \in Client, Fail(c) \/ Vanish(c) PROVE ReportsInv'
    BY <2>2, GivingUp DEF Fail, Vanish, Stays, Cleaned, Writes
  <2>. QED BY <2>1, <2>2, StoringKeeps, AskingKeeps, ReadingKeeps, BeginningKeeps, InsertingKeeps,
    WritingKeeps, CommittingKeeps, DroppingKeeps DEF ReportsNext
<1>2. ReportsInv => ReportKept
  BY DEF ReportsInv, ReportKept, TextMatchesLinks, Whole, Enough
<1>. QED BY <1>1, <1>2, ReportsStart, PTL DEF ReportsSpec
=============================================================================
