------------------------------- MODULE Planner --------------------------------
(***************************************************************************)
(* The planner of one session: consoles create plans and apply them, the   *)
(* operator changes the policy and closes findings, the jobs of the plans  *)
(* run and leave evidence that the next plan is made of.  A plan and its   *)
(* proposals are inserted in one transaction; everything else is saved row *)
(* by row, whole rows of what was read first, and a console may die        *)
(* between any two of these steps.                                         *)
(***************************************************************************)
EXTENDS PlanBuilder

CONSTANTS
  Console,    \* processes that run planner commands on the database
  FirstPolicy, Policies, \* scope policy at first, and those the operator saves
  Answers,    \* answers of the model; one that does not parse is <<>>
  MaxPlans, MaxApplies, MaxJobs, MaxMemory, MaxPatches, MaxCrashes \* bounds

ASSUME PlannerAssumption ==
  /\ FirstPolicy \in Policies
  /\ \A p \in Policies : /\ DOMAIN p = DOMAIN EmptyPolicy
                          /\ IsFiniteSet(p.hosts) /\ IsFiniteSet(p.domains)
  /\ \A answer \in Answers : answer \in Seq(ToSet(answer))
  /\ \A n \in {MaxPlans, MaxApplies, MaxJobs, MaxMemory, MaxPatches, MaxCrashes} : n \in Nat

VARIABLES
  policy,    \* the policy of the session
  jobs,      \* jobs created of proposals: plan, row, what they do, done, and
             \* (history) apply, policy and job of the row when the apply read it
  artifacts, \* rows of artifacts
  findings,  \* rows of findings
  memory,    \* rows of session_memory_entries
  plans,     \* rows of planner_plans with their proposals; policy, torn: history
  cons,      \* what each console is doing and what it has read
  used       \* applies, patches and crashes so far

vars == <<policy, jobs, artifacts, findings, memory, plans, cons, used>>

Idle == [pc |-> "idle", plan |-> 0, rows |-> <<>>, policy |-> EmptyPolicy,
         todo |-> <<>>, changed |-> FALSE, entries |-> <<>>, job |-> 0,
         apply |-> 0, alone |-> TRUE]

Init ==
  /\ policy = FirstPolicy
  /\ jobs = <<>> /\ artifacts = <<>> /\ findings = <<>> /\ memory = <<>> /\ plans = <<>>
  /\ cons = [c \in Console |-> Idle]
  /\ used = [applies |-> 0, patches |-> 0, crashes |-> 0]

-----------------------------------------------------------------------------
(* Plausible slips, for the mutant runs.                                   *)

\* A proposal that was applied is applied again when it is selected.
IsAppliedMutant(row) == FALSE
\* A proposal is applied without a second look at the policy.
StillValidMutant(p, row) == TRUE

-----------------------------------------------------------------------------
(* Helpers.                                                                *)

Goto(c, state) == cons' = [cons EXCEPT ![c] = state]

Numbered(row, i) == [f \in DOMAIN row \cup {"id"} |-> IF f = "id" THEN i ELSE row[f]]

\* The rows that pass a test, each with its number.
Newest(rows, Test(_)) ==
  LET at == InOrder({i \in DOMAIN rows : Test(rows[i])})
      Row(i) == Numbered(rows[i], i)
  IN [n \in DOMAIN at |-> Row(at[Len(at) + 1 - n])]

\* build_context: successful jobs, artifacts, open findings, memory, policy.
Context ==
  [policy    |-> policy,
   jobs      |-> Newest(jobs, LAMBDA j : j.done),
   artifacts |-> Newest(artifacts, LAMBDA a : TRUE),
   findings  |-> Newest(findings, LAMBDA f : f.open),
   memory    |-> Newest(memory, LAMBDA e : TRUE)]

Applying(p) == {c \in Console : cons[c].plan = p /\ cons[c].pc \in {"apply", "link", "save"}}

IsApplied(row) == row.apply = "applied"

StillValid(p, row) == Revalidated(p, row)

\* _derive_plan_status.
Derived(status, rows) ==
  LET states == {rows[i].apply : i \in Proposed(rows)}
  IN IF states = {} THEN status
     ELSE IF states = {"applied"} THEN "applied"
     ELSE IF states # {"pending"} THEN "partially_applied"
     ELSE "proposed"

Linked(row, job) == [row EXCEPT !.apply = "applied", !.job = job]

SaveRow(p, i, row) == [plans EXCEPT ![p].rows[i] = row]

NewPlan(built) == [status |-> "proposed", source |-> built.source, rows |-> built.rows,
                   policy |-> policy, torn |-> FALSE]

NewJob(c, i, row) ==
  [plan |-> cons[c].plan, row |-> i, tool |-> row.tool, target |-> row.target,
   args |-> row.args, done |-> FALSE,
   apply |-> cons[c].apply, policy |-> cons[c].policy, named |-> row.job]

-----------------------------------------------------------------------------
(* create_plan.                                                            *)

\* The facts are read, the model asked, the proposals built, and plan and
\* proposals inserted.  What happens meanwhile is as if it happened after: the
\* plan is of what was read, and nobody sees it before.
CreatePlan(c, answer) ==
  LET built == BuiltPlan(Context, answer)
  IN /\ cons[c].pc = "idle"
     /\ Len(plans) < MaxPlans
     /\ plans' = Append(plans, NewPlan(built))
     /\ Goto(c, [Idle EXCEPT !.pc = "derive"])
     /\ UNCHANGED <<policy, jobs, artifacts, findings, memory, used>>

\* _write_back_memory_candidates reads the facts again.
Derive(c) ==
  /\ cons[c].pc = "derive"
  /\ Goto(c, [cons[c] EXCEPT !.pc = "remember", !.entries = MemoryOf(Context)])
  /\ UNCHANGED <<policy, jobs, artifacts, findings, memory, plans, used>>

\* One entry at a time, whether or not an earlier plan has stored it.
Remember(c) ==
  /\ cons[c].pc = "remember" /\ cons[c].entries # <<>>
  /\ Len(memory) < MaxMemory
  /\ memory' = Append(memory, Head(cons[c].entries))
  /\ Goto(c, [cons[c] EXCEPT !.entries = Tail(@)])
  /\ UNCHANGED <<policy, jobs, artifacts, findings, plans, used>>

\* All stored, or an exception, which is reported with the plan, or the end of
\* the console.
EndWriteback(c) ==
  /\ cons[c].pc = "remember"
  /\ Goto(c, Idle)
  /\ UNCHANGED <<policy, jobs, artifacts, findings, memory, plans, used>>

-----------------------------------------------------------------------------
(* apply_plan.                                                             *)

\* The plan, its proposals and the policy are read.  Without a selection the
\* pending ones are taken, with one the selected ones whatever their state (in
\* the order of their indices here; indices given twice are refused).
Apply(c, p, selection) ==
  LET rows == plans[p].rows
      taken == IF selection = {} THEN {i \in Proposed(rows) : rows[i].apply = "pending"}
                                 ELSE selection
  IN /\ cons[c].pc = "idle"
     /\ used.applies < MaxApplies
     /\ cons' = [d \in Console |->
          IF d = c
            THEN [Idle EXCEPT !.pc = "apply", !.plan = p, !.rows = rows, !.policy = policy,
                              !.todo = InOrder(taken), !.apply = used.applies + 1,
                              !.alone = Applying(p) = {}]
            ELSE [cons[d] EXCEPT !.alone = @ /\ d \notin Applying(p)]]
     /\ used' = [used EXCEPT !.applies = @ + 1]
     /\ plans' = [plans EXCEPT ![p].torn = plans[p].torn \/ Applying(p) # {}]
     /\ UNCHANGED <<policy, jobs, artifacts, findings, memory>>

SkipApplied(c) ==
  /\ cons[c].pc = "apply" /\ cons[c].todo # <<>>
  /\ IsApplied(cons[c].rows[Head(cons[c].todo)])
  /\ Goto(c, [cons[c] EXCEPT !.todo = Tail(@)])
  /\ UNCHANGED <<policy, jobs, artifacts, findings, memory, plans, used>>

\* A proposal that no longer passes is saved as skipped.
SkipInvalid(c) ==
  LET i == Head(cons[c].todo)
      row == cons[c].rows[i]
      skipped == [row EXCEPT !.apply = "skipped"]
  IN /\ cons[c].pc = "apply" /\ cons[c].todo # <<>>
     /\ ~IsApplied(row) /\ ~StillValid(cons[c].policy, row)
     /\ plans' = SaveRow(cons[c].plan, i, skipped)
     /\ Goto(c, [cons[c] EXCEPT !.todo = Tail(@), !.changed = TRUE, !.rows[i] = skipped])
     /\ UNCHANGED <<policy, jobs, artifacts, findings, memory, used>>

\* JobService.create_job commits before the proposal is saved.
CreateJob(c) ==
  LET i == Head(cons[c].todo)
      row == cons[c].rows[i]
  IN /\ cons[c].pc = "apply" /\ cons[c].todo # <<>>
     /\ ~IsApplied(row) /\ StillValid(cons[c].policy, row)
     /\ Len(jobs) < MaxJobs
     /\ jobs' = Append(jobs, NewJob(c, i, row))
     /\ Goto(c, [cons[c] EXCEPT !.pc = "link", !.job = Len(jobs) + 1])
     /\ UNCHANGED <<policy, artifacts, findings, memory, plans, used>>

Link(c) ==
  LET i == Head(cons[c].todo)
      linked == Linked(cons[c].rows[i], cons[c].job)
  IN /\ cons[c].pc = "link"
     /\ plans' = SaveRow(cons[c].plan, i, linked)
     /\ Goto(c, [cons[c] EXCEPT !.pc = "apply", !.todo = Tail(@), !.changed = TRUE,
                                !.rows[i] = linked])
     /\ UNCHANGED <<policy, jobs, artifacts, findings, memory, used>>

\* The proposals are listed again; without a change that is all.
ListRows(c) ==
  LET p == cons[c].plan
  IN /\ cons[c].pc = "apply" /\ cons[c].todo = <<>>
     /\ Goto(c, IF cons[c].changed
                  THEN [cons[c] EXCEPT !.pc = "save", !.rows = plans[p].rows] ELSE Idle)
     /\ UNCHANGED <<policy, jobs, artifacts, findings, memory, plans, used>>

SavePlan(c) ==
  LET p == cons[c].plan
  IN /\ cons[c].pc = "save"
     /\ plans' = [plans EXCEPT ![p].status = Derived(plans[p].status, cons[c].rows),
                               ![p].torn = plans[p].torn /\ ~cons[c].alone]
     /\ Goto(c, Idle)
     /\ UNCHANGED <<policy, jobs, artifacts, findings, memory, used>>

-----------------------------------------------------------------------------
(* The rest of the system.                                                 *)

SavePolicy(p) ==
  /\ used.patches < MaxPatches /\ p # policy
  /\ policy' = p
  /\ used' = [used EXCEPT !.patches = @ + 1]
  /\ UNCHANGED <<jobs, artifacts, findings, memory, plans, cons>>

\* A job succeeds: its artifact and the findings on it are stored.
Succeed(k, flaws) ==
  /\ ~jobs[k].done
  /\ jobs' = [jobs EXCEPT ![k].done = TRUE]
  /\ artifacts' = Append(artifacts, Evidence(jobs[k].tool, jobs[k].target, jobs[k].args))
  /\ findings' = findings \o SetToSeq(Findings(jobs[k].tool, jobs[k].target, jobs[k].args, flaws))
  /\ UNCHANGED <<policy, memory, plans, cons, used>>

\* confirm_finding, dismiss_finding.
CloseFinding(k) ==
  /\ findings[k].open
  /\ findings' = [findings EXCEPT ![k].open = FALSE]
  /\ UNCHANGED <<policy, jobs, artifacts, memory, plans, cons, used>>

\* A console dies and leaves the plan it was applying torn.
Crash(c) ==
  /\ cons[c].pc \in {"apply", "link", "save"}
  /\ used.crashes < MaxCrashes
  /\ used' = [used EXCEPT !.crashes = @ + 1]
  /\ plans' = [p \in DOMAIN plans |-> [plans[p] EXCEPT !.torn = @ \/ c \in Applying(p)]]
  /\ Goto(c, Idle)
  /\ UNCHANGED <<policy, jobs, artifacts, findings, memory>>

-----------------------------------------------------------------------------
Planning(c) ==
  \/ \E answer \in Answers : CreatePlan(c, answer)
  \/ Derive(c) \/ Remember(c) \/ EndWriteback(c)

Application(c) ==
  \/ \E p \in DOMAIN plans : \E s \in SUBSET Proposed(plans[p].rows) : Apply(c, p, s)
  \/ SkipApplied(c) \/ SkipInvalid(c) \/ CreateJob(c) \/ Link(c)
  \/ ListRows(c) \/ SavePlan(c)

Next ==
  \/ \E c \in Console : Planning(c) \/ Application(c) \/ Crash(c)
  \/ \E p \in Policies : SavePolicy(p)
  \/ \E k \in DOMAIN jobs : Succeed(k, {}) \/ Succeed(k, {"tls_expired_certificate"})
  \/ \E k \in DOMAIN findings : CloseFinding(k)

Spec == Init /\ [][Next]_vars

-----------------------------------------------------------------------------
(* Properties.                                                             *)

\* The tables hold what the service writes: an applied proposal names a job
\* made of it, and a memory entry is of a host some job worked on.
TypeOK ==
  /\ policy \in Policies
  /\ \A p \in DOMAIN plans :
       /\ plans[p].status \in {"proposed", "partially_applied", "applied"}
       /\ \A i \in DOMAIN plans[p].rows :
            LET row == plans[p].rows[i]
            IN /\ row.kind \in {"proposed", "skipped", "blocked"}
               /\ row.apply \in {"pending", "applied", "skipped"}
               /\ row.apply = "applied" =>
                    /\ row.job \in DOMAIN jobs
                    /\ jobs[row.job].plan = p /\ jobs[row.job].row = i
  /\ \A k \in DOMAIN memory : \E j \in DOMAIN jobs : memory[k].key.host = jobs[j].target.host

\* planner_runtime.py:484: whatever the model answers or the facts are, a plan
\* proposes at most MaxProposed jobs, numbered from 1 so that a selection by
\* index names one of them, each allowed by the policy it was made under; and
\* the fallback never proposes one job twice.
PlanSound ==
  \A p \in DOMAIN plans :
    LET rows == plans[p].rows
        n == Cardinality(Proposed(rows))
    IN /\ n <= MaxProposed
       /\ {rows[i].index : i \in Proposed(rows)} = 1..n
       /\ \A i \in Proposed(rows) : Revalidated(plans[p].policy, rows[i])
       /\ plans[p].source = "fallback" =>
            \A i, j \in Proposed(rows) :
              i # j => <<rows[i].tool, rows[i].target>> # <<rows[j].tool, rows[j].target>>

\* planner_service.py:126: no job is created that the policy does not allow as
\* it stands when the apply begins, though the plan was made under another one.
JobsWereAllowed ==
  \A k \in DOMAIN jobs :
    Precheck(jobs[k].tool, jobs[k].target, jobs[k].args, jobs[k].policy) = "proposed"

\* planner_service.py:126 and planner_runtime.py:484: both, of what a plan
\* proposes and of what becomes of it.
JobsAllowed == PlanSound /\ JobsWereAllowed

\* planner_service.py:123: one apply creates one job of a proposal at most, and
\* none of a proposal that already named a job when it was read, so that two
\* jobs of one proposal are the work of a console that died or of two that
\* applied the plan at once.
TwiceOnlyByRace ==
  \A j, k \in DOMAIN jobs :
    j < k /\ jobs[j].plan = jobs[k].plan /\ jobs[j].row = jobs[k].row
      => jobs[j].apply # jobs[k].apply /\ jobs[k].named = 0

\* planner_service.py:159: when no apply is under way, and the last one was alone
\* and came to its end, the status of a plan sums up its proposals.
StatusSumsUp ==
  \A p \in DOMAIN plans :
    LET states == {plans[p].rows[i].apply : i \in Proposed(plans[p].rows)}
    IN ~plans[p].torn /\ Applying(p) = {} =>
         /\ plans[p].status = "applied" <=> states = {"applied"}
         /\ plans[p].status = "proposed" <=> states \subseteq {"pending"}

\* planner_service.py:123 and 159: the rows that applies leave behind, saved one
\* by one, tell which jobs there are and how far the plan is.
ApplyKept == TwiceOnlyByRace /\ StatusSumsUp
=============================================================================
