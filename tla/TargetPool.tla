----------------------------- MODULE TargetPool ------------------------------
(***************************************************************************)
(* The targets of one project and its scope policy.  The event loop serves *)
(* the operator: proposals, approvals, rejections, changes of the policy   *)
(* and requests for scans, one handler at a time.  The thread of an agent  *)
(* turn proposes targets and scans them meanwhile.  Every repository call  *)
(* is a transaction of its own, no save has a guard, and each handler      *)
(* works on what it read first.                                            *)
(***************************************************************************)
EXTENDS Scope, Naturals

CONSTANTS
  Value,       \* targets that are proposed, as they are written
  Scanned,     \* what a scan is given: a host or a URL of it
  Loop, Agent, \* the two that call the service
  KeyOf,       \* _rejection_key: an IP itself, of a name the last two labels
  Patches,     \* changes of the policy an operator sends: field -> new value
  MaxTargets,  \* bound: rows of ctf_targets
  MaxScans,    \* bound: scan tasks
  MaxDecisions \* bound: approvals, rejections and patches

Actor == {Loop, Agent}

ASSUME PoolAssumption ==
  /\ Loop # Agent
  /\ \A v \in Value \cup Scanned :
       v.host \in Host /\ v.url \in BOOLEAN /\ DOMAIN v = {"host", "url", "port", "protocol"}
  /\ DOMAIN KeyOf = Host
  /\ \A p \in Patches : DOMAIN p \subseteq DOMAIN EmptyPolicy
  /\ MaxTargets \in Nat /\ MaxScans \in Nat /\ MaxDecisions \in Nat

VARIABLES
  policy,   \* the row of the project's policy
  pool,     \* table ctf_targets in the order of insertion: value, status
  last,     \* kind of the last event recorded of each target
  scans,    \* scan tasks: target, value, state, banned (history)
  act,      \* what each actor is doing and what it has read
  decided,  \* number of decisions
  approved, \* history: targets approved since the last patch
  banned    \* history: hosts whose plain target was rejected since the last patch

vars == <<policy, pool, last, scans, act, decided, approved, banned>>

Id == 1..Len(pool)

\* No row in ctf_project_scope_policies.
NoPolicy == <<>>

Idle == [pc |-> "idle", id |-> 0, value |-> Malformed, status |-> "none",
         seen |-> 0, barred |-> FALSE, banned |-> {}]

Init ==
  /\ policy = NoPolicy
  /\ pool = <<>> /\ last = <<>>
  /\ scans = {}
  /\ act = [a \in Actor |-> Idle]
  /\ decided = 0
  /\ approved = {} /\ banned = {}

-----------------------------------------------------------------------------
(* Plausible slips, for the mutant runs.                                   *)

\* A rejection is kept in the pool only.
WithDenialMutant(p, v) == p
\* The key of a rejected target is compared with the host proposed.
SameKeyMutant(v, w) == v.host = w.host
\* The policy is read and never created.
CreatedMutant(p) == p
\* Every decision is reported as an approval.
EventOfMutant(status) == "approved"

-----------------------------------------------------------------------------
(* Helpers.                                                                *)

Set(a, step) == act' = [act EXCEPT ![a] = step]

NewTarget(v, status) == [value |-> v, status |-> status]

\* The pool once a target is saved with this status.
Decided(id, status) == [pool EXCEPT ![id].status = status]

\* The policy once the fields that were sent are saved.
Patched(p, change) == [f \in DOMAIN p |-> IF f \in DOMAIN change THEN change[f] ELSE p[f]]

\* _append_unique on denied_targets.
WithDenial(p, v) == [p EXCEPT !.denied = @ \cup {v}]

SameKey(v, w) == KeyOf[v.host] = KeyOf[w.host]

\* find_by_value.
Known(v) == \E i \in Id : pool[i].value = v

\* History: a target of this key is rejected.
Barred(v) ==
  \E i \in Id : pool[i].status = "rejected" /\ KeyOf[pool[i].value.host] = KeyOf[v.host]

\* find_rejected_by_key.
RejectedKey(v) == \E i \in Id : pool[i].status = "rejected" /\ SameKey(pool[i].value, v)

\* require_scope_policy inserts an empty policy.
Created(p) == EmptyPolicy

\* The event recorded with a decision on a target that is now in this status.
EventOf(status) == IF status = "active" THEN "approved" ELSE "rejected"
CreationEvent(status) ==
  CASE status = "active"   -> "accepted"
    [] status = "rejected" -> "rejected"
    [] status = "pending"  -> "review_required"

ProposalRequest(v) ==
  [tool |-> "target_admission", category |-> "recon", ports |-> {}, skip |-> TRUE,
   targets |-> <<[text |-> v, protocol |-> v.protocol, port |-> v.port]>>]

\* The status a new row gets by the verdict on its value.
ProposedStatus(p, v) ==
  LET verdict == Evaluate(p, ProposalRequest(v))
  IN CASE verdict = "allowed"       -> "active"
       [] verdict = "target_denied" -> "rejected"
       [] OTHER                     -> "pending"

-----------------------------------------------------------------------------
(* propose_target, by the route or by the agent.                           *)

\* find_by_value: a target that is known is returned as it is.
Propose(a, v) ==
  /\ act[a].pc = "idle"
  /\ ~Known(v)
  /\ Set(a, [Idle EXCEPT !.pc = "key", !.value = v, !.barred = Barred(v)])
  /\ UNCHANGED <<policy, pool, last, scans, decided, approved, banned>>

MatchKey(a) ==
  /\ act[a].pc = "key"
  /\ Set(a, IF RejectedKey(act[a].value)
              THEN [act[a] EXCEPT !.pc = "number", !.status = "rejected"]
              ELSE [act[a] EXCEPT !.pc = "policy"])
  /\ UNCHANGED <<policy, pool, last, scans, decided, approved, banned>>

\* require_scope_policy finds the policy, and the verdict on it follows.
ReadPolicy(a) ==
  /\ act[a].pc = "policy"
  /\ Set(a, IF policy = NoPolicy
              THEN [act[a] EXCEPT !.pc = "create"]
              ELSE [act[a] EXCEPT !.pc = "number",
                                  !.status = ProposedStatus(policy, act[a].value)])
  /\ UNCHANGED <<policy, pool, last, scans, decided, approved, banned>>

\* The row of the policy is unique: of two that create it one fails, and its
\* proposal with it.
CreatePolicy(a) ==
  /\ act[a].pc = "create"
  /\ IF policy = NoPolicy
       THEN /\ policy' = Created(policy)
            /\ Set(a, [act[a] EXCEPT !.pc = "number",
                                     !.status = ProposedStatus(EmptyPolicy, act[a].value)])
       ELSE Set(a, Idle) /\ UNCHANGED policy
  /\ UNCHANGED <<pool, last, scans, decided, approved, banned>>

\* allocate_public_id.
Number(a) ==
  /\ act[a].pc = "number"
  /\ Set(a, [act[a] EXCEPT !.pc = "insert", !.seen = Len(pool)])
  /\ UNCHANGED <<policy, pool, last, scans, decided, approved, banned>>

\* The identifier is unique: an insert that was overtaken fails.
Insert(a) ==
  /\ act[a].pc = "insert"
  /\ IF act[a].seen = Len(pool)
       THEN /\ Len(pool) < MaxTargets
            /\ pool' = Append(pool, NewTarget(act[a].value, act[a].status))
            /\ last' = Append(last, "none")
            /\ Set(a, [act[a] EXCEPT !.pc = "event", !.id = Len(pool) + 1])
       ELSE Set(a, Idle) /\ UNCHANGED <<pool, last>>
  /\ UNCHANGED <<policy, scans, decided, approved, banned>>

RecordProposal(a) ==
  /\ act[a].pc = "event"
  /\ last' = [last EXCEPT ![act[a].id] = CreationEvent(act[a].status)]
  /\ Set(a, Idle)
  /\ UNCHANGED <<policy, pool, scans, decided, approved, banned>>

-----------------------------------------------------------------------------
(* The decisions of the operator, each in several saves.                   *)

Decide == /\ act[Loop].pc = "idle"
          /\ decided < MaxDecisions
          /\ decided' = decided + 1

\* approve_target: the policy is saved, then the target, then the event.
Approve(id) ==
  /\ Decide
  /\ policy' = WithTarget(policy, pool[id].value)
  /\ Set(Loop, [Idle EXCEPT !.pc = "activate", !.id = id])
  /\ approved' = approved \cup {id}
  /\ UNCHANGED <<pool, last, scans, banned>>

Activate ==
  /\ act[Loop].pc = "activate"
  /\ pool' = Decided(act[Loop].id, "active")
  /\ act' = [a \in Actor |->
               IF a = Loop THEN [act[a] EXCEPT !.pc = "decided"]
                           ELSE [act[a] EXCEPT !.barred = FALSE]]
  /\ UNCHANGED <<policy, last, scans, decided, approved, banned>>

\* reject_target: the target is saved, then the policy, then the event.
Reject(id) ==
  /\ Decide
  /\ pool' = Decided(id, "rejected")
  /\ Set(Loop, [Idle EXCEPT !.pc = "deny", !.id = id])
  /\ UNCHANGED <<policy, last, scans, approved, banned>>

Deny ==
  /\ act[Loop].pc = "deny"
  /\ LET v == pool[act[Loop].id].value
     IN /\ policy' = WithDenial(policy, v)
        /\ banned' = IF v = Plain(v.host) THEN banned \cup {v.host} ELSE banned
  /\ Set(Loop, [act[Loop] EXCEPT !.pc = "decided"])
  /\ UNCHANGED <<pool, last, scans, decided, approved>>

RecordDecision ==
  /\ act[Loop].pc = "decided"
  /\ last' = [last EXCEPT ![act[Loop].id] = EventOf(pool[act[Loop].id].status)]
  /\ Set(Loop, Idle)
  /\ UNCHANGED <<policy, pool, scans, decided, approved, banned>>

\* patch_project_scope replaces the fields that are sent, whatever they were,
\* of the policy or of the empty one it creates first.
Patch(change) ==
  /\ Decide
  /\ policy' = Patched(IF policy = NoPolicy THEN EmptyPolicy ELSE policy, change)
  /\ approved' = {} /\ banned' = {}
  /\ act' = [a \in Actor |-> [act[a] EXCEPT !.banned = {}]]
  /\ UNCHANGED <<pool, last, scans>>

-----------------------------------------------------------------------------
(* Scans: _resolve_scoped_scan_input, then the task row.                   *)

\* What is scanned is the host of the target, or a URL of that host.
ScanRequest(v) ==
  [tool |-> "scan", category |-> "recon", targets |-> <<Asked(v)>>,
   ports |-> {}, skip |-> TRUE]

\* The target must be active and the value one of its host.
RequestScan(a, id, v) ==
  /\ act[a].pc = "idle"
  /\ Cardinality(scans) < MaxScans
  /\ pool[id].status = "active"
  /\ pool[id].value.host = v.host
  /\ Set(a, [Idle EXCEPT !.pc = "gate", !.id = id, !.value = v, !.banned = banned])
  /\ UNCHANGED <<policy, pool, last, scans, decided, approved, banned>>

Gate(a) ==
  /\ act[a].pc = "gate"
  /\ Set(a, IF Evaluate(policy, ScanRequest(act[a].value)) = "allowed"
              THEN [act[a] EXCEPT !.pc = "task"] ELSE Idle)
  /\ UNCHANGED <<policy, pool, last, scans, decided, approved, banned>>

CreateTask(a) ==
  /\ act[a].pc = "task"
  /\ Cardinality(scans) < MaxScans
  /\ scans' = scans \cup {[n |-> Cardinality(scans) + 1, id |-> act[a].id, value |-> act[a].value,
                           state |-> "queued", banned |-> act[a].banned]}
  /\ Set(a, Idle)
  /\ UNCHANGED <<policy, pool, last, decided, approved, banned>>

\* execute_pending_task looks at the task only.
StartScan(s) ==
  /\ s.state = "queued"
  /\ scans' = (scans \ {s}) \cup {[s EXCEPT !.state = "started"]}
  /\ UNCHANGED <<policy, pool, last, act, decided, approved, banned>>

-----------------------------------------------------------------------------
Proposal(a) ==
  \/ \E v \in Value : Propose(a, v)
  \/ MatchKey(a) \/ ReadPolicy(a) \/ CreatePolicy(a)
  \/ Number(a) \/ Insert(a) \/ RecordProposal(a)

Scan(a) ==
  \/ \E id \in Id, v \in Scanned : RequestScan(a, id, v)
  \/ Gate(a) \/ CreateTask(a)

Decision ==
  \/ \E id \in Id : Approve(id) \/ Reject(id)
  \/ Activate \/ Deny \/ RecordDecision
  \/ \E change \in Patches : Patch(change)

Next ==
  \/ \E a \in Actor : Proposal(a) \/ Scan(a)
  \/ Decision
  \/ \E s \in scans : StartScan(s)

Spec == Init /\ [][Next]_vars

-----------------------------------------------------------------------------
(* Properties.                                                             *)

Status == {"active", "pending", "rejected"}

\* The tables hold what the service writes, and an actor what its step needs.
TypeOK ==
  /\ policy = NoPolicy \/ DOMAIN policy = DOMAIN EmptyPolicy
  /\ pool \in Seq([value : Value, status : Status]) /\ Len(last) = Len(pool)
  /\ \A s \in scans : s.id \in Id /\ s.value \in Scanned
  /\ \A a \in Actor :
       /\ act[a].pc \in {"key", "policy", "create", "number", "insert"}
            => act[a].value \in Value
       /\ act[a].pc \in {"number", "insert", "event"} => act[a].status \in Status
       /\ act[a].pc \in {"gate", "task", "event", "activate", "deny", "decided"}
            => act[a].id \in Id
  /\ approved \subseteq Id

\* target_admission_service.py:59: no target is in the pool before the project
\* has a policy, though two proposals may find none and one of them fail; so a
\* rejection never stops between its two saves for want of a policy.
PolicyBeforeTargets == pool # <<>> => policy # NoPolicy

\* target_admission_service.py:215: until the operator changes the policy, a
\* target that was approved is in the hosts or domains of the policy, whatever
\* was approved, rejected or proposed since.  (Protocols, ports and the denied
\* list may still stand against it.)
ApprovedStaysInScope ==
  \A id \in approved : InScope(policy, pool[id].value.host)

\* target_admission_service.py:231: once a host was rejected, no scan that is
\* requested afterwards reaches it, through another target of that host, a URL
\* of it or an approval of either, until the operator changes the policy.
DenialBinds == \A s \in scans : s.value.host \notin s.banned

\* target_admission_service.py:131: a proposal that began when its key was
\* rejected, and that no approval overtook, ends as a rejected target.
RejectedKeyBars ==
  [][\A a \in Actor :
       act[a].pc = "insert" /\ act[a].barred /\ pool' # pool /\ act'[a].pc = "event"
         => pool'[Len(pool')].status = "rejected"]_vars

\* target_admission_service.py:221: the event of a proposal may come after that
\* of a decision on its target, but approved is never the last word on a target
\* that is not active, unless the next decision is about to record its own.
ApprovalReportedTrue ==
  \A i \in Id : last[i] = "approved" =>
    pool[i].status = "active" \/ act[Loop].id = i
=============================================================================
