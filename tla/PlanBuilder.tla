----------------------------- MODULE PlanBuilder ------------------------------
(***************************************************************************)
(* What the planner runtime makes of the facts of a session: the           *)
(* candidates of a model's answer or of the fallback, which of them become *)
(* proposals under the policy, and the memory entries the facts are worth. *)
(* Summaries and rationales are text and left out; facts come newest first *)
(* and are fewer than the limits (50, 20 and 10) of the queries.           *)
(***************************************************************************)
EXTENDS SecurityTools, SequencesExt, Integers

CONSTANTS
  MaxProposed,     \* MAX_PROPOSED_JOBS, 5 in the code
  MaxContextItems, \* MAX_CONTEXT_ITEMS, 5 in the code
  Garbage          \* an entry of a model's answer that is no usable object

ASSUME PlanAssumption ==
  /\ MaxProposed \in Nat \ {0} /\ MaxContextItems \in Nat
  /\ Domain \subseteq Host

\* The members of a finite set of numbers, in ascending order.
InOrder(S) ==
  [n \in 1..Cardinality(S) |-> CHOOSE i \in S : Cardinality({j \in S : j <= i}) = n]

-----------------------------------------------------------------------------
(* Candidates.                                                             *)

Candidate(tool, target, args, retry) ==
  [tool |-> tool, target |-> target, args |-> args, retry |-> retry, forced |-> FALSE]

\* Forced to be skipped: malformed, a duplicate, or nothing to propose at all.
Forced(candidate) == [candidate EXCEPT !.forced = TRUE]
Nothing == Forced(Candidate("unknown", Malformed, DefaultArgs, 0))

DnsOf(h)   == Candidate("dns_lookup", Plain(h), DefaultArgs, 0)
HttpOf(t)  == Candidate("http_probe", t, DefaultArgs, 0)
\* _tls_target_from_value: the port of the text, or 443.  (A URL with the
\* scheme http and no port of its own has 443 here.)
TlsTarget(t) == IF t.url \/ t.port = Unknown THEN Socket(t.host, "443") ELSE t
TlsOf(t)     == Candidate("tls_inspect", TlsTarget(t), DefaultArgs, 0)

When(condition, candidate) == IF condition THEN candidate ELSE Nothing

FromFinding(f) ==
  <<When(f.type \in TlsFlaw, TlsOf(f.ref)),
    IF f.ref.url THEN HttpOf(f.ref) ELSE DnsOf(f.ref.host)>>

FromArtifact(a) ==
  LET web == a.type = "http_response" /\ a.ref.url
  IN <<When(web, HttpOf(a.ref)),
       When(a.type = "tls_certificate" \/ (web /\ a.ref.protocol = "https"), TlsOf(a.ref))>>

FromMemory(e) ==
  <<When(e.type \in {"service", "host", "workflow_rule"}, DnsOf(e.key.host)),
    When(e.type \in {"web", "service"}, HttpOf(Web(e.key.host, "https"))),
    When(e.type \in {"web", "service"}, HttpOf(Web(e.key.host, "http"))),
    When(e.type \in {"tls", "service"}, TlsOf(Plain(e.key.host)))>>

FromSeed(h) ==
  <<DnsOf(h), HttpOf(Web(h, "https")), HttpOf(Web(h, "http")), TlsOf(Plain(h))>>

FirstItems(seq) == SubSeq(seq, 1, Min({Len(seq), MaxContextItems}))

Seeds(policy) == SetToSeq(policy.hosts) \o SetToSeq(policy.domains \ policy.hosts)

Each(Op(_), seq) == [i \in DOMAIN seq |-> Op(seq[i])]

\* What each fact gives, four candidates at most.
Slots(context) ==
  Each(FromFinding, context.findings)
    \o Each(FromArtifact, FirstItems(context.artifacts))
    \o Each(FromMemory, FirstItems(context.memory))
    \o Each(FromSeed, FirstItems(Seeds(context.policy)))

\* The k-th candidate of the i-th fact has the place 4 * i + k - 1.
SlotAt(slots, n) == slots[n \div 4][(n % 4) + 1]

\* The first of each that are equal.
FirstOfEach(slots) ==
  LET places == {n \in 4..(4 * Len(slots) + 3) :
                   n % 4 < Len(slots[n \div 4]) /\ SlotAt(slots, n) # Nothing}
  IN {n \in places : \A m \in places : m < n => SlotAt(slots, m) # SlotAt(slots, n)}

\* _build_fallback_candidates.
FallbackCandidates(context) ==
  LET slots == Slots(context)
      at    == InOrder(FirstOfEach(slots))
  IN IF at = <<>> THEN <<Nothing>> ELSE [k \in DOMAIN at |-> SlotAt(slots, at[k])]

\* _normalize_model_candidates: the retry limit counts as it was sent, negative
\* or not, and is made a natural number afterwards.
ModelCandidates(answer) ==
  LET raw   == SubSeq(answer, 1, Min({Len(answer), MaxProposed + 3}))
      Twin(i) == \E j \in 1..(i - 1) : raw[j] = raw[i]
  IN [i \in DOMAIN raw |->
       IF raw[i] = Garbage THEN Nothing
       ELSE IF raw[i].target = Malformed THEN Forced(raw[i])
       ELSE IF Twin(i) THEN Forced(raw[i])
       ELSE [raw[i] EXCEPT !.retry = Max({0, @})]]

-----------------------------------------------------------------------------
(* Proposals.                                                              *)

\* A row of planner_proposals; number 0 stands for no job and for no index.
Proposal(candidate, kind) ==
  [tool |-> candidate.tool, target |-> candidate.target, args |-> candidate.args,
   retry |-> candidate.retry, kind |-> kind, index |-> 0, apply |-> "pending", job |-> 0]

\* _precheck_candidate.
Prechecked(policy, candidate) ==
  Proposal(candidate,
           IF candidate.forced THEN "skipped"
           ELSE Precheck(candidate.tool, candidate.target, candidate.args, policy))

\* The n-th proposal is beyond the planner's output limit.
Trimmed(n) == n > MaxProposed

\* _finalize_result.
Finalized(policy, candidates) ==
  LET rows == [i \in DOMAIN candidates |-> Prechecked(policy, candidates[i])]
      Nth(i) == Cardinality({j \in 1..i : rows[j].kind = "proposed"})
  IN [i \in DOMAIN rows |->
       IF rows[i].kind # "proposed" THEN rows[i]
       ELSE IF Trimmed(Nth(i)) THEN [rows[i] EXCEPT !.kind = "skipped"]
       ELSE [rows[i] EXCEPT !.index = Nth(i)]]

Proposed(rows) == {i \in DOMAIN rows : rows[i].kind = "proposed"}

\* PlannerRuntime.create_plan: the model's plan if it proposes anything.
BuiltPlan(context, answer) ==
  LET model == Finalized(context.policy, ModelCandidates(answer))
  IN IF Proposed(model) # {}
       THEN [source |-> "model", rows |-> model]
       ELSE [source |-> "fallback",
             rows |-> Finalized(context.policy, FallbackCandidates(context))]

\* revalidate_proposal, with the policy of the moment.
Revalidated(policy, row) ==
  Precheck(row.tool, row.target, row.args, policy) = "proposed"

-----------------------------------------------------------------------------
(* Memory candidates.                                                      *)

\* _build_memory_candidate: the key is the host, or the socket for tls.
Entry(type, ref, origin) ==
  [type |-> type, origin |-> origin,
   key |-> IF type = "tls" THEN TlsTarget(ref) ELSE Plain(ref.host)]

TypeOfTool == [dns_lookup |-> "host", http_probe |-> "web", tls_inspect |-> "tls",
               port_scan |-> "host", banner_grab |-> "host"]
TypeOfEvidence == [dns_response |-> "host", http_response |-> "web",
                   tls_certificate |-> "tls", port_scan |-> "host", banner |-> "host"]

\* _candidate_from_finding, _is_tls_target.
TypeOfFinding(f) ==
  IF \/ f.type \in TlsFlaw
     \/ f.ref.url /\ f.ref.protocol = "https"
     \/ ~f.ref.url /\ f.ref.port = "443"
  THEN "tls" ELSE IF f.ref.url THEN "web" ELSE "host"

\* derive_memory_candidates_from_context: no two facts are the same origin, so
\* no candidate is a duplicate of another.
MemoryOf(context) ==
  LET Job(j)  == Entry(TypeOfTool[j.tool], j.target, <<"job", j.id>>)
      Item(a) == Entry(TypeOfEvidence[a.type], a.ref, <<"artifact", a.id>>)
      Flaw(f) == Entry(TypeOfFinding(f), f.ref, <<"finding", f.id>>)
  IN [i \in DOMAIN context.jobs |-> Job(context.jobs[i])]
       \o [i \in DOMAIN context.artifacts |-> Item(context.artifacts[i])]
       \o [i \in DOMAIN context.findings |-> Flaw(context.findings[i])]
=============================================================================
