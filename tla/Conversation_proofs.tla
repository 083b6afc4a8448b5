------------------------- MODULE Conversation_proofs --------------------------
(***************************************************************************)
(* What Conversation promises, for any messages, modules, calls, targets   *)
(* and versions of the risk policy, and for any bounds.                    *)
(*                                                                         *)
(* RunsApproved speaks of the step to the tool; it needs that whoever is   *)
(* past the gate was approved if it had to be (Cleared), and that the      *)
(* future of a request says what was answered first (Answered), which      *)
(* holds because a request and a wait belong to one run.  RunsInScope      *)
(* needs that the call in hand is the one whose scope was checked, and     *)
(* what an evaluated policy of the session says of its targets.  That the  *)
(* summary includes a turn needs what a compression that is under way was  *)
(* given (Seen).                                                           *)
(***************************************************************************)
EXTENDS Conversation, TLAPS

-----------------------------------------------------------------------------
(* The inductive invariant.                                                *)

\* Places of a run with a call in its hands, of messages alone, and of those
\* that have an outcome to tell.
Held    == {"risk", "waiting", "prompting", "local", "running"}
OfTurns == {"waiting", "appending", "extending", "compressing"}
Closing == {"appending", "extending", "compressing", "ending"}

\* The call in hand came through the scope of the session, and the risk policies
\* of which it may be asked include the one of the moment.
InHand ==
  \A r \in Run :
    IF pc[r] \in Held
      THEN /\ call[r] # NoCall /\ risk \in inForce[r]
           /\ Mode = "redteam" => InSessionScope(Targets[r], call[r])
      ELSE call[r] = NoCall /\ answered[r] = "none"

Placed ==
  \A r \in Run :
    /\ pc[r] \in OfTurns => r \in Message
    /\ pc[r] = "prompting" => r \in Invocation
    /\ pc[r] = "risk" =>
         Mode = "redteam" /\ Access(Mode, call[r]) # "confirm" /\ answered[r] = "none"
    /\ pc[r] \notin Closing => outcome[r] = "none"

\* The future of a request tells the first answer, unless the wait is over.
Answered ==
  \A m \in Message : pc[m] = "waiting" =>
    /\ pending[Id(m)] = "waiting" => answered[m] = "none"
    /\ pending[Id(m)] \in {"approve", "deny"} => answered[m] = pending[Id(m)]
    /\ pending[Id(m)] = "cancelled" => m \in expired

\* Past the gate.
Cleared ==
  \A r \in Run : pc[r] = "local" /\ MustAsk(r) => answered[r] = "approve" /\ r \notin expired

\* A turn that the next summary is to include was given to whoever makes one.
Seen ==
  \A c, m \in Message : pc[c] = "compressing" /\ age[m] = 1 => m \in snapshot[c] \cup crowded

IInv == TypeOK /\ InHand /\ Placed /\ Answered /\ Cleared /\ Seen /\ SummaryIncludesTurn

-----------------------------------------------------------------------------
(* The scope of a session.                                                 *)

Allows(policy, request) == request # Refused /\ Evaluate(policy, request) = "allowed"

LEMMA AllowedTarget ==
  ASSUME NEW policy, NEW text, NEW protocol, NEW port, NEW ports, NEW rest,
         IsText(text),
         TargetVerdict(policy, ports, At(text, protocol, port)) = "allowed"
  PROVE  InScope(policy, text.host)
<1> DEFINE t == [text EXCEPT !.protocol = IF @ = Unknown THEN protocol ELSE @,
                      !.port = IF @ = Unknown THEN port ELSE @]
<1>1. t.host = text.host
  BY DEF IsText
<1>2. Describe(At(text, protocol, port)) \in {t, Malformed}
  BY DEF Describe, At
<1>3. Describe(At(text, protocol, port)) # Malformed
  BY DEF TargetVerdict
<1> QED BY <1>1, <1>2, <1>3 DEF TargetVerdict

LEMMA OneTarget ==
  ASSUME NEW policy, NEW request, NEW target, request.targets = <<target>>,
         Evaluate(policy, request) = "allowed"
  PROVE  TargetVerdict(policy, request.ports, target) = "allowed"
<1> DEFINE verdict == [i \in DOMAIN request.targets |->
                         TargetVerdict(policy, request.ports, request.targets[i])]
           failing == {i \in DOMAIN verdict : verdict[i] # "allowed"}
<1>1. DOMAIN verdict = {1} /\ verdict[1] = TargetVerdict(policy, request.ports, target)
  OBVIOUS
<1>2. CASE failing = {1}
  <2>1. Min(failing) = 1
    <3>1. \A S : S = {1} => Min(S) = 1
      BY DEF Min
    <3> QED BY <1>2, <3>1
  <2>2. Evaluate(policy, request) = verdict[1]
    BY <1>2, <2>1 DEF Evaluate
  <2> QED BY <1>1, <2>2, <1>2
<1>3. CASE failing = {}
  BY <1>1, <1>3
<1> QED BY <1>1, <1>2, <1>3

LEMMA GateInScope ==
  ASSUME NEW policy, NEW asked, asked.tool \in ToolName,
         asked.target = Malformed \/ IsText(asked.target),
         Allows(policy, GateRequest(asked, policy))
  PROVE  IsText(asked.target) /\ InScope(policy, asked.target.host)
<1> DEFINE request == Validate(asked.tool, asked.target, asked.args, policy)
           host == asked.target.host
<1>1. request # Refused
  BY DEF Allows, GateRequest
<1>2. IsText(asked.target) /\ asked.args.valid
  BY <1>1 DEF Validate
<1>3. ASSUME NEW text, NEW protocol, NEW port, IsText(text), text.host = host,
             GateRequest(asked, policy).targets = <<At(text, protocol, port)>>
      PROVE  InScope(policy, host)
  BY <1>3, OneTarget, AllowedTarget DEF Allows
<1>4. CASE asked.tool = "dns_lookup"
  <2>1. request = DnsRequest(asked.target, asked.args)
    BY <1>1, <1>4 DEF Validate
  <2>2. GateRequest(asked, policy).targets = <<At(asked.target, "dns", "53")>>
    BY <1>1, <1>4, <2>1 DEF GateRequest, DnsRequest, Request
  <2> QED BY <1>2, <1>3, <2>2
<1>5. CASE asked.tool # "dns_lookup"
  <2>1. GateRequest(asked, policy) = request
    BY <1>5 DEF GateRequest
  <2>2. CASE asked.tool = "http_probe"
    BY <1>1, <1>2, <1>3, <2>1, <2>2 DEF Validate, Request, HttpRequest
  <2> DEFINE socket(port) == Socket(host, port)
  <2>3. \A port : IsText(socket(port)) /\ socket(port).host = host
    BY <1>2 DEF Socket, IsText
  <2>4. IsText(Plain(host)) /\ Plain(host).host = host
    BY <1>2 DEF Plain, IsText
  <2>5. CASE asked.tool = "tls_inspect"
    BY <1>1, <1>3, <2>1, <2>3, <2>5 DEF Validate, Request, TlsRequest
  <2>6. CASE asked.tool = "banner_grab"
    <3> DEFINE ports == IF asked.target.port # Unknown THEN {asked.target.port} ELSE asked.args.ports
               port  == CHOOSE p \in ports : TRUE
    <3>1. request = BannerRequest(asked.target, asked.args)
      BY <1>1, <2>6 DEF Validate
    <3>2. request = Request("banner_grab", <<At(socket(port), "tcp", port)>>, {})
      BY <1>1, <3>1 DEF BannerRequest
    <3>3. GateRequest(asked, policy).targets = <<At(socket(port), "tcp", port)>>
      BY <2>1, <3>2 DEF Request
    <3>4. IsText(socket(port)) /\ socket(port).host = host
      BY <2>3
    <3> HIDE DEF port, socket
    <3> QED BY <1>2, <1>3, <3>3, <3>4
  <2>7. CASE asked.tool = "port_scan"
    BY <1>1, <1>3, <2>1, <2>4, <2>7 DEF Validate, Request, PortScanRequest
  <2> QED BY <1>5, <2>2, <2>5, <2>6, <2>7 DEF ToolName
<1> QED BY <1>2, <1>4, <1>5

LEMMA SessionScopeCovers ==
  ASSUME NEW targets, \A t \in targets : t.kind \in {"cidr", "domain", "host", "ip", "url"},
         NEW category, NEW h \in Host, InScope(SessionPolicy(targets, category), h)
  PROVE  \/ targets = {} \/ \E t \in targets : Covers(t, h)
         \/ h \in IP /\ \A t \in targets : t.kind = "domain"
<1> DEFINE policy == SessionPolicy(targets, category)
<1>1. /\ policy.hosts = {t.value.host : t \in Named(targets, {"host", "ip", "url"})}
      /\ policy.domains = {IF t.value.port = Unknown THEN t.value.host ELSE Misread
                             : t \in Named(targets, {"domain"})}
      /\ policy.cidrs = {t.value : t \in Named(targets, {"cidr"})}
  BY DEF SessionPolicy, EmptyPolicy
<1>2. CASE h \in policy.hosts
  BY <1>1, <1>2 DEF Named, Covers
<1>3. CASE DomainsOf[h] \cap policy.domains # {}
  BY <1>1, <1>3, MisreadAssumption DEF Named, Covers
<1>4. CASE CidrsOf[h] \cap policy.cidrs # {}
  BY <1>1, <1>4 DEF Named, Covers
<1>5. CASE policy.hosts = {} /\ policy.cidrs = {} /\ (h \in IP \/ policy.domains = {})
  <2>1. \A t \in targets : t.kind = "domain"
    <3>1. \A t \in targets : t.value.host \notin policy.hosts /\ t.value \notin policy.cidrs
      BY <1>5
    <3> QED BY <1>1, <3>1 DEF Named
  <2>2. CASE h \in IP
    BY <2>1, <2>2
  <2>3. CASE policy.domains = {}
    <3>1. \A t \in targets :
            (IF t.value.port = Unknown THEN t.value.host ELSE Misread) \notin policy.domains
      BY <2>3
    <3> QED BY <1>1, <2>1, <3>1 DEF Named
  <2> QED BY <1>5, <2>2, <2>3
<1> QED BY <1>2, <1>3, <1>4, <1>5 DEF InScope, Listed
\* The type invariant without the confirmations, and the confirmations.
Typed ==
  /\ pc \in [Run -> {"idle", "choosing", "risk", "waiting", "prompting", "local",
                     "running", "appending", "extending", "compressing", "ending", "ended"}]
  /\ call \in [Run -> Call \cup Planned \cup {NoCall}]
  /\ calls \in [Run -> Nat]
  /\ outcome \in [Run -> {"none", "completed", "max_steps", "blocked", "failed"}]
  /\ expired \subseteq Message
  /\ told \in [Message -> {"open", "nothing", "answer", "error"}]
  /\ risk \in Version /\ edits \in 0..MaxEdits
  /\ history \subseteq Message \X {"question", "steps"}
  /\ summary \subseteq Message /\ snapshot \in [Message -> SUBSET Message]
  /\ answered \in [Run -> {"none", "approve", "deny"}]
  /\ inForce \in [Run -> SUBSET Version]
  /\ age \in [Message -> 0..3] /\ crowded \subseteq Message

Waiting == {m \in Message : pc[m] = "waiting"}

Futures ==
  /\ DOMAIN pending = {Id(m) : m \in Waiting}
  /\ \A id \in DOMAIN pending : pending[id] \in {"waiting", "approve", "deny", "cancelled"}

LEMMA TypeOKParts == (TypeOK <=> Typed /\ Futures) /\ (TypeOK' <=> Typed' /\ Futures')
BY DEF TypeOK, Typed, Futures, Waiting, Id

\* A wait has a future of its own.
LEMMA OwnFuture ==
  ASSUME TypeOK, NEW m \in Message
  PROVE  /\ Id(m) \in DOMAIN pending <=> pc[m] = "waiting"
         /\ pc[m] = "waiting" => pending[Id(m)] \in {"waiting", "approve", "deny", "cancelled"}
         /\ \A n \in Message : Id(m) = Id(n) => m = n
BY DEF TypeOK, Id

\* What a step makes of the run that takes it: it keeps its call or drops it.
Moves(r, place, c, force, answer) ==
  /\ pc' = [pc EXCEPT ![r] = place] /\ call' = [call EXCEPT ![r] = c]
  /\ inForce' = [inForce EXCEPT ![r] = force] /\ answered' = [answered EXCEPT ![r] = answer]

Keeps(r, c, force, answer) == c = call[r] /\ force = inForce[r] /\ answer = answered[r]
Drops(c, force, answer) == c = NoCall /\ force = {} /\ answer = "none"

-----------------------------------------------------------------------------
(* The steps that leave the confirmations alone.                           *)

\* Nobody begins or ends to wait.
LEMMA SameFutures ==
  ASSUME TypeOK, UNCHANGED pending,
         \A m \in Message : /\ pc'[m] = "waiting" <=> pc[m] = "waiting"
                            /\ pc[m] = "waiting" => calls'[m] = calls[m]
  PROVE  Futures' /\ \A m \in Message : pc[m] = "waiting" => Id(m)' = Id(m)
<1>1. \A m \in Message : pc[m] = "waiting" => Id(m)' = Id(m)
  BY DEF Id
<1>2. Waiting' = Waiting
  BY DEF Waiting
<1>3. {Id(m) : m \in Waiting}' = {Id(m) : m \in Waiting}
  BY <1>1, <1>2 DEF Waiting
<1> QED BY <1>1, <1>3, TypeOKParts DEF Futures

\* Memory is left alone, too.
LEMMA SameMemory ==
  ASSUME Seen, SummaryIncludesTurn, UNCHANGED memory,
         \A m \in Message : pc'[m] = "compressing" => pc[m] = "compressing"
  PROVE  Seen' /\ SummaryIncludesTurn'
BY DEF Seen, SummaryIncludesTurn, memory

LEMMA StartKeeps ==
  ASSUME IInv, NEW r \in Run, Start(r)
  PROVE  IInv'
<1> USE ConversationAssumption DEF Run
<1>1. PICK place \in {"ended", "ending", "choosing"}, status \in {"failed", outcome[r]} :
        /\ pc' = [pc EXCEPT ![r] = place] /\ outcome' = [outcome EXCEPT ![r] = status]
        /\ place # "ending" => status = outcome[r]
        /\ told' \in [Message -> {"open", "nothing", "answer", "error"}]
  BY DEF Start, Goto, End, IInv, TypeOK
<1>2. /\ pc[r] = "idle"
      /\ UNCHANGED <<call, calls, pending, expired, answered, risk, edits, memory, inForce>>
  BY DEF Start, gate
<1>3. Typed'
  BY <1>1, <1>2 DEF IInv, TypeOK, Typed, memory
<1>4. Futures' /\ \A m \in Message : pc[m] = "waiting" => Id(m)' = Id(m)
  BY <1>1, <1>2, SameFutures DEF IInv, TypeOK
<1>5. InHand' /\ Placed'
  BY <1>1, <1>2 DEF IInv, TypeOK, InHand, Placed, Held, OfTurns, Closing
<1>6. Answered' /\ Cleared'
  BY <1>1, <1>2, <1>4 DEF IInv, TypeOK, Answered, Cleared, MustAsk
<1>7. Seen' /\ SummaryIncludesTurn'
  BY <1>1, <1>2, SameMemory DEF IInv, TypeOK
<1> QED BY <1>3, <1>4, <1>5, <1>6, <1>7, TypeOKParts DEF IInv

LEMMA FinishKeeps ==
  ASSUME IInv, NEW r \in Run, Finish(r)
  PROVE  IInv'
<1> USE ConversationAssumption DEF Run
<1>1. /\ pc[r] = "ending" /\ pc' = [pc EXCEPT ![r] = "ended"]
      /\ outcome' = [outcome EXCEPT ![r] = "none"] /\ calls' = [calls EXCEPT ![r] = 0]
      /\ expired' = expired \ {r}
      /\ UNCHANGED <<call, pending, answered, risk, edits, memory, inForce>>
  BY DEF Finish, Goto, End
<1>2. told' \in [Message -> {"open", "nothing", "answer", "error"}]
  BY DEF Finish, IInv, TypeOK
<1>3. Typed'
  BY <1>1, <1>2 DEF IInv, TypeOK, Typed, memory
<1>4. Futures' /\ \A m \in Message : pc[m] = "waiting" => Id(m)' = Id(m)
  BY <1>1, SameFutures DEF IInv, TypeOK
<1>5. InHand' /\ Placed'
  BY <1>1 DEF IInv, TypeOK, InHand, Placed, Held, OfTurns, Closing
<1>6. Answered' /\ Cleared'
  BY <1>1, <1>4 DEF IInv, TypeOK, Answered, Cleared, MustAsk
<1>7. Seen' /\ SummaryIncludesTurn'
  BY <1>1, SameMemory DEF IInv, TypeOK
<1> QED BY <1>3, <1>4, <1>5, <1>6, <1>7, TypeOKParts DEF IInv

LEMMA CheckLocalKeeps ==
  ASSUME IInv, NEW r \in Run, CheckLocal(r)
  PROVE  IInv'
<1> USE ConversationAssumption DEF Run
<1>1. /\ pc[r] = "local"
      /\ UNCHANGED <<calls, outcome, pending, expired, told, risk, edits, memory>>
  BY DEF CheckLocal
<1>2. PICK place, c, force, answer :
        /\ Moves(r, place, c, force, answer)
        /\ \/ place = "running" /\ Keeps(r, c, force, answer)
           \/ place = "choosing" /\ Drops(c, force, answer)
  <2>1. CASE Goto(r, "running") /\ UNCHANGED <<call, inForce, answered>>
    BY <2>1 DEF IInv, TypeOK, Goto, Moves, Keeps
  <2>2. CASE Goto(r, "choosing") /\ Drop(r)
    BY <2>2 DEF IInv, TypeOK, Goto, Drop, Moves, Drops
  <2> QED BY <2>1, <2>2 DEF CheckLocal
<1>3. Typed'
  BY <1>1, <1>2 DEF IInv, TypeOK, Typed, memory, Moves, Keeps, Drops
<1>4. Futures' /\ \A m \in Message : pc[m] = "waiting" => Id(m)' = Id(m)
  BY <1>1, <1>2, SameFutures DEF IInv, TypeOK, Moves
<1>5. InHand' /\ Placed'
  BY <1>1, <1>2 DEF IInv, TypeOK, InHand, Placed, Held, OfTurns, Closing, Moves, Keeps, Drops
<1>6. Answered' /\ Cleared'
  BY <1>1, <1>2, <1>4 DEF IInv, TypeOK, Answered, Cleared, MustAsk, Moves, Keeps, Drops
<1>7. Seen' /\ SummaryIncludesTurn'
  BY <1>1, <1>2, SameMemory DEF IInv, TypeOK, Moves
<1> QED BY <1>3, <1>4, <1>5, <1>6, <1>7, TypeOKParts DEF IInv

LEMMA EndToolKeeps ==
  ASSUME IInv, NEW r \in Run, EndTool(r)
  PROVE  IInv'
<1> USE ConversationAssumption DEF Run
<1>1. PICK place \in {"choosing", "ending"}, status \in {"failed", outcome[r]} :
        /\ pc' = [pc EXCEPT ![r] = place] /\ outcome' = [outcome EXCEPT ![r] = status]
        /\ place # "ending" => status = outcome[r]
  BY DEF EndTool, Goto, End, IInv, TypeOK
<1>2. /\ pc[r] = "running" /\ Drop(r)
      /\ UNCHANGED <<calls, pending, expired, told, risk, edits, memory>>
  BY DEF EndTool
<1>3. Typed'
  BY <1>1, <1>2 DEF IInv, TypeOK, Typed, memory, Drop
<1>4. Futures' /\ \A m \in Message : pc[m] = "waiting" => Id(m)' = Id(m)
  BY <1>1, <1>2, SameFutures DEF IInv, TypeOK
<1>5. InHand' /\ Placed'
  BY <1>1, <1>2 DEF IInv, TypeOK, InHand, Placed, Held, OfTurns, Closing, Drop
<1>6. Answered' /\ Cleared'
  BY <1>1, <1>2, <1>4 DEF IInv, TypeOK, Answered, Cleared, MustAsk, Drop
<1>7. Seen' /\ SummaryIncludesTurn'
  BY <1>1, <1>2, SameMemory DEF IInv, TypeOK
<1> QED BY <1>3, <1>4, <1>5, <1>6, <1>7, TypeOKParts DEF IInv

LEMMA StopChoosingKeeps ==
  ASSUME IInv, NEW r \in Run, StopChoosing(r)
  PROVE  IInv'
<1> USE ConversationAssumption DEF Run
<1>1. PICK place \in {"appending", "ending"}, status \in {"completed", "max_steps", "failed"} :
        /\ pc' = [pc EXCEPT ![r] = place] /\ outcome' = [outcome EXCEPT ![r] = status]
        /\ place = "appending" => r \in Message
  BY DEF StopChoosing, Goto, End
<1>2. /\ pc[r] = "choosing"
      /\ UNCHANGED <<call, calls, pending, expired, answered, told, risk, edits, memory, inForce>>
  BY DEF StopChoosing, gate
<1>3. Typed'
  BY <1>1, <1>2 DEF IInv, TypeOK, Typed, memory
<1>4. Futures' /\ \A m \in Message : pc[m] = "waiting" => Id(m)' = Id(m)
  BY <1>1, <1>2, SameFutures DEF IInv, TypeOK
<1>5. InHand' /\ Placed'
  BY <1>1, <1>2 DEF IInv, TypeOK, InHand, Placed, Held, OfTurns, Closing
<1>6. Answered' /\ Cleared'
  BY <1>1, <1>2, <1>4 DEF IInv, TypeOK, Answered, Cleared, MustAsk
<1>7. Seen' /\ SummaryIncludesTurn'
  BY <1>1, <1>2, SameMemory DEF IInv, TypeOK
<1> QED BY <1>3, <1>4, <1>5, <1>6, <1>7, TypeOKParts DEF IInv

LEMMA AppendQuestionKeeps ==
  ASSUME IInv, NEW m \in Message, AppendQuestion(m)
  PROVE  IInv'
<1> USE ConversationAssumption DEF Run
<1>1. /\ pc[m] = "appending" /\ pc' = [pc EXCEPT ![m] = "extending"]
      /\ history' = history \cup {<<m, "question">>}
      /\ UNCHANGED <<call, calls, outcome, pending, expired, answered, told, risk, edits,
                     summary, snapshot, age, crowded, inForce>>
  BY DEF AppendQuestion, Goto, gate
<1>2. Typed'
  BY <1>1 DEF IInv, TypeOK, Typed
<1>3. Futures' /\ \A n \in Message : pc[n] = "waiting" => Id(n)' = Id(n)
  BY <1>1, SameFutures DEF IInv, TypeOK
<1>4. InHand' /\ Placed'
  BY <1>1 DEF IInv, TypeOK, InHand, Placed, Held, OfTurns, Closing
<1>5. Answered' /\ Cleared'
  BY <1>1, <1>3 DEF IInv, TypeOK, Answered, Cleared, MustAsk
<1>6. Seen' /\ SummaryIncludesTurn'
  BY <1>1 DEF IInv, TypeOK, Seen, SummaryIncludesTurn
<1> QED BY <1>2, <1>3, <1>4, <1>5, <1>6, TypeOKParts DEF IInv

LEMMA AppendStepsKeeps ==
  ASSUME IInv, NEW m \in Message, AppendSteps(m)
  PROVE  IInv'
<1> USE ConversationAssumption DEF Run
<1> DEFINE given == {t \in Message : <<t, "steps">> \in history'}
<1>1. PICK place \in {"ending", "compressing"}, kept \in {snapshot[m], given} :
        /\ pc' = [pc EXCEPT ![m] = place] /\ snapshot' = [snapshot EXCEPT ![m] = kept]
        /\ place = "compressing" => kept = given
  BY DEF AppendSteps, Goto, Transcript, IInv, TypeOK
<1>2. /\ pc[m] = "extending" /\ history' = history \cup {<<m, "steps">>}
      /\ age' = [age EXCEPT ![m] = 1]
      /\ crowded' = IF \E o \in Message : pc[o] = "compressing" THEN crowded \cup {m} ELSE crowded
      /\ UNCHANGED <<call, calls, outcome, pending, expired, answered, told, risk, edits,
                     summary, inForce>>
  BY DEF AppendSteps, gate
<1>3. /\ given \in SUBSET Message
      /\ \A t \in Message : t \in given <=> t = m \/ <<t, "steps">> \in history
  BY <1>2
<1>4. /\ crowded \subseteq crowded' /\ crowded' \subseteq Message
      /\ \A o \in Message : pc[o] = "compressing" => m \in crowded'
  BY <1>2 DEF IInv, TypeOK
<1> HIDE DEF given
<1>5. Typed'
  BY <1>1, <1>2, <1>3, <1>4 DEF IInv, TypeOK, Typed
<1>6. Futures' /\ \A n \in Message : pc[n] = "waiting" => Id(n)' = Id(n)
  BY <1>1, <1>2, SameFutures DEF IInv, TypeOK
<1>7. InHand' /\ Placed'
  BY <1>1, <1>2 DEF IInv, TypeOK, InHand, Placed, Held, OfTurns, Closing
<1>8. Answered' /\ Cleared'
  BY <1>1, <1>2, <1>6 DEF IInv, TypeOK, Answered, Cleared, MustAsk
<1>9. \A t \in Message : t # m => age'[t] = age[t]
  BY <1>2 DEF IInv, TypeOK
<1>10. SummaryIncludesTurn'
  <2>1. age'[m] = 1 /\ <<m, "steps">> \in history'
    BY <1>2 DEF IInv, TypeOK
  <2>2. history \subseteq history' /\ summary' = summary
    BY <1>2
  <2> SUFFICES ASSUME NEW t \in Message
               PROVE  /\ age'[t] = 1 => <<t, "steps">> \in history'
                      /\ age'[t] = 2 => t \in summary' \/ t \in crowded'
    BY DEF SummaryIncludesTurn
  <2>3. CASE t = m
    BY <2>1, <2>3
  <2>4. CASE t # m
    BY <1>4, <1>9, <2>2, <2>4 DEF IInv, SummaryIncludesTurn
  <2> QED BY <2>3, <2>4
<1>11. Seen'
  <2> SUFFICES ASSUME NEW c \in Message, NEW t \in Message, pc'[c] = "compressing", age'[t] = 1
               PROVE  t \in snapshot'[c] \cup crowded'
    BY DEF Seen
  <2>1. CASE c = m
    <3>1. snapshot'[c] = given
      BY <1>1, <1>2, <2>1 DEF IInv, TypeOK
    <3>2. t = m \/ <<t, "steps">> \in history
      BY <1>9 DEF IInv, SummaryIncludesTurn
    <3> QED BY <1>3, <3>1, <3>2
  <2>2. CASE c # m
    <3>1. pc[c] = "compressing" /\ snapshot'[c] = snapshot[c]
      BY <1>1, <1>2, <2>2 DEF IInv, TypeOK
    <3>2. t = m \/ t \in snapshot[c] \cup crowded
      BY <1>9, <3>1 DEF IInv, Seen
    <3> QED BY <1>4, <3>1, <3>2
  <2> QED BY <2>1, <2>2
<1> QED BY <1>5, <1>6, <1>7, <1>8, <1>10, <1>11, TypeOKParts DEF IInv

LEMMA CompressKeeps ==
  ASSUME IInv, NEW m \in Message, Compress(m)
  PROVE  IInv'
<1> USE ConversationAssumption DEF Run
<1>1. /\ pc[m] = "compressing" /\ pc' = [pc EXCEPT ![m] = "ending"]
      /\ snapshot' = [snapshot EXCEPT ![m] = {}]
      /\ UNCHANGED <<call, calls, outcome, pending, expired, answered, told, risk, edits,
                     crowded, inForce>>
  BY DEF Compress, Goto, gate
<1>2. \/ UNCHANGED <<history, summary, age>>
      \/ /\ history' = {} /\ summary' = snapshot[m]
         /\ age' = [t \in Message |-> IF age[t] \in {1, 2} THEN age[t] + 1 ELSE age[t]]
  BY DEF Compress
<1>3. Typed'
  BY <1>1, <1>2 DEF IInv, TypeOK, Typed
<1>4. Futures' /\ \A n \in Message : pc[n] = "waiting" => Id(n)' = Id(n)
  BY <1>1, SameFutures DEF IInv, TypeOK
<1>5. InHand' /\ Placed'
  BY <1>1 DEF IInv, TypeOK, InHand, Placed, Held, OfTurns, Closing
<1>6. Answered' /\ Cleared'
  BY <1>1, <1>4 DEF IInv, TypeOK, Answered, Cleared, MustAsk
<1>7. \A t \in Message : age'[t] = 1 => age[t] = 1 /\ UNCHANGED history
  BY <1>2 DEF IInv, TypeOK
<1>8. \A t \in Message : age'[t] = 2 =>
        \/ age[t] = 2 /\ UNCHANGED summary
        \/ age[t] = 1 /\ summary' = snapshot[m]
  BY <1>2 DEF IInv, TypeOK
<1>9. Seen' /\ SummaryIncludesTurn'
  BY <1>1, <1>7, <1>8 DEF IInv, TypeOK, Seen, SummaryIncludesTurn
<1> QED BY <1>3, <1>4, <1>5, <1>6, <1>9, TypeOKParts DEF IInv

LEMMA EditRiskKeeps ==
  ASSUME IInv, EditRisk
  PROVE  IInv'
<1> USE ConversationAssumption DEF Run
<1>1. /\ edits < MaxEdits /\ edits' = edits + 1 /\ risk' \in Version
      /\ inForce' = [r \in Run |-> IF call[r] = NoCall THEN {} ELSE inForce[r] \cup {risk'}]
      /\ UNCHANGED <<pc, call, calls, outcome, pending, expired, answered, told, memory>>
  BY DEF EditRisk, gate
<1>2. Typed'
  BY <1>1 DEF IInv, TypeOK, Typed, memory
<1>3. Futures' /\ \A n \in Message : pc[n] = "waiting" => Id(n)' = Id(n)
  BY <1>1, SameFutures DEF IInv, TypeOK
<1>4. InHand' /\ Placed'
  BY <1>1 DEF IInv, TypeOK, InHand, Placed, Held, OfTurns, Closing
<1>5. Answered'
  BY <1>1, <1>3 DEF IInv, TypeOK, Answered
<1>6. \A r \in Run : pc[r] = "local" /\ MustAsk(r)' => MustAsk(r)
  BY <1>1 DEF IInv, TypeOK, InHand, Held, MustAsk
<1>7. Cleared'
  BY <1>1, <1>6 DEF IInv, Cleared
<1>8. Seen' /\ SummaryIncludesTurn'
  BY <1>1, SameMemory DEF IInv, TypeOK
<1> QED BY <1>2, <1>3, <1>4, <1>5, <1>7, <1>8, TypeOKParts DEF IInv

-----------------------------------------------------------------------------
(* The steps of the gate.                                                  *)

\* A message asks: its request is one that nobody waits for.
LEMMA AskFutures ==
  ASSUME TypeOK, NEW r \in Message, pc[r] # "waiting", pc' = [pc EXCEPT ![r] = "waiting"],
         NEW n \in Nat, calls' = [calls EXCEPT ![r] = n],
         pending' = With(<<r, n>>)
  PROVE  /\ Futures'
         /\ pending'[Id(r)'] = "waiting"
         /\ \A m \in Message : pc[m] = "waiting" =>
              Id(m)' = Id(m) /\ pending'[Id(m)'] = pending[Id(m)]
<1>1. /\ Id(r)' = <<r, n>>
      /\ \A m \in Message : m # r => Id(m)' = Id(m)
  BY DEF TypeOK, Id, Run
<1>2. DOMAIN pending = {Id(m) : m \in Waiting}
  BY DEF TypeOK, Waiting
<1>3. <<r, n>> \notin DOMAIN pending
  BY <1>2 DEF Id, Waiting
<1>4. /\ DOMAIN pending' = DOMAIN pending \cup {<<r, n>>} /\ pending'[<<r, n>>] = "waiting"
      /\ \A id \in DOMAIN pending : pending'[id] = pending[id]
  BY <1>3 DEF With
<1>5. Waiting' = Waiting \cup {r} /\ r \notin Waiting
  BY DEF Waiting, TypeOK, Run
<1>6. DOMAIN pending' = {Id(m) : m \in Waiting}'
  <2>1. \A m \in Waiting : m # r /\ m \in Message
    BY <1>5 DEF Waiting
  <2>2. {Id(m) : m \in Waiting}' = {Id(m) : m \in Waiting} \cup {<<r, n>>}
    BY <1>1, <1>5, <2>1
  <2> QED BY <1>2, <1>4, <2>2
<1>7. \A m \in Message : pc[m] = "waiting" => Id(m) \in DOMAIN pending /\ m # r
  BY <1>2 DEF Waiting
<1> QED BY <1>1, <1>4, <1>6, <1>7 DEF TypeOK, Futures

\* Where a run is and what it holds, when it invokes, asks or is turned away.
Rests(r, place, c, force, answer, status) ==
  /\ pc[r] \in {"choosing", "risk", "waiting", "prompting"}
  /\ Moves(r, place, c, force, answer) /\ outcome' = [outcome EXCEPT ![r] = status]
  /\ UNCHANGED <<told, risk, edits, memory>>
  /\ calls' \in [Run -> Nat] /\ expired' \subseteq Message
  /\ \/ /\ place = "ending" /\ status = "blocked" /\ Drops(c, force, answer)
     \/ /\ place \in {"risk", "waiting", "prompting", "local"} /\ status = "none"
        /\ c \in Call \cup Planned /\ force \in SUBSET Version /\ risk \in force
        /\ answer \in {"none", "approve", "deny"}
        /\ Mode = "redteam" => InSessionScope(Targets[r], c)
        /\ place = "waiting" => r \in Message
        /\ place = "prompting" => r \in Invocation
        /\ place = "risk" => Mode = "redteam" /\ Access(Mode, c) # "confirm" /\ answer = "none"

LEMMA RestKeeps ==
  ASSUME IInv, NEW r \in Run, NEW place, NEW c, NEW force, NEW answer, NEW status,
         Rests(r, place, c, force, answer, status)
  PROVE  Typed' /\ InHand' /\ Placed' /\ Seen' /\ SummaryIncludesTurn'
<1> USE ConversationAssumption DEF Run
<1>1. Typed'
  BY DEF Rests, IInv, TypeOK, Typed, memory, Moves, Drops
<1>2. InHand'
  BY DEF Rests, IInv, TypeOK, InHand, Held, Moves, Drops
<1>3. Placed'
  BY DEF Rests, IInv, TypeOK, Placed, OfTurns, Closing, Moves, Drops
<1>4. Seen' /\ SummaryIncludesTurn'
  BY SameMemory DEF Rests, IInv, TypeOK, Moves
<1> QED BY <1>1, <1>2, <1>3, <1>4

\* Whoever waits goes on to, with the answer it has.
LEMMA SameAnswers ==
  ASSUME IInv, UNCHANGED <<pending, expired>>,
         \A m \in Message : /\ pc'[m] = "waiting" <=> pc[m] = "waiting"
                            /\ pc[m] = "waiting" =>
                                 calls'[m] = calls[m] /\ answered'[m] = answered[m]
  PROVE  Futures' /\ Answered'
BY SameFutures DEF IInv, Answered

\* A run that is not at the executor need not have been approved.
LEMMA SameCleared ==
  ASSUME IInv, NEW r \in Run, NEW place, NEW c, NEW force, NEW answer,
         Moves(r, place, c, force, answer), place # "local",
         \A t \in Run \ {r} : t \in expired' => t \in expired
  PROVE  Cleared'
BY DEF IInv, TypeOK, Cleared, MustAsk, Moves

LEMMA BlockMoves ==
  ASSUME IInv, NEW r \in Run, Block(r)
  PROVE  /\ Moves(r, "ending", NoCall, {}, "none")
         /\ outcome' = [outcome EXCEPT ![r] = "blocked"]
BY DEF Block, Goto, End, Drop, Moves

\* What asking adds, whoever asks.
LEMMA AskKeeps ==
  ASSUME IInv, NEW r \in Run, pc[r] \in {"choosing", "risk"}, NEW n \in Nat,
         calls' = [calls EXCEPT ![r] = n], Ask(r, n), NEW c \in Call \cup Planned,
         NEW force \in SUBSET Version, risk \in force,
         call' = [call EXCEPT ![r] = c], inForce' = [inForce EXCEPT ![r] = force],
         UNCHANGED <<outcome, answered, told, risk, edits, memory>>,
         Mode = "redteam" => InSessionScope(Targets[r], c)
  PROVE  IInv'
<1> USE ConversationAssumption DEF Run
<1>1. PICK place \in {"waiting", "prompting"} :
        /\ Moves(r, place, c, force, "none") /\ Futures' /\ Answered'
        /\ expired' \subseteq Message /\ expired' \subseteq expired
        /\ place = "waiting" => r \in Message
        /\ place = "prompting" => r \in Invocation
  <2>1. answered' = [answered EXCEPT ![r] = "none"]
    BY DEF IInv, TypeOK, InHand, Placed, Held
  <2>2. CASE r \in Message
    <3>1. /\ Moves(r, "waiting", c, force, "none")
          /\ pending' = With(<<r, n>>) /\ expired' = expired \ {r}
      BY <2>1, <2>2 DEF Ask, Goto, Moves
    <3>2. /\ Futures' /\ pending'[Id(r)'] = "waiting"
          /\ \A m \in Message : pc[m] = "waiting" =>
               Id(m)' = Id(m) /\ pending'[Id(m)'] = pending[Id(m)]
      BY <2>2, <3>1, AskFutures DEF IInv, Moves
    <3>3. answered'[r] = "none" /\ \A m \in Message : m # r =>
            /\ pc'[m] = "waiting" <=> pc[m] = "waiting"
            /\ answered'[m] = answered[m] /\ (m \in expired' <=> m \in expired)
      BY <3>1 DEF IInv, TypeOK, Moves
    <3>4. Answered'
      BY <3>2, <3>3 DEF IInv, Answered
    <3> QED BY <2>2, <3>1, <3>2, <3>4 DEF IInv, TypeOK
  <2>3. CASE r \notin Message
    <3>1. /\ Moves(r, "prompting", c, force, "none")
          /\ UNCHANGED <<pending, expired>>
      BY <2>1, <2>3 DEF Ask, Goto, Moves
    <3>2. Futures' /\ Answered'
      BY <2>3, <3>1, SameAnswers DEF IInv, TypeOK, Moves
    <3> QED BY <2>3, <3>1, <3>2 DEF IInv, TypeOK
  <2> QED BY <2>2, <2>3
<1>2. outcome' = [outcome EXCEPT ![r] = "none"] /\ calls' \in [Run -> Nat]
  <2>1. outcome[r] = "none"
    BY DEF IInv, Placed, Closing
  <2> QED BY <2>1 DEF IInv, TypeOK
<1>3. Rests(r, place, c, force, "none", "none")
  BY <1>1, <1>2 DEF Rests
<1>4. Typed' /\ InHand' /\ Placed' /\ Seen' /\ SummaryIncludesTurn'
  BY <1>3, RestKeeps
<1>5. Cleared'
  BY <1>1, SameCleared
<1> QED BY <1>1, <1>4, <1>5, TypeOKParts DEF IInv

LEMMA BlockKeeps ==
  ASSUME IInv, NEW r \in Run, pc[r] \in {"choosing", "risk"}, Block(r),
         calls' \in [Run -> Nat], \A m \in Message : m # r => calls'[m] = calls[m],
         UNCHANGED <<pending, expired, told, risk, edits, memory>>
  PROVE  IInv'
<1>1. Rests(r, "ending", NoCall, {}, "none", "blocked")
  BY BlockMoves DEF Rests, Drops, IInv, TypeOK
<1>2. Typed' /\ InHand' /\ Placed' /\ Seen' /\ SummaryIncludesTurn'
  BY <1>1, RestKeeps
<1>3. Futures' /\ Answered'
  BY <1>1, SameAnswers DEF Rests, IInv, TypeOK, Moves, Run
<1>4. Cleared'
  BY <1>1, SameCleared DEF Rests
<1> QED BY <1>2, <1>3, <1>4, TypeOKParts DEF IInv

LEMMA InvokeKeeps ==
  ASSUME IInv, NEW r \in Run, Invoke(r)
  PROVE  IInv'
<1> USE ConversationAssumption DEF Run
<1> DEFINE n == calls[r] + 1
<1>1. /\ pc[r] = "choosing" /\ calls' = [calls EXCEPT ![r] = n]
      /\ UNCHANGED <<told, risk, edits, memory>>
  BY DEF Invoke
<1>2. n \in Nat /\ calls' \in [Run -> Nat] /\ \A m \in Message : m # r => calls'[m] = calls[m]
  BY <1>1 DEF IInv, TypeOK
<1>3. CASE Block(r) /\ UNCHANGED <<pending, expired>>
  BY <1>1, <1>2, <1>3, BlockKeeps
<1>4. ASSUME NEW c \in NextCalls(r), Access(Mode, c) # "deny",
             Mode = "redteam" => InSessionScope(Targets[r], c),
             call' = [call EXCEPT ![r] = c], inForce' = [inForce EXCEPT ![r] = {risk}],
             IF Access(Mode, c) = "confirm"
               THEN Ask(r, n)
               ELSE /\ Goto(r, IF Mode = "redteam" THEN "risk" ELSE "local")
                    /\ UNCHANGED <<pending, expired>>,
             UNCHANGED <<outcome, answered>>
      PROVE  IInv'
  <2> HIDE DEF n
  <2>1. c \in Call \cup Planned /\ {risk} \in SUBSET Version
    <3>1. CASE r \in Message
      BY <1>4, <3>1 DEF NextCalls, IInv, TypeOK
    <3>2. CASE r \in Invocation
      BY <1>4, <3>2 DEF NextCalls, IInv, TypeOK
    <3> QED BY <3>1, <3>2
  <2>2. CASE Access(Mode, c) = "confirm"
    BY <1>1, <1>2, <1>4, <2>1, <2>2, AskKeeps
  <2>3. CASE Access(Mode, c) # "confirm"
    <3>1. answered' = [answered EXCEPT ![r] = "none"] /\ outcome' = [outcome EXCEPT ![r] = "none"]
      <4>1. answered[r] = "none" /\ outcome[r] = "none"
        BY <1>1 DEF IInv, InHand, Placed, Held, Closing
      <4> QED BY <1>4, <4>1 DEF IInv, TypeOK
    <3>2. PICK place \in {"risk", "local"} :
            /\ Moves(r, place, c, {risk}, "none") /\ (place = "risk" <=> Mode = "redteam")
      BY <1>4, <2>3, <3>1 DEF Goto, Moves
    <3>3. expired' \subseteq Message /\ UNCHANGED <<pending, expired>>
      BY <1>4, <2>3 DEF IInv, TypeOK
    <3>4. Rests(r, place, c, {risk}, "none", "none")
      BY <1>1, <1>2, <1>4, <2>1, <2>3, <3>1, <3>2, <3>3 DEF Rests
    <3>5. Typed' /\ InHand' /\ Placed' /\ Seen' /\ SummaryIncludesTurn'
      BY <3>4, RestKeeps
    <3>6. Futures' /\ Answered'
      BY <1>1, <1>2, <3>2, <3>3, SameAnswers DEF IInv, TypeOK, Moves
    <3>7. Cleared'
      BY <1>1, <3>2, <3>3 DEF IInv, TypeOK, Cleared, MustAsk, Moves
    <3> QED BY <3>5, <3>6, <3>7, TypeOKParts DEF IInv
  <2> QED BY <2>2, <2>3
<1> QED BY <1>3, <1>4 DEF Invoke

LEMMA CheckRiskKeeps ==
  ASSUME IInv, NEW r \in Run, CheckRisk(r)
  PROVE  IInv'
<1> USE ConversationAssumption DEF Run
<1>1. /\ pc[r] = "risk" /\ UNCHANGED <<calls, told, risk, edits, memory>>
      /\ calls \in [Run -> Nat]
  BY DEF CheckRisk, IInv, TypeOK
<1>2. /\ call[r] \in Call \cup Planned /\ inForce[r] \in SUBSET Version /\ risk \in inForce[r]
      /\ Mode = "redteam" => InSessionScope(Targets[r], call[r])
      /\ Mode = "redteam" /\ Access(Mode, call[r]) # "confirm"
      /\ answered[r] = "none" /\ outcome[r] = "none"
  <2>1. call[r] # NoCall /\ risk \in inForce[r]
    BY <1>1 DEF IInv, InHand, Held
  <2>2. Mode = "redteam" => InSessionScope(Targets[r], call[r])
    BY <1>1 DEF IInv, InHand, Held
  <2>3. /\ Mode = "redteam" /\ Access(Mode, call[r]) # "confirm" /\ answered[r] = "none"
        /\ outcome[r] = "none"
    BY <1>1 DEF IInv, Placed, Closing
  <2>4. call[r] \in Call \cup Planned \cup {NoCall} /\ inForce[r] \in SUBSET Version
    BY DEF IInv, TypeOK
  <2> QED BY <2>1, <2>2, <2>3, <2>4
<1>3. CASE Block(r) /\ UNCHANGED <<pending, expired>>
  BY <1>1, <1>3, BlockKeeps
<1>4. CASE Ask(r, calls[r]) /\ UNCHANGED <<outcome, call, inForce, answered>>
  <2>1. /\ calls' = [calls EXCEPT ![r] = calls[r]] /\ call' = [call EXCEPT ![r] = call[r]]
        /\ inForce' = [inForce EXCEPT ![r] = inForce[r]] /\ calls[r] \in Nat
    BY <1>1, <1>4 DEF IInv, TypeOK
  <2> QED BY <1>1, <1>2, <1>4, <2>1, AskKeeps
<1>5. CASE /\ RiskVerdict(Content[risk], call[r]) = "allow"
           /\ Goto(r, "local") /\ UNCHANGED <<outcome, call, inForce, gate>>
  <2>1. Moves(r, "local", call[r], inForce[r], "none")
    BY <1>2, <1>5 DEF IInv, TypeOK, Goto, Moves, gate
  <2>2. Rests(r, "local", call[r], inForce[r], "none", "none")
    BY <1>1, <1>2, <1>5, <2>1 DEF Rests, IInv, TypeOK, gate
  <2>3. Typed' /\ InHand' /\ Placed' /\ Seen' /\ SummaryIncludesTurn'
    BY <2>2, RestKeeps
  <2>4. Futures' /\ Answered'
    BY <1>1, <1>5, <2>1, SameAnswers DEF IInv, TypeOK, Moves, gate
  <2>5. Cleared'
    BY <1>1, <1>2, <1>5, <2>1 DEF IInv, TypeOK, Cleared, MustAsk, Moves, gate
  <2> QED BY <2>3, <2>4, <2>5, TypeOKParts DEF IInv
<1> QED BY <1>3, <1>4, <1>5 DEF CheckRisk

-----------------------------------------------------------------------------
(* Decisions, timeouts, and the ends of the waits.                         *)

LEMMA SubmitKeeps ==
  ASSUME IInv, NEW r \in Message, NEW d \in {"approve", "deny"}, Submit(r, d)
  PROVE  IInv'
<1> USE ConversationAssumption DEF Run
<1>1. /\ pc[r] = "waiting" /\ Addressed(r) = {Id(r)}
      /\ UNCHANGED <<pc, call, calls, outcome, expired, told, risk, edits, memory, inForce>>
  BY OwnFuture DEF Submit, Addressed, IInv
<1>2. /\ DOMAIN pending' = DOMAIN pending
      /\ pending'[Id(r)] = IF pending[Id(r)] = "waiting" THEN d ELSE pending[Id(r)]
      /\ \A id \in DOMAIN pending : id # Id(r) => pending'[id] = pending[id]
  BY <1>1 DEF Submit, Settled
<1>3. answered' = [answered EXCEPT ![r] = IF answered[r] = "none" THEN d ELSE answered[r]]
  BY DEF Submit
<1>4. \A m \in Message : Id(m)' = Id(m)
  BY <1>1 DEF Id
<1>5. \A m \in Message : pc[m] = "waiting" => Id(m) \in DOMAIN pending /\ (Id(m) = Id(r) => m = r)
  BY OwnFuture DEF IInv
<1>6. Typed'
  BY <1>1, <1>3 DEF IInv, TypeOK, Typed, memory
<1>7. Futures'
  <2>1. Waiting' = Waiting /\ {Id(m) : m \in Waiting}' = {Id(m) : m \in Waiting}
    BY <1>1, <1>4 DEF Waiting
  <2> QED BY <1>2, <2>1 DEF IInv, TypeOK, Futures, Waiting
<1>8. InHand' /\ Placed'
  BY <1>1, <1>3 DEF IInv, TypeOK, InHand, Placed, Held, OfTurns, Closing
<1>9. Answered'
  <2> SUFFICES ASSUME NEW m \in Message, pc[m] = "waiting"
               PROVE  /\ pending'[Id(m)] = "waiting" => answered'[m] = "none"
                      /\ pending'[Id(m)] \in {"approve", "deny"} => answered'[m] = pending'[Id(m)]
                      /\ pending'[Id(m)] = "cancelled" => m \in expired
    BY <1>1, <1>4 DEF Answered
  <2>1. /\ pending[Id(m)] = "waiting" => answered[m] = "none"
        /\ pending[Id(m)] \in {"approve", "deny"} => answered[m] = pending[Id(m)]
        /\ pending[Id(m)] = "cancelled" => m \in expired
    BY DEF IInv, Answered
  <2>2. CASE m = r
    <3>1. answered'[m] = IF answered[m] = "none" THEN d ELSE answered[m]
      BY <1>3, <2>2 DEF IInv, TypeOK
    <3> QED BY <1>2, <2>1, <2>2, <3>1
  <2>3. CASE m # r
    <3>1. answered'[m] = answered[m]
      BY <1>3, <2>3 DEF IInv, TypeOK
    <3> QED BY <1>2, <1>5, <2>1, <2>3, <3>1
  <2> QED BY <2>2, <2>3
<1>10. Cleared'
  BY <1>1, <1>3 DEF IInv, TypeOK, Cleared, MustAsk
<1>11. Seen' /\ SummaryIncludesTurn'
  BY <1>1, SameMemory DEF IInv
<1> QED BY <1>6, <1>7, <1>8, <1>9, <1>10, <1>11, TypeOKParts DEF IInv

LEMMA ExpireKeeps ==
  ASSUME IInv, NEW r \in Message, Expire(r)
  PROVE  IInv'
<1> USE ConversationAssumption DEF Run
<1>1. /\ pc[r] = "waiting" /\ expired' = expired \cup {r}
      /\ UNCHANGED <<pc, call, calls, outcome, answered, told, risk, edits, memory, inForce>>
  BY DEF Expire
<1>2. Id(r) \in DOMAIN pending
  BY <1>1, OwnFuture DEF IInv
<1>3. /\ DOMAIN pending' = DOMAIN pending
      /\ pending'[Id(r)] = IF pending[Id(r)] = "waiting" THEN "cancelled" ELSE pending[Id(r)]
      /\ \A id \in DOMAIN pending : id # Id(r) => pending'[id] = pending[id]
  BY <1>2 DEF Expire, Settled
<1>4. \A m \in Message : Id(m)' = Id(m)
  BY <1>1 DEF Id
<1>5. \A m \in Message : pc[m] = "waiting" => Id(m) \in DOMAIN pending /\ (Id(m) = Id(r) => m = r)
  BY OwnFuture DEF IInv
<1>6. Typed'
  BY <1>1 DEF IInv, TypeOK, Typed, memory
<1>7. Futures'
  <2>1. Waiting' = Waiting /\ {Id(m) : m \in Waiting}' = {Id(m) : m \in Waiting}
    BY <1>1, <1>4 DEF Waiting
  <2> QED BY <1>3, <2>1 DEF IInv, TypeOK, Futures, Waiting
<1>8. InHand' /\ Placed'
  BY <1>1 DEF IInv, TypeOK, InHand, Placed, Held, OfTurns, Closing
<1>9. Answered'
  BY <1>1, <1>3, <1>4, <1>5 DEF IInv, Answered
<1>10. Cleared'
  BY <1>1 DEF IInv, TypeOK, Cleared, MustAsk
<1>11. Seen' /\ SummaryIncludesTurn'
  BY <1>1, SameMemory DEF IInv
<1> QED BY <1>6, <1>7, <1>8, <1>9, <1>10, <1>11, TypeOKParts DEF IInv

LEMMA ResumeKeeps ==
  ASSUME IInv, NEW r \in Message, Resume(r)
  PROVE  IInv'
<1> USE ConversationAssumption DEF Run
<1>1. /\ pc[r] = "waiting" /\ pending' = Without(r)
      /\ UNCHANGED <<calls, expired, told, risk, edits, memory>>
      /\ calls \in [Run -> Nat] /\ expired \subseteq Message
  BY DEF Resume, IInv, TypeOK
<1>2. PICK place, c, force, answer, status :
        /\ Rests(r, place, c, force, answer, status) /\ place \in {"local", "ending"}
        /\ place = "local" => r \notin expired /\ answer = "approve"
  <2>1. CASE /\ r \notin expired /\ pending[Id(r)] = "approve"
             /\ Goto(r, "local") /\ UNCHANGED <<outcome, call, inForce, answered>>
    <3>1. answered[r] = "approve"
      BY <1>1, <2>1 DEF IInv, Answered
    <3>2. call[r] # NoCall /\ risk \in inForce[r]
      BY <1>1 DEF IInv, InHand, Held
    <3>3. Mode = "redteam" => InSessionScope(Targets[r], call[r])
      BY <1>1 DEF IInv, InHand, Held
    <3>4. outcome[r] = "none"
      BY <1>1 DEF IInv, Placed, Closing
    <3>5. call[r] \in Call \cup Planned /\ inForce[r] \in SUBSET Version
      BY <3>2 DEF IInv, TypeOK
    <3>6. Moves(r, "local", call[r], inForce[r], "approve") /\ outcome' = [outcome EXCEPT ![r] = "none"]
      BY <2>1, <3>1, <3>4 DEF IInv, TypeOK, Goto, Moves
    <3>7. Rests(r, "local", call[r], inForce[r], "approve", "none")
      BY <1>1, <3>2, <3>3, <3>5, <3>6 DEF Rests
    <3> QED BY <2>1, <3>7
  <2>2. CASE Block(r)
    <3>1. Rests(r, "ending", NoCall, {}, "none", "blocked")
      BY <1>1, <2>2, BlockMoves DEF Rests, Drops
    <3> QED BY <3>1
  <2> QED BY <2>1, <2>2 DEF Resume
<1>3. Typed' /\ InHand' /\ Placed' /\ Seen' /\ SummaryIncludesTurn'
  BY <1>2, RestKeeps
<1>4. /\ \A m \in Message \ {r} : /\ pc'[m] = pc[m] /\ answered'[m] = answered[m]
                                  /\ pc[m] = "waiting" => Id(m) \in DOMAIN pending /\ Id(m) # Id(r)
      /\ pc'[r] # "waiting" /\ \A m \in Message : Id(m)' = Id(m)
  BY <1>1, <1>2, OwnFuture DEF IInv, TypeOK, Rests, Moves, Id
<1>5. Futures'
  <2>1. Waiting' = Waiting \ {r} /\ r \in Waiting /\ \A m \in Waiting' : Id(m) # Id(r)
    BY <1>1, <1>4 DEF Waiting
  <2>2. {Id(m) : m \in Waiting}' = {Id(m) : m \in Waiting} \ {Id(r)}
    BY <1>4, <2>1 DEF Waiting
  <2> QED BY <1>1, <2>2 DEF IInv, TypeOK, Futures, Waiting, Without
<1>6. Answered'
  <2>1. \A id \in DOMAIN pending : id # Id(r) => pending'[id] = pending[id]
    BY <1>1 DEF Without
  <2> QED BY <1>1, <1>4, <2>1 DEF IInv, Answered
<1>7. Cleared'
  BY <1>1, <1>2 DEF IInv, TypeOK, Cleared, MustAsk, Rests, Moves
<1> QED BY <1>3, <1>5, <1>6, <1>7, TypeOKParts DEF IInv

LEMMA PromptKeeps ==
  ASSUME IInv, NEW r \in Invocation, Prompt(r)
  PROVE  IInv'
<1> USE ConversationAssumption DEF Run
<1>1. /\ pc[r] = "prompting" /\ UNCHANGED <<calls, pending, expired, told, risk, edits, memory>>
      /\ calls \in [Run -> Nat] /\ expired \subseteq Message
  BY DEF Prompt, IInv, TypeOK
<1>2. PICK place, c, force, answer, status :
        /\ Rests(r, place, c, force, answer, status) /\ place \in {"local", "ending"}
        /\ place = "local" => answer = "approve"
  <2>1. CASE /\ Goto(r, "local") /\ answered' = [answered EXCEPT ![r] = "approve"]
             /\ UNCHANGED <<outcome, call, inForce>>
    <3>1. call[r] # NoCall /\ risk \in inForce[r]
      BY <1>1 DEF IInv, InHand, Held
    <3>2. Mode = "redteam" => InSessionScope(Targets[r], call[r])
      BY <1>1 DEF IInv, InHand, Held
    <3>3. outcome[r] = "none"
      BY <1>1 DEF IInv, Placed, Closing
    <3>4. call[r] \in Call \cup Planned /\ inForce[r] \in SUBSET Version
      BY <3>1 DEF IInv, TypeOK
    <3>5. Moves(r, "local", call[r], inForce[r], "approve") /\ outcome' = [outcome EXCEPT ![r] = "none"]
      BY <2>1, <3>3 DEF IInv, TypeOK, Goto, Moves
    <3>6. Rests(r, "local", call[r], inForce[r], "approve", "none")
      BY <1>1, <3>1, <3>2, <3>4, <3>5 DEF Rests
    <3> QED BY <3>6
  <2>2. CASE Block(r)
    <3>1. Rests(r, "ending", NoCall, {}, "none", "blocked")
      BY <1>1, <2>2, BlockMoves DEF Rests, Drops
    <3> QED BY <3>1
  <2> QED BY <2>1, <2>2 DEF Prompt
<1>3. Typed' /\ InHand' /\ Placed' /\ Seen' /\ SummaryIncludesTurn'
  BY <1>2, RestKeeps
<1>4. Futures' /\ Answered'
  BY <1>1, <1>2, SameAnswers DEF IInv, TypeOK, Rests, Moves
<1>5. Cleared'
  BY <1>1, <1>2 DEF IInv, TypeOK, Cleared, MustAsk, Rests, Moves
<1> QED BY <1>3, <1>4, <1>5, TypeOKParts DEF IInv

-----------------------------------------------------------------------------
(* All steps together.                                                     *)

LEMMA InitInv == Init => IInv
<1> SUFFICES ASSUME Init PROVE IInv
  OBVIOUS
<1> USE ConversationAssumption DEF Init, Run
<1>1. Typed
  BY DEF Typed, Version
<1>2. Futures
  BY DEF Futures, Waiting
<1>3. InHand /\ Placed /\ Answered /\ Cleared
  BY DEF InHand, Placed, Answered, Cleared, Held, OfTurns, Closing
<1>4. Seen /\ SummaryIncludesTurn
  BY DEF Seen, SummaryIncludesTurn
<1> QED BY <1>1, <1>2, <1>3, <1>4, TypeOKParts DEF IInv

LEMMA RunStepKeeps ==
  ASSUME IInv, NEW r \in Run, RunStep(r)
  PROVE  IInv'
BY InvokeKeeps, CheckRiskKeeps, CheckLocalKeeps, EndToolKeeps, StopChoosingKeeps, FinishKeeps
DEF RunStep

LEMMA StepInv == IInv /\ [Next]_vars => IInv'
<1> SUFFICES ASSUME IInv, [Next]_vars PROVE IInv'
  OBVIOUS
<1>1. CASE Operator
  BY <1>1, StartKeeps, SubmitKeeps, PromptKeeps, EditRiskKeeps DEF Operator
<1>2. ASSUME NEW m \in Message, MessageStep(m) PROVE IInv'
  BY <1>2, RunStepKeeps, ExpireKeeps, ResumeKeeps, AppendQuestionKeeps, AppendStepsKeeps,
     CompressKeeps
  DEF MessageStep, Run
<1>3. ASSUME NEW r \in Invocation, RunStep(r) PROVE IInv'
  BY <1>3, RunStepKeeps DEF Run
<1>4. CASE UNCHANGED vars
  <2>1. UNCHANGED <<pc, call, calls, outcome, pending, expired, answered, told, risk, edits,
                    history, summary, snapshot, age, crowded, inForce>>
    BY <1>4 DEF vars, gate, memory
  <2>2. Typed' /\ Futures'
    BY <2>1, SameFutures DEF IInv, TypeOK, Typed
  <2>3. InHand' /\ Placed' /\ Answered' /\ Cleared'
    BY <2>1 DEF IInv, InHand, Placed, Answered, Cleared, Held, OfTurns, Closing, Id, MustAsk
  <2>4. Seen' /\ SummaryIncludesTurn'
    BY <2>1 DEF IInv, Seen, SummaryIncludesTurn
  <2> QED BY <2>2, <2>3, <2>4, TypeOKParts DEF IInv
<1> QED BY <1>1, <1>2, <1>3, <1>4 DEF Next

\* The inductive invariant holds in every state, for any messages, invocations,
\* versions of the risk policy and targets of the sessions.
THEOREM ConversationInvariance == Spec => []IInv
BY InitInv, StepInv, PTL DEF Spec

\* Every variable has its type, and exactly the messages that wait have a
\* future.
THEOREM ConversationTyped == Spec => []TypeOK
<1>1. IInv => TypeOK
  BY DEF IInv
<1> QED BY <1>1, ConversationInvariance, PTL

\* apply_result_to_session: a turn is in the history until the next
\* compression and in the summary after it, but for a turn appended while
\* another is being compressed.
THEOREM SummaryHolds == Spec => []SummaryIncludesTurn
<1>1. IInv => SummaryIncludesTurn
  BY DEF IInv
<1> QED BY <1>1, ConversationInvariance, PTL

\* Each step but the edit of the risk policy is one of one run, and the rest
\* stays where it is.
LEMMA OthersStay ==
  ASSUME IInv, Next, NEW t \in Run
  PROVE  \/ pc'[t] = pc[t] /\ outcome'[t] = outcome[t]
         \/ t \in Run /\ (Start(t) \/ RunStep(t))
         \/ t \in Message /\ (Resume(t) \/ AppendQuestion(t) \/ AppendSteps(t) \/ Compress(t))
         \/ t \in Invocation /\ Prompt(t)
<1> USE DEF IInv, TypeOK, Goto, End, Run
<1>1. ASSUME NEW r \in Run, Start(r) PROVE r = t \/ (pc'[t] = pc[t] /\ outcome'[t] = outcome[t])
  BY <1>1 DEF Start
<1>2. ASSUME NEW r \in Run, RunStep(r) PROVE r = t \/ (pc'[t] = pc[t] /\ outcome'[t] = outcome[t])
  <2>1. CASE Invoke(r) \/ CheckRisk(r)
    BY <2>1 DEF Invoke, CheckRisk, Block, Ask
  <2>2. CASE CheckLocal(r) \/ EndTool(r) \/ StopChoosing(r) \/ Finish(r)
    BY <2>2 DEF CheckLocal, EndTool, StopChoosing, Finish
  <2> QED BY <1>2, <2>1, <2>2 DEF RunStep
<1>3. ASSUME NEW r \in Message, Resume(r) \/ AppendQuestion(r) \/ AppendSteps(r) \/ Compress(r)
      PROVE  r = t \/ (pc'[t] = pc[t] /\ outcome'[t] = outcome[t])
  BY <1>3 DEF Resume, AppendQuestion, AppendSteps, Compress, Block
<1>4. ASSUME NEW r \in Invocation, Prompt(r)
      PROVE  r = t \/ (pc'[t] = pc[t] /\ outcome'[t] = outcome[t])
  BY <1>4 DEF Prompt, Block
<1>5. ASSUME \/ \E m \in Message, d \in {"approve", "deny"} : Submit(m, d)
             \/ \E m \in Message : Expire(m)
             \/ EditRisk
      PROVE  pc'[t] = pc[t] /\ outcome'[t] = outcome[t]
  BY <1>5 DEF Submit, Expire, EditRisk
<1> USE <1>1, <1>2, <1>3, <1>4, <1>5
<1>6. CASE Operator
  BY <1>6 DEF Operator
<1>7. ASSUME NEW m \in Message, MessageStep(m)
      PROVE  \/ pc'[t] = pc[t] /\ outcome'[t] = outcome[t]
             \/ t \in Message /\ RunStep(t)
             \/ t \in Message /\ (Resume(t) \/ AppendQuestion(t) \/ AppendSteps(t) \/ Compress(t))
  BY <1>7 DEF MessageStep
<1>8. ASSUME NEW m \in Invocation, RunStep(m)
      PROVE  (pc'[t] = pc[t] /\ outcome'[t] = outcome[t]) \/ RunStep(t)
  BY <1>8
<1> QED BY <1>6, <1>7, <1>8 DEF Next

\* What lets a run on to the executor is CheckLocal.
LEMMA OnlyFromLocal ==
  ASSUME IInv, [Next]_vars, NEW r \in Run, Starts(r)
  PROVE  pc[r] = "local"
<1> USE DEF IInv, TypeOK, Starts, Goto
<1>1. Next
  BY DEF vars
<1>2. CASE Start(r) \/ RunStep(r)
  <2>1. CASE Invoke(r) \/ CheckRisk(r)
    BY <2>1 DEF Invoke, CheckRisk, Block, Ask
  <2>2. CASE Start(r) \/ CheckLocal(r) \/ EndTool(r) \/ StopChoosing(r) \/ Finish(r)
    BY <2>2 DEF Start, CheckLocal, EndTool, StopChoosing, Finish
  <2> QED BY <1>2, <2>1, <2>2 DEF RunStep
<1>3. CASE \/ r \in Message /\ (Resume(r) \/ AppendQuestion(r) \/ AppendSteps(r) \/ Compress(r))
           \/ r \in Invocation /\ Prompt(r)
  BY <1>3 DEF Resume, AppendQuestion, AppendSteps, Compress, Prompt, Block
<1> QED BY <1>1, <1>2, <1>3, OthersStay

LEMMA StartApproved ==
  ASSUME IInv, [Next]_vars, NEW r \in Run, Starts(r), MustAsk(r)
  PROVE  answered[r] = "approve" /\ r \notin expired
BY OnlyFromLocal DEF IInv, Cleared

LEMMA StartInScope ==
  ASSUME IInv, [Next]_vars, NEW r \in Run, Starts(r), Mode = "redteam", call[r].tool \in ToolName
  PROVE  \/ Targets[r] = {}
         \/ \E t \in Targets[r] : Covers(t, call[r].target.host)
         \/ call[r].target.host \in IP /\ \A t \in Targets[r] : t.kind = "domain"
<1>1. pc[r] = "local"
  BY OnlyFromLocal
<1>2. call[r] # NoCall /\ InSessionScope(Targets[r], call[r])
  BY <1>1 DEF IInv, InHand, Held
<1>3. call[r] \in Call \cup Planned
  BY <1>2 DEF IInv, TypeOK
<1>4. call[r].target = Malformed \/ IsText(call[r].target)
  BY <1>3, ConversationAssumption
<1> DEFINE policy == SessionPolicy(Targets[r], "recon")
<1>5. Allows(policy, GateRequest(call[r], policy))
  BY <1>2 DEF InSessionScope, Allows
<1>6. IsText(call[r].target) /\ InScope(policy, call[r].target.host)
  BY <1>4, <1>5, GateInScope
<1>7. call[r].target.host \in Host
  BY <1>6 DEF IsText
<1> QED BY <1>6, <1>7, SessionScopeCovers, ConversationAssumption

LEMMA Overruled ==
  ASSUME IInv, [Next]_vars, NEW m \in Message, pc[m] = "waiting", outcome'[m] = "blocked"
  PROVE  answered[m] # "approve" \/ m \in expired
<1> USE DEF Run
<1>1. outcome[m] = "none"
  BY DEF IInv, Placed, Closing
<1>2. Resume(m)
  <2>1. Next
    BY <1>1 DEF vars
  <2>2. ~Start(m) /\ ~RunStep(m)
    BY DEF Start, RunStep, Invoke, CheckRisk, CheckLocal, EndTool, StopChoosing, Finish
  <2>3. ~AppendQuestion(m) /\ ~AppendSteps(m) /\ ~Compress(m)
    BY DEF AppendQuestion, AppendSteps, Compress
  <2>4. m \notin Invocation
    BY ConversationAssumption
  <2> QED BY <1>1, <2>1, <2>2, <2>3, <2>4, OthersStay
<1>3. m \in expired \/ pending[Id(m)] # "approve"
  BY <1>1, <1>2 DEF Resume
<1>4. m \in expired \/ pending[Id(m)] \in {"deny", "cancelled"}
  BY <1>2, <1>3, OwnFuture DEF IInv, Resume
<1> QED BY <1>4 DEF IInv, Answered

\* What runs, under any interleaving of messages, decisions, timeouts and
\* edits of the risk policy, was approved where it had to be
\* (request_confirmation, submit_confirmation) and is in the scope of its
\* session (_enforce_security_tool_scope).
THEOREM RunsHold == Spec => RunsAllowed
<1>1. IInv /\ [Next]_vars =>
        [\A r \in Run : Starts(r) /\ MustAsk(r) => answered[r] = "approve" /\ r \notin expired]_vars
  BY StartApproved
<1>2. IInv /\ [Next]_vars =>
        [\A r \in Run : Starts(r) /\ Mode = "redteam" /\ call[r].tool \in ToolName =>
           \/ Targets[r] = {}
           \/ \E t \in Targets[r] : Covers(t, call[r].target.host)
           \/ call[r].target.host \in IP /\ \A t \in Targets[r] : t.kind = "domain"]_vars
  BY StartInScope
<1> QED BY <1>1, <1>2, ConversationInvariance, PTL DEF RunsAllowed, RunsApproved, RunsInScope, Spec

\* An approval that was acknowledged first is overruled by the timeout alone.
THEOREM ApprovalHolds == Spec => ApprovalHonoured
<1>1. IInv /\ [Next]_vars =>
        [\A m \in Message : pc[m] = "waiting" /\ outcome'[m] = "blocked"
           => answered[m] # "approve" \/ m \in expired]_vars
  BY Overruled
<1> QED BY <1>1, ConversationInvariance, PTL DEF ApprovalHonoured, Spec
=============================================================================
