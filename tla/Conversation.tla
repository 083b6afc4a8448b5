---------------------------- MODULE Conversation -----------------------------
(***************************************************************************)
(* The messages of one conversation, each a task on the event loop with a  *)
(* turn of the agent in a thread of its own, and modules run from the      *)
(* command line.  Their tool calls pass the gate of module ToolGate; where *)
(* it asks, the thread waits for the operator: through a future with a     *)
(* timeout in the web, through a prompt on the command line.  Turns of one *)
(* conversation share the memory of the session (SessionState).            *)
(*                                                                         *)
(* The model may ask for several calls in one answer; they run one after   *)
(* the other, as if it had been asked between them.  The number of model   *)
(* calls is bounded by MaxCalls tool calls.  The session row (status       *)
(* active, last error), the stream's events and their sequence numbers are *)
(* left out: only the end of the stream and what it told are kept.         *)
(***************************************************************************)
EXTENDS ToolGate

CONSTANTS
  Message,    \* messages sent to the conversation
  Invocation, \* modules run from the command line
  Plan,       \* steps of each invocation
  Targets,    \* targets of the session of each run
  Mode,       \* mode of the sessions
  Call,       \* what the model may ask for
  Allowed,    \* allowed capabilities of each run: base runtime, skill or module
  Content,    \* versions of the risk policy file, as load_policy reads them
  MaxCalls,   \* settings.max_agent_steps
  MaxEdits,   \* bound: edits of the risk policy file
  NoCall

Run == Message \cup Invocation
Version == DOMAIN Content

\* The calls that modules plan.
Planned == UNION {ToSet(Plan[r]) : r \in Invocation}

ASSUME ConversationAssumption ==
  /\ Message \cap Invocation = {}
  /\ MaxCalls \in Nat \ {0} /\ MaxEdits \in Nat
  /\ "default" \in Version /\ Content["default"] = DefaultRisk
  /\ DOMAIN Targets = Run /\ DOMAIN Allowed = Run
  /\ Plan \in [Invocation -> Seq(Planned)]
  /\ NoCall \notin Call \cup Planned
  /\ \A c \in Call \cup Planned :
       c.tool \in ToolName => c.target = Malformed \/ IsText(c.target)
  /\ \A r \in Run : \A t \in Targets[r] : t.kind \in {"cidr", "domain", "host", "ip", "url"}

VARIABLES
  pc,        \* what each run does next
  call,      \* the call in its hands
  calls,     \* calls made so far
  outcome,   \* ExecutionOutcome.status
  pending,   \* _pending_confirmations: key -> state of the future
  expired,   \* runs whose wait has timed out
  told,      \* how each stream ended: not yet, nothing, an answer, an error
  risk,      \* the version of the risk policy file
  edits,     \* its edits so far
  history,   \* SessionState.history: questions and steps of turns
  summary,   \* the turns that compressed_summary covers
  snapshot,  \* the turns each compression was given
  answered,  \* history: first acknowledged answer to the request of the run's call
  inForce,   \* history: risk policies in force since the run's call was invoked
  age,       \* history: compressions since a turn was appended; 0 when not appended
  crowded    \* history: turns appended while another was being compressed

gate    == <<pending, expired, answered>>
memory  == <<history, summary, snapshot, age, crowded>>
vars    == <<pc, call, calls, outcome, gate, told, risk, edits, memory, inForce>>

Init ==
  /\ pc = [r \in Run |-> "idle"]
  /\ call = [r \in Run |-> NoCall]
  /\ calls = [r \in Run |-> 0]
  /\ outcome = [r \in Run |-> "none"]
  /\ pending = <<>>
  /\ expired = {}
  /\ told = [m \in Message |-> "open"]
  /\ risk = "default" /\ edits = 0
  /\ history = {} /\ summary = {}
  /\ snapshot = [m \in Message |-> {}]
  /\ answered = [r \in Run |-> "none"]
  /\ inForce = [r \in Run |-> {}]
  /\ age = [m \in Message |-> 0] /\ crowded = {}

-----------------------------------------------------------------------------
(* Plausible slips, for the mutant runs.                                   *)

\* A decision settles whatever the conversation is waiting for.
AddressedMutant(r) == DOMAIN pending
\* A decision that comes after another replaces it.
SettledMutant(state, decision) == decision
\* The wait has no timeout.
MayExpireMutant(r) == FALSE
\* The context is compressed before the exchange is appended.
TranscriptMutant(kept, m) == {t \in Message \ {m} : <<t, "steps">> \in kept}

-----------------------------------------------------------------------------
Goto(r, place) == pc' = [pc EXCEPT ![r] = place]

End(r, status) == outcome' = [outcome EXCEPT ![r] = status]

\* The request a run waits with: its identifier is drawn at random.
Id(r) == <<r, calls[r]>>

\* The call is over, with a text for the model or not.
Drop(r) ==
  /\ call' = [call EXCEPT ![r] = NoCall]
  /\ inForce' = [inForce EXCEPT ![r] = {}]
  /\ answered' = [answered EXCEPT ![r] = "none"]

\* ToolExecutionBlockedError ends the turn or the module.
Block(r) == Goto(r, "ending") /\ End(r, "blocked") /\ Drop(r)

-----------------------------------------------------------------------------
(* A message arrives, a module is run.                                     *)

Busy == {r \in Run : pc[r] \notin {"idle", "ended"}}

\* start_message, and what the controller makes of the text: nothing to
\* execute, a session that cannot be started, or a prompt.  The command line
\* reads the next line when the last one is done with.
Start(r) ==
  /\ pc[r] = "idle"
  /\ IF r \in Message THEN Busy \cap Invocation = {} ELSE Busy = {}
  /\ \/ /\ r \in Message /\ Goto(r, "ended")
        /\ told' = [told EXCEPT ![r] = "nothing"] /\ UNCHANGED outcome
     \/ /\ Goto(r, "ending") /\ End(r, "failed") /\ UNCHANGED told
     \/ /\ Goto(r, "choosing") /\ UNCHANGED <<outcome, told>>
  /\ UNCHANGED <<call, calls, gate, risk, edits, memory, inForce>>

\* emit_final_answer or emit_interaction_error, and the end of the stream.
Finish(r) ==
  /\ pc[r] = "ending"
  /\ Goto(r, "ended")
  /\ told' = IF r \in Message
               THEN [told EXCEPT ![r] = IF outcome[r] = "completed" THEN "answer" ELSE "error"]
               ELSE told
  /\ End(r, "none") /\ expired' = expired \ {r} /\ calls' = [calls EXCEPT ![r] = 0]
  /\ UNCHANGED <<call, pending, answered, risk, edits, memory, inForce>>

-----------------------------------------------------------------------------
(* The gate.                                                               *)

\* A request is stored with a future that nobody has set.
With(request) ==
  [id \in {request} \cup DOMAIN pending |-> IF id = request THEN "waiting" ELSE pending[id]]

\* request_confirmation of the port.
Ask(r, n) ==
  IF r \in Message
    THEN /\ Goto(r, "waiting")
         /\ pending' = With(<<r, n>>)
         /\ expired' = expired \ {r}
    ELSE Goto(r, "prompting") /\ UNCHANGED <<pending, expired>>

\* The call the model asks for, or the next step of the module.
NextCalls(r) ==
  IF r \in Message THEN IF calls[r] < MaxCalls THEN Call ELSE {}
  ELSE IF calls[r] < Len(Plan[r]) THEN {Plan[r][calls[r] + 1]} ELSE {}

\* execute, up to the risk policy: access and scope are decided on the session
\* as it was when the run began.  Only base tools are confirmed here, for
\* which the gate has no more to say.
Invoke(r) ==
  /\ pc[r] = "choosing"
  /\ \E c \in NextCalls(r) :
       LET access == Access(Mode, c)
           denied == access = "deny" \/ (Mode = "redteam" /\ ~InSessionScope(Targets[r], c))
       IN \/ /\ denied
             /\ Block(r) /\ UNCHANGED <<pending, expired>>
          \/ /\ ~denied
             /\ call' = [call EXCEPT ![r] = c]
             /\ inForce' = [inForce EXCEPT ![r] = {risk}]
             /\ IF access = "confirm"
                  THEN Ask(r, calls[r] + 1)
                  ELSE /\ Goto(r, IF Mode = "redteam" THEN "risk" ELSE "local")
                       /\ UNCHANGED <<pending, expired>>
             /\ UNCHANGED <<outcome, answered>>
  /\ calls' = [calls EXCEPT ![r] = @ + 1]
  /\ UNCHANGED <<told, risk, edits, memory>>

\* The risk policy file is read at each call.
CheckRisk(r) ==
  /\ pc[r] = "risk"
  /\ LET verdict == RiskVerdict(Content[risk], call[r])
     IN \/ /\ verdict = "deny"
           /\ Block(r) /\ UNCHANGED <<pending, expired>>
        \/ /\ verdict = "confirm"
           /\ Ask(r, calls[r])
           /\ UNCHANGED <<outcome, call, inForce, answered>>
        \/ /\ verdict = "allow"
           /\ Goto(r, "local") /\ UNCHANGED <<outcome, call, inForce, gate>>
  /\ UNCHANGED <<calls, told, risk, edits, memory>>

-----------------------------------------------------------------------------
(* Confirmations.                                                          *)

\* The futures a decision for the request of a run is for.
Addressed(r) == {Id(r)} \cap DOMAIN pending

\* submit_confirmation: only the first decision is set.
Settled(state, decision) == IF state = "waiting" THEN decision ELSE state

\* Every decision that finds its request is acknowledged.
Submit(r, decision) ==
  /\ Id(r) \in DOMAIN pending
  /\ pending' = [id \in DOMAIN pending |->
                   IF id \in Addressed(r) THEN Settled(pending[id], decision) ELSE pending[id]]
  /\ answered' = [answered EXCEPT ![r] = IF @ = "none" THEN decision ELSE @]
  /\ UNCHANGED <<pc, call, calls, outcome, expired, told, risk, edits, memory, inForce>>

\* wait_for: the timeout cancels a future that waits; of one that has just been
\* set it takes the result away.
MayExpire(r) == r \notin expired

Expire(r) ==
  /\ pc[r] = "waiting" /\ MayExpire(r)
  /\ expired' = expired \cup {r}
  /\ pending' = [pending EXCEPT ![Id(r)] = Settled(@, "cancelled")]
  /\ UNCHANGED <<pc, call, calls, outcome, answered, told, risk, edits, memory, inForce>>

Without(r) == [id \in DOMAIN pending \ {Id(r)} |-> pending[id]]

\* The waiting task goes on: an expired wait is a denial.
Resume(r) ==
  /\ pc[r] = "waiting"
  /\ r \in expired \/ pending[Id(r)] # "waiting"
  /\ pending' = Without(r)
  /\ IF r \notin expired /\ pending[Id(r)] = "approve"
       THEN Goto(r, "local") /\ UNCHANGED <<outcome, call, inForce, answered>>
       ELSE Block(r)
  /\ UNCHANGED <<calls, expired, told, risk, edits, memory>>

\* The prompt of the command line; the end of input is a denial.
Prompt(r) ==
  /\ pc[r] = "prompting"
  /\ \/ /\ Goto(r, "local") /\ answered' = [answered EXCEPT ![r] = "approve"]
        /\ UNCHANGED <<outcome, call, inForce>>
     \/ Block(r)
  /\ UNCHANGED <<calls, pending, expired, told, risk, edits, memory>>

-----------------------------------------------------------------------------
(* The executor.                                                           *)

\* The checks after the gate.  confirm_command asks outside of the conversation;
\* the command line gives none, and what would be asked is then refused.
CheckLocal(r) ==
  /\ pc[r] = "local"
  /\ LET verdict == Local(call[r], Allowed[r])
     IN \/ verdict \in {"run", "ask"} /\ Goto(r, "running") /\ UNCHANGED <<call, inForce, answered>>
        \/ verdict \in {"refuse", "ask"} /\ Goto(r, "choosing") /\ Drop(r)
  /\ UNCHANGED <<calls, outcome, pending, expired, told, risk, edits, memory>>

EndTool(r) ==
  /\ pc[r] = "running"
  /\ Drop(r)
  /\ \/ Goto(r, "choosing") /\ UNCHANGED outcome
     \/ Goto(r, "ending") /\ End(r, "failed")
  /\ UNCHANGED <<calls, pending, expired, told, risk, edits, memory>>

-----------------------------------------------------------------------------
(* The end of a turn.                                                      *)

\* The model answers without a call, has no step left, or cannot be asked; a
\* module has no step left.
StopChoosing(r) ==
  /\ pc[r] = "choosing"
  /\ IF r \in Message
       THEN \/ calls[r] < MaxCalls /\ End(r, "completed") /\ Goto(r, "appending")
            \/ calls[r] = MaxCalls /\ End(r, "max_steps") /\ Goto(r, "appending")
            \/ calls[r] < MaxCalls /\ End(r, "failed") /\ Goto(r, "ending")
       ELSE calls[r] = Len(Plan[r]) /\ End(r, "completed") /\ Goto(r, "ending")
  /\ UNCHANGED <<call, calls, gate, told, risk, edits, memory, inForce>>

\* What compress_context is given: the history when the turn has been appended.
Transcript(kept, m) == {t \in Message : <<t, "steps">> \in kept}

AppendQuestion(m) ==
  /\ pc[m] = "appending"
  /\ Goto(m, "extending")
  /\ history' = history \cup {<<m, "question">>}
  /\ UNCHANGED <<call, calls, outcome, gate, told, risk, edits, summary, snapshot,
                 age, crowded, inForce>>

\* append_messages, and should_compress on the tokens of the turn.
AppendSteps(m) ==
  /\ pc[m] = "extending"
  /\ history' = history \cup {<<m, "steps">>}
  /\ age' = [age EXCEPT ![m] = 1]
  /\ crowded' = IF \E o \in Message : pc[o] = "compressing" THEN crowded \cup {m} ELSE crowded
  /\ \/ Goto(m, "ending") /\ UNCHANGED snapshot
     \/ Goto(m, "compressing") /\ snapshot' = [snapshot EXCEPT ![m] = Transcript(history', m)]
  /\ UNCHANGED <<call, calls, outcome, gate, told, risk, edits, summary, inForce>>

\* apply_compressed_summary, unless the model could not be asked.
Compress(m) ==
  /\ pc[m] = "compressing"
  /\ Goto(m, "ending")
  /\ snapshot' = [snapshot EXCEPT ![m] = {}]
  /\ \/ UNCHANGED <<history, summary, age>>
     \/ /\ history' = {} /\ summary' = snapshot[m]
        /\ age' = [t \in Message |-> IF age[t] \in {1, 2} THEN age[t] + 1 ELSE age[t]]
  /\ UNCHANGED <<call, calls, outcome, gate, told, risk, edits, crowded, inForce>>

-----------------------------------------------------------------------------
\* The operator edits the risk policy file.
EditRisk ==
  /\ edits < MaxEdits /\ edits' = edits + 1
  /\ risk' \in Version \ {risk}
  /\ inForce' = [r \in Run |-> IF call[r] = NoCall THEN {} ELSE inForce[r] \cup {risk'}]
  /\ UNCHANGED <<pc, call, calls, outcome, gate, told, memory>>

RunStep(r) ==
  \/ Invoke(r) \/ CheckRisk(r) \/ CheckLocal(r) \/ EndTool(r)
  \/ StopChoosing(r) \/ Finish(r)

MessageStep(m) ==
  RunStep(m) \/ Expire(m) \/ Resume(m) \/ AppendQuestion(m) \/ AppendSteps(m) \/ Compress(m)

Operator ==
  \/ \E r \in Run : Start(r)
  \/ \E m \in Message, d \in {"approve", "deny"} : Submit(m, d)
  \/ \E r \in Invocation : Prompt(r)
  \/ EditRisk

Next == Operator \/ (\E m \in Message : MessageStep(m)) \/ (\E r \in Invocation : RunStep(r))

Spec == Init /\ [][Next]_vars

\* The event loop and the threads of a turn go on; the model, the tools and
\* confirm_command answer at last.  The operator need not.
FairSpec == Spec /\ \A m \in Message : WF_vars(MessageStep(m))

-----------------------------------------------------------------------------
TypeOK ==
  /\ pc \in [Run -> {"idle", "choosing", "risk", "waiting", "prompting", "local",
                     "running", "appending", "extending", "compressing", "ending", "ended"}]
  /\ call \in [Run -> Call \cup Planned \cup {NoCall}]
  /\ calls \in [Run -> Nat]
  /\ outcome \in [Run -> {"none", "completed", "max_steps", "blocked", "failed"}]
  /\ DOMAIN pending = {Id(m) : m \in {n \in Message : pc[n] = "waiting"}}
  /\ \A id \in DOMAIN pending : pending[id] \in {"waiting", "approve", "deny", "cancelled"}
  /\ expired \subseteq Message
  /\ told \in [Message -> {"open", "nothing", "answer", "error"}]
  /\ risk \in Version /\ edits \in 0..MaxEdits
  /\ history \subseteq Message \X {"question", "steps"}
  /\ summary \subseteq Message /\ snapshot \in [Message -> SUBSET Message]
  /\ answered \in [Run -> {"none", "approve", "deny"}]
  /\ inForce \in [Run -> SUBSET Version]
  /\ age \in [Message -> 0..3] /\ crowded \subseteq Message

Starts(r) == pc'[r] = "running" /\ pc[r] # "running"

\* Asked under every risk policy in force while the call was in the gate.
MustAsk(r) ==
  /\ Mode = "redteam"
  /\ \/ Access(Mode, call[r]) = "confirm"
     \/ \A v \in inForce[r] : RiskVerdict(Content[v], call[r]) # "allow"

\* A call that had to be confirmed runs only when the first decision that the
\* operator gave for this very request was an approval, in time: not one given
\* for the request of another message, not a later one, not after the wait for
\* it expired (submit_confirmation, request_confirmation).
RunsApproved ==
  [][\A r \in Run : Starts(r) /\ MustAsk(r) => answered[r] = "approve" /\ r \notin expired]_vars

\* An approval that was acknowledged as the first decision is overruled only
\* by the timeout of its request.
ApprovalHonoured ==
  [][\A m \in Message : pc[m] = "waiting" /\ outcome'[m] = "blocked"
        => answered[m] # "approve" \/ m \in expired]_vars

\* What a target of a session names.
Covers(t, h) ==
  \/ t.kind = "cidr" /\ t.value \in CidrsOf[h]
  \/ t.kind = "domain" /\ t.value.host \in DomainsOf[h]
  \/ t.kind \in {"host", "ip", "url"} /\ t.value.host = h

\* A security tool is started only at a host that a target of the session
\* names.  An address is free when the session names no host, address, URL or
\* range, and everything is when it has no target (_build_session_scope_policy
\* and ScopeValidator together).
RunsInScope ==
  [][\A r \in Run : Starts(r) /\ Mode = "redteam" /\ call[r].tool \in ToolName =>
        \/ Targets[r] = {}
        \/ \E t \in Targets[r] : Covers(t, call[r].target.host)
        \/ call[r].target.host \in IP /\ \A t \in Targets[r] : t.kind = "domain"]_vars

\* execution_service.py:908, interaction_adapter.py:155: both; whatever was
\* asked, answered, edited or cancelled meanwhile, what runs was approved and is
\* in the scope of its session.
RunsAllowed == RunsApproved /\ RunsInScope

\* The comment in apply_result_to_session: compression comes after the exchange
\* is appended, so that the summary includes it.  A turn is in the history
\* until the next compression and in its summary after that, unless it was
\* appended while another turn of the conversation was being compressed.  (The
\* compression after that forgets it: it is given the history alone.)
SummaryIncludesTurn ==
  \A m \in Message :
    /\ age[m] = 1 => <<m, "steps">> \in history
    /\ age[m] = 2 => m \in summary \/ m \in crowded

\* A message that was accepted ends its stream, although the operator may
\* never answer what it asks.
EveryStreamEnds ==
  []<>(\A m \in Message : pc[m] # "idle" => told[m] # "open")
=============================================================================
