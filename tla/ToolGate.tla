------------------------------- MODULE ToolGate -------------------------------
(***************************************************************************)
(* Whether a tool call of a turn or of a module may run, and what it has   *)
(* to ask for: the access rules of red-team mode, the scope a session's    *)
(* targets amount to, the risk policy, and the executor's own checks; and  *)
(* the steps a module plans for a target.                                  *)
(*                                                                         *)
(* A call is [tool, target, args, owned, sensitive, shell]: target and     *)
(* args are those of SecurityTools (other tools have target Malformed),    *)
(* owned says that its path is in the session's output area, sensitive     *)
(* that the path looks like a secret, and shell what the executor does     *)
(* with the command: "run", "ask" or "refuse".                             *)
(***************************************************************************)
EXTENDS SecurityTools, SequencesExt

CONSTANT Misread  \* the domain that host:port is taken for; no name is under it

ASSUME MisreadAssumption ==
  Misread \in Domain /\ \A h \in Host : Misread \notin DomainsOf[h]

Readers == {"list_dir", "read_file", "search", "web_fetch", "web_search"}
Writers == {"write_file", "edit_file"}

\* BASE_SESSION_TOOLS: no scope and no risk policy for these.
BaseTool == Readers \cup Writers \cup {"bash", "delete_file"}

\* TOOL_CAPABILITIES; a tool that is not listed counts as a reader.
Capability(tool) ==
  CASE tool \in Writers                -> "write"
    [] tool = "delete_file"            -> "destructive"
    [] tool \in ToolName \cup {"bash"} -> "execute"
    [] OTHER                           -> "read"

\* capabilities_for_tools, as RuntimeSafetyPolicy.for_tool_names allows them.
Capabilities(tools) == {Capability(t) : t \in tools}

-----------------------------------------------------------------------------
\* ToolAccessPolicyService.evaluate_tool_access.
Access(mode, call) ==
  IF mode # "redteam" THEN "allow"
  ELSE IF call.tool = "bash" THEN "deny"
  ELSE IF call.tool = "delete_file" \/ (call.tool \in Writers /\ ~call.owned) THEN "confirm"
  ELSE "allow"

-----------------------------------------------------------------------------
(* The scope of a session.  A target of a session is [kind, value,         *)
(* explicit]: value is a range for the kind cidr and a target text for the *)
(* others, explicit says that a URL is written with its port.              *)

Named(targets, kinds) == {t \in targets : t.kind \in kinds}

ProtocolsOf(targets) == {t.value.protocol : t \in Named(targets, {"url"})}

\* _build_session_scope_policy.
SessionPolicy(targets, category) ==
  [EmptyPolicy EXCEPT
     !.hosts      = {t.value.host : t \in Named(targets, {"host", "ip", "url"})},
     !.domains    = {IF t.value.port = Unknown THEN t.value.host ELSE Misread
                       : t \in Named(targets, {"domain"})},
     !.cidrs      = {t.value : t \in Named(targets, {"cidr"})},
     !.protocols  = ProtocolsOf(targets),
     !.ports      = {t.value.port : t \in {u \in Named(targets, {"url"}) : u.explicit}},
     !.categories = {category}]

\* _enforce_security_tool_scope: of a lookup only the name is held against the
\* scope, not the nameserver.
GateRequest(call, policy) ==
  LET request == Validate(call.tool, call.target, call.args, policy)
  IN IF call.tool = "dns_lookup" /\ request # Refused
       THEN [request EXCEPT !.targets = <<At(call.target, "dns", "53")>>]
       ELSE request

InSessionScope(targets, call) ==
  \/ call.tool \notin ToolName
  \/ LET policy  == SessionPolicy(targets, "recon")
         request == GateRequest(call, policy)
     IN request # Refused /\ Evaluate(policy, request) = "allowed"

-----------------------------------------------------------------------------
(* The risk policy: [limit, ask, actions, overrides], the ports of a small *)
(* scan, the levels that need a confirmation, and the level of actions; or *)
(* Unreadable.                                                             *)

Unreadable == [ask |-> {}]

DefaultRisk ==
  [limit |-> 100, ask |-> {"elevated", "dangerous"},
   actions |-> [t \in ToolName \ {"port_scan"} |-> "safe"], overrides |-> <<>>]

Risk(file, call) ==
  LET known == file.overrides @@ file.actions
  IN IF call.tool = "port_scan"
       THEN IF Cardinality(call.args.ports) <= file.limit THEN "safe" ELSE "elevated"
       ELSE IF call.tool \in DOMAIN known THEN known[call.tool] ELSE "elevated"

\* build_confirmation_decision, where _should_apply_redteam_risk_policy.
RiskVerdict(file, call) ==
  IF call.tool \in BaseTool THEN "allow"
  ELSE IF file = Unreadable THEN "deny"
  ELSE IF Risk(file, call) \in file.ask THEN "confirm" ELSE "allow"

-----------------------------------------------------------------------------
\* ToolExecutor.execute between the gate and the tool.  The command of a
\* security tool is empty, which is safe.
Local(call, allowed) ==
  LET capability == Capability(call.tool)
  IN IF capability \notin allowed THEN "refuse"
     ELSE CASE capability = "destructive" -> "ask"
            [] capability = "write"       -> IF call.sensitive THEN "ask" ELSE "run"
            [] capability = "execute"     -> call.shell
            [] OTHER                      -> "run"

-----------------------------------------------------------------------------
(* Modules.                                                                *)

Step(tool, target) ==
  [tool |-> tool, target |-> target, args |-> DefaultArgs,
   owned |-> FALSE, sensitive |-> FALSE, shell |-> "run"]

\* _coerce_session_target, of a text that is no range: the one target of the
\* session that is made for a single run of a module.
Coerced(text) ==
  [kind |-> IF text.url THEN "url"
            ELSE IF text.host \in IP /\ text.port = Unknown THEN "ip" ELSE "domain",
   value |-> text, explicit |-> FALSE]

\* _derive_probe_urls.
ProbeUrls(text) ==
  IF text.url THEN <<text>>
  ELSE LET http  == Web(text.host, "http")
           https == Web(text.host, "https")
       IN CASE text.port = "80"    -> <<http>>
            [] text.port = "443"   -> <<https>>
            [] text.port = Unknown -> <<http, https>>
            [] OTHER -> <<[http EXCEPT !.port = text.port], [https EXCEPT !.port = text.port]>>

\* _derive_tls_target.
TlsTarget(text) ==
  Socket(text.host, IF (text.url /\ text.protocol # "https") \/ text.port = Unknown
                      THEN "443" ELSE text.port)

Probes(text) == [i \in DOMAIN ProbeUrls(text) |-> Step("http_probe", ProbeUrls(text)[i])]

\* _build_surface_recon_steps, with every include_ flag left out.
SurfaceRecon(text) ==
  (IF text.host \in IP THEN <<>> ELSE <<Step("dns_lookup", Plain(text.host))>>)
    \o Probes(text) \o <<Step("tls_inspect", TlsTarget(text))>>

\* _build_web_enum_steps: the paths of one URL differ in nothing the gate sees.
WebEnum(text) ==
  LET enumerated(url) ==
        <<Step("http_probe", url)>>
          \o (IF url.protocol = "https"
                THEN <<Step("tls_inspect", Socket(url.host, url.port))>> ELSE <<>>)
  IN FlattenSeq([i \in DOMAIN ProbeUrls(text) |-> enumerated(ProbeUrls(text)[i])])
=============================================================================
