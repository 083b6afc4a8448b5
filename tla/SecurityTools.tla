---------------------------- MODULE SecurityTools -----------------------------
(***************************************************************************)
(* The five security tools: what each asks of the scope policy for a       *)
(* target and arguments (validate_invocation and to_admission_request),    *)
(* and what a successful execution leaves: one artifact and some findings. *)
(* What the network answers is an argument.  Headers, probes, timeouts and *)
(* body sizes are one field of the arguments, valid or not.                *)
(***************************************************************************)
EXTENDS Scope

CONSTANT Resolver  \* DEFAULT_NAMESERVER, an IP address

ASSUME ResolverAssumption == Resolver \in IP

ToolName == {"dns_lookup", "http_probe", "tls_inspect", "port_scan", "banner_grab"}

\* A URL without a port has that of its scheme.
SchemePort == [https |-> "443", http |-> "80"]

Web(h, scheme) == [host |-> h, url |-> TRUE, port |-> SchemePort[scheme], protocol |-> scheme]

\* build_socket_target.
Socket(h, port) == [host |-> h, url |-> FALSE, port |-> port, protocol |-> Unknown]

\* Arguments that are left out: no ports, the default resolver.
DefaultArgs == [valid |-> TRUE, ports |-> {}, server |-> Resolver]

\* The validation of a tool raised: SecurityToolExecutionError.
Refused == [targets |-> <<>>]

-----------------------------------------------------------------------------
(* validate_invocation, and the admission request made of its result.      *)

Request(tool, targets, ports) ==
  [tool |-> tool, category |-> "recon", targets |-> targets, ports |-> ports, skip |-> FALSE]

At(text, protocol, port) == [text |-> text, protocol |-> protocol, port |-> port]

\* The nameserver is what is contacted; the name asked for is held against the
\* policy as well.
DnsRequest(target, args) ==
  Request("dns_lookup", <<At(Plain(args.server), "dns", "53"), At(target, "dns", "53")>>, {})

HttpRequest(target) ==
  IF target.url THEN Request("http_probe", <<At(target, target.protocol, target.port)>>, {})
                ELSE Refused

\* The port of the target, that of the arguments, the default one.
TlsPort(target, args) ==
  IF target.port # Unknown THEN target.port
  ELSE IF args.ports = {} THEN "443" ELSE CHOOSE port \in args.ports : TRUE

TlsRequest(target, args) ==
  LET port == TlsPort(target, args)
  IN Request("tls_inspect", <<At(Socket(target.host, port), "tls", port)>>, {})

BannerRequest(target, args) ==
  LET ports == IF target.port # Unknown THEN {target.port} ELSE args.ports
  IN IF ports = {} THEN Refused
     ELSE LET port == CHOOSE p \in ports : TRUE
          IN Request("banner_grab", <<At(Socket(target.host, port), "tcp", port)>>, {})

\* _resolve_scan_ports: explicit ports, that of the target, those of the policy.
ScanPorts(target, args, policy) ==
  IF args.ports # {} THEN args.ports
  ELSE IF target.port # Unknown THEN {target.port} ELSE policy.ports

PortScanRequest(target, args, policy) ==
  LET ports == ScanPorts(target, args, policy)
  IN IF ports = {} \/ (policy.ports # {} /\ ~(ports \subseteq policy.ports)) THEN Refused
     ELSE Request("port_scan", <<At(Plain(target.host), "tcp", Unknown)>>, ports)

\* SecurityToolExecutor.validate.
Validate(tool, target, args, policy) ==
  IF tool \notin ToolName \/ target = Malformed \/ ~args.valid THEN Refused
  ELSE IF tool = "dns_lookup"  THEN DnsRequest(target, args)
  ELSE IF tool = "http_probe"  THEN HttpRequest(target)
  ELSE IF tool = "tls_inspect" THEN TlsRequest(target, args)
  ELSE IF tool = "banner_grab" THEN BannerRequest(target, args)
  ELSE PortScanRequest(target, args, policy)

\* Whether a tool may be tried on a target: skipped when its validation raises,
\* blocked when the policy denies it.
Precheck(tool, target, args, policy) ==
  LET request == Validate(tool, target, args, policy)
  IN IF request = Refused THEN "skipped"
     ELSE IF Evaluate(policy, request) \in {"out_of_scope", "target_denied"} THEN "blocked"
     ELSE "proposed"

-----------------------------------------------------------------------------
(* What an execution leaves.                                               *)

Artifact(type, ref) == [type |-> type, ref |-> ref]

DnsEvidence(target)    == Artifact("dns_response", target)
\* Redirects are not followed: the URL is the one that was asked for.
HttpEvidence(target)   == Artifact("http_response", target)
TlsEvidence(target, args) ==
  Artifact("tls_certificate", Socket(target.host, TlsPort(target, args)))
ScanEvidence(target)   == Artifact("port_scan", Plain(target.host))
BannerEvidence(target) == Artifact("banner", Socket(target.host, target.port))

Evidence(tool, target, args) ==
  [dns_lookup  |-> DnsEvidence(target),  http_probe |-> HttpEvidence(target),
   tls_inspect |-> TlsEvidence(target, args), port_scan  |-> ScanEvidence(target),
   banner_grab |-> BannerEvidence(target)][tool]

Finding(type, ref) == [type |-> type, ref |-> ref, open |-> TRUE]

\* _collect_findings: what is wrong with a certificate.
TlsFlaw == {"tls_hostname_mismatch", "tls_self_signed_certificate",
            "tls_expired_certificate", "tls_not_yet_valid_certificate"}
\* _finding_candidates_for_banner: what a banner or its port tells.
BannerFlaw == {"cleartext_telnet", "cleartext_ftp", "redis_banner"}

\* The findings an execution can report, by the flaws it meets.
Reportable(tool) ==
  CASE tool = "tls_inspect" -> TlsFlaw
    [] tool = "banner_grab" -> BannerFlaw
    [] OTHER                -> {}

Findings(tool, target, args, flaws) ==
  {Finding(f, Evidence(tool, target, args).ref) : f \in flaws \cap Reportable(tool)}
=============================================================================
