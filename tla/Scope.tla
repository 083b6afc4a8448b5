-------------------------------- MODULE Scope --------------------------------
(***************************************************************************)
(* What a scope policy says of a request: ScopeValidator.evaluate.  The    *)
(* text of a target names a host (a name or an IP address), as a URL or    *)
(* not, perhaps with a port and a protocol; text that does not parse is    *)
(* Malformed.  Of the reasons for a denial only target_denied has a        *)
(* consequence of its own (a proposal is rejected instead of left for      *)
(* review), so the others are one.                                         *)
(***************************************************************************)
EXTENDS Sequences, FiniteSetsExt

CONSTANTS
  Host,       \* host names and IP addresses
  IP,         \* the IP addresses among them
  Domain,     \* values of allowed_domains
  Cidr,       \* values of allowed_cidrs
  DomainsOf,  \* the domains a name equals or is under; an IP literal has none
  CidrsOf,    \* the ranges an IP is in; a name is not resolved, it has none
  Malformed,  \* a target that does not parse
  Unknown     \* no port, no protocol

ASSUME ScopeAssumption ==
  /\ IP \subseteq Host
  /\ DomainsOf \in [Host -> SUBSET Domain]
  /\ \A h \in Host : IF h \in IP THEN DomainsOf[h] = {} ELSE h \in DomainsOf[h]
  /\ CidrsOf \in [Host -> SUBSET Cidr] /\ \A h \in Host \ IP : CidrsOf[h] = {}

Plain(h) == [host |-> h, url |-> FALSE, port |-> Unknown, protocol |-> Unknown]

\* What the text of a target says.
IsText(t) == DOMAIN t = {"host", "url", "port", "protocol"} /\ t.host \in Host

\* ScopePolicy.create without arguments.
EmptyPolicy == [hosts |-> {}, domains |-> {}, cidrs |-> {}, ports |-> {},
                protocols |-> {}, denied |-> {}, categories |-> {}, confirm |-> {}]

-----------------------------------------------------------------------------
(* Plausible slips, for the mutant runs.                                   *)

\* An address is approved as if it were a name.
WithTargetMutant(policy, t) ==
  IF t.url THEN [policy EXCEPT !.hosts = @ \cup {t.host}]
           ELSE [policy EXCEPT !.domains = @ \cup {t.host}]

-----------------------------------------------------------------------------
\* A target of a request: its text, the protocol and the port asked for.
Asked(text) == [text |-> text, protocol |-> Unknown, port |-> Unknown]

\* describe_target: what is asked for must agree with what the text says.
Agreed(said, asked) == asked = Unknown \/ said \in {Unknown, asked}

Describe(target) ==
  LET t == target.text
  IN IF \/ t = Malformed
        \/ ~Agreed(t.protocol, target.protocol) \/ ~Agreed(t.port, target.port)
       THEN Malformed
       ELSE [t EXCEPT !.protocol = IF @ = Unknown THEN target.protocol ELSE @,
                      !.port = IF @ = Unknown THEN target.port ELSE @]

\* _find_matching_denied_target: the entries of denied_targets that mean this
\* target: its host, its normal form (a protocol is no part of host:port) and
\* its text.
Spellings(text, t) ==
  {Plain(t.host), text, IF t.url THEN t ELSE [t EXCEPT !.protocol = Unknown]}

Denied(policy, text, t) == Spellings(text, t) \cap policy.denied # {}

Listed(policy, h) ==
  \/ h \in policy.hosts
  \/ DomainsOf[h] \cap policy.domains # {}
  \/ CidrsOf[h] \cap policy.cidrs # {}

\* _check_scope: an IP is not held against the domains.
InScope(policy, h) ==
  \/ Listed(policy, h)
  \/ policy.hosts = {} /\ policy.cidrs = {} /\ (h \in IP \/ policy.domains = {})

ProtocolAllowed(policy, t) ==
  policy.protocols = {} \/ t.protocol \in policy.protocols

\* _check_port: the ports the request lists stand for that of the target.
PortsAllowed(policy, ports, t) ==
  \/ policy.ports = {}
  \/ IF ports # {} THEN ports \subseteq policy.ports ELSE t.port \in policy.ports

TargetVerdict(policy, ports, target) ==
  LET t == Describe(target)
  IN IF t = Malformed THEN "out_of_scope"
     ELSE IF Denied(policy, target.text, t) THEN "target_denied"
     ELSE IF /\ InScope(policy, t.host)
             /\ ProtocolAllowed(policy, t)
             /\ PortsAllowed(policy, ports, t)
       THEN "allowed" ELSE "out_of_scope"

\* evaluate: the first target that is not allowed decides, the category comes
\* next and the confirmation last.
Evaluate(policy, request) ==
  LET verdict == [i \in DOMAIN request.targets |->
                    TargetVerdict(policy, request.ports, request.targets[i])]
      failing == {i \in DOMAIN verdict : verdict[i] # "allowed"}
  IN IF failing # {} THEN verdict[Min(failing)]
     ELSE IF policy.categories # {} /\ request.category \notin policy.categories
       THEN "out_of_scope"
     ELSE IF ~request.skip /\ {request.tool, request.category} \cap policy.confirm # {}
       THEN "requires_confirmation"
     ELSE "allowed"

-----------------------------------------------------------------------------
\* _target_type_for_descriptor: a name written without scheme is a domain.
\* (One without a dot is a host; the names here have one.)
IsDomainTarget(t) == ~t.url /\ t.host \notin IP

\* _add_target_to_policy.
WithTarget(policy, t) ==
  IF IsDomainTarget(t)
    THEN [policy EXCEPT !.domains = @ \cup {t.host}]
    ELSE [policy EXCEPT !.hosts = @ \cup {t.host}]
=============================================================================
