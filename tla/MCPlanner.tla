------------------------------ MODULE MCPlanner -------------------------------
(* Two hosts and the resolver.  The operator allows everything, or one host  *)
(* and no resolver; the model answers with too much, with twins or not.      *)
EXTENDS Planner

CONSTANTS dev, www, dns8

MCDomains == (dev :> {dev}) @@ (www :> {www}) @@ (dns8 :> {})
MCCidrs   == [h \in {dev, www, dns8} |-> {}]

MCFirst    == EmptyPolicy
MCPolicies == {EmptyPolicy, [EmptyPolicy EXCEPT !.hosts = {dev}]}

Tls(h, n) == Candidate("tls_inspect", Plain(h), DefaultArgs, n)
Long == <<Tls(dev, 0), Garbage, Tls(dev, 0), Candidate("nmap", Plain(www), DefaultArgs, 0),
          Candidate("port_scan", Plain(www), DefaultArgs, 0), HttpOf(Web(www, "http")),
          Tls(www, -1)>>
MCAnswers == {<<>>, Long}

Symmetry == Permutations(Console)
=============================================================================
