---------------------------- MODULE MCTargetPool -----------------------------
(* A project with two names of one domain and an address.                  *)
EXTENDS TargetPool, TLC

CONSTANTS dev, www, addr, forge, net, web

MCDomains == (dev :> {dev, forge}) @@ (www :> {www, forge}) @@ (addr :> {})
MCCidrs   == (dev :> {}) @@ (www :> {}) @@ (addr :> {net})
MCKeys    == (dev :> forge) @@ (www :> forge) @@ (addr :> addr)

Url(h) == [host |-> h, url |-> TRUE, port |-> web, protocol |-> web]
MCValues  == {Plain(dev), Url(www), Plain(addr)}
MCScanned == MCValues \cup {Url(dev)}

\* The operator allows the domain or the network, clears the denied list, or
\* allows web targets only.
MCPatches == {[domains |-> {forge}, cidrs |-> {net}], [denied |-> {}],
              [ports |-> {web}, protocols |-> {web}, categories |-> {"enum"}]}
=============================================================================
