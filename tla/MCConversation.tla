---------------------------- MODULE MCConversation ----------------------------
(* A session on one name, a second name and an address outside of it, and    *)
(* two modules run once on the second, as a name and as a URL.  The stricter *)
(* risk policy asks for every security tool.                                 *)
EXTENDS Conversation

CONSTANTS dev, www, dns8, misread, first, second, recon, enum

MCDomains == (dev :> {dev}) @@ (www :> {www}) @@ (dns8 :> {})
MCCidrs   == [h \in {dev, www, dns8} |-> {}]

Named1(h) == [kind |-> "domain", value |-> Plain(h), explicit |-> FALSE]

MCTargets == (first :> {Named1(dev)}) @@ (second :> {Named1(dev)})
               @@ (recon :> {Coerced(Plain(www))}) @@ (enum :> {Coerced(Web(www, "https"))})
MCPlan    == (recon :> SurfaceRecon(Plain(www))) @@ (enum :> WebEnum(Web(www, "https")))
MCAllowed == (first :> Capabilities(BaseTool)) @@ (second :> Capabilities({"bash"}))
               @@ (recon :> Capabilities(ToolName)) @@ (enum :> Capabilities(ToolName))

Delete == [Step("delete_file", Malformed) EXCEPT !.sensitive = TRUE]
Scan   == [Step("port_scan", Plain(dev)) EXCEPT !.args.ports = {"80", "443"}]
MCCall == {Delete, Scan, Step("http_probe", Web(www, "http"))}

Strict == [limit |-> 1, ask |-> {"elevated"}, actions |-> <<>>, overrides |-> <<>>]
MCContent == [default |-> DefaultRisk, strict |-> Strict, broken |-> Unreadable]
=============================================================================
