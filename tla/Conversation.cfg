SPECIFICATION FairSpec
CONSTANTS
  dev = dev
  www = www
  dns8 = dns8
  misread = misread
  first = first
  second = second
  recon = recon
  enum = enum
  Host = {dev, www, dns8}
  IP = {dns8}
  Domain = {dev, www, misread}
  Cidr = {}
  DomainsOf <- MCDomains
  CidrsOf <- MCCidrs
  Malformed = Malformed
  Unknown = Unknown
  Resolver = dns8
  Misread = misread
  Message = {first, second}
  Invocation = {recon, enum}
  Plan <- MCPlan
  Targets <- MCTargets
  Mode = "redteam"
  Call <- MCCall
  Allowed <- MCAllowed
  Content <- MCContent
  MaxCalls = 2
  MaxEdits = 1
  NoCall = NoCall
INVARIANTS
  SummaryIncludesTurn
PROPERTIES
  RunsAllowed
  ApprovalHonoured
  EveryStreamEnds
CHECK_DEADLOCK FALSE
