SPECIFICATION Spec
CONSTANTS
  dev = dev
  www = www
  dns8 = dns8
  Host = {dev, www, dns8}
  IP = {dns8}
  Domain = {dev, www}
  Cidr = {}
  DomainsOf <- MCDomains
  CidrsOf <- MCCidrs
  Malformed = Malformed
  Unknown = Unknown
  Garbage = Garbage
  Resolver = dns8
  Console = {c1, c2}
  FirstPolicy <- MCFirst
  Policies <- MCPolicies
  Answers <- MCAnswers
  MaxProposed = 2
  MaxContextItems = 1
  MaxPlans = 2
  MaxApplies = 2
  MaxJobs = 2
  MaxMemory = 1
  MaxPatches = 1
  MaxCrashes = 1
INVARIANTS
  JobsAllowed
  ApplyKept
SYMMETRY Symmetry
CHECK_DEADLOCK FALSE
