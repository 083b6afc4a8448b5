SPECIFICATION ProjectSpec
CONSTANTS
  dev = dev
  www = www
  addr = addr
  forge = forge
  net = net
  web = web
  Host = {dev, www, addr}
  IP = {addr}
  Domain = {dev, www, forge}
  Cidr = {net}
  DomainsOf <- MCDomains
  CidrsOf <- MCCidrs
  Malformed = Malformed
  Unknown = Unknown
  Value <- MCValues
  Scanned <- MCScanned
  Loop = Loop
  Agent = Agent
  KeyOf <- MCKeys
  Patches <- MCPatches
  s1 = s1
  s2 = s2
  t1 = t1
  Session = {s1, s2}
  Order <- MCOrder
  Scanner = {t1}
  Turn = Turn
  Desk = Desk
  Whole = Whole
  NoRecord = NoRecord
  MaxRows = 3
  Member = {s1, s2}
  Project = Project
  MaxTargets = 2
  MaxScans = 1
  MaxDecisions = 2
INVARIANTS
  PolicyBeforeTargets
  ApprovedStaysInScope
  DenialBinds
  ApprovalReportedTrue
  PathSound
  WriteupsGrounded
  ProjectKept
PROPERTIES
  RejectedKeyBars
CHECK_DEADLOCK FALSE
