SPECIFICATION ExecutionSpec
CONSTANTS
  Job = {j1, j2}
  Worker = {w1, w2}
  NoJob = NoJob
  Gated = {j1}
  RetryLimit = 1
  MaxConcurrency = 1
  RateLimit = 1
  Candidates = 2
  Saver = {s1, s2}
  MaxMoves = 4
  Client = {w1, w2}
  Nobody = Nobody
  Recent = 1
  MaxRecords = 2
  MaxReports = 3
  MaxDrops = 1
INVARIANTS
  LimitsKept
  ApprovalIsRechecked
  EvidenceKept
  ReportKept
SYMMETRY Symmetry
CHECK_DEADLOCK FALSE
