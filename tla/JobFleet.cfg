SPECIFICATION Spec
CONSTANTS
  fetch = fetch
  report = report
  Job = {fetch, report}
  Deps <- ChainDeps
  RetryLimit <- ChainRetry
  Token <- Tokens
  NoToken = NoToken
  NoJob = NoJob
  SchedulerThread = {pass}
  WorkerThread = {w1, w2}
  Operator = {op}
  MaxRequests = 0
  MaxCrashes = 0
INVARIANTS
  OneExecutorPerLease
PROPERTIES
  OrderSpec
SYMMETRY WorkerSymmetry
