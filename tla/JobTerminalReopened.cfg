SPECIFICATION Spec
CONSTANTS
  fetch = fetch
  report = report
  Job = {fetch, report}
  Deps <- ChainDeps
  RetryLimit <- ChainRetry
  Token <- Tokens
  NoToken = NoToken
  NoJob = NoJob
  SchedulerThread = {drain}
  WorkerThread = {drain}
  Operator = {op}
  MaxRequests = 1
  MaxCrashes = 0
PROPERTIES
  TerminalIsFinal
