SPECIFICATION FairSpec
CONSTANTS
  fetch = fetch
  report = report
  Job = {fetch, report}
  Deps <- ChainDeps
  RetryLimit <- ChainRetry
  Token <- Tokens
  NoToken = NoToken
  NoJob = NoJob
  SchedulerThread = {drain}
  WorkerThread = {drain}
  Operator = {op}
  MaxRequests = 1
  MaxCrashes = 1
INVARIANTS
  LeasedIffRunning
  CancellationPrevails
  RetryBudgetKept
  OverspentOnlyByCancel
PROPERTIES
  ReopenedOnlyByCancel
  EverySettles
  CancelAnswered
