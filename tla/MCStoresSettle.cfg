SPECIFICATION FairSpec
CONSTANTS
  Parts = {"steps", "publication", "lifecycle", "write", "budget", "collaboration", "schedule", "memory"}
  StepLimit = 1
  RecoveryLimit = 1
  MaxAttempts = 2
  EventBound = 1
  OutboxLimit = 1
  MaxCrashes = 1
  Plans = {p1, p2}
  MaxGen = 2
  MaxWrites = 1
  MaxFails = 2
  MaxTurns = 2
  BudgetCalls = {c1, c2}
  MaxTokens = 3
  MaxRequests = 2
  Estimate = 2
  Excess = 1
  Concurrency = 1
  MaxClaims = 2
  MaxAnswers = 0
  MaxSlot = 1
  MaxFaults = 1
  Reviewers = {m1, m2}
  MaxJobs = 1
  MaxDefers = 1
  MaxDeaths = 1
  Files = {f1}
INVARIANTS OperationOnce
PROPERTIES RowsSettle ContractKept LateResultsRefused
CHECK_DEADLOCK FALSE
