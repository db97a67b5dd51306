SPECIFICATION SafeSpec
CONSTANTS
  Parts = {"memory"}
  StepLimit = 3
  RecoveryLimit = 0
  MaxAttempts = 2
  EventBound = 2
  OutboxLimit = 1
  MaxCrashes = 1
  Plans = {p1}
  MaxGen = 3
  MaxWrites = 1
  MaxFails = 1
  MaxTurns = 2
  BudgetCalls = {c1, c2}
  MaxTokens = 3
  MaxRequests = 2
  Estimate = 2
  Excess = 1
  Concurrency = 1
  MaxClaims = 2
  MaxAnswers = 1
  MaxSlot = 2
  MaxFaults = 1
  Reviewers = {m1, m2}
  MaxJobs = 1
  MaxDefers = 1
  MaxDeaths = 1
  Files = {f1}
INVARIANTS NothingLearntAfterErasure
CHECK_DEADLOCK FALSE
