SPECIFICATION Spec
CONSTANTS
  Services = {"companion", "graph", "polling", "webhook", "delivery", "repair", "patch"}
  Inputs = {i1}
  NoInput = none
  CompanionOutbox = 2
  MaxConns = 2
  MaxSends = 2
  MaxMishaps = 1
  MaxHostCrashes = 1
  LateRequests = {"merge", "archive", "collect", "erase"}
  Pollers = {q1, q2}
  NoPoller = none
  LastUpdate = 2
  ConflictRetries = 1
  HookEvents = {e1, e2}
  DiscordEvents = {e2}
  MaxTries = 2
  MaxTroubles = 3
  DPlans = {d1, d2}
  Jobs = {j1, j2}
  NoPlan = none
  MaxCommits = 2
  MaxPulls = 1
  MaxEvents = 2
  PatchFiles = {f1, f2}
INVARIANTS ServicesTypeOK DoneOnce NothingMissed InTurn DeliveredAsChecked
PROPERTIES ServicesEnd OthersStay
CHECK_DEADLOCK FALSE
