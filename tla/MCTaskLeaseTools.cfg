CONSTANTS
  Tasks = {t1}
  SkillTasks = {}
  Workers = {w1, w2}
  Calls = {c1, a1}
  AskCalls = {a1}
  SkillStep = skill
  NoCall = NoCall
  NoTask = NoTask
  UseEvaluator = FALSE
  MaxRecoveries = 1
  MaxIterations = 3
  MaxEvalRetries = 0
SPECIFICATION Spec
SYMMETRY Symm
INVARIANTS TypeOK EffectAtMostOnce OneLeaseHolder RunningStepMatchesPhase SuspendedIsAnswerable
PROPERTIES TerminalIsFinal RecordedResultsStay ContractHonoured
CHECK_DEADLOCK FALSE
