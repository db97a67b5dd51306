CONSTANTS
  Tasks = {t1}
  SkillTasks = {t1}
  Workers = {w1, w2}
  Calls = {c1}
  AskCalls = {}
  SkillStep = skill
  NoCall = NoCall
  NoTask = NoTask
  UseEvaluator = TRUE
  MaxRecoveries = 1
  MaxIterations = 2
  MaxEvalRetries = 1
SPECIFICATION FairSpec
INVARIANTS VerifiedIsCurrent
PROPERTIES EventuallySettled
CHECK_DEADLOCK FALSE
