CONSTANTS
  Tasks = {t1}
  SkillTasks = {}
  Workers = {w1, w2}
  Calls = {a1, a2}
  AskCalls = {a1, a2}
  SkillStep = skill
  NoCall = NoCall
  NoTask = NoTask
  UseEvaluator = FALSE
  MaxRecoveries = 1
  MaxIterations = 2
  MaxEvalRetries = 0
SPECIFICATION Spec
SYMMETRY Symm
INVARIANTS AnswerMatchesQuestion
CHECK_DEADLOCK FALSE
