CONSTANTS
  NCommands = 2
  MaxOf <- AskCancel
  CancelTarget <- First
  Threads = {t1}
  NoThread = NoThread
  MaxQuestions = 0
  MaxTools = 0
  MaxDeletions = 1
  MaxPauses = 0
  MaxCrashes = 0
SPECIFICATION FairSpec
PROPERTIES CancelAdmitted
CHECK_DEADLOCK FALSE
