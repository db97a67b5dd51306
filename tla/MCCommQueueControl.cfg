CONSTANTS
  NCommands = 3
  MaxOf <- Mixed
  CancelTarget <- First
  Threads = {t1, t2}
  NoThread = NoThread
  MaxQuestions = 1
  MaxTools = 1
  MaxDeletions = 1
  MaxPauses = 1
  MaxCrashes = 1
SPECIFICATION ControlSpec
INVARIANTS TypeOK CommandsHeld
PROPERTIES CancelIsFinal
SYMMETRY Symm
CHECK_DEADLOCK FALSE
