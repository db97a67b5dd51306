SPECIFICATION SidesSpec
CONSTANTS
  x1 = x1
  x2 = x2
  keyed = keyed
  plain = plain
  receipt = receipt
  Sessions = {x1, x2}
  Deliveries = {keyed, plain}
  SessionOf <- MCSessionOf
  Keyed = {keyed}
  Receipts = {}
  Loops = {l1}
  Threads = {th1}
  Adapters <- PollingAdapters
  NoDelivery = NoDelivery
  Page = 1
  Capacity = 2
  MaxPurges = 0
  MaxCrashes = 1
  NCommands = 2
  MaxOf <- MixedCommands
  CancelTarget <- FirstCommand
  QueueThreads = {t1}
  NoThread = NoThread
  MaxQuestions = 1
  MaxTools = 1
  MaxDeletions = 1
  MaxPauses = 0
  MaxDeaths = 1
PROPERTIES DeliveriesSettle CommandsMove
CHECK_DEADLOCK FALSE
