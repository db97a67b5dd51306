CONSTANTS
  x1 = x1
  x2 = x2
  keyed = keyed
  plain = plain
  receipt = receipt
  Sessions = {x1, x2}
  Deliveries = {keyed, plain}
  SessionOf <- MCSessionOf
  Keyed = {keyed}
  Receipts = {}
  Loops = {l1}
  Threads = {th1}
  Adapters <- PollingAdapters
  NoDelivery = NoDelivery
  Page = 2
  Capacity = 2
  MaxPurges = 0
  MaxCrashes = 1
SPECIFICATION Spec
PROPERTIES UncertainWasAttempted
CHECK_DEADLOCK FALSE
