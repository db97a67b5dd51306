CONSTANTS
  x1 = x1
  x2 = x2
  keyed = keyed
  plain = plain
  receipt = receipt
  Sessions = {x1}
  Deliveries = {keyed, plain, receipt}
  SessionOf <- MCSessionOf
  Keyed = {keyed}
  Receipts = {receipt}
  Loops = {l1}
  Threads = {th1}
  Adapters <- ReceiptAdapters
  NoDelivery = NoDelivery
  Page = 2
  Capacity = 2
  MaxPurges = 1
  MaxCrashes = 1
SPECIFICATION Spec
INVARIANTS TypeOK SentOnce 
PROPERTIES ErasureHolds
CHECK_DEADLOCK FALSE
