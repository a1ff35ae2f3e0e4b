CONSTANTS
  cpu = cpu
  mem = mem
  a1 = a1
  a2 = a2
  None = None
  Empty = Empty
  NonFinite = NonFinite
  Writers = {w1}
  Names = {cpu, mem}
  Batches <- MCBatches
  Subscription <- MCSubscription
  FetchLimit = 2
  Capacity = 3
  MaxEventId = 7
  kDefaultPageSize = 1
  kMaximumPageSize = 2
  kMaxFinite = 1000
SPECIFICATION RFairSpec
INVARIANTS ReceivedInOrder NoEventSkipped NothingBeforeNow
PROPERTY CaughtUp
