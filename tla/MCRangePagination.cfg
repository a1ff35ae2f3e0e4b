CONSTANTS
  cpu = cpu
  a1 = a1
  a2 = a2
  host = host
  None = None
  Empty = Empty
  NonFinite = NonFinite
  Writers = {w1}
  Names = {cpu}
  Batches <- MCBatches
  Request <- MCRequest
  Capacity = 3
  MaxEventId = 7
  kDefaultPageSize = 1
  kMaximumPageSize = 2
  kMaxFinite = 100
SPECIFICATION PSpec
INVARIANTS PagesOrdered PagesWithinSnapshot NothingSkipped SessionProgresses LatestIsNewest
INVARIANT AggregatesCoverSnapshot
