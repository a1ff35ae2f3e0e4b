\* Three batches for two slots, three faults.  Nothing is left to do once every
\* batch is built and delivered, so the system may stop.
CONSTANTS
  Ids = {i1, i2, i3}
  RequestedCapacity = 2
  kDefaultCapacity = 3
  MaxSubmitted = 3
  client_id = agent
  metric_name = cpu
  Empty = Empty
  NonFinite = NonFinite
  PerMetric = 3
  MaxEventId = 3
  MaxFaults = 3
SPECIFICATION DFairSpec
CHECK_DEADLOCK FALSE
INVARIANTS RetiredOnlyOnceCommitted StoredOnce AnswerOnTheWay
PROPERTY QueueDrains
