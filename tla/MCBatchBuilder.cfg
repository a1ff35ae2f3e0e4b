SPECIFICATION Spec
CONSTANTS
  a1 = a1
  cpu = cpu
  t1 = t1
  t2 = t2
  n1 = n1
  n2 = n2
  None = None
  Empty = Empty
  NonFinite = NonFinite
  Threads = {t1, t2}
  ClientIds = {a1, Empty}
  Nonces = {n1, n2}
  MetricLists <- MCMetricLists
  MaxBuilders = 3
  MaxSequence = 3
SYMMETRY Symmetry
INVARIANT TypeOK IdsUnique AcceptableToStore
CHECK_DEADLOCK FALSE
