\* Eight event IDs for nine metrics: the last batch may not fit.
CONSTANTS
  cpu = cpu
  mem = mem
  a1 = a1
  a2 = a2
  None = None
  Empty = Empty
  NonFinite = NonFinite
  Writers = {w1, w2}
  Names = {cpu, mem}
  Batches <- MCBatches
  Capacity = 2
  MaxEventId = 8
SPECIFICATION FairSpec
INVARIANTS TypeOK BuffersSorted RetainsNewest CommittedOnce DenseEventIds
PROPERTIES CommitEnds ImplementsInterface
