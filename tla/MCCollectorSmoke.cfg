\* The program ends.
SPECIFICATION SSpec
CONSTANTS
  MaxWord = 7
  kBytesPerKilobyte = 2
  StatSources <- MCStatSources
  MeminfoSources <- MCMeminfoSources
  ReadFailed = ReadFailed
  Garbage = Garbage
  None = None
  Empty = Empty
  NonFinite = NonFinite
  nonce = nonce
INVARIANTS OnlyCollectionFails BothQueued
CHECK_DEADLOCK FALSE
