SPECIFICATION Spec
CONSTANTS
  MaxWord = 7
  kBytesPerKilobyte = 2
  StatSources <- MCStatSources
  MeminfoSources <- MCMeminfoSources
  ReadFailed = ReadFailed
  Garbage = Garbage
  None = None
INVARIANTS TypeOK SampleWithinBounds IntervalsAdjacent
