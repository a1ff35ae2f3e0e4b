\* The default capacity is taken (the constructor gets 0); five IDs for three
\* slots, so every ID can be dropped, acknowledged and enqueued again.
CONSTANTS
  Ids = {i1, i2, i3, i4, i5}
  RequestedCapacity = 0
  kDefaultCapacity = 3
  MaxSubmitted = 9
SYMMETRY IdSymmetry
SPECIFICATION Spec
INVARIANTS TypeOK UniqueIds InFlightPrefix Accounting
PROPERTY DropsSpareInFlight
