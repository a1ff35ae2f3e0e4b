\* The list stops growing at its bound.
SPECIFICATION Spec
CONSTANTS
  a1 = a1
  a2 = a2
  e1 = e1
  e2 = e2
  Empty = Empty
  Garbage = Garbage
  None = None
  Arguments <- MCArguments
  MaxArguments = 4
  MaxInterval = 7
  MaxCapacity = 15
  DefaultInterval = 1000
  DefaultCapacity = 256
INVARIANTS OrderIrrelevant FirstErrorStays AcceptsExactly
CHECK_DEADLOCK FALSE
