\* The index stops at its bound.
SPECIFICATION Spec
CONSTANTS
  InitialValues <- MCInitialValues
  Steps <- MCSteps
  kPrecision = 4
  kMaxFinite = 120
  NonFinite = NonFinite
  MaxIndex = 10
INVARIANTS TypeOK NoDrift NoValueSkipped
CHECK_DEADLOCK FALSE
