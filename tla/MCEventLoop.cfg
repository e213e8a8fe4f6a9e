CONSTANTS
  Starts <- MCStarts
  Delays <- MCDelays
  Until = 4
  MaxEvents = 5
  MaxRequests = 2
SPECIFICATION Spec
INVARIANT TypeOK
PROPERTY InOrder
CHECK_DEADLOCK FALSE
