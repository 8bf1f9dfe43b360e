SPECIFICATION Spec
CONSTANTS
  MaxConnects = 2
  MaxSends = 2
  MaxData = 1
  MaxFlight = 2
  MaxFaults = 1
INVARIANTS AcksOnlySent StreamPrefix
PROPERTIES  ReadsInOrder
CHECK_DEADLOCK FALSE
