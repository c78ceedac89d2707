\* What the handler prints as RIP, double faults included.
SPECIFICATION Spec
CHECK_DEADLOCK FALSE
CONSTANTS
  Vectors <- MCVectors
  Devices <- MCDevices
  Arrivals <- MCArrivals
  Nested <- MCNested
  MaxDepth = 1
INVARIANTS
  RipPrintedIsRip
