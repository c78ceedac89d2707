\* Exceptions at every point of bring-up, up to three deep.
SPECIFICATION Spec
CHECK_DEADLOCK FALSE
CONSTANTS
  Vectors <- MCVectors
  Devices <- MCDevices
  Arrivals <- MCArrivals
  Nested <- MCNested
  MaxDepth = 3
INVARIANTS
  FrameTrue
  NoResetOnceLoaded
PROPERTIES
  Reported
