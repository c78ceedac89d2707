\* Installing to every kind of device, transfers failing anywhere, undone at
\* once or later.
SPECIFICATION Spec
CHECK_DEADLOCK FALSE
CONSTANTS
  UNINSTALL_DATA_MAX = 256
  UINT32_MAX = 1000
  Scenarios <- MCScenarios
INVARIANTS
  Installed
  PartitionsKept
  Undone
