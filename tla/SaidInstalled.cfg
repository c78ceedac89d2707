\* Is what was said to be installed on the medium?
SPECIFICATION Spec
CHECK_DEADLOCK FALSE
CONSTANTS
  UNINSTALL_DATA_MAX = 256
  UINT32_MAX = 1000
  Scenarios <- Simple
INVARIANT
  SaidInstalled
