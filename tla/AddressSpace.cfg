\* Sequences of map_page_table calls, beyond the point where memory runs out.
SPECIFICATION Spec
CHECK_DEADLOCK FALSE
CONSTANTS
  ENTRIES = 3
  hhdm <- MCHhdm
  Frames <- MCFrames
  FreeFrames <- MCFreeFrames
  Root = 4096
  DirectMap = 8192
  Requests <- MCRequests
  Garbage <- MCGarbage
INVARIANTS
  TablesFormTree
  EveryPageAccounted
PROPERTIES
  OnlyTablesWritten
  ImplementsPageMap
