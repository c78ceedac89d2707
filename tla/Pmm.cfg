\* The allocator on five memory maps, with owners that overwrite their pages.
SPECIFICATION Spec
CONSTANTS
  NULL = NULL
  Frames <- MCFrames
  Memmaps <- MCMemmaps
  Junk <- MCJunk
INVARIANTS
  TypeOK
  FreeListIntact
  NoPageTwice
  NothingLostNothingStolen
  ReservedUntouched
PROPERTIES
  ImplementsPool
