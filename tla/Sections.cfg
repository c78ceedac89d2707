\* What linker.ld:7-8 says of the sections.
SPECIFICATION Spec
CHECK_DEADLOCK FALSE
CONSTANTS
  ENTRIES = 8
  hhdm <- MCHhdm
  Frames <- MCFrames
  Layouts <- MCLayouts
  Garbage <- MCGarbage
INVARIANTS
  SectionsKeepPermissions
