\* kmain from pmm_init to hcf on six machines.
SPECIFICATION Spec
CHECK_DEADLOCK FALSE
CONSTANTS
  ENTRIES = 8
  hhdm <- MCHhdm
  Frames <- MCFrames
  Layouts <- MCLayouts
  Garbage <- MCGarbage
INVARIANTS
  KernelStaysMapped
  DirectMapComplete
  NothingElseChanged
  StaleEntriesHarmless
PROPERTIES
  DamageConfined
  BootCompletes
