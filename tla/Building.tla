------------------------------ MODULE Building -------------------------------
(* main of the build programs beside other machines: an instance of Build  *)
(* whose variables have names of their own.                                *)
CONSTANTS Trees, StubTrees, Edited, MaxVersion, MaxBuilds, MaxFaults
VARIABLES
  program, tree, version, version0, arena, temp_size, walk, dirs, c_sources, asm_sources, objs, disk,
  main_pc, index, builds, faults, unread

B == INSTANCE Build WITH MaxStarts <- MaxBuilds, pc <- main_pc, i <- index, starts <- builds

(* The names the walk has found stay what they were, and the image that is *)
(* started is of this build (main of kernel/nob.c).                        *)
NamesKept    == B!NamesKept
ImageCurrent == B!ImageCurrent
=============================================================================
